----------------------------- MODULE SessionPool -----------------------------
(***************************************************************************)
(* The sessions of a PKCS#11 token: the context handle of                  *)
(* pkg/core/cryptosuite/common/pkcs11/contextHandle.go, which pools them   *)
(* and recovers from a token that loses them, the operations of the pinned *)
(* bccsp/pkcs11 that use them, and the cache of key handles between the    *)
(* two (sdkpatch/cachebridge).                                             *)
(*                                                                         *)
(* A method that holds the read lock from its beginning to its end is one  *)
(* action: readers exclude the recovery, which alone changes the handle.   *)
(* What waits for the write lock, or holds it, takes several.  The token   *)
(* numbers its sessions from 1 in every context, so that a number may mean *)
(* one session in a context and another in the next.                       *)
(***************************************************************************)
EXTENDS Naturals, Sequences, FiniteSets

CONSTANTS
  Threads,      \* goroutines that use the crypto suite
  Ops,          \* what each does: members of {"sign", "verify", "getKey", "keyGen"}
  PoolSize,     \* opts.sessionCacheSize
  OpenRetry,    \* opts.openSessionRetry
  MaxSessions,  \* how many sessions the token opens in a context
  MaxContexts,  \* bound on the contexts that are made
  MaxFaults,    \* bound on what goes wrong with the library and the token
  NoThread

ASSUME SessionPoolAssumption ==
  /\ Ops \in [Threads -> SUBSET {"sign", "verify", "getKey", "keyGen"}]
  /\ {PoolSize, OpenRetry, MaxSessions, MaxContexts} \subseteq Nat \ {0} /\ MaxFaults \in Nat
  /\ NoThread \notin Threads

VARIABLES
  token,    \* the library and the token behind it (external)
  handle,   \* the ContextHandle
  keys,     \* sessionCache: session number -> context of each key handle kept for it, 0 if none
  leaked,   \* read locks of handle.lock that are never given back
  writer,   \* the thread that has or will have handle.lock for writing
  loaded,   \* LoadContextAndLogin has returned
  pc,       \* where each thread is
  op,       \* what it does
  held,     \* its session: number, and the context that opened it
  key,      \* the context of the key handle it found, 0 if none
  tries,    \* attempts of reLogin it has left
  crashed,  \* the process died in the library
  faults    \* faults that may still happen

vars == <<token, handle, keys, leaked, writer, loaded, pc, op, held, key, tries, crashed, faults>>
threadVars == <<pc, op, held, key, tries>>

None == [n |-> 0, birth |-> 0]
NoKeys == [private |-> 0, public |-> 0]
Numbers == 1 .. MaxSessions

Getting == {"get", "validate", "open", "wantOpen", "wantValid", "dispose", "recreate"}
Calls == {"find", "findPublic", "init", "use", "attribute", "generate", "setPublic", "setPrivate"}

TypeOK ==
  /\ token \in [slot : 0 .. 2, ctx : 0 .. MaxContexts, open : SUBSET Numbers, next : 1 .. MaxSessions + 1,
                login : BOOLEAN, active : SUBSET Numbers]
  /\ handle.ctx \in 0 .. MaxContexts /\ handle.slot \in 0 .. 2 /\ handle.recovery \in BOOLEAN /\ handle.alive \in BOOLEAN
  /\ Len(handle.pool) <= PoolSize
  /\ keys \in [Numbers -> [private : 0 .. MaxContexts, public : 0 .. MaxContexts]]
  /\ leaked \in 0 .. Cardinality(Threads) /\ writer \in Threads \cup {NoThread}
  /\ loaded \in BOOLEAN /\ crashed \in BOOLEAN /\ faults \in 0 .. MaxFaults
  /\ pc \in [Threads -> {"out", "return", "close"} \cup Getting \cup Calls]
  /\ (\A t \in Threads : op[t] \in Ops[t] \cup {"none"}) /\ held \in [Threads -> [n : 0 .. MaxSessions, birth : 0 .. MaxContexts]]
  /\ key \in [Threads -> 0 .. MaxContexts]
  /\ tries \in [Threads -> 0 .. OpenRetry + 1]

Init ==
  /\ token = [slot |-> 1, ctx |-> 0, open |-> {}, next |-> 1, login |-> FALSE, active |-> {}]
  /\ handle = [ctx |-> 0, slot |-> 0, pool |-> << >>, recovery |-> FALSE, alive |-> FALSE]
  /\ keys = [n \in Numbers |-> NoKeys]
  /\ leaked = 0 /\ writer = NoThread /\ loaded = FALSE /\ crashed = FALSE /\ faults = MaxFaults
  /\ pc = [t \in Threads |-> "out"] /\ op = [t \in Threads |-> "none"]
  /\ held = [t \in Threads |-> None] /\ key = [t \in Threads |-> 0]
  /\ tries = [t \in Threads |-> 0]

-----------------------------------------------------------------------------
(* The lock, the token and the cache                                       *)

\* sync.RWMutex: a reader waits for the writer that has announced itself.
CanRead == writer = NoThread

\* A fault happens, as long as there may be any.
Fault == faults > 0 /\ faults' = faults - 1

NoFault == UNCHANGED faults

\* The session the token opens next, if it does.
CanOpen(slot) == token.slot = slot /\ slot # 0 /\ token.next <= MaxSessions
Opened == [token EXCEPT !.open = @ \cup {token.next}, !.next = @ + 1]
Fresh == [n |-> token.next, birth |-> token.ctx]

ClearSession(n) == [keys EXCEPT ![n] = NoKeys]

\* Slip: the cache of key handles outlives the sessions.
ClearAllSession_Keeps == keys

ClearAllSession == [n \in Numbers |-> NoKeys]

-----------------------------------------------------------------------------
(* Loading                                                                 *)

\* loadLibInitializer: the library, its context and the slot of the label.  An
\* initializer that fails leaves no entry in the cache of handles.
Load ==
  /\ ~loaded /\ handle.ctx = 0 /\ token.slot # 0
  /\ token' = [token EXCEPT !.ctx = 1]
  /\ handle' = [ctx |-> 1, slot |-> token.slot, pool |-> << >>, recovery |-> FALSE, alive |-> TRUE]
  /\ UNCHANGED <<keys, leaked, writer, loaded, threadVars, crashed, faults>>

\* The rest of LoadContextAndLogin.  A login that fails leaves the session open.
LoadContextAndLogin ==
  /\ ~loaded /\ handle.ctx # 0 /\ CanOpen(handle.slot)
  /\ \/ /\ NoFault
        /\ token' = [Opened EXCEPT !.login = TRUE]
        /\ loaded' = TRUE
        /\ handle' = [handle EXCEPT !.pool = <<Fresh>>]
     \/ /\ Fault
        /\ token' = Opened
        /\ UNCHANGED <<loaded, handle>>
  /\ keys' = ClearAllSession
  /\ UNCHANGED <<leaked, writer, threadVars, crashed>>

-----------------------------------------------------------------------------
(* GetSession                                                              *)

\* An operation begins: it needs a session.
Begin(t, o) ==
  /\ loaded /\ ~crashed /\ pc[t] = "out"
  /\ pc' = [pc EXCEPT ![t] = "get"]
  /\ op' = [op EXCEPT ![t] = o]
  /\ UNCHANGED <<token, handle, keys, leaked, writer, loaded, held, key, tries, crashed, faults>>

\* It ends, with or without an error.
Ends(t) ==
  /\ pc' = [pc EXCEPT ![t] = "out"]
  /\ op' = [op EXCEPT ![t] = "none"]
  /\ held' = [held EXCEPT ![t] = None]
  /\ key' = [key EXCEPT ![t] = 0]

\* The calls of the handle that an operation makes, up to the deferred return
\* of its session.  Keys are not made immutable.
signP11ECDSA == <<"find", "init", "use", "return">>
verifyP11ECDSA == <<"find", "init", "use", "return">>
getECKey == <<"find", "findPublic", "attribute", "return">>
generateECKey == <<"generate", "attribute", "setPublic", "setPrivate", "return">>

CallsOf(o) ==
  CASE o = "sign" -> signP11ECDSA [] o = "verify" -> verifyP11ECDSA [] o = "getKey" -> getECKey [] OTHER -> generateECKey

FirstCall(t) == CallsOf(op[t])[1]

NextCall(t) == LET calls == CallsOf(op[t]) IN calls[1 + CHOOSE i \in DOMAIN calls : calls[i] = pc[t]]

\* Slip: the session stays in the pool.
GetSession_Peeks(t) ==
  /\ ~crashed /\ pc[t] = "get" /\ CanRead
  /\ IF handle.pool # << >>
     THEN /\ held' = [held EXCEPT ![t] = handle.pool[1]]
          /\ pc' = [pc EXCEPT ![t] = "validate"]
     ELSE /\ pc' = [pc EXCEPT ![t] = "open"]
          /\ UNCHANGED held
  /\ UNCHANGED <<handle, token, keys, leaked, writer, loaded, op, key, tries, crashed, faults>>

\* A session of the pool is validated, and without one a session is opened.
GetSession(t) ==
  /\ ~crashed /\ pc[t] = "get" /\ CanRead
  /\ IF handle.pool # << >>
     THEN /\ held' = [held EXCEPT ![t] = handle.pool[1]]
          /\ handle' = [handle EXCEPT !.pool = Tail(@)]
          /\ pc' = [pc EXCEPT ![t] = "validate"]
     ELSE /\ pc' = [pc EXCEPT ![t] = "open"]
          /\ UNCHANGED <<held, handle>>
  /\ UNCHANGED <<token, keys, leaked, writer, loaded, op, key, tries, crashed, faults>>

\* A session that cannot be opened is a reason to log in anew.
OpenSession(t) ==
  /\ ~crashed /\ pc[t] = "open" /\ CanRead
  /\ \/ /\ ~handle.recovery /\ CanOpen(handle.slot)
        /\ token' = Opened
        /\ held' = [held EXCEPT ![t] = Fresh]
        /\ keys' = ClearSession(token.next)
        /\ pc' = [pc EXCEPT ![t] = FirstCall(t)]
        /\ UNCHANGED tries
     \/ /\ handle.recovery \/ ~CanOpen(handle.slot)
        /\ pc' = [pc EXCEPT ![t] = "wantOpen"]
        /\ tries' = [tries EXCEPT ![t] = OpenRetry]
        /\ UNCHANGED <<token, held, keys>>
  /\ UNCHANGED <<handle, leaked, writer, loaded, op, key, crashed, faults>>

\* detectErrorCondition: the label is at another slot, or the session is gone.
ErrorCondition(t) == token.slot # handle.slot \/ held[t].n \notin token.open

\* The early return of a handle in recovery keeps the read lock.  Some errors
\* of the token are answered with a panic, and the session is lost.
ValidateSession(t) ==
  /\ ~crashed /\ pc[t] = "validate" /\ CanRead
  /\ CASE handle.recovery ->
            /\ leaked' = leaked + 1
            /\ held' = [held EXCEPT ![t] = None]
            /\ pc' = [pc EXCEPT ![t] = FirstCall(t)]
            /\ NoFault /\ UNCHANGED <<tries, op, key>>
       [] ~handle.recovery /\ ErrorCondition(t) ->
            /\ pc' = [pc EXCEPT ![t] = "wantValid"]
            /\ tries' = [tries EXCEPT ![t] = 1]
            /\ NoFault /\ UNCHANGED <<leaked, held, op, key>>
       [] OTHER ->
            /\ \/ NoFault /\ pc' = [pc EXCEPT ![t] = FirstCall(t)] /\ UNCHANGED <<held, op, key>>
               \/ Fault /\ Ends(t)
            /\ UNCHANGED <<leaked, tries>>
  /\ UNCHANGED <<token, handle, keys, writer, loaded, crashed>>

\* Lock, first half: no reader comes in any more.
Announce(t) ==
  /\ ~crashed /\ pc[t] \in {"wantOpen", "wantValid"} /\ writer = NoThread
  /\ writer' = t
  /\ UNCHANGED <<token, handle, keys, leaked, loaded, threadVars, crashed, faults>>

\* Lock, second half: the readers are gone.  Readers that leaked are never.
Lock(t) ==
  /\ ~crashed /\ pc[t] \in {"wantOpen", "wantValid"} /\ writer = t /\ leaked = 0
  /\ pc' = [pc EXCEPT ![t] = "dispose"]
  /\ held' = [held EXCEPT ![t] = None]
  /\ UNCHANGED <<token, handle, keys, leaked, writer, loaded, op, key, tries, crashed, faults>>

\* disposePKCS11Ctx: everything the context had goes with it.
DisposePKCS11Ctx(t) ==
  /\ ~crashed /\ pc[t] = "dispose"
  /\ IF handle.recovery THEN UNCHANGED <<token, handle, keys>>
     ELSE /\ handle' = [handle EXCEPT !.recovery = TRUE, !.pool = << >>, !.alive = FALSE]
          /\ token' = [token EXCEPT !.open = {}, !.login = FALSE, !.active = {}]
          /\ keys' = ClearAllSession
  /\ pc' = [pc EXCEPT ![t] = "recreate"]
  /\ UNCHANGED <<leaked, writer, loaded, op, held, key, tries, crashed, faults>>

\* Slip: the lock is given back only if the attempt succeeded.
EndAttempt_KeepsLock(t, session) ==
  IF session # None
  THEN /\ held' = [held EXCEPT ![t] = session]
       /\ pc' = [pc EXCEPT ![t] = FirstCall(t)]
       /\ writer' = NoThread
       /\ tries' = [tries EXCEPT ![t] = 0]
  ELSE /\ tries' = [tries EXCEPT ![t] = @ - 1]
       /\ pc' = [pc EXCEPT ![t] = IF tries[t] > 1 THEN "dispose" ELSE FirstCall(t)]
       /\ UNCHANGED <<held, writer>>

\* An attempt of reLogin is over.  After the last one the session is 0.
EndAttempt(t, session) ==
  IF session # None
  THEN /\ held' = [held EXCEPT ![t] = session]
       /\ pc' = [pc EXCEPT ![t] = FirstCall(t)]
       /\ writer' = NoThread
       /\ tries' = [tries EXCEPT ![t] = 0]
  ELSE /\ tries' = [tries EXCEPT ![t] = @ - 1]
       /\ pc' = [pc EXCEPT ![t] = IF tries[t] > 1 THEN "dispose" ELSE FirstCall(t)]
       /\ writer' = IF tries[t] > 1 THEN t ELSE NoThread
       /\ UNCHANGED held

\* The rest of reLogin: createNewPKCS11Ctx, findSlot, createNewSession, Login.
\* Only a context that was not made leaves the handle in recovery.
Recreated(login, open) ==
  [token EXCEPT !.ctx = @ + 1, !.open = IF open THEN {1} ELSE {}, !.next = IF open THEN 2 ELSE 1, !.login = login, !.active = {}]

ReLogin(t) ==
  /\ ~crashed /\ pc[t] = "recreate"
  /\ \/ /\ IF token.ctx < MaxContexts THEN Fault ELSE NoFault     \* no context
        /\ handle' = [handle EXCEPT !.ctx = 0]
        /\ EndAttempt(t, None)
        /\ UNCHANGED <<token, keys>>
     \/ /\ token.ctx < MaxContexts                                 \* no slot, or no session or login
        /\ IF token.slot = 0 THEN NoFault /\ token' = Recreated(FALSE, FALSE)
           ELSE Fault /\ \E open \in BOOLEAN : token' = Recreated(FALSE, open)
        /\ handle' = [handle EXCEPT !.ctx = token.ctx + 1, !.recovery = FALSE, !.alive = TRUE]
        /\ EndAttempt(t, None)
        /\ UNCHANGED keys
     \/ /\ token.ctx < MaxContexts /\ token.slot # 0 /\ NoFault
        /\ token' = Recreated(TRUE, TRUE)
        /\ handle' = [handle EXCEPT !.ctx = token.ctx + 1, !.recovery = FALSE, !.alive = TRUE, !.slot = token.slot]
        /\ keys' \in {keys, ClearSession(1)}                         \* GetSession clears, validateSession does not
        /\ EndAttempt(t, [n |-> 1, birth |-> token.ctx + 1])
  /\ UNCHANGED <<leaked, loaded, op, key, crashed>>

-----------------------------------------------------------------------------
(* The operations                                                          *)

\* A call of the handle went well, or ends the operation.  An error that says
\* that the session is invalid closes it, any other one returns it.
Goes(t) == pc' = [pc EXCEPT ![t] = NextCall(t)]
Fails(t, e) == pc' = [pc EXCEPT ![t] = IF e = "invalid" THEN "close" ELSE "return"]

Valid(t) == held[t].n \in token.open

\* The key handle that is kept for the session, or one that is looked for now;
\* private keys show up after a login only.
GetKeyPairFromSessionSKI(t, secret) ==
  LET kept == IF secret THEN keys[held[t].n].private ELSE keys[held[t].n].public
  IN  CASE kept # 0 -> [ctx |-> kept, err |-> "none"]
        [] kept = 0 /\ ~Valid(t) -> [ctx |-> 0, err |-> "invalid"]
        [] OTHER -> IF secret /\ ~token.login THEN [ctx |-> 0, err |-> "other"] ELSE [ctx |-> token.ctx, err |-> "none"]

\* getECKey goes on without the private key.
FindKeyPairFromSKI(t) ==
  /\ ~crashed /\ pc[t] \in {"find", "findPublic"} /\ CanRead
  /\ LET n == held[t].n
         secret == pc[t] = "find" /\ op[t] # "verify"
         found == IF n = 0 \/ handle.recovery THEN [ctx |-> 0, err |-> "other"] ELSE GetKeyPairFromSessionSKI(t, secret)
     IN  /\ IF found.err = "none" \/ (secret /\ op[t] = "getKey") THEN Goes(t) ELSE Fails(t, found.err)
         /\ key' = [key EXCEPT ![t] = found.ctx]
         /\ keys' = CASE found.err # "none" -> keys
                      [] found.err = "none" /\ secret -> [keys EXCEPT ![n].private = found.ctx]
                      [] OTHER -> [keys EXCEPT ![n].public = found.ctx]
  /\ UNCHANGED <<token, handle, leaked, writer, loaded, op, held, tries, crashed, faults>>

\* SignInit and VerifyInit: a key handle of another context is none.
SignInit(t) ==
  /\ ~crashed /\ pc[t] = "init" /\ CanRead
  /\ CASE handle.recovery -> Fails(t, "other") /\ UNCHANGED token
       [] ~handle.recovery /\ ~Valid(t) -> Fails(t, "invalid") /\ UNCHANGED token
       [] OTHER -> IF key[t] # token.ctx \/ held[t].n \in token.active THEN Fails(t, "other") /\ UNCHANGED token
                   ELSE Goes(t) /\ token' = [token EXCEPT !.active = @ \cup {held[t].n}]
  /\ UNCHANGED <<handle, keys, leaked, writer, loaded, op, held, key, tries, crashed, faults>>

\* Sign and Verify.  A session without an operation is closed by Sign, and
\* returned nevertheless.
Sign(t) ==
  LET n == held[t].n
  IN  /\ ~crashed /\ pc[t] = "use" /\ CanRead
      /\ CASE handle.recovery -> Fails(t, "other") /\ UNCHANGED <<token, keys>>
           [] ~handle.recovery /\ ~Valid(t) -> Fails(t, "invalid") /\ UNCHANGED <<token, keys>>
           [] OTHER -> IF n \in token.active THEN Goes(t) /\ token' = [token EXCEPT !.active = @ \ {n}] /\ UNCHANGED keys
                       ELSE /\ Fails(t, "other")
                            /\ token' = IF op[t] = "sign" THEN [token EXCEPT !.open = @ \ {n}] ELSE token
                            /\ keys' = IF op[t] = "sign" THEN ClearSession(n) ELSE keys
      /\ UNCHANGED <<handle, leaked, writer, loaded, op, held, key, tries, crashed, faults>>

\* GenerateKeyPair, GetAttributeValue and SetAttributeValue.
Call(t) ==
  /\ ~crashed /\ pc[t] \in {"generate", "attribute", "setPublic", "setPrivate"} /\ CanRead
  /\ IF handle.recovery \/ (held[t].n = 0 /\ pc[t] = "generate") THEN Fails(t, "other") /\ UNCHANGED key
     ELSE IF ~Valid(t) THEN Fails(t, "invalid") /\ UNCHANGED key
     ELSE IF pc[t] = "generate" THEN Goes(t) /\ key' = [key EXCEPT ![t] = token.ctx]
     ELSE (IF key[t] = token.ctx THEN Goes(t) ELSE Fails(t, "other")) /\ UNCHANGED key
  /\ UNCHANGED <<token, handle, keys, leaked, writer, loaded, op, held, tries, crashed, faults>>

-----------------------------------------------------------------------------
(* Giving the session back                                                 *)

\* ReturnSession: into the pool, unless the session is gone or the pool is full.
ReturnSession(t) ==
  LET n == held[t].n
  IN  /\ ~crashed /\ pc[t] = "return" /\ CanRead
      /\ IF n = 0 \/ handle.recovery THEN UNCHANGED <<token, handle, keys>>
         ELSE IF Valid(t) /\ Len(handle.pool) < PoolSize
         THEN handle' = [handle EXCEPT !.pool = Append(@, held[t])] /\ UNCHANGED <<token, keys>>
         ELSE /\ token' = [token EXCEPT !.open = @ \ {n}, !.active = @ \ {n}]
              /\ keys' = ClearSession(n)
              /\ UNCHANGED handle
      /\ Ends(t)
      /\ UNCHANGED <<leaked, writer, loaded, tries, crashed, faults>>

\* CloseSession takes no lock: it may find a context that was destroyed or
\* never made, or close the session that has the number now.
CloseSession(t) ==
  LET n == held[t].n
  IN  /\ ~crashed /\ pc[t] = "close"
      /\ keys' = ClearSession(n)
      /\ IF handle.alive THEN token' = [token EXCEPT !.open = @ \ {n}, !.active = @ \ {n}] /\ UNCHANGED crashed
         ELSE crashed' = TRUE /\ UNCHANGED token
      /\ Ends(t)
      /\ UNCHANGED <<handle, leaked, writer, loaded, tries, faults>>

-----------------------------------------------------------------------------
(* The token                                                               *)

\* A session dies.
SessionDies(n) ==
  /\ Fault /\ n \in token.open /\ ~crashed
  /\ token' = [token EXCEPT !.open = @ \ {n}, !.active = @ \ {n}]
  /\ UNCHANGED <<handle, keys, leaked, writer, loaded, threadVars, crashed>>

\* The token is taken out, or put in at a slot.
SlotChanges(s) ==
  /\ Fault /\ s # token.slot /\ ~crashed
  /\ token' = [token EXCEPT !.slot = s, !.open = {}, !.active = {}, !.login = FALSE]
  /\ UNCHANGED <<handle, keys, leaked, writer, loaded, threadVars, crashed>>

-----------------------------------------------------------------------------
\* What a thread does under the read lock, under the write lock and without.
Reads(t) ==
  \/ GetSession(t) \/ OpenSession(t) \/ ValidateSession(t)
  \/ FindKeyPairFromSKI(t) \/ SignInit(t) \/ Sign(t) \/ Call(t) \/ ReturnSession(t)

Writes(t) == Lock(t) \/ DisposePKCS11Ctx(t) \/ ReLogin(t)

Next ==
  \/ Load \/ LoadContextAndLogin
  \/ \E t \in Threads : (\E o \in Ops[t] : Begin(t, o)) \/ Reads(t) \/ Announce(t) \/ Writes(t) \/ CloseSession(t)
  \/ \E n \in Numbers : SessionDies(n)
  \/ \E s \in 0 .. 2 : SlotChanges(s)

\* Goroutines run, and sync.RWMutex starves neither readers nor writers.
Fairness ==
  \A t \in Threads : SF_vars(Reads(t)) /\ SF_vars(Announce(t)) /\ WF_vars(Writes(t)) /\ WF_vars(CloseSession(t))

Spec == Init /\ [][Next]_vars /\ Fairness

-----------------------------------------------------------------------------
(* Properties                                                              *)

\* No key handle that is kept for a session is of a context that is gone: a
\* number that the token gives out again does not find the keys of the session
\* that had it before (ClearSession, ClearAllSession).
KeysCurrent ==
  \A n \in Numbers : \A c \in {keys[n].private, keys[n].public} : c # 0 => c = token.ctx /\ handle.alive

\* A session, which is a number and the context that gave it out, is with one
\* thread, or once in the pool.
OneHolder ==
  /\ \A t, u \in Threads : t # u /\ held[t] # None => held[t] # held[u]
  /\ \A i, j \in DOMAIN handle.pool : i # j => handle.pool[i] # handle.pool[j]
  /\ \A t \in Threads, i \in DOMAIN handle.pool : handle.pool[i] # held[t]

\* Two threads use one number only if the context that gave it to one of them is
\* gone: a thread that still has a session of before a recovery of the token
\* (reLogin) can meet there the one that was given the number anew, but no two
\* threads that got theirs from the present context meet.
SharedIsStale ==
  \A t, u \in Threads : t # u /\ held[t].n = held[u].n /\ held[t].n # 0 =>
    held[t].birth < token.ctx \/ held[u].birth < token.ctx

\* The pool gives a session to one goroutine at a time, until the token has to be
\* recovered; after that, a number may be shared, but only with a goroutine
\* whose session the recovery has ended (GetSession, ReturnSession).
Exclusive == OneHolder /\ SharedIsStale

\* GetSession returns, whatever the token does and however many threads find
\* that it has to be logged in to anew, unless validateSession has kept a read
\* lock or the process died.
GetReturns == \A t \in Threads : pc[t] \in Getting ~> pc[t] \notin Getting \/ leaked > 0 \/ crashed
=============================================================================
