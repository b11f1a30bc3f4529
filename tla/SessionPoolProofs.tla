------------------------- MODULE SessionPoolProofs -------------------------
(***************************************************************************)
(* The pool of PKCS#11 sessions hands a session to one goroutine at a time *)
(* and keeps no key handle of a context that is gone, for any goroutines,  *)
(* any size of the pool and any number of sessions, contexts and faults.   *)
(***************************************************************************)
EXTENDS SessionPool, TLAPS

-----------------------------------------------------------------------------
(* The inductive invariant                                                 *)

Sessions == [n : Nat, birth : Nat]
Tokens == [slot : Nat, ctx : Nat, open : SUBSET Nat, next : Nat \ {0}, login : BOOLEAN,
           active : SUBSET Nat]
Handles == [ctx : Nat, slot : Nat, pool : Seq(Sessions), recovery : BOOLEAN, alive : BOOLEAN]
Places == {"out", "return", "close"} \cup Getting \cup Calls

Types ==
  /\ token \in Tokens
  /\ handle \in Handles
  /\ keys \in [Numbers -> [private : Nat, public : Nat]]
  /\ pc \in [Threads -> Places]
  /\ op \in [Threads -> {"sign", "verify", "getKey", "keyGen", "none"}]
  /\ held \in [Threads -> Sessions]

\* The calls that an operation makes, and those of the operation of a thread.
CallsFor(o) == {CallsOf(o)[i] : i \in DOMAIN CallsOf(o)}
CallsIn(t) == CallsFor(op[t])

\* Nobody uses the handle before it is loaded, a handle is usable or being
\* recovered, and the thread that recovers it has the lock.
Lifecycle ==
  /\ ~loaded => /\ \A n \in Numbers : keys[n] = NoKeys
                /\ handle.pool = << >> /\ ~handle.recovery /\ (handle.ctx # 0 => handle.alive)
                /\ \A t \in Threads : pc[t] = "out" /\ held[t] = None
  /\ loaded => (handle.alive <=> ~handle.recovery)
  /\ \A t \in Threads : pc[t] \in {"dispose", "recreate"} => writer = t
  /\ \A t \in Threads : pc[t] = "recreate" => handle.recovery
  /\ \A t \in Threads : pc[t] \in Calls => pc[t] \in CallsIn(t)

\* The token gave the session out already, in this context or an earlier one.
GivenOut(s) == s.n # 0 /\ (s.birth < token.ctx \/ (s.birth = token.ctx /\ s.n < token.next))

Known ==
  /\ \A t \in Threads : held[t] # None => GivenOut(held[t])
  /\ \A i \in DOMAIN handle.pool : GivenOut(handle.pool[i])

IInv == Types /\ Lifecycle /\ Known /\ KeysCurrent /\ OneHolder

-----------------------------------------------------------------------------
(* Operations                                                              *)

\* The calls of an operation end with the return of its session.
LEMMA CallsOfAre ==
    ASSUME NEW o, NEW c, c = CallsOf(o)
    PROVE  \E k \in {4, 5} : /\ DOMAIN c = 1..k
                             /\ \A i \in 1..k : c[i] \in Calls \cup {"return"}
                             /\ c[k] = "return" /\ c[1] \in Calls
<1>1. c \in {signP11ECDSA, verifyP11ECDSA, getECKey, generateECKey}
  BY DEF CallsOf
<1>2. CASE c = signP11ECDSA \/ c = verifyP11ECDSA
  BY <1>2 DEF signP11ECDSA, verifyP11ECDSA, Calls
<1>3. CASE c = getECKey
  BY <1>3 DEF getECKey, Calls
<1>4. CASE c = generateECKey
  BY <1>4 DEF generateECKey, Calls
<1> QED
  BY <1>1, <1>2, <1>3, <1>4

\* An operation starts with one of its calls.
LEMMA FirstCallOf ==
    ASSUME NEW t
    PROVE  FirstCall(t) \in CallsIn(t) /\ FirstCall(t) \in Calls
<1>1. 1 \in DOMAIN CallsOf(op[t]) /\ CallsOf(op[t])[1] \in Calls
  BY CallsOfAre
<1> QED
  BY <1>1 DEF FirstCall, CallsIn, CallsFor

\* A call is followed by the next one or by the return of the session.
LEMMA NextCallOf ==
    ASSUME NEW t, pc[t] \in Calls, pc[t] \in CallsIn(t)
    PROVE  NextCall(t) \in CallsIn(t) /\ NextCall(t) \in Calls \cup {"return"}
<1> DEFINE c == CallsOf(op[t])
           i == CHOOSE j \in DOMAIN c : c[j] = pc[t]
<1>1. PICK k \in {4, 5} : /\ DOMAIN c = 1..k
                          /\ \A j \in 1..k : c[j] \in Calls \cup {"return"}
                          /\ c[k] = "return"
  BY CallsOfAre
<1>2. \E j \in DOMAIN c : c[j] = pc[t]
  BY DEF CallsIn, CallsFor
<1>3. i \in DOMAIN c /\ c[i] = pc[t]
  BY <1>2
<1>4. NextCall(t) = c[1 + i]
  BY DEF NextCall
<1> HIDE DEF i
<1>5. i # k
  BY <1>1, <1>3 DEF Calls
<1>6. 1 + i \in DOMAIN c
  BY <1>1, <1>3, <1>5
<1> QED
  BY <1>1, <1>4, <1>6 DEF CallsIn, CallsFor

\* Calls are not among the steps of GetSession.
LEMMA CallsApart ==
    /\ Calls \cup {"return", "close"} \subseteq Places
    /\ \A x \in Calls \cup {"return", "close"} : x \notin Getting /\ x # "out"
  BY DEF Calls, Getting, Places

-----------------------------------------------------------------------------
(* Types                                                                   *)

\* The initial state satisfies the invariant.
LEMMA InitInv == Init => IInv
<1> SUFFICES ASSUME Init PROVE IInv
  OBVIOUS
<1>1. Types
  <2>1. << >> \in Seq(Sessions) /\ None \in Sessions /\ NoKeys \in [private : Nat, public : Nat]
    BY DEF Sessions, None, NoKeys
  <2>2. token \in Tokens
    BY DEF Init, Tokens
  <2>3. handle \in Handles
    BY <2>1 DEF Init, Handles
  <2> QED
    BY <2>1, <2>2, <2>3 DEF Init, Types, Places
<1>2. handle.pool = << >> /\ DOMAIN handle.pool = {}
  BY DEF Init
<1>3. Lifecycle
  BY <1>2 DEF Init, Lifecycle, Calls
<1>4. Known /\ OneHolder
  BY <1>2 DEF Init, Known, OneHolder
<1>5. KeysCurrent
  BY DEF Init, KeysCurrent, NoKeys
<1> QED
  BY <1>1, <1>3, <1>4, <1>5 DEF IInv

\* What the token may become, field by field.
LEMMA TokenTypes ==
    ASSUME token \in Tokens, NEW n, NEW s \in Nat
    PROVE  /\ Opened \in Tokens
           /\ [Opened EXCEPT !.login = TRUE] \in Tokens
           /\ [token EXCEPT !.ctx = 1] \in Tokens
           /\ \A login, open \in BOOLEAN : Recreated(login, open) \in Tokens
           /\ [token EXCEPT !.open = {}, !.login = FALSE, !.active = {}] \in Tokens
           /\ [token EXCEPT !.open = @ \ {n}, !.active = @ \ {n}] \in Tokens
           /\ [token EXCEPT !.open = @ \ {n}] \in Tokens
           /\ [token EXCEPT !.active = @ \ {n}] \in Tokens
           /\ [token EXCEPT !.slot = s, !.open = {}, !.active = {}, !.login = FALSE] \in Tokens
<1> USE DEF Tokens
<1>1. Opened \in Tokens /\ [Opened EXCEPT !.login = TRUE] \in Tokens
  <2>1. token.open \cup {token.next} \in SUBSET Nat /\ token.next + 1 \in Nat \ {0}
    OBVIOUS
  <2>2. Opened \in Tokens
    BY <2>1 DEF Opened
  <2> QED
    BY <2>2
<1>2. [token EXCEPT !.ctx = 1] \in Tokens
  OBVIOUS
<1>3. ASSUME NEW login \in BOOLEAN, NEW open \in BOOLEAN
      PROVE  Recreated(login, open) \in Tokens
  <2> DEFINE sessions == IF open THEN {1} ELSE {}
             next == IF open THEN 2 ELSE 1
             made == [token EXCEPT !.ctx = token.ctx + 1]
             opened == [made EXCEPT !.open = sessions, !.next = next]
             last == [opened EXCEPT !.login = login, !.active = {}]
  <2>1. sessions \in SUBSET Nat /\ next \in Nat \ {0}
    OBVIOUS
  <2>2. Recreated(login, open) = last
    BY Zenon DEF Recreated
  <2>3. made \in Tokens
    OBVIOUS
  <2> HIDE DEF sessions, next, made
  <2>4. opened \in Tokens
    BY <2>1, <2>3
  <2> HIDE DEF opened
  <2>5. last \in Tokens
    BY <2>4
  <2> QED
    BY <2>2, <2>5
<1>4. [token EXCEPT !.open = {}, !.login = FALSE, !.active = {}] \in Tokens
  OBVIOUS
<1>5. /\ [token EXCEPT !.open = @ \ {n}, !.active = @ \ {n}] \in Tokens
      /\ [token EXCEPT !.open = @ \ {n}] \in Tokens
      /\ [token EXCEPT !.active = @ \ {n}] \in Tokens
  <2>1. token.open \ {n} \in SUBSET Nat /\ token.active \ {n} \in SUBSET Nat
    OBVIOUS
  <2> QED
    BY <2>1
<1>6. [token EXCEPT !.slot = s, !.open = {}, !.active = {}, !.login = FALSE] \in Tokens
  OBVIOUS
<1> QED
  BY <1>1, <1>2, <1>3, <1>4, <1>5, <1>6

\* Every step leaves the token with its types.
LEMMA TokenStep ==
    ASSUME Types, [Next]_vars
    PROVE  token' \in Tokens
<1> USE DEF Types, threadVars
<1>1. ASSUME Load \/ LoadContextAndLogin PROVE token' \in Tokens
  BY <1>1, TokenTypes DEF Load, LoadContextAndLogin
<1>2. ASSUME NEW t \in Threads, OpenSession(t) \/ DisposePKCS11Ctx(t) PROVE token' \in Tokens
  BY <1>2, TokenTypes DEF OpenSession, DisposePKCS11Ctx
<1>3. ASSUME NEW t \in Threads, ReLogin(t) PROVE token' \in Tokens
  BY <1>3, TokenTypes DEF ReLogin
<1>4. ASSUME NEW t \in Threads, SignInit(t) PROVE token' \in Tokens
  <2>1. token' = token \/ token' = [token EXCEPT !.active = token.active \cup {held[t].n}]
    BY <1>4 DEF SignInit
  <2>2. token.active \cup {held[t].n} \in SUBSET Nat
    BY DEF Tokens, Sessions
  <2> QED
    BY <2>1, <2>2 DEF Tokens
<1>5. ASSUME NEW t \in Threads, Sign(t) PROVE token' \in Tokens
  BY <1>5, TokenTypes DEF Sign
<1>6. ASSUME NEW t \in Threads, ReturnSession(t) \/ CloseSession(t) PROVE token' \in Tokens
  BY <1>6, TokenTypes DEF ReturnSession, CloseSession
<1>7. ASSUME NEW n \in Numbers, SessionDies(n) PROVE token' \in Tokens
  BY <1>7, TokenTypes DEF SessionDies
<1>8. ASSUME NEW s \in 0..2, SlotChanges(s) PROVE token' \in Tokens
  <2>1. s \in Nat
    OBVIOUS
  <2>2. token' = [token EXCEPT !.slot = s, !.open = {}, !.active = {}, !.login = FALSE]
    BY <1>8 DEF SlotChanges
  <2> QED
    BY <2>1, <2>2, TokenTypes
<1>9. ASSUME NEW t \in Threads,
             \/ \E o \in Ops[t] : Begin(t, o)
             \/ GetSession(t) \/ ValidateSession(t) \/ FindKeyPairFromSKI(t) \/ Call(t)
             \/ Announce(t) \/ Lock(t)
      PROVE  token' \in Tokens
  BY <1>9 DEF Begin, GetSession, ValidateSession, FindKeyPairFromSKI, Call, Announce, Lock
<1>10. ASSUME UNCHANGED vars PROVE token' \in Tokens
  BY <1>10 DEF vars
<1> QED
  BY <1>1, <1>2, <1>3, <1>4, <1>5, <1>6, <1>7, <1>8, <1>9, <1>10 DEF Next, Reads, Writes

\* What GetSession takes from the pool, and what ReturnSession puts into it.
LEMMA PoolOf ==
    ASSUME NEW pool \in Seq(Sessions), NEW s \in Sessions
    PROVE  /\ pool # << >> => /\ pool[1] \in Sessions /\ 1 \in DOMAIN pool
                              /\ Tail(pool) \in Seq(Sessions)
                              /\ \A i \in DOMAIN Tail(pool) : /\ i \in Nat /\ i + 1 \in DOMAIN pool /\ i + 1 # 1
                                                              /\ Tail(pool)[i] = pool[i + 1]
           /\ Append(pool, s) \in Seq(Sessions)
           /\ DOMAIN pool \subseteq Nat /\ Len(pool) + 1 \notin DOMAIN pool
           /\ DOMAIN Append(pool, s) = DOMAIN pool \cup {Len(pool) + 1}
           /\ \A i \in DOMAIN pool : Append(pool, s)[i] = pool[i]
           /\ Append(pool, s)[Len(pool) + 1] = s
<1> HIDE DEF Sessions
<1>1. Len(pool) \in Nat /\ DOMAIN pool = 1..Len(pool)
  OBVIOUS
<1>2. /\ Append(pool, s) \in Seq(Sessions) /\ DOMAIN Append(pool, s) = 1..(Len(pool) + 1)
      /\ Append(pool, s)[Len(pool) + 1] = s
      /\ \A i \in 1..Len(pool) : Append(pool, s)[i] = pool[i]
  OBVIOUS
<1>3. ASSUME pool # << >>
      PROVE  /\ Len(pool) > 0 /\ pool[1] \in Sessions /\ Tail(pool) \in Seq(Sessions)
             /\ DOMAIN Tail(pool) = 1..(Len(pool) - 1)
             /\ \A i \in 1..(Len(pool) - 1) : Tail(pool)[i] = pool[i + 1]
  BY <1>3
<1>4. pool # << >> => 1 \in DOMAIN pool /\ \A i \in DOMAIN Tail(pool) : i \in Nat /\ i + 1 \in DOMAIN pool /\ i + 1 # 1
  BY <1>1, <1>3
<1>5. /\ DOMAIN pool \subseteq Nat /\ Len(pool) + 1 \notin DOMAIN pool
      /\ DOMAIN Append(pool, s) = DOMAIN pool \cup {Len(pool) + 1}
  BY <1>1, <1>2
<1> QED
  BY <1>1, <1>2, <1>3, <1>4, <1>5

\* A session that is opened is a session.
LEMMA FreshType ==
    ASSUME token \in Tokens
    PROVE  /\ Fresh \in Sessions /\ None \in Sessions
           /\ [n |-> 1, birth |-> token.ctx + 1] \in Sessions
           /\ Fresh # None /\ [n |-> 1, birth |-> token.ctx + 1] # None
  BY DEF Fresh, Sessions, None, Tokens

\* Every step leaves the handle with its types.
LEMMA HandleStep ==
    ASSUME Types, [Next]_vars
    PROVE  handle' \in Handles
<1> USE DEF Types, threadVars
<1>0. << >> \in Seq(Sessions) /\ <<Fresh>> \in Seq(Sessions) /\ token.slot \in Nat /\ token.ctx + 1 \in Nat
  <2>1. Fresh \in Sessions
    BY FreshType
  <2>2. token.slot \in Nat /\ token.ctx + 1 \in Nat
    BY DEF Tokens
  <2> QED
    BY <2>1, <2>2
<1>1. ASSUME Load PROVE handle' \in Handles
  BY <1>0, <1>1 DEF Load, Handles
<1>2. ASSUME LoadContextAndLogin PROVE handle' \in Handles
  BY <1>0, <1>2 DEF LoadContextAndLogin, Handles
<1>3. ASSUME NEW t \in Threads, GetSession(t) PROVE handle' \in Handles
  <2>1. handle' = handle \/ (handle.pool # << >> /\ handle' = [handle EXCEPT !.pool = Tail(handle.pool)])
    BY <1>3 DEF GetSession
  <2>2. handle.pool # << >> => Tail(handle.pool) \in Seq(Sessions)
    BY PoolOf, FreshType DEF Handles
  <2> QED
    BY <2>1, <2>2 DEF Handles
<1>4. ASSUME NEW t \in Threads, DisposePKCS11Ctx(t) PROVE handle' \in Handles
  BY <1>0, <1>4 DEF DisposePKCS11Ctx, Handles
<1>5. ASSUME NEW t \in Threads, ReLogin(t) PROVE handle' \in Handles
  <2>1. \/ handle' = [handle EXCEPT !.ctx = 0]
        \/ handle' = [handle EXCEPT !.ctx = token.ctx + 1, !.recovery = FALSE, !.alive = TRUE]
        \/ handle' = [handle EXCEPT !.ctx = token.ctx + 1, !.recovery = FALSE, !.alive = TRUE, !.slot = token.slot]
    BY <1>5 DEF ReLogin
  <2> DEFINE remade == [handle EXCEPT !.ctx = token.ctx + 1]
             usable == [remade EXCEPT !.recovery = FALSE, !.alive = TRUE]
  <2>2. [handle EXCEPT !.ctx = 0] \in Handles /\ remade \in Handles
    BY <1>0 DEF Handles
  <2>3. /\ [handle EXCEPT !.ctx = token.ctx + 1, !.recovery = FALSE, !.alive = TRUE] = usable
        /\ [handle EXCEPT !.ctx = token.ctx + 1, !.recovery = FALSE, !.alive = TRUE, !.slot = token.slot]
             = [usable EXCEPT !.slot = token.slot]
    BY Zenon
  <2> HIDE DEF remade
  <2>4. usable \in Handles
    BY <2>2 DEF Handles
  <2> HIDE DEF usable
  <2>5. [usable EXCEPT !.slot = token.slot] \in Handles
    BY <1>0, <2>4 DEF Handles
  <2> QED
    BY <2>1, <2>2, <2>3, <2>4, <2>5
<1>6. ASSUME NEW t \in Threads, ReturnSession(t) PROVE handle' \in Handles
  <2>1. handle' = handle \/ handle' = [handle EXCEPT !.pool = Append(handle.pool, held[t])]
    BY <1>6 DEF ReturnSession
  <2>2. Append(handle.pool, held[t]) \in Seq(Sessions)
    BY PoolOf DEF Handles
  <2> QED
    BY <2>1, <2>2 DEF Handles
<1>7. ASSUME NEW t \in Threads,
             \/ \E o \in Ops[t] : Begin(t, o)
             \/ OpenSession(t) \/ ValidateSession(t) \/ FindKeyPairFromSKI(t) \/ SignInit(t)
             \/ Call(t) \/ Announce(t) \/ Lock(t) \/ CloseSession(t)
      PROVE  handle' \in Handles
  BY <1>7 DEF Begin, OpenSession, ValidateSession, FindKeyPairFromSKI, SignInit, Call, Announce,
              Lock, CloseSession
<1>8. ASSUME NEW t \in Threads, Sign(t) PROVE handle' \in Handles
  BY <1>8 DEF Sign
<1>9. ASSUME (\E n \in Numbers : SessionDies(n)) \/ (\E s \in 0..2 : SlotChanges(s)) \/ UNCHANGED vars
      PROVE  handle' \in Handles
  BY <1>9 DEF SessionDies, SlotChanges, vars
<1> QED
  BY <1>1, <1>2, <1>3, <1>4, <1>5, <1>6, <1>7, <1>8, <1>9 DEF Next, Reads, Writes

-----------------------------------------------------------------------------
(* The threads                                                             *)

\* What holds of the places of the threads and of their operations.
Placed ==
  /\ pc \in [Threads -> Places]
  /\ op \in [Threads -> {"sign", "verify", "getKey", "keyGen", "none"}]
  /\ \A t \in Threads : pc[t] \in Calls => pc[t] \in CallsFor(op[t])

\* Where an operation may go on from a call.
Onwards(t) == CallsFor(op[t]) \cap (Calls \cup {"return"})

\* A thread moves on within its operation, or away from its calls.
LEMMA Moves ==
    ASSUME Placed, NEW t \in Threads, NEW p,
           pc' = [pc EXCEPT ![t] = p], p \in Onwards(t) \cup {"return", "close"} \cup Getting, op' = op
    PROVE  Placed'
<1>1. p \in Places /\ (p \in Calls => p \in CallsFor(op[t]))
  BY DEF Onwards, Places, Calls, Getting
<1>2. ASSUME NEW u \in Threads, pc'[u] \in Calls PROVE pc'[u] \in CallsFor(op'[u])
  BY <1>1, <1>2 DEF Placed
<1> QED
  BY <1>1, <1>2 DEF Placed

\* A thread ends its operation.
LEMMA Leaves ==
    ASSUME Placed, NEW t \in Threads, Ends(t)
    PROVE  Placed'
<1>1. "out" \in Places /\ "out" \notin Calls
  BY DEF Places, Calls
<1>2. pc' \in [Threads -> Places]
  BY <1>1 DEF Ends, Placed
<1>3. op' \in [Threads -> {"sign", "verify", "getKey", "keyGen", "none"}]
  BY DEF Ends, Placed
<1>4. ASSUME NEW u \in Threads, pc'[u] \in Calls PROVE pc'[u] \in CallsFor(op'[u])
  BY <1>1, <1>4 DEF Ends, Placed
<1> QED
  BY <1>2, <1>3, <1>4 DEF Placed

\* A call that goes on or fails stays within the operation.
LEMMA GoesOn ==
    ASSUME Placed, NEW t \in Threads, pc[t] \in Calls
    PROVE  NextCall(t) \in Onwards(t)
  BY NextCallOf DEF Placed, CallsIn, Onwards

\* The first call of an operation.
LEMMA StartsOn ==
    ASSUME NEW t
    PROVE  FirstCall(t) \in Onwards(t)
  BY FirstCallOf DEF CallsIn, Onwards

\* Every step keeps the threads within their operations.
LEMMA PlacedStep ==
    ASSUME Placed, [Next]_vars
    PROVE  Placed'
<1> USE DEF threadVars
<1>1. ASSUME NEW t \in Threads, NEW o \in Ops[t], Begin(t, o) PROVE Placed'
  <2>1. o \in {"sign", "verify", "getKey", "keyGen", "none"}
    BY SessionPoolAssumption
  <2>2. "get" \in Places /\ "get" \notin Calls
    BY DEF Places, Calls, Getting
  <2>3. pc' = [pc EXCEPT ![t] = "get"] /\ op' = [op EXCEPT ![t] = o]
    BY <1>1 DEF Begin
  <2>4. pc' \in [Threads -> Places] /\ op' \in [Threads -> {"sign", "verify", "getKey", "keyGen", "none"}]
    BY <2>1, <2>2, <2>3 DEF Placed
  <2>5. ASSUME NEW u \in Threads, pc'[u] \in Calls PROVE pc'[u] \in CallsFor(op'[u])
    BY <2>2, <2>3, <2>5 DEF Placed
  <2> QED
    BY <2>4, <2>5 DEF Placed
<1>2. ASSUME NEW t \in Threads, GetSession(t) PROVE Placed'
  <2>1. op' = op /\ \E p \in {"validate", "open"} : pc' = [pc EXCEPT ![t] = p]
    BY <1>2 DEF GetSession
  <2> QED
    BY <2>1, Moves DEF Getting
<1>3. ASSUME NEW t \in Threads, OpenSession(t) PROVE Placed'
  <2>1. op' = op /\ \E p \in {FirstCall(t), "wantOpen"} : pc' = [pc EXCEPT ![t] = p]
    BY <1>3 DEF OpenSession
  <2> QED
    BY <2>1, Moves, StartsOn DEF Getting
<1>4. ASSUME NEW t \in Threads, ValidateSession(t) PROVE Placed'
  <2>1. \/ op' = op /\ \E p \in {FirstCall(t), "wantValid"} : pc' = [pc EXCEPT ![t] = p]
        \/ Ends(t)
    BY <1>4 DEF ValidateSession
  <2> QED
    BY <2>1, Moves, Leaves, StartsOn DEF Getting
<1>5. ASSUME NEW t \in Threads, FindKeyPairFromSKI(t) \/ SignInit(t) \/ Sign(t) \/ Call(t) PROVE Placed'
  <2>1. pc[t] \in Calls /\ op' = op
    BY <1>5 DEF FindKeyPairFromSKI, SignInit, Sign, Call, Calls
  <2>2. ASSUME FindKeyPairFromSKI(t) PROVE Goes(t) \/ \E e \in {"none", "invalid", "other"} : Fails(t, e)
    BY <2>2 DEF FindKeyPairFromSKI, GetKeyPairFromSessionSKI
  <2>3. ASSUME SignInit(t) \/ Call(t) PROVE Goes(t) \/ \E e \in {"invalid", "other"} : Fails(t, e)
    BY <2>3 DEF SignInit, Call
  <2>4. ASSUME Sign(t) PROVE Goes(t) \/ \E e \in {"invalid", "other"} : Fails(t, e)
    BY <2>4 DEF Sign
  <2>5. \E p \in {NextCall(t), "return", "close"} : pc' = [pc EXCEPT ![t] = p]
    BY <1>5, <2>2, <2>3, <2>4 DEF Goes, Fails
  <2> QED
    BY <2>1, <2>5, Moves, GoesOn
<1>6. ASSUME NEW t \in Threads, ReturnSession(t) \/ CloseSession(t) PROVE Placed'
  BY <1>6, Leaves DEF ReturnSession, CloseSession
<1>7. ASSUME NEW t \in Threads, Lock(t) \/ DisposePKCS11Ctx(t) PROVE Placed'
  <2>1. op' = op /\ \E p \in {"dispose", "recreate"} : pc' = [pc EXCEPT ![t] = p]
    BY <1>7 DEF Lock, DisposePKCS11Ctx
  <2> QED
    BY <2>1, Moves DEF Getting
<1>8. ASSUME NEW t \in Threads, ReLogin(t) PROVE Placed'
  <2>1. op' = op /\ \E s : EndAttempt(t, s)
    BY <1>8 DEF ReLogin
  <2>2. \E p \in {FirstCall(t), "dispose"} : pc' = [pc EXCEPT ![t] = p]
    BY <2>1 DEF EndAttempt
  <2> QED
    BY <2>1, <2>2, Moves, StartsOn DEF Getting
<1>9. ASSUME UNCHANGED <<pc, op>> PROVE Placed'
  BY <1>9 DEF Placed
<1>10. ASSUME \/ Load \/ LoadContextAndLogin \/ \E t \in Threads : Announce(t)
              \/ \E n \in Numbers : SessionDies(n)
              \/ \E s \in 0..2 : SlotChanges(s)
              \/ UNCHANGED vars
       PROVE  UNCHANGED <<pc, op>>
  BY <1>10 DEF Load, LoadContextAndLogin, Announce, SessionDies, SlotChanges, vars
<1> QED
  BY <1>1, <1>2, <1>3, <1>4, <1>5, <1>6, <1>7, <1>8, <1>9, <1>10 DEF Next, Reads, Writes

-----------------------------------------------------------------------------
(* The handle and its recovery                                             *)

\* Only a thread that has the lock recovers the handle, and only before the
\* first login does anybody else change whether it can be used.
LEMMA LifecycleStep ==
    ASSUME Types, Lifecycle, [Next]_vars
    PROVE  /\ ~loaded' => /\ handle'.pool = << >> /\ ~handle'.recovery /\ (handle'.ctx # 0 => handle'.alive)
                          /\ \A t \in Threads : pc'[t] = "out" /\ held'[t] = None
           /\ loaded' => (handle'.alive <=> ~handle'.recovery)
           /\ \A t \in Threads : pc'[t] \in {"dispose", "recreate"} => writer' = t
           /\ \A t \in Threads : pc'[t] = "recreate" => handle'.recovery
<1> DEFINE Goal == /\ ~loaded' => /\ handle'.pool = << >> /\ ~handle'.recovery /\ (handle'.ctx # 0 => handle'.alive)
                                  /\ \A t \in Threads : pc'[t] = "out" /\ held'[t] = None
                   /\ loaded' => (handle'.alive <=> ~handle'.recovery)
                   /\ \A t \in Threads : pc'[t] \in {"dispose", "recreate"} => writer' = t
                   /\ \A t \in Threads : pc'[t] = "recreate" => handle'.recovery
<1> USE DEF Types, Lifecycle, threadVars
<1>1. ASSUME Load PROVE Goal
  BY <1>1 DEF Load
<1>2. ASSUME LoadContextAndLogin PROVE Goal
  BY <1>2 DEF LoadContextAndLogin, Handles
\* The steps that leave the handle as it is but for the pool.
<1>3. ASSUME NEW t \in Threads, NEW p, loaded, loaded' = loaded,
             handle'.recovery = handle.recovery, handle'.alive = handle.alive, writer' = writer,
             pc' = [pc EXCEPT ![t] = p], p \notin {"dispose", "recreate"}
      PROVE  Goal
  BY <1>3
<1>4. ASSUME NEW t \in Threads, pc[t] # "out" PROVE loaded
  BY <1>4
<1>5. ASSUME NEW t \in Threads, NEW o \in Ops[t], Begin(t, o) PROVE Goal
  <2>1. /\ loaded /\ UNCHANGED <<loaded, handle, writer>> /\ pc' = [pc EXCEPT ![t] = "get"]
    BY <1>5 DEF Begin
  <2> QED
    BY <1>3, <2>1
<1>6. ASSUME NEW t \in Threads, Reads(t) \/ CloseSession(t) PROVE Goal
  <2>1. pc[t] # "out" /\ UNCHANGED <<loaded, writer>>
    BY <1>6 DEF Reads, GetSession, OpenSession, ValidateSession, FindKeyPairFromSKI, SignInit, Sign, Call,
                ReturnSession, CloseSession
  <2>2. handle' = handle \/ \E q : handle' = [handle EXCEPT !.pool = q]
    BY <1>6 DEF Reads, GetSession, OpenSession, ValidateSession, FindKeyPairFromSKI, SignInit, Sign, Call,
                ReturnSession, CloseSession
  <2>3. handle'.recovery = handle.recovery /\ handle'.alive = handle.alive
    BY <2>2 DEF Handles
  <2>4. FirstCall(t) \notin {"dispose", "recreate"}
    BY FirstCallOf, CallsApart DEF Getting
  <2>5. pc[t] \in Calls => NextCall(t) \notin {"dispose", "recreate"}
    BY NextCallOf, CallsApart DEF Getting
  <2>6. ASSUME FindKeyPairFromSKI(t) \/ SignInit(t) \/ Sign(t) \/ Call(t)
        PROVE  pc[t] \in Calls /\ \E p \in {NextCall(t), "return", "close"} : pc' = [pc EXCEPT ![t] = p]
    <3>1. pc[t] \in Calls
      BY <2>6 DEF FindKeyPairFromSKI, SignInit, Sign, Call, Calls
    <3>2. ASSUME FindKeyPairFromSKI(t) PROVE Goes(t) \/ \E e : Fails(t, e)
      BY <3>2 DEF FindKeyPairFromSKI
    <3>3. ASSUME SignInit(t) \/ Call(t) PROVE Goes(t) \/ \E e : Fails(t, e)
      BY <3>3 DEF SignInit, Call
    <3>4. ASSUME Sign(t) PROVE Goes(t) \/ \E e : Fails(t, e)
      BY <3>4 DEF Sign
    <3> QED
      BY <2>6, <3>1, <3>2, <3>3, <3>4 DEF Goes, Fails
  <2>7. \E p \in {"validate", "open", "wantOpen", "wantValid", "out", "return", "close", FirstCall(t), NextCall(t)} :
          /\ pc' = [pc EXCEPT ![t] = p]
          /\ p = NextCall(t) => p = FirstCall(t) \/ pc[t] \in Calls \/ p \notin {"dispose", "recreate"}
    <3>1. ASSUME GetSession(t) PROVE \E p \in {"validate", "open"} : pc' = [pc EXCEPT ![t] = p]
      BY <3>1 DEF GetSession
    <3>2. ASSUME OpenSession(t) PROVE \E p \in {FirstCall(t), "wantOpen"} : pc' = [pc EXCEPT ![t] = p]
      BY <3>2 DEF OpenSession
    <3>3. ASSUME ValidateSession(t) PROVE \E p \in {FirstCall(t), "wantValid", "out"} : pc' = [pc EXCEPT ![t] = p]
      BY <3>3 DEF ValidateSession, Ends
    <3>4. ASSUME ReturnSession(t) \/ CloseSession(t) PROVE pc' = [pc EXCEPT ![t] = "out"]
      BY <3>4 DEF ReturnSession, CloseSession, Ends
    <3> QED
      BY <1>6, <2>6, <3>1, <3>2, <3>3, <3>4 DEF Reads
  <2> QED
    BY <1>3, <1>4, <2>1, <2>3, <2>4, <2>5, <2>7
<1>7. ASSUME NEW t \in Threads, Announce(t) PROVE Goal
  <2>1. \A u \in Threads : pc[u] \notin {"dispose", "recreate"}
    BY <1>7, SessionPoolAssumption DEF Announce
  <2> QED
    BY <1>7, <2>1 DEF Announce
<1>8. ASSUME NEW t \in Threads, Lock(t) PROVE Goal
  <2>1. loaded
    BY <1>4, <1>8 DEF Lock
  <2> QED
    BY <1>8, <2>1 DEF Lock
<1>9. ASSUME NEW t \in Threads, DisposePKCS11Ctx(t) PROVE Goal
  <2>1. loaded /\ writer = t /\ UNCHANGED <<loaded, writer>> /\ pc' = [pc EXCEPT ![t] = "recreate"]
    BY <1>4, <1>9 DEF DisposePKCS11Ctx
  <2>2. handle'.recovery /\ ~handle'.alive
    BY <1>9, <2>1 DEF DisposePKCS11Ctx, Handles
  <2> QED
    BY <2>1, <2>2
<1>10. ASSUME NEW t \in Threads, ReLogin(t) PROVE Goal
  <2>1. loaded /\ writer = t /\ loaded' = loaded /\ handle.recovery /\ ~handle.alive
    BY <1>4, <1>10 DEF ReLogin
  <2>2. FirstCall(t) \notin {"dispose", "recreate"}
    BY FirstCallOf, CallsApart DEF Getting
  <2>3. \E s : EndAttempt(t, s)
    BY <1>10 DEF ReLogin
  <2>4. \/ writer' = NoThread /\ pc' = [pc EXCEPT ![t] = FirstCall(t)]
        \/ writer' = t /\ pc' = [pc EXCEPT ![t] = "dispose"]
    BY <2>1, <2>3, Zenon DEF EndAttempt
  <2>5. handle'.alive <=> ~handle'.recovery
    BY <1>10, <2>1 DEF ReLogin, Handles
  <2>6. \A u \in Threads : u # t => pc[u] \notin {"dispose", "recreate"} /\ pc'[u] = pc[u]
    BY <2>1, <2>4
  <2> QED
    BY <2>1, <2>2, <2>4, <2>5, <2>6
<1>11. ASSUME UNCHANGED <<handle, writer, loaded, pc, held>> PROVE Goal
  BY <1>11
<1>12. ASSUME \/ \E n \in Numbers : SessionDies(n)
              \/ \E s \in 0..2 : SlotChanges(s)
              \/ UNCHANGED vars
       PROVE  UNCHANGED <<handle, writer, loaded, pc, held>>
  BY <1>12 DEF SessionDies, SlotChanges, vars
<1> QED
  BY <1>1, <1>2, <1>5, <1>6, <1>7, <1>8, <1>9, <1>10, <1>11, <1>12 DEF Next, Writes

-----------------------------------------------------------------------------
(* The key handles                                                         *)

KeyHandles == [private : Nat, public : Nat]

\* A kept key handle after a step: it was kept before, it was dropped, or it was
\* found by a call of a usable handle in the context of now.
FromBefore(n) ==
  /\ \/ keys'[n].private \in {0, keys[n].private}
     \/ keys'[n].private = token.ctx /\ handle.alive /\ UNCHANGED <<token, handle>>
  /\ \/ keys'[n].public \in {0, keys[n].public}
     \/ keys'[n].public = token.ctx /\ handle.alive /\ UNCHANGED <<token, handle>>

\* The cache after a session or all of them were cleared.
LEMMA Cleared ==
    ASSUME Types, NEW m, keys' \in {keys, ClearSession(m), ClearAllSession}
    PROVE  keys' \in [Numbers -> KeyHandles] /\ \A n \in Numbers : FromBefore(n)
<1> USE DEF Types, KeyHandles, NoKeys, FromBefore
<1>1. CASE keys' = keys
  BY <1>1
<1>2. CASE keys' = ClearSession(m)
  BY <1>2 DEF ClearSession
<1>3. CASE keys' = ClearAllSession
  BY <1>3 DEF ClearAllSession
<1> QED
  BY <1>1, <1>2, <1>3

\* What the cache of key handles holds after a step.
LEMMA KeysFrom ==
    ASSUME Types, Lifecycle, [Next]_vars
    PROVE  keys' \in [Numbers -> KeyHandles] /\ \A n \in Numbers : FromBefore(n)
<1> DEFINE Goal == keys' \in [Numbers -> KeyHandles] /\ \A n \in Numbers : FromBefore(n)
<1> USE DEF threadVars
<1>1. ASSUME NEW t \in Threads, FindKeyPairFromSKI(t) PROVE Goal
  <2> DEFINE n == held[t].n
             secret == pc[t] = "find" /\ op[t] # "verify"
             got == GetKeyPairFromSessionSKI(t, secret)
             kept == IF secret THEN keys[n].private ELSE keys[n].public
  <2>1. \/ keys' = keys
        \/ /\ ~handle.recovery /\ got.err = "none"
           /\ keys' = IF secret THEN [keys EXCEPT ![n].private = got.ctx] ELSE [keys EXCEPT ![n].public = got.ctx]
    BY <1>1 DEF FindKeyPairFromSKI
  <2>2. got.err = "none" => got.ctx = token.ctx \/ got.ctx = kept
    BY DEF GetKeyPairFromSessionSKI
  <2>3. loaded /\ UNCHANGED <<token, handle>>
    BY <1>1 DEF FindKeyPairFromSKI, Lifecycle
  <2>4. CASE keys' = keys
    BY <2>4, Cleared
  <2>5. CASE n \notin Numbers /\ keys' # keys
    BY <2>1, <2>5 DEF Types
  <2>6. ASSUME n \in Numbers, keys' # keys PROVE Goal
    <3> DEFINE c == got.ctx
    <3>1. /\ ~handle.recovery /\ (c = token.ctx \/ c = kept)
          /\ keys' = IF secret THEN [keys EXCEPT ![n].private = c] ELSE [keys EXCEPT ![n].public = c]
      BY <2>1, <2>2, <2>6
    <3>2. handle.alive
      BY <2>3, <3>1 DEF Lifecycle
    <3>3. keys[n] \in KeyHandles /\ c \in Nat
      BY <2>6, <3>1 DEF Types, KeyHandles, Tokens
    <3> HIDE DEF c, n
    <3>4. keys' \in [Numbers -> KeyHandles]
      BY <2>6, <3>1, <3>3 DEF Types, KeyHandles
    <3>5. ASSUME NEW m \in Numbers PROVE FromBefore(m)
      <4>1. m # n => keys'[m] = keys[m]
        BY <2>6, <3>1 DEF Types
      <4>2. /\ secret => keys'[n].private = c /\ keys'[n].public = keys[n].public
            /\ ~secret => keys'[n].public = c /\ keys'[n].private = keys[n].private
        BY <2>6, <3>1, <3>3 DEF Types, KeyHandles
      <4> QED
        BY <2>3, <3>1, <3>2, <4>1, <4>2 DEF FromBefore
    <3> QED
      BY <3>4, <3>5
  <2> QED
    BY <2>4, <2>5, <2>6
<1>2. ASSUME NEW m, keys' \in {keys, ClearSession(m), ClearAllSession} PROVE Goal
  BY <1>2, Cleared
<1>3. ASSUME LoadContextAndLogin \/ \E t \in Threads : DisposePKCS11Ctx(t) PROVE Goal
  BY <1>2, <1>3 DEF LoadContextAndLogin, DisposePKCS11Ctx
<1>4. ASSUME NEW t \in Threads, OpenSession(t) \/ ReLogin(t) PROVE Goal
  <2>1. \/ keys' = keys \/ keys' = ClearSession(token.next) \/ keys' = ClearSession(1)
    BY <1>4 DEF OpenSession, ReLogin
  <2> QED
    BY <1>2, <2>1
<1>5. ASSUME NEW t \in Threads, Sign(t) \/ ReturnSession(t) \/ CloseSession(t) PROVE Goal
  <2>1. keys' \in {keys, ClearSession(held[t].n)}
    BY <1>5 DEF Sign, ReturnSession, CloseSession
  <2> QED
    BY <1>2, <2>1
<1>6. ASSUME \/ Load \/ UNCHANGED vars
             \/ \E t \in Threads : \/ \E o \in Ops[t] : Begin(t, o)
                                   \/ GetSession(t) \/ ValidateSession(t) \/ SignInit(t) \/ Call(t)
                                   \/ Announce(t) \/ Lock(t)
             \/ (\E n \in Numbers : SessionDies(n)) \/ (\E s \in 0..2 : SlotChanges(s))
      PROVE  Goal
  <2>1. keys' = keys
    BY <1>6 DEF Load, vars, Begin, GetSession, ValidateSession, SignInit, Call, Announce, Lock, SessionDies,
                SlotChanges
  <2> QED
    BY <1>2, <2>1
<1> QED
  BY <1>1, <1>3, <1>4, <1>5, <1>6 DEF Next, Reads, Writes

\* A context comes and goes only with all of its key handles dropped.
LEMMA KeysStep ==
    ASSUME Types, Lifecycle, KeysCurrent, [Next]_vars
    PROVE  KeysCurrent'
<1> USE DEF threadVars
<1>0. \A n \in Numbers : FromBefore(n) /\ keys[n] \in KeyHandles
  BY KeysFrom DEF Types, KeyHandles
<1>1. ASSUME \A n \in Numbers : keys'[n] = NoKeys PROVE KeysCurrent'
  BY <1>1 DEF KeysCurrent, NoKeys, Numbers
<1>2. ASSUME token'.ctx = token.ctx, handle'.alive = handle.alive PROVE KeysCurrent'
  BY <1>0, <1>2 DEF KeysCurrent, FromBefore, Numbers
<1>3. ASSUME Load \/ LoadContextAndLogin PROVE KeysCurrent'
  BY <1>1, <1>3 DEF Load, LoadContextAndLogin, ClearAllSession, Lifecycle
<1>4. ASSUME NEW t \in Threads, DisposePKCS11Ctx(t) PROVE KeysCurrent'
  BY <1>1, <1>2, <1>4 DEF DisposePKCS11Ctx, ClearAllSession
<1>5. ASSUME NEW t \in Threads, ReLogin(t) PROVE KeysCurrent'
  <2>1. loaded /\ handle.recovery /\ ~handle.alive
    BY <1>5 DEF ReLogin, Lifecycle
  <2>2. \A n \in Numbers : keys[n].private = 0 /\ keys[n].public = 0
    BY <2>1 DEF KeysCurrent
  <2>3. \A n \in Numbers : keys'[n].private = 0 /\ keys'[n].public = 0
    BY <1>0, <2>1, <2>2 DEF FromBefore
  <2> QED
    BY <2>3 DEF KeysCurrent, Numbers
<1>6. ASSUME NEW t \in Threads, GetSession(t) \/ ReturnSession(t) \/ CloseSession(t) PROVE KeysCurrent'
  <2>1. /\ handle' = handle \/ \E q : handle' = [handle EXCEPT !.pool = q]
        /\ token' = token \/ \E a, b : token' = [token EXCEPT !.open = a, !.active = b]
    BY <1>6 DEF GetSession, ReturnSession, CloseSession
  <2> QED
    BY <1>2, <2>1 DEF Types, Handles, Tokens
<1>7. ASSUME NEW t \in Threads, OpenSession(t) \/ SignInit(t) PROVE KeysCurrent'
  BY <1>2, <1>7 DEF OpenSession, Opened, SignInit, Types, Tokens
<1>8. ASSUME NEW t \in Threads, Sign(t) PROVE KeysCurrent'
  <2>1. handle' = handle /\ (token' = token \/ (\E a : token' = [token EXCEPT !.active = a])
                            \/ (\E a : token' = [token EXCEPT !.open = a]))
    BY <1>8 DEF Sign
  <2> QED
    BY <1>2, <2>1 DEF Types, Tokens
<1>9. ASSUME (\E n \in Numbers : SessionDies(n)) \/ (\E s \in 0..2 : SlotChanges(s)) PROVE KeysCurrent'
  BY <1>2, <1>9 DEF SessionDies, SlotChanges, Types, Tokens
<1>10. ASSUME \/ UNCHANGED vars
              \/ \E t \in Threads : \/ \E o \in Ops[t] : Begin(t, o)
                                    \/ ValidateSession(t) \/ FindKeyPairFromSKI(t) \/ Call(t)
                                    \/ Announce(t) \/ Lock(t)
       PROVE  KeysCurrent'
  <2>1. UNCHANGED <<token, handle>>
    BY <1>10 DEF vars, Begin, ValidateSession, FindKeyPairFromSKI, Call, Announce, Lock
  <2> QED
    BY <1>2, <2>1
<1> QED
  BY <1>3, <1>4, <1>5, <1>6, <1>7, <1>8, <1>9, <1>10 DEF Next, Reads, Writes

-----------------------------------------------------------------------------
(* The sessions                                                            *)

Owned == held \in [Threads -> Sessions] /\ Known /\ OneHolder

\* What was given out stays so.
Later == \A s \in Sessions : GivenOut(s) => GivenOut(s)'

\* The token counts its sessions upwards in a context, and its contexts.
LEMMA LaterStep ==
    ASSUME Types, [Next]_vars
    PROVE  Load \/ Later
<1> USE DEF threadVars
<1>1. ASSUME \/ token'.ctx = token.ctx /\ token'.next >= token.next
             \/ token'.ctx > token.ctx
      PROVE  Later
  <2>1. /\ token.ctx \in Nat /\ token.next \in Nat
        /\ token'.ctx \in Nat /\ token'.next \in Nat
    BY TokenStep DEF Types, Tokens
  <2>2. ASSUME NEW s \in Sessions, GivenOut(s) PROVE GivenOut(s)'
    <3>1. s.n \in Nat /\ s.birth \in Nat
      BY DEF Sessions
    <3> QED
      BY <1>1, <2>1, <2>2, <3>1 DEF GivenOut
  <2> QED
    BY <2>2 DEF Later
<1>2. ASSUME token' = token \/ (\E a : token' = [token EXCEPT !.open = a])
             \/ (\E a : token' = [token EXCEPT !.active = a])
             \/ (\E a, b : token' = [token EXCEPT !.open = a, !.active = b])
             \/ (\E a, b, c : token' = [token EXCEPT !.open = a, !.login = b, !.active = c])
             \/ (\E a, b, c, d : token' = [token EXCEPT !.slot = a, !.open = b, !.active = c, !.login = d])
      PROVE  Later
  <2>1. token'.ctx = token.ctx /\ token'.next = token.next
    BY <1>2 DEF Types, Tokens
  <2> QED
    BY <1>1, <2>1 DEF Types, Tokens
<1>3. ASSUME token' = Opened \/ token' = [Opened EXCEPT !.login = TRUE] PROVE Later
  <2>1. token'.ctx = token.ctx /\ token'.next = token.next + 1
    BY <1>3 DEF Opened, Types, Tokens
  <2> QED
    BY <1>1, <2>1 DEF Types, Tokens
<1>4. ASSUME NEW login, NEW open, token' = Recreated(login, open) PROVE Later
  BY <1>1, <1>4 DEF Recreated, Types, Tokens
<1>5. ASSUME LoadContextAndLogin PROVE Later
  BY <1>3, <1>5 DEF LoadContextAndLogin
<1>6. ASSUME NEW t \in Threads, OpenSession(t) PROVE Later
  BY <1>2, <1>3, <1>6 DEF OpenSession
<1>7. ASSUME NEW t \in Threads, ReLogin(t) PROVE Later
  BY <1>2, <1>4, <1>7 DEF ReLogin
<1>8. ASSUME NEW t \in Threads, Sign(t) PROVE Later
  <2>1. \/ token' = token \/ (\E a : token' = [token EXCEPT !.open = a])
        \/ (\E a : token' = [token EXCEPT !.active = a])
    BY <1>8 DEF Sign
  <2> QED
    BY <1>2, <2>1
<1>9. ASSUME NEW t \in Threads, SignInit(t) \/ DisposePKCS11Ctx(t) PROVE Later
  <2>1. \/ token' = token
        \/ token' = [token EXCEPT !.active = token.active \cup {held[t].n}]
        \/ token' = [token EXCEPT !.open = {}, !.login = FALSE, !.active = {}]
    BY <1>9 DEF SignInit, DisposePKCS11Ctx
  <2> QED
    BY <1>2, <2>1
<1>10. ASSUME NEW t \in Threads, ReturnSession(t) \/ CloseSession(t) PROVE Later
  BY <1>2, <1>10 DEF ReturnSession, CloseSession
<1>11. ASSUME (\E n \in Numbers : SessionDies(n)) \/ (\E s \in 0..2 : SlotChanges(s)) PROVE Later
  BY <1>2, <1>11 DEF SessionDies, SlotChanges
<1>12. ASSUME \/ UNCHANGED vars
              \/ \E t \in Threads : \/ \E o \in Ops[t] : Begin(t, o)
                                    \/ GetSession(t) \/ ValidateSession(t) \/ FindKeyPairFromSKI(t) \/ Call(t)
                                    \/ Announce(t) \/ Lock(t)
       PROVE  Later
  <2>1. token' = token
    BY <1>12 DEF vars, Begin, GetSession, ValidateSession, FindKeyPairFromSKI, Call, Announce, Lock
  <2> QED
    BY <1>2, <2>1
<1> QED
  BY <1>5, <1>6, <1>7, <1>8, <1>9, <1>10, <1>11, <1>12 DEF Next, Reads, Writes

\* Sessions that are dropped, from the threads and from the pool.
LEMMA Drops ==
    ASSUME Types, Owned, Later, held' \in [Threads -> Sessions],
           \A t \in Threads : held'[t] \in {None, held[t]},
           handle'.pool = handle.pool \/ handle'.pool = << >>
    PROVE  Owned'
<1>1. \A i \in DOMAIN handle'.pool : i \in DOMAIN handle.pool /\ handle'.pool[i] = handle.pool[i]
  OBVIOUS
<1>2. \A i \in DOMAIN handle.pool : handle.pool[i] \in Sessions
  BY DEF Types, Handles
<1>3. \A i \in DOMAIN handle.pool : handle.pool[i] # None
  BY DEF Owned, Known, GivenOut, None
<1>4. Known'
  BY <1>1, <1>2 DEF Owned, Known, Later
<1>5. OneHolder'
  BY <1>1, <1>3 DEF Owned, OneHolder
<1> QED
  BY <1>4, <1>5 DEF Owned

\* A session that was not given out before is taken by a thread.
LEMMA TakesNew ==
    ASSUME Types, Owned, Later, NEW t \in Threads, NEW s \in Sessions, ~GivenOut(s), GivenOut(s)',
           held' = [held EXCEPT ![t] = s], handle'.pool = handle.pool
    PROVE  Owned'
<1>1. \A i \in DOMAIN handle.pool : handle.pool[i] \in Sessions
  BY DEF Types, Handles
<1>2. s # None
  BY DEF GivenOut, None
<1>3. held' \in [Threads -> Sessions]
  BY DEF Types
<1>4. Known'
  BY <1>1 DEF Owned, Known, Later, Types
<1>5. OneHolder'
  BY <1>2 DEF Owned, Known, OneHolder, Types
<1> QED
  BY <1>3, <1>4, <1>5 DEF Owned

\* A thread takes the first session of the pool.
LEMMA TakesPooled ==
    ASSUME Types, Owned, Later, NEW t \in Threads, handle.pool # << >>,
           held' = [held EXCEPT ![t] = handle.pool[1]], handle'.pool = Tail(handle.pool)
    PROVE  Owned'
<1> DEFINE pool == handle.pool
           rest == Tail(pool)
<1>1. /\ pool[1] \in Sessions /\ 1 \in DOMAIN pool
      /\ \A i \in DOMAIN rest : i \in Nat /\ i + 1 \in DOMAIN pool /\ i + 1 # 1 /\ rest[i] = pool[i + 1]
  BY PoolOf, FreshType DEF Types, Handles
<1>2. \A i \in DOMAIN pool : pool[i] \in Sessions
  BY DEF Types, Handles
<1>3. held' \in [Threads -> Sessions]
  BY <1>1 DEF Types
<1> HIDE DEF rest
<1>4. handle'.pool = rest
  BY DEF rest
<1>5. Known'
  BY <1>1, <1>2, <1>4 DEF Owned, Known, Later, Types
<1>6. OneHolder'
  <2>1. \A u, v \in Threads : u # v /\ held'[u] # None => held'[u] # held'[v]
    BY <1>1 DEF Owned, OneHolder, Types
  <2>2. \A i, j \in DOMAIN rest : i # j => rest[i] # rest[j]
    <3> SUFFICES ASSUME NEW i \in DOMAIN rest, NEW j \in DOMAIN rest, i # j PROVE rest[i] # rest[j]
      OBVIOUS
    <3>1. i + 1 # j + 1
      BY <1>1
    <3> QED
      BY <1>1, <3>1 DEF Owned, OneHolder
  <2>3. \A u \in Threads, i \in DOMAIN rest : rest[i] # held'[u]
    BY <1>1 DEF Owned, OneHolder, Types
  <2> QED
    BY <1>4, <2>1, <2>2, <2>3 DEF OneHolder
<1> QED
  BY <1>3, <1>5, <1>6 DEF Owned

\* A thread puts its session into the pool.
LEMMA GivesBack ==
    ASSUME Types, Owned, Later, NEW t \in Threads, held[t] # None,
           held' = [held EXCEPT ![t] = None], handle'.pool = Append(handle.pool, held[t])
    PROVE  Owned'
<1> DEFINE pool == handle.pool
           more == Append(pool, held[t])
           last == Len(pool) + 1
<1>1. /\ DOMAIN more = DOMAIN pool \cup {last} /\ last \notin DOMAIN pool
      /\ \A i \in DOMAIN pool : more[i] = pool[i]
      /\ more[last] = held[t]
  BY PoolOf DEF Types, Handles
<1>2. \A i \in DOMAIN pool : pool[i] \in Sessions
  BY DEF Types, Handles
<1>3. None \in Sessions /\ held' \in [Threads -> Sessions]
  BY DEF Types, None, Sessions
<1>4. \A i \in DOMAIN pool : pool[i] # None
  BY DEF Owned, Known, GivenOut, None
<1> HIDE DEF more, last
<1>5. handle'.pool = more
  BY DEF more
<1>6. Known'
  BY <1>1, <1>2, <1>5 DEF Owned, Known, Later, Types
<1>7. OneHolder'
  BY <1>1, <1>4, <1>5 DEF Owned, OneHolder, Types
<1> QED
  BY <1>3, <1>6, <1>7 DEF Owned

\* Every step leaves a session with one thread, or once in the pool.
LEMMA OwnedStep ==
    ASSUME Types, Lifecycle, Owned, [Next]_vars
    PROVE  Owned'
<1> USE DEF threadVars
<1>0. None \in Sessions /\ Fresh \in Sessions /\ handle \in Handles /\ held \in [Threads -> Sessions]
  BY FreshType DEF Types
<1>1. ASSUME Load PROVE Owned'
  <2>1. /\ handle'.pool = << >> /\ DOMAIN handle'.pool = {} /\ held' = held
        /\ \A t \in Threads : held'[t] = None
    BY <1>1 DEF Load, Lifecycle
  <2> QED
    BY <1>0, <2>1 DEF Owned, Known, OneHolder
<1>2. ASSUME LoadContextAndLogin PROVE Owned'
  <2>1. held' = held /\ \A t \in Threads : held[t] = None
    BY <1>2 DEF LoadContextAndLogin, Lifecycle
  <2>2. CASE handle' = handle
    <3>1. Later
      BY <1>2, LaterStep DEF LoadContextAndLogin, Load
    <3> QED
      BY <1>0, <2>1, <2>2, <3>1, Drops
  <2>3. CASE handle' = [handle EXCEPT !.pool = <<Fresh>>] /\ token' = [Opened EXCEPT !.login = TRUE]
    <3>0. PICK r \in Sessions : r = [n |-> token.next, birth |-> token.ctx] /\ r = Fresh /\ r # None
      BY <1>0, FreshType DEF Types, Fresh
    <3>1. handle'.pool = <<r>> /\ DOMAIN handle'.pool = {1} /\ handle'.pool[1] = r
      BY <1>0, <2>3, <3>0 DEF Handles
    <3>2. token'.ctx = token.ctx /\ token'.next = token.next + 1 /\ token.next \in Nat /\ token.next # 0
      BY <2>3 DEF Opened, Types, Tokens
    <3>3. GivenOut(r)'
      BY <3>0, <3>2 DEF GivenOut
    <3> QED
      BY <1>0, <2>1, <3>0, <3>1, <3>3 DEF Owned, Known, OneHolder
  <2> QED
    BY <1>2, <2>2, <2>3 DEF LoadContextAndLogin
<1>3. ASSUME NEW t \in Threads, pc[t] # "out" PROVE Later
  BY <1>3, LaterStep DEF Load, Lifecycle
<1>4. ASSUME NEW t \in Threads, GetSession(t) PROVE Owned'
  <2>1. Later
    BY <1>3, <1>4 DEF GetSession
  <2>2. CASE handle.pool # << >>
    <3>1. held' = [held EXCEPT ![t] = handle.pool[1]] /\ handle'.pool = Tail(handle.pool)
      BY <1>0, <1>4, <2>2 DEF GetSession, Handles
    <3> QED
      BY <2>1, <2>2, <3>1, TakesPooled
  <2>3. CASE handle.pool = << >>
    BY <1>0, <1>4, <2>1, <2>3, Drops DEF GetSession
  <2> QED
    BY <2>2, <2>3
<1>5. ASSUME NEW t \in Threads, OpenSession(t) PROVE Owned'
  <2>1. Later /\ handle' = handle
    BY <1>3, <1>5 DEF OpenSession
  <2>2. CASE token' = Opened /\ held' = [held EXCEPT ![t] = Fresh]
    <3>1. token'.ctx = token.ctx /\ token'.next = token.next + 1 /\ token.next \in Nat /\ token.next # 0 /\ token.ctx \in Nat
      BY <2>2 DEF Opened, Types, Tokens
    <3>2. Fresh.n = token.next /\ Fresh.birth = token.ctx
      BY DEF Fresh
    <3>3. PICK r \in Sessions : r = Fresh
      BY <1>0
    <3>4. ~GivenOut(r) /\ GivenOut(r)'
      BY <3>1, <3>2, <3>3 DEF GivenOut
    <3> QED
      BY <2>1, <2>2, <3>3, <3>4, TakesNew
  <2>3. CASE held' = held
    BY <1>0, <2>1, <2>3, Drops
  <2> QED
    BY <1>5, <2>2, <2>3 DEF OpenSession
<1>6. ASSUME NEW t \in Threads, ReLogin(t) PROVE Owned'
  <2>1. Later
    BY <1>3, <1>6 DEF ReLogin
  <2>2. handle'.pool = handle.pool
    BY <1>0, <1>6 DEF ReLogin, Handles
  <2>3. CASE EndAttempt(t, None)
    <3>1. held' = held
      BY <2>3 DEF EndAttempt
    <3> QED
      BY <1>0, <2>1, <2>2, <3>1, Drops
  <2>4. CASE token' = Recreated(TRUE, TRUE) /\ EndAttempt(t, [n |-> 1, birth |-> token.ctx + 1])
    <3>1. token'.ctx = token.ctx + 1 /\ token'.next = 2 /\ token.ctx \in Nat
      BY <2>4 DEF Recreated, Types, Tokens
    <3>2. PICK r \in Sessions : r = [n |-> 1, birth |-> token.ctx + 1] /\ r # None
      BY FreshType DEF Types
    <3>3. held' = [held EXCEPT ![t] = r]
      BY <2>4, <3>2 DEF EndAttempt
    <3>4. ~GivenOut(r) /\ GivenOut(r)'
      BY <3>1, <3>2 DEF GivenOut
    <3> QED
      BY <2>1, <2>2, <3>3, <3>4, TakesNew
  <2> QED
    BY <1>6, <2>3, <2>4 DEF ReLogin
<1>7. ASSUME NEW t \in Threads, ReturnSession(t) PROVE Owned'
  <2>1. Later /\ held' = [held EXCEPT ![t] = None]
    BY <1>3, <1>7 DEF ReturnSession, Ends
  <2>2. CASE handle' = handle
    BY <1>0, <2>1, <2>2, Drops
  <2>3. CASE held[t].n # 0 /\ handle' = [handle EXCEPT !.pool = Append(handle.pool, held[t])]
    <3>1. handle'.pool = Append(handle.pool, held[t]) /\ held[t] # None
      BY <1>0, <2>3 DEF Handles, None
    <3> QED
      BY <2>1, <3>1, GivesBack
  <2> QED
    BY <1>7, <2>2, <2>3 DEF ReturnSession
<1>8. ASSUME NEW t \in Threads, ValidateSession(t) \/ Lock(t) \/ CloseSession(t) PROVE Owned'
  <2>1. Later /\ handle' = handle
    BY <1>3, <1>8 DEF ValidateSession, Lock, CloseSession
  <2>2. held' = held \/ held' = [held EXCEPT ![t] = None]
    BY <1>8 DEF ValidateSession, Lock, CloseSession, Ends
  <2> QED
    BY <1>0, <2>1, <2>2, Drops
<1>9. ASSUME NEW t \in Threads, DisposePKCS11Ctx(t) PROVE Owned'
  <2>1. Later /\ held' = held /\ (handle'.pool = handle.pool \/ handle'.pool = << >>)
    BY <1>0, <1>3, <1>9 DEF DisposePKCS11Ctx, Handles
  <2> QED
    BY <1>0, <2>1, Drops
<1>10. ASSUME held' = held, handle' = handle, Later PROVE Owned'
  BY <1>0, <1>10, Drops
<1>11. ASSUME \/ \E t \in Threads : \/ \E o \in Ops[t] : Begin(t, o)
                                    \/ FindKeyPairFromSKI(t) \/ SignInit(t) \/ Call(t) \/ Announce(t)
              \/ (\E n \in Numbers : SessionDies(n)) \/ (\E s \in 0..2 : SlotChanges(s)) \/ UNCHANGED vars
       PROVE  held' = held /\ handle' = handle
  BY <1>11 DEF Begin, FindKeyPairFromSKI, SignInit, Call, Announce, SessionDies, SlotChanges, vars
<1>12. ASSUME NEW t \in Threads, Sign(t) PROVE held' = held /\ handle' = handle
  BY <1>12 DEF Sign
<1> QED
  BY <1>1, <1>2, <1>4, <1>5, <1>6, <1>7, <1>8, <1>9, <1>10, <1>11, <1>12, LaterStep DEF Next, Reads, Writes

-----------------------------------------------------------------------------
(* The theorems                                                            *)

\* Every step preserves the invariant.
LEMMA NextInv == IInv /\ [Next]_vars => IInv'
<1> SUFFICES ASSUME IInv, [Next]_vars PROVE IInv'
  OBVIOUS
<1> USE DEF IInv
<1>1. Placed /\ Owned
  BY DEF Types, Placed, Lifecycle, CallsIn, Owned
<1>2. Placed' /\ Owned'
  BY <1>1, PlacedStep, OwnedStep
<1>3. keys' \in [Numbers -> KeyHandles]
  BY KeysFrom
<1>4. Types'
  BY <1>2, <1>3, TokenStep, HandleStep DEF Types, Placed, Owned, KeyHandles, Numbers
<1>5. ~loaded' => \A n \in Numbers : keys'[n] = NoKeys
  <2> SUFFICES ASSUME ~loaded', NEW n \in Numbers PROVE keys'[n] = NoKeys
    OBVIOUS
  <2>1. ~loaded
    <3>1. ASSUME NEW t \in Threads, Reads(t) PROVE loaded' = loaded
      BY <3>1 DEF Reads, GetSession, OpenSession, ValidateSession, FindKeyPairFromSKI, SignInit, Sign, Call, ReturnSession
    <3>2. ASSUME NEW t \in Threads, Announce(t) \/ Writes(t) \/ CloseSession(t) \/ \E o \in Ops[t] : Begin(t, o)
          PROVE  loaded' = loaded
      BY <3>2 DEF Announce, Writes, Lock, DisposePKCS11Ctx, ReLogin, CloseSession, Begin
    <3> QED
      BY <3>1, <3>2 DEF Next, Load, LoadContextAndLogin, SessionDies, SlotChanges, vars
  <2>2. keys' = keys \/ keys' = ClearAllSession
    <3>1. ASSUME NEW t \in Threads, Reads(t) PROVE pc[t] # "out"
      BY <3>1 DEF Reads, GetSession, OpenSession, ValidateSession, FindKeyPairFromSKI, SignInit, Sign, Call, ReturnSession
    <3>2. ASSUME NEW t \in Threads, Announce(t) \/ Writes(t) \/ CloseSession(t) PROVE pc[t] # "out"
      BY <3>2 DEF Announce, Writes, Lock, DisposePKCS11Ctx, ReLogin, CloseSession
    <3>3. \A t \in Threads : ~Reads(t) /\ ~Announce(t) /\ ~Writes(t) /\ ~CloseSession(t)
      BY <2>1, <3>1, <3>2 DEF Lifecycle
    <3> QED
      BY <2>1, <3>3 DEF Next, Begin, Load, LoadContextAndLogin, SessionDies, SlotChanges, vars, threadVars
  <2> QED
    BY <2>1, <2>2 DEF Lifecycle, ClearAllSession
<1>6. Lifecycle'
  BY <1>2, <1>5, LifecycleStep DEF Lifecycle, Placed, CallsIn, Numbers
<1>7. KeysCurrent'
  BY KeysStep
<1> QED
  BY <1>2, <1>4, <1>6, <1>7 DEF Owned

\* The invariant holds of every reachable state.
LEMMA Invariant == Spec => []IInv
  BY InitInv, NextInv, PTL DEF Spec

\* No key handle outlives its context: however the sessions are lost, closed and
\* opened again and whatever numbers the token gives them, what the cache keeps
\* for a session is of the context the handle has now.
THEOREM KeysOfContext == Spec => []KeysCurrent
<1>1. IInv => KeysCurrent
  BY DEF IInv
<1> QED
  BY <1>1, Invariant, PTL

\* The pool gives a session to one goroutine at a time, and two goroutines use
\* one session number only if one of them has a session that a recovery of the
\* token has ended: for any goroutines, pool, sessions, recoveries and faults.
THEOREM SessionsExclusive == Spec => []Exclusive
<1>1. IInv => Exclusive
  <2> SUFFICES ASSUME IInv PROVE Exclusive
    OBVIOUS
  <2>1. ASSUME NEW t \in Threads, NEW u \in Threads, t # u, held[t].n = held[u].n, held[t].n # 0
        PROVE  held[t].birth < token.ctx \/ held[u].birth < token.ctx
    <3>1. held[t] \in Sessions /\ held[u] \in Sessions
      BY DEF IInv, Types
    <3>2. held[t] # None /\ held[u] # None
      BY <2>1 DEF None
    <3>3. held[t].birth # held[u].birth
      <4>1. held[t] # held[u]
        BY <2>1, <3>2 DEF IInv, OneHolder
      <4> QED
        BY <2>1, <3>1, <4>1 DEF Sessions
    <3>4. GivenOut(held[t]) /\ GivenOut(held[u])
      BY <3>2 DEF IInv, Known
    <3> QED
      BY <3>3, <3>4 DEF GivenOut
  <2> QED
    BY <2>1 DEF IInv, Exclusive, SharedIsStale
<1> QED
  BY <1>1, Invariant, PTL
=============================================================================
