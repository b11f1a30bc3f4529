--------------------------- MODULE IdentityProofs ---------------------------
(***************************************************************************)
(* Whom a caller of the MSP client signs as, and that an enrolled user can *)
(* sign, for any users, goroutines, CAs and calls, with any number of lost *)
(* answers and crashes.                                                    *)
(***************************************************************************)
EXTENDS Identity, FiniteSetTheorems, TLAPS

-----------------------------------------------------------------------------
(* The inductive invariant                                                 *)

Names == Users \cup {""}
Authorities == CAs \cup {""}
Certs == [id : Names, key : Int, ca : Authorities]
Requests == [op : Ops \cup {""}, id : Names, ca : Authorities]
Places == {"idle", "done", "refused", "load", "registrar", "csr", "send", "store", "write", "reload"}
Records == [pc : Places, req : Requests, key : Int, cert : Certs, by : Certs]

Types ==
  /\ IsFiniteSet(keys) /\ keys \subseteq Nat \ {0}
  /\ store \in [Users -> Certs]
  /\ call \in [Procs -> Records]

\* A user's certificate names the user, was issued, and its key is kept.
Usable(cert, u) == cert.id = u /\ cert.key \in keys /\ cert \in issued

\* The store holds usable certificates, and what a writer left unfinished or damaged.
Stored == \A u \in Users : store[u] \notin {NoCert, Torn, Damaged} => Usable(store[u], u)

\* What a goroutine holds on its way through a call.
Asking(p) ==
  LET c == call[p]
  IN  /\ c.pc \in {"load", "registrar", "csr", "send", "store", "write", "reload"} => c.req.op \in Ops
      /\ c.pc \in {"load", "csr", "send", "store", "write"} /\ c.req.op \in Remembered => c.req.id \in Users
      /\ c.pc = "load" => c.req.op \in {"reenroll", "sign"}
      /\ c.pc \in {"csr", "send", "store", "write"} => c.req.op # "sign"
      /\ c.pc \in {"csr", "send", "store", "write"} /\ c.req.op = "reenroll" => c.by.id = c.req.id
      /\ c.pc \in {"registrar", "reload"} => c.req.op \in RegistrarOps
      /\ c.pc \in {"csr", "store", "write"} => c.req.op # "cainfo"
      /\ c.pc = "send" /\ c.key # 0 => c.key \in keys /\ c.req.op # "cainfo"
      /\ c.pc = "send" /\ c.key = 0 => c.req.op \notin Remembered
      /\ c.pc \in {"registrar", "reload", "csr", "load", "refused"} => c.key = 0
      /\ c.pc \in {"store", "write"} => Usable(c.cert, Subject(p))

\* Whoever was told that its user is enrolled finds a certificate in the store,
\* if only one that is just being replaced or that a failed write damaged.
Enrolled ==
  \A p \in Procs : call[p].pc = "done" /\ call[p].req.op \in {"enroll", "reenroll"} =>
    /\ call[p].req.id \in Users
    /\ \/ store[call[p].req.id] \notin {NoCert, Torn}
       \/ \E q \in Procs : call[q].pc = "write" /\ Subject(q) = call[p].req.id

Signs(p) ==
  call[p].pc = "done" /\ call[p].req.op = "sign" =>
    /\ call[p].cert.id = call[p].req.id /\ call[p].key = call[p].cert.key
    /\ call[p].cert \in issued \cup {EmbeddedCert(u) : u \in Embedded}

IInv == Types /\ Stored /\ (\A p \in Procs : Asking(p)) /\ Enrolled /\ (\A p \in Procs : Signs(p))

-----------------------------------------------------------------------------
(* The stores and the server                                               *)

\* The certificates and records that stand for nothing.
LEMMA Nothings ==
    /\ NoCert \in Certs /\ Torn \in Certs /\ Damaged \in Certs /\ NoRequest \in Requests /\ Idle \in Records
    /\ \A u \in Embedded : EmbeddedCert(u) \in Certs /\ EmbeddedCert(u).id = u
<1>1. "" \in Names /\ "" \in Authorities /\ -1 \in Int /\ -2 \in Int /\ -3 \in Int /\ 0 \in Int
  BY DEF Names, Authorities
<1>2. NoCert \in Certs /\ Torn \in Certs /\ Damaged \in Certs
  BY <1>1 DEF NoCert, Torn, Damaged, Certs
<1>3. NoRequest \in Requests
  BY <1>1 DEF NoRequest, Requests
<1>4. Idle \in Records
  BY <1>1, <1>2, <1>3 DEF Idle, Records, Places
<1>5. ASSUME NEW u \in Embedded PROVE EmbeddedCert(u) \in Certs /\ EmbeddedCert(u).id = u
  <2>1. u \in Names
    BY IdentityAssumption DEF Names
  <2> QED
    BY <1>1, <2>1 DEF EmbeddedCert, Certs
<1> QED
  BY <1>2, <1>3, <1>4, <1>5

\* A certificate whose key is in the key store is a whole one.
LEMMA WholeCert ==
    ASSUME Types, NEW cert, NEW u, Usable(cert, u)
    PROVE  cert \notin {NoCert, Torn}
<1>1. cert.key \in Nat /\ cert.key # 0
  BY DEF Types, Usable
<1>2. NoCert.key = 0 /\ Torn.key = -1 /\ -1 \notin Nat
  BY DEF NoCert, Torn
<1> QED
  BY <1>1, <1>2

\* The user that the identity manager finds is the one it was asked for.
LEMMA FoundUser ==
    ASSUME Types, Stored, NEW u \in Users, NEW user, user = GetUser(u), user.status = "ok"
    PROVE  /\ user.cert \in Certs /\ user.key \in Int
           /\ user.cert.id = u /\ user.key = user.cert.key
           /\ user.cert \in issued \cup {EmbeddedCert(v) : v \in Embedded}
<1>1. CASE LoadUserFromStore(u) = "ok"
  <2>1. store[u] \notin {NoCert, Torn, Damaged}
    BY <1>1 DEF LoadUserFromStore
  <2>2. Usable(store[u], u) /\ store[u] \in Certs
    BY <2>1 DEF Stored, Types
  <2>3. user = [status |-> "ok", cert |-> store[u], key |-> store[u].key]
    BY <1>1 DEF GetUser
  <2>4. user.cert = store[u] /\ user.key = store[u].key
    BY <2>3
  <2>5. store[u].key \in Int
    BY <2>2 DEF Certs
  <2> QED
    BY <2>2, <2>4, <2>5 DEF Usable
<1>2. CASE LoadUserFromStore(u) # "ok"
  <2>1. u \in Embedded /\ user = [status |-> "ok", cert |-> EmbeddedCert(u), key |-> EmbeddedCert(u).key]
    BY <1>2 DEF GetUser, GetEmbedded
  <2>2. user.cert = EmbeddedCert(u) /\ user.key = EmbeddedCert(u).key
    BY <2>1
  <2>3. EmbeddedCert(u) \in Certs /\ EmbeddedCert(u).id = u /\ EmbeddedCert(u).key \in Int
    BY <2>1, Nothings DEF Certs
  <2> QED
    BY <2>1, <2>2, <2>3
<1> QED
  BY <1>1, <1>2

\* A user with a whole certificate in the store is found.
LEMMA StoredIsFound ==
    ASSUME Stored, NEW u \in Users, store[u] \notin {NoCert, Torn, Damaged}
    PROVE  GetUser(u).status = "ok"
<1>1. LoadUserFromStore(u) = "ok"
  BY DEF Stored, Usable, LoadUserFromStore
<1> QED
  BY <1>1 DEF GetUser

\* The server makes certificates when it enrols or reenrols, and then for the
\* name and the key of the request.
LEMMA Answered ==
    ASSUME NEW route, NEW by, NEW k, NEW answer, answer = Handle(route, by, k)
    PROVE  /\ answer.cert \in {NoCert, [id |-> route.id, key |-> k, ca |-> Target(route.ca)]}
           /\ route.path \notin {"enroll", "reenroll"} => answer.cert = NoCert
           /\ route.path \in {"enroll", "reenroll"} /\ answer.ok
                => answer.cert = [id |-> route.id, key |-> k, ca |-> Target(route.ca)]
<1> DEFINE c == Target(route.ca)
           refused == [ok |-> FALSE, ids |-> ids, cert |-> NoCert]
           set(v) == [ok |-> TRUE, ids |-> [ids EXCEPT ![c][route.id] = v], cert |-> NoCert]
           same == [refused EXCEPT !.ok = TRUE]
           cert == [id |-> route.id, key |-> k, ca |-> c]
<1>1. /\ refused.cert = NoCert /\ ~refused.ok /\ same.cert = NoCert
      /\ [same EXCEPT !.cert = cert].cert = cert
      /\ \A v : set(v).cert = NoCert /\ [set(v) EXCEPT !.cert = cert].cert = cert
  OBVIOUS
<1>2. CASE route.path = "enroll"
  <2>1. answer \in {[set(ids[c][route.id] - 1) EXCEPT !.cert = cert], refused}
    BY <1>2 DEF Handle
  <2> QED
    BY <1>1, <1>2, <2>1
<1>3. CASE route.path = "reenroll"
  <2>1. answer \in {[same EXCEPT !.cert = cert], refused}
    BY <1>3 DEF Handle
  <2> QED
    BY <1>1, <1>3, <2>1
<1>4. CASE route.path \notin {"enroll", "reenroll"}
  <2>1. answer \in {refused, same, set(1), set(Revoked), set(Unknown)}
    BY <1>4 DEF Handle
  <2> QED
    BY <1>1, <1>4, <2>1
<1> QED
  BY <1>2, <1>3, <1>4

-----------------------------------------------------------------------------
(* What a step of one goroutine leaves alone                               *)

\* Only p moves on, keys and certificates are never taken back.
Alone(p) ==
  /\ call' \in [Procs -> Records]
  /\ \A q \in Procs : q # p => call'[q] = call[q]
  /\ keys \subseteq keys' /\ issued \subseteq issued'

\* A certificate stays usable.
LEMMA StaysUsable ==
    ASSUME NEW cert, NEW u, Usable(cert, u), keys \subseteq keys', issued \subseteq issued'
    PROVE  cert.id = u /\ cert.key \in keys' /\ cert \in issued'
  BY DEF Usable

\* What the other goroutines hold stays as it was.
LEMMA OthersKept ==
    ASSUME IInv, NEW p \in Procs, Alone(p), NEW q \in Procs, q # p
    PROVE  Asking(q)' /\ Signs(q)'
<1>1. call'[q] = call[q] /\ keys \subseteq keys' /\ issued \subseteq issued'
  BY DEF Alone
<1>2. Subject(q)' = Subject(q)
  BY <1>1 DEF Subject
<1>3. Asking(q) /\ Signs(q)
  BY DEF IInv
<1>4. Signs(q)'
  BY <1>1, <1>3 DEF Signs
<1>5. call[q].pc \in {"store", "write"} => Usable(call[q].cert, Subject(q))
  BY <1>3 DEF Asking
<1>6. call'[q].pc \in {"store", "write"} => Usable(call[q].cert, Subject(q))'
  BY <1>1, <1>2, <1>5 DEF Usable
<1>7. Asking(q)'
  BY <1>1, <1>3, <1>6 DEF Asking
<1> QED
  BY <1>4, <1>7

\* The store stays as it was.
LEMMA StoreKept ==
    ASSUME IInv, NEW p \in Procs, Alone(p), store' = store
    PROVE  Stored'
  BY DEF IInv, Alone, Stored, Usable

\* Nobody who was told of an enrolment is affected by a goroutine that does not
\* write and is not told of one itself.
LEMMA EnrolledKept ==
    ASSUME IInv, NEW p \in Procs, Alone(p), store' = store, call[p].pc # "write",
           call'[p].pc = "done" => call'[p].req.op \notin {"enroll", "reenroll"}
    PROVE  Enrolled'
<1> SUFFICES ASSUME NEW q \in Procs, call'[q].pc = "done", call'[q].req.op \in {"enroll", "reenroll"}
             PROVE  /\ call'[q].req.id \in Users
                    /\ \/ store'[call'[q].req.id] \notin {NoCert, Torn}
                       \/ \E r \in Procs : call'[r].pc = "write" /\ Subject(r)' = call'[q].req.id
  BY DEF Enrolled
<1>1. q # p /\ call'[q] = call[q]
  BY DEF Alone
<1>2. /\ call[q].req.id \in Users
      /\ \/ store[call[q].req.id] \notin {NoCert, Torn}
         \/ \E r \in Procs : call[r].pc = "write" /\ Subject(r) = call[q].req.id
  BY <1>1 DEF IInv, Enrolled
<1>3. ASSUME NEW r \in Procs, call[r].pc = "write"
      PROVE  call'[r].pc = "write" /\ Subject(r)' = Subject(r)
  <2>1. call'[r] = call[r]
    BY <1>3 DEF Alone
  <2> QED
    BY <1>3, <2>1 DEF Subject
<1> QED
  BY <1>1, <1>2, <1>3

\* A step of one goroutine that does not write.
LEMMA OneMoves ==
    ASSUME IInv, NEW p \in Procs, Alone(p), store' = store, call[p].pc # "write",
           IsFiniteSet(keys'), keys' \subseteq Nat \ {0},
           call'[p].pc = "done" => call'[p].req.op \notin {"enroll", "reenroll"},
           Asking(p)', Signs(p)'
    PROVE  IInv'
<1>1. Types'
  BY DEF Types, Alone, IInv
<1>2. \A q \in Procs : Asking(q)' /\ Signs(q)'
  BY OthersKept
<1> QED
  BY <1>1, <1>2, StoreKept, EnrolledKept DEF IInv

\* A goroutine that goes back to idle, with or without an error.
LEMMA GoesIdle ==
    ASSUME IInv, NEW p \in Procs, call' = [call EXCEPT ![p] = Idle], UNCHANGED <<keys, store>>,
           issued \subseteq issued', call[p].pc # "write"
    PROVE  IInv'
<1>1. Alone(p) /\ call'[p] = Idle
  BY Nothings DEF IInv, Types, Alone
<1>2. Asking(p)' /\ Signs(p)'
  BY <1>1 DEF Asking, Signs, Idle
<1>3. IsFiniteSet(keys') /\ keys' \subseteq Nat \ {0}
  BY DEF IInv, Types
<1>4. call'[p].pc # "done"
  BY <1>1 DEF Idle
<1> QED
  BY <1>1, <1>2, <1>3, <1>4, OneMoves

\* An error ends a call.
LEMMA ErrorReturn ==
    ASSUME NEW p \in Procs, Return(p, "error")
    PROVE  call' = [call EXCEPT ![p] = Idle]
  BY DEF Return

-----------------------------------------------------------------------------
(* The steps                                                               *)

\* The record of a goroutine after a step, field by field.
Becomes(p, pc, req, key, cert, by) ==
  call' = [call EXCEPT ![p] = [pc |-> pc, req |-> req, key |-> key, cert |-> cert, by |-> by]]

\* The goroutine's record is replaced, and no other one.
LEMMA BecomesAlone ==
    ASSUME IInv, NEW p \in Procs, NEW pc \in Places, NEW req \in Requests, NEW key \in Int,
           NEW cert \in Certs, NEW by \in Certs, Becomes(p, pc, req, key, cert, by),
           keys \subseteq keys', issued \subseteq issued'
    PROVE  /\ Alone(p)
           /\ call'[p].pc = pc /\ call'[p].req = req /\ call'[p].key = key
           /\ call'[p].cert = cert /\ call'[p].by = by
<1> DEFINE r == [pc |-> pc, req |-> req, key |-> key, cert |-> cert, by |-> by]
<1>1. r \in Records
  BY DEF Records
<1>2. r.pc = pc /\ r.req = req /\ r.key = key /\ r.cert = cert /\ r.by = by
  OBVIOUS
<1>3. call' = [call EXCEPT ![p] = r] /\ call \in [Procs -> Records]
  BY DEF Becomes, IInv, Types
<1> HIDE DEF r
<1>4. call' \in [Procs -> Records] /\ call'[p] = r /\ \A q \in Procs : q # p => call'[q] = call[q]
  BY <1>1, <1>3
<1> QED
  BY <1>2, <1>4 DEF Alone

\* The fields of a goroutine's record, and updates of some of them.
LEMMA RecordFields ==
    ASSUME Types, NEW p \in Procs
    PROVE  /\ call[p].pc \in Places /\ call[p].req \in Requests /\ call[p].key \in Int
           /\ call[p].cert \in Certs /\ call[p].by \in Certs
           /\ call[p] = [pc |-> call[p].pc, req |-> call[p].req, key |-> call[p].key,
                         cert |-> call[p].cert, by |-> call[p].by]
<1>1. call[p] \in Records
  BY DEF Types
<1> QED
  BY <1>1 DEF Records

\* Updating fields of a record.
LEMMA FieldUpdates ==
    ASSUME NEW c, NEW pc, NEW x,
           c = [pc |-> c.pc, req |-> c.req, key |-> c.key, cert |-> c.cert, by |-> c.by]
    PROVE  /\ [c EXCEPT !.pc = pc] = [pc |-> pc, req |-> c.req, key |-> c.key, cert |-> c.cert, by |-> c.by]
           /\ [c EXCEPT !.pc = pc, !.by = x] = [pc |-> pc, req |-> c.req, key |-> c.key, cert |-> c.cert, by |-> x]
           /\ [c EXCEPT !.pc = pc, !.key = x] = [pc |-> pc, req |-> c.req, key |-> x, cert |-> c.cert, by |-> c.by]
           /\ [c EXCEPT !.pc = pc, !.cert = x] = [pc |-> pc, req |-> c.req, key |-> c.key, cert |-> x, by |-> c.by]
<1> DEFINE g == [c EXCEPT !.pc = pc]
<1>1. g = [pc |-> pc, req |-> c.req, key |-> c.key, cert |-> c.cert, by |-> c.by]
  OBVIOUS
<1>2. /\ [c EXCEPT !.pc = pc, !.by = x] = [g EXCEPT !.by = x]
      /\ [c EXCEPT !.pc = pc, !.key = x] = [g EXCEPT !.key = x]
      /\ [c EXCEPT !.pc = pc, !.cert = x] = [g EXCEPT !.cert = x]
  BY Zenon
<1> HIDE DEF g
<1>3. [g EXCEPT !.by = x] = [pc |-> pc, req |-> c.req, key |-> c.key, cert |-> c.cert, by |-> x]
  BY <1>1
<1>4. [g EXCEPT !.key = x] = [pc |-> pc, req |-> c.req, key |-> x, cert |-> c.cert, by |-> c.by]
  BY <1>1
<1>5. [g EXCEPT !.cert = x] = [pc |-> pc, req |-> c.req, key |-> c.key, cert |-> x, by |-> c.by]
  BY <1>1
<1> QED
  BY <1>1, <1>2, <1>3, <1>4, <1>5, Zenon DEF g

\* Updating certificate and key.
LEMMA CertUpdates ==
    ASSUME NEW c, c = [pc |-> c.pc, req |-> c.req, key |-> c.key, cert |-> c.cert, by |-> c.by]
    PROVE  \A pc, x, y :
             /\ [c EXCEPT !.pc = pc, !.cert = x, !.key = y] = [pc |-> pc, req |-> c.req, key |-> y, cert |-> x, by |-> c.by]
             /\ [c EXCEPT !.pc = pc, !.key = y, !.cert = x] = [pc |-> pc, req |-> c.req, key |-> y, cert |-> x, by |-> c.by]
<1> SUFFICES ASSUME NEW pc, NEW x, NEW y
             PROVE  /\ [c EXCEPT !.pc = pc, !.cert = x, !.key = y] = [pc |-> pc, req |-> c.req, key |-> y, cert |-> x, by |-> c.by]
                    /\ [c EXCEPT !.pc = pc, !.key = y, !.cert = x] = [pc |-> pc, req |-> c.req, key |-> y, cert |-> x, by |-> c.by]
  OBVIOUS
<1> DEFINE h == [c EXCEPT !.pc = pc, !.cert = x]
           i == [c EXCEPT !.pc = pc, !.key = y]
<1>1. /\ h = [pc |-> pc, req |-> c.req, key |-> c.key, cert |-> x, by |-> c.by]
      /\ i = [pc |-> pc, req |-> c.req, key |-> y, cert |-> c.cert, by |-> c.by]
  BY FieldUpdates
<1>2. /\ [c EXCEPT !.pc = pc, !.cert = x, !.key = y] = [h EXCEPT !.key = y]
      /\ [c EXCEPT !.pc = pc, !.key = y, !.cert = x] = [i EXCEPT !.cert = x]
  BY Zenon
<1> HIDE DEF h, i
<1>3. [h EXCEPT !.key = y] = [pc |-> pc, req |-> c.req, key |-> y, cert |-> x, by |-> c.by]
  BY <1>1
<1>4. [i EXCEPT !.cert = x] = [pc |-> pc, req |-> c.req, key |-> y, cert |-> x, by |-> c.by]
  BY <1>1
<1> QED
  BY <1>2, <1>3, <1>4, Zenon

\* Updating fields of a record of a function in place.
LEMMA Updates ==
    ASSUME Types, NEW p \in Procs, NEW pc, NEW x, NEW y
    PROVE  /\ call' = [call EXCEPT ![p].pc = pc]
                => Becomes(p, pc, call[p].req, call[p].key, call[p].cert, call[p].by)
           /\ call' = [call EXCEPT ![p].pc = pc, ![p].by = x]
                => Becomes(p, pc, call[p].req, call[p].key, call[p].cert, x)
           /\ call' = [call EXCEPT ![p].pc = pc, ![p].key = x]
                => Becomes(p, pc, call[p].req, x, call[p].cert, call[p].by)
           /\ call' = [call EXCEPT ![p].pc = pc, ![p].cert = x]
                => Becomes(p, pc, call[p].req, call[p].key, x, call[p].by)
           /\ call' = [call EXCEPT ![p].pc = pc, ![p].cert = x, ![p].key = y]
                => Becomes(p, pc, call[p].req, y, x, call[p].by)
           /\ call' = [call EXCEPT ![p].pc = pc, ![p].key = y, ![p].cert = x]
                => Becomes(p, pc, call[p].req, y, x, call[p].by)
           /\ call' = [call EXCEPT ![p] = [@ EXCEPT !.pc = pc, !.by = x]]
                => Becomes(p, pc, call[p].req, call[p].key, call[p].cert, x)
<1> DEFINE c == call[p]
<1>1. /\ call \in [Procs -> Records] /\ c \in Records
  BY DEF Types
<1>2. /\ [c EXCEPT !.pc = pc] = [pc |-> pc, req |-> c.req, key |-> c.key, cert |-> c.cert, by |-> c.by]
      /\ [c EXCEPT !.pc = pc, !.by = x] = [pc |-> pc, req |-> c.req, key |-> c.key, cert |-> c.cert, by |-> x]
      /\ [c EXCEPT !.pc = pc, !.key = x] = [pc |-> pc, req |-> c.req, key |-> x, cert |-> c.cert, by |-> c.by]
      /\ [c EXCEPT !.pc = pc, !.cert = x] = [pc |-> pc, req |-> c.req, key |-> c.key, cert |-> x, by |-> c.by]
      /\ [c EXCEPT !.pc = pc, !.cert = x, !.key = y] = [pc |-> pc, req |-> c.req, key |-> y, cert |-> x, by |-> c.by]
      /\ [c EXCEPT !.pc = pc, !.key = y, !.cert = x] = [pc |-> pc, req |-> c.req, key |-> y, cert |-> x, by |-> c.by]
  <2>1. c = [pc |-> c.pc, req |-> c.req, key |-> c.key, cert |-> c.cert, by |-> c.by]
    BY RecordFields
  <2> HIDE DEF c
  <2>2. /\ [c EXCEPT !.pc = pc] = [pc |-> pc, req |-> c.req, key |-> c.key, cert |-> c.cert, by |-> c.by]
        /\ [c EXCEPT !.pc = pc, !.by = x] = [pc |-> pc, req |-> c.req, key |-> c.key, cert |-> c.cert, by |-> x]
    BY <2>1, FieldUpdates, Zenon
  <2>3. /\ [c EXCEPT !.pc = pc, !.key = x] = [pc |-> pc, req |-> c.req, key |-> x, cert |-> c.cert, by |-> c.by]
        /\ [c EXCEPT !.pc = pc, !.cert = x] = [pc |-> pc, req |-> c.req, key |-> c.key, cert |-> x, by |-> c.by]
    BY <2>1, FieldUpdates, Zenon
  <2>4. [c EXCEPT !.pc = pc, !.cert = x, !.key = y] = [pc |-> pc, req |-> c.req, key |-> y, cert |-> x, by |-> c.by]
    BY <2>1, CertUpdates, Zenon
  <2>5. [c EXCEPT !.pc = pc, !.key = y, !.cert = x] = [pc |-> pc, req |-> c.req, key |-> y, cert |-> x, by |-> c.by]
    BY <2>1, CertUpdates, Zenon
  <2> QED
    BY <2>2, <2>3, <2>4, <2>5, Zenon
<1>3. /\ [call EXCEPT ![p].pc = pc] = [call EXCEPT ![p] = [c EXCEPT !.pc = pc]]
      /\ [call EXCEPT ![p].pc = pc, ![p].by = x] = [call EXCEPT ![p] = [c EXCEPT !.pc = pc, !.by = x]]
      /\ [call EXCEPT ![p].pc = pc, ![p].key = x] = [call EXCEPT ![p] = [c EXCEPT !.pc = pc, !.key = x]]
      /\ [call EXCEPT ![p].pc = pc, ![p].cert = x] = [call EXCEPT ![p] = [c EXCEPT !.pc = pc, !.cert = x]]
      /\ [call EXCEPT ![p].pc = pc, ![p].cert = x, ![p].key = y]
           = [call EXCEPT ![p] = [c EXCEPT !.pc = pc, !.cert = x, !.key = y]]
      /\ [call EXCEPT ![p].pc = pc, ![p].key = y, ![p].cert = x]
           = [call EXCEPT ![p] = [c EXCEPT !.pc = pc, !.key = y, !.cert = x]]
  BY <1>1
<1> QED
  BY <1>2, <1>3, Zenon DEF Becomes

\* The request that a call makes is for its operation and its user.
LEMMA RequestIs ==
    ASSUME NEW o \in Ops, NEW u \in Names, NEW a \in Authorities, NEW req, req = Request(o, u, a)
    PROVE  req \in Requests /\ req.op = o /\ (o \in Remembered => req.id = u)
<1>1. "" \in Names /\ CAName \in Authorities /\ WithDefaultCA(a) \in Authorities /\ "" \in Authorities
  BY IdentityAssumption DEF Names, Authorities, WithDefaultCA
<1>2. ASSUME NEW x \in Names, NEW y \in Authorities, req = [op |-> o, id |-> x, ca |-> y], o \in Remembered => x = u
      PROVE  req \in Requests /\ req.op = o /\ (o \in Remembered => req.id = u)
  <2>1. req.op = o /\ req.id = x
    BY <1>2
  <2>2. [op |-> o, id |-> x, ca |-> y] \in Requests
    BY DEF Requests
  <2> QED
    BY <1>2, <2>1, <2>2, Zenon
<1>3. CASE o = "enroll" \/ o = "reenroll"
  <2>1. req = [op |-> o, id |-> u, ca |-> CAName]
    BY <1>3 DEF Request, EnrollRequest, ReenrollRequest, IdentityOps, AffiliationOps
  <2> QED
    BY <1>1, <1>2, <2>1
<1>4. CASE o \in {"register", "revoke"}
  <2>1. req = [op |-> o, id |-> u, ca |-> a]
    BY <1>4 DEF Request, RegisterRequest, IdentityOps, AffiliationOps
  <2> QED
    BY <1>2, <2>1
<1>5. CASE o \in IdentityOps
  <2>1. req = IdentityRequest(o, u, a)
    BY <1>5 DEF Request, IdentityOps, AffiliationOps
  <2>2. req = [op |-> o, id |-> u, ca |-> a] \/ req = [op |-> o, id |-> u, ca |-> WithDefaultCA(a)]
    BY <2>1 DEF IdentityRequest
  <2> QED
    BY <1>1, <1>2, <2>2
<1>6. CASE o \in AffiliationOps
  <2>1. req = AffiliationRequest(o, u, a)
    BY <1>6 DEF Request, AffiliationOps, IdentityOps
  <2>2. req = [op |-> o, id |-> u, ca |-> a] \/ req = [op |-> o, id |-> u, ca |-> WithDefaultCA(a)]
    BY <2>1 DEF AffiliationRequest
  <2> QED
    BY <1>1, <1>2, <2>2
<1>7. CASE o = "cainfo"
  <2>1. o \notin Remembered /\ req = [op |-> o, id |-> "", ca |-> CAName]
    BY <1>7 DEF Request, CAInfoRequest, IdentityOps, AffiliationOps, Remembered
  <2> QED
    BY <1>1, <1>2, <2>1
<1>8. CASE o = "sign"
  <2>1. req = [op |-> o, id |-> u, ca |-> ""]
    BY <1>8 DEF Request, IdentityOps, AffiliationOps
  <2> QED
    BY <1>1, <1>2, <2>1
<1> QED
  BY <1>3, <1>4, <1>5, <1>6, <1>7, <1>8 DEF Ops, RegistrarOps

\* Operations of the registrar are none of the others.
LEMMA OpsApart ==
    /\ "sign" \notin RegistrarOps /\ "enroll" \notin RegistrarOps
    /\ "reenroll" \notin RegistrarOps /\ "cainfo" \notin RegistrarOps
    /\ Remembered \cap RegistrarOps = {} /\ "cainfo" \notin Remembered
    /\ Ops = Remembered \cup {"cainfo"} \cup RegistrarOps
  BY DEF Ops, RegistrarOps, IdentityOps, AffiliationOps, Remembered

\* A call arrives.
LEMMA BeginStep ==
    ASSUME IInv, NEW p \in Procs, NEW i \in Inputs, Begin(p, i[1], i[2], i[3])
    PROVE  IInv'
<1> DEFINE op == i[1]
           id == i[2]
           req == Request(op, id, i[3])
<1>1. op \in Ops /\ id \in Names /\ i[3] \in Authorities
  BY IdentityAssumption DEF Names, Authorities
<1>2. req \in Requests /\ req.op = op /\ (op \in Remembered => req.id = id)
  <2> HIDE DEF op, id
  <2> QED
    BY <1>1, RequestIs
<1>3. \E at \in {"refused", "csr", "load", "send", "registrar"} :
        /\ call' = [call EXCEPT ![p] = [Idle EXCEPT !.pc = at, !.req = req]]
        /\ at = "csr" => op = "enroll" /\ id # ""
        /\ at = "load" => op \in {"reenroll", "sign"} /\ id # ""
        /\ at = "send" => op = "cainfo"
        /\ at = "registrar" => op \in RegistrarOps
  <2> HIDE DEF op, id
  <2>1. Begin(p, op, id, i[3])
    BY DEF op, id
  <2>2. CASE op = "enroll"
    BY <2>1, <2>2 DEF Begin
  <2>3. CASE op \in {"reenroll", "sign"}
    BY <2>1, <2>3 DEF Begin
  <2>4. CASE op = "cainfo"
    BY <2>1, <2>4 DEF Begin
  <2>5. CASE op \in RegistrarOps
    BY <2>1, <2>5, OpsApart DEF Begin
  <2> QED
    BY <1>1, <2>2, <2>3, <2>4, <2>5 DEF Ops
<1>4. PICK at \in {"refused", "csr", "load", "send", "registrar"} :
        /\ call' = [call EXCEPT ![p] = [Idle EXCEPT !.pc = at, !.req = req]]
        /\ at = "csr" => op = "enroll" /\ id # ""
        /\ at = "load" => op \in {"reenroll", "sign"} /\ id # ""
        /\ at = "send" => op = "cainfo"
        /\ at = "registrar" => op \in RegistrarOps
  BY <1>3
<1> HIDE DEF op, id, req
<1>5. [Idle EXCEPT !.pc = at, !.req = req] = [pc |-> at, req |-> req, key |-> 0, cert |-> NoCert, by |-> NoCert]
  <2> DEFINE g == [Idle EXCEPT !.pc = at]
  <2>1. g = [pc |-> at, req |-> NoRequest, key |-> 0, cert |-> NoCert, by |-> NoCert]
    BY DEF Idle
  <2>2. [Idle EXCEPT !.pc = at, !.req = req] = [g EXCEPT !.req = req]
    BY Zenon
  <2> HIDE DEF g
  <2> QED
    BY <2>1, <2>2
<1>6. Becomes(p, at, req, 0, NoCert, NoCert)
  BY <1>4, <1>5 DEF Becomes
<1>7. UNCHANGED <<keys, issued, store>> /\ call[p].pc \in {"idle", "done"}
  BY DEF Begin
<1>8. at \in Places /\ 0 \in Int
  BY DEF Places
<1>9. /\ Alone(p)
      /\ call'[p].pc = at /\ call'[p].req = req /\ call'[p].key = 0
      /\ call'[p].cert = NoCert /\ call'[p].by = NoCert
  BY <1>2, <1>6, <1>7, <1>8, Nothings, BecomesAlone
<1>10. Asking(p)' /\ Signs(p)'
  <2>1. id # "" /\ op \in Remembered => req.id \in Users
    BY <1>1, <1>2 DEF Names
  <2>2. op \in RegistrarOps => op \notin Remembered
    BY OpsApart
  <2>3. "sign" \notin RegistrarOps /\ "cainfo" \notin RegistrarOps /\ "cainfo" \notin Remembered
        /\ "enroll" \in Remembered /\ "sign" \in Remembered /\ "reenroll" \in Remembered
    BY OpsApart DEF Remembered
  <2>4. Signs(p)'
    BY <1>4, <1>9 DEF Signs
  <2> QED
    BY <1>1, <1>2, <1>4, <1>9, <2>1, <2>2, <2>3, <2>4 DEF Asking
<1>11. IsFiniteSet(keys') /\ keys' \subseteq Nat \ {0}
  BY <1>7 DEF IInv, Types
<1> QED
  BY <1>4, <1>7, <1>9, <1>10, <1>11, OneMoves

\* Reenroll and GetSigningIdentity load the user.
LEMMA LoadStep ==
    ASSUME IInv, NEW p \in Procs, Load(p)
    PROVE  IInv'
<1> DEFINE c == call[p]
           user == GetUser(c.req.id)
<1>1. /\ c.pc = "load" /\ c.req.op \in {"reenroll", "sign"} /\ c.req.id \in Users /\ c.key = 0
      /\ UNCHANGED <<keys, issued, store>>
  BY DEF Load, IInv, Asking, Remembered
<1>2. IsFiniteSet(keys') /\ keys' \subseteq Nat \ {0}
  BY <1>1 DEF IInv, Types
<1>3. CASE user.status # "ok"
  BY <1>1, <1>3, ErrorReturn, GoesIdle DEF Load
<1>4. ASSUME user.status = "ok" PROVE IInv'
  <2>1. /\ user.cert \in Certs /\ user.key \in Int /\ user.cert.id = c.req.id /\ user.key = user.cert.key
        /\ user.cert \in issued \cup {EmbeddedCert(v) : v \in Embedded}
    BY <1>1, <1>4, FoundUser DEF IInv
  <2>2. CASE c.req.op = "sign"
    <3>1. call' = [call EXCEPT ![p].pc = "done", ![p].cert = user.cert, ![p].key = user.key]
      BY <1>4, <2>2 DEF Load
    <3> HIDE DEF user
    <3>2. Becomes(p, "done", c.req, user.key, user.cert, c.by)
      BY <3>1, Updates DEF IInv
    <3>3. c.req \in Requests /\ c.by \in Certs /\ "done" \in Places
      BY RecordFields DEF IInv, Places
    <3>4. /\ Alone(p)
          /\ call'[p].pc = "done" /\ call'[p].req = c.req /\ call'[p].key = user.key /\ call'[p].cert = user.cert
      BY <1>1, <2>1, <3>2, <3>3, BecomesAlone
    <3>5. Signs(p)'
      BY <1>1, <2>1, <3>4 DEF Signs
    <3>6. Asking(p)'
      BY <3>4 DEF Asking
    <3> QED
      BY <1>1, <1>2, <2>2, <3>4, <3>5, <3>6, OneMoves
  <2>3. CASE c.req.op = "reenroll"
    <3>1. call' = [call EXCEPT ![p].pc = "csr", ![p].by = user.cert]
      BY <1>4, <2>3 DEF Load
    <3> HIDE DEF user
    <3>2. Becomes(p, "csr", c.req, c.key, c.cert, user.cert)
      BY <3>1, Updates DEF IInv
    <3>3. c.req \in Requests /\ c.cert \in Certs /\ c.key \in Int /\ "csr" \in Places
      BY RecordFields DEF IInv, Places
    <3>4. /\ Alone(p)
          /\ call'[p].pc = "csr" /\ call'[p].req = c.req /\ call'[p].key = c.key /\ call'[p].by = user.cert
      BY <1>1, <2>1, <3>2, <3>3, BecomesAlone
    <3>5. Signs(p)'
      BY <3>4 DEF Signs
    <3>6. "reenroll" \in Ops /\ "reenroll" \notin RegistrarOps
      BY OpsApart DEF Ops
    <3>7. Asking(p)'
      BY <1>1, <2>1, <2>3, <3>4, <3>6 DEF Asking
    <3> QED
      BY <1>1, <1>2, <3>4, <3>5, <3>7, OneMoves
  <2> QED
    BY <1>1, <2>2, <2>3
<1> QED
  BY <1>3, <1>4

\* A call of the registrar goes on without a key of its own.
LEMMA RegistrarMoves ==
    ASSUME IInv, NEW p \in Procs, call[p].req.op \in RegistrarOps, call[p].key = 0, call[p].pc # "write",
           NEW at \in {"send", "csr"}, NEW by \in Certs, UNCHANGED <<keys, issued, store>>,
           Becomes(p, at, call[p].req, call[p].key, call[p].cert, by)
    PROVE  IInv'
<1>1. call[p].req \in Requests /\ call[p].key \in Int /\ call[p].cert \in Certs /\ at \in Places
  BY RecordFields DEF IInv, Places
<1>2. Alone(p) /\ call'[p].pc = at /\ call'[p].req = call[p].req /\ call'[p].key = call[p].key
  BY <1>1, BecomesAlone
<1>3. Signs(p)'
  BY <1>2 DEF Signs
<1>4. /\ call[p].req.op \in Ops /\ call[p].req.op \notin Remembered
      /\ call[p].req.op \notin {"sign", "reenroll", "cainfo"}
  BY OpsApart DEF Ops
<1>5. Asking(p)'
  BY <1>2, <1>4 DEF Asking
<1>6. IsFiniteSet(keys') /\ keys' \subseteq Nat \ {0}
  BY DEF IInv, Types
<1> QED
  BY <1>2, <1>3, <1>5, <1>6, OneMoves

\* The registrar is found, or has to be enrolled.
LEMMA GetRegistrarStep ==
    ASSUME IInv, NEW p \in Procs, GetRegistrar(p) \/ Reload(p)
    PROVE  IInv'
<1> DEFINE user == GetUser(Registrar)
<1>1. /\ call[p].pc \in {"registrar", "reload"} /\ call[p].req.op \in RegistrarOps /\ call[p].key = 0
      /\ UNCHANGED <<keys, issued, store>>
  BY DEF GetRegistrar, Reload, IInv, Asking
<1>2. Registrar \in Users
  BY IdentityAssumption
<1>3. CASE user.status = "ok" /\ call' = [call EXCEPT ![p].pc = "send", ![p].by = user.cert]
  <2>1. user.cert \in Certs
    BY <1>2, <1>3, FoundUser DEF IInv
  <2> HIDE DEF user
  <2>2. Becomes(p, "send", call[p].req, call[p].key, call[p].cert, user.cert)
    BY <1>3, Updates DEF IInv
  <2> QED
    BY <1>1, <2>1, <2>2, RegistrarMoves
<1>4. CASE call' = [call EXCEPT ![p].pc = "csr"]
  <2>1. Becomes(p, "csr", call[p].req, call[p].key, call[p].cert, call[p].by) /\ call[p].by \in Certs
    BY <1>4, Updates, RecordFields DEF IInv
  <2> QED
    BY <1>1, <2>1, RegistrarMoves
<1>5. CASE Return(p, "error")
  BY <1>1, <1>5, ErrorReturn, GoesIdle
<1>6. user.status \in {"ok", "error", "notFound"}
  BY DEF GetUser
<1> HIDE DEF user
<1>7. GetRegistrar(p) => \/ user.status = "ok" /\ call' = [call EXCEPT ![p].pc = "send", ![p].by = user.cert]
                         \/ call' = [call EXCEPT ![p].pc = "csr"]
                         \/ Return(p, "error")
  BY <1>6 DEF GetRegistrar, user
<1>8. Reload(p) => \/ user.status = "ok" /\ call' = [call EXCEPT ![p].pc = "send", ![p].by = user.cert]
                   \/ Return(p, "error")
  BY DEF Reload, user
<1> QED
  BY <1>3, <1>4, <1>5, <1>7, <1>8

\* A key is made, and kept before the server is asked.
LEMMA GenCSRStep ==
    ASSUME IInv, NEW p \in Procs, GenCSR(p)
    PROVE  IInv'
<1>1. /\ call[p].pc = "csr" /\ keys' = keys \cup {NewKey} /\ UNCHANGED <<issued, store>>
      /\ call' = [call EXCEPT ![p].pc = "send", ![p].key = NewKey]
  BY DEF GenCSR
<1>2. NewKey \in Nat \ {0} /\ IsFiniteSet(keys')
  <2>1. Cardinality(keys) \in Nat /\ IsFiniteSet(keys)
    BY FS_CardinalityType DEF IInv, Types
  <2>2. IsFiniteSet(keys \cup {NewKey})
    BY <2>1, FS_AddElement
  <2> QED
    BY <1>1, <2>1, <2>2 DEF NewKey
<1>3. keys' \subseteq Nat \ {0}
  BY <1>1, <1>2 DEF IInv, Types
<1>4. PICK k \in Nat \ {0} : k = NewKey
  BY <1>2
<1>5. Becomes(p, "send", call[p].req, k, call[p].cert, call[p].by)
  BY <1>1, <1>4, Updates DEF IInv
<1>6. call[p].req \in Requests /\ call[p].by \in Certs /\ call[p].cert \in Certs /\ "send" \in Places
  BY RecordFields DEF IInv, Places
<1>7. k \in Int /\ keys \subseteq keys' /\ issued \subseteq issued' /\ k \in keys'
  BY <1>1, <1>4
<1>8. /\ Alone(p) /\ call'[p].pc = "send" /\ call'[p].req = call[p].req /\ call'[p].key = k
      /\ call'[p].by = call[p].by
  BY <1>5, <1>6, <1>7, BecomesAlone
<1>9. Signs(p)'
  BY <1>8 DEF Signs
<1>10. Asking(p)'
  BY <1>1, <1>7, <1>8 DEF Asking, IInv
<1> QED
  BY <1>1, <1>2, <1>3, <1>8, <1>9, <1>10, OneMoves

\* Whoever asks for a certificate has a user to ask for.
LEMMA SubjectUser ==
    ASSUME IInv, NEW p \in Procs,
           call[p].pc \in {"store", "write"} \/ (call[p].pc = "send" /\ call[p].key # 0)
    PROVE  /\ Subject(p) \in Users /\ call[p].req.op \in Ops /\ call[p].req.op \notin {"sign", "cainfo"}
           /\ call[p].req.op \in Remembered => Subject(p) = call[p].req.id
           /\ call[p].req.op \in RegistrarOps \/ call[p].req.op \in {"enroll", "reenroll"}
<1>1. Asking(p)
  BY DEF IInv
<1>2. call[p].req.op \in Ops /\ call[p].req.op \notin {"sign", "cainfo"}
  BY <1>1 DEF Asking
<1>3. CASE call[p].req.op \in RegistrarOps
  BY <1>2, <1>3, IdentityAssumption, OpsApart DEF Subject
<1>4. CASE call[p].req.op \notin RegistrarOps
  <2>1. call[p].req.op \in Remembered
    BY <1>2, <1>4, OpsApart
  <2>2. call[p].req.id \in Users
    BY <1>1, <2>1 DEF Asking
  <2> QED
    BY <1>2, <1>4, <2>1, <2>2 DEF Subject, Remembered
<1> QED
  BY <1>3, <1>4

\* What a call sends: a call that has a key asks for a certificate for its
\* subject, and no other call does.
LEMMA RouteIs ==
    ASSUME IInv, NEW p \in Procs, call[p].pc = "send"
    PROVE  /\ call[p].key # 0 => /\ Route(p).path \in {"enroll", "reenroll"}
                                 /\ Route(p).id = Subject(p) /\ Route(p).ca = CAName
           /\ call[p].key = 0 => Route(p).path \notin {"enroll", "reenroll"}
<1> DEFINE req == call[p].req
<1>1. CASE call[p].key # 0 /\ req.op = "reenroll"
  <2>1. Route(p) = ReenrollRoute(call[p].by)
    BY <1>1 DEF Route
  <2>2. call[p].by.id = req.id
    BY <1>1 DEF IInv, Asking
  <2>3. Subject(p) = req.id
    BY <1>1, OpsApart DEF Subject
  <2> QED
    BY <1>1, <2>1, <2>2, <2>3 DEF ReenrollRoute
<1>2. CASE call[p].key # 0 /\ req.op # "reenroll"
  <2>1. Route(p) = EnrollRoute(Subject(p))
    BY <1>2 DEF Route
  <2> QED
    BY <1>2, <2>1 DEF EnrollRoute
<1>3. CASE call[p].key = 0
  <2>1. req.op \in RegistrarOps \cup {"cainfo"}
    BY <1>3, OpsApart DEF IInv, Asking
  <2>2. CASE req.op \in IdentityOps
    <3>1. Route(p) = IdentityRoute(AdaptIdentity(req))
      BY <1>3, <2>2 DEF Route, IdentityOps, AffiliationOps
    <3>2. AdaptIdentity(req).call \in {"AddIdentity", "ModifyIdentity", "RemoveIdentity", "GetIdentity", "GetAllIdentities"}
      BY <2>2 DEF AdaptIdentity, IdentityOps
    <3>3. PICK a : a = AdaptIdentity(req)
      OBVIOUS
    <3>4. IdentityRoute(a).path = "identities"
      BY <3>2, <3>3 DEF IdentityRoute, Verbed
    <3> QED
      BY <1>3, <3>1, <3>3, <3>4
  <2>3. CASE req.op \in AffiliationOps
    <3>1. Route(p) = AffiliationRoute(AdaptAffiliation(req))
      BY <1>3, <2>3 DEF Route, AffiliationOps, IdentityOps
    <3>2. AdaptAffiliation(req).call \in {"AddAffiliation", "ModifyAffiliation", "RemoveAffiliation", "GetAffiliation",
                                          "GetAllAffiliations"}
      BY <2>3 DEF AdaptAffiliation, AffiliationOps
    <3>3. PICK a : a = AdaptAffiliation(req)
      OBVIOUS
    <3>4. AffiliationRoute(a).path = "affiliations"
      BY <3>2, <3>3 DEF AffiliationRoute, Verbed
    <3> QED
      BY <1>3, <3>1, <3>3, <3>4
  <2>4. CASE req.op \in {"register", "revoke", "cainfo"}
    <3>1. Route(p) \in {RegisterRoute(AdaptRegister(req)), RevokeRoute(AdaptRegister(req)), CAInfoRoute(AdaptRegister(req))}
      BY <1>3, <2>4 DEF Route, IdentityOps, AffiliationOps
    <3> QED
      BY <1>3, <3>1 DEF RegisterRoute, RevokeRoute, CAInfoRoute, Verbed
  <2> QED
    BY <2>1, <2>2, <2>3, <2>4 DEF RegistrarOps
<1> QED
  BY <1>1, <1>2, <1>3

\* The certificate that comes back is for the subject of the call and its key.
LEMMA SentCert ==
    ASSUME IInv, NEW p \in Procs, call[p].pc = "send", NEW answer,
           answer = Handle(Route(p), call[p].by, call[p].key)
    PROVE  /\ answer.cert # NoCert => /\ answer.cert \in Certs /\ answer.cert.id = Subject(p)
                                      /\ answer.cert.key = call[p].key /\ call[p].key # 0 /\ call[p].key \in keys
           /\ answer.cert = NoCert /\ answer.ok => call[p].req.op \notin Remembered
<1> DEFINE cert == [id |-> Route(p).id, key |-> call[p].key, ca |-> Target(Route(p).ca)]
<1>1. /\ answer.cert \in {NoCert, cert}
      /\ Route(p).path \notin {"enroll", "reenroll"} => answer.cert = NoCert
      /\ Route(p).path \in {"enroll", "reenroll"} /\ answer.ok => answer.cert = cert
  BY Answered
<1>2. CASE call[p].key = 0
  <2>1. answer.cert = NoCert
    BY <1>1, <1>2, RouteIs
  <2>2. call[p].req.op \notin Remembered
    BY <1>2 DEF IInv, Asking
  <2> QED
    BY <2>1, <2>2
<1>3. CASE call[p].key # 0
  <2>1. /\ Route(p).path \in {"enroll", "reenroll"} /\ Route(p).id = Subject(p) /\ Route(p).ca = CAName
    BY <1>3, RouteIs
  <2>2. call[p].key \in keys /\ call[p].key \in Int
    BY <1>3, RecordFields DEF IInv, Asking
  <2>3. Subject(p) \in Names /\ Target(CAName) \in Authorities
    BY <1>3, SubjectUser, IdentityAssumption DEF Names, Authorities, Target
  <2>4. cert = [id |-> Subject(p), key |-> call[p].key, ca |-> Target(CAName)]
    BY <2>1
  <2> HIDE DEF cert
  <2>5. cert \in Certs
    BY <2>2, <2>3, <2>4 DEF Certs
  <2>6. cert.id = Subject(p) /\ cert.key = call[p].key /\ cert # NoCert
    BY <1>3, <2>4 DEF NoCert
  <2> QED
    BY <1>1, <1>3, <2>1, <2>2, <2>5, <2>6
<1> QED
  BY <1>2, <1>3

\* The server is asked; a certificate that it made waits to be stored.
LEMMA SendReqStep ==
    ASSUME IInv, NEW p \in Procs, SendReq(p) \/ LoseReq(p)
    PROVE  IInv'
<1> DEFINE answer == Handle(Route(p), call[p].by, call[p].key)
<1>0. call[p].pc = "send" /\ UNCHANGED <<keys, store>>
  BY DEF SendReq, LoseReq
<1>1. /\ answer.cert # NoCert => /\ answer.cert \in Certs /\ answer.cert.id = Subject(p)
                                 /\ answer.cert.key = call[p].key /\ call[p].key # 0 /\ call[p].key \in keys
      /\ answer.cert = NoCert /\ answer.ok => call[p].req.op \notin Remembered
  BY <1>0, SentCert
<1> HIDE DEF answer
<1>2. issued \subseteq issued'
  BY DEF SendReq, LoseReq, answer
<1>3. CASE Return(p, "error")
  BY <1>0, <1>2, <1>3, ErrorReturn, GoesIdle
<1>4. CASE answer.cert = NoCert /\ answer.ok /\ Return(p, "ok")
  <2>1. call' = [call EXCEPT ![p] = Idle]
    BY <1>1, <1>4 DEF Return
  <2> QED
    BY <1>0, <1>2, <2>1, GoesIdle
<1>5. CASE /\ answer.cert # NoCert /\ issued' = issued \cup {answer.cert}
           /\ call' = [call EXCEPT ![p].pc = "store", ![p].cert = answer.cert]
  <2>1. PICK cert \in Certs : cert = answer.cert
    BY <1>1, <1>5
  <2>2. Becomes(p, "store", call[p].req, call[p].key, cert, call[p].by)
    BY <1>5, <2>1, Updates DEF IInv
  <2>3. call[p].req \in Requests /\ call[p].key \in Int /\ call[p].by \in Certs /\ "store" \in Places
    BY RecordFields DEF IInv, Places
  <2>4. /\ Alone(p) /\ call'[p].pc = "store" /\ call'[p].req = call[p].req /\ call'[p].cert = cert
        /\ call'[p].by = call[p].by
    BY <1>0, <1>2, <2>1, <2>2, <2>3, BecomesAlone
  <2>5. Signs(p)'
    BY <2>4 DEF Signs
  <2>6. Subject(p)' = Subject(p)
    BY <2>4 DEF Subject
  <2>7. Usable(call[p].cert, Subject(p))'
    BY <1>0, <1>1, <1>5, <2>1, <2>4, <2>6 DEF Usable
  <2>8. Asking(p) /\ call[p].key # 0
    BY <1>1, <1>5 DEF IInv
  <2>9. Asking(p)'
    BY <1>0, <2>4, <2>7, <2>8 DEF Asking
  <2>10. IsFiniteSet(keys') /\ keys' \subseteq Nat \ {0}
    BY <1>0 DEF IInv, Types
  <2> QED
    BY <1>0, <2>4, <2>5, <2>9, <2>10, OneMoves
<1>6. SendReq(p) => \/ Return(p, "error")
                    \/ answer.cert = NoCert /\ answer.ok /\ Return(p, "ok")
                    \/ /\ answer.cert # NoCert /\ issued' = issued \cup {answer.cert}
                       /\ call' = [call EXCEPT ![p].pc = "store", ![p].cert = answer.cert]
  BY DEF SendReq, answer
<1>7. LoseReq(p) => Return(p, "error")
  BY DEF LoseReq
<1> QED
  BY <1>3, <1>4, <1>5, <1>6, <1>7

\* The file of the user is truncated: whoever was told of an enrolment sees
\* that it is being written.
LEMMA TruncateStep ==
    ASSUME IInv, NEW p \in Procs, Truncate(p)
    PROVE  IInv'
<1> DEFINE u == Subject(p)
<1>1. /\ call[p].pc = "store" /\ store' = [store EXCEPT ![u] = Torn] /\ UNCHANGED <<keys, issued>>
      /\ call' = [call EXCEPT ![p].pc = "write"]
  BY DEF Truncate
<1>2. u \in Users
  BY <1>1, SubjectUser
<1>3. Becomes(p, "write", call[p].req, call[p].key, call[p].cert, call[p].by)
  BY <1>1, Updates DEF IInv
<1>4. /\ call[p].req \in Requests /\ call[p].key \in Int /\ call[p].cert \in Certs /\ call[p].by \in Certs
      /\ "write" \in Places
  BY RecordFields DEF IInv, Places
<1>5. /\ Alone(p) /\ call'[p].pc = "write" /\ call'[p].req = call[p].req /\ call'[p].key = call[p].key
      /\ call'[p].cert = call[p].cert /\ call'[p].by = call[p].by
  BY <1>1, <1>3, <1>4, BecomesAlone
<1>6. Subject(p)' = u
  BY <1>5 DEF Subject
<1>7. Signs(p)'
  BY <1>5 DEF Signs
<1>8. Asking(p)'
  <2>1. Asking(p) /\ Usable(call[p].cert, u)
    BY <1>1 DEF IInv, Asking
  <2>2. Usable(call[p].cert, Subject(p))'
    BY <1>1, <1>5, <1>6, <2>1 DEF Usable
  <2> QED
    BY <1>1, <1>5, <2>1, <2>2 DEF Asking
<1>9. \A q \in Procs : Asking(q)' /\ Signs(q)'
  BY <1>5, <1>7, <1>8, OthersKept
<1> HIDE DEF u
<1>10. Types'
  BY <1>1, <1>5, Nothings DEF IInv, Types, Alone
<1>11. Stored'
  BY <1>1, <1>2 DEF IInv, Types, Stored, Usable
<1>12. Enrolled'
  <2> SUFFICES ASSUME NEW q \in Procs, call'[q].pc = "done", call'[q].req.op \in {"enroll", "reenroll"}
               PROVE  /\ call'[q].req.id \in Users
                      /\ \/ store'[call'[q].req.id] \notin {NoCert, Torn}
                         \/ \E r \in Procs : call'[r].pc = "write" /\ Subject(r)' = call'[q].req.id
    BY DEF Enrolled
  <2>1. q # p /\ call'[q] = call[q]
    BY <1>5 DEF Alone
  <2>2. /\ call[q].req.id \in Users
        /\ \/ store[call[q].req.id] \notin {NoCert, Torn}
           \/ \E r \in Procs : call[r].pc = "write" /\ Subject(r) = call[q].req.id
    BY <2>1 DEF IInv, Enrolled
  <2>3. CASE call[q].req.id = u
    BY <1>5, <1>6, <2>1, <2>2, <2>3
  <2>4. CASE call[q].req.id # u
    <3>1. store'[call[q].req.id] = store[call[q].req.id]
      BY <1>1, <2>2, <2>4 DEF IInv, Types
    <3>2. ASSUME NEW r \in Procs, call[r].pc = "write" PROVE call'[r].pc = "write" /\ Subject(r)' = Subject(r)
      <4>1. call'[r] = call[r]
        BY <1>1, <1>5, <3>2 DEF Alone
      <4> QED
        BY <3>2, <4>1 DEF Subject
    <3> QED
      BY <2>1, <2>2, <3>1, <3>2
  <2> QED
    BY <2>3, <2>4
<1> QED
  BY <1>9, <1>10, <1>11, <1>12 DEF IInv

\* The certificate is written: its user can be found from now on.
LEMMA StoreStep ==
    ASSUME IInv, NEW p \in Procs, Store(p)
    PROVE  IInv'
<1> DEFINE u == Subject(p)
           cert == call[p].cert
           req == call[p].req
<1>1. /\ call[p].pc = "write" /\ store' = [store EXCEPT ![u] = cert] /\ UNCHANGED <<keys, issued>>
      /\ IF req.op \in RegistrarOps
         THEN call' = [call EXCEPT ![p].pc = "reload", ![p].key = 0, ![p].cert = NoCert]
         ELSE Return(p, "ok")
  BY DEF Store
<1>2. /\ u \in Users /\ req.op \in Ops /\ (req.op \in Remembered => u = req.id)
      /\ req.op \in RegistrarOps \/ req.op \in {"enroll", "reenroll"}
  BY <1>1, SubjectUser
<1>3. Usable(cert, u) /\ cert \notin {NoCert, Torn}
  BY <1>1, WholeCert DEF IInv, Asking
<1>4. req \in Requests /\ call[p].key \in Int /\ cert \in Certs /\ call[p].by \in Certs
  BY RecordFields DEF IInv
<1>5. /\ Alone(p) /\ call'[p].req = req
      /\ \/ call'[p].pc = "reload" /\ call'[p].key = 0 /\ req.op \in RegistrarOps
         \/ call'[p].pc = "done" /\ req.op \in {"enroll", "reenroll"}
  <2>1. CASE req.op \in RegistrarOps
    <3>1. Becomes(p, "reload", req, 0, NoCert, call[p].by)
      BY <1>1, <2>1, Updates DEF IInv
    <3>2. "reload" \in Places /\ 0 \in Int /\ NoCert \in Certs
      BY Nothings DEF Places
    <3> QED
      BY <1>1, <1>4, <2>1, <3>1, <3>2, BecomesAlone
  <2>2. CASE req.op \in {"enroll", "reenroll"}
    <3>1. req.op \in Remembered /\ req.op \notin RegistrarOps
      BY <2>2, OpsApart DEF Remembered
    <3>2. call' = [call EXCEPT ![p] = [call[p] EXCEPT !.pc = "done", !.by = NoCert]]
      BY <1>1, <3>1 DEF Return
    <3>3. Becomes(p, "done", req, call[p].key, cert, NoCert)
      BY <3>2, Updates DEF IInv
    <3>4. "done" \in Places /\ NoCert \in Certs
      BY Nothings DEF Places
    <3> QED
      BY <1>1, <1>4, <2>2, <3>3, <3>4, BecomesAlone
  <2> QED
    BY <1>2, <2>1, <2>2
<1>6. Signs(p)'
  BY <1>5 DEF Signs
<1>7. Asking(p)'
  BY <1>2, <1>5 DEF Asking
<1>8. \A q \in Procs : Asking(q)' /\ Signs(q)'
  BY <1>5, <1>6, <1>7, OthersKept
<1>9. Types'
  BY <1>1, <1>4, <1>5 DEF IInv, Types, Alone
<1> HIDE DEF u, cert
<1>10. Stored'
  BY <1>1, <1>2, <1>3 DEF IInv, Types, Stored, Usable
<1>11. Enrolled'
  <2> SUFFICES ASSUME NEW q \in Procs, call'[q].pc = "done", call'[q].req.op \in {"enroll", "reenroll"}
               PROVE  /\ call'[q].req.id \in Users
                      /\ \/ store'[call'[q].req.id] \notin {NoCert, Torn}
                         \/ \E r \in Procs : call'[r].pc = "write" /\ Subject(r)' = call'[q].req.id
    BY DEF Enrolled
  <2>1. store \in [Users -> Certs]
    BY DEF IInv, Types
  <2>2. CASE q = p
    <3>1. req.id = u
      BY <1>2, <1>5, <2>2 DEF Remembered
    <3> QED
      BY <1>1, <1>2, <1>3, <1>5, <2>1, <2>2, <3>1
  <2>3. CASE q # p
    <3>1. call'[q] = call[q]
      BY <1>5, <2>3 DEF Alone
    <3>2. /\ call[q].req.id \in Users
          /\ \/ store[call[q].req.id] \notin {NoCert, Torn}
             \/ \E r \in Procs : call[r].pc = "write" /\ Subject(r) = call[q].req.id
      BY <3>1 DEF IInv, Enrolled
    <3>3. CASE call[q].req.id = u
      BY <1>1, <1>2, <1>3, <2>1, <3>1, <3>3
    <3>4. CASE call[q].req.id # u
      <4>1. store'[call[q].req.id] = store[call[q].req.id]
        BY <1>1, <2>1, <3>2, <3>4
      <4>2. ASSUME NEW r \in Procs, call[r].pc = "write", Subject(r) # u
            PROVE  call'[r].pc = "write" /\ Subject(r)' = Subject(r)
        <5>1. r # p /\ call'[r] = call[r]
          BY <1>5, <4>2 DEF Alone, u
        <5> QED
          BY <4>2, <5>1 DEF Subject
      <4> QED
        BY <3>1, <3>2, <3>4, <4>1, <4>2
    <3> QED
      BY <3>3, <3>4
  <2> QED
    BY <2>2, <2>3
<1> QED
  BY <1>8, <1>9, <1>10, <1>11 DEF IInv

\* The write fails: the file is damaged, and the call reports the error.
LEMMA StoreFailsStep ==
    ASSUME IInv, NEW p \in Procs, StoreFails(p)
    PROVE  IInv'
<1> DEFINE u == Subject(p)
<1>1. UNCHANGED <<keys, issued>> /\ call' = [call EXCEPT ![p] = Idle]
  BY ErrorReturn DEF StoreFails
<1>2. CASE call[p].pc = "store" /\ store' = store
  <2>1. UNCHANGED <<keys, store, issued>>
    BY <1>1, <1>2
  <2> QED
    BY <1>1, <1>2, <2>1, GoesIdle
<1>3. CASE call[p].pc = "write" /\ store' = [store EXCEPT ![u] = Damaged]
  <2>1. u \in Users /\ store \in [Users -> Certs]
    BY <1>3, SubjectUser DEF IInv, Types
  <2>2. Idle = [pc |-> "idle", req |-> NoRequest, key |-> 0, cert |-> NoCert, by |-> NoCert]
    BY DEF Idle
  <2>3. Becomes(p, "idle", NoRequest, 0, NoCert, NoCert)
    BY <1>1, <2>2 DEF Becomes
  <2>4. "idle" \in Places /\ 0 \in Int
    BY DEF Places
  <2>5. Alone(p) /\ call'[p].pc = "idle"
    BY <1>1, <2>3, <2>4, Nothings, BecomesAlone
  <2>6. Asking(p)' /\ Signs(p)'
    BY <2>5 DEF Asking, Signs
  <2>7. \A q \in Procs : Asking(q)' /\ Signs(q)'
    BY <1>1, <2>5, <2>6, OthersKept
  <2> HIDE DEF u
  <2>8. Types'
    BY <1>1, <1>3, <2>1, <2>5, Nothings DEF IInv, Types, Alone
  <2>9. Stored'
    BY <1>1, <1>3, <2>1 DEF IInv, Stored, Usable
  <2>10. Enrolled'
    <3> SUFFICES ASSUME NEW q \in Procs, call'[q].pc = "done", call'[q].req.op \in {"enroll", "reenroll"}
                 PROVE  /\ call'[q].req.id \in Users
                        /\ \/ store'[call'[q].req.id] \notin {NoCert, Torn}
                           \/ \E r \in Procs : call'[r].pc = "write" /\ Subject(r)' = call'[q].req.id
      BY DEF Enrolled
    <3>1. q # p /\ call'[q] = call[q]
      BY <2>5 DEF Alone
    <3>2. /\ call[q].req.id \in Users
          /\ \/ store[call[q].req.id] \notin {NoCert, Torn}
             \/ \E r \in Procs : call[r].pc = "write" /\ Subject(r) = call[q].req.id
      BY <3>1 DEF IInv, Enrolled
    <3>3. CASE call[q].req.id = u
      <4>1. Damaged.key = -3 /\ NoCert.key = 0 /\ Torn.key = -1
        BY DEF Damaged, NoCert, Torn
      <4>2. Damaged \notin {NoCert, Torn}
        BY <4>1
      <4> QED
        BY <1>3, <2>1, <3>1, <3>2, <3>3, <4>2
    <3>4. CASE call[q].req.id # u
      <4>1. store'[call[q].req.id] = store[call[q].req.id]
        BY <1>3, <2>1, <3>2, <3>4
      <4>2. ASSUME NEW r \in Procs, call[r].pc = "write", Subject(r) # u
            PROVE  call'[r].pc = "write" /\ Subject(r)' = Subject(r)
        <5>1. r # p /\ call'[r] = call[r]
          BY <2>5, <4>2 DEF Alone, u
        <5> QED
          BY <4>2, <5>1 DEF Subject
      <4> QED
        BY <3>1, <3>2, <3>4, <4>1, <4>2
    <3> QED
      BY <3>3, <3>4
  <2> QED
    BY <2>7, <2>8, <2>9, <2>10 DEF IInv
<1> QED
  BY <1>2, <1>3 DEF StoreFails

\* The process is started again: the stores are as they were.
LEMMA CrashStep ==
    ASSUME IInv, Crash
    PROVE  IInv'
<1>1. call' = [p \in Procs |-> Idle] /\ UNCHANGED <<issued, keys, store>>
  BY DEF Crash
<1>2. Types'
  BY <1>1, Nothings DEF IInv, Types
<1>3. \A p \in Procs : call'[p].pc = "idle"
  BY <1>1 DEF Idle
<1>4. \A p \in Procs : Asking(p)' /\ Signs(p)'
  BY <1>3 DEF Asking, Signs
<1>5. Enrolled'
  BY <1>3 DEF Enrolled
<1>6. Stored'
  BY <1>1 DEF IInv, Stored, Usable
<1> QED
  BY <1>2, <1>4, <1>5, <1>6 DEF IInv

-----------------------------------------------------------------------------
(* The theorems                                                            *)

\* The initial state satisfies the invariant.
LEMMA InitInv == Init => IInv
<1> SUFFICES ASSUME Init PROVE IInv
  OBVIOUS
<1>1. IsFiniteSet(keys) /\ keys \subseteq Nat \ {0}
  BY FS_EmptySet DEF Init
<1>2. Types
  BY <1>1, Nothings DEF Init, Types
<1>3. \A p \in Procs : call[p].pc = "idle"
  BY DEF Init, Idle
<1>4. \A p \in Procs : Asking(p) /\ Signs(p)
  BY <1>3 DEF Asking, Signs
<1>5. Stored /\ Enrolled
  BY <1>3 DEF Init, Stored, Enrolled
<1> QED
  BY <1>2, <1>4, <1>5 DEF IInv

\* Every step preserves it.
LEMMA NextInv == IInv /\ [Next]_vars => IInv'
<1> SUFFICES ASSUME IInv, [Next]_vars PROVE IInv'
  OBVIOUS
<1>1. ASSUME NEW p \in Procs, Refuse(p) PROVE IInv'
  <2>1. call' = [call EXCEPT ![p] = Idle] /\ UNCHANGED <<keys, store, issued>> /\ call[p].pc = "refused"
    BY <1>1, ErrorReturn DEF Refuse
  <2> QED
    BY <2>1, GoesIdle
<1>2. ASSUME NEW p \in Procs, Step(p) PROVE IInv'
  BY <1>1, <1>2, LoadStep, GetRegistrarStep, GenCSRStep, SendReqStep, TruncateStep, StoreStep, StoreFailsStep DEF Step
<1>3. CASE UNCHANGED vars
  <2>1. UNCHANGED <<issued, keys, store, call>>
    BY <1>3 DEF vars
  <2> QED
    BY <2>1 DEF IInv, Types, Stored, Usable, Asking, Subject, Enrolled, Signs
<1> QED
  BY <1>2, <1>3, BeginStep, CrashStep DEF Next

\* The invariant holds of every reachable state.
LEMMA Invariant == Spec => []IInv
  BY InitInv, NextInv, PTL DEF Spec

\* Whoever asks for a signing identity gets the one of the user it named, with
\* the private key of the certificate, whatever was enrolled, renewed, lost or
\* interrupted by a crash before.
THEOREM SignsAsItself == Spec => []SignsAsUser
<1>1. IInv => SignsAsUser
  BY DEF IInv, Signs, SignsAsUser
<1> QED
  BY <1>1, Invariant, PTL

\* A user that was reported as enrolled can sign, unless its certificate is
\* being written or a later write of it failed, and no certificate is in the store
\* without its private key.
THEOREM EnrolledCanSign == Spec => []EnrolledUsable
<1>1. IInv => EnrolledUsable
  <2> SUFFICES ASSUME IInv PROVE EnrolledUsable
    OBVIOUS
  <2>1. ASSUME NEW u \in Users, store[u] \notin {NoCert, Torn, Damaged} PROVE store[u].key \in keys /\ store[u] \in issued
    BY <2>1 DEF IInv, Stored, Usable
  <2>2. ASSUME NEW p \in Procs, call[p].pc = "done", call[p].req.op \in {"enroll", "reenroll"}
        PROVE  \/ GetUser(call[p].req.id).status = "ok"
               \/ \E q \in Procs : call[q].pc = "write" /\ Subject(q) = call[p].req.id
               \/ store[call[p].req.id] = Damaged
    <3>1. /\ call[p].req.id \in Users
          /\ \/ store[call[p].req.id] \notin {NoCert, Torn}
             \/ \E q \in Procs : call[q].pc = "write" /\ Subject(q) = call[p].req.id
      BY <2>2 DEF IInv, Enrolled
    <3> QED
      BY <3>1, StoredIsFound DEF IInv
  <2> QED
    BY <2>1, <2>2 DEF EnrolledUsable
<1> QED
  BY <1>1, Invariant, PTL

=============================================================================
