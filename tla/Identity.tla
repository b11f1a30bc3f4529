------------------------------- MODULE Identity -------------------------------
(***************************************************************************)
(* The MSP client: enrolment, registration and the other operations of a   *)
(* Fabric CA (pkg/client/msp, pkg/msp/caclient.go, fabcaadapter.go and the *)
(* client of Fabric CA), the stores that keep what was enrolled, and the   *)
(* identity manager that finds the identity to sign with.                  *)
(*                                                                         *)
(* Calls are made by several goroutines; the process may crash, and what   *)
(* the stores hold survives.  An answer of the server may be lost.  A      *)
(* certificate is [id, key, ca].  The user store keeps one file per user:  *)
(* writing it truncates it first.                                          *)
(***************************************************************************)
EXTENDS Integers, FiniteSets, TLC

CONSTANTS
  Users,         \* enrollment IDs
  Registrar,     \* the one whose credentials the configuration of the CA has
  Procs,         \* goroutines that call the client
  CAs,           \* certificate authorities that the server hosts
  DefaultCA,     \* the one that answers when a request names none
  CAName,        \* the name that is configured; "" is none
  Embedded,      \* users whose certificate and key are in the configuration
  Inputs,        \* the calls that are made: <<operation, ID, CA>>
  MaxCalls, MaxLost, MaxCrashes

IdentityOps == {"create", "modify", "remove", "get", "getAll"}
AffiliationOps == {"addAffiliation", "modifyAffiliation", "removeAffiliation", "getAffiliation", "getAllAffiliations"}
RegistrarOps == {"register", "revoke"} \cup IdentityOps \cup AffiliationOps
Ops == {"enroll", "reenroll", "sign", "cainfo"} \cup RegistrarOps

ASSUME IdentityAssumption ==
  /\ Registrar \in Users /\ DefaultCA \in CAs /\ CAName \in CAs \cup {""}
  /\ Inputs \subseteq Ops \X (Users \cup {""}) \X (CAs \cup {""})
  /\ Embedded \subseteq Users /\ MaxCalls \in Nat /\ MaxLost \in Nat /\ MaxCrashes \in Nat

VARIABLES
  ids,       \* for each CA and user: enrolments left, or Unknown, or Revoked
  issued,    \* certificates the CAs have issued
  keys,      \* private keys of the crypto suite
  store,     \* the user store
  call,      \* what each goroutine is about
  calls, lost, crashes

vars == <<ids, issued, keys, store, call, calls, lost, crashes>>

Unknown == -1
Revoked == -2
NoCert == [id |-> "", key |-> 0, ca |-> ""]
Torn == [id |-> "", key |-> -1, ca |-> ""]      \* a file that is being written, or was when the process ended
Damaged == [id |-> "", key |-> -3, ca |-> ""]   \* what a write that failed leaves
EmbeddedCert(u) == [id |-> u, key |-> -2, ca |-> ""]
NoRequest == [op |-> "", id |-> "", ca |-> ""]

Idle == [pc |-> "idle", req |-> NoRequest, key |-> 0, cert |-> NoCert, by |-> NoCert]

----------------------------------------------------------------------------
(* The stores and the identity manager                                      *)

\* loadUserFromStore and newUser: the key is found by the certificate.
LoadUserFromStore(u) ==
  CASE store[u] = NoCert -> "notFound"
    [] store[u] \in {Torn, Damaged} -> "error"
    [] store[u] \notin {NoCert, Torn, Damaged} -> IF store[u].key \in keys THEN "ok" ELSE "error"

\* The certificate and the key of a user of the configuration.
GetEmbedded(u) == IF u \in Embedded THEN "ok" ELSE "notFound"

\* GetUser: the configuration is asked when the store knows nothing.
GetUser(u) ==
  CASE LoadUserFromStore(u) = "ok" -> [status |-> "ok", cert |-> store[u], key |-> store[u].key]
    [] LoadUserFromStore(u) = "error" -> [status |-> "error", cert |-> NoCert, key |-> 0]
    [] OTHER -> IF GetEmbedded(u) = "ok" THEN [status |-> "ok", cert |-> EmbeddedCert(u), key |-> EmbeddedCert(u).key]
                ELSE [status |-> "notFound", cert |-> NoCert, key |-> 0]

----------------------------------------------------------------------------
(* Requests: what the client passes on                                      *)

WithDefaultCA(ca) == IF ca = "" THEN CAName ELSE ca

EnrollRequest(id) == [op |-> "enroll", id |-> id, ca |-> CAName]
ReenrollRequest(id) == [op |-> "reenroll", id |-> id, ca |-> CAName]
CAInfoRequest == [op |-> "cainfo", id |-> "", ca |-> CAName]

\* The CA of the request stays as it is, also when it names none.
RegisterRequest(op, id, ca) == [op |-> op, id |-> id, ca |-> ca]
IdentityRequest(op, id, ca) == [op |-> op, id |-> id, ca |-> IF op \in {"get", "getAll"} THEN WithDefaultCA(ca) ELSE ca]
AffiliationRequest(op, id, ca) == [op |-> op, id |-> id, ca |-> IF op \in {"getAffiliation", "getAllAffiliations"} THEN WithDefaultCA(ca) ELSE ca]

Request(op, id, ca) ==
  CASE op = "enroll" -> EnrollRequest(id)
    [] op = "reenroll" -> ReenrollRequest(id)
    [] op \in {"register", "revoke"} -> RegisterRequest(op, id, ca)
    [] op \in IdentityOps -> IdentityRequest(op, id, ca)
    [] op \in AffiliationOps -> AffiliationRequest(op, id, ca)
    [] op = "cainfo" -> CAInfoRequest
    [] op = "sign" -> [op |-> op, id |-> id, ca |-> ""]

\* The CA client refuses a request that lacks its name.
IdentityRequired(req) == req.op = "getAll" \/ req.id # ""
AffiliationRequired(req) == req.op = "getAllAffiliations" \/ req.id # ""
RegisterRequired(req) == req.op = "revoke" \/ req.id # ""
Required(req) ==
  CASE req.op \in IdentityOps -> IdentityRequired(req)
    [] req.op \in AffiliationOps -> AffiliationRequired(req)
    [] OTHER -> RegisterRequired(req)

\* The adapter: the function of the Fabric CA client that is called, as the
\* identity that signs the call, and whom or what it is about.
AdaptIdentity(req) ==
  [call |-> CASE req.op = "create" -> "AddIdentity" [] req.op = "modify" -> "ModifyIdentity" [] req.op = "remove" -> "RemoveIdentity"
              [] req.op = "get" -> "GetIdentity" [] req.op = "getAll" -> "GetAllIdentities", id |-> req.id, ca |-> req.ca]
AdaptAffiliation(req) ==
  [call |-> CASE req.op = "addAffiliation" -> "AddAffiliation" [] req.op = "modifyAffiliation" -> "ModifyAffiliation"
              [] req.op = "removeAffiliation" -> "RemoveAffiliation" [] req.op = "getAffiliation" -> "GetAffiliation"
              [] req.op = "getAllAffiliations" -> "GetAllAffiliations", id |-> req.id, ca |-> req.ca]
AdaptRegister(req) ==
  [call |-> CASE req.op = "register" -> "Register" [] req.op = "revoke" -> "Revoke" [] req.op = "cainfo" -> "GetCAInfo",
   id |-> req.id, ca |-> req.ca]

\* The Fabric CA client: verb, path, CA and whom it is about.
Verbed(verb, path, a) == [verb |-> verb, path |-> path, id |-> a.id, ca |-> a.ca]
IdentityRoute(a) ==
  CASE a.call \in {"GetIdentity", "GetAllIdentities"} -> Verbed("GET", "identities", a)
    [] a.call = "AddIdentity" -> Verbed("POST", "identities", a)
    [] a.call = "ModifyIdentity" -> Verbed("PUT", "identities", a)
    [] a.call = "RemoveIdentity" -> Verbed("DELETE", "identities", a)
AffiliationRoute(a) ==
  CASE a.call \in {"GetAffiliation", "GetAllAffiliations"} -> Verbed("GET", "affiliations", a)
    [] a.call = "AddAffiliation" -> Verbed("POST", "affiliations", a)
    [] a.call = "ModifyAffiliation" -> Verbed("PUT", "affiliations", a)
    [] a.call = "RemoveAffiliation" -> Verbed("DELETE", "affiliations", a)
RegisterRoute(a) == Verbed("POST", "register", a)
RevokeRoute(a) == Verbed("POST", "revoke", a)
CAInfoRoute(a) == Verbed("POST", "cainfo", a)
EnrollRoute(id) == [verb |-> "POST", path |-> "enroll", id |-> id, ca |-> CAName]

\* A certificate is renewed for the name that the present one bears.
ReenrollRoute(by) == [verb |-> "POST", path |-> "reenroll", id |-> by.id, ca |-> CAName]

----------------------------------------------------------------------------
(* The server (external)                                                    *)

Target(ca) == IF ca = "" THEN DefaultCA ELSE ca

\* A call is authorized by a certificate of its CA that is not revoked.
Authorized(cert, ca) == cert \in issued /\ cert.ca = Target(ca) /\ ids[cert.ca][cert.id] # Revoked

\* What the server makes of a call: [ok, ids, cert].
Handle(route, by, key) ==
  LET c == Target(route.ca)
      refused == [ok |-> FALSE, ids |-> ids, cert |-> NoCert]
      set(v) == [ok |-> TRUE, ids |-> [ids EXCEPT ![c][route.id] = v], cert |-> NoCert]
      same == [refused EXCEPT !.ok = TRUE]
      cert == [id |-> route.id, key |-> key, ca |-> c]
      known == route.id \in Users /\ ids[c][route.id] # Unknown
  IN  CASE route.path = "enroll" ->
             IF ids[c][route.id] > 0 THEN [set(ids[c][route.id] - 1) EXCEPT !.cert = cert] ELSE refused
        [] route.path = "reenroll" -> IF Authorized(by, route.ca) THEN [same EXCEPT !.cert = cert] ELSE refused
        [] route.path = "cainfo" -> same
        [] route.path = "affiliations" -> IF Authorized(by, route.ca) /\ by.id = Registrar THEN same ELSE refused
        [] OTHER ->
             IF ~Authorized(by, route.ca) \/ by.id # Registrar THEN refused
             ELSE IF route.verb = "POST" /\ route.path \in {"register", "identities"}
                  THEN IF known THEN refused ELSE set(1)
             ELSE IF route.verb = "PUT" THEN IF known /\ ids[c][route.id] # Revoked THEN set(1) ELSE refused
             ELSE IF route.path = "revoke" THEN IF known THEN set(Revoked) ELSE refused
             ELSE IF route.verb = "DELETE" /\ route.path = "identities" THEN IF known THEN set(Unknown) ELSE refused
             ELSE same

----------------------------------------------------------------------------
(* Calls                                                                    *)

Init ==
  /\ ids = [c \in CAs |-> [u \in Users |-> IF u = Registrar THEN 2 ELSE Unknown]]
  /\ issued = {} /\ keys = {}
  /\ store = [u \in Users |-> NoCert]
  /\ call = [p \in Procs |-> Idle]
  /\ calls = 0 /\ lost = 0 /\ crashes = 0

\* A call returns; what it returned is remembered where it says something of the user.
Remembered == {"enroll", "reenroll", "sign"}
Return(p, result) ==
  call' = [call EXCEPT ![p] = IF result = "ok" /\ @.req.op \in Remembered THEN [@ EXCEPT !.pc = "done", !.by = NoCert] ELSE Idle]

\* A call arrives at the CA client.  The clients of a process share the
\* stores; some of them may have no CA or no registrar in their configuration,
\* and a caller may give no secret to enrol with.
Begin(p, op, id, ca) ==
  LET req == Request(op, id, ca)
      start(pc) == call' = [call EXCEPT ![p] = [Idle EXCEPT !.pc = pc, !.req = req]]
  IN  /\ call[p].pc \in {"idle", "done"} /\ calls < MaxCalls
      /\ calls' = calls + 1
      /\ CASE op = "enroll" -> start("refused") \/ (id # "" /\ start("csr"))
           [] op = "reenroll" -> start("refused") \/ (id # "" /\ start("load"))
           [] op = "sign" -> IF id = "" THEN start("refused") ELSE start("load")
           [] op = "cainfo" -> start("refused") \/ start("send")
           [] op \in RegistrarOps -> start("refused") \/ (Required(req) /\ start("registrar"))
      /\ UNCHANGED <<ids, issued, keys, store, lost, crashes>>

Refuse(p) == call[p].pc = "refused" /\ Return(p, "error") /\ UNCHANGED <<ids, issued, keys, store, calls, lost, crashes>>

\* Reenroll and GetSigningIdentity load the user.
Load(p) ==
  LET user == GetUser(call[p].req.id)
  IN  /\ call[p].pc = "load"
      /\ IF user.status # "ok" THEN Return(p, "error")
         ELSE IF call[p].req.op = "sign"
         THEN call' = [call EXCEPT ![p].pc = "done", ![p].cert = user.cert, ![p].key = user.key]
         ELSE call' = [call EXCEPT ![p].pc = "csr", ![p].by = user.cert]
      /\ UNCHANGED <<ids, issued, keys, store, calls, lost, crashes>>

\* getRegistrar: a registrar that is not known is enrolled first, with the
\* secret of the configuration, if it has one.
GetRegistrar(p) ==
  LET user == GetUser(Registrar)
  IN  /\ call[p].pc = "registrar"
      /\ CASE user.status = "ok" -> call' = [call EXCEPT ![p].pc = "send", ![p].by = user.cert]
           [] user.status = "error" -> Return(p, "error")
           [] user.status = "notFound" -> Return(p, "error") \/ call' = [call EXCEPT ![p].pc = "csr"]
      /\ UNCHANGED <<ids, issued, keys, store, calls, lost, crashes>>

\* Whom the certificate is for that the call asks for.
Subject(p) == IF call[p].req.op \in RegistrarOps THEN Registrar ELSE call[p].req.id

NewKey == Cardinality(keys) + 1

\* Slip: the key is only kept in memory.
GenCSR_Ephemeral(p) ==
  /\ call[p].pc = "csr"
  /\ keys' = keys
  /\ call' = [call EXCEPT ![p].pc = "send", ![p].key = NewKey]
  /\ UNCHANGED <<ids, issued, store, calls, lost, crashes>>

\* GenCSR: the key is in the key store before the server is asked.
GenCSR(p) ==
  /\ call[p].pc = "csr"
  /\ keys' = keys \cup {NewKey}
  /\ call' = [call EXCEPT ![p].pc = "send", ![p].key = NewKey]
  /\ UNCHANGED <<ids, issued, store, calls, lost, crashes>>

\* A call that has made a key asks for a certificate.
Route(p) ==
  LET req == call[p].req
  IN  CASE call[p].key # 0 -> IF req.op = "reenroll" THEN ReenrollRoute(call[p].by) ELSE EnrollRoute(Subject(p))
        [] call[p].key = 0 /\ req.op \in IdentityOps -> IdentityRoute(AdaptIdentity(req))
        [] call[p].key = 0 /\ req.op \in AffiliationOps -> AffiliationRoute(AdaptAffiliation(req))
        [] call[p].key = 0 /\ req.op = "register" -> RegisterRoute(AdaptRegister(req))
        [] call[p].key = 0 /\ req.op = "revoke" -> RevokeRoute(AdaptRegister(req))
        [] call[p].key = 0 /\ req.op = "cainfo" -> CAInfoRoute(AdaptRegister(req))

\* Slip: a call that was refused is sent again.
SendReq_Again(p) ==
  LET answer == Handle(Route(p), call[p].by, call[p].key)
  IN  /\ call[p].pc = "send"
      /\ ids' = answer.ids
      /\ issued' = IF answer.cert = NoCert THEN issued ELSE issued \cup {answer.cert}
      /\ IF ~answer.ok THEN call' = call
         ELSE IF answer.cert # NoCert THEN call' = [call EXCEPT ![p].pc = "store", ![p].cert = answer.cert]
         ELSE Return(p, "ok")
      /\ UNCHANGED <<keys, store, calls, lost, crashes>>

\* The server is reached, and its answer comes back.
SendReq(p) ==
  LET answer == Handle(Route(p), call[p].by, call[p].key)
  IN  /\ call[p].pc = "send"
      /\ ids' = answer.ids
      /\ issued' = IF answer.cert = NoCert THEN issued ELSE issued \cup {answer.cert}
      /\ IF ~answer.ok THEN Return(p, "error")
         ELSE IF answer.cert # NoCert THEN call' = [call EXCEPT ![p].pc = "store", ![p].cert = answer.cert]
         ELSE Return(p, "ok")
      /\ UNCHANGED <<keys, store, calls, lost, crashes>>

\* The request or its answer is lost, or is no JSON of the server.
LoseReq(p) ==
  LET answer == Handle(Route(p), call[p].by, call[p].key)
  IN  /\ call[p].pc = "send" /\ lost < MaxLost
      /\ lost' = lost + 1
      /\ \/ UNCHANGED <<ids, issued>>
         \/ ids' = answer.ids /\ issued' = IF answer.cert = NoCert THEN issued ELSE issued \cup {answer.cert}
      /\ Return(p, "error")
      /\ UNCHANGED <<keys, store, calls, crashes>>

\* Store of the user store: the file is truncated, then written.
Truncate(p) ==
  /\ call[p].pc = "store"
  /\ store' = [store EXCEPT ![Subject(p)] = Torn]
  /\ call' = [call EXCEPT ![p].pc = "write"]
  /\ UNCHANGED <<ids, issued, keys, calls, lost, crashes>>

\* Slip: it is stored under the ID of the request.
Store_RequestId(p) ==
  /\ call[p].pc = "write"
  /\ store' = [store EXCEPT ![call[p].req.id] = call[p].cert]
  /\ IF call[p].req.op \in RegistrarOps
     THEN call' = [call EXCEPT ![p].pc = "reload", ![p].key = 0, ![p].cert = NoCert]
     ELSE Return(p, "ok")
  /\ UNCHANGED <<ids, issued, keys, calls, lost, crashes>>

\* The certificate is written.  An enrolled registrar goes on with the call,
\* after it was loaded again.
Store(p) ==
  /\ call[p].pc = "write"
  /\ store' = [store EXCEPT ![Subject(p)] = call[p].cert]
  /\ IF call[p].req.op \in RegistrarOps
     THEN call' = [call EXCEPT ![p].pc = "reload", ![p].key = 0, ![p].cert = NoCert]
     ELSE Return(p, "ok")
  /\ UNCHANGED <<ids, issued, keys, calls, lost, crashes>>

\* The store fails: before it touches the file, or while it writes it.
StoreFails(p) ==
  /\ \/ call[p].pc = "store" /\ store' = store
     \/ call[p].pc = "write" /\ store' = [store EXCEPT ![Subject(p)] = Damaged]
  /\ Return(p, "error")
  /\ UNCHANGED <<ids, issued, keys, calls, lost, crashes>>

Reload(p) ==
  LET user == GetUser(Registrar)
  IN  /\ call[p].pc = "reload"
      /\ IF user.status = "ok" THEN call' = [call EXCEPT ![p].pc = "send", ![p].by = user.cert] ELSE Return(p, "error")
      /\ UNCHANGED <<ids, issued, keys, store, calls, lost, crashes>>

\* The process ends and is started again.
Crash ==
  /\ crashes < MaxCrashes /\ \E p \in Procs : call[p].pc \notin {"idle", "done"}
  /\ crashes' = crashes + 1
  /\ call' = [p \in Procs |-> Idle]
  /\ UNCHANGED <<ids, issued, keys, store, calls, lost>>

Step(p) ==
  Refuse(p) \/ Load(p) \/ GetRegistrar(p) \/ GenCSR(p) \/ SendReq(p) \/ LoseReq(p) \/ Truncate(p)
    \/ Store(p) \/ StoreFails(p) \/ Reload(p)

Next ==
  \/ \E p \in Procs : Step(p)
  \/ \E p \in Procs, i \in Inputs : Begin(p, i[1], i[2], i[3])
  \/ Crash

\* The server answers or the connection breaks: the client sets no deadline.
Spec == Init /\ [][Next]_vars /\ \A p \in Procs : WF_vars(Step(p))

----------------------------------------------------------------------------
(* Properties                                                               *)

\* The identity that a caller gets to sign with is the one it asked for: the
\* certificate names the user and was issued for the private key.
SignsAsUser ==
  \A p \in Procs : call[p].pc = "done" /\ call[p].req.op = "sign" =>
    /\ call[p].cert.id = call[p].req.id /\ call[p].key = call[p].cert.key
    /\ call[p].cert \in issued \cup {EmbeddedCert(u) : u \in Embedded}

\* A user that an Enroll or a Reenroll has reported as enrolled can sign
\* from then on, unless somebody is writing its certificate at the time or a
\* later write of it failed; and a certificate is never stored without the key it
\* was issued for, crashes included.
EnrolledUsable ==
  /\ \A p \in Procs : call[p].pc = "done" /\ call[p].req.op \in {"enroll", "reenroll"} =>
       \/ GetUser(call[p].req.id).status = "ok"
       \/ \E q \in Procs : call[q].pc = "write" /\ Subject(q) = call[p].req.id
       \/ store[call[p].req.id] = Damaged
  /\ \A u \in Users : store[u] \notin {NoCert, Torn, Damaged} => store[u].key \in keys /\ store[u] \in issued

\* Every call of the MSP client returns.
CallEnds == \A p \in Procs : call[p].pc # "idle" ~> call[p].pc \in {"done", "idle"}

=============================================================================
