------------------------------ MODULE ResMgmt ------------------------------
(***************************************************************************)
(* The resource management client (pkg/client/resmgmt, pkg/fab/resource):  *)
(* an administrator repeats one request until it succeeds, while peers and *)
(* orderers fail now and then and other administrators work on the same    *)
(* network.                                                                *)
(*                                                                         *)
(* A request names the operation and its options.  A filter is the set of  *)
(* the peers it accepts.  The peers and the ordering service are external: *)
(* a peer answers a proposal with "ok", refuses it for good, is "down" or  *)
(* does what was asked and its answer is "lost"; the last two are faults,  *)
(* and there are at most MaxFaults of them.                                *)
(***************************************************************************)
EXTENDS Retry, Sequences

CONSTANTS
  Peers,
  ClientFilter,   \* the peers the client's default filter accepts
  OwnPeers,       \* the peers of the client's own MSP
  Orderers,       \* the orderers of the configuration
  ChannelOrderers,\* those configured for the channel
  Requests,       \* the requests the administrator may make
  Attempts,       \* bound: retry attempts of a request with retry options
  MaxFaults,      \* bound: failing or lost answers
  MaxConfigs      \* bound: config blocks of the channel

NoFilter == {"any"}

ASSUME ResMgmtAssumption ==
  /\ ClientFilter = NoFilter \/ ClientFilter \subseteq Peers
  /\ OwnPeers \subseteq Peers
  /\ ChannelOrderers \subseteq Orderers
  /\ Attempts \in Nat /\ MaxFaults \in Nat /\ MaxConfigs \in Nat \ {0}

VARIABLES
  req,            \* the request
  pc,             \* the step of the call that comes next, or "idle"
  targets,        \* the peers the call is meant for
  todo,           \* targets still to be asked, one by one or in goroutines
  tries,          \* retries made so far, by target
  fresh,          \* newTargets: where the chaincode has to be installed
  answers,        \* what the targets endorsed
  responses,      \* the targets that the call's responses name
  err,            \* the errors of the call
  result,         \* of the last call: "none", "ok" or "error"
  joined,         \* peers that have joined the channel
  installed,      \* peers that have the chaincode
  definitions,    \* what valid transactions of the client have put on the channel
  channel,        \* the signers of the transaction that created it, or none
  configs,        \* number of config blocks of the channel
  seen,           \* configs when the call began
  block,          \* the config block the call has read
  ordered,        \* the call's transaction is with the ordering service
  earlier,        \* so is a good one of a call before it
  status,         \* the status event in its channel
  notifier,       \* the registration: "none", "open", "closed"
  faults          \* faults so far

callVars == <<targets, todo, tries, fresh, answers, responses>>
netVars == <<joined, installed, definitions, channel, configs>>
txVars == <<ordered, earlier, status, notifier>>
vars == <<req, pc, callVars, err, result, netVars, seen, block, txVars, faults>>

Installs == {"install", "lcinstall"}
Deploys == {"instantiate", "upgrade"}
Lifecycles == {"approve", "commit"}
Collects == {"readiness", "queryCommitted"}
SingleQueries == {"queryInstalled", "queryChannels", "lcqueryInstalled", "lcgetPackage",
                  "queryApproved"}
ChannelQueries == {"queryInstantiated", "queryCollections"}

\* A request without any option.
Plainly(op) ==
  [op |-> op, complete |-> TRUE, targets |-> {}, filter |-> NoFilter, retry |-> FALSE,
   config |-> "ConfigUpdate", signatures |-> {}, signers |-> {}, policy |-> "none"]

-----------------------------------------------------------------------------
(* Options and targets.                                                    *)

(***************************************************************************)
(* prepareRequestOpts, and the parameters that are required by             *)
(* checkRequiredInstallCCParams, checkRequiredCCProposalParams and the     *)
(* verify functions of the lifecycle processor.                            *)
(***************************************************************************)
PrepareRequestOpts(r) == ~(r.targets # {} /\ r.filter # NoFilter)

RequiredParams(r) == r.complete

FilterTargets(P, filter) == IF filter = NoFilter THEN P ELSE P \cap filter

\* getDefaultTargets and resolveDefaultTargets.  With none found the error is
\* built from a nil error and is nil itself.
ResolveDefaultTargets(r, found) ==
  IF r.targets # {} THEN r.targets ELSE FilterTargets(found, ClientFilter)

\* calculateTargets: with no targets ask the local discovery service, and use
\* the client's filter only if the request has none.
CalculateTargets(given, filter, found) ==
  IF given = {}
  THEN FilterTargets(found, IF filter = NoFilter THEN ClientFilter ELSE filter)
  ELSE FilterTargets(given, filter)

InstallTargets(r, found, again) ==
  CalculateTargets(ResolveDefaultTargets(r, found), r.filter, again)

\* getCCProposalTargets asks the discovery service of the channel.
GetCCProposalTargets(r, found, again) ==
  CalculateTargets(IF r.targets = {} THEN FilterTargets(found, ClientFilter) ELSE r.targets,
                   r.filter, again)

\* selectRandomChannelPeer: any peer of the client's own MSP.
SelectRandomChannelPeer(found) == FilterTargets(FilterTargets(found, ClientFilter), OwnPeers)

\* requestOrderer and ordererConfig.
RequestOrderer == IF ChannelOrderers # {} THEN ChannelOrderers ELSE Orderers

\* extractChConfigTx, ExtractChannelConfig: the config update in the envelope of
\* a channel configuration file, if it is one.
ExtractChannelConfig(r) == r.config = "ConfigUpdate"

\* CreateConfigSignature: whose identity the signature header holds.  A nil
\* identity never gets here.
CreateConfigSignature(signer) == signer

\* signAndSubmitChannelConfigTx, getConfigSignatures, createCfgSigFromIDs: the
\* given signatures, those of the identities that are not nil, or the client's.
GetConfigSignatures(r) ==
  IF r.signatures # {} THEN r.signatures
  ELSE IF r.signers # {} THEN {CreateConfigSignature(i) : i \in r.signers \ {"nil"}}
  ELSE {"client"}

-----------------------------------------------------------------------------
(* Proposals of the lifecycle chaincode.                                   *)

\* MarshalApplicationPolicy: at most one of the two kinds of policy.
MarshalApplicationPolicy(policy) ==
  IF policy = "both" THEN "error" ELSE policy

\* UnmarshalApplicationPolicy knows no policy but those two.
UnmarshalApplicationPolicy(bytes) ==
  IF bytes \in {"signature", "channel"} THEN bytes ELSE "error"

\* The peer puts its default policy in place of none.
PeerPolicy(bytes) == IF bytes = "none" THEN "channel" ELSE bytes

CreateDeployProposal(r) == [fcn |-> r.op, policy |-> "signature"]

CreateApproveProposal(r) ==
  [fcn |-> "ApproveForMyOrg", policy |-> MarshalApplicationPolicy(r.policy)]

CreateCommitProposal(r) ==
  [fcn |-> "Commit", policy |-> MarshalApplicationPolicy(r.policy)]

CreateCheckCommitReadinessProposal(r) ==
  [fcn |-> "CheckCommitReadiness", policy |-> MarshalApplicationPolicy(r.policy)]

CreateQueryCommittedProposal(r) == [fcn |-> "QueryDefinitions", policy |-> "none"]

Proposal(r) ==
  CASE r.op \in Deploys -> CreateDeployProposal(r)
    [] r.op = "approve" -> CreateApproveProposal(r)
    [] r.op = "commit" -> CreateCommitProposal(r)
    [] r.op = "readiness" -> CreateCheckCommitReadinessProposal(r)
    [] OTHER -> CreateQueryCommittedProposal(r)

-----------------------------------------------------------------------------
(* Peers and orderers (external).                                          *)

Faulty(ans) == ans \in {"down", "lost"}

AnswerError(ans, p) ==
  IF ans = "refused" THEN StatusAt("Chaincode", "500", p)
  ELSE StatusAt("GRPCTransport", "UNAVAILABLE", p)

\* What a peer may answer that already has, or has not, what is asked for.
Answers(has) == IF has THEN {"refused", "down"} ELSE {"ok", "lost", "down"}

FaultCount(ans) == Cardinality({p \in DOMAIN ans : Faulty(ans[p])})

Found == {Peers} \cup (IF faults < MaxFaults THEN {OwnPeers, {}} ELSE {})

-----------------------------------------------------------------------------
Init ==
  /\ req \in Requests
  /\ pc = "idle"
  /\ targets = {} /\ todo = {} /\ tries = [p \in Peers |-> 0] /\ fresh = {}
  /\ answers = <<>> /\ responses = {} /\ err = NoError /\ result = "none"
  /\ joined \in {{}} \cup {{p} : p \in Peers}
  /\ installed = joined
  /\ definitions = {} /\ channel = {} /\ configs = 1 /\ seen = 1 /\ block = 0
  /\ ordered = FALSE /\ earlier = FALSE /\ status = <<>> /\ notifier = "none"
  /\ faults = 0

Return(e) ==
  /\ err' = e
  /\ result' = IF e = NoError THEN "ok" ELSE "error"
  /\ pc' = "idle"

Fail(s) == Return(One(s))

NoPeers == Status("Client", "NO_PEERS_FOUND")

Errors(old, more) == Multi(old.errs \cup more)

(***************************************************************************)
(* A call begins: the operation, its options and its targets.              *)
(***************************************************************************)
FirstStep(op) ==
  CASE op = "join" -> "genesis"
    [] op \in Installs -> "check"
    [] op \in Deploys \cup Collects -> "endorse"
    [] op \in Lifecycles -> "service"
    [] op = "save" -> "create"
    [] op = "queryConfig" -> "newest"
    [] OTHER -> "query"

TargetsOf(r, found, again) ==
  CASE r.op = "join" -> CalculateTargets(r.targets, r.filter, again)
    [] r.op \in Installs -> InstallTargets(r, found, again)
    [] r.op \in ChannelQueries -> IF r.targets # {} THEN r.targets
                                  ELSE SelectRandomChannelPeer(found)
    [] r.op \in SingleQueries -> IF Cardinality(r.targets) = 1 THEN r.targets ELSE {}
    [] OTHER -> GetCCProposalTargets(r, found, again)

\* The targets endorsed alike, so that the committing peers find the
\* transaction's endorsements good.
Agreed == \A p, q \in targets : answers[p].payload = answers[q].payload

\* What the call before left with the ordering service stays there.
Begin ==
  /\ pc = "idle"
  /\ result # "ok"
  /\ tries' = [p \in Peers |-> 0]
  /\ seen' = configs
  /\ fresh' = {} /\ answers' = <<>> /\ responses' = {} /\ block' = 0
  /\ ordered' = FALSE /\ earlier' = (earlier \/ (ordered /\ Agreed))
  /\ status' = <<>> /\ notifier' = "none"
  /\ \E found, again \in Found :
       /\ targets' = IF req.op \in {"save", "queryConfig"} THEN RequestOrderer
                     ELSE TargetsOf(req, found, again)
       /\ faults' = IF {found, again} = {Peers} THEN faults ELSE faults + 1
  /\ todo' = targets'
  /\ IF ~(PrepareRequestOpts(req) /\ RequiredParams(req) /\ ExtractChannelConfig(req))
     THEN Fail(Plain)
     ELSE IF targets' = {} THEN Fail(NoPeers)
     ELSE pc' = FirstStep(req.op) /\ err' = NoError /\ UNCHANGED result
  /\ UNCHANGED <<req, netVars>>

(***************************************************************************)
(* invoke.Retry as the resource functions use it: whether an error of      *)
(* target p is followed by another attempt.                                *)
(***************************************************************************)
Again(s, p) ==
  ResolveRetry(One(s), tries[p], IF req.retry THEN Attempts ELSE 0,
               ResMgmtDefaultRetryableCodes)

-----------------------------------------------------------------------------
(* JoinChannel: the genesis block, then all targets at once.               *)

GenesisBlock ==
  /\ pc = "genesis"
  /\ \/ /\ pc' = "join"
        /\ UNCHANGED <<err, result, faults>>
     \/ /\ faults < MaxFaults
        /\ faults' = faults + 1
        /\ Fail(Status("OrdererServer", "NOT_FOUND"))
  /\ UNCHANGED <<req, callVars, netVars, seen, block, txVars>>

JoinTarget(p) ==
  /\ pc = "join"
  /\ p \in todo
  /\ \E ans \in Answers(p \in joined) :
       /\ Faulty(ans) => faults < MaxFaults
       /\ faults' = IF Faulty(ans) THEN faults + 1 ELSE faults
       /\ joined' = IF ans \in {"ok", "lost"} THEN joined \cup {p} ELSE joined
       /\ IF ans # "ok" /\ Again(AnswerError(ans, p), p)
          THEN /\ tries' = [tries EXCEPT ![p] = @ + 1]
               /\ UNCHANGED <<todo, err>>
          ELSE /\ todo' = todo \ {p}
               /\ err' = IF ans = "ok" THEN err ELSE Errors(err, {AnswerError(ans, p)})
               /\ UNCHANGED tries
  /\ UNCHANGED <<req, pc, targets, fresh, answers, responses, result, installed,
                 definitions, channel, configs, seen, block, txVars>>

JoinReturns ==
  /\ pc = "join"
  /\ todo = {}
  /\ Return(err)
  /\ UNCHANGED <<req, callVars, netVars, seen, block, txVars, faults>>

-----------------------------------------------------------------------------
(* InstallCC and LifecycleInstallCC.                                       *)

\* Slip: the list of installed chaincodes is not searched.
NeedsInstall_Always(p) == TRUE

\* isChaincodeInstalled and isInstalled.
NeedsInstall(p) == p \notin installed

\* adjustTargets and adjustTargetsForInstall, one target.  The error loses its
\* status.
CheckInstalled(p) ==
  /\ pc = "check"
  /\ p \in todo
  /\ \/ /\ ~NeedsInstall(p)
        /\ responses' = IF req.op = "install" THEN responses \cup {p} ELSE responses
        /\ todo' = todo \ {p}
        /\ UNCHANGED <<fresh, tries, err, faults>>
     \/ /\ NeedsInstall(p)
        /\ fresh' = fresh \cup {p}
        /\ todo' = todo \ {p}
        /\ UNCHANGED <<responses, tries, err, faults>>
     \/ /\ faults < MaxFaults
        /\ faults' = faults + 1
        /\ IF Again(AnswerError("down", p), p)
           THEN tries' = [tries EXCEPT ![p] = @ + 1] /\ UNCHANGED <<todo, err>>
           ELSE todo' = todo \ {p} /\ err' = Errors(err, {Plain}) /\ UNCHANGED tries
        /\ UNCHANGED <<responses, fresh>>
  /\ UNCHANGED <<req, pc, targets, answers, result, netVars, seen, block, txVars>>

\* Slip: the responses collected so far are returned with the error.
SendInstall_KeepsOnError(ans) == responses \cup DOMAIN ans

\* sendInstallCCRequest and install: the responses of all or, if one fails,
\* none, those about the targets that have it already included.
SendInstall(ans) ==
  IF \A p \in DOMAIN ans : ans[p] = "ok" THEN responses \cup DOMAIN ans ELSE {}

\* InstallChaincode of the resource package: one proposal to all, no retry.
InstallChaincode ==
  {ans \in [fresh -> {"ok", "lost", "down", "refused"}] :
     \A p \in fresh : ans[p] \in Answers(p \in installed)}

Install ==
  /\ pc = "check"
  /\ todo = {}
  /\ \/ /\ fresh = {}
        /\ Return(err)
        /\ UNCHANGED <<responses, installed, faults>>
     \/ /\ fresh # {}
        /\ \E ans \in InstallChaincode :
             /\ faults' = faults + FaultCount(ans)
             /\ faults' <= MaxFaults
             /\ installed' = installed \cup {p \in fresh : ans[p] \in {"ok", "lost"}}
             /\ responses' = SendInstall(ans)
             /\ Return(Errors(err, {AnswerError(ans[p], p) : p \in {q \in fresh : ans[q] # "ok"}}))
  /\ UNCHANGED <<req, targets, todo, tries, fresh, answers, joined, definitions, channel,
                 configs, seen, block, txVars>>

-----------------------------------------------------------------------------
(* Queries of one peer.                                                    *)

\* queryChaincodeWithTarget, and its like in the lifecycle resource.
Ask(retried) ==
  /\ pc = "query"
  /\ \E p \in targets :
       \/ /\ responses' = {p}
          /\ Return(NoError)
          /\ UNCHANGED <<tries, faults>>
       \/ /\ faults < MaxFaults
          /\ faults' = faults + 1
          /\ IF retried /\ Again(AnswerError("down", p), p)
             THEN tries' = [tries EXCEPT ![p] = @ + 1] /\ UNCHANGED <<pc, err, result>>
             ELSE Return(One(AnswerError("down", p))) /\ UNCHANGED tries
          /\ UNCHANGED responses
  /\ UNCHANGED <<req, targets, todo, fresh, answers, netVars, seen, block, txVars>>

\* These two pass the retry options on, the others do not.
QueryInstalledChaincodes == req.op = "queryInstalled" /\ Ask(TRUE)

QueryChannels == req.op = "queryChannels" /\ Ask(TRUE)

QueryInstantiatedChaincodes == req.op = "queryInstantiated" /\ Ask(FALSE)

QueryCollectionsConfig == req.op = "queryCollections" /\ Ask(FALSE)

QueryInstalled == req.op = "lcqueryInstalled" /\ Ask(FALSE)

GetInstalledPackage == req.op = "lcgetPackage" /\ Ask(FALSE)

\* The policy of the approved definition is unmarshalled too.
QueryApproved ==
  /\ req.op = "queryApproved"
  /\ UnmarshalApplicationPolicy(PeerPolicy(req.policy)) # "error"
  /\ Ask(FALSE)

Query ==
  \/ QueryInstalledChaincodes \/ QueryChannels
  \/ QueryInstantiatedChaincodes \/ QueryCollectionsConfig
  \/ QueryInstalled \/ GetInstalledPackage \/ QueryApproved

-----------------------------------------------------------------------------
(* Proposals to the peers of a channel, and the transactions made of them. *)

Signed == [payload : {"p", "q"}, signed : BOOLEAN]
Good == [payload |-> "p", signed |-> TRUE]

EventService ==
  /\ pc = "service"
  /\ \/ /\ pc' = IF req.op \in Deploys THEN "register" ELSE "endorse"
        /\ UNCHANGED <<err, result, faults>>
     \/ /\ faults < MaxFaults
        /\ faults' = faults + 1
        /\ Fail(Plain)
  /\ UNCHANGED <<req, callVars, netVars, seen, block, txVars>>

\* The channel has what the request asks for: it was deployed, approved or
\* committed before.
Defined == req.op \in Deploys \cup Lifecycles /\ Proposal(req).policy \in definitions

\* prepare, the Create...Proposal functions, SendTransactionProposal.  Peers
\* refuse to endorse what is defined already.
Endorse ==
  /\ pc = "endorse"
  /\ IF Proposal(req).policy = "error"
     THEN Fail(Plain) /\ UNCHANGED <<answers, faults>>
     ELSE \/ /\ Defined
             /\ \E p \in targets : Return(One(AnswerError("refused", p)))
             /\ UNCHANGED <<answers, faults>>
          \/ /\ ~Defined
             /\ \E a \in [targets -> Signed] :
                  /\ answers' = a
                  /\ faults' = faults + Cardinality({p \in targets : a[p] # Good})
                  /\ faults' <= MaxFaults
             /\ pc' = "verify"
             /\ UNCHANGED <<err, result>>
          \/ /\ faults < MaxFaults
             /\ faults' = faults + 1
             /\ \E p \in targets : Return(One(AnswerError("down", p)))
             /\ UNCHANGED answers
  /\ UNCHANGED <<req, targets, todo, tries, fresh, responses, netVars, seen, block, txVars>>

\* verifyTPSignature.
VerifyTPSignature == \A p \in targets : answers[p].signed

\* verifyResponsesMatch, for the queries that ask several peers.
VerifyResponsesMatch == \A p, q \in targets : answers[p].payload = answers[q].payload

\* unmarshalChaincodeDefinition(s) of what was committed last.
Unmarshalled == \A d \in definitions : UnmarshalApplicationPolicy(PeerPolicy(d)) # "error"

Verify ==
  /\ pc = "verify"
  /\ IF ~VerifyTPSignature THEN Fail(Plain) /\ UNCHANGED responses
     ELSE IF req.op \notin Collects
     THEN /\ pc' = IF req.op \in Deploys THEN "service" ELSE "register"
          /\ UNCHANGED <<err, result, responses>>
     ELSE IF ~VerifyResponsesMatch \/ (req.op = "queryCommitted" /\ ~Unmarshalled)
     THEN Fail(Plain) /\ UNCHANGED responses
     ELSE Return(NoError) /\ responses' = targets
  /\ UNCHANGED <<req, targets, todo, tries, fresh, answers, netVars, seen, block, txVars, faults>>

\* sendTransactionAndCheckEvent: RegisterTxStatusEvent, which fails, or queues
\* the registration and waits without a timeout, for ever if the dispatcher
\* stops with it in its queue; then createAndSendTransaction.
Broadcast ==
  /\ pc = "register"
  /\ \/ /\ \E taken, known \in BOOLEAN :
             /\ faults' = IF taken /\ known THEN faults ELSE faults + 1
             /\ ordered' = taken
             /\ IF known THEN pc' = "wait" /\ notifier' = "open" /\ UNCHANGED <<err, result>>
                ELSE Fail(Status("GRPCTransport", "UNAVAILABLE")) /\ UNCHANGED notifier
     \/ /\ faults' = faults + 1
        /\ \/ Fail(Plain)
           \/ pc' = "stranded" /\ UNCHANGED <<err, result>>
        /\ UNCHANGED <<ordered, notifier>>
  /\ faults' <= MaxFaults
  /\ UNCHANGED <<req, callVars, netVars, seen, block, earlier, status>>

Committed(code) == code = "VALID"

Wait ==
  /\ pc = "wait"
  /\ \/ /\ status # <<>>
        /\ IF Committed(Head(status)) THEN Return(NoError)
           ELSE Fail(Status("EventServer", Head(status)))
        /\ notifier' = "none"
        /\ UNCHANGED faults
     \/ /\ status = <<>> /\ notifier = "closed"
        /\ pc' = "panic"
        /\ UNCHANGED <<err, result, notifier, faults>>
     \/ /\ ~ordered /\ status = <<>>
        /\ Fail(Plain)
        /\ notifier' = "none"
        /\ UNCHANGED faults
     \/ /\ faults < MaxFaults
        /\ faults' = faults + 1
        /\ Fail(Plain)
        /\ notifier' = "none"
  /\ UNCHANGED <<req, callVars, netVars, seen, block, ordered, earlier, status>>

-----------------------------------------------------------------------------
(* SaveChannel: one transaction, sent again on a retry.                    *)

\* The orderer takes the transaction and says so, refuses it, is down, takes
\* it and its answer is lost, or ends the stream without any status, which
\* SendBroadcast reports as success.
OrdererAnswers == (IF channel = {} THEN {"ok", "lost"} ELSE {"refused"}) \cup {"down", "silent"}

OrdererError(ans) ==
  IF ans = "refused" THEN Status("OrdererServer", "BAD_REQUEST")
  ELSE Status("GRPCTransport", "UNAVAILABLE")

CreateChannel ==
  /\ pc = "create"
  /\ \E o \in targets, ans \in OrdererAnswers :
       LET sigs == GetConfigSignatures(req)
       IN  IF sigs = {} THEN Fail(Plain) /\ UNCHANGED <<channel, tries, responses, faults>>
           ELSE /\ faults' = IF ans \in {"ok", "refused"} THEN faults ELSE faults + 1
                /\ faults' <= MaxFaults
                /\ channel' = IF ans \in {"ok", "lost"} THEN sigs ELSE channel
                /\ responses' = IF ans = "ok" THEN {o} ELSE {}
                /\ IF ans \in {"ok", "silent"} THEN Return(NoError) /\ UNCHANGED tries
                   ELSE IF \A p \in Peers : Again(OrdererError(ans), p)
                   THEN tries' = [p \in Peers |-> tries[p] + 1] /\ UNCHANGED <<pc, err, result>>
                   ELSE Fail(OrdererError(ans)) /\ UNCHANGED tries
  /\ UNCHANGED <<req, targets, todo, fresh, answers, joined, installed,
                 definitions, configs, seen, block, txVars>>

-----------------------------------------------------------------------------
(* QueryConfigFromOrderer: LastConfigFromOrderer reads the newest block,   *)
(* takes the number of the last config block from its metadata and reads   *)
(* that block.  A stream that ends without a block yields nil.             *)

\* Slip: the number is that of the config block before.
GetLastConfigFromBlock_OffByOne == configs - 1

GetLastConfigFromBlock == configs

NewestBlock ==
  /\ pc = "newest"
  /\ \/ /\ block' = GetLastConfigFromBlock
        /\ pc' = "lastconfig"
        /\ UNCHANGED <<err, result, faults>>
     \/ /\ faults < MaxFaults
        /\ faults' = faults + 1
        /\ Fail(Status("OrdererServer", "SERVICE_UNAVAILABLE"))
        /\ UNCHANGED block
     \/ /\ faults < MaxFaults
        /\ faults' = faults + 1
        /\ pc' = "panic"
        /\ UNCHANGED <<err, result, block>>
  /\ UNCHANGED <<req, callVars, netVars, seen, txVars>>

\* The stream may yield no block here either, which is dereferenced too, or one
\* that does not hold exactly one transaction.
LastConfig ==
  /\ pc = "lastconfig"
  /\ \/ Return(NoError) /\ UNCHANGED faults
     \/ /\ faults < MaxFaults
        /\ faults' = faults + 1
        /\ \/ \E s \in {Status("OrdererServer", "SERVICE_UNAVAILABLE"), Plain} : Fail(s)
           \/ pc' = "panic" /\ UNCHANGED <<err, result>>
  /\ UNCHANGED <<req, callVars, netVars, seen, block, txVars>>

Client ==
  \/ Begin
  \/ GenesisBlock \/ (\E p \in Peers : JoinTarget(p)) \/ JoinReturns
  \/ (\E p \in Peers : CheckInstalled(p)) \/ Install
  \/ Query \/ EventService \/ Endorse \/ Verify \/ Broadcast \/ Wait
  \/ CreateChannel \/ NewestBlock \/ LastConfig

-----------------------------------------------------------------------------
(* The network and the other administrators (external).                    *)

\* What is defined already has changed what the transaction read.
CommitTransaction ==
  /\ ordered
  /\ ordered' = FALSE
  /\ LET code == IF ~Agreed THEN "ENDORSEMENT_POLICY_FAILURE"
                 ELSE IF Defined THEN "MVCC_READ_CONFLICT"
                 ELSE "VALID"
     IN  /\ status' = IF notifier = "open" THEN <<code>> ELSE status
         /\ definitions' = IF code = "VALID" THEN definitions \cup {Proposal(req).policy}
                           ELSE definitions
  /\ UNCHANGED <<req, pc, callVars, err, result, joined, installed, channel, configs, seen,
                 block, earlier, notifier, faults>>

\* The transaction of a call that has returned is committed later.
CommitEarlier ==
  /\ earlier
  /\ earlier' = FALSE
  /\ definitions' = definitions \cup {Proposal(req).policy}
  /\ UNCHANGED <<req, pc, callVars, err, result, joined, installed, channel, configs, seen,
                 block, ordered, status, notifier, faults>>

EventServiceStops ==
  /\ notifier = "open"
  /\ faults < MaxFaults
  /\ faults' = faults + 1
  /\ notifier' = "closed"
  /\ UNCHANGED <<req, pc, callVars, err, result, netVars, seen, block, ordered, earlier, status>>

OtherInstalls(p) ==
  /\ req.op \in Installs
  /\ p \notin installed
  /\ installed' = installed \cup {p}
  /\ UNCHANGED <<req, pc, callVars, err, result, joined, definitions, channel, configs, seen,
                 block, txVars, faults>>

OtherUpdatesConfig ==
  /\ req.op = "queryConfig"
  /\ configs < MaxConfigs
  /\ configs' = configs + 1
  /\ UNCHANGED <<req, pc, callVars, err, result, joined, installed, definitions, channel, seen,
                 block, txVars, faults>>

Next ==
  \/ Client
  \/ CommitTransaction \/ CommitEarlier \/ EventServiceStops \/ OtherUpdatesConfig
  \/ \E p \in Peers : OtherInstalls(p)

\* The client's goroutines run and the ordering service orders what it took.
Spec ==
  /\ Init
  /\ [][Next]_vars
  /\ WF_vars(Client)
  /\ WF_vars(CommitTransaction)
  /\ WF_vars(CommitEarlier)

-----------------------------------------------------------------------------
(***************************************************************************)
(* A call that returns without an error has done what was asked for on     *)
(* every target: joined (JoinChannel), installed (InstallCC), a valid      *)
(* transaction (sendTransactionAndCheckEvent), a channel made with the     *)
(* signatures asked for if the orderer answered at all (SaveChannel), an   *)
(* answer all targets agree on (checkCommitReadiness, queryCommitted); and *)
(* whatever it returns, the responses of an install name only targets that *)
(* have the chaincode.                                                     *)
(***************************************************************************)
Truthful ==
  /\ result = "ok" =>
       /\ req.op = "join" => targets \subseteq joined
       /\ req.op \in Installs => targets \subseteq installed
       /\ req.op \in Deploys \cup Lifecycles =>
            /\ Proposal(req).policy \in definitions
            /\ Agreed
       /\ req.op = "save" /\ responses # {} => channel = GetConfigSignatures(req)
       /\ req.op \in Collects => \A p, q \in targets : answers[p] = answers[q]
  /\ req.op \in Installs => responses \subseteq installed

(***************************************************************************)
(* The config block that QueryConfigFromOrderer returns is not older than  *)
(* the one that was in force when the call began, although it is found in  *)
(* two reads between which the channel may be reconfigured.                *)
(***************************************************************************)
ConfigFresh ==
  /\ req.op = "queryConfig" /\ result = "ok" => block \in seen..configs
  /\ block <= configs

Possible(r) ==
  /\ PrepareRequestOpts(r) /\ RequiredParams(r) /\ ExtractChannelConfig(r)
  /\ Proposal(r).policy # "error"
  /\ TargetsOf(r, Peers, Peers) # {} /\ GetConfigSignatures(r) # {}

(***************************************************************************)
(* Repeating a request gets it done once the network behaves: an install   *)
(* that failed halfway succeeds, because what is installed is left alone   *)
(* (adjustTargets), and so do queries.  A join, a channel creation, a      *)
(* deployment, an approval or a commit whose answer got lost leaves        *)
(* nothing undone either, though the call is refused for ever after (the   *)
(* client looks for no trace of it).  A call can also end the program, on  *)
(* a nil status or block, or be stranded in a registration that the event  *)
(* service stopped on (RegisterTxStatusEvent).                             *)
(***************************************************************************)
Settles ==
  Possible(req) =>
    <>(\/ pc \in {"panic", "stranded"}
       \/ result = "ok"
       \/ req.op = "join" /\ TargetsOf(req, Peers, Peers) \subseteq joined
       \/ req.op = "save" /\ channel # {}
       \/ Defined)

=============================================================================
