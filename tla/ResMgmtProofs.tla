--------------------------- MODULE ResMgmtProofs ---------------------------
(***************************************************************************)
(* The resource management client tells the truth, and reads a current     *)
(* configuration: for any peers, orderers, filters and requests, and any   *)
(* number of retries, faults and config blocks.                            *)
(*                                                                         *)
(* A result is reported at the end of a call and is about all of its       *)
(* steps, while other administrators go on and the transaction of a call   *)
(* that gave up may still be committed; so the invariant says, at every    *)
(* step, what the ones before it have achieved.                            *)
(***************************************************************************)
EXTENDS ResMgmt, TLAPS

-----------------------------------------------------------------------------
(* The inductive invariant                                                 *)

\* Which request each step of a call belongs to, and when a registration is
\* open and a status waits; a call that is done is idle, so its result stands.
Control ==
  /\ pc \in {"idle", "panic", "stranded", "query", "genesis", "join", "check", "endorse", "verify", "service",
             "register", "wait", "create", "newest", "lastconfig"}
  /\ pc \in {"genesis", "join"} => req.op = "join"
  /\ pc = "check" => req.op \in Installs
  /\ pc \in {"endorse", "verify"} => req.op \in Deploys \cup Lifecycles \cup Collects
  /\ pc \in {"service", "register", "wait"} => req.op \in Deploys \cup Lifecycles
  /\ pc = "create" => req.op = "save"
  /\ pc \in {"newest", "lastconfig"} => req.op = "queryConfig"
  /\ result = "ok" => pc = "idle"
  /\ notifier = "open" => pc = "wait"
  /\ status # <<>> => pc \in {"wait", "idle", "panic"}

\* As long as there is no error, the targets that were asked have joined, or
\* have the chaincode or are on the list of those that are to get it.
NoneSkipped ==
  /\ pc = "genesis" => todo = targets
  /\ pc = "join" /\ err = NoError => targets \ todo \subseteq joined
  /\ pc = "check" /\ err.errs = {} => targets \ todo \subseteq installed \cup fresh
  /\ pc = "verify" => answers \in [targets -> Signed]

\* A status that says valid is about this call's transaction.
StatusTrue ==
  status # <<>> /\ Head(status) = "VALID" =>
    /\ Proposal(req).policy \in definitions
    /\ Agreed

\* The config block number was read from a newest block of this call.
ConfigReads ==
  /\ configs \in Nat /\ seen \in 0..configs /\ block \in 0..configs
  /\ pc = "lastconfig" => seen <= block

IInv == Control /\ NoneSkipped /\ StatusTrue /\ ConfigReads /\ Truthful /\ ConfigFresh

-----------------------------------------------------------------------------
(* Initial states and steps                                                *)

\* The invariant holds before the first call.
LEMMA InitInvariant == Init => IInv
<1> SUFFICES ASSUME Init PROVE IInv
  OBVIOUS
<1> QED
  BY DEF Init, IInv, Control, NoneSkipped, StatusTrue, ConfigReads, Truthful, ConfigFresh,
       Installs

\* No error is made of one, and none of some and one more.
LEMMA ErrorsFound ==
  /\ \A s : One(s) # NoError
  /\ \A old, s : Errors(old, {s}) # NoError /\ Errors(old, {s}).errs # {}
  /\ \A old, S : Errors(old, S) = NoError => old.errs = {} /\ S = {}
BY DEF One, NoError, Errors, Multi

\* Every step is of its own request's kind.
LEMMA ControlStep ==
  ASSUME IInv, [Next]_vars
  PROVE  Control'
<1> USE ErrorsFound DEF IInv, vars, callVars, netVars, txVars, Return, Fail, Control, Installs,
     Deploys, Lifecycles, Collects
<1>1. CASE Begin
  BY <1>1 DEF Begin, FirstStep, NoPeers
<1>2. CASE GenesisBlock
  BY <1>2 DEF GenesisBlock
<1>3. ASSUME NEW p \in Peers, JoinTarget(p) PROVE Control'
  BY <1>3 DEF JoinTarget
<1>4. CASE JoinReturns
  BY <1>4 DEF JoinReturns
<1>5. ASSUME NEW p \in Peers, CheckInstalled(p) PROVE Control'
  BY <1>5 DEF CheckInstalled, NeedsInstall
<1>6. CASE Install
  BY <1>6 DEF Install, InstallChaincode, SendInstall
<1>7. CASE Query
  BY <1>7 DEF Query, QueryInstalledChaincodes, QueryChannels, QueryInstantiatedChaincodes,
       QueryCollectionsConfig, QueryInstalled, GetInstalledPackage, QueryApproved, Ask
<1>8. CASE EventService
  BY <1>8 DEF EventService
<1>9. CASE Endorse
  BY <1>9 DEF Endorse
<1>10. CASE Verify
  BY <1>10 DEF Verify, VerifyTPSignature, VerifyResponsesMatch
<1>11. CASE Broadcast
  BY <1>11 DEF Broadcast
<1>12. CASE Wait
  BY <1>12 DEF Wait, Committed
<1>13. CASE CreateChannel
  BY <1>13 DEF CreateChannel
<1>14. CASE NewestBlock
  BY <1>14 DEF NewestBlock, GetLastConfigFromBlock
<1>15. CASE LastConfig
  BY <1>15 DEF LastConfig
<1>16. CASE CommitTransaction \/ CommitEarlier
  BY <1>16 DEF CommitTransaction, CommitEarlier
<1>17. CASE EventServiceStops
  BY <1>17 DEF EventServiceStops
<1>18. CASE OtherUpdatesConfig
  BY <1>18 DEF OtherUpdatesConfig
<1>19. ASSUME NEW p \in Peers, OtherInstalls(p) PROVE Control'
  BY <1>19 DEF OtherInstalls
<1>20. CASE UNCHANGED vars
  BY <1>20
<1> QED
  BY <1>1, <1>2, <1>3, <1>4, <1>5, <1>6, <1>7, <1>8, <1>9, <1>10, <1>11, <1>12, <1>13, <1>14,
       <1>15, <1>16, <1>17, <1>18, <1>19, <1>20 DEF Next, Client

\* No target is left out without an error (JoinChannel, adjustTargets).
LEMMA NoneSkippedStep ==
  ASSUME IInv, [Next]_vars
  PROVE  NoneSkipped'
<1> USE ErrorsFound DEF IInv, vars, callVars, netVars, txVars, Return, Fail, Control, NoneSkipped
<1>1. CASE Begin
  BY <1>1 DEF Begin, FirstStep, NoPeers
<1>2. CASE GenesisBlock
  BY <1>2 DEF GenesisBlock
<1>3. ASSUME NEW p \in Peers, JoinTarget(p) PROVE NoneSkipped'
  BY <1>3 DEF JoinTarget
<1>4. CASE JoinReturns
  BY <1>4 DEF JoinReturns
<1>5. ASSUME NEW p \in Peers, CheckInstalled(p) PROVE NoneSkipped'
  BY <1>5 DEF CheckInstalled, NeedsInstall
<1>6. CASE Install
  BY <1>6 DEF Install, InstallChaincode, SendInstall
<1>7. CASE Query
  BY <1>7 DEF Query, QueryInstalledChaincodes, QueryChannels, QueryInstantiatedChaincodes,
       QueryCollectionsConfig, QueryInstalled, GetInstalledPackage, QueryApproved, Ask
<1>8. CASE EventService
  BY <1>8 DEF EventService
<1>9. CASE Endorse
  BY <1>9 DEF Endorse
<1>10. CASE Verify
  BY <1>10 DEF Verify, VerifyTPSignature, VerifyResponsesMatch
<1>11. CASE Broadcast
  BY <1>11 DEF Broadcast
<1>12. CASE Wait
  BY <1>12 DEF Wait, Committed
<1>13. CASE CreateChannel
  BY <1>13 DEF CreateChannel
<1>14. CASE NewestBlock
  BY <1>14 DEF NewestBlock, GetLastConfigFromBlock
<1>15. CASE LastConfig
  BY <1>15 DEF LastConfig
<1>16. CASE CommitTransaction \/ CommitEarlier
  BY <1>16 DEF CommitTransaction, CommitEarlier
<1>17. CASE EventServiceStops
  BY <1>17 DEF EventServiceStops
<1>18. CASE OtherUpdatesConfig
  BY <1>18 DEF OtherUpdatesConfig
<1>19. ASSUME NEW p \in Peers, OtherInstalls(p) PROVE NoneSkipped'
  BY <1>19 DEF OtherInstalls
<1>20. CASE UNCHANGED vars
  BY <1>20
<1> QED
  BY <1>1, <1>2, <1>3, <1>4, <1>5, <1>6, <1>7, <1>8, <1>9, <1>10, <1>11, <1>12, <1>13, <1>14,
       <1>15, <1>16, <1>17, <1>18, <1>19, <1>20 DEF Next, Client

\* A status that waits tells the truth, also when the call that registered for
\* it has given up and the next one begins.
LEMMA StatusTrueStep ==
  ASSUME IInv, [Next]_vars
  PROVE  StatusTrue'
<1> USE ErrorsFound DEF IInv, vars, callVars, netVars, txVars, Return, Fail, Control, StatusTrue, Agreed
<1>1. CASE Begin
  BY <1>1 DEF Begin, FirstStep, NoPeers
<1>2. CASE GenesisBlock
  BY <1>2 DEF GenesisBlock
<1>3. ASSUME NEW p \in Peers, JoinTarget(p) PROVE StatusTrue'
  BY <1>3 DEF JoinTarget
<1>4. CASE JoinReturns
  BY <1>4 DEF JoinReturns
<1>5. ASSUME NEW p \in Peers, CheckInstalled(p) PROVE StatusTrue'
  BY <1>5 DEF CheckInstalled, NeedsInstall
<1>6. CASE Install
  BY <1>6 DEF Install, InstallChaincode, SendInstall
<1>7. CASE Query
  BY <1>7 DEF Query, QueryInstalledChaincodes, QueryChannels, QueryInstantiatedChaincodes,
       QueryCollectionsConfig, QueryInstalled, GetInstalledPackage, QueryApproved, Ask
<1>8. CASE EventService
  BY <1>8 DEF EventService
<1>9. CASE Endorse
  BY <1>9 DEF Endorse
<1>10. CASE Verify
  BY <1>10 DEF Verify, VerifyTPSignature, VerifyResponsesMatch
<1>11. CASE Broadcast
  BY <1>11 DEF Broadcast
<1>12. CASE Wait
  BY <1>12 DEF Wait, Committed
<1>13. CASE CreateChannel
  BY <1>13 DEF CreateChannel
<1>14. CASE NewestBlock
  BY <1>14 DEF NewestBlock, GetLastConfigFromBlock
<1>15. CASE LastConfig
  BY <1>15 DEF LastConfig
<1>16. CASE CommitTransaction \/ CommitEarlier
  BY <1>16 DEF CommitTransaction, CommitEarlier
<1>17. CASE EventServiceStops
  BY <1>17 DEF EventServiceStops
<1>18. CASE OtherUpdatesConfig
  BY <1>18 DEF OtherUpdatesConfig
<1>19. ASSUME NEW p \in Peers, OtherInstalls(p) PROVE StatusTrue'
  BY <1>19 DEF OtherInstalls
<1>20. CASE UNCHANGED vars
  BY <1>20
<1> QED
  BY <1>1, <1>2, <1>3, <1>4, <1>5, <1>6, <1>7, <1>8, <1>9, <1>10, <1>11, <1>12, <1>13, <1>14,
       <1>15, <1>16, <1>17, <1>18, <1>19, <1>20 DEF Next, Client

\* The channel is reconfigured between the two reads, never back.
LEMMA ConfigStep ==
  ASSUME IInv, [Next]_vars
  PROVE  ConfigReads'
<1> USE ErrorsFound DEF IInv, vars, callVars, netVars, txVars, Return, Fail, Control, ConfigReads
<1>1. CASE Begin
  BY <1>1 DEF Begin, FirstStep, NoPeers
<1>2. CASE GenesisBlock
  BY <1>2 DEF GenesisBlock
<1>3. ASSUME NEW p \in Peers, JoinTarget(p) PROVE ConfigReads'
  BY <1>3 DEF JoinTarget
<1>4. CASE JoinReturns
  BY <1>4 DEF JoinReturns
<1>5. ASSUME NEW p \in Peers, CheckInstalled(p) PROVE ConfigReads'
  BY <1>5 DEF CheckInstalled, NeedsInstall
<1>6. CASE Install
  BY <1>6 DEF Install, InstallChaincode, SendInstall
<1>7. CASE Query
  BY <1>7 DEF Query, QueryInstalledChaincodes, QueryChannels, QueryInstantiatedChaincodes,
       QueryCollectionsConfig, QueryInstalled, GetInstalledPackage, QueryApproved, Ask
<1>8. CASE EventService
  BY <1>8 DEF EventService
<1>9. CASE Endorse
  BY <1>9 DEF Endorse
<1>10. CASE Verify
  BY <1>10 DEF Verify, VerifyTPSignature, VerifyResponsesMatch
<1>11. CASE Broadcast
  BY <1>11 DEF Broadcast
<1>12. CASE Wait
  BY <1>12 DEF Wait, Committed
<1>13. CASE CreateChannel
  BY <1>13 DEF CreateChannel
<1>14. CASE NewestBlock
  BY <1>14 DEF NewestBlock, GetLastConfigFromBlock
<1>15. CASE LastConfig
  BY <1>15 DEF LastConfig
<1>16. CASE CommitTransaction \/ CommitEarlier
  BY <1>16 DEF CommitTransaction, CommitEarlier
<1>17. CASE EventServiceStops
  BY <1>17 DEF EventServiceStops
<1>18. CASE OtherUpdatesConfig
  BY <1>18 DEF OtherUpdatesConfig
<1>19. ASSUME NEW p \in Peers, OtherInstalls(p) PROVE ConfigReads'
  BY <1>19 DEF OtherInstalls
<1>20. CASE UNCHANGED vars
  BY <1>20
<1> QED
  BY <1>1, <1>2, <1>3, <1>4, <1>5, <1>6, <1>7, <1>8, <1>9, <1>10, <1>11, <1>12, <1>13, <1>14,
       <1>15, <1>16, <1>17, <1>18, <1>19, <1>20 DEF Next, Client

\* What a call reports is so when it returns, and stays so.
LEMMA TruthStep ==
  ASSUME IInv, [Next]_vars
  PROVE  Truthful'
<1> USE ErrorsFound DEF IInv, vars, callVars, netVars, txVars, Return, Fail, Control,
     NoneSkipped, StatusTrue, Truthful, Agreed, Installs, Deploys, Lifecycles, Collects
<1>1. CASE Begin
  BY <1>1 DEF Begin, FirstStep, NoPeers
<1>2. CASE GenesisBlock
  BY <1>2 DEF GenesisBlock
<1>3. ASSUME NEW p \in Peers, JoinTarget(p) PROVE Truthful'
  BY <1>3 DEF JoinTarget
<1>4. CASE JoinReturns
  BY <1>4 DEF JoinReturns
<1>5. ASSUME NEW p \in Peers, CheckInstalled(p) PROVE Truthful'
  BY <1>5 DEF CheckInstalled, NeedsInstall
<1>6. CASE Install
  <2>1. req.op \in Installs /\ pc = "check" /\ todo = {}
    BY <1>6 DEF Install
  <2>2. responses' \subseteq installed'
    BY <1>6, <2>1 DEF Install, InstallChaincode, SendInstall
  <2>3. ASSUME result' = "ok" PROVE targets' \subseteq installed'
    <3>1. CASE fresh = {}
      BY <1>6, <2>1, <2>3, <3>1 DEF Install, NoError
    <3>2. CASE fresh # {}
      <4>1. PICK ans \in InstallChaincode :
              /\ installed' = installed \cup {p \in fresh : ans[p] \in {"ok", "lost"}}
              /\ Return(Errors(err, {AnswerError(ans[p],
                   p) : p \in {q \in fresh : ans[q] # "ok"}}))
        BY <1>6, <3>2 DEF Install
      <4>2. err.errs = {} /\ \A p \in fresh : ans[p] = "ok"
        BY <2>3, <4>1
      <4> QED
        BY <1>6, <2>1, <4>1, <4>2 DEF Install
    <3> QED
      BY <3>1, <3>2
  <2> QED
    BY <1>6, <2>1, <2>2, <2>3 DEF Install
<1>7. CASE Query
  BY <1>7 DEF Query, QueryInstalledChaincodes, QueryChannels, QueryInstantiatedChaincodes,
       QueryCollectionsConfig, QueryInstalled, GetInstalledPackage, QueryApproved, Ask
<1>8. CASE EventService
  BY <1>8 DEF EventService
<1>9. CASE Endorse
  BY <1>9 DEF Endorse
<1>10. CASE Verify
  <2>1. pc = "verify" /\ result # "ok" /\ req.op \notin Installs \cup {"join", "save"}
    BY <1>10 DEF Verify
  <2>2. ASSUME result' = "ok"
        PROVE  req.op \in Collects /\ VerifyTPSignature /\ VerifyResponsesMatch
    BY <1>10, <2>1, <2>2 DEF Verify
  <2>3. ASSUME VerifyTPSignature, VerifyResponsesMatch, NEW p \in targets, NEW q \in targets
        PROVE  answers[p] = answers[q]
    <3>1. answers[p] \in Signed /\ answers[q] \in Signed
      BY <2>1
    <3>2. answers[p].signed = TRUE /\ answers[q].signed = TRUE
      BY <2>3, <3>1 DEF VerifyTPSignature, Signed
    <3>3. answers[p].payload = answers[q].payload
      BY <2>3 DEF VerifyResponsesMatch
    <3> QED
      BY <3>1, <3>2, <3>3 DEF Signed
  <2> QED
    BY <1>10, <2>1, <2>2, <2>3 DEF Verify
<1>11. CASE Broadcast
  BY <1>11 DEF Broadcast
<1>12. CASE Wait
  BY <1>12 DEF Wait, Committed
<1>13. CASE CreateChannel
  BY <1>13 DEF CreateChannel
<1>14. CASE NewestBlock
  BY <1>14 DEF NewestBlock, GetLastConfigFromBlock
<1>15. CASE LastConfig
  BY <1>15 DEF LastConfig
<1>16. CASE CommitTransaction \/ CommitEarlier
  BY <1>16 DEF CommitTransaction, CommitEarlier
<1>17. CASE EventServiceStops
  BY <1>17 DEF EventServiceStops
<1>18. CASE OtherUpdatesConfig
  BY <1>18 DEF OtherUpdatesConfig
<1>19. ASSUME NEW p \in Peers, OtherInstalls(p) PROVE Truthful'
  BY <1>19 DEF OtherInstalls
<1>20. CASE UNCHANGED vars
  BY <1>20
<1> QED
  BY <1>1, <1>2, <1>3, <1>4, <1>5, <1>6, <1>7, <1>8, <1>9, <1>10, <1>11, <1>12, <1>13, <1>14,
       <1>15, <1>16, <1>17, <1>18, <1>19, <1>20 DEF Next, Client

\* The block that was read is in the range.
LEMMA FreshStep ==
  ASSUME IInv, [Next]_vars
  PROVE  ConfigFresh'
<1> USE ErrorsFound DEF IInv, vars, callVars, netVars, txVars, Return, Fail, Control,
     ConfigReads, ConfigFresh, Installs, Deploys, Lifecycles, Collects
<1>1. CASE Begin
  BY <1>1 DEF Begin, FirstStep, NoPeers
<1>2. CASE GenesisBlock
  BY <1>2 DEF GenesisBlock
<1>3. ASSUME NEW p \in Peers, JoinTarget(p) PROVE ConfigFresh'
  BY <1>3 DEF JoinTarget
<1>4. CASE JoinReturns
  BY <1>4 DEF JoinReturns
<1>5. ASSUME NEW p \in Peers, CheckInstalled(p) PROVE ConfigFresh'
  BY <1>5 DEF CheckInstalled, NeedsInstall
<1>6. CASE Install
  BY <1>6 DEF Install, InstallChaincode, SendInstall
<1>7. CASE Query
  BY <1>7 DEF Query, QueryInstalledChaincodes, QueryChannels, QueryInstantiatedChaincodes,
       QueryCollectionsConfig, QueryInstalled, GetInstalledPackage, QueryApproved, Ask
<1>8. CASE EventService
  BY <1>8 DEF EventService
<1>9. CASE Endorse
  BY <1>9 DEF Endorse
<1>10. CASE Verify
  BY <1>10 DEF Verify, VerifyTPSignature, VerifyResponsesMatch
<1>11. CASE Broadcast
  BY <1>11 DEF Broadcast
<1>12. CASE Wait
  BY <1>12 DEF Wait, Committed
<1>13. CASE CreateChannel
  BY <1>13 DEF CreateChannel
<1>14. CASE NewestBlock
  BY <1>14 DEF NewestBlock, GetLastConfigFromBlock
<1>15. CASE LastConfig
  BY <1>15 DEF LastConfig
<1>16. CASE CommitTransaction \/ CommitEarlier
  BY <1>16 DEF CommitTransaction, CommitEarlier
<1>17. CASE EventServiceStops
  BY <1>17 DEF EventServiceStops
<1>18. CASE OtherUpdatesConfig
  BY <1>18 DEF OtherUpdatesConfig
<1>19. ASSUME NEW p \in Peers, OtherInstalls(p) PROVE ConfigFresh'
  BY <1>19 DEF OtherInstalls
<1>20. CASE UNCHANGED vars
  BY <1>20
<1> QED
  BY <1>1, <1>2, <1>3, <1>4, <1>5, <1>6, <1>7, <1>8, <1>9, <1>10, <1>11, <1>12, <1>13, <1>14,
       <1>15, <1>16, <1>17, <1>18, <1>19, <1>20 DEF Next, Client

-----------------------------------------------------------------------------
(* The theorems                                                            *)

\* Every step keeps the invariant.
LEMMA StepInvariant == IInv /\ [Next]_vars => IInv'
BY ControlStep, NoneSkippedStep, StatusTrueStep, ConfigStep, TruthStep, FreshStep DEF IInv

\* It holds in every state.
LEMMA Invariant == Spec => []IInv
BY InitInvariant, StepInvariant, PTL DEF Spec

\* A call of the resource management client that returns without an error has
\* done on every target what was asked for, and an install names only targets
\* that have the chaincode (JoinChannel, InstallCC, InstantiateCC, the
\* lifecycle calls, SaveChannel): for any peers, requests, retries and faults.
THEOREM AdminTruthful == Spec => []Truthful
<1>1. IInv => Truthful
  BY DEF IInv
<1> QED
  BY <1>1, Invariant, PTL

\* The config block that QueryConfigFromOrderer returns is never older than the
\* one in force when it was called, however often the channel is reconfigured.
THEOREM ConfigIsFresh == Spec => []ConfigFresh
<1>1. IInv => ConfigFresh
  BY DEF IInv
<1> QED
  BY <1>1, Invariant, PTL

=============================================================================
