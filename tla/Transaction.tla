---------------------------- MODULE Transaction ----------------------------
(***************************************************************************)
(* One call of the channel client (pkg/client/channel): the goroutine that *)
(* runs the chain of handlers (pkg/client/channel/invoke) with retries,    *)
(* the caller that waits for it or for the deadline, the transactor        *)
(* (pkg/fab/channel, pkg/fab/txn), the peers and orderers it talks to      *)
(* (pkg/fab/peer, pkg/fab/orderer) and the event service that reports the  *)
(* commit.                                                                 *)
(*                                                                         *)
(* Each attempt has a transaction ID of its own, counted from 1.  A peer's *)
(* endorsement is its payload, which stands for the read/write set: the    *)
(* chaincodes and collections it touches are RWSet[payload].               *)
(***************************************************************************)
EXTENDS Retry, Sequences

CONSTANTS
  Peers,
  Org,            \* the organisation (MSP) of a peer
  Orderers,
  Chaincode,      \* the chaincode that is called
  Policy,         \* the organisations whose endorsement a chaincode needs
  RWSet,          \* payload -> (chaincode -> collections) found in it
  Given,          \* chaincode -> collections the caller names beforehand
  SystemCCs,      \* lscc and _lifecycle, which need no endorsers of their own
  Attempts        \* bound: attempts of DefaultChannelOpts

ASSUME TransactionAssumption ==
  /\ Org \in [Peers -> STRING]
  /\ IsFiniteSet(Orderers)
  /\ Chaincode \in DOMAIN Policy
  /\ Chaincode \notin SystemCCs
  /\ \A p \in DOMAIN RWSet : DOMAIN RWSet[p] \subseteq DOMAIN Policy \cup SystemCCs
  /\ Attempts \in Nat

Payloads == DOMAIN RWSet

Txs == 1..(Attempts + 1)

VARIABLES
  kind,           \* "query", "execute", or the gateway's "submit"
  given,          \* requestOptions.Targets, {} when the caller names none
  attempts,       \* requestOptions.Retry.Attempts
  outcome,        \* what InvokeHandler returned, "pending" before
  expired,        \* reqCtx is done: the deadline passed or the caller returned
  pc,             \* where the handler goroutine is
  targets,        \* requestContext.Opts.Targets
  chain,          \* requestContext.Request.InvocationChain with the chaincode
  responses,      \* requestContext.Response.Responses
  err,            \* requestContext.Error
  tx,             \* requestContext.Response.TransactionID, 0 before
  retries,        \* impl.retries of the retry handler
  greylist,       \* addresses in the client's greylist
  untried,        \* orderers broadcastEnvelope has not tried yet
  notifier,       \* the TxStatus registration: "none", "open" or "closed"
  status,         \* the status event waiting in its channel, if any
  eventch,        \* the commit events a gateway transaction has passed on
  envelopes,      \* what was signed and handed to the orderers, by transaction
  ordered,        \* envelopes the ordering service accepted, in order
  ledger,         \* <<transaction, validation code>> in commit order
  doubt,          \* transactions whose orderer was lost before it answered
  short           \* no additional endorsers could be found for them

callVars == <<kind, given, attempts>>
requestVars == <<targets, chain, responses, err, tx>>
sendVars == <<untried, notifier, status, eventch>>
worldVars == <<envelopes, ordered, ledger, doubt, short>>

vars == <<callVars, outcome, expired, pc, requestVars, retries, greylist,
          sendVars, worldVars>>

-----------------------------------------------------------------------------
(* Invocation chains.                                                      *)

\* newInvocationChain: the called chaincode, with the collections given for
\* it if any, and the other chaincodes that were given.
NewInvocationChain(g) ==
  [c \in {Chaincode} \cup DOMAIN g |-> IF c \in DOMAIN g THEN g[c] ELSE {}]

\* merge and mergeCCCall: the collections of both.
MergeCCCall(ch, c, colls) == IF c \in DOMAIN ch THEN ch[c] \cup colls ELSE colls

\* Slip: the merged call keeps only what was known before.
MergeInvocationChains_KeepsOld(ch, found) == ch

\* mergeInvocationChains keeps the chaincodes of the response only.
MergeInvocationChains(ch, found) ==
  [c \in DOMAIN found \ SystemCCs |-> MergeCCCall(ch, c, found[c])]

\* getInvocationChainFromResponse reads it from the read/write sets.
InvocationChainOf(r) == RWSet[r.payload]

FoundAdditional(ch, found) ==
  \E c \in DOMAIN found \ SystemCCs :
    ~(c \in DOMAIN ch /\ found[c] \subseteq ch[c])

(***************************************************************************)
(* The selection service (external here): one accepted peer for every      *)
(* organisation the chaincodes of the chain need.  A peer is accepted when *)
(* it is not greylisted (peerFilter).                                      *)
(***************************************************************************)
NeededOrgs(ch) == UNION {Policy[c] : c \in DOMAIN ch}

\* peerFilter of the request: the greylist's Accept.
Accepted == {p \in Peers : p \notin greylist}

Selections(ch) ==
  {T \in SUBSET Accepted :
     /\ {Org[p] : p \in T} = NeededOrgs(ch)
     /\ \A p, q \in T : Org[p] = Org[q] => p = q}

-----------------------------------------------------------------------------
(* Answers of peers and orderers.                                          *)

(***************************************************************************)
(* What ProcessTransactionProposal of a peer returns: an endorsement, or   *)
(* an error of the transport, of the connection, of the chaincode or of a  *)
(* chaincode the peer does not know (sendProposal,                         *)
(* extractChaincodeErrorFromResponse).                                     *)
(***************************************************************************)
Endorsements(p) ==
  {[peer |-> p, payload |-> v, signed |-> s] : v \in Payloads, s \in BOOLEAN}

EndorserErrors(p) ==
  IF expired THEN {StatusAt("GRPCTransport", "DEADLINE_EXCEEDED", p),
                   StatusAt("EndorserClient", "CONNECTION_FAILED", p)}
  ELSE {StatusAt("GRPCTransport", "UNAVAILABLE", p),
        StatusAt("EndorserClient", "CONNECTION_FAILED", p),
        StatusAt("EndorserClient", "CHAINCODE_NAME_NOT_FOUND", p),
        StatusAt("Chaincode", "500", p)}

(***************************************************************************)
(* SendProposal sends to all targets at once, waits for all of them and    *)
(* returns the responses or, if some target failed, the errors.            *)
(***************************************************************************)
ProposalResponses(T) ==
  {R \in SUBSET UNION {Endorsements(p) : p \in T} :
     \A p \in T : Cardinality({r \in R : r.peer = p}) = 1}

ProposalErrors(T) ==
  {Multi(E) : E \in {E \in SUBSET UNION {EndorserErrors(p) : p \in T} :
     E # {} /\ \A p \in T : Cardinality({s \in E : s.url = p}) <= 1}}

\* checkEndorserServerError: private data that could not be distributed makes
\* one error of whatever else failed.
PvtDataErrors ==
  {One(Status("EndorserServer", "PRIVATE_DATA_DISSEMINATION_FAILED")) : x \in {expired} \cap {FALSE}}

(***************************************************************************)
(* What SendBroadcast of an orderer comes to: the error, whether the       *)
(* orderer took the envelope, and whether that is in doubt.  A stream that *)
(* ends with no answer at all counts as success (wrapStreamStatusRPC).     *)
(***************************************************************************)
Broadcast(e, taken, lost) == [err |-> e, taken |-> taken, lost |-> lost]

BroadcastResults ==
  IF expired THEN {Broadcast(One(Status("GRPCTransport", "DEADLINE_EXCEEDED")), FALSE, FALSE),
                   Broadcast(One(Status("OrdererClient", "CONNECTION_FAILED")), FALSE, FALSE)}
  ELSE {Broadcast(NoError, TRUE, FALSE), Broadcast(NoError, FALSE, FALSE),
        Broadcast(One(Status("OrdererClient", "CONNECTION_FAILED")), FALSE, FALSE),
        Broadcast(One(Status("OrdererServer", "SERVICE_UNAVAILABLE")), FALSE, FALSE),
        Broadcast(Multi({Status("OrdererServer", "SERVICE_UNAVAILABLE"),
                         Status("GRPCTransport", "UNAVAILABLE")}), FALSE, FALSE)}
       \cup UNION {{Broadcast(One(Status("GRPCTransport", c)), taken, TRUE) : taken \in BOOLEAN} :
                     c \in {"UNAVAILABLE", "DEADLINE_EXCEEDED"}}

-----------------------------------------------------------------------------
\* Query and Execute retry only if the caller asks for it; Submit of a gateway
\* transaction always does.
RetryOpts(k) == IF k = "submit" THEN {Attempts} ELSE {0, Attempts}

Init ==
  /\ kind \in {"query", "execute", "submit"}
  /\ given \in {{}} \cup {{p} : p \in Peers}
  /\ attempts \in RetryOpts(kind)
  /\ outcome = "pending"
  /\ expired = FALSE
  /\ pc = "select"
  /\ targets = given
  /\ chain = Given
  /\ responses = {}
  /\ err = NoError
  /\ tx = 0
  /\ retries = 0
  /\ greylist = {}
  /\ untried = {}
  /\ notifier = "none"
  /\ status = <<>>
  /\ eventch = <<>>
  /\ envelopes = <<>>
  /\ ordered = <<>>
  /\ ledger = <<>>
  /\ doubt = {}
  /\ short = {}

\* A handler sets requestContext.Error and returns; Invoke then looks at it.
Fail(e) ==
  /\ err' = e
  /\ pc' = "resolve"

(***************************************************************************)
(* getEndorsers: ask the selection service unless targets were given.      *)
(***************************************************************************)
GetEndorsers ==
  /\ pc = "select"
  /\ LET sel == Selections(NewInvocationChain(chain))
     IN  \/ /\ targets # {}
            /\ pc' = "endorse"
            /\ UNCHANGED <<targets, err>>
         \/ /\ targets = {}
            /\ \/ /\ targets' \in IF sel = {} THEN {{}} ELSE sel
                  /\ pc' = "endorse"
                  /\ UNCHANGED err
               \/ /\ Fail(One(Status("DiscoveryServer", "QUERY_ENDORSERS")))
                  /\ UNCHANGED targets
  /\ UNCHANGED <<callVars, outcome, expired, chain, responses, tx, retries,
                 greylist, sendVars, worldVars>>

\* A query selects in ProposalProcessorHandler, a transaction in
\* SelectAndEndorseHandler, which later looks for more endorsers.
ProposalProcessor == kind = "query" /\ GetEndorsers

SelectAndEndorse == kind # "query" /\ GetEndorsers

\* NewHeader: a nonce of its own makes the transaction ID a new one.
NewHeader == tx + 1

(***************************************************************************)
(* EndorsementHandler: a new header, hence a new transaction ID, and the   *)
(* proposal to all targets.                                                *)
(***************************************************************************)
Endorse ==
  /\ pc = "endorse"
  /\ \/ /\ targets = {}
        /\ Fail(One(Status("Client", "NO_PEERS_FOUND")))
        /\ UNCHANGED <<responses, tx>>
     \/ /\ targets # {}
        /\ tx' = NewHeader
        /\ \/ /\ ~expired
              /\ responses' \in ProposalResponses(targets)
              /\ pc' = IF kind # "query" /\ given = {} THEN "more" ELSE "validate"
              /\ UNCHANGED err
           \/ /\ \E e \in ProposalErrors(targets) \cup PvtDataErrors : Fail(e)
              /\ UNCHANGED responses
  /\ UNCHANGED <<callVars, outcome, expired, targets, chain, retries, greylist,
                 sendVars, worldVars>>

(***************************************************************************)
(* getAdditionalEndorsers: if the first response touches chaincodes or     *)
(* collections that were not known, select again and ask the peers of      *)
(* organisations that have not endorsed yet.  If the selection fails, the  *)
(* responses collected so far have to do.                                  *)
(***************************************************************************)
AdditionalEndorsers(sel) == {p \in sel : \A q \in targets : Org[p] # Org[q]}

More ==
  /\ pc = "more"
  /\ \E r \in responses :
       LET calls == NewInvocationChain(chain)
           found == InvocationChainOf(r)
           merged == MergeInvocationChains(calls, found)
           sel == Selections(NewInvocationChain(merged))
       IN  \/ /\ ~FoundAdditional(calls, found)
              /\ pc' = "validate"
              /\ UNCHANGED <<chain, targets, short>>
           \/ /\ FoundAdditional(calls, found)
              /\ chain' = merged
              /\ \/ /\ short' = short \cup {tx}
                    /\ pc' = "validate"
                    /\ UNCHANGED targets
                 \/ \E T \in sel :
                      /\ targets' = IF AdditionalEndorsers(T) = {} THEN targets
                                    ELSE AdditionalEndorsers(T)
                      /\ pc' = IF AdditionalEndorsers(T) = {} THEN "validate" ELSE "endorseMore"
                      /\ UNCHANGED short
  /\ UNCHANGED <<callVars, outcome, expired, responses, err, tx, retries, greylist,
                 sendVars, envelopes, ordered, ledger, doubt>>

EndorseMore ==
  /\ pc = "endorseMore"
  /\ \/ /\ ~expired
        /\ \E R \in ProposalResponses(targets) : responses' = responses \cup R
        /\ pc' = "validate"
        /\ UNCHANGED err
     \/ /\ \E e \in ProposalErrors(targets) : Fail(Wrap(e))
        /\ UNCHANGED responses
  /\ UNCHANGED <<callVars, outcome, expired, targets, chain, tx, retries, greylist,
                 sendVars, worldVars>>

\* validate of EndorsementValidationHandler.  A status outside 200..399 was
\* made an error by the peer already.
Agree(R) == \A r, s \in R : r.payload = s.payload

EndorsementValidation ==
  /\ pc = "validate"
  /\ \/ /\ ~Agree(responses)
        /\ Fail(One(Status("EndorserClient", "ENDORSEMENT_MISMATCH")))
     \/ /\ Agree(responses)
        /\ pc' = "verify"
        /\ UNCHANGED err
  /\ UNCHANGED <<callVars, outcome, expired, targets, chain, responses, tx, retries,
                 greylist, sendVars, worldVars>>

\* Verify of the signature verifier: endorsement, creator and signature.
Verified(r) == r.signed

SignatureValidation ==
  /\ pc = "verify"
  /\ \/ /\ \E r \in responses : ~Verified(r)
        /\ Fail(One(Status("EndorserClient", "SIGNATURE_VERIFICATION_FAILED")))
     \/ /\ \A r \in responses : Verified(r)
        /\ pc' = IF kind = "query" THEN "done" ELSE "register"
        /\ UNCHANGED err
  /\ UNCHANGED <<callVars, outcome, expired, targets, chain, responses, tx, retries,
                 greylist, sendVars, worldVars>>

\* txn.New: the endorsements of all responses over the one payload.
NewTransaction(R) == [tx |-> tx, endorsements |-> R]

(***************************************************************************)
(* CommitTxHandler: RegisterTxStatusEvent, which fails when the event      *)
(* service cannot be reached, or queues the registration and waits for the *)
(* dispatcher, without a timeout: one that stops with the registration in  *)
(* its queue never answers, and the goroutine is stranded.                 *)
(***************************************************************************)
Register ==
  /\ pc = "register"
  /\ \/ /\ Fail(One(Plain))
        /\ UNCHANGED <<untried, notifier, status, envelopes>>
     \/ /\ pc' = "stranded"
        /\ UNCHANGED <<err, untried, notifier, status, envelopes>>
     \/ /\ pc' = "broadcast"
        /\ notifier' = "open"
        /\ status' = <<>>
        /\ untried' = Orderers
        /\ envelopes' = Append(envelopes, NewTransaction(responses))
        /\ UNCHANGED err
  /\ UNCHANGED <<callVars, outcome, expired, targets, chain, responses, tx, retries,
                 greylist, eventch, ordered, ledger, doubt, short>>

\* The deferred Unregister of CommitTxHandler.
Unregister ==
  /\ notifier' = "none"
  /\ status' = <<>>

\* Slip: CommitTxHandler registers when the orderer has answered.
Answered_RegistersNow ==
  /\ notifier' = "open"
  /\ status' = <<>>

\* An orderer answered: the registration made before is waited on.
Answered == UNCHANGED <<notifier, status>>

(***************************************************************************)
(* broadcastEnvelope tries the orderers one by one, in a random order, and *)
(* returns the error of the last one.                                      *)
(***************************************************************************)
SendBroadcast(o) ==
  /\ pc = "broadcast"
  /\ o \in untried
  /\ untried' = untried \ {o}
  /\ \E b \in BroadcastResults :
       /\ ordered' = IF b.taken THEN Append(ordered, tx) ELSE ordered
       /\ doubt' = IF b.lost THEN doubt \cup {tx} ELSE doubt
       /\ \/ /\ b.err = NoError
             /\ pc' = "wait"
             /\ Answered
             /\ UNCHANGED err
          \/ /\ b.err # NoError
             /\ untried' # {}
             /\ UNCHANGED <<pc, err, notifier, status>>
          \/ /\ b.err # NoError
             /\ untried' = {}
             /\ Fail(Wrap(b.err))
             /\ Unregister
  /\ UNCHANGED <<callVars, outcome, expired, targets, chain, responses, tx, retries,
                 greylist, eventch, envelopes, ledger, short>>

\* Slip: the validation code is not looked at.
StatusError_Ignored(code) == NoError

\* Any validation code but VALID is an error of the event server.
StatusError(code) ==
  IF code = "VALID" THEN NoError ELSE One(Status("EventServer", code))

\* The gateway's commitTxHandler passes a valid status on to the channel of
\* RegisterCommitEvent.
PassOn(e, code) ==
  eventch' = IF e = NoError /\ kind = "submit" THEN Append(eventch, code) ELSE eventch

\* Slip: the handler does not look at the context of the request.
GivesUp_Never == FALSE

\* The context of the request is done.
GivesUp == expired

(***************************************************************************)
(* CommitTxHandler waits for the status or for the end of the request.  A  *)
(* channel the event service has closed yields a nil status, which the     *)
(* handler dereferences.                                                   *)
(***************************************************************************)
WaitForStatus ==
  /\ pc = "wait"
  /\ \/ /\ status # <<>>
        /\ err' = StatusError(Head(status))
        /\ pc' = IF err' = NoError THEN "done" ELSE "resolve"
        /\ PassOn(err', Head(status))
        /\ Unregister
     \/ /\ status = <<>>
        /\ notifier = "closed"
        /\ pc' = "panic"
        /\ UNCHANGED <<err, notifier, status, eventch>>
     \/ /\ GivesUp
        /\ Fail(One(Status("Client", "TIMEOUT")))
        /\ Unregister
        /\ UNCHANGED eventch
  /\ UNCHANGED <<callVars, outcome, expired, targets, chain, responses, tx, retries,
                 greylist, untried, worldVars>>

(***************************************************************************)
(* Invoke and resolveRetry: before a retry the greylist learns the error   *)
(* and the request is reset; the invocation chain that was found stays.    *)
(***************************************************************************)
Warranted == ResolveRetry(err, retries, attempts, ChannelClientRetryableCodes)

BeforeRetry ==
  /\ pc = "resolve"
  /\ Warranted
  /\ retries' = retries + 1
  /\ greylist' = greylist \cup Greylisted(err)
  /\ targets' = given
  /\ responses' = {}
  /\ err' = NoError
  /\ pc' = "select"
  /\ UNCHANGED <<callVars, outcome, expired, chain, tx, sendVars, worldVars>>

GiveUp ==
  /\ pc = "resolve"
  /\ ~Warranted
  /\ pc' = "done"
  /\ UNCHANGED <<callVars, outcome, expired, requestVars, retries, greylist,
                 sendVars, worldVars>>

Handler ==
  \/ ProposalProcessor \/ SelectAndEndorse \/ Endorse \/ More \/ EndorseMore
  \/ EndorsementValidation \/ SignatureValidation \/ Register
  \/ \E o \in Orderers : SendBroadcast(o)
  \/ WaitForStatus \/ BeforeRetry \/ GiveUp

-----------------------------------------------------------------------------
(***************************************************************************)
(* The caller, in the select of InvokeHandler.  Returning cancels reqCtx.  *)
(***************************************************************************)
ReturnComplete ==
  /\ outcome = "pending"
  /\ pc = "done"
  /\ outcome' = IF err = NoError THEN "success"
                ELSE IF FromError(err) = Status("Client", "TIMEOUT") THEN "timeout"
                ELSE "error"
  /\ expired' = TRUE
  /\ UNCHANGED <<callVars, pc, requestVars, retries, greylist, sendVars, worldVars>>

ReturnTimeout ==
  /\ outcome = "pending"
  /\ expired
  /\ outcome' = "timeout"
  /\ UNCHANGED <<callVars, expired, pc, requestVars, retries, greylist, sendVars,
                 worldVars>>

Deadline ==
  /\ ~expired
  /\ expired' = TRUE
  /\ UNCHANGED <<callVars, outcome, pc, requestVars, retries, greylist, sendVars,
                 worldVars>>

-----------------------------------------------------------------------------
(* The network (external): the committing peers and the event service.     *)

Envelope(t) == CHOOSE e \in {envelopes[i] : i \in DOMAIN envelopes} : e.tx = t

Satisfied(e) ==
  \A c \in (UNION {DOMAIN RWSet[r.payload] : r \in e.endorsements}) \ SystemCCs :
    Policy[c] \subseteq {Org[r.peer] : r \in e.endorsements}

Codes(t) ==
  IF \E i \in DOMAIN ledger : ledger[i][1] = t THEN {"DUPLICATE_TXID"}
  ELSE IF ~Satisfied(Envelope(t)) THEN {"ENDORSEMENT_POLICY_FAILURE"}
  ELSE {"VALID", "MVCC_READ_CONFLICT", "BAD_RWSET"}

CommitNext ==
  /\ ordered # <<>>
  /\ \E code \in Codes(Head(ordered)) :
       /\ ledger' = Append(ledger, <<Head(ordered), code>>)
       /\ status' = IF notifier = "open" /\ tx = Head(ordered) /\ status = <<>>
                    THEN <<code>> ELSE status
  /\ ordered' = Tail(ordered)
  /\ UNCHANGED <<callVars, outcome, expired, pc, requestVars, retries, greylist,
                 untried, notifier, eventch, envelopes, doubt, short>>

EventServiceStops ==
  /\ notifier = "open"
  /\ notifier' = "closed"
  /\ UNCHANGED <<callVars, outcome, expired, pc, requestVars, retries, greylist,
                 untried, status, eventch, worldVars>>

GreylistExpires ==
  /\ greylist # {}
  /\ \E p \in greylist : greylist' = greylist \ {p}
  /\ UNCHANGED <<callVars, outcome, expired, pc, requestVars, retries, sendVars,
                 worldVars>>

Network == CommitNext \/ EventServiceStops \/ GreylistExpires

Running == pc # "panic"

Next == Running /\ (Handler \/ ReturnComplete \/ ReturnTimeout \/ Deadline \/ Network)

Spec ==
  /\ Init
  /\ [][Next]_vars
  /\ WF_vars(Running /\ Handler)
  /\ WF_vars(Running /\ ReturnComplete)
  /\ WF_vars(Running /\ ReturnTimeout)
  /\ WF_vars(Running /\ Deadline)

-----------------------------------------------------------------------------
Contract == INSTANCE ExecuteContract WITH
  kind <- IF kind = "query" THEN "query" ELSE "execute",
  valid <- {e[1] : e \in {f \in {ledger[i] : i \in DOMAIN ledger} : f[2] = "VALID"}}

(***************************************************************************)
(* A call keeps its contract: it reports success only when a transaction   *)
(* of it is valid, an error only when none is, those aside whose orderer   *)
(* was lost before answering (SendBroadcast), and retries never make two   *)
(* other transactions valid (InvokeHandler, Invoke).                       *)
(***************************************************************************)
KeepsContract == Contract!Spec

(***************************************************************************)
(* Whatever reaches an orderer is endorsed alike by all endorsers, with    *)
(* good signatures, and by every organisation that the chaincodes found in *)
(* the endorsed payload need, unless the caller chose the targets or no    *)
(* further endorsers could be selected (SelectAndEndorseHandler).          *)
(***************************************************************************)
WellEndorsed ==
  \A i \in DOMAIN envelopes :
    LET e == envelopes[i]
    IN  /\ e.endorsements # {}
        /\ \A r, s \in e.endorsements : r.payload = s.payload /\ r.signed
        /\ given = {} /\ e.tx \notin short => Satisfied(e)

(***************************************************************************)
(* No commit goes unheard: while the handler waits for the status of its   *)
(* transaction and its registration is open, a transaction that is on the  *)
(* ledger has its status in the channel (CommitTxHandler registers before  *)
(* it sends), and a gateway transaction that succeeded has passed exactly  *)
(* one commit event on.                                                    *)
(***************************************************************************)
NoCommitMissed ==
  /\ pc = "wait" /\ notifier = "open" /\ (\E i \in DOMAIN ledger : ledger[i][1] = tx)
     => status # <<>>
  /\ kind = "submit" /\ outcome = "success" => eventch = <<"VALID">>
  /\ Len(eventch) <= 1

(***************************************************************************)
(* The call returns, by the deadline at the latest whatever its goroutine  *)
(* waits for (InvokeHandler), and the goroutine ends as well: it outlives  *)
(* the call only if it is stranded in a registration that the event        *)
(* service stopped on (RegisterTxStatusEvent).  The nil status of an event *)
(* service that stops later ends the program (CommitTxHandler).            *)
(***************************************************************************)
CallEnds == <>(pc = "panic" \/ (outcome # "pending" /\ pc \in {"done", "stranded"}))

=============================================================================
