------------------------- MODULE TransactionProofs -------------------------
(***************************************************************************)
(* A call of the channel client keeps its contract, sends only what is     *)
(* well endorsed and misses no commit: for any peers, orderers, policies,  *)
(* payloads and number of attempts.                                        *)
(***************************************************************************)
EXTENDS Transaction, FiniteSetTheorems, TLAPS

-----------------------------------------------------------------------------
(* The inductive invariant                                                 *)

Responses == [peer : Peers, payload : Payloads, signed : BOOLEAN]
Places == {"select", "endorse", "more", "endorseMore", "validate", "verify", "register",
           "broadcast", "wait", "resolve", "done", "panic", "stranded"}

ValidationCodes == {"VALID", "MVCC_READ_CONFLICT", "BAD_RWSET", "DUPLICATE_TXID",
                    "ENDORSEMENT_POLICY_FAILURE"}
Entries == Nat \X ValidationCodes

TypeOK ==
  /\ kind \in {"query", "execute", "submit"}
  /\ given \in SUBSET Peers
  /\ attempts \in 0..Attempts
  /\ outcome \in {"pending", "success", "error", "timeout"}
  /\ expired \in BOOLEAN
  /\ pc \in Places
  /\ targets \in SUBSET Peers
  /\ responses \in SUBSET Responses
  /\ tx \in Nat
  /\ retries \in Nat
  /\ notifier \in {"none", "open", "closed"}
  /\ status \in Seq(ValidationCodes)
  /\ eventch \in Seq(ValidationCodes)
  /\ envelopes \in Seq([tx : Nat, endorsements : SUBSET Responses])
  /\ ordered \in Seq(Nat)
  /\ ledger \in Seq(Entries)

\* The transactions that wait to be committed, that are on the ledger, and
\* that are valid on it.
Ordered == {ordered[i] : i \in DOMAIN ordered}
OnLedger == {ledger[i][1] : i \in DOMAIN ledger}
Valid == {e[1] : e \in {f \in {ledger[i] : i \in DOMAIN ledger} : f[2] = "VALID"}}

TimedOut == One(Status("Client", "TIMEOUT"))

\* Where the current transaction has endorsements, or is to get them, and was
\* not sent to an orderer.
Unsent == {"more", "endorseMore", "validate", "verify", "register"}

\* How far the call is, and what the caller was told.
Control ==
  /\ retries <= attempts
  /\ tx <= IF pc \in {"select", "endorse"} THEN retries ELSE retries + 1
  /\ pc \in Unsent \cup {"broadcast"} => tx > 0
  /\ pc = "select" => targets = given
  /\ pc = "resolve" => err # NoError
  /\ pc \in {"register", "broadcast", "wait"} => kind # "query"
  /\ outcome = "success" => pc = "done" /\ err = NoError
  /\ outcome = "error" => pc = "done" /\ err \notin {NoError, TimedOut}
  /\ eventch = IF kind = "submit" /\ pc = "done" /\ err = NoError THEN <<"VALID">> ELSE <<>>

\* The registration is open from before the broadcast until the handler ends,
\* and its channel holds the code that the transaction got first.
Notified ==
  /\ pc \in {"broadcast", "wait"} => notifier # "none"
  /\ notifier # "none" => pc \in {"broadcast", "wait", "panic"}
  /\ status # <<>> => notifier # "none" /\ tx \in OnLedger
  /\ notifier = "open" /\ tx \in OnLedger => status # <<>>
  /\ status # <<>> => (Head(status) = "VALID" <=> tx \in Valid)

\* Only transactions of this call that were sent are ordered or committed.
OwnOnly ==
  /\ Ordered \cup OnLedger \subseteq 1..tx
  /\ kind = "query" => Ordered \cup OnLedger = {}
  /\ pc \in Unsent => tx \notin Ordered \cup OnLedger

\* The call is waiting for its transaction, or gave up waiting for it.
Awaits == pc \in {"wait", "panic"} \/ (pc \in {"resolve", "done"} /\ err = TimedOut)

\* A transaction not in doubt that is ordered or valid is the last one of the
\* call, which no other follows.
NoneBehind ==
  /\ \A t \in Ordered \ doubt : t = tx /\ t \notin OnLedger /\ Awaits
  /\ pc = "broadcast" /\ tx \in Ordered \cup OnLedger => tx \in doubt
  /\ \A i, j \in DOMAIN ordered : ordered[i] = ordered[j] /\ ordered[i] \notin doubt => i = j
  /\ \A t \in Valid \ doubt : t = tx /\ (Awaits \/ (pc = "done" /\ err = NoError))
  /\ pc = "done" /\ err = NoError /\ kind # "query" => tx \in Valid

\* The organisations of peers, and those whose endorsement a payload needs.
Orgs(T) == {Org[p] : p \in T}
Endorsers(R) == {Org[r.peer] : r \in R}
Needs(r) == UNION {Policy[c] : c \in DOMAIN RWSet[r.payload] \ SystemCCs}

\* The endorsements collected so far, with those that were asked for, are of
\* every organisation that one payload among them needs.
Covered ==
  /\ pc \in Unsent => responses # {}
  /\ pc \in {"verify", "register"} => Agree(responses)
  /\ pc = "register" => \A r \in responses : r.signed
  /\ pc = "endorse" /\ given = {} /\ targets # {} => Orgs(targets) = NeededOrgs(NewInvocationChain(chain))
  /\ pc \in {"more", "endorseMore"} => given = {}
  /\ pc = "more" => Endorsers(responses) = Orgs(targets) /\ Orgs(targets) = NeededOrgs(NewInvocationChain(chain))
  /\ pc = "endorseMore" => \E r \in responses : Needs(r) \subseteq Endorsers(responses) \cup Orgs(targets)
  /\ pc \in {"validate", "verify", "register"} /\ kind # "query" /\ given = {} /\ tx \notin short =>
       \E r \in responses : Needs(r) \subseteq Endorsers(responses)

IInv == TypeOK /\ Control /\ Notified /\ OwnOnly /\ NoneBehind /\ Covered /\ WellEndorsed

-----------------------------------------------------------------------------
(* Answers, errors and codes                                               *)

\* All targets of a proposal are among the endorsers of its responses, and
\* nobody else is.
LEMMA ProposalResponsesOf ==
    ASSUME NEW T \in SUBSET Peers, NEW R \in ProposalResponses(T)
    PROVE  /\ R \in SUBSET Responses
           /\ Endorsers(R) = Orgs(T)
           /\ T # {} => R # {}
<1>1. \A r \in R : \E p \in T : r \in Endorsements(p)
  BY DEF ProposalResponses
<1>2. \A p \in T : \A r \in Endorsements(p) : r \in Responses /\ r.peer = p
  BY DEF Endorsements, Responses
<1>3. ASSUME NEW p \in T
      PROVE  \E r \in R : r.peer = p
  <2>1. Cardinality({r \in R : r.peer = p}) = 1
    BY DEF ProposalResponses
  <2>2. {r \in R : r.peer = p} # {}
    BY <2>1, FS_EmptySet
  <2> QED
    BY <2>2
<1> QED
  BY <1>1, <1>2, <1>3 DEF Endorsers, Orgs

\* Wrapping a message around an error keeps what it consists of.
LEMMA WrapKeeps ==
    ASSUME NEW S
    PROVE  Multi(S).errs = S /\ Wrap(Multi(S)).errs = S
  BY DEF Multi, Wrap

\* An error with a part is an error, wrapped or not.
LEMMA IsError ==
    ASSUME NEW S, S # {}
    PROVE  Multi(S) # NoError /\ Wrap(Multi(S)) # NoError
  BY WrapKeeps DEF NoError

\* A single error is an error.
LEMMA OneIsError ==
    ASSUME NEW s
    PROVE  One(s) # NoError /\ Wrap(One(s)) # NoError
<1>1. One(s) = Multi({s})
  BY DEF One, Multi
<1> QED
  BY <1>1, IsError

\* An error of a proposal is an error.
LEMMA ProposalErrorsAre ==
    ASSUME NEW T, NEW e \in ProposalErrors(T) \cup PvtDataErrors
    PROVE  e # NoError /\ Wrap(e) # NoError
<1>1. CASE e \in ProposalErrors(T)
  <2>1. PICK E : e = Multi(E) /\ E # {}
    BY <1>1 DEF ProposalErrors
  <2> QED
    BY <2>1, IsError
<1>2. CASE e \in PvtDataErrors
  BY <1>2, OneIsError DEF PvtDataErrors
<1> QED
  BY <1>1, <1>2

\* What a failed broadcast comes to.
LEMMA BroadcastFailed ==
    ASSUME NEW e, e # NoError, Wrap(e) # NoError, NEW taken \in BOOLEAN, NEW lost \in BOOLEAN,
           taken => lost, NEW b, b = Broadcast(e, taken, lost)
    PROVE  /\ b.taken \in BOOLEAN /\ b.lost \in BOOLEAN /\ (b.taken => b.lost)
           /\ b.err # NoError /\ Wrap(b.err) # NoError
<1>1. b.err = e /\ b.taken = taken /\ b.lost = lost
  BY DEF Broadcast
<1> QED
  BY <1>1

\* An orderer that failed without being lost did not take the envelope, and
\* what it reports is an error.
LEMMA BroadcastResultsAre ==
    ASSUME NEW b \in BroadcastResults
    PROVE  /\ b.taken \in BOOLEAN /\ b.lost \in BOOLEAN
           /\ b.taken => b.lost \/ b.err = NoError
           /\ b.err # NoError => Wrap(b.err) # NoError
<1>1. CASE b \in {Broadcast(NoError, TRUE, FALSE), Broadcast(NoError, FALSE, FALSE)}
  <2>1. PICK taken \in BOOLEAN : b = Broadcast(NoError, taken, FALSE)
    BY <1>1
  <2>2. b.err = NoError /\ b.taken = taken /\ b.lost = FALSE
    BY <2>1 DEF Broadcast
  <2> QED
    BY <2>2
<1>2. ASSUME NEW s, NEW taken \in BOOLEAN, NEW lost \in BOOLEAN, taken => lost,
             b = Broadcast(One(s), taken, lost)
      PROVE  /\ b.taken \in BOOLEAN /\ b.lost \in BOOLEAN /\ (b.taken => b.lost)
             /\ Wrap(b.err) # NoError
  BY <1>2, OneIsError, BroadcastFailed
<1>3. CASE b = Broadcast(Multi({Status("OrdererServer", "SERVICE_UNAVAILABLE"),
                                Status("GRPCTransport", "UNAVAILABLE")}), FALSE, FALSE)
  BY <1>3, IsError, BroadcastFailed
<1>4. CASE expired
  <2>1. \/ b = Broadcast(One(Status("GRPCTransport", "DEADLINE_EXCEEDED")), FALSE, FALSE)
        \/ b = Broadcast(One(Status("OrdererClient", "CONNECTION_FAILED")), FALSE, FALSE)
    BY <1>4, Zenon DEF BroadcastResults
  <2> QED
    BY <1>2, <2>1
<1>5. CASE ~expired
  <2>1. \/ b \in {Broadcast(NoError, TRUE, FALSE), Broadcast(NoError, FALSE, FALSE)}
        \/ b = Broadcast(One(Status("OrdererClient", "CONNECTION_FAILED")), FALSE, FALSE)
        \/ b = Broadcast(One(Status("OrdererServer", "SERVICE_UNAVAILABLE")), FALSE, FALSE)
        \/ b = Broadcast(Multi({Status("OrdererServer", "SERVICE_UNAVAILABLE"),
                                Status("GRPCTransport", "UNAVAILABLE")}), FALSE, FALSE)
        \/ \E c \in {"UNAVAILABLE", "DEADLINE_EXCEEDED"}, taken \in BOOLEAN :
             b = Broadcast(One(Status("GRPCTransport", c)), taken, TRUE)
    BY <1>5, Zenon DEF BroadcastResults
  <2>2. CASE b = Broadcast(One(Status("OrdererClient", "CONNECTION_FAILED")), FALSE, FALSE)
    BY <1>2, <2>2
  <2>3. CASE b = Broadcast(One(Status("OrdererServer", "SERVICE_UNAVAILABLE")), FALSE, FALSE)
    BY <1>2, <2>3
  <2>4. CASE \E c \in {"UNAVAILABLE", "DEADLINE_EXCEEDED"}, taken \in BOOLEAN :
               b = Broadcast(One(Status("GRPCTransport", c)), taken, TRUE)
    BY <1>2, <2>4
  <2> QED
    BY <1>1, <1>3, <2>1, <2>2, <2>3, <2>4
<1> QED
  BY <1>4, <1>5

\* The status of a single error is that error.
LEMMA FromOne ==
    ASSUME NEW s
    PROVE  FromError(One(s)) = s /\ ~IsMulti(One(s))
<1>1. Cardinality({s}) = 1
  BY FS_Singleton
<1> QED
  BY <1>1 DEF FromError, IsMulti, One

\* A request that is over is not tried again.
LEMMA TimeoutNotRetried == err = TimedOut => ~Warranted
<1> SUFFICES ASSUME err = TimedOut PROVE ~Warranted
  OBVIOUS
<1>1. FromError(err) = Status("Client", "TIMEOUT") /\ ~IsMulti(err)
  BY FromOne DEF TimedOut
<1>2. ~IsRetryable(Status("Client", "TIMEOUT"), ChannelClientRetryableCodes)
  BY DEF IsRetryable, Status, ChannelClientRetryableCodes, DefaultRetryableCodes,
         InvalidatedByState, Unavailable
<1> QED
  BY <1>1, <1>2 DEF Warranted, ResolveRetry, Required

\* The handler makes an error of every code but VALID.
LEMMA StatusErrorOf ==
    ASSUME NEW code
    PROVE  StatusError(code) = NoError <=> code = "VALID"
  BY OneIsError DEF StatusError

-----------------------------------------------------------------------------
(* The ordering service and the ledger                                     *)

\* What a sequence holds when something is appended to it.
LEMMA AppendOf ==
    ASSUME NEW S, NEW s \in Seq(S), NEW e \in S, NEW a, a = Append(s, e)
    PROVE  /\ a \in Seq(S)
           /\ Len(s) \in Nat /\ DOMAIN s = 1..Len(s)
           /\ DOMAIN a = DOMAIN s \cup {Len(s) + 1}
           /\ \A i \in DOMAIN s : a[i] = s[i]
           /\ a[Len(s) + 1] = e
           /\ {a[i] : i \in DOMAIN a} = {s[i] : i \in DOMAIN s} \cup {e}
<1>1. /\ Len(s) \in Nat /\ DOMAIN s = 1..Len(s)
      /\ DOMAIN a = 1..(Len(s) + 1)
      /\ a[Len(s) + 1] = e
      /\ a \in Seq(S)
      /\ \A i \in 1..Len(s) : a[i] = s[i]
  OBVIOUS
<1>2. DOMAIN a = DOMAIN s \cup {Len(s) + 1}
  BY <1>1
<1> QED
  BY <1>1, <1>2

\* An envelope that is taken is ordered after the others.
LEMMA AppendOrdered ==
    ASSUME ordered \in Seq(Nat), NEW t \in Nat, ordered' = Append(ordered, t)
    PROVE  Ordered' = Ordered \cup {t}
<1>1. Ordered' = {ordered'[i] : i \in DOMAIN ordered'}
  BY DEF Ordered
<1> QED
  BY <1>1, AppendOf DEF Ordered

\* A block takes the first envelope and leaves the others in order.
LEMMA TailOrdered ==
    ASSUME ordered \in Seq(Nat), ordered # <<>>, ordered' = Tail(ordered)
    PROVE  /\ Head(ordered) \in Ordered
           /\ Ordered' \subseteq Ordered
           /\ ordered' \in Seq(Nat)
           /\ \A i \in DOMAIN ordered' : i + 1 \in DOMAIN ordered /\ ordered'[i] = ordered[i + 1]
           /\ 1 \in DOMAIN ordered /\ ordered[1] = Head(ordered)
           /\ DOMAIN ordered \subseteq Nat /\ DOMAIN ordered' \subseteq Nat \ {0}
<1>1. /\ Len(ordered) \in Nat \ {0}
      /\ DOMAIN ordered = 1..Len(ordered)
      /\ DOMAIN ordered' = 1..(Len(ordered) - 1)
      /\ \A i \in 1..(Len(ordered) - 1) : ordered'[i] = ordered[i + 1]
      /\ Head(ordered) = ordered[1]
      /\ ordered' \in Seq(Nat)
  OBVIOUS
<1>2. \A i \in DOMAIN ordered' : i + 1 \in DOMAIN ordered /\ ordered'[i] = ordered[i + 1]
  BY <1>1
<1>3. Ordered' \subseteq Ordered
  BY <1>2 DEF Ordered
<1> QED
  BY <1>1, <1>2, <1>3 DEF Ordered

\* A commit puts one transaction on the ledger, a valid one if its code says so.
LEMMA AppendLedger ==
    ASSUME ledger \in Seq(Entries), NEW e \in Entries, ledger' = Append(ledger, e)
    PROVE  /\ OnLedger' = OnLedger \cup {e[1]}
           /\ Valid' = IF e[2] = "VALID" THEN Valid \cup {e[1]} ELSE Valid
<1>1. {ledger'[i] : i \in DOMAIN ledger'} = {ledger[i] : i \in DOMAIN ledger} \cup {e}
  BY AppendOf
<1>2. OnLedger' = {f[1] : f \in {ledger'[i] : i \in DOMAIN ledger'}}
  BY DEF OnLedger
<1>3. OnLedger = {f[1] : f \in {ledger[i] : i \in DOMAIN ledger}}
  BY DEF OnLedger
<1>4. OnLedger' = OnLedger \cup {e[1]}
  BY <1>1, <1>2, <1>3
<1>5. Valid' = {d[1] : d \in {f \in {ledger'[i] : i \in DOMAIN ledger'} : f[2] = "VALID"}}
  BY DEF Valid
<1>6. CASE e[2] = "VALID"
  <2>1. {f \in {ledger'[i] : i \in DOMAIN ledger'} : f[2] = "VALID"}
          = {f \in {ledger[i] : i \in DOMAIN ledger} : f[2] = "VALID"} \cup {e}
    BY <1>1, <1>6
  <2>2. Valid' = Valid \cup {e[1]}
    BY <1>5, <2>1 DEF Valid
  <2> QED
    BY <1>4, <1>6, <2>2
<1>7. CASE e[2] # "VALID"
  <2>1. {f \in {ledger'[i] : i \in DOMAIN ledger'} : f[2] = "VALID"}
          = {f \in {ledger[i] : i \in DOMAIN ledger} : f[2] = "VALID"}
    BY <1>1, <1>7
  <2>2. Valid' = Valid
    BY <1>5, <2>1 DEF Valid
  <2> QED
    BY <1>4, <1>7, <2>2
<1> QED
  BY <1>6, <1>7

\* Valid transactions are on the ledger.
LEMMA ValidOnLedger == Valid \subseteq OnLedger
  BY DEF Valid, OnLedger

-----------------------------------------------------------------------------
(* Types                                                                   *)

\* The peers that are selected are peers of the channel, one for every
\* organisation that is needed.
LEMMA SelectionsOf ==
    ASSUME NEW ch, NEW T \in Selections(ch)
    PROVE  T \in SUBSET Peers /\ Orgs(T) = NeededOrgs(ch)
  BY DEF Selections, Accepted, Orgs

\* The ledger has validation codes only.
LEMMA CodesType ==
    ASSUME NEW t, NEW code \in Codes(t)
    PROVE  code \in ValidationCodes
  BY DEF Codes, ValidationCodes

\* A channel that holds nothing, or one code.
LEMMA ShortSeq ==
    ASSUME NEW S
    PROVE  <<>> \in Seq(S) /\ \A x \in S : <<x>> \in Seq(S)
  OBVIOUS

\* The initial state has the types.
LEMMA InitType == Init => TypeOK
<1> SUFFICES ASSUME Init PROVE TypeOK
  OBVIOUS
<1>1. attempts \in 0..Attempts
  BY TransactionAssumption DEF Init, RetryOpts, TransactionAssumption
<1>2. given \in SUBSET Peers
  BY DEF Init
<1> QED
  BY <1>1, <1>2, ShortSeq DEF Init, TypeOK, Places

\* Every step keeps the types.
LEMMA TypeStep ==
    ASSUME TypeOK, [Next]_vars
    PROVE  TypeOK'
<1> USE DEF TypeOK, callVars, requestVars, sendVars, worldVars, Fail
<1>1. ASSUME GetEndorsers PROVE TypeOK'
  <2>1. targets' \in SUBSET Peers
    BY <1>1, SelectionsOf DEF GetEndorsers
  <2> QED
    BY <1>1, <2>1 DEF GetEndorsers, Places
<1>2. ASSUME Endorse PROVE TypeOK'
  <2>1. responses' \in SUBSET Responses
    BY <1>2, ProposalResponsesOf DEF Endorse
  <2>2. tx' \in Nat
    BY <1>2 DEF Endorse, NewHeader
  <2> QED
    BY <1>2, <2>1, <2>2 DEF Endorse, Places
<1>3. ASSUME More PROVE TypeOK'
  <2>1. targets' \in SUBSET Peers
    BY <1>3, SelectionsOf DEF More, AdditionalEndorsers
  <2>2. pc' \in Places
    BY <1>3 DEF More, Places
  <2> QED
    BY <1>3, <2>1, <2>2 DEF More
<1>4. ASSUME EndorseMore PROVE TypeOK'
  <2>1. responses' \in SUBSET Responses
    BY <1>4, ProposalResponsesOf DEF EndorseMore
  <2> QED
    BY <1>4, <2>1 DEF EndorseMore, Places
<1>5. ASSUME EndorsementValidation PROVE TypeOK'
  BY <1>5 DEF EndorsementValidation, Places
<1>6. ASSUME SignatureValidation PROVE TypeOK'
  BY <1>6 DEF SignatureValidation, Places
<1>7. ASSUME Register PROVE TypeOK'
  <2> DEFINE Transactions == [tx : Nat, endorsements : SUBSET Responses]
  <2>1. NewTransaction(responses) \in Transactions
    BY DEF NewTransaction
  <2>2. envelopes \in Seq(Transactions)
    OBVIOUS
  <2>3. envelopes' = envelopes \/ envelopes' = Append(envelopes, NewTransaction(responses))
    BY <1>7 DEF Register
  <2>4. envelopes' \in Seq(Transactions)
    <3> HIDE DEF Transactions
    <3> QED
      BY <2>1, <2>2, <2>3, AppendOf
  <2>5. status' \in Seq(ValidationCodes) /\ pc' \in Places /\ notifier' \in {"none", "open", "closed"}
    BY <1>7, ShortSeq DEF Register, Places
  <2> QED
    BY <1>7, <2>4, <2>5 DEF Register
<1>8. ASSUME NEW o \in Orderers, SendBroadcast(o) PROVE TypeOK'
  <2>1. ordered' \in Seq(Nat)
    BY <1>8, AppendOf DEF SendBroadcast
  <2>2. status' \in Seq(ValidationCodes) /\ pc' \in Places /\ notifier' \in {"none", "open", "closed"}
    BY <1>8, ShortSeq DEF SendBroadcast, Answered, Unregister, Places
  <2> QED
    BY <1>8, <2>1, <2>2 DEF SendBroadcast
<1>9. ASSUME WaitForStatus PROVE TypeOK'
  <2>1. status # <<>> => Head(status) \in ValidationCodes
    OBVIOUS
  <2>2. \/ eventch' = eventch
        \/ status # <<>> /\ eventch' = Append(eventch, Head(status))
    BY <1>9 DEF WaitForStatus, PassOn
  <2>3. eventch' \in Seq(ValidationCodes)
    BY <2>1, <2>2, AppendOf
  <2>4. status' \in Seq(ValidationCodes) /\ pc' \in Places /\ notifier' \in {"none", "open", "closed"}
    BY <1>9, ShortSeq DEF WaitForStatus, Unregister, Places
  <2> QED
    BY <1>9, <2>3, <2>4 DEF WaitForStatus
<1>10. ASSUME BeforeRetry PROVE TypeOK'
  BY <1>10 DEF BeforeRetry, Places
<1>11. ASSUME GiveUp PROVE TypeOK'
  BY <1>11 DEF GiveUp, Places
<1>12. ASSUME ReturnComplete PROVE TypeOK'
  BY <1>12 DEF ReturnComplete
<1>13. ASSUME ReturnTimeout PROVE TypeOK'
  BY <1>13 DEF ReturnTimeout
<1>14. ASSUME Deadline PROVE TypeOK'
  BY <1>14 DEF Deadline
<1>15. ASSUME CommitNext PROVE TypeOK'
  <2>1. PICK code \in Codes(Head(ordered)) :
          /\ ledger' = Append(ledger, <<Head(ordered), code>>)
          /\ status' = status \/ status' = <<code>>
    BY <1>15 DEF CommitNext
  <2>2. code \in ValidationCodes /\ Head(ordered) \in Nat
    BY <1>15, CodesType DEF CommitNext
  <2>3. ordered' \in Seq(Nat)
    BY <1>15, TailOrdered DEF CommitNext
  <2>4. <<Head(ordered), code>> \in Entries
    BY <2>2 DEF Entries
  <2>5. ledger' \in Seq(Entries)
    BY <2>1, <2>4, AppendOf
  <2>6. status' \in Seq(ValidationCodes)
    BY <2>1, <2>2, ShortSeq
  <2> QED
    BY <1>15, <2>3, <2>5, <2>6 DEF CommitNext
<1>16. ASSUME EventServiceStops PROVE TypeOK'
  BY <1>16 DEF EventServiceStops
<1>17. ASSUME GreylistExpires PROVE TypeOK'
  BY <1>17 DEF GreylistExpires
<1>18. ASSUME UNCHANGED vars PROVE TypeOK'
  BY <1>18 DEF vars
<1> QED
  BY <1>1, <1>2, <1>3, <1>4, <1>5, <1>6, <1>7, <1>8, <1>9, <1>10, <1>11, <1>12,
     <1>13, <1>14, <1>15, <1>16, <1>17, <1>18
     DEF Next, Handler, Network, ProposalProcessor, SelectAndEndorse

-----------------------------------------------------------------------------
(* Control                                                                 *)

\* Every step keeps the control state in order.
LEMMA ControlStep ==
    ASSUME TypeOK, Control, [Next]_vars
    PROVE  Control'
<1> USE DEF TypeOK, Control, callVars, requestVars, sendVars, worldVars, Fail, Unsent
<1>1. ASSUME GetEndorsers PROVE Control'
  BY <1>1, OneIsError DEF GetEndorsers
<1>2. ASSUME Endorse PROVE Control'
  <2>1. pc' = "resolve" => err' # NoError
    BY <1>2, OneIsError, ProposalErrorsAre DEF Endorse
  <2>2. tx' <= retries' + 1 /\ (pc' # "resolve" => tx' > 0) /\ pc' \in {"more", "validate", "resolve"}
    BY <1>2 DEF Endorse, NewHeader
  <2> QED
    BY <1>2, <2>1, <2>2 DEF Endorse
<1>3. ASSUME More PROVE Control'
  <2>1. pc' \in {"validate", "endorseMore"}
    BY <1>3 DEF More
  <2> QED
    BY <1>3, <2>1 DEF More
<1>4. ASSUME EndorseMore PROVE Control'
  <2>1. pc' = "resolve" => err' # NoError
    BY <1>4, ProposalErrorsAre DEF EndorseMore
  <2> QED
    BY <1>4, <2>1 DEF EndorseMore
<1>5. ASSUME EndorsementValidation PROVE Control'
  BY <1>5, OneIsError DEF EndorsementValidation
<1>6. ASSUME SignatureValidation PROVE Control'
  BY <1>6, OneIsError DEF SignatureValidation
<1>7. ASSUME Register PROVE Control'
  BY <1>7, OneIsError DEF Register
<1>8. ASSUME NEW o \in Orderers, SendBroadcast(o) PROVE Control'
  <2>1. pc' = "resolve" => err' # NoError
    BY <1>8, BroadcastResultsAre DEF SendBroadcast
  <2>2. pc' \in {"broadcast", "wait", "resolve"}
    BY <1>8 DEF SendBroadcast
  <2> QED
    BY <1>8, <2>1, <2>2 DEF SendBroadcast
<1>9. ASSUME WaitForStatus PROVE Control'
  <2>1. pc' \in {"done", "resolve", "panic"} /\ (pc' = "resolve" => err' # NoError)
    BY <1>9, OneIsError DEF WaitForStatus
  <2>2. eventch = <<>>
    BY <1>9 DEF WaitForStatus
  <2>3. eventch' = IF kind = "submit" /\ pc' = "done" /\ err' = NoError THEN <<"VALID">> ELSE <<>>
    <3>1. CASE status # <<>> /\ err' = StatusError(Head(status)) /\ PassOn(err', Head(status))
               /\ pc' = IF err' = NoError THEN "done" ELSE "resolve"
      BY <2>2, <3>1, StatusErrorOf DEF PassOn
    <3>2. CASE eventch' = eventch /\ pc' # "done"
      BY <2>2, <3>2
    <3> QED
      BY <1>9, <3>1, <3>2 DEF WaitForStatus
  <2> QED
    BY <1>9, <2>1, <2>3 DEF WaitForStatus
<1>10. ASSUME BeforeRetry PROVE Control'
  <2>1. retries # attempts
    BY <1>10 DEF BeforeRetry, Warranted, ResolveRetry, Required
  <2> QED
    BY <1>10, <2>1 DEF BeforeRetry
<1>11. ASSUME GiveUp PROVE Control'
  BY <1>11 DEF GiveUp
<1>12. ASSUME ReturnComplete PROVE Control'
  <2>1. outcome' = "error" => err # TimedOut
    BY <1>12, FromOne DEF ReturnComplete, TimedOut
  <2> QED
    BY <1>12, <2>1 DEF ReturnComplete
<1>13. ASSUME ReturnTimeout PROVE Control'
  BY <1>13 DEF ReturnTimeout
<1>14. ASSUME Deadline PROVE Control'
  BY <1>14 DEF Deadline
<1>15. ASSUME CommitNext PROVE Control'
  BY <1>15 DEF CommitNext
<1>16. ASSUME EventServiceStops PROVE Control'
  BY <1>16 DEF EventServiceStops
<1>17. ASSUME GreylistExpires PROVE Control'
  BY <1>17 DEF GreylistExpires
<1>18. ASSUME UNCHANGED vars PROVE Control'
  BY <1>18 DEF vars
<1> QED
  BY <1>1, <1>2, <1>3, <1>4, <1>5, <1>6, <1>7, <1>8, <1>9, <1>10, <1>11, <1>12,
     <1>13, <1>14, <1>15, <1>16, <1>17, <1>18
     DEF Next, Handler, Network, ProposalProcessor, SelectAndEndorse

-----------------------------------------------------------------------------
(* What is ordered, committed and reported                                 *)

\* A transaction that is on the ledger is not committed as valid again.
LEMMA Duplicate ==
    ASSUME NEW t \in OnLedger, NEW code \in Codes(t)
    PROVE  code # "VALID"
  BY DEF OnLedger, Codes

\* What a commit does to the sets of transactions.
LEMMA CommitNextOf ==
    ASSUME TypeOK, CommitNext
    PROVE  \E t \in Ordered, code \in ValidationCodes :
             /\ t = Head(ordered)
             /\ t \in OnLedger => code # "VALID"
             /\ OnLedger' = OnLedger \cup {t}
             /\ Valid' = IF code = "VALID" THEN Valid \cup {t} ELSE Valid
             /\ status' = IF notifier = "open" /\ tx = t /\ status = <<>> THEN <<code>> ELSE status
<1>1. PICK code \in Codes(Head(ordered)) :
        /\ ledger' = Append(ledger, <<Head(ordered), code>>)
        /\ status' = IF notifier = "open" /\ tx = Head(ordered) /\ status = <<>>
                     THEN <<code>> ELSE status
  BY DEF CommitNext
<1>2. Head(ordered) \in Ordered /\ Head(ordered) \in Nat
  <2>1. ordered \in Seq(Nat) /\ ordered # <<>> /\ ordered' = Tail(ordered)
    BY DEF CommitNext, TypeOK
  <2> QED
    BY <2>1, TailOrdered
<1>3. code \in ValidationCodes
  BY CodesType
<1> DEFINE e == <<Head(ordered), code>>
<1>4. e \in Entries /\ e[1] = Head(ordered) /\ e[2] = code
  BY <1>2, <1>3 DEF Entries
<1>5. /\ OnLedger' = OnLedger \cup {e[1]}
      /\ Valid' = IF e[2] = "VALID" THEN Valid \cup {e[1]} ELSE Valid
  <2>1. ledger' = Append(ledger, e)
    BY <1>1
  <2> HIDE DEF e
  <2> QED
    BY <1>4, <2>1, AppendLedger DEF TypeOK
<1>6. Head(ordered) \in OnLedger => code # "VALID"
  BY Duplicate
<1> HIDE DEF e
<1>7. /\ OnLedger' = OnLedger \cup {Head(ordered)}
      /\ Valid' = IF code = "VALID" THEN Valid \cup {Head(ordered)} ELSE Valid
  BY <1>4, <1>5
<1> QED
  BY <1>1, <1>2, <1>3, <1>6, <1>7, Zenon

\* Every step keeps the registration in step with the ledger.
LEMMA NotifiedStep ==
    ASSUME TypeOK, Notified, OwnOnly, [Next]_vars
    PROVE  Notified'
<1> USE DEF Notified, callVars, requestVars, sendVars, worldVars, Fail, Places
<1>1. ASSUME pc \notin {"broadcast", "wait", "panic"}, pc' \notin {"broadcast", "wait", "panic"},
             UNCHANGED <<notifier, status>>
      PROVE  Notified'
  BY <1>1
<1>2. ASSUME UNCHANGED <<pc, tx, notifier, status, ledger>>
      PROVE  Notified'
  <2>1. OnLedger' = OnLedger /\ Valid' = Valid
    BY <1>2 DEF OnLedger, Valid
  <2> QED
    BY <1>2, <2>1
<1>3. ASSUME GetEndorsers PROVE Notified'
  BY <1>1, <1>3 DEF GetEndorsers
<1>4. ASSUME Endorse PROVE Notified'
  BY <1>1, <1>4 DEF Endorse
<1>5. ASSUME More PROVE Notified'
  <2>1. pc' \in {"validate", "endorseMore"}
    BY <1>5 DEF More
  <2> QED
    BY <1>1, <1>5, <2>1 DEF More
<1>6. ASSUME EndorseMore PROVE Notified'
  BY <1>1, <1>6 DEF EndorseMore
<1>7. ASSUME EndorsementValidation PROVE Notified'
  BY <1>1, <1>7 DEF EndorsementValidation
<1>8. ASSUME SignatureValidation PROVE Notified'
  BY <1>1, <1>8 DEF SignatureValidation
<1>9. ASSUME Register PROVE Notified'
  <2>1. OnLedger' = OnLedger /\ tx \notin OnLedger
    BY <1>9 DEF Register, OnLedger, OwnOnly, Unsent
  <2> QED
    BY <1>1, <1>9, <2>1 DEF Register
<1>10. ASSUME NEW o \in Orderers, SendBroadcast(o) PROVE Notified'
  <2>1. OnLedger' = OnLedger /\ Valid' = Valid
    BY <1>10 DEF SendBroadcast, OnLedger, Valid
  <2> QED
    BY <1>10, <2>1 DEF SendBroadcast, Answered, Unregister
<1>11. ASSUME WaitForStatus PROVE Notified'
  <2>1. OnLedger' = OnLedger /\ Valid' = Valid
    BY <1>11 DEF WaitForStatus, OnLedger, Valid
  <2> QED
    BY <1>11, <2>1 DEF WaitForStatus, Unregister
<1>12. ASSUME BeforeRetry PROVE Notified'
  BY <1>1, <1>12 DEF BeforeRetry
<1>13. ASSUME GiveUp PROVE Notified'
  BY <1>1, <1>13 DEF GiveUp
<1>14. ASSUME CommitNext PROVE Notified'
  <2>1. PICK t \in Ordered, code \in ValidationCodes :
             /\ t \in OnLedger => code # "VALID"
             /\ OnLedger' = OnLedger \cup {t}
             /\ Valid' = IF code = "VALID" THEN Valid \cup {t} ELSE Valid
             /\ status' = IF notifier = "open" /\ tx = t /\ status = <<>> THEN <<code>> ELSE status
    BY <1>14, CommitNextOf
  <2>2. UNCHANGED <<pc, tx, notifier>>
    BY <1>14 DEF CommitNext
  <2>3. CASE notifier = "open" /\ tx = t /\ status = <<>>
    <3>1. tx \notin Valid
      BY <2>3, ValidOnLedger
    <3>2. status' # <<>> /\ Head(status') = code
      BY <2>1, <2>3
    <3> QED
      BY <2>1, <2>2, <2>3, <3>1, <3>2
  <2>4. CASE ~(notifier = "open" /\ tx = t /\ status = <<>>)
    BY <2>1, <2>2, <2>4
  <2> QED
    BY <2>3, <2>4
<1>15. ASSUME EventServiceStops PROVE Notified'
  <2>1. OnLedger' = OnLedger /\ Valid' = Valid
    BY <1>15 DEF EventServiceStops, OnLedger, Valid
  <2> QED
    BY <1>15, <2>1 DEF EventServiceStops
<1>16. ASSUME ReturnComplete \/ ReturnTimeout \/ Deadline \/ GreylistExpires \/ UNCHANGED vars
       PROVE  Notified'
  BY <1>2, <1>16 DEF ReturnComplete, ReturnTimeout, Deadline, GreylistExpires, vars
<1> QED
  BY <1>3, <1>4, <1>5, <1>6, <1>7, <1>8, <1>9, <1>10, <1>11, <1>12, <1>13, <1>14, <1>15, <1>16
     DEF Next, Handler, Network, ProposalProcessor, SelectAndEndorse

\* Where nothing that is not in doubt can be ordered or valid.
Before == {"select", "endorse", "broadcast"} \cup Unsent

\* Every step orders and commits transactions of this call only.
LEMMA OwnOnlyStep ==
    ASSUME TypeOK, Control, OwnOnly, [Next]_vars
    PROVE  OwnOnly'
<1> USE DEF OwnOnly, TypeOK, callVars, requestVars, sendVars, worldVars, Fail, Unsent
<1>1. ASSUME UNCHANGED <<kind, tx, ordered, ledger>>, pc' \in Unsent => pc \in Unsent
      PROVE  OwnOnly'
  <2>1. Ordered' = Ordered /\ OnLedger' = OnLedger
    BY <1>1 DEF Ordered, OnLedger
  <2> QED
    BY <1>1, <2>1
<1>2. ASSUME GetEndorsers PROVE OwnOnly'
  BY <1>1, <1>2 DEF GetEndorsers
<1>3. ASSUME Endorse PROVE OwnOnly'
  <2>1. Ordered' = Ordered /\ OnLedger' = OnLedger
    BY <1>3 DEF Endorse, Ordered, OnLedger
  <2>2. CASE tx' = tx + 1 /\ kind' = kind
    BY <2>1, <2>2
  <2> QED
    BY <1>1, <1>3, <2>2 DEF Endorse, NewHeader
<1>4. ASSUME More PROVE OwnOnly'
  BY <1>1, <1>4 DEF More
<1>5. ASSUME EndorseMore PROVE OwnOnly'
  BY <1>1, <1>5 DEF EndorseMore
<1>6. ASSUME EndorsementValidation PROVE OwnOnly'
  BY <1>1, <1>6 DEF EndorsementValidation
<1>7. ASSUME SignatureValidation PROVE OwnOnly'
  BY <1>1, <1>7 DEF SignatureValidation
<1>8. ASSUME Register PROVE OwnOnly'
  BY <1>1, <1>8 DEF Register
<1>9. ASSUME NEW o \in Orderers, SendBroadcast(o) PROVE OwnOnly'
  <2>1. OnLedger' = OnLedger /\ (Ordered' = Ordered \/ Ordered' = Ordered \cup {tx})
    <3>1. ordered' = ordered \/ ordered' = Append(ordered, tx)
      BY <1>9 DEF SendBroadcast
    <3>2. ordered' = ordered => Ordered' = Ordered
      BY DEF Ordered
    <3>3. OnLedger' = OnLedger
      BY <1>9 DEF SendBroadcast, OnLedger
    <3> QED
      BY <3>1, <3>2, <3>3, AppendOrdered
  <2>2. tx \in 1..tx /\ kind # "query" /\ pc' \notin Unsent
    BY <1>9 DEF SendBroadcast, Control
  <2> QED
    BY <1>9, <2>1, <2>2 DEF SendBroadcast
<1>10. ASSUME WaitForStatus PROVE OwnOnly'
  BY <1>1, <1>10 DEF WaitForStatus
<1>11. ASSUME BeforeRetry \/ GiveUp PROVE OwnOnly'
  BY <1>1, <1>11 DEF BeforeRetry, GiveUp
<1>12. ASSUME CommitNext PROVE OwnOnly'
  <2>1. Ordered' \cup OnLedger' \subseteq Ordered \cup OnLedger
    BY <1>12, CommitNextOf, TailOrdered DEF CommitNext
  <2> QED
    BY <1>12, <2>1 DEF CommitNext
<1>13. ASSUME \/ ReturnComplete \/ ReturnTimeout \/ Deadline \/ EventServiceStops
              \/ GreylistExpires \/ UNCHANGED vars
       PROVE  OwnOnly'
  BY <1>1, <1>13 DEF ReturnComplete, ReturnTimeout, Deadline, EventServiceStops,
                     GreylistExpires, vars
<1> QED
  BY <1>2, <1>3, <1>4, <1>5, <1>6, <1>7, <1>8, <1>9, <1>10, <1>11, <1>12, <1>13
     DEF Next, Handler, Network, ProposalProcessor, SelectAndEndorse

\* Every step leaves no transaction behind that is not in doubt.
LEMMA NoneBehindStep ==
    ASSUME TypeOK, Control, Notified, OwnOnly, NoneBehind, [Next]_vars
    PROVE  NoneBehind'
<1> USE DEF NoneBehind, Awaits, Before, callVars, requestVars, sendVars, worldVars, Fail, Unsent
<1>1. ASSUME UNCHANGED <<kind, pc, err, tx, ordered, ledger, doubt>>
      PROVE  NoneBehind'
  <2>1. Ordered' = Ordered /\ OnLedger' = OnLedger /\ Valid' = Valid
    BY <1>1 DEF Ordered, OnLedger, Valid
  <2> QED
    BY <1>1, <2>1
<1>2. pc \in Before => Ordered \subseteq doubt /\ Valid \subseteq doubt
  OBVIOUS
<1>3. ASSUME Ordered \subseteq doubt, Valid \subseteq doubt, UNCHANGED <<ordered, ledger, doubt>>,
             pc' = "broadcast" => tx' \notin Ordered \cup OnLedger,
             pc' = "done" /\ err' = NoError => kind' = "query"
      PROVE  NoneBehind'
  <2>1. Ordered' = Ordered /\ OnLedger' = OnLedger /\ Valid' = Valid
    BY <1>3 DEF Ordered, OnLedger, Valid
  <2>2. \A i \in DOMAIN ordered : ordered[i] \in doubt
    BY <1>3 DEF Ordered
  <2> QED
    BY <1>3, <2>1, <2>2
<1>4. ASSUME GetEndorsers PROVE NoneBehind'
  BY <1>2, <1>3, <1>4 DEF GetEndorsers
<1>5. ASSUME Endorse PROVE NoneBehind'
  BY <1>2, <1>3, <1>5 DEF Endorse
<1>6. ASSUME More PROVE NoneBehind'
  <2>1. pc' \in {"validate", "endorseMore"}
    BY <1>6 DEF More
  <2> QED
    BY <1>2, <1>3, <1>6, <2>1 DEF More
<1>7. ASSUME EndorseMore PROVE NoneBehind'
  BY <1>2, <1>3, <1>7 DEF EndorseMore
<1>8. ASSUME EndorsementValidation PROVE NoneBehind'
  BY <1>2, <1>3, <1>8 DEF EndorsementValidation
<1>9. ASSUME SignatureValidation PROVE NoneBehind'
  BY <1>2, <1>3, <1>9 DEF SignatureValidation
<1>10. ASSUME Register PROVE NoneBehind'
  <2>1. tx \notin Ordered \cup OnLedger
    BY <1>10 DEF Register, OwnOnly
  <2> QED
    BY <1>2, <1>3, <1>10, <2>1 DEF Register
<1>11. ASSUME NEW o \in Orderers, SendBroadcast(o) PROVE NoneBehind'
  <2>1. pc = "broadcast" /\ Ordered \subseteq doubt /\ Valid \subseteq doubt
    BY <1>2, <1>11 DEF SendBroadcast
  <2>2. OnLedger' = OnLedger /\ Valid' = Valid /\ tx' = tx /\ kind' = kind
    BY <1>11 DEF SendBroadcast, OnLedger, Valid
  <2>3. PICK b \in BroadcastResults :
          /\ ordered' = IF b.taken THEN Append(ordered, tx) ELSE ordered
          /\ doubt' = IF b.lost THEN doubt \cup {tx} ELSE doubt
          /\ b.err = NoError => pc' = "wait"
          /\ b.err # NoError => pc' \in {"broadcast", "resolve"}
    BY <1>11 DEF SendBroadcast
  <2>4. pc' # "done" /\ (b.taken => b.lost \/ b.err = NoError)
    BY <2>3, BroadcastResultsAre
  <2>5. \A i \in DOMAIN ordered : ordered[i] \in doubt
    BY <2>1 DEF Ordered
  <2>6. CASE ~b.taken
    <3>1. ordered' = ordered /\ Ordered' = Ordered /\ doubt \subseteq doubt'
      BY <2>3, <2>6 DEF Ordered
    <3> QED
      BY <2>1, <2>2, <2>4, <2>5, <3>1
  <2>7. CASE b.taken
    <3>1. ordered' = Append(ordered, tx) /\ Ordered' = Ordered \cup {tx}
      BY <2>3, <2>7, AppendOrdered DEF TypeOK
    <3>2. /\ DOMAIN ordered' = DOMAIN ordered \cup {Len(ordered) + 1}
          /\ \A i \in DOMAIN ordered : ordered'[i] = ordered[i]
      BY <3>1, AppendOf DEF TypeOK
    <3>3. CASE b.lost
      <4>1. doubt' = doubt \cup {tx} /\ Ordered' \subseteq doubt' /\ Valid' \subseteq doubt'
        BY <2>1, <2>2, <2>3, <3>1, <3>3
      <4>2. \A i \in DOMAIN ordered' : ordered'[i] \in doubt'
        BY <4>1 DEF Ordered
      <4> QED
        BY <2>2, <2>4, <4>1, <4>2
    <3>4. CASE ~b.lost
      <4>1. doubt' = doubt /\ pc' = "wait"
        BY <2>3, <2>4, <2>7, <3>4
      <4>2. \A i \in DOMAIN ordered' : ordered'[i] \notin doubt' => i = Len(ordered) + 1
        BY <2>5, <3>2, <4>1
      <4>3. tx \in OnLedger => tx \in doubt
        BY <2>1
      <4> QED
        BY <2>1, <2>2, <3>1, <4>1, <4>2, <4>3
    <3> QED
      BY <3>3, <3>4
  <2> QED
    BY <2>6, <2>7
<1>12. ASSUME WaitForStatus PROVE NoneBehind'
  <2>1. /\ Ordered' = Ordered /\ OnLedger' = OnLedger /\ Valid' = Valid
        /\ UNCHANGED <<kind, tx, ordered, doubt>>
    BY <1>12 DEF WaitForStatus, Ordered, OnLedger, Valid
  <2>2. CASE /\ status # <<>> /\ err' = StatusError(Head(status))
             /\ pc' = IF err' = NoError THEN "done" ELSE "resolve"
    <3>1. tx \in OnLedger /\ Ordered \subseteq doubt
      BY <2>2 DEF Notified
    <3>2. err' = NoError <=> tx \in Valid
      BY <2>2, StatusErrorOf DEF Notified
    <3>3. \A i \in DOMAIN ordered : ordered[i] \in doubt
      BY <3>1 DEF Ordered
    <3> QED
      BY <2>1, <2>2, <3>1, <3>2, <3>3
  <2>3. CASE pc' = "panic" \/ (pc' = "resolve" /\ err' = TimedOut)
    BY <1>12, <2>1, <2>3 DEF WaitForStatus
  <2> QED
    BY <1>12, <2>2, <2>3 DEF WaitForStatus, TimedOut
<1>13. ASSUME BeforeRetry PROVE NoneBehind'
  <2>1. err # TimedOut /\ err # NoError
    BY <1>13, TimeoutNotRetried DEF BeforeRetry, Control
  <2> QED
    BY <1>3, <1>13, <2>1 DEF BeforeRetry
<1>14. ASSUME GiveUp PROVE NoneBehind'
  <2>1. /\ Ordered' = Ordered /\ OnLedger' = OnLedger /\ Valid' = Valid
        /\ UNCHANGED <<kind, err, tx, ordered, doubt>> /\ pc = "resolve" /\ pc' = "done"
    BY <1>14 DEF GiveUp, Ordered, OnLedger, Valid
  <2>2. err # NoError
    BY <2>1 DEF Control
  <2> QED
    BY <2>1, <2>2
<1>15. ASSUME CommitNext PROVE NoneBehind'
  <2>1. UNCHANGED <<kind, pc, err, tx, doubt>> /\ ordered # <<>> /\ ordered' = Tail(ordered)
    BY <1>15 DEF CommitNext
  <2>2. PICK t \in Ordered, code \in ValidationCodes :
             /\ t = Head(ordered)
             /\ OnLedger' = OnLedger \cup {t}
             /\ Valid' = IF code = "VALID" THEN Valid \cup {t} ELSE Valid
    BY <1>15, CommitNextOf
  <2>3. /\ Ordered' \subseteq Ordered
        /\ \A i \in DOMAIN ordered' : i + 1 \in DOMAIN ordered /\ ordered'[i] = ordered[i + 1]
        /\ 1 \in DOMAIN ordered /\ ordered[1] = t
        /\ DOMAIN ordered' \subseteq Nat \ {0}
    BY <2>1, <2>2, TailOrdered DEF TypeOK
  <2>4. \A u \in Ordered' \ doubt : u = tx /\ u \notin OnLedger' /\ Awaits'
    <3> SUFFICES ASSUME NEW u \in Ordered', u \notin doubt
                 PROVE  u = tx /\ u \notin OnLedger' /\ Awaits'
      OBVIOUS
    <3>1. u = tx /\ u \notin OnLedger /\ Awaits
      BY <2>3
    <3>2. PICK i \in DOMAIN ordered' : u = ordered'[i]
      BY DEF Ordered
    <3>3. u # t
      BY <2>3, <3>2
    <3> QED
      BY <2>1, <2>2, <3>1, <3>3
  <2>5. \A i, j \in DOMAIN ordered' :
          ordered'[i] = ordered'[j] /\ ordered'[i] \notin doubt => i = j
    BY <2>3
  <2> QED
    BY <2>1, <2>2, <2>3, <2>4, <2>5
<1>16. ASSUME \/ ReturnComplete \/ ReturnTimeout \/ Deadline \/ EventServiceStops
              \/ GreylistExpires \/ UNCHANGED vars
       PROVE  NoneBehind'
  BY <1>1, <1>16 DEF ReturnComplete, ReturnTimeout, Deadline, EventServiceStops,
                     GreylistExpires, vars
<1> QED
  BY <1>4, <1>5, <1>6, <1>7, <1>8, <1>9, <1>10, <1>11, <1>12, <1>13, <1>14, <1>15, <1>16
     DEF Next, Handler, Network, ProposalProcessor, SelectAndEndorse

-----------------------------------------------------------------------------
(* Endorsements                                                            *)

\* A payload that touches nothing unknown needs no organisation more.
LEMMA NothingAdditional ==
    ASSUME NEW ch, NEW r, ~FoundAdditional(ch, InvocationChainOf(r))
    PROVE  Needs(r) \subseteq NeededOrgs(ch)
  BY DEF FoundAdditional, InvocationChainOf, Needs, NeededOrgs

\* The chain that is merged with a payload's needs what the payload needs.
LEMMA MergedNeeds ==
    ASSUME NEW ch, NEW r
    PROVE  Needs(r) \subseteq
             NeededOrgs(NewInvocationChain(MergeInvocationChains(ch, InvocationChainOf(r))))
<1> DEFINE merged == MergeInvocationChains(ch, InvocationChainOf(r))
<1>1. DOMAIN merged = DOMAIN RWSet[r.payload] \ SystemCCs
  BY DEF MergeInvocationChains, InvocationChainOf
<1>2. DOMAIN NewInvocationChain(merged) = {Chaincode} \cup DOMAIN merged
  BY DEF NewInvocationChain
<1> HIDE DEF merged
<1>3. Needs(r) \subseteq NeededOrgs(NewInvocationChain(merged))
  BY <1>1, <1>2 DEF Needs, NeededOrgs
<1> QED
  BY <1>3 DEF merged

\* The targets and the additional endorsers are of all organisations selected.
LEMMA AdditionalOrgs ==
    ASSUME NEW T
    PROVE  Orgs(T) \subseteq Orgs(targets) \cup Orgs(AdditionalEndorsers(T))
  BY DEF Orgs, AdditionalEndorsers

\* Every step collects the endorsements that are needed.
LEMMA CoveredStep ==
    ASSUME TypeOK, Control, Covered, [Next]_vars
    PROVE  Covered'
<1> USE DEF Covered, callVars, requestVars, sendVars, worldVars, Fail, Unsent
<1>1. ASSUME UNCHANGED <<kind, given, pc, targets, chain, responses, tx, short>>
      PROVE  Covered'
  BY <1>1 DEF Agree, Orgs, Endorsers, NeededOrgs, Needs, NewInvocationChain
<1>2. ASSUME pc' \notin Unsent, pc' # "endorse"
      PROVE  Covered'
  BY <1>2
<1>3. ASSUME GetEndorsers PROVE Covered'
  <2>1. CASE pc' = "endorse"
    <3>1. /\ given' = given /\ chain' = chain
          /\ \/ targets' = given /\ given # {}
             \/ targets' = {}
             \/ targets' \in Selections(NewInvocationChain(chain))
      BY <1>3, <2>1 DEF GetEndorsers, Control
    <3>2. given = {} /\ targets' # {} => Orgs(targets') = NeededOrgs(NewInvocationChain(chain))
      BY <3>1, SelectionsOf
    <3> QED
      BY <2>1, <3>1, <3>2 DEF Orgs
  <2> QED
    BY <1>2, <1>3, <2>1 DEF GetEndorsers
<1>4. ASSUME Endorse PROVE Covered'
  <2>1. CASE /\ targets # {} /\ responses' \in ProposalResponses(targets)
             /\ pc' = IF kind # "query" /\ given = {} THEN "more" ELSE "validate"
    <3>1. responses' # {} /\ Endorsers(responses') = Orgs(targets)
      BY <2>1, ProposalResponsesOf DEF TypeOK
    <3>2. UNCHANGED <<kind, given, targets, chain>>
      BY <1>4 DEF Endorse
    <3>3. /\ Orgs(targets') = Orgs(targets)
          /\ Endorsers(responses)' = Endorsers(responses')
          /\ NeededOrgs(NewInvocationChain(chain))' = NeededOrgs(NewInvocationChain(chain))
      BY <3>2 DEF Endorsers, NeededOrgs, NewInvocationChain, Orgs
    <3>4. given = {} => Orgs(targets) = NeededOrgs(NewInvocationChain(chain))
      BY <1>4, <2>1 DEF Endorse
    <3> QED
      BY <2>1, <3>1, <3>2, <3>3, <3>4
  <2> QED
    BY <1>2, <1>4, <2>1 DEF Endorse
<1>5. ASSUME More PROVE Covered'
  <2>1. PICK r \in responses :
          \/ /\ ~FoundAdditional(NewInvocationChain(chain), InvocationChainOf(r))
             /\ pc' = "validate"
          \/ short' = short \cup {tx} /\ pc' = "validate"
          \/ \E T \in Selections(NewInvocationChain(MergeInvocationChains(
                                   NewInvocationChain(chain), InvocationChainOf(r)))) :
               /\ targets' = IF AdditionalEndorsers(T) = {} THEN targets
                             ELSE AdditionalEndorsers(T)
               /\ pc' = IF AdditionalEndorsers(T) = {} THEN "validate" ELSE "endorseMore"
    BY <1>5 DEF More
  <2>2. /\ UNCHANGED <<kind, given, responses, tx>> /\ responses # {} /\ given = {}
        /\ Endorsers(responses) = Orgs(targets)
        /\ Orgs(targets) = NeededOrgs(NewInvocationChain(chain))
    BY <1>5 DEF More
  <2>3. CASE ~FoundAdditional(NewInvocationChain(chain), InvocationChainOf(r)) /\ pc' = "validate"
    BY <2>2, <2>3, NothingAdditional DEF Needs, Endorsers
  <2>4. CASE short' = short \cup {tx} /\ pc' = "validate"
    BY <2>2, <2>4
  <2>5. ASSUME NEW T \in Selections(NewInvocationChain(MergeInvocationChains(
                                      NewInvocationChain(chain), InvocationChainOf(r)))),
               targets' = IF AdditionalEndorsers(T) = {} THEN targets
                          ELSE AdditionalEndorsers(T),
               pc' = IF AdditionalEndorsers(T) = {} THEN "validate" ELSE "endorseMore"
        PROVE  Covered'
    <3>1. Needs(r) \subseteq Orgs(T)
      BY SelectionsOf, MergedNeeds
    <3>2. Needs(r) \subseteq Endorsers(responses) \cup Orgs(AdditionalEndorsers(T))
      BY <2>2, <3>1, AdditionalOrgs
    <3>3. CASE AdditionalEndorsers(T) = {}
      <4>1. Needs(r) \subseteq Endorsers(responses)
        BY <3>2, <3>3 DEF Orgs
      <4> QED
        BY <2>2, <2>5, <3>3, <4>1 DEF Needs, Endorsers
    <3>4. CASE AdditionalEndorsers(T) # {}
      <4>1. Needs(r) \subseteq Endorsers(responses) \cup Orgs(targets')
        BY <2>5, <3>2, <3>4
      <4> QED
        BY <2>2, <2>5, <3>4, <4>1 DEF Needs, Endorsers, Orgs
    <3> QED
      BY <3>3, <3>4
  <2> QED
    BY <2>1, <2>3, <2>4, <2>5
<1>6. ASSUME EndorseMore PROVE Covered'
  <2>1. ASSUME NEW R \in ProposalResponses(targets), responses' = responses \cup R, pc' = "validate"
        PROVE  Covered'
    <3>1. PICK r \in responses : Needs(r) \subseteq Endorsers(responses) \cup Orgs(targets)
      BY <1>6 DEF EndorseMore
    <3>2. Endorsers(R) = Orgs(targets)
      BY ProposalResponsesOf DEF TypeOK
    <3>3. Endorsers(responses') = Endorsers(responses) \cup Endorsers(R)
      BY <2>1 DEF Endorsers
    <3>4. r \in responses' /\ Needs(r) \subseteq Endorsers(responses')
      BY <2>1, <3>1, <3>2, <3>3
    <3> QED
      BY <2>1, <3>4 DEF Needs, Endorsers
  <2> QED
    BY <1>2, <1>6, <2>1 DEF EndorseMore
<1>7. ASSUME EndorsementValidation PROVE Covered'
  <2>1. UNCHANGED <<kind, given, responses, tx, short>>
    BY <1>7 DEF EndorsementValidation
  <2>2. CASE Agree(responses) /\ pc' = "verify"
    BY <1>7, <2>1, <2>2 DEF EndorsementValidation, Agree, Needs, Endorsers
  <2> QED
    BY <1>2, <1>7, <2>2 DEF EndorsementValidation
<1>8. ASSUME SignatureValidation PROVE Covered'
  <2>1. UNCHANGED <<kind, given, responses, tx, short>> /\ pc = "verify"
    BY <1>8 DEF SignatureValidation
  <2>2. CASE (\A r \in responses : Verified(r)) /\ pc' = "register"
    BY <2>1, <2>2 DEF Verified, Agree, Needs, Endorsers
  <2> QED
    BY <1>2, <1>8, <2>2 DEF SignatureValidation
<1>9. ASSUME Register PROVE Covered'
  BY <1>2, <1>9 DEF Register
<1>10. ASSUME NEW o \in Orderers, SendBroadcast(o) PROVE Covered'
  <2>1. pc' \in {"broadcast", "wait", "resolve"}
    BY <1>10 DEF SendBroadcast
  <2> QED
    BY <1>2, <2>1
<1>11. ASSUME WaitForStatus PROVE Covered'
  BY <1>2, <1>11 DEF WaitForStatus
<1>12. ASSUME BeforeRetry \/ GiveUp PROVE Covered'
  BY <1>2, <1>12 DEF BeforeRetry, GiveUp
<1>13. ASSUME \/ ReturnComplete \/ ReturnTimeout \/ Deadline
              \/ CommitNext \/ EventServiceStops \/ GreylistExpires \/ UNCHANGED vars
       PROVE  Covered'
  BY <1>1, <1>13 DEF ReturnComplete, ReturnTimeout, Deadline, CommitNext, EventServiceStops,
                     GreylistExpires, vars
<1> QED
  BY <1>3, <1>4, <1>5, <1>6, <1>7, <1>8, <1>9, <1>10, <1>11, <1>12, <1>13
     DEF Next, Handler, Network, ProposalProcessor, SelectAndEndorse

\* What Register signs is well endorsed.
LEMMA NewTransactionSatisfied ==
    ASSUME Covered, pc = "register", kind # "query", given = {}, tx \notin short
    PROVE  Satisfied(NewTransaction(responses))
<1>1. PICK r \in responses : Needs(r) \subseteq Endorsers(responses)
  BY DEF Covered
<1>2. \A s \in responses : s.payload = r.payload
  BY DEF Covered, Agree
<1>3. NewTransaction(responses).endorsements = responses
  BY DEF NewTransaction
<1>4. ASSUME NEW c \in UNION {DOMAIN RWSet[s.payload] : s \in responses}
      PROVE  c \in DOMAIN RWSet[r.payload]
  <2>1. PICK s \in responses : c \in DOMAIN RWSet[s.payload]
    OBVIOUS
  <2>2. s.payload = r.payload
    BY <1>2
  <2> QED
    BY <2>1, <2>2
<1>5. \A c \in DOMAIN RWSet[r.payload] \ SystemCCs : Policy[c] \subseteq Needs(r)
  BY DEF Needs
<1>6. ASSUME NEW c \in (UNION {DOMAIN RWSet[s.payload] : s \in responses}) \ SystemCCs
      PROVE  Policy[c] \subseteq {Org[s.peer] : s \in responses}
  <2>1. c \in DOMAIN RWSet[r.payload] /\ c \notin SystemCCs
    BY <1>4
  <2>2. Policy[c] \subseteq Needs(r)
    BY <1>5, <2>1
  <2> QED
    BY <1>1, <2>2 DEF Endorsers
<1> QED
  BY <1>3, <1>6 DEF Satisfied

\* Every step sends only what is well endorsed.
LEMMA WellEndorsedStep ==
    ASSUME TypeOK, Control, Covered, WellEndorsed, [Next]_vars
    PROVE  WellEndorsed'
<1> USE DEF callVars, requestVars, sendVars, worldVars, Fail
<1>1. ASSUME UNCHANGED <<given, envelopes>>, short \subseteq short'
      PROVE  WellEndorsed'
  BY <1>1 DEF WellEndorsed, Satisfied
<1>2. ASSUME Register PROVE WellEndorsed'
  <2> DEFINE e == NewTransaction(responses)
             Transactions == [tx : Nat, endorsements : SUBSET Responses]
  <2>1. CASE envelopes' = Append(envelopes, e)
    <3>1. e.tx = tx /\ e.endorsements = responses /\ e \in Transactions
      BY DEF NewTransaction, TypeOK
    <3>2. pc = "register" /\ kind # "query" /\ UNCHANGED <<given, short>>
      BY <1>2 DEF Register, Control
    <3>3. e.endorsements # {} /\ \A r, s \in e.endorsements : r.payload = s.payload /\ r.signed
      BY <3>1, <3>2 DEF Covered, Agree, Unsent
    <3>4. given = {} /\ e.tx \notin short => Satisfied(e)
      BY <3>1, <3>2, NewTransactionSatisfied
    <3>5. /\ DOMAIN envelopes' = DOMAIN envelopes \cup {Len(envelopes) + 1}
          /\ \A i \in DOMAIN envelopes : envelopes'[i] = envelopes[i]
          /\ envelopes'[Len(envelopes) + 1] = e
      <4>1. envelopes \in Seq(Transactions)
        BY DEF TypeOK
      <4> HIDE DEF e, Transactions
      <4> QED
        BY <2>1, <3>1, <4>1, AppendOf
    <3> HIDE DEF e
    <3>6. \A i \in DOMAIN envelopes' :
            LET f == envelopes'[i]
            IN  /\ f.endorsements # {}
                /\ \A r, s \in f.endorsements : r.payload = s.payload /\ r.signed
                /\ given = {} /\ f.tx \notin short => Satisfied(f)
      BY <3>3, <3>4, <3>5 DEF WellEndorsed
    <3> QED
      BY <3>2, <3>6 DEF WellEndorsed, Satisfied
  <2> QED
    BY <1>1, <1>2, <2>1 DEF Register
<1>3. ASSUME More PROVE WellEndorsed'
  <2>1. short \subseteq short'
    BY <1>3 DEF More
  <2> QED
    BY <1>1, <1>3, <2>1 DEF More
<1>4. ASSUME NEW o \in Orderers, SendBroadcast(o) PROVE WellEndorsed'
  BY <1>1, <1>4 DEF SendBroadcast
<1>5. ASSUME \/ GetEndorsers \/ Endorse \/ EndorseMore \/ EndorsementValidation
             \/ SignatureValidation \/ WaitForStatus \/ BeforeRetry \/ GiveUp
      PROVE  WellEndorsed'
  BY <1>1, <1>5 DEF GetEndorsers, Endorse, EndorseMore, EndorsementValidation,
                    SignatureValidation, WaitForStatus, BeforeRetry, GiveUp
<1>6. ASSUME \/ ReturnComplete \/ ReturnTimeout \/ Deadline
             \/ CommitNext \/ EventServiceStops \/ GreylistExpires \/ UNCHANGED vars
      PROVE  WellEndorsed'
  BY <1>1, <1>6 DEF ReturnComplete, ReturnTimeout, Deadline, CommitNext, EventServiceStops,
                    GreylistExpires, vars
<1> QED
  BY <1>2, <1>3, <1>4, <1>5, <1>6
     DEF Next, Handler, Network, ProposalProcessor, SelectAndEndorse

-----------------------------------------------------------------------------
(* The theorems                                                            *)

\* The inductive invariant holds in the beginning.
LEMMA InitInv == Init => IInv
<1> SUFFICES ASSUME Init PROVE IInv
  OBVIOUS
<1>1. TypeOK
  BY InitType
<1>2. Ordered = {} /\ OnLedger = {} /\ Valid = {} /\ DOMAIN envelopes = {} /\ DOMAIN ordered = {}
  BY DEF Init, Ordered, OnLedger, Valid
<1>3. Control
  BY <1>1 DEF Init, Control, TypeOK, Unsent
<1>4. Notified /\ OwnOnly /\ NoneBehind /\ Covered
  BY <1>1, <1>2 DEF Init, Notified, OwnOnly, NoneBehind, Covered, Unsent
<1>5. WellEndorsed
  BY <1>2 DEF WellEndorsed
<1> QED
  BY <1>1, <1>3, <1>4, <1>5 DEF IInv

\* Every step keeps the inductive invariant.
LEMMA InvStep == IInv /\ [Next]_vars => IInv'
  BY TypeStep, ControlStep, NotifiedStep, OwnOnlyStep, NoneBehindStep, CoveredStep,
     WellEndorsedStep DEF IInv

\* The inductive invariant holds throughout every call.
LEMMA Invariant == Spec => []IInv
  BY InitInv, InvStep, PTL DEF Spec

\* Whatever SelectAndEndorseHandler and CommitTxHandler hand to an orderer is
\* endorsed alike, with good signatures, and by every organisation that the
\* chaincodes of its payload need, however the retries went.
THEOREM EnvelopesWellEndorsed == Spec => []WellEndorsed
  BY Invariant, PTL DEF IInv

\* CommitTxHandler misses no commit: a transaction that is on the ledger while
\* it waits has its status in the channel, and one commit event is passed on.
THEOREM CommitsHeard == Spec => []NoCommitMissed
<1>1. IInv => NoCommitMissed
  <2> SUFFICES ASSUME IInv PROVE NoCommitMissed
    OBVIOUS
  <2>1. (\E i \in DOMAIN ledger : ledger[i][1] = tx) => tx \in OnLedger
    BY DEF OnLedger
  <2>2. eventch = <<>> \/ eventch = <<"VALID">>
    BY DEF IInv, Control
  <2>3. Len(<<>>) <= 1 /\ Len(<<"VALID">>) <= 1
    OBVIOUS
  <2>4. Len(eventch) <= 1
    BY <2>2, <2>3, Zenon
  <2>5. pc = "wait" /\ notifier = "open" /\ tx \in OnLedger => status # <<>>
    BY DEF IInv, Notified
  <2>6. kind = "submit" /\ outcome = "success" => eventch = <<"VALID">>
    BY DEF IInv, Control
  <2> QED
    BY <2>1, <2>4, <2>5, <2>6 DEF NoCommitMissed
<1> QED
  BY <1>1, Invariant, PTL

\* The initial states of a call are initial states of its contract.
LEMMA ContractInit == Init => Contract!Init
  BY DEF Init, Contract!Init

\* What a call shows of itself is the contract's state.
LEMMA ContractVars ==
    ASSUME UNCHANGED <<kind, outcome, ledger, doubt>>
    PROVE  UNCHANGED Contract!vars
  BY DEF Contract!vars

\* The transaction of an attempt is one of those the contract speaks of.
LEMMA TxInTxs ==
    ASSUME IInv, NEW t \in 1..tx
    PROVE  t \in Txs
<1>1. tx <= retries + 1 /\ retries <= attempts /\ attempts <= Attempts
  BY TransactionAssumption DEF IInv, Control, TypeOK, TransactionAssumption
<1> QED
  BY <1>1, TransactionAssumption DEF Txs, IInv, TypeOK, TransactionAssumption

\* A step of a call is a step that the contract allows, or changes nothing that
\* the contract speaks of.
LEMMA ContractStep == IInv /\ [Next]_vars => [Contract!Next]_(Contract!vars)
<1> SUFFICES ASSUME IInv, [Next]_vars PROVE [Contract!Next]_(Contract!vars)
  OBVIOUS
<1> USE DEF callVars, requestVars, sendVars, worldVars, Fail
<1> DEFINE valid == {e[1] : e \in {f \in {ledger[i] : i \in DOMAIN ledger} : f[2] = "VALID"}}
           call == IF kind = "query" THEN "query" ELSE "execute"
<1>0. valid = Valid /\ valid' = Valid'
  BY DEF Valid
<1>1. ASSUME \/ GetEndorsers \/ Endorse \/ EndorseMore \/ EndorsementValidation
             \/ SignatureValidation \/ Register \/ WaitForStatus \/ BeforeRetry \/ GiveUp
      PROVE  UNCHANGED Contract!vars
  BY <1>1, ContractVars DEF GetEndorsers, Endorse, EndorseMore, EndorsementValidation,
                    SignatureValidation, Register, WaitForStatus, BeforeRetry, GiveUp
<1>2. ASSUME More PROVE UNCHANGED Contract!vars
  BY <1>2, ContractVars DEF More
<1>3. ASSUME NEW o \in Orderers, SendBroadcast(o) PROVE [Contract!Next]_(Contract!vars)
  <2>1. UNCHANGED <<kind, outcome, ledger>> /\ (doubt' = doubt \/ doubt' = doubt \cup {tx})
    BY <1>3 DEF SendBroadcast
  <2>2. CASE doubt' = doubt
    BY <2>1, <2>2, ContractVars
  <2>3. CASE doubt' = doubt \cup {tx}
    <3>1. kind # "query" /\ outcome # "error" /\ tx \in Txs
      BY <1>3, TxInTxs DEF SendBroadcast, IInv, Control, TypeOK, Unsent
    <3>2. Contract!Lose(tx)
      BY <2>1, <2>3, <3>1 DEF Contract!Lose
    <3> QED
      BY <3>1, <3>2 DEF Contract!Next
  <2> QED
    BY <2>1, <2>2, <2>3
<1>4. ASSUME ReturnComplete PROVE [Contract!Next]_(Contract!vars)
  <2>1. UNCHANGED <<kind, ledger, doubt>> /\ outcome = "pending" /\ pc = "done"
    BY <1>4 DEF ReturnComplete
  <2>2. CASE outcome' = "success"
    <3>1. err = NoError
      BY <1>4, <2>2 DEF ReturnComplete
    <3>2. kind # "query" => Valid # {}
      BY <2>1, <3>1 DEF IInv, NoneBehind
    <3>3. Contract!ReturnSuccess
      BY <1>0, <2>1, <2>2, <3>2 DEF Contract!ReturnSuccess
    <3> QED
      BY <3>3 DEF Contract!Next
  <2>3. CASE outcome' = "timeout"
    BY <2>1, <2>3 DEF Contract!ReturnTimeout, Contract!Next
  <2>4. CASE outcome' = "error"
    <3>1. err # NoError /\ err # TimedOut
      BY <1>4, <2>4, FromOne DEF ReturnComplete, TimedOut
    <3>2. Valid \subseteq doubt
      BY <2>1, <3>1 DEF IInv, NoneBehind, Awaits
    <3>3. Contract!ReturnError
      BY <1>0, <2>1, <2>4, <3>2 DEF Contract!ReturnError
    <3> QED
      BY <3>3 DEF Contract!Next
  <2> QED
    BY <1>4, <2>2, <2>3, <2>4 DEF ReturnComplete
<1>5. ASSUME ReturnTimeout PROVE Contract!ReturnTimeout
  BY <1>5 DEF ReturnTimeout, Contract!ReturnTimeout
<1>6. ASSUME CommitNext PROVE [Contract!Next]_(Contract!vars)
  <2>1. UNCHANGED <<kind, outcome, pc, err, tx, doubt>>
    BY <1>6 DEF CommitNext
  <2>2. PICK t \in Ordered, code \in ValidationCodes :
             /\ t \in OnLedger => code # "VALID"
             /\ Valid' = IF code = "VALID" THEN Valid \cup {t} ELSE Valid
    BY <1>6, CommitNextOf DEF IInv
  <2>3. CASE code # "VALID"
    BY <1>0, <2>1, <2>2, <2>3 DEF Contract!vars
  <2>4. CASE code = "VALID"
    <3>1. kind # "query" /\ t \in Txs
      BY TxInTxs DEF IInv, OwnOnly
    <3>2. t \notin Valid /\ Valid' = Valid \cup {t}
      BY <2>2, <2>4, ValidOnLedger
    <3>3. t \in doubt \/ (Valid \subseteq doubt /\ outcome # "error")
      <4> SUFFICES ASSUME t \notin doubt
                   PROVE  Valid \subseteq doubt /\ outcome # "error"
        OBVIOUS
      <4>1. t = tx /\ Awaits
        BY DEF IInv, NoneBehind
      <4>2. Valid \subseteq doubt
        BY <3>2, <4>1 DEF IInv, NoneBehind
      <4> QED
        BY <4>1, <4>2 DEF Awaits, IInv, Control
    <3>4. Contract!Commit(t)
      BY <1>0, <2>1, <3>1, <3>2, <3>3 DEF Contract!Commit
    <3> QED
      BY <3>1, <3>4 DEF Contract!Next
  <2> QED
    BY <2>3, <2>4
<1>7. ASSUME Deadline \/ EventServiceStops \/ GreylistExpires \/ UNCHANGED vars
      PROVE  UNCHANGED Contract!vars
  BY <1>7, ContractVars DEF Deadline, EventServiceStops, GreylistExpires, vars
<1> QED
  BY <1>1, <1>2, <1>3, <1>4, <1>5, <1>6, <1>7
     DEF Next, Handler, Network, ProposalProcessor, SelectAndEndorse, Contract!Next

\* A call keeps the contract with its caller (InvokeHandler, Invoke): success
\* means a valid transaction, a definite error means none but those in doubt,
\* and no retry makes a second transaction valid, whatever peers, orderers,
\* the event service and the deadline do.
THEOREM CallKeepsContract == Spec => KeepsContract
  BY Invariant, ContractInit, ContractStep, PTL DEF Spec, KeepsContract, Contract!Spec

=============================================================================
