------------------------------- MODULE Retry -------------------------------
(***************************************************************************)
(* The SDK's errors and the decision to retry (pkg/common/errors/status,   *)
(* multi and retry).                                                       *)
(*                                                                         *)
(* A status is a group, a code within the group and the address that the   *)
(* details of a failed connection hold.  An error is the set of the errors *)
(* it consists of: none (nil), one, or several (multi.Errors), and whether *)
(* a message was wrapped around it.  An error that carries no status is    *)
(* Plain.  The codes are named; two names of one group are never the same  *)
(* number, except MVCC_READ_CONFLICT and QUERY_ENDORSERS (both 11), which  *)
(* never meet in one group.                                                *)
(***************************************************************************)
EXTENDS Integers, FiniteSets

NoURL == "-"

Status(group, code) == [group |-> group, code |-> code, url |-> NoURL]

StatusAt(group, code, url) == [group |-> group, code |-> code, url |-> url]

\* An error made by errors.New, with no status to be found in it.
Plain == Status("Unknown", "PLAIN")

NoError == [errs |-> {}, wrapped |-> FALSE]

One(s) == [errs |-> {s}, wrapped |-> FALSE]

\* multi.New, Append and ToError: nothing, the only error, or all of them.
Multi(S) == [errs |-> S, wrapped |-> FALSE]

Wrap(e) == [e EXCEPT !.wrapped = e.errs # {}]

IsMulti(e) == Cardinality(e.errs) > 1

(***************************************************************************)
(* status.FromError: the status at the root of a single error, one of its  *)
(* own for several errors, none for an error without a status.             *)
(***************************************************************************)
FromError(e) ==
  IF e.errs = {} THEN Status("Unknown", "OK")
  ELSE IF IsMulti(e) THEN Status("Client", "MULTIPLE_ERRORS")
  ELSE CHOOSE s \in e.errs : TRUE

HasStatus(e) == FromError(e) # Plain

-----------------------------------------------------------------------------
(* The codes that warrant a retry, by client.                              *)

Unavailable(group) ==
  {<<group, "SERVICE_UNAVAILABLE">>, <<group, "INTERNAL_SERVER_ERROR">>}

InvalidatedByState ==
  {<<"EventServer", c>> : c \in {"DUPLICATE_TXID", "ENDORSEMENT_POLICY_FAILURE",
                                 "MVCC_READ_CONFLICT", "PHANTOM_READ_CONFLICT"}}

DefaultRetryableCodes ==
  {<<"EndorserClient", "ENDORSEMENT_MISMATCH">>,
   <<"EndorserClient", "CHAINCODE_NAME_NOT_FOUND">>,
   <<"GRPCTransport", "UNAVAILABLE">>}
  \cup Unavailable("EndorserServer") \cup Unavailable("OrdererServer")
  \cup InvalidatedByState

ResMgmtDefaultRetryableCodes ==
  DefaultRetryableCodes
  \cup {<<"EndorserClient", "CONNECTION_FAILED">>,
        <<"OrdererServer", "BAD_REQUEST">>, <<"OrdererServer", "NOT_FOUND">>}

ChannelClientRetryableCodes ==
  DefaultRetryableCodes
  \cup {<<"EndorserClient", "CONNECTION_FAILED">>,
        <<"EndorserClient", "MVCC_READ_CONFLICT">>,
        <<"OrdererClient", "CONNECTION_FAILED">>,
        <<"EndorserServer", "PRIVATE_DATA_DISSEMINATION_FAILED">>}

ChannelConfigRetryableCodes == {<<"EndorserClient", "ENDORSEMENT_MISMATCH">>}

-----------------------------------------------------------------------------
IsRetryable(s, codes) == <<s.group, s.code>> \in codes

(***************************************************************************)
(* impl.Required: a retry is left and the status is one of the codes.      *)
(***************************************************************************)
Required(s, retries, attempts, codes) ==
  retries # attempts /\ s # Plain /\ IsRetryable(s, codes)

(***************************************************************************)
(* resolveRetry: a multi.Errors that nothing was wrapped around is looked  *)
(* at error by error, everything else as one error.                        *)
(***************************************************************************)
ResolveRetry(e, retries, attempts, codes) ==
  LET each == IF IsMulti(e) /\ ~e.wrapped THEN e.errs ELSE {FromError(e)}
  IN  \E s \in each : Required(s, retries, attempts, codes)

(***************************************************************************)
(* backoffPeriod: the initial period times the factor for every retry made *)
(* so far, until the maximum is reached, and never more than it.           *)
(***************************************************************************)
BackoffPeriod(opts, retries) ==
  LET after[j \in 0..retries] ==
        IF j = 0 THEN opts.initial
        ELSE IF after[j - 1] < opts.max THEN after[j - 1] * opts.factor
        ELSE after[j - 1]
  IN  IF after[retries] > opts.max THEN opts.max ELSE after[retries]

-----------------------------------------------------------------------------
(***************************************************************************)
(* The greylist keeps the address of a peer that could not be connected to *)
(* (Greylist, required, peerURLFromConnectionFailedStatus).  Of several    *)
(* errors none is looked at.                                               *)
(***************************************************************************)
Greylisted(e) ==
  LET s == FromError(e)
  IN  IF s.group = "EndorserClient" /\ s.code = "CONNECTION_FAILED" /\ s.url # NoURL
      THEN {s.url} ELSE {}

=============================================================================
