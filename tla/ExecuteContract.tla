-------------------------- MODULE ExecuteContract --------------------------
(***************************************************************************)
(* What a call of the channel client promises its caller, whatever happens *)
(* to peers, orderers, events and time.                                    *)
(*                                                                         *)
(* A call makes several attempts, each with a transaction of its own.  A   *)
(* transaction is in doubt once an orderer took the envelope and was lost  *)
(* before it answered.  The contract: success is reported only for a       *)
(* transaction that is valid on the ledger; a definite error only if no    *)
(* transaction of the call is valid, those in doubt aside; and at most one *)
(* transaction that is not in doubt ever becomes valid.  A timeout promises *)
(* nothing.  A query never changes the ledger.                             *)
(***************************************************************************)
CONSTANT Txs                \* the transactions of the attempts

VARIABLES
  kind,                     \* "query" or "execute"
  outcome,                  \* what the caller was told, "pending" before
  valid,                    \* transactions that are valid on the ledger
  doubt                     \* transactions in doubt

vars == <<kind, outcome, valid, doubt>>

Init ==
  /\ kind \in {"query", "execute"}
  /\ outcome = "pending"
  /\ valid = {}
  /\ doubt = {}

\* An orderer is lost between taking the envelope and answering.
Lose(t) ==
  /\ kind = "execute"
  /\ outcome # "error"
  /\ doubt' = doubt \cup {t}
  /\ UNCHANGED <<kind, outcome, valid>>

\* A transaction of the call is committed as valid.
Commit(t) ==
  /\ kind = "execute"
  /\ t \notin valid
  /\ t \in doubt \/ (valid \subseteq doubt /\ outcome # "error")
  /\ valid' = valid \cup {t}
  /\ UNCHANGED <<kind, outcome, doubt>>

ReturnSuccess ==
  /\ outcome = "pending"
  /\ kind = "execute" => valid # {}
  /\ outcome' = "success"
  /\ UNCHANGED <<kind, valid, doubt>>

ReturnError ==
  /\ outcome = "pending"
  /\ valid \subseteq doubt
  /\ outcome' = "error"
  /\ UNCHANGED <<kind, valid, doubt>>

ReturnTimeout ==
  /\ outcome = "pending"
  /\ outcome' = "timeout"
  /\ UNCHANGED <<kind, valid, doubt>>

Next ==
  \/ \E t \in Txs : Lose(t) \/ Commit(t)
  \/ ReturnSuccess
  \/ ReturnError
  \/ ReturnTimeout

Spec == Init /\ [][Next]_vars

=============================================================================
