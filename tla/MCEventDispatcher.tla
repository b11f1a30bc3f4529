------------------------- MODULE MCEventDispatcher -------------------------
(***************************************************************************)
(* Small instances of EventDispatcher.  A block with an odd number holds   *)
(* an invalid and a valid transaction; one with an even number the         *)
(* transaction that "tx" registrations wait for.  All have the chaincode   *)
(* event that "cc" registrations wait for.                                 *)
(***************************************************************************)
EXTENDS EventDispatcher, TLC

CONSTANTS BlockRegs, FilteredRegs, CCRegs, TxRegs,
          Picky     \* block registrations whose filter refuses even blocks

MCRegs == BlockRegs \cup FilteredRegs \cup CCRegs \cup TxRegs
MCKeys == {"cc", "tx", "other"}
MCKind == [r \in MCRegs |-> CASE r \in BlockRegs -> "block"
                              [] r \in FilteredRegs -> "filtered"
                              [] r \in CCRegs -> "cc"
                              [] r \in TxRegs -> "tx"]
MCKey == [r \in MCRegs |-> IF r \in CCRegs THEN "cc" ELSE "tx"]
MCTxs == [b \in Blocks |->
             IF b % 2 = 1
             THEN <<[tx |-> "other", valid |-> FALSE, event |-> {"cc"}],
                    [tx |-> "other", valid |-> TRUE, event |-> {"cc"}]>>
             ELSE <<[tx |-> "tx", valid |-> TRUE, event |-> {"cc"}]>>]
MCAccepted == [b \in Blocks |-> IF b % 2 = 1 THEN MCRegs ELSE MCRegs \ Picky]

\* Registrations for chaincode events differ in nothing (not used with liveness).
Symmetry == Permutations(CCRegs)
=============================================================================
