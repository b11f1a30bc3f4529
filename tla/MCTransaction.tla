--------------------------- MODULE MCTransaction ---------------------------
(***************************************************************************)
(* Transaction with three peers of two organisations, two orderers, a      *)
(* chaincode that may call another, and one retry.                         *)
(***************************************************************************)
EXTENDS Transaction

MCOrg == [p \in Peers |-> IF p = "p2" THEN "org2" ELSE "org1"]

MCPolicy == [cc1 |-> {"org1"}, cc2 |-> {"org2"}]

\* The payload "near" touches the called chaincode, "far" another one too,
\* and the entry of lscc that every first write of a chaincode leaves.
MCRWSet == [near |-> [cc1 |-> {}],
            far |-> [cc1 |-> {}, cc2 |-> {"coll"}, lscc |-> {}]]

MCGiven == [c \in {} |-> {}]

=============================================================================
