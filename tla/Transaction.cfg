SPECIFICATION Spec
CONSTANTS
  Peers = {"p1", "p2", "p3"}
  Org <- MCOrg
  Orderers = {"o1", "o2"}
  Chaincode = "cc1"
  Policy <- MCPolicy
  RWSet <- MCRWSet
  Given <- MCGiven
  SystemCCs = {"lscc", "_lifecycle"}
  Attempts = 1
INVARIANTS
  WellEndorsed
  NoCommitMissed
PROPERTIES
  KeepsContract
  CallEnds
CHECK_DEADLOCK FALSE
