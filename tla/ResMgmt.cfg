SPECIFICATION Spec
CONSTANTS
  Peers = {"p1", "p2", "p3"}
  ClientFilter = {"p1", "p2"}
  OwnPeers = {"p1", "p2"}
  Orderers = {"o1", "o2"}
  ChannelOrderers = {"o1"}
  Requests <- MCRequests
  Attempts = 1
  MaxFaults = 4
  MaxConfigs = 3
INVARIANTS
  Truthful
  ConfigFresh
PROPERTIES
  Settles
CHECK_DEADLOCK FALSE
