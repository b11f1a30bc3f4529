SPECIFICATION Spec
CONSTANTS
  None = None
  Bad = Bad
INVARIANTS
  EndorsersServe
  PeersTrue
  ConfigurationTrue
  StoresTrue
  MembersSound
  LedgerAgreed
  MessagesTrue
  UpdatesExact
CHECK_DEADLOCK FALSE
