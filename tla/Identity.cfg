SPECIFICATION Spec
CONSTANTS
  Users = {"admin", "u"}
  Registrar = "admin"
  Procs = {1, 2}
  CAs = {"ca1"}
  DefaultCA = "ca1"
  CAName = "ca1"
  Embedded = {}
  Inputs <- MCInputs
  MaxCalls = 3
  MaxLost = 1
  MaxCrashes = 1
INVARIANTS
    SignsAsUser
    EnrolledUsable
PROPERTIES
    CallEnds
CHECK_DEADLOCK FALSE
