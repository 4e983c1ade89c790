SPECIFICATION Spec
CONSTANTS
  ann = ann bob = bob Nobody = Nobody Denied = Denied
  Users = {ann, bob}
  Stored = {Nobody}
  MaxFlows = 2
  MaxPages = 1
  MaxLaunches = 1
  Expires = TRUE
INVARIANTS
  TypeOK
  ProfileOfAccount
CHECK_DEADLOCK FALSE
