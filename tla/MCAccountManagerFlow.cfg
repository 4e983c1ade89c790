SPECIFICATION FairSpec
CONSTANTS
  ann = ann bob = bob Nobody = Nobody Denied = Denied
  Users = {ann, bob}
  Stored = {Nobody}
  MaxFlows = 2
  MaxPages = 0
  MaxLaunches = 2
  Expires = FALSE
PROPERTIES
  NobodyBehindTheSheet
  SignInEnds
CHECK_DEADLOCK FALSE
