SPECIFICATION FairSpec
CONSTANTS
  a = a b = b
  Replies = {a, b}
  BodySize <- Sizes
  MaxBody = 1
  Others = {"media"}
  MaxPosts = 1
INVARIANTS
  HostTypeOK
  NoDangling
  WholeOrError
  OrderlyTeardown
PROPERTIES
  PromiseKept
  TeardownEnds
CHECK_DEADLOCK FALSE
