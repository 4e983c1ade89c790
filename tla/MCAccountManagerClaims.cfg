\* Claims of the repository that the code does not keep, one at a time: TLC checks
\* the one that is not commented out.
\* The values written behind it take the place of those above.
SPECIFICATION FairSpec
CONSTANTS
  ann = ann bob = bob Nobody = Nobody Denied = Denied
  Users = {ann, bob}
  Stored = {Nobody}
  MaxFlows = 3
  MaxPages = 0
  MaxLaunches = 1
  Expires = FALSE
PROPERTY EndsByItsOwnCode
\* INVARIANT OnePollPerInterval
\* INVARIANT BearerOfAccount    \* Stored = {ann} MaxFlows = 0
\* INVARIANT HeaderOfAccount    \* Stored = {ann} MaxFlows = 1
\* PROPERTY MintedOnDemand    \* Stored = {ann} MaxFlows = 0 Expires = TRUE
CHECK_DEADLOCK FALSE
