\* Claims of the repository that the code does not keep, one at a time: TLC checks
\* the one that is not commented out.
\* The values written behind it take the place of those above.
SPECIFICATION FairSpec
CONSTANTS
  NoReply = NoReply NoFetch = NoFetch NoTime = NoTime NoOffset = NoOffset
  Files <- GoodFiles
  MaxSample = 4
  MaxSeeks = 1
  MinWindow = 1
  MaxWindow = 4
  Duration = 20
  Height = 360
  Rates = {2, 20}
  Steady = FALSE
  Masters <- SomeMasters
  Variants <- SomeVariants
  Short = 1
  Appetite = 1
  MaxOpens = 2
PROPERTY InputFlows
\* INVARIANT SamplesInData    \* Files <- BackFiles
\* INVARIANT ClosedIsDead
CHECK_DEADLOCK FALSE
