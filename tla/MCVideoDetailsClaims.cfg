\* Claims of the repository that the code does not keep, one at a time: TLC checks
\* the one that is not commented out.  TypeOK holds.
SPECIFICATION Spec
CONSTANTS
  v1 = v1 v2 = v2 ch1 = ch1 ch2 = ch2 NoVideo = NoVideo
  Videos = {v1, v2}
  Channels = {ch1, ch2}
  ChannelOf <- TwoChannels
  Accounts <- OneUsed
  MaxDepth = 2
  MaxLoads = 2
  MaxActs = 2
PROPERTY RevertsToTheTruth
\* PROPERTY RevertsItsOwnChannel
\* INVARIANT RememberedIsSaved
\* INVARIANT PageShowsItsVideo
\* INVARIANT TypeOK
CHECK_DEADLOCK FALSE
