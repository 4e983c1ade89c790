SPECIFICATION FairSpec
CONSTANTS
  NoReply = NoReply NoFetch = NoFetch NoTime = NoTime NoOffset = NoOffset
  Files <- SomeFiles
  MaxSample = 4
  MaxSeeks = 1
  MinWindow = 1
  MaxWindow = 4
  Duration = 20
  Height = 360
  Rates = {2, 20}
  Steady = TRUE
  Masters <- SomeMasters
  Variants <- SomeVariants
  Short = 1
  Appetite = 1
  MaxOpens = 2
INVARIANTS TypeOK OneVoice AsArrived SegmentsInOrder
PROPERTIES SampleStreamed InputFlows
CHECK_DEADLOCK FALSE
