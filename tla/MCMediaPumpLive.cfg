SPECIFICATION FairSpec
CONSTANTS
  t1 = t1 t2 = t2
  Window = 2
  ReadAhead = 1
  NoReply = NoReply
  NoSeek = NoSeek
  FileSize <- DeepFiles
  HeaderSize <- DeepHeaders
  DualSession <- SingleDual
  Targets = {t1, t2}
  SegStart <- DeepStarts
  PrebufferN = 2
  MaxSeeks = 1
  MaxReleases = 1
  MaxStops = 0
  Ranged = {TRUE, FALSE}
INVARIANTS EosComplete
PROPERTIES EveryStreamEnds
CHECK_DEADLOCK FALSE
