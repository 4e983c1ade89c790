SPECIFICATION Spec
CONSTANTS
  t1 = t1 t2 = t2
  Window = 2
  ReadAhead = 1
  NoReply = NoReply
  NoSeek = NoSeek
  FileSize <- Files
  HeaderSize <- Headers
  DualSession <- TwoDual
  Targets = {t1, t2}
  SegStart <- Starts
  PrebufferN = 2
  MaxSeeks = 1
  MaxReleases = 1
  MaxStops = 1
  Ranged = {TRUE}
INVARIANTS
  TypeOK
PROPERTIES
  SessionPure
  EosIsLast
CHECK_DEADLOCK FALSE
