\* Claims of the repository that the code does not keep, one at a time: TLC checks
\* the one that is not commented out.
\* The values written behind it take the place of those above.
SPECIFICATION FairSpec
CONSTANTS
  t1 = t1 t2 = t2
  Window = 2
  ReadAhead = 1
  NoReply = NoReply
  NoSeek = NoSeek
  FileSize <- Files
  HeaderSize <- Headers
  DualSession <- TwoDual
  Targets = {t1, t2}
  SegStart <- Starts
  PrebufferN = 0
  MaxSeeks = 0
  MaxReleases = 1
  MaxStops = 1
  Ranged = {TRUE}
INVARIANT CapsFirst
\* INVARIANT AtMostOneFetch
\* INVARIANT EosComplete    \* MaxStops = 0 Ranged = {TRUE, FALSE}
\* INVARIANT MonotonicDts    \* FileSize <- LongFiles DualSession <- OneDual PrebufferN = 2 MaxSeeks = 1
\* INVARIANT SeekReanchors    \* FileSize <- LongFiles DualSession <- OneDual PrebufferN = 2 MaxSeeks = 2
\* PROPERTY EndIsNeverLost    \* FileSize <- OddFiles DualSession <- OneDual PrebufferN = 2 MaxReleases = 0 MaxStops = 0
\* PROPERTY SessionPure    \* DualSession <- DualSingle
\* PROPERTY EosIsLast    \* FileSize <- ShortFiles SegStart <- ShortStarts Targets = {t1} DualSession <- TwoSingle Ranged = {FALSE} ReadAhead = 2 MaxStops = 0
CHECK_DEADLOCK FALSE
