--------------------------- MODULE BufferPlanner ----------------------------
(***************************************************************************)
(* media::BufferPlanner (core/media/bufferplanner.cpp): the sizes a        *)
(* ProgressiveSource fetches by, from the stream's average rate, the       *)
(* measured rate of the network and the height of the picture.  Sizes are  *)
(* in units, rates in tenths of a unit per second, times in milliseconds;  *)
(* where the code has doubles a quotient is rounded down.                  *)
(***************************************************************************)
EXTENDS Integers

CONSTANTS
  MinWindow, MaxWindow    \* kMinWindowBytes, kMaxWindowBytes

ASSUME WindowAssumption == MinWindow \in Nat \ {0} /\ MaxWindow \in Nat /\ MinWindow <= MaxWindow

NoTotal == -1   \* m_totalBytes of a file of unknown length
WindowSec == 12
WindowSecSlow == 6
StartupMs == 3000
StartupMaxMs == 20000
ReadAheadMin == 2
ReadAheadMax == 6

Within(low, n, high) == IF n < low THEN low ELSE IF n > high THEN high ELSE n

\* reset(): the stream and the network are forgotten, the quality hint stays.
Forgotten(plan) == [plan EXCEPT !.total = NoTotal, !.dur = 0, !.net = 0]
NewPlan == [total |-> NoTotal, dur |-> 0, net |-> 0, height |-> 0]

MediaBps(plan) ==
  IF plan.dur > 0 /\ plan.total > 0 THEN (10 * plan.total) \div plan.dur ELSE 0

\* noteFetch(): the running average of the rates of the fetches.
NoteFetch(plan, bytes, rate) ==
  IF bytes = 0 THEN plan
  ELSE [plan EXCEPT !.net = IF @ > 0 THEN (7 * @ + 3 * rate) \div 10 ELSE rate]

WindowBytes(plan) ==
  LET media == MediaBps(plan)
      secs == IF plan.net > 0 /\ plan.net < media THEN WindowSecSlow ELSE WindowSec
  IN IF media = 0 THEN MaxWindow
     ELSE Within(MinWindow, (media * secs) \div 10, MaxWindow)

\* The startup buffer's span: longer as the network trails the stream, or in HD.
StartupSpan(plan) ==
  LET media == MediaBps(plan)
      lagging == IF 3 * media > 2 * plan.net
                 THEN (3 * media * StartupMs) \div (2 * plan.net) ELSE StartupMs
      span == IF plan.height >= 720 THEN (3 * lagging) \div 2 ELSE lagging
  IN Within(0, span, StartupMaxMs)

\* No less than a window, no more than the file; 0 leaves the gate off.
StartupBytes(plan) ==
  LET media == MediaBps(plan)
      wanted == (media * StartupSpan(plan)) \div 10000
      deep == IF wanted < WindowBytes(plan) THEN WindowBytes(plan) ELSE wanted
  IN IF media = 0 \/ plan.net = 0 THEN 0
     ELSE IF deep > plan.total THEN plan.total ELSE deep

BufferedMs(plan, bytes) ==
  IF MediaBps(plan) = 0 THEN 0 ELSE (bytes * 10000) \div MediaBps(plan)

\* Mutant: the depth does not follow the startup buffer.
ReadAheadWindows_Floor(plan) == ReadAheadMin

\* As many windows as the startup buffer takes, within bounds.
ReadAheadWindows(plan) ==
  LET window == WindowBytes(plan)
      startup == StartupBytes(plan)
  IN IF startup = 0 THEN ReadAheadMin
     ELSE Within(ReadAheadMin, (startup + window - 1) \div window, ReadAheadMax)

=============================================================================
