\* Claims of the repository that the code does not keep, one at a time: TLC checks
\* the one that is not commented out.
\* The values written behind it take the place of those above.
SPECIFICATION FairSpec
CONSTANTS
  Kinds = {"dual"}
  Gates <- Ungated
  Seekables = {FALSE}
  Targets = {"0s", "9s"}
  Start = "0s"
  NoSeek = "no"
  Budget <- Interrupted
  MaxActs = 5
  MaxMail = 2
INVARIANT OnlyWhenGranted
\* INVARIANT PlayingPlays
\* INVARIANT OnlyWhenGranted    \* Kinds = {"single"} Budget <- StopEarly
\* INVARIANT GateHoldsClock    \* Kinds = {"single"} Gates <- AllGated Seekables = {TRUE} Budget <- OneSeek
\* PROPERTY SwitchSparesPreroll    \* Kinds = {"single"} Budget <- SwitchInterrupted
\* PROPERTY SwitchSparesPreroll    \* Kinds = {"single"} Budget <- SwitchDrained
\* INVARIANT StoppedFetchesNothing    \* Budget <- Revoked
\* INVARIANT PhaseFits    \* Kinds = {"single", "dual"} Budget <- TwoPlays
\* INVARIANT OwnPipeline    \* Kinds = {"single"} Budget <- Replayed
\* PROPERTY StaysStopped    \* Kinds = {"single"} Budget <- StopEarly
\* INVARIANT RestoreIsOwn    \* Kinds = {"single"} Seekables = {TRUE} Budget <- SeekFails
\* PROPERTY SpinnerEnds    \* Seekables = {TRUE} Budget <- OneSeek
\* PROPERTY SpinnerEnds    \* Kinds = {"single"} Budget <- Minimized
CHECK_DEADLOCK FALSE
