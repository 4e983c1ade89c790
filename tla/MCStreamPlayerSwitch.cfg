SPECIFICATION FairSpec
CONSTANTS
  Kinds = {"single", "dual"}
  Gates <- WholeGate
  Seekables = {FALSE}
  Targets = {"0s", "9s"}
  Start = "0s"
  NoSeek = "no"
  Budget <- Switching
  MaxActs = 4
  MaxMail = 2
INVARIANTS TypeOK OwnPipeline
PROPERTIES
  SwitchSparesPreroll
  SpinnerEnds
CHECK_DEADLOCK FALSE
