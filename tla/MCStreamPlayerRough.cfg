SPECIFICATION Spec
CONSTANTS
  Kinds = {"single", "dual"}
  Gates <- Ungated
  Seekables = {TRUE}
  Targets = {"0s", "9s"}
  Start = "0s"
  NoSeek = "no"
  Budget <- Rough
  MaxActs = 4
  MaxMail = 1
PROPERTIES StopSticks
CHECK_DEADLOCK FALSE
