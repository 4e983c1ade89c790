--------------------------- MODULE MCStreamPlayer ---------------------------
(* Small instances of StreamPlayer for TLC. *)
EXTENDS StreamPlayer, TLC

None == [a \in Acts |-> 0]
Switching == [None EXCEPT !["play"] = 3, !["pause"] = 1, !["resume"] = 1]
TwoPlays == [None EXCEPT !["play"] = 2]
StopEarly == [None EXCEPT !["play"] = 1, !["stop"] = 1]
Replayed == [None EXCEPT !["play"] = 2, !["stop"] = 1]
Interrupted == [None EXCEPT !["play"] = 1, !["lost"] = 1]
SwitchInterrupted == [None EXCEPT !["play"] = 2, !["lost"] = 1]
SwitchDrained == [None EXCEPT !["play"] = 2, !["buffering"] = 1]
Revoked == [None EXCEPT !["play"] = 1, !["revoke"] = 1]
OneSeek == [None EXCEPT !["play"] = 1, !["seek"] = 1]
SeekFails == [None EXCEPT !["play"] = 2, !["seek"] = 1, !["fail"] = 1]
Minimized == [None EXCEPT !["play"] = 1, !["gl"] = 1]
Rough == [[a \in Acts |-> 1] EXCEPT !["play"] = 2]

Ungated == {{}}
WholeGate == {{}, Lanes}
AllGated == {{"video"}, Lanes}

=============================================================================
