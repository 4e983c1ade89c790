---------------------------- MODULE MCMediaPump ----------------------------
(* Small instances of MediaPump for TLC. *)
EXTENDS MediaPump, TLC

CONSTANTS t1, t2

\* A video of three frames behind its header and a shorter audio file.
Files == ("video" :> 4) @@ ("audio" :> 3)
LongFiles == ("video" :> 6) @@ ("audio" :> 3)
OddFiles == ("video" :> 5) @@ ("audio" :> 3)
ShortFiles == ("video" :> 2) @@ ("audio" :> 2)
Headers == ("video" :> 1) @@ ("audio" :> 1)

\* A moov of two windows and four frames behind it.
DeepFiles == ("video" :> 7) @@ ("audio" :> 3)
DeepHeaders == ("video" :> 3) @@ ("audio" :> 1)
DeepStarts == (t1 :> DeepHeaders) @@ (t2 :> (("video" :> 5) @@ ("audio" :> 2)))

\* The start of the file and its middle.
Starts == (t1 :> Headers) @@ (t2 :> (("video" :> 3) @@ ("audio" :> 2)))
ShortStarts == (t1 :> Headers)

OneDual == <<TRUE>>
SingleDual == <<FALSE, TRUE>>
DualSingle == <<TRUE, FALSE>>
TwoSingle == <<FALSE, FALSE>>
TwoDual == <<TRUE, TRUE>>

=============================================================================
