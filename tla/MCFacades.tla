----------------------------- MODULE MCFacades ------------------------------
(* Facades for TLC: two of everything, and the streams of a few catalogues.*)
EXTENDS Facades, TLC
CONSTANTS a, b

Track(k, codec, height, bitrate, hasAudio) ==
  [kind |-> k, codec |-> codec, height |-> height, bitrate |-> bitrate, hasAudio |-> hasAudio]
Itags == ("hls" :> Track("hls", "avc1", 0, 0, TRUE) @@
          "18"  :> Track("video", "avc1", 360, 5, TRUE) @@
          "22"  :> Track("video", "avc1", 720, 9, TRUE) @@
          "135" :> Track("video", "avc1", 480, 4, FALSE) @@
          "136" :> Track("video", "avc1", 720, 7, FALSE) @@
          "298" :> Track("video", "avc1", 720, 8, FALSE) @@
          "137" :> Track("video", "avc1", 1080, 9, FALSE) @@
          "398" :> Track("video", "av01", 720, 3, FALSE) @@
          "139" :> Track("audio", "aac", 0, 1, TRUE) @@
          "140" :> Track("audio", "aac", 0, 2, TRUE) @@
          "599" :> Track("audio", "aac", 0, 1, TRUE) @@
          "600" :> Track("audio", "opus", 0, 2, TRUE))
Turned(s) == [k \in DOMAIN s |-> s[Len(s) + 1 - k]]

\* Nothing; the catalogues of an old video, of a new one in either order, and
\* of one without muxed streams and without itag 140.
Catalogues ==
  LET new == <<"hls", "18", "137", "398", "298", "136", "135", "139", "140">>
  IN {<<>>, <<"18", "22", "136", "398", "140", "600", "139">>, new, Turned(new),
      <<"398", "298", "136", "135", "600", "139", "599">>}

\* Fewer requests where each has many outcomes.
Bounds == [k \in Kinds |-> IF k = "streams" THEN 2 ELSE 3]
=============================================================================
