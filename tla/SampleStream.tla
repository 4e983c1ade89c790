---------------------------- MODULE SampleStream ----------------------------
(***************************************************************************)
(* What media::Fmp4Demuxer promises the pump (core/media/fmp4demux.h): the *)
(* samples of the file from the anchor on, in file order, each once and    *)
(* with the time it has in the file, however the bytes were cut; and an    *)
(* error only where the file has one, behind everything before it.         *)
(***************************************************************************)
EXTENDS Naturals, Sequences

CONSTANTS Promised,   \* the samples of each file from each anchor
          Faulty      \* whether what follows them is unparseable

VARIABLES file, anchor, given, broken

Init == file \in DOMAIN Promised /\ anchor = 0 /\ given = <<>> /\ broken = FALSE

Give ==
  /\ ~broken /\ Len(given) < Len(Promised[file][anchor])
  /\ given' = Append(given, Promised[file][anchor][Len(given) + 1])
  /\ UNCHANGED <<file, anchor, broken>>

Break ==
  /\ Faulty[file][anchor] /\ given = Promised[file][anchor] /\ broken' = TRUE
  /\ UNCHANGED <<file, anchor, given>>

\* A seek starts over from a fragment; an error stays.
Seek ==
  /\ anchor' \in DOMAIN Promised[file] \ {0} /\ given' = <<>>
  /\ UNCHANGED <<file, broken>>

Open == file' \in DOMAIN Promised /\ anchor' = 0 /\ given' = <<>> /\ broken' = FALSE

Spec == Init /\ [][Give \/ Break \/ Seek \/ Open]_<<file, anchor, given, broken>>

=============================================================================
