--------------------------- MODULE RequestService ---------------------------
(***************************************************************************)
(* What the transport promises its callers (core/core/http.h): a request   *)
(* of a job that is not canceled is answered at most once, and only after  *)
(* it was made; once its job is canceled it need not be answered at all.   *)
(***************************************************************************)
EXTENDS Naturals

CONSTANTS Calls, Jobs, JobOf

VARIABLES issued, canceled, answers

svars == <<issued, canceled, answers>>

Init ==
  /\ issued = {}
  /\ canceled = {}
  /\ answers = [c \in Calls |-> 0]

Request(c) ==
  /\ c \notin issued
  /\ issued' = issued \cup {c}
  /\ UNCHANGED <<canceled, answers>>

Cancel(j) ==
  /\ canceled' = canceled \cup {j}
  /\ UNCHANGED <<issued, answers>>

Answer(c) ==
  /\ c \in issued
  /\ JobOf[c] \notin canceled
  /\ answers[c] = 0
  /\ answers' = [answers EXCEPT ![c] = 1]
  /\ UNCHANGED <<issued, canceled>>

Next ==
  \/ \E c \in Calls : Request(c) \/ Answer(c)
  \/ \E j \in Jobs : Cancel(j)

Spec == Init /\ [][Next]_svars

=============================================================================
