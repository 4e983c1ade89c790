---------------------------- MODULE ReplyPromise ----------------------------
(***************************************************************************)
(* What a network reply promises the one who asked for it, whatever        *)
(* carries it: it is answered once - one finished(), which its owner hears *)
(* - unless the owner gives it up first (or the thread that carries it is  *)
(* gone), and an open reply does not stay open for ever.                   *)
(***************************************************************************)
CONSTANT Replies

VARIABLE status     \* reply -> "unasked" | "open" | "answered" | "given up"

Init == status = [r \in Replies |-> "unasked"]

Ask(r) == /\ status[r] = "unasked"
          /\ status' = [status EXCEPT ![r] = "open"]

Answer(r) == /\ status[r] = "open"
             /\ status' = [status EXCEPT ![r] = "answered"]

\* One teardown gives up any number of open replies at once.
GiveUp(R) == /\ \A r \in R : status[r] = "open"
             /\ status' = [r \in Replies |-> IF r \in R THEN "given up"
                                             ELSE status[r]]

Next == \/ \E r \in Replies : Ask(r) \/ Answer(r)
        \/ \E R \in SUBSET Replies : R # {} /\ GiveUp(R)

\* The safety half, and the whole promise.
SafeSpec == Init /\ [][Next]_status

Spec == /\ SafeSpec
        /\ \A r \in Replies : WF_status(Answer(r) \/ GiveUp({r}))
=============================================================================
