--------------------------- MODULE MCVideoDetails ---------------------------
(* VideoDetails for TLC: two videos of two channels.                       *)
EXTENDS VideoDetails
CONSTANTS v1, v2, ch1, ch2
TwoChannels == [v \in Videos |-> IF v = v1 THEN ch1 ELSE ch2]

Fresh == [like |-> [v \in Videos |-> 0], watchLater |-> {}, subscriptions |-> {}]
OneFresh == {Fresh}
\* The account likes one video and follows the channel of the other.
OneUsed == {[Fresh EXCEPT !.like = [v \in Videos |-> IF v = v1 THEN 1 ELSE 0],
                          !.subscriptions = {ch2}]}
=============================================================================
