------------------------------ MODULE Facades -------------------------------
(***************************************************************************)
(* The facades of the user interface over the chains: any one of them, its *)
(* user, the worker and the GUI thread's queue.                            *)
(***************************************************************************)
EXTENDS ListModels, Headers

ASSUME KindsAssumption == Kinds \subseteq ListKinds \cup {"suggest", "channel", "streams"}

Facade(k) == CASE k \in ListKinds -> EmptyList
               [] k = "suggest" -> Silence
               [] k = "channel" -> NoChannel
               [] k = "streams" -> NoStreams

Init ==
  /\ kind \in Kinds /\ signedIn \in BOOLEAN
  /\ self = Facade(kind)
  /\ calls = {} /\ mail = <<>> /\ made = 0 /\ canceled = {} /\ aborts = {}
  /\ offered = {} /\ acts = 0

\* The closure invokeGui() queued: dropped when its token is canceled.
Deliver ==
  \E m \in {mail[i] : i \in DOMAIN mail} :
    /\ Take(m)
    /\ \/ Stale(m) /\ UNCHANGED self /\ Quiet
       \/ ~Stale(m) /\ (ListApplies(m) \/ HeaderApplies(m))

Next == \/ ListActs \/ HeaderActs
        \/ \E c \in calls : Reply(c)
        \/ \E j \in aborts : Abort(j)
        \/ Deliver

Spec == Init /\ [][Next]_vars

\* The transport answers whatever it was not told to abort (at the latest when
\* its deadline passes), and the event loops run what is queued.
FairSpec == Spec /\ WF_vars(\E c \in calls : Reply(c)) /\ WF_vars(Deliver)

-----------------------------------------------------------------------------
TypeOK ==
  /\ kind \in Kinds /\ signedIn \in BOOLEAN
  /\ made \in Nat /\ canceled \subseteq 1..made /\ aborts \subseteq canceled
  /\ acts \in 0..MaxActs[kind]
  /\ \A c \in calls : c.job \in 1..made
  /\ \A i \in DOMAIN mail : mail[i].call.job \in 1..made
  /\ ListOK /\ HeaderOK

\* What a page shows is of what was asked of its object last, whatever of the
\* page before is still on its way: rows, suggestions, a header, streams
\* (the objects are reused by videoapi.cpp, channelapi.cpp, playlistapi.cpp).
ShowsTheAsked ==
  RowsOfTheAsked /\ SuggestionsOfTheQuery /\ HeaderOfTheAsked /\ CatalogOfTheAsked

\* Whatever is loading comes to an end: in rows, in an error, or because the
\* user asks for something else (every chain and every delivery).
LoadEnds == kind # "suggest" /\ self.status = "Loading"
              ~> kind # "suggest" /\ self.status # "Loading"
=============================================================================
