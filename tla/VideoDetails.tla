---------------------------- MODULE VideoDetails ----------------------------
(***************************************************************************)
(* VideoDetails (core/innertube/videodetails.cpp): the one object behind   *)
(* every video page, with its optimistic like, Watch Later and subscribe   *)
(* actions, each under a job token of its own; the stack of pages that     *)
(* share it (VideoPage.qml); and the account's state at the server.        *)
(*                                                                         *)
(* GUI handlers are atomic.  The server serves the requests in flight in   *)
(* any order: they travel on connections of their own.  A request that     *)
(* fails was not carried out.  The user is signed in throughout.           *)
(***************************************************************************)
EXTENDS Integers, Sequences, FiniteSets

CONSTANTS
  Videos,
  NoVideo,     \* m_primary.id is empty; no votes
  Channels,
  ChannelOf,   \* the channel of a video
  Accounts,    \* the account's states at the server to start from
  MaxDepth,    \* bound: pages on the stack
  MaxLoads,    \* bound: load() calls
  MaxActs      \* bound: presses of a button

Likes == 0..2      \* 0 indifferent, 1 liked, 2 disliked
AccountStates == [like : [Videos -> Likes], watchLater : SUBSET Videos,
                  subscriptions : SUBSET Channels]

ASSUME DetailsAssumption ==
  /\ NoVideo \notin Videos /\ ChannelOf \in [Videos -> Channels]
  /\ Accounts \subseteq AccountStates
  /\ {MaxDepth, MaxLoads, MaxActs} \subseteq Nat

VARIABLES
  stack,    \* the videos of the pages, top first
  asked,    \* the video of the last load()
  primary,  \* m_primary: id, likeStatus, likeCount, subscribed
  votes,    \* m_dislikeCount: the video it is about
  status,   \* m_status
  saved,    \* m_saved
  remembered,\* m_sessionSaved
  jobs,     \* m_job, m_actionJob, m_saveJob, m_subJob
  calls,    \* requests in flight, and failures on their way to the GUI
  server,   \* like, Watch Later and subscription state of the account
  acts      \* buttons pressed so far

page == <<asked, primary, votes, status, saved, remembered>>
vars == <<stack, page, jobs, calls, server, acts>>

Tokens == {"load", "action", "save", "sub"}
NoCount == -1
Others == 1        \* the likes of everybody else

\* Each kind of request and the token its delivery is gated by.
TokenOf == [watch |-> "load", votes |-> "load", like |-> "action",
            save |-> "save", sub |-> "sub"]

Blank == [id |-> NoVideo, like |-> 0, likes |-> NoCount, subscribed |-> FALSE]

\* What /next says about a video: the account's state at that moment.
Watch(v) == [id |-> v, like |-> server.like[v],
             likes |-> Others + (IF server.like[v] = 1 THEN 1 ELSE 0),
             subscribed |-> ChannelOf[v] \in server.subscriptions]

Kill(t) == [jobs EXCEPT ![t].live = FALSE]
Renew(t) == [jobs EXCEPT ![t] = [n |-> @.n + 1, live |-> TRUE]]
\* Mutant: Deliveries that do not look at their token.
LiveCall_Always(c) == c.kind \in DOMAIN TokenOf

LiveCall(c) == jobs[TokenOf[c.kind]] = [n |-> c.n, live |-> TRUE]

\* A write carries the state its failure puts back.
Call(kind, v, want) ==
  [kind |-> kind, n |-> jobs[TokenOf[kind]].n + 1, video |-> v, want |-> want,
   before |-> primary, answer |-> "waiting"]

Init ==
  /\ stack = <<>> /\ asked = NoVideo /\ primary = Blank /\ votes = NoVideo
  /\ status = "Null" /\ saved = FALSE /\ remembered = {}
  /\ jobs = [t \in Tokens |-> [n |-> 0, live |-> FALSE]]
  /\ calls = {} /\ acts = 0
  /\ server \in Accounts

-----------------------------------------------------------------------------
(* Pages.                                                                  *)

\* Mutant: cancelJob() that leaves the like's token.
CancelJobs_KeepAction == [jobs EXCEPT !["save"].live = FALSE,
                                      !["load"] = [n |-> @.n + 1, live |-> TRUE]]

\* cancelJob(), without the subscribe token, and the new load's token.
CancelJobs == [jobs EXCEPT !["action"].live = FALSE, !["save"].live = FALSE,
                           !["load"] = [n |-> @.n + 1, live |-> TRUE]]

LoadVideo(v) ==
  /\ asked' = v /\ primary' = Blank /\ votes' = NoVideo
  /\ saved' = (v \in remembered)
  /\ status' = "Loading"
  /\ jobs' = CancelJobs
  /\ calls' = calls \cup {Call("watch", v, 0), Call("votes", v, 0)}
  /\ UNCHANGED remembered

OpenVideo(v) ==
  /\ Len(stack) < MaxDepth /\ jobs["load"].n < MaxLoads
  /\ stack' = <<v>> \o stack
  /\ LoadVideo(v)
  /\ UNCHANGED <<server, acts>>

Back ==
  /\ stack # <<>> /\ stack' = Tail(stack)
  /\ UNCHANGED <<page, jobs, calls, server, acts>>

-----------------------------------------------------------------------------
(* Buttons: the page's overlay covers them while it loads.                 *)
Press ==
  /\ stack # <<>> /\ status # "Loading"
  /\ acts < MaxActs /\ acts' = acts + 1
  /\ UNCHANGED <<stack, server>>

\* Mutant: A dislike that takes one off the count whatever the state was.
Moved_Always(to) ==
  [primary EXCEPT !.like = to, !.likes = IF @ < 0 THEN @ ELSE @ + (IF to = 1 THEN 1 ELSE -1)]

Moved(to) ==
  [primary EXCEPT !.like = to,
     !.likes = IF @ < 0 THEN @
               ELSE @ + (IF to = 1 THEN 1 ELSE 0) - (IF primary.like = 1 THEN 1 ELSE 0)]

ApplyLike(to) ==
  /\ Press
  /\ primary.like # to
  /\ primary' = Moved(to)
  /\ calls' = calls \cup {Call("like", primary.id, to)}
  /\ jobs' = Renew("action")
  /\ UNCHANGED <<asked, votes, status, saved, remembered>>

Like == ApplyLike(IF primary.like = 1 THEN 0 ELSE 1)
Dislike == ApplyLike(IF primary.like = 2 THEN 0 ELSE 2)

SaveToWatchLater ==
  /\ Press
  /\ ~saved /\ saved' = TRUE
  /\ remembered' = remembered \cup {primary.id}
  /\ calls' = calls \cup {Call("save", primary.id, 1)}
  /\ jobs' = Renew("save")
  /\ UNCHANGED <<asked, primary, votes, status>>

\* Its request changes nothing here but the token it takes over.
AddToPlaylist ==
  /\ Press
  /\ jobs' = Renew("save")
  /\ UNCHANGED <<page, calls>>

ApplySubscribe ==
  /\ Press
  /\ primary' = [primary EXCEPT !.subscribed = ~@]
  /\ calls' = calls \cup {Call("sub", primary.id, IF primary.subscribed THEN 0 ELSE 1)}
  /\ jobs' = Renew("sub")
  /\ UNCHANGED <<asked, votes, status, saved, remembered>>

-----------------------------------------------------------------------------
(* The server.                                                             *)
Carry(c) ==
  CASE c.kind = "like" -> [server EXCEPT !.like[c.video] = c.want]
    [] c.kind = "save" -> [server EXCEPT !.watchLater = @ \cup {c.video}]
    [] c.kind = "sub" -> [server EXCEPT !.subscriptions =
                            IF c.want = 1 THEN @ \cup {ChannelOf[c.video]}
                            ELSE @ \ {ChannelOf[c.video]}]
    [] OTHER -> server

\* The reply to a write that succeeds ends there, on the worker.
Serve(c) ==
  /\ c.answer = "waiting" /\ c.video # NoVideo
  /\ server' = Carry(c)
  /\ calls' = (calls \ {c}) \cup
       (IF c.kind \in {"watch", "votes"}
        THEN {[c EXCEPT !.answer = "ok", !.before = Watch(c.video)]} ELSE {})
  /\ UNCHANGED <<stack, page, jobs, acts>>

Refuse(c) ==
  /\ c.answer = "waiting"
  /\ calls' = (calls \ {c}) \cup {[c EXCEPT !.answer = "failed"]}
  /\ UNCHANGED <<stack, page, jobs, server, acts>>

-----------------------------------------------------------------------------
(* Deliveries on the GUI thread.                                           *)
ApplyWatch(c) ==
  /\ c.kind = "watch"
  /\ \/ c.answer = "failed" /\ status' = "Failed" /\ UNCHANGED primary
     \/ c.answer = "ok" /\ status' = "Ready" /\ primary' = c.before
  /\ UNCHANGED <<asked, votes, saved, remembered>>

ApplyDislikes(c) ==
  /\ c.kind = "votes"
  /\ votes' = IF c.answer = "ok" THEN c.video ELSE votes
  /\ UNCHANGED <<asked, primary, status, saved, remembered>>

\* Mutant: A revert that forgets the count.
RevertLike_NoCount(c) ==
  /\ c.kind = "like"
  /\ primary' = [primary EXCEPT !.like = c.before.like]
  /\ UNCHANGED <<asked, votes, status, saved, remembered>>

RevertLike(c) ==
  /\ c.kind = "like"
  /\ primary' = [primary EXCEPT !.like = c.before.like, !.likes = c.before.likes]
  /\ UNCHANGED <<asked, votes, status, saved, remembered>>

\* Mutant: A failed save that only corrects the button.
RevertSave_KeepMemory(c) ==
  /\ c.kind = "save"
  /\ saved' = FALSE
  /\ UNCHANGED <<asked, primary, votes, status, remembered>>

RevertSave(c) ==
  /\ c.kind = "save"
  /\ saved' = FALSE /\ remembered' = remembered \ {c.video}
  /\ UNCHANGED <<asked, primary, votes, status>>

RevertSubscribe(c) ==
  /\ c.kind = "sub"
  /\ primary' = [primary EXCEPT !.subscribed = c.before.subscribed]
  /\ UNCHANGED <<asked, votes, status, saved, remembered>>

Deliver(c) ==
  /\ c.answer # "waiting" /\ calls' = calls \ {c}
  /\ \/ ~LiveCall(c) /\ UNCHANGED page
     \/ /\ LiveCall(c)
        /\ \/ ApplyWatch(c) \/ ApplyDislikes(c) \/ RevertLike(c)
           \/ RevertSave(c) \/ RevertSubscribe(c)
  /\ UNCHANGED <<stack, jobs, server, acts>>

-----------------------------------------------------------------------------
Buttons == Like \/ Dislike \/ SaveToWatchLater \/ AddToPlaylist \/ ApplySubscribe
Next == \/ \E v \in Videos : OpenVideo(v)
        \/ Back \/ Buttons
        \/ \E c \in calls : Serve(c) \/ Refuse(c) \/ Deliver(c)

Spec == Init /\ [][Next]_vars

-----------------------------------------------------------------------------
Details == [id : Videos \cup {NoVideo}, like : Likes, likes : {NoCount, Others, Others + 1},
            subscribed : BOOLEAN]

TypeOK ==
  /\ stack \in Seq(Videos) /\ asked \in Videos \cup {NoVideo}
  /\ primary \in Details /\ votes \in Videos \cup {NoVideo}
  /\ status \in {"Null", "Loading", "Ready", "Failed"}
  /\ saved \in BOOLEAN /\ remembered \subseteq Videos \cup {NoVideo}
  /\ jobs \in [Tokens -> [n : Nat, live : BOOLEAN]]
  /\ calls \subseteq [kind : DOMAIN TokenOf, n : Nat, video : Videos \cup {NoVideo},
                      want : Likes, before : Details, answer : {"waiting", "ok", "failed"}]
  /\ server \in AccountStates
  /\ acts \in 0..MaxActs

\* What the object holds is of the video last asked for, whatever answers to
\* earlier loads are still on their way (load, cancelJob).
OfTheAsked == primary.id \in {NoVideo, asked} /\ votes \in {NoVideo, asked}

\* The buttons agree with what lies behind them: the like count with the like
\* state, after any overlap of optimistic moves, reverts, superseded reverts and
\* loads (applyLike, fireGuarded), and Save with what the session remembers of
\* this very video, after failed saves and returns to it (saveToWatchLater).
CountFollowsLike == primary.likes = Others + (IF primary.like = 1 THEN 1 ELSE 0)
SavedIsRemembered == saved <=> primary.id \in remembered
ButtonsTellTheState == primary.id # NoVideo => CountFollowsLike /\ SavedIsRemembered

\* A like that fails moves the like state of its own video and no other's.
RevertsItsOwnLike ==
  [][\A c \in calls \ calls' :
       c.kind = "like" /\ c.answer = "failed" /\ primary' # primary => primary.id = c.video]_vars

-----------------------------------------------------------------------------
(* What comments and headers say and the code does not do.                 *)

\* "reverts on failure" (videodetails.h, like): with no other like on its way,
\* a revert shows what the account has.
RevertsToTheTruth ==
  [][\A c \in calls \ calls' :
       /\ c.kind = "like" /\ c.answer = "failed" /\ LiveCall(c)
       /\ \A d \in calls' : d.kind # "like"
       /\ primary.id \in Videos
       => primary'.like = server.like[primary.id]]_vars

\* "Viewer's subscribe state for this video's channel" (videodetails.h): a
\* failed subscription reverts the state of its own channel.
RevertsItsOwnChannel ==
  [][\A c \in calls \ calls' :
       c.kind = "sub" /\ c.answer = "failed" /\ primary' # primary /\ primary.id # NoVideo
       => c.video # NoVideo /\ ChannelOf[primary.id] = ChannelOf[c.video]]_vars

\* "save failed -> forget it" (videodetails.cpp): once every save is answered,
\* what the session remembers as saved is saved.
RememberedIsSaved ==
  (\A c \in calls : c.kind # "save") => remembered \subseteq server.watchLater

\* "re-entry restores Saved" (videodetails.cpp): a page the user comes back to
\* shows, and its buttons act on, its own video.
PageShowsItsVideo == stack # <<>> => asked = Head(stack)

=============================================================================
