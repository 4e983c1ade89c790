------------------------------- MODULE Chains -------------------------------
(***************************************************************************)
(* What stands between a facade (a QObject of the GUI thread: a list       *)
(* model, ChannelDetails, StreamSet, SearchSuggest) and the server: its    *)
(* job tokens, the chains of core/chains.cpp on the worker, and the        *)
(* closures that bring their outcomes to the GUI thread.                   *)
(*                                                                         *)
(* The facades share nothing but the two event queues, so one of them is   *)
(* followed at a time: kind says which, self holds its members.  GUI       *)
(* handlers are atomic; replies come in any order; invokeGui() is a FIFO.  *)
(* The transport under the chains answers every request it does not abort  *)
(* exactly once (RequestService).                                          *)
(***************************************************************************)
EXTENDS Integers, Sequences, FiniteSets

CONSTANTS
  Nothing,   \* an empty string: no id, no token
  Kinds,     \* the facades to follow
  Offers,    \* what a /player reply may list: sequences of streams
  LastPage,  \* bound: pages of a feed
  MaxActs    \* bound: what the user asks of each kind of facade

ASSUME ChainsAssumption == /\ LastPage \in Nat \ {0} /\ MaxActs \in [Kinds -> Nat]
                           /\ <<>> \in Offers

VARIABLES
  kind,      \* which facade is followed
  signedIn,  \* whether AccountManager has an account and the session a bearer
  self,      \* the facade's members
  calls,     \* requests in flight: operation, token, what about, argument
  mail,      \* closures on their way to the GUI thread: call and outcome
  made,      \* newJob() calls
  canceled,  \* tokens whose flag is set
  aborts,    \* tokens the worker has yet to abort()
  offered,   \* history: what the clients offered to the loads not canceled
  acts       \* what the user asked so far

world == <<calls, mail, made, canceled, aborts>>
vars == <<kind, signedIn, self, world, offered, acts>>

NoJob == 0
NoPage == 0
Live(j) == j \notin canceled
NotOk == [ok |-> FALSE]

\* The user asks something of the facade.
Act(k) == /\ kind = k /\ acts < MaxActs[kind] /\ acts' = acts + 1
          /\ UNCHANGED <<kind, signedIn, mail, offered>>

\* Mutant: cancelJob() that only has the request aborted.
CancelJob_NoFlag(job, others) ==
  /\ UNCHANGED canceled
  /\ aborts' = aborts \cup ({job} \ {NoJob})

\* cancelJob(): the flags are set at once, the worker aborts the load later.
CancelJob(job, others) ==
  /\ canceled' = canceled \cup ((others \cup {job}) \ {NoJob})
  /\ aborts' = aborts \cup ({job} \ {NoJob})

\* newJob() and invoke(): a chain starts on the worker.
NewJob == made + 1
Ask(op, about, arg) ==
  /\ made' = NewJob
  /\ calls' = calls \cup {[op |-> op, job |-> NewJob, about |-> about, arg |-> arg]}

-----------------------------------------------------------------------------
(* The chains: what follows a reply.                                       *)
Report(c, out) == calls' = calls \ {c} /\ mail' = Append(mail, [call |-> c, out |-> out])
End(c) == calls' = calls \ {c} /\ UNCHANGED mail
\* "canceled between steps - stop here"
GoOn(c, arg) == /\ calls' = (calls \ {c}) \cup (IF Live(c.job) THEN {[c EXCEPT !.arg = arg]} ELSE {})
                /\ UNCHANGED mail

RowOf(c, n) == [of |-> c.about, n |-> n, by |-> NoJob]
NextOf(n) == IF n < LastPage THEN n + 1 ELSE NoPage

\* A page of videos or playlists, perhaps an empty one.
fetchVideoList(c) ==
  /\ c.op = "videos"
  /\ \/ Report(c, NotOk)
     \/ \E rows \in {<<>>, <<RowOf(c, c.arg)>>} :
          Report(c, [ok |-> TRUE, rows |-> rows, next |-> NextOf(c.arg)])

fetchPlaylists(c) ==
  /\ c.op = "playlists"
  /\ \/ Report(c, NotOk)
     \/ \E rows \in {<<>>, <<RowOf(c, c.arg)>>} :
          Report(c, [ok |-> TRUE, rows |-> rows, next |-> NextOf(c.arg)])

\* Channels, and a continuation that nobody fetches.
fetchChannelList(c) ==
  /\ c.op = "channels"
  /\ \/ Report(c, NotOk)
     \/ Report(c, [ok |-> TRUE, rows |-> <<RowOf(c, 1), RowOf(c, 2)>>, next |-> NextOf(1)])

\* First the token of the comments panel, which a video without comments does
\* not have; then pages, the first of which may carry the box's token.
fetchComments(c) ==
  /\ c.op = "comments"
  /\ \/ Report(c, NotOk)
     \/ /\ c.arg = NoPage
        /\ \/ GoOn(c, 1)
           \/ Report(c, [ok |-> TRUE, rows |-> <<>>, next |-> NoPage,
                         params |-> Nothing, disabled |-> TRUE])
     \/ /\ c.arg # NoPage
        /\ \E rows \in {<<>>, <<RowOf(c, c.arg)>>}, params \in {Nothing, c.about} :
             Report(c, [ok |-> TRUE, rows |-> rows, next |-> NextOf(c.arg),
                        params |-> params, disabled |-> FALSE])

\* The writes: only a failure is news, and none for ChannelModel::unsubscribe.
submitAction(c) == c.op \in {"follow", "unfollow"} /\ (End(c) \/ Report(c, NotOk))
postComment(c) == c.op = "post" /\ (End(c) \/ Report(c, NotOk))
dropSubscription(c) == c.op = "drop" /\ End(c)

fetchChannelById(c) ==
  c.op = "channel" /\ (Report(c, NotOk) \/ Report(c, [ok |-> TRUE, id |-> c.about]))
fetchChannelSubscribed(c) ==
  /\ c.op = "check"
  /\ \/ End(c)
     \/ \E s \in BOOLEAN : Report(c, [ok |-> TRUE, subscribed |-> s])
fetchSearchSuggestions(c) ==
  c.op = "suggest" /\ (Report(c, NotOk) \/ Report(c, [ok |-> TRUE, results |-> c.about]))

\* The clients fetchPlayer() tries, in order: only TVHTML5 carries the bearer.
Ladder == (IF signedIn THEN <<"TVHTML5">> ELSE <<>>) \o <<"ANDROID_VR", "IOS">>

\* Mutant: The first reply decides about the captions, empty or not.
Captions_FirstReply(c, a) ==
  IF c.arg.left # Ladder THEN c.arg.captions
  ELSE IF a.captions THEN Head(Ladder) ELSE Nothing

\* The first reply that has captions gives them.
Captions(c, a) == IF c.arg.captions = Nothing /\ a.captions THEN Head(c.arg.left)
                  ELSE c.arg.captions

\* playerTry(): streams end the walk, a failure or a reply without any goes on.
playerTry(c) ==
  /\ c.op = "player"
  /\ \E a \in [streams : Offers, captions : BOOLEAN] :
       LET captions == Captions(c, a)  last == Len(c.arg.left) = 1
       IN /\ offered' = {o \in offered : Live(o.job)} \cup
                          {[job |-> c.job, streams |-> a.streams # <<>>, captions |-> a.captions]}
          /\ \/ a.streams # <<>> /\ Report(c, [ok |-> TRUE, streams |-> a.streams,
                                               captions |-> captions])
             \/ a.streams = <<>> /\ last /\ Report(c, NotOk)
             \/ a.streams = <<>> /\ ~last
                /\ GoOn(c, [left |-> Tail(c.arg.left), captions |-> captions])

Reply(c) ==
  /\ \/ playerTry(c)
     \/ /\ UNCHANGED offered
        /\ \/ fetchVideoList(c) \/ fetchPlaylists(c) \/ fetchChannelList(c)
           \/ fetchComments(c) \/ submitAction(c) \/ postComment(c)
           \/ dropSubscription(c) \/ fetchChannelById(c)
           \/ fetchChannelSubscribed(c) \/ fetchSearchSuggestions(c)
  /\ UNCHANGED <<kind, signedIn, self, made, canceled, aborts, acts>>

Abort(j) ==
  /\ aborts' = aborts \ {j} /\ calls' = {c \in calls : c.job # j}
  /\ UNCHANGED <<kind, signedIn, self, mail, made, canceled, offered, acts>>

\* The GUI thread takes a closure; "canceled or facade destroyed" is asked first.
Take(m) == /\ mail # <<>> /\ m = Head(mail) /\ mail' = Tail(mail)
           /\ UNCHANGED <<kind, signedIn, offered, acts>>
Stale(m) == ~Live(m.call.job)
Quiet == UNCHANGED <<calls, made, canceled, aborts>>
=============================================================================
