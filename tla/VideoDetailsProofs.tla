------------------------- MODULE VideoDetailsProofs -------------------------
(***************************************************************************)
(* Proofs about VideoDetails (core/innertube/videodetails.cpp): whatever   *)
(* answers to earlier loads and to superseded writes are still on their    *)
(* way, the object tells of the video asked for last, its buttons agree    *)
(* with what lies behind them, and a failed like moves its own video.      *)
(***************************************************************************)
EXTENDS VideoDetails, SequenceTheorems, TLAPS

\* The count of likes goes with the like state, and is absent without a video.
WellCounted(d) ==
  d.likes = IF d.id = NoVideo THEN NoCount ELSE Others + (IF d.like = 1 THEN 1 ELSE 0)

\* A request in flight, and what it is about as long as its token lets it in.
CallOK(c) ==
  /\ c.n \in 1..jobs[TokenOf[c.kind]].n
  /\ WellCounted(c.before)
  /\ c.kind \in {"watch", "votes"} => c.video \in Videos
  /\ c.kind = "watch" /\ c.answer = "ok" => c.before.id = c.video
  /\ LiveCall(c) =>
       /\ c.kind \in {"watch", "votes"} => c.video = asked
       /\ c.kind = "watch" => status = "Loading"
       /\ c.kind \in {"like", "save"} => c.video = primary.id
       /\ c.kind = "like" => c.before.id = primary.id

CallsInv ==
  /\ \A c \in calls : CallOK(c)
  /\ \A c, d \in calls :
       c.kind = "watch" /\ d.kind = "watch" /\ LiveCall(c) /\ LiveCall(d) => c = d

\* While a page loads nothing is shown and no write of the page before can
\* come back; the Save button already shows what the session remembers.
PageInv ==
  /\ WellCounted(primary) /\ OfTheAsked
  /\ status = "Loading" =>
       primary.id = NoVideo /\ ~jobs["action"].live /\ ~jobs["save"].live
  /\ primary.id # NoVideo \/ status = "Loading" => (saved <=> asked \in remembered)

DetailsInv == TypeOK /\ CallsInv /\ PageInv

-----------------------------------------------------------------------------
(* Types                                                                   *)

Requests == [kind : DOMAIN TokenOf, n : Nat, video : Videos \cup {NoVideo},
             want : Likes, before : Details, answer : {"waiting", "ok", "failed"}]

LEMMA Kinds ==
  /\ DOMAIN TokenOf = {"watch", "votes", "like", "save", "sub"}
  /\ TokenOf["watch"] = "load" /\ TokenOf["votes"] = "load" /\ TokenOf["like"] = "action"
  /\ TokenOf["save"] = "save" /\ TokenOf["sub"] = "sub"
  /\ \A k \in DOMAIN TokenOf : TokenOf[k] \in Tokens
BY DEF TokenOf, Tokens

LEMMA CallType ==
  ASSUME TypeOK, NEW kind \in DOMAIN TokenOf, NEW v \in Videos \cup {NoVideo},
         NEW want \in Likes
  PROVE  /\ Call(kind, v, want) \in Requests
         /\ Call(kind, v, want).kind = kind /\ Call(kind, v, want).video = v
         /\ Call(kind, v, want).before = primary
         /\ Call(kind, v, want).answer = "waiting"
         /\ Call(kind, v, want).n = jobs[TokenOf[kind]].n + 1
<1>1. TokenOf[kind] \in Tokens
  BY Kinds
<1>2. jobs[TokenOf[kind]].n + 1 \in Nat
  BY <1>1 DEF TypeOK
<1> QED BY <1>2 DEF Call, TypeOK, Requests

LEMMA BlankType == Blank \in Details /\ WellCounted(Blank) /\ Blank.id = NoVideo
BY DEF Blank, Details, Likes, NoCount, WellCounted

LEMMA WatchType ==
  ASSUME TypeOK, NEW v \in Videos
  PROVE  Watch(v) \in Details /\ WellCounted(Watch(v)) /\ Watch(v).id = v
<1>1. server.like[v] \in Likes
  BY DEF TypeOK, AccountStates
<1>2. v # NoVideo
  BY DetailsAssumption
<1> QED BY <1>1, <1>2 DEF Watch, Details, Likes, NoCount, Others, WellCounted

\* A token taken over, and a token that dies.
LEMMA RenewType ==
  ASSUME TypeOK, NEW t \in Tokens
  PROVE  /\ Renew(t) \in [Tokens -> [n : Nat, live : BOOLEAN]]
         /\ Renew(t)[t].n = jobs[t].n + 1
         /\ \A u \in Tokens \ {t} : Renew(t)[u] = jobs[u]
<1> DEFINE job == [n |-> jobs[t].n + 1, live |-> TRUE]
<1>1. job \in [n : Nat, live : BOOLEAN] /\ job.n = jobs[t].n + 1
  BY DEF TypeOK
<1>2. Renew(t) = [jobs EXCEPT ![t] = job]
  BY DEF Renew
<1> HIDE DEF job
<1> QED BY <1>1, <1>2 DEF TypeOK

LEMMA CancelType ==
  ASSUME TypeOK
  PROVE  /\ CancelJobs \in [Tokens -> [n : Nat, live : BOOLEAN]]
         /\ CancelJobs["load"].n = jobs["load"].n + 1
         /\ ~CancelJobs["action"].live /\ CancelJobs["action"].n = jobs["action"].n
         /\ ~CancelJobs["save"].live /\ CancelJobs["save"].n = jobs["save"].n
         /\ CancelJobs["sub"] = jobs["sub"]
<1> DEFINE job == [n |-> jobs["load"].n + 1, live |-> TRUE]
           action == [jobs["action"] EXCEPT !.live = FALSE]
           save == [jobs["save"] EXCEPT !.live = FALSE]
<1>1. \A t \in Tokens : jobs[t] \in [n : Nat, live : BOOLEAN]
  BY DEF TypeOK
<1>2. job \in [n : Nat, live : BOOLEAN] /\ job.n = jobs["load"].n + 1
  BY <1>1 DEF Tokens
<1>3. action \in [n : Nat, live : BOOLEAN] /\ ~action.live /\ action.n = jobs["action"].n
  BY <1>1 DEF Tokens
<1>4. save \in [n : Nat, live : BOOLEAN] /\ ~save.live /\ save.n = jobs["save"].n
  BY <1>1 DEF Tokens
<1>5. CancelJobs = [jobs EXCEPT !["action"] = action, !["save"] = save, !["load"] = job]
  BY DEF CancelJobs, TypeOK, Tokens
<1> HIDE DEF job, action, save
<1> QED BY <1>2, <1>3, <1>4, <1>5 DEF TypeOK, Tokens

\* The fields of a request in flight.
LEMMA RequestFields ==
  ASSUME TypeOK, NEW c \in calls
  PROVE  /\ c \in Requests /\ c.kind \in DOMAIN TokenOf /\ c.n \in Nat
         /\ c.video \in Videos \cup {NoVideo} /\ c.want \in Likes /\ c.before \in Details
         /\ TokenOf[c.kind] \in Tokens
BY Kinds DEF TypeOK, Requests

-----------------------------------------------------------------------------
(* The initial states and the pages                                        *)

LEMMA DetailsInit == Init => DetailsInv
<1> SUFFICES ASSUME Init PROVE DetailsInv
  OBVIOUS
<1>1. stack \in Seq(Videos)
  BY EmptySeq DEF Init
<1>2. jobs \in [Tokens -> [n : Nat, live : BOOLEAN]]
  BY DEF Init
<1>a. server \in AccountStates /\ acts \in 0..MaxActs
  BY DetailsAssumption DEF Init
<1>3. TypeOK
  BY <1>1, <1>2, <1>a, BlankType DEF Init, TypeOK
<1>4. PageInv
  BY BlankType DEF Init, PageInv, OfTheAsked
<1>5. CallsInv
  BY DEF Init, CallsInv
<1> QED BY <1>3, <1>4, <1>5 DEF DetailsInv

LEMMA DetailsOpen ==
  ASSUME DetailsInv, NEW v \in Videos, OpenVideo(v)
  PROVE  DetailsInv'
<1>a. PICK watch : watch = Call("watch", v, 0)
  OBVIOUS
<1>b. PICK counted : counted = Call("votes", v, 0)
  OBVIOUS
<1>0. TypeOK /\ CallsInv /\ LoadVideo(v) /\ v # NoVideo /\ 0 \in Likes
  BY DetailsAssumption DEF DetailsInv, OpenVideo, Likes
<1>1. /\ watch \in Requests /\ watch.kind = "watch" /\ watch.video = v
      /\ watch.before = primary /\ watch.answer = "waiting" /\ watch.n = jobs["load"].n + 1
  BY <1>a, <1>0, CallType, Kinds
<1>2. /\ counted \in Requests /\ counted.kind = "votes" /\ counted.video = v
      /\ counted.before = primary /\ counted.answer = "waiting"
      /\ counted.n = jobs["load"].n + 1
  BY <1>b, <1>0, CallType, Kinds
<1>3. calls' = calls \cup {watch, counted}
  BY <1>0, <1>a, <1>b DEF LoadVideo
<1>4. /\ asked' = v /\ primary' = Blank /\ votes' = NoVideo /\ status' = "Loading"
      /\ saved' = (v \in remembered) /\ remembered' = remembered /\ jobs' = CancelJobs
      /\ server' = server /\ acts' = acts /\ stack' = <<v>> \o stack
  BY <1>0 DEF LoadVideo, OpenVideo
<1>5. TypeOK'
  <2>1. stack' \in Seq(Videos)
    <3>1. stack \in Seq(Videos)
      BY <1>0 DEF TypeOK
    <3>2. <<v>> \in Seq(Videos)
      OBVIOUS
    <3> QED BY <1>4, <3>1, <3>2, ConcatProperties
  <2>2. calls' \subseteq Requests
    BY <1>0, <1>1, <1>2, <1>3 DEF TypeOK, Requests
  <2>3. jobs' \in [Tokens -> [n : Nat, live : BOOLEAN]]
    BY <1>0, <1>4, CancelType
  <2>4. primary' \in Details
    BY <1>4, BlankType
  <2>5. saved' \in BOOLEAN
    BY <1>4
  <2> QED BY <1>0, <1>4, <2>1, <2>2, <2>3, <2>4, <2>5 DEF TypeOK, Requests
<1>6. PageInv'
  BY <1>0, <1>4, BlankType, CancelType DEF PageInv, OfTheAsked
<1>7. WellCounted(primary)
  BY DEF DetailsInv, PageInv
<1>8. \A c \in calls :
        /\ CallOK(c)' /\ (LiveCall(c)' => c.kind = "sub")
  <2> TAKE c \in calls
  <2>1. /\ c.kind \in DOMAIN TokenOf /\ c.n \in Nat /\ CallOK(c)
    BY <1>0, RequestFields DEF CallsInv
  <2>2. jobs[TokenOf[c.kind]].n \in Nat /\ c.n <= jobs[TokenOf[c.kind]].n
    BY <1>0, <2>1, RequestFields DEF CallOK, TypeOK
  <2>3. LiveCall(c)' => c.kind = "sub"
    BY <1>0, <1>4, <2>1, <2>2, CancelType, Kinds, SMTT(20) DEF LiveCall
  <2>4. c.n \in 1..jobs'[TokenOf[c.kind]].n
    BY <1>0, <1>4, <2>1, <2>2, CancelType, Kinds, SMTT(20) DEF CallOK
  <2> QED BY <2>1, <2>3, <2>4 DEF CallOK
<1>9. CallOK(watch)' /\ CallOK(counted)'
  <2>1. jobs["load"].n \in Nat /\ jobs'["load"].n = jobs["load"].n + 1
    BY <1>0, <1>4, CancelType DEF TypeOK, Tokens
  <2>2. CallOK(watch)'
    BY <1>1, <1>4, <1>7, <2>1, Kinds DEF CallOK
  <2>3. CallOK(counted)'
    BY <1>2, <1>4, <1>7, <2>1, Kinds DEF CallOK
  <2> QED BY <2>2, <2>3
<1>10. CallsInv'
  BY <1>1, <1>2, <1>3, <1>8, <1>9 DEF CallsInv
<1> QED BY <1>5, <1>6, <1>10 DEF DetailsInv

LEMMA DetailsBack ==
  ASSUME DetailsInv, Back
  PROVE  DetailsInv'
<1>1. stack' \in Seq(Videos)
  BY HeadTailProperties DEF Back, DetailsInv, TypeOK
<1>2. UNCHANGED <<page, jobs, calls, server, acts>>
  BY DEF Back
<1>3. TypeOK'
  BY <1>1, <1>2 DEF DetailsInv, TypeOK, page
<1> QED BY <1>2, <1>3 DEF DetailsInv, CallsInv, CallOK, LiveCall, PageInv, OfTheAsked, page

-----------------------------------------------------------------------------
(* The buttons                                                             *)

\* A request of before is let in after a press only if it was before it, and
\* then not by the token the button took over.
LEMMA OthersKept ==
  ASSUME DetailsInv, NEW t \in Tokens, jobs' = Renew(t), asked' = asked, status' = status,
         primary'.id = primary.id, NEW c \in calls
  PROVE  CallOK(c)' /\ (LiveCall(c)' => LiveCall(c))
<1>1. TypeOK /\ CallOK(c)
  BY DEF DetailsInv, CallsInv
<1>2. c.kind \in DOMAIN TokenOf /\ c.n \in Nat /\ TokenOf[c.kind] \in Tokens
  BY <1>1, RequestFields
<1>3. jobs[TokenOf[c.kind]].n \in Nat /\ c.n \in 1..jobs[TokenOf[c.kind]].n
  BY <1>1, <1>2 DEF TypeOK, CallOK
<1>4. CASE TokenOf[c.kind] = t
  <2>1. jobs'[TokenOf[c.kind]].n = jobs[TokenOf[c.kind]].n + 1
    BY <1>1, <1>4, RenewType
  <2>2. ~LiveCall(c)'
    BY <1>3, <2>1 DEF LiveCall
  <2>3. c.n \in 1..jobs'[TokenOf[c.kind]].n
    BY <1>3, <2>1
  <2> QED BY <1>1, <2>2, <2>3 DEF CallOK
<1>5. CASE TokenOf[c.kind] # t
  <2>1. jobs'[TokenOf[c.kind]] = jobs[TokenOf[c.kind]]
    BY <1>1, <1>2, <1>5, RenewType
  <2>2. LiveCall(c)' <=> LiveCall(c)
    BY <2>1 DEF LiveCall
  <2> QED BY <1>1, <2>1, <2>2 DEF CallOK
<1> QED BY <1>4, <1>5

\* A press that sends a request of its own.
LEMMA PressSends ==
  ASSUME DetailsInv, NEW kind \in {"like", "save", "sub"}, NEW want \in Likes,
         Press, jobs' = Renew(TokenOf[kind]), asked' = asked, status' = status,
         primary'.id = primary.id, calls' = calls \cup {Call(kind, primary.id, want)}
  PROVE  CallsInv' /\ calls' \subseteq Requests
<1>0. TypeOK /\ kind \in DOMAIN TokenOf /\ TokenOf[kind] \in Tokens /\ WellCounted(primary)
  BY Kinds DEF DetailsInv, PageInv
<1>1. primary.id \in Videos \cup {NoVideo}
  BY <1>0 DEF TypeOK, Details
<1>2. PICK sent : sent = Call(kind, primary.id, want)
  OBVIOUS
<1>3. /\ sent \in Requests /\ sent.kind = kind /\ sent.video = primary.id
      /\ sent.before = primary /\ sent.answer = "waiting"
      /\ sent.n = jobs[TokenOf[kind]].n + 1
  BY <1>0, <1>1, <1>2, CallType
<1>4. \A c \in calls : CallOK(c)' /\ (LiveCall(c)' => LiveCall(c))
  BY <1>0, OthersKept
<1>5. CallOK(sent)'
  <2>1. jobs[TokenOf[kind]].n \in Nat /\ jobs'[TokenOf[kind]].n = jobs[TokenOf[kind]].n + 1
    BY <1>0, RenewType DEF TypeOK
  <2> QED BY <1>0, <1>3, <2>1 DEF CallOK
<1>6. CallsInv'
  <2>1. \A c \in calls' : CallOK(c)'
    BY <1>2, <1>4, <1>5
  <2>2. \A c, d \in calls' : c.kind = "watch" /\ d.kind = "watch" /\ LiveCall(c)'
                             /\ LiveCall(d)' => c = d
    BY <1>2, <1>3, <1>4 DEF DetailsInv, CallsInv
  <2> QED BY <2>1, <2>2 DEF CallsInv
<1> QED BY <1>0, <1>2, <1>3, <1>6 DEF TypeOK, Requests

LEMMA PressType ==
  ASSUME TypeOK, Press
  PROVE  acts' \in 0..MaxActs /\ stack' = stack /\ server' = server
BY DetailsAssumption DEF TypeOK, Press

\* An optimistic move of the like keeps the count with it.
LEMMA MovedType ==
  ASSUME primary \in Details, WellCounted(primary), NEW to \in Likes
  PROVE  /\ Moved(to) \in Details /\ Moved(to).id = primary.id
         /\ WellCounted(Moved(to))
<1> DEFINE count == IF primary.likes < 0 THEN primary.likes
                    ELSE primary.likes + (IF to = 1 THEN 1 ELSE 0)
                                       - (IF primary.like = 1 THEN 1 ELSE 0)
<1>1. Moved(to) = [primary EXCEPT !.like = to, !.likes = count]
  BY DEF Moved, Details
<1>2. /\ count \in {NoCount, Others, Others + 1}
      /\ count = IF primary.id = NoVideo THEN NoCount
                 ELSE Others + (IF to = 1 THEN 1 ELSE 0)
  BY DEF WellCounted, NoCount, Others
<1> HIDE DEF count
<1>3. /\ Moved(to) \in Details /\ Moved(to).id = primary.id /\ Moved(to).like = to
      /\ Moved(to).likes = count
  BY <1>1, <1>2 DEF Details
<1> QED BY <1>2, <1>3 DEF WellCounted

LEMMA DetailsLike ==
  ASSUME DetailsInv, NEW to \in Likes, ApplyLike(to)
  PROVE  DetailsInv'
<1>0. /\ TypeOK /\ PageInv /\ Press /\ primary' = Moved(to) /\ jobs' = Renew("action")
      /\ calls' = calls \cup {Call("like", primary.id, to)}
      /\ UNCHANGED <<asked, votes, status, saved, remembered>>
  BY DEF DetailsInv, ApplyLike
<1>1. primary' \in Details /\ primary'.id = primary.id /\ WellCounted(primary')
  BY <1>0, MovedType DEF TypeOK, PageInv
<1>2. CallsInv' /\ calls' \subseteq Requests
  BY <1>0, <1>1, PressSends, Kinds
<1>3. jobs' \in [Tokens -> [n : Nat, live : BOOLEAN]]
  BY <1>0, RenewType DEF Tokens
<1>4. TypeOK'
  BY <1>0, <1>1, <1>2, <1>3, PressType DEF TypeOK, Requests
<1>5. PageInv'
  BY <1>0, <1>1 DEF PageInv, OfTheAsked, WellCounted, Press
<1> QED BY <1>2, <1>4, <1>5 DEF DetailsInv

LEMMA DetailsSave ==
  ASSUME DetailsInv, SaveToWatchLater
  PROVE  DetailsInv'
<1>0. /\ TypeOK /\ PageInv /\ Press /\ saved' = TRUE /\ jobs' = Renew("save") /\ 1 \in Likes
      /\ remembered' = remembered \cup {primary.id}
      /\ calls' = calls \cup {Call("save", primary.id, 1)}
      /\ UNCHANGED <<asked, primary, votes, status>>
  BY DEF DetailsInv, SaveToWatchLater, Likes
<1>1. CallsInv' /\ calls' \subseteq Requests
  BY <1>0, PressSends, Kinds
<1>2. jobs' \in [Tokens -> [n : Nat, live : BOOLEAN]]
  BY <1>0, RenewType DEF Tokens
<1>3. remembered' \subseteq Videos \cup {NoVideo}
  BY <1>0 DEF TypeOK, Details
<1>4. TypeOK'
  BY <1>0, <1>1, <1>2, <1>3, PressType DEF TypeOK, Requests
<1>5. PageInv'
  BY <1>0 DEF PageInv, OfTheAsked, WellCounted, Press
<1> QED BY <1>1, <1>4, <1>5 DEF DetailsInv

LEMMA DetailsAdd ==
  ASSUME DetailsInv, AddToPlaylist
  PROVE  DetailsInv'
<1>0. /\ TypeOK /\ PageInv /\ CallsInv /\ Press /\ jobs' = Renew("save")
      /\ UNCHANGED <<page, calls>>
  BY DEF DetailsInv, AddToPlaylist
<1>1. /\ asked' = asked /\ primary' = primary /\ votes' = votes /\ status' = status
      /\ saved' = saved /\ remembered' = remembered /\ calls' = calls
  BY <1>0 DEF page
<1>2. \A c \in calls : CallOK(c)' /\ (LiveCall(c)' => LiveCall(c))
  BY <1>0, <1>1, OthersKept DEF Tokens
<1>3. CallsInv'
  BY <1>0, <1>1, <1>2 DEF CallsInv
<1>4. jobs' \in [Tokens -> [n : Nat, live : BOOLEAN]]
  BY <1>0, RenewType DEF Tokens
<1>5. TypeOK'
  BY <1>0, <1>1, <1>4, PressType DEF TypeOK
<1>6. PageInv'
  BY <1>0, <1>1 DEF PageInv, OfTheAsked, WellCounted, Press
<1> QED BY <1>3, <1>5, <1>6 DEF DetailsInv

LEMMA DetailsSubscribe ==
  ASSUME DetailsInv, ApplySubscribe
  PROVE  DetailsInv'
<1> DEFINE want == IF primary.subscribed THEN 0 ELSE 1
<1>0. /\ TypeOK /\ PageInv /\ Press /\ jobs' = Renew("sub")
      /\ primary' = [primary EXCEPT !.subscribed = ~@]
      /\ calls' = calls \cup {Call("sub", primary.id, want)}
      /\ UNCHANGED <<asked, votes, status, saved, remembered>>
  BY DEF DetailsInv, ApplySubscribe
<1>1. want \in Likes
  BY DEF Likes
<1> HIDE DEF want
<1>2. /\ primary' \in Details /\ primary'.id = primary.id /\ primary'.likes = primary.likes
      /\ primary'.like = primary.like
  BY <1>0 DEF TypeOK, Details
<1>3. CallsInv' /\ calls' \subseteq Requests
  BY <1>0, <1>1, <1>2, PressSends, Kinds
<1>4. jobs' \in [Tokens -> [n : Nat, live : BOOLEAN]]
  BY <1>0, RenewType DEF Tokens
<1>5. TypeOK'
  BY <1>0, <1>2, <1>3, <1>4, PressType DEF TypeOK, Requests
<1>6. PageInv'
  BY <1>0, <1>2 DEF PageInv, OfTheAsked, WellCounted, Press
<1> QED BY <1>3, <1>5, <1>6 DEF DetailsInv

-----------------------------------------------------------------------------
(* The server and the deliveries                                           *)

LEMMA CarryType ==
  ASSUME TypeOK, NEW c \in calls, c.video # NoVideo
  PROVE  Carry(c) \in AccountStates
<1>1. /\ c.video \in Videos /\ c.want \in Likes /\ ChannelOf[c.video] \in Channels
      /\ server.like \in [Videos -> Likes] /\ server.watchLater \subseteq Videos
      /\ server.subscriptions \subseteq Channels /\ server \in AccountStates
  BY RequestFields, DetailsAssumption DEF TypeOK, AccountStates
<1>2. CASE c.kind = "like"
  <2> DEFINE likes == [server.like EXCEPT ![c.video] = c.want]
  <2>1. likes \in [Videos -> Likes]
    BY <1>1
  <2>2. Carry(c) = [server EXCEPT !.like = likes]
    BY <1>2 DEF Carry
  <2> HIDE DEF likes
  <2> QED BY <1>1, <2>1, <2>2 DEF AccountStates
<1>3. CASE c.kind = "save"
  BY <1>1, <1>3 DEF Carry, AccountStates
<1>4. CASE c.kind = "sub"
  BY <1>1, <1>4 DEF Carry, AccountStates
<1>5. CASE c.kind \notin {"like", "save", "sub"}
  BY <1>1, <1>5 DEF Carry
<1> QED BY <1>2, <1>3, <1>4, <1>5

\* An answer takes the place of its request.
LEMMA Answered ==
  ASSUME DetailsInv, NEW c \in calls, NEW d \in Requests, d.kind = c.kind, d.n = c.n,
         d.video = c.video, UNCHANGED <<page, jobs>>, WellCounted(d.before),
         c.kind \in {"like", "save"} => d.before = c.before,
         d.kind = "watch" /\ d.answer = "ok" => d.before.id = d.video,
         calls' = (calls \ {c}) \cup {d}
  PROVE  CallsInv' /\ calls' \subseteq Requests
<1>0. TypeOK /\ CallsInv
  BY DEF DetailsInv
<1>1. \A e : (LiveCall(e)' <=> LiveCall(e)) /\ (CallOK(e)' <=> CallOK(e))
  BY DEF LiveCall, CallOK, page
<1>2. LiveCall(d) <=> LiveCall(c)
  BY DEF LiveCall
<1>3. CallOK(c)
  BY <1>0 DEF CallsInv
<1>4. CallOK(d)
  BY <1>2, <1>3 DEF CallOK
<1>5. CallsInv'
  BY <1>0, <1>1, <1>2, <1>4 DEF CallsInv
<1> QED BY <1>0, <1>5 DEF TypeOK, Requests

\* The page and the tokens are untouched, and the requests are in order.
LEMMA PageStays ==
  ASSUME DetailsInv, UNCHANGED <<stack, page, jobs, acts>>, CallsInv',
         calls' \subseteq Requests, server' \in AccountStates
  PROVE  DetailsInv'
<1>1. TypeOK'
  BY DEF DetailsInv, TypeOK, Requests, page
<1>2. PageInv'
  BY DEF DetailsInv, PageInv, OfTheAsked, WellCounted, page
<1> QED BY <1>1, <1>2 DEF DetailsInv

LEMMA Removed ==
  ASSUME CallsInv, TypeOK, NEW c \in calls, calls' = calls \ {c}, jobs' = jobs,
         asked' = asked, primary'.id = primary.id, status' = status
  PROVE  CallsInv' /\ calls' \subseteq Requests
<1>1. \A e : (LiveCall(e)' <=> LiveCall(e)) /\ (CallOK(e)' <=> CallOK(e))
  BY DEF LiveCall, CallOK
<1> QED BY <1>1 DEF CallsInv, TypeOK, Requests

LEMMA DetailsServe ==
  ASSUME DetailsInv, NEW c \in calls, Serve(c)
  PROVE  DetailsInv'
<1>0. /\ TypeOK /\ CallsInv /\ c.answer = "waiting" /\ c.video # NoVideo /\ server' = Carry(c)
      /\ UNCHANGED <<stack, page, jobs, acts>> /\ CallOK(c)
  BY DEF DetailsInv, Serve, CallsInv
<1>1. server' \in AccountStates
  BY <1>0, CarryType
<1>2. CASE c.kind \in {"watch", "votes"}
  <2>1. c.video \in Videos /\ c \in Requests
    BY <1>0, RequestFields
  <2>2. PICK d : d = [c EXCEPT !.answer = "ok", !.before = Watch(c.video)]
    OBVIOUS
  <2>3. Watch(c.video) \in Details /\ WellCounted(Watch(c.video)) /\ Watch(c.video).id = c.video
    BY <1>0, <2>1, WatchType
  <2>4. /\ d \in Requests /\ d.kind = c.kind /\ d.n = c.n /\ d.video = c.video
        /\ d.before = Watch(c.video)
    BY <2>1, <2>2, <2>3 DEF Requests
  <2>5. calls' = (calls \ {c}) \cup {d}
    BY <1>2, <2>2 DEF Serve
  <2>6. CallsInv' /\ calls' \subseteq Requests
    BY <1>0, <1>2, <2>3, <2>4, <2>5, Answered
  <2> QED BY <1>0, <1>1, <2>6, PageStays
<1>3. CASE c.kind \notin {"watch", "votes"}
  <2>1. calls' = calls \ {c}
    BY <1>3 DEF Serve
  <2>2. CallsInv' /\ calls' \subseteq Requests
    BY <1>0, <2>1, Removed DEF page
  <2> QED BY <1>0, <1>1, <2>2, PageStays
<1> QED BY <1>2, <1>3

LEMMA DetailsRefuse ==
  ASSUME DetailsInv, NEW c \in calls, Refuse(c)
  PROVE  DetailsInv'
<1>0. /\ TypeOK /\ CallsInv /\ CallOK(c) /\ c \in Requests
      /\ UNCHANGED <<stack, page, jobs, server, acts>>
  BY RequestFields DEF DetailsInv, CallsInv, Refuse
<1>1. PICK d : d = [c EXCEPT !.answer = "failed"]
  OBVIOUS
<1>2. /\ d \in Requests /\ d.kind = c.kind /\ d.n = c.n /\ d.video = c.video
      /\ d.before = c.before /\ d.answer = "failed"
  BY <1>0, <1>1 DEF Requests
<1>3. calls' = (calls \ {c}) \cup {d}
  BY <1>1 DEF Refuse
<1>4. CallsInv' /\ calls' \subseteq Requests
  BY <1>0, <1>2, <1>3, Answered DEF CallOK
<1> QED BY <1>0, <1>4, PageStays DEF TypeOK

LEMMA DetailsDeliver ==
  ASSUME DetailsInv, NEW c \in calls, Deliver(c)
  PROVE  DetailsInv'
<1>0. /\ TypeOK /\ CallsInv /\ PageInv /\ CallOK(c) /\ c.answer # "waiting"
      /\ calls' = calls \ {c} /\ c \in Requests
      /\ stack' = stack /\ jobs' = jobs /\ server' = server /\ acts' = acts
  BY RequestFields DEF DetailsInv, CallsInv, Deliver
<1>1. c.before \in Details /\ WellCounted(c.before) /\ primary \in Details
  BY <1>0, RequestFields DEF CallOK, TypeOK
<1>2. CASE UNCHANGED page
  <2>1. CallsInv' /\ calls' \subseteq Requests
    BY <1>0, <1>2, Removed DEF page
  <2> QED BY <1>0, <1>2, <2>1, PageStays DEF TypeOK
<1>3. CASE LiveCall(c) /\ ApplyWatch(c)
  <2>1. /\ c.kind = "watch" /\ c.video = asked /\ status = "Loading" /\ c.video \in Videos
        /\ asked' = asked /\ votes' = votes /\ saved' = saved /\ remembered' = remembered
    BY <1>0, <1>3 DEF ApplyWatch, CallOK
  <2>2. \/ status' = "Failed" /\ primary' = primary
        \/ status' = "Ready" /\ primary' = c.before /\ primary'.id = asked
    BY <1>0, <1>3, <2>1 DEF ApplyWatch, CallOK
  <2>3. \A d \in calls' : CallOK(d)'
    <3> TAKE d \in calls'
    <3>1. d \in calls /\ d # c /\ CallOK(d) /\ (LiveCall(d)' <=> LiveCall(d))
      BY <1>0 DEF CallsInv, LiveCall
    <3>2. LiveCall(d) => d.kind # "watch"
      BY <1>0, <1>3, <2>1, <3>1 DEF CallsInv
    <3>3. LiveCall(d) => d.kind \notin {"like", "save"}
      BY <1>0, <2>1, Kinds DEF PageInv, LiveCall
    <3>4. d.n \in 1..jobs'[TokenOf[d.kind]].n
      BY <1>0, <3>1 DEF CallOK
    <3> QED BY <2>1, <3>1, <3>2, <3>3, <3>4 DEF CallOK
  <2>4. CallsInv'
    BY <1>0, <2>3 DEF CallsInv, LiveCall
  <2>5. PageInv'
    BY <1>0, <1>1, <2>1, <2>2 DEF PageInv, OfTheAsked, WellCounted
  <2>6. TypeOK'
    BY <1>0, <1>1, <2>1, <2>2 DEF TypeOK
  <2> QED BY <2>4, <2>5, <2>6 DEF DetailsInv
<1>4. CASE LiveCall(c) /\ ApplyDislikes(c)
  <2>1. /\ c.video = asked /\ c.video \in Videos
        /\ UNCHANGED <<asked, primary, status, saved, remembered>>
        /\ votes' = votes \/ votes' = asked
    BY <1>0, <1>4 DEF ApplyDislikes, CallOK
  <2>2. CallsInv' /\ calls' \subseteq Requests
    BY <1>0, <2>1, Removed
  <2>3. PageInv'
    BY <1>0, <2>1 DEF PageInv, OfTheAsked, WellCounted
  <2>4. TypeOK'
    BY <1>0, <2>1, <2>2 DEF TypeOK, Requests
  <2> QED BY <2>2, <2>3, <2>4 DEF DetailsInv
<1>5. CASE LiveCall(c) /\ RevertLike(c)
  <2>1. /\ c.kind = "like" /\ c.before.id = primary.id
        /\ primary' = [primary EXCEPT !.like = c.before.like, !.likes = c.before.likes]
        /\ UNCHANGED <<asked, votes, status, saved, remembered>>
    BY <1>0, <1>5 DEF RevertLike, CallOK
  <2>2. primary' \in Details /\ primary'.id = primary.id /\ WellCounted(primary')
    BY <1>1, <2>1 DEF Details, WellCounted
  <2>3. CallsInv' /\ calls' \subseteq Requests
    BY <1>0, <2>1, <2>2, Removed
  <2>4. PageInv'
    BY <1>0, <2>1, <2>2 DEF PageInv, OfTheAsked, WellCounted
  <2>5. TypeOK'
    BY <1>0, <2>1, <2>2, <2>3 DEF TypeOK, Requests
  <2> QED BY <2>3, <2>4, <2>5 DEF DetailsInv
<1>6. CASE LiveCall(c) /\ RevertSave(c)
  <2>1. /\ c.kind = "save" /\ c.video = primary.id
        /\ saved' = FALSE /\ remembered' = remembered \ {c.video}
        /\ UNCHANGED <<asked, primary, votes, status>>
    BY <1>0, <1>6 DEF RevertSave, CallOK
  <2>2. CallsInv' /\ calls' \subseteq Requests
    BY <1>0, <2>1, Removed
  <2>3. status # "Loading"
    BY <1>0, <1>6, <2>1, Kinds DEF PageInv, LiveCall
  <2>4. PageInv'
    BY <1>0, <2>1, <2>3 DEF PageInv, OfTheAsked, WellCounted
  <2>5. TypeOK'
    BY <1>0, <2>1, <2>2 DEF TypeOK, Requests
  <2> QED BY <2>2, <2>4, <2>5 DEF DetailsInv
<1>7. CASE LiveCall(c) /\ RevertSubscribe(c)
  <2>1. /\ primary' = [primary EXCEPT !.subscribed = c.before.subscribed]
        /\ UNCHANGED <<asked, votes, status, saved, remembered>>
    BY <1>7 DEF RevertSubscribe
  <2>2. primary' \in Details /\ primary'.id = primary.id /\ WellCounted(primary')
    BY <1>0, <1>1, <2>1 DEF Details, WellCounted, PageInv
  <2>3. CallsInv' /\ calls' \subseteq Requests
    BY <1>0, <2>1, <2>2, Removed
  <2>4. PageInv'
    BY <1>0, <2>1, <2>2 DEF PageInv, OfTheAsked, WellCounted
  <2>5. TypeOK'
    BY <1>0, <2>1, <2>2, <2>3 DEF TypeOK, Requests
  <2> QED BY <2>3, <2>4, <2>5 DEF DetailsInv
<1> QED BY <1>2, <1>3, <1>4, <1>5, <1>6, <1>7 DEF Deliver

-----------------------------------------------------------------------------
(* The theorems                                                            *)

LEMMA DetailsNext == DetailsInv /\ [Next]_vars => DetailsInv'
<1> SUFFICES ASSUME DetailsInv, [Next]_vars PROVE DetailsInv'
  OBVIOUS
<1>1. CASE \E v \in Videos : OpenVideo(v)
  BY <1>1, DetailsOpen
<1>2. CASE Back
  BY <1>2, DetailsBack
<1>3. CASE Like \/ Dislike
  <2>1. PICK to \in Likes : ApplyLike(to)
    BY <1>3 DEF Like, Dislike, Likes
  <2> QED BY <2>1, DetailsLike
<1>4. CASE SaveToWatchLater
  BY <1>4, DetailsSave
<1>5. CASE AddToPlaylist
  BY <1>5, DetailsAdd
<1>6. CASE ApplySubscribe
  BY <1>6, DetailsSubscribe
<1>7. CASE \E c \in calls : Serve(c) \/ Refuse(c) \/ Deliver(c)
  BY <1>7, DetailsServe, DetailsRefuse, DetailsDeliver
<1>8. CASE UNCHANGED vars
  <2>1. UNCHANGED <<stack, page, jobs, calls, server, acts>>
    BY <1>8 DEF vars
  <2>2. CallsInv'
    BY <2>1 DEF DetailsInv, CallsInv, CallOK, LiveCall, page
  <2> QED BY <2>1, <2>2, PageStays DEF DetailsInv, TypeOK, Requests
<1> QED BY <1>1, <1>2, <1>3, <1>4, <1>5, <1>6, <1>7, <1>8 DEF Next, Buttons

LEMMA DetailsAlways == Spec => []DetailsInv
BY DetailsInit, DetailsNext, PTL DEF Spec

\* What the object holds is of the video asked for last: a load takes over the
\* load token, so no answer to an earlier one gets in (load, cancelJob).
THEOREM AboutTheAsked == Spec => []OfTheAsked
<1>1. DetailsInv => OfTheAsked
  BY DEF DetailsInv, PageInv
<1> QED BY <1>1, DetailsAlways, PTL

\* The like count goes with the like state and the Save button with what the
\* session remembers, after any overlap of optimistic moves, reverts,
\* superseded reverts and loads (applyLike, fireGuarded, saveToWatchLater).
THEOREM ButtonsAgree == Spec => []ButtonsTellTheState
<1>1. DetailsInv => ButtonsTellTheState
  BY DEF DetailsInv, PageInv, OfTheAsked, WellCounted, ButtonsTellTheState,
         CountFollowsLike, SavedIsRemembered
<1> QED BY <1>1, DetailsAlways, PTL

\* A like that fails moves the like state of its own video and no other's: its
\* token does not outlive the page it was pressed on (cancelJob).
THEOREM RevertsOwn == Spec => RevertsItsOwnLike
<1> DEFINE Own == \A c \in calls \ calls' :
              c.kind = "like" /\ c.answer = "failed" /\ primary' # primary
              => primary.id = c.video
<1>1. DetailsInv /\ [Next]_vars => [Own]_vars
  <2> SUFFICES ASSUME DetailsInv, Next, NEW c \in calls \ calls',
                      c.kind = "like", primary' # primary
               PROVE  primary.id = c.video
    OBVIOUS
  <2>1. PICK d \in calls : Deliver(d)
    <3>1. ~\E v \in Videos : OpenVideo(v)
      BY DEF OpenVideo, LoadVideo
    <3>2. ~Back
      BY DEF Back, page
    <3>3. ~Buttons
      BY DEF Buttons, Like, Dislike, ApplyLike, SaveToWatchLater, AddToPlaylist,
             ApplySubscribe
    <3>4. ~\E d \in calls : Serve(d) \/ Refuse(d)
      BY DEF Serve, Refuse, page
    <3> QED BY <3>1, <3>2, <3>3, <3>4 DEF Next
  <2>2. d = c /\ LiveCall(c)
    BY <2>1 DEF Deliver, page
  <2> QED BY <2>2 DEF DetailsInv, CallsInv, CallOK
<1> QED BY <1>1, DetailsAlways, PTL DEF Spec, RevertsItsOwnLike

=============================================================================
