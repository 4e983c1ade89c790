---------------------------- MODULE FacadeProofs ----------------------------
(***************************************************************************)
(* What is proved of Facades: whatever is still on its way from the worker *)
(* when the user asks a facade for something else, what the facade shows   *)
(* is of what was asked last; a list's pages come in order; and a post     *)
(* that fails takes back its own comment.                                  *)
(*                                                                         *)
(* The argument is about tokens.  No two requests in flight have the same  *)
(* one, and one whose flag is not set is that of the facade's present load *)
(* (post, subscribe check), so an answer that is not dropped is about what *)
(* is shown, and once it is applied no other one like it is in flight.     *)
(***************************************************************************)
EXTENDS Facades, SequenceTheorems, TLAPS

\* What is in flight: at the server, or on its way back to the GUI thread.
Flight == calls \cup {mail[i].call : i \in DOMAIN mail}

Call(op, job, about, arg) == [op |-> op, job |-> job, about |-> about, arg |-> arg]

Entries(q) == {q[i] : i \in DOMAIN q}

\* A token is used for one request, which is in one place.
TokensInv ==
  /\ made \in Nat /\ canceled \subseteq 1..made /\ aborts \subseteq canceled
  /\ mail \in Seq(Entries(mail))
  /\ \A c \in Flight : c \in [op : {c.op}, job : 1..made, about : {c.about}, arg : {c.arg}]
  /\ \A c, d \in calls : c.job = d.job => c = d
  /\ \A i \in DOMAIN mail : \A c \in calls : mail[i].call.job # c.job
  /\ \A i, j \in DOMAIN mail : mail[i].call.job = mail[j].call.job => i = j

-----------------------------------------------------------------------------
(* The lists.                                                              *)

\* The rows of the server ascend by page, and are of pages before n.
Rising(rows) ==
  \A i, j \in DOMAIN rows :
    i < j /\ rows[i].by = NoJob /\ rows[j].by = NoJob => rows[i].n < rows[j].n
Below(rows, n) == \A i \in DOMAIN rows : rows[i].by = NoJob => rows[i].n < n

\* The page a request is for: without a continuation, the first.
PageOf(arg) == IF arg = NoPage THEN 1 ELSE arg

RowsFor(feed) == [of : {feed}, n : Nat, by : Nat]
PageRows(feed) == [of : {feed}, n : Nat, by : {NoJob}]

ListState ==
  [job : 0..made, asked : {self.asked}, canPage : BOOLEAN, rows : Seq(RowsFor(self.asked)),
   next : 0..LastPage, status : {self.status}, postJob : 0..made, params : {self.params},
   disabled : {self.disabled}]

\* What is shown continues where the next page begins.
ShownInv ==
  /\ self \in ListState
  /\ Rising(self.rows)
  /\ self.next # NoPage => self.canPage /\ Below(self.rows, self.next)
  /\ kind = "channels" => ~self.canPage

\* The load in flight is the present one, for a page after those shown.
LoadsInv ==
  \A c \in Flight : c.op = kind /\ Live(c.job) =>
    /\ c.job = self.job /\ c.about = self.asked /\ self.status = "Loading"
    /\ c.arg \in 0..LastPage /\ Below(self.rows, PageOf(c.arg))

\* The post in flight is the last one, and its comment is the first row.
PostsInv ==
  \A c \in Flight : c.op = "post" /\ Live(c.job) =>
    c.job = self.postJob /\ self.rows # <<>> /\ self.rows[1].by = c.job

\* A page on its way is the one it was asked for, and leads to a later one.
PageOK(m) ==
  /\ m.call.arg \in 0..LastPage
  /\ m.out.rows \in Seq(PageRows(m.call.about))
  /\ m.out.next \in 0..LastPage
  /\ Rising(m.out.rows)
  /\ \A i \in DOMAIN m.out.rows : PageOf(m.call.arg) <= m.out.rows[i].n
  /\ kind # "channels" /\ m.out.next # NoPage =>
       PageOf(m.call.arg) < m.out.next /\ Below(m.out.rows, m.out.next)
PagesInv == \A i \in DOMAIN mail : mail[i].call.op = kind /\ mail[i].out.ok => PageOK(mail[i])

Paged(arg) == /\ arg \in 0..LastPage
              /\ kind \in {"videos", "playlists"} => arg # NoPage
              /\ kind = "channels" => arg = NoPage
ListOps ==
  \A c \in Flight : \/ c.op = kind /\ Paged(c.arg)
                    \/ c.op = "post" /\ kind = "comments"
                    \/ c.op = "drop" /\ kind = "channels"

ListInv == kind \in ListKinds => ShownInv /\ LoadsInv /\ PostsInv /\ PagesInv /\ ListOps

-----------------------------------------------------------------------------
(* The other facades.                                                      *)

\* An empty box shows the history; a load that is due is in flight.
SuggestInv ==
  kind = "suggest" =>
    /\ self \in [job : 0..made, query : {self.query}, live : {self.live}, results : {self.results}]
    /\ Live(self.job)
    /\ SuggestionsOfTheQuery
    /\ \A c \in Flight : c.op = "suggest"
    /\ \A c \in Flight : Live(c.job) => c.job = self.job /\ c.about = self.query
    /\ \A i \in DOMAIN mail : mail[i].out.ok => mail[i].out.results = mail[i].call.about

\* Nothing but the load and the check of who is signed in fills the header.
ChannelInv ==
  kind = "channel" =>
    /\ self \in [job : 0..made, actionJob : 0..made, checkJob : 0..made, asked : {self.asked},
                 id : {Nothing, self.asked}, subscribed : {self.subscribed}, status : {self.status}]
    /\ \A c \in Flight : c.op \in {"channel", "check", "follow", "unfollow"}
    /\ \A c \in Flight : c.op = "channel" /\ Live(c.job) =>
         c.job = self.job /\ c.about = self.asked
    /\ \A c \in Flight : c.op = "check" /\ Live(c.job) =>
         signedIn /\ c.job = self.checkJob /\ c.about = self.id
    /\ \A i \in DOMAIN mail : mail[i].call.op = "channel" /\ mail[i].out.ok =>
         mail[i].out.id = mail[i].call.about

StreamsInv ==
  kind = "streams" =>
    /\ self \in [job : 0..made, asked : {self.asked}, status : {self.status}, hls : {self.hls},
                 progressive : {self.progressive}, audio : {self.audio}, video : {self.video},
                 audios : {self.audios}, subtitles : {self.subtitles}]
    /\ \A c \in Flight : c.op = "player"
    /\ \A c \in Flight : Live(c.job) => c.job = self.job /\ c.about = self.asked
    /\ CatalogOfTheAsked

FacadeInv == kind \in Kinds /\ TokensInv /\ ListInv /\ SuggestInv /\ ChannelInv /\ StreamsInv

-----------------------------------------------------------------------------
(* The two queues.  Each lemma says what one kind of step leaves of the    *)
(* requests in flight.                                                     *)

LEMMA SeqOf ==
  ASSUME NEW T, NEW n \in Nat, NEW r \in [1..n -> T] PROVE r \in Seq(T)
BY SeqDef

LEMMA SeqWider ==
  ASSUME NEW S, NEW T, S \subseteq T, NEW s \in Seq(S) PROVE s \in Seq(T)
<1>1. PICK n \in Nat : s \in [1..n -> S]
  BY SeqDef
<1>2. s \in [1..n -> T]
  BY <1>1
<1> QED BY <1>2, SeqDef

\* Where things are in a sequence after an element was added at its end.
LEMMA Queued ==
  ASSUME NEW q, q \in Seq(Entries(q)), NEW e, NEW r, r = Append(q, e)
  PROVE  /\ Len(q) \in Nat /\ DOMAIN q = 1..Len(q) /\ DOMAIN r = 1..Len(q) + 1
         /\ \A i \in 1..Len(q) : r[i] = q[i]
         /\ r[Len(q) + 1] = e
         /\ r \in Seq(Entries(r))
<1> DEFINE S == Entries(q) \cup {e}
<1>1. q \in Seq(S)
  <2>1. PICK n \in Nat : q \in [1..n -> Entries(q)]
    BY SeqDef
  <2>2. q \in [1..n -> S]
    BY <2>1
  <2> QED BY <2>2, SeqDef
<1>2. /\ Append(q, e) \in Seq(S) /\ Len(Append(q, e)) = Len(q) + 1
      /\ \A i \in 1..Len(q) : Append(q, e)[i] = q[i]
      /\ Append(q, e)[Len(q) + 1] = e
  BY <1>1, AppendProperties
<1>3. Len(q) \in Nat /\ DOMAIN q = 1..Len(q)
  BY <1>1, LenProperties
<1>4. DOMAIN r = 1..Len(q) + 1 /\ r \in [1..(Len(q) + 1) -> S]
  BY <1>2, <1>3, LenProperties
<1>5. r \in [1..(Len(q) + 1) -> Entries(r)] /\ Len(q) + 1 \in Nat
  BY <1>3, <1>4 DEF Entries
<1>6. r \in Seq(Entries(r))
  BY <1>5, SeqOf
<1> QED BY <1>2, <1>3, <1>4, <1>6

\* And after its first element was taken.
LEMMA Taken ==
  ASSUME NEW q, q \in Seq(Entries(q)), q # <<>>, NEW r, r = Tail(q)
  PROVE  /\ 1 \in DOMAIN q /\ Head(q) = q[1]
         /\ \A i \in DOMAIN r : i \in Nat \ {0} /\ i + 1 \in DOMAIN q /\ r[i] = q[i + 1]
         /\ \A i \in DOMAIN q : i = 1 \/ (i \in Int /\ i - 1 \in DOMAIN r /\ r[i - 1] = q[i])
         /\ r \in Seq(Entries(r))
<1> DEFINE S == Entries(q)
<1>1. /\ Tail(q) \in Seq(S) /\ Len(Tail(q)) = Len(q) - 1
      /\ \A i \in 1..Len(Tail(q)) : Tail(q)[i] = q[i + 1]
  BY HeadTailProperties
<1>2. Len(q) \in Nat \ {0} /\ DOMAIN q = 1..Len(q) /\ Head(q) = q[1]
  BY LenProperties, EmptySeq
<1>3. DOMAIN r = 1..(Len(q) - 1) /\ r \in [1..(Len(q) - 1) -> S]
  BY <1>1, LenProperties
<1>4. r \in [1..(Len(q) - 1) -> Entries(r)]
  BY <1>3 DEF Entries
<1>5. r \in Seq(Entries(r))
  <2>1. Len(q) - 1 \in Nat
    BY <1>2
  <2> QED BY <1>4, <2>1, SeqOf
<1>6. \A i \in 1..(Len(q) - 1) : r[i] = q[i + 1]
  BY <1>1, <1>2
<1>7. \A i \in DOMAIN r : i \in Nat \ {0} /\ i + 1 \in DOMAIN q /\ r[i] = q[i + 1]
  BY <1>2, <1>3, <1>6
<1>8. ASSUME NEW i \in DOMAIN q, i # 1
      PROVE  i \in Int /\ i - 1 \in DOMAIN r /\ r[i - 1] = q[i]
  <2>1. i \in Int /\ i - 1 \in DOMAIN r /\ (i - 1) + 1 = i
    BY <1>2, <1>3, <1>8
  <2> QED BY <2>1, <1>7
<1>9. \A i \in DOMAIN q : i = 1 \/ (i \in Int /\ i - 1 \in DOMAIN r /\ r[i - 1] = q[i])
  BY <1>8
<1>10. 1 \in DOMAIN q
  BY <1>2
<1> HIDE DEF S
<1> QED BY <1>2, <1>5, <1>7, <1>9, <1>10, Zenon

\* A token is set aside and, in the same step of the GUI thread, a request made.
LEMMA Asked ==
  ASSUME TokensInv, NEW op, NEW about, NEW arg, Ask(op, about, arg), UNCHANGED mail,
         canceled \subseteq canceled', canceled' \subseteq 1..made', aborts' \subseteq canceled'
  PROVE  /\ TokensInv'
         /\ Flight' = Flight \cup {Call(op, made + 1, about, arg)}
<1> DEFINE new == Call(op, made + 1, about, arg)
<1>1. made' = made + 1 /\ calls' = calls \cup {new}
  BY DEF Ask, NewJob, Call
<1>2. Flight' = Flight \cup {new}
  BY <1>1 DEF Flight
<1>3. /\ new \in [op : {new.op}, job : 1..(made + 1), about : {new.about}, arg : {new.arg}]
      /\ new.job = made + 1
  BY DEF Call, TokensInv
<1>4. \A c \in Flight : c \in [op : {c.op}, job : 1..made', about : {c.about}, arg : {c.arg}]
  <2>1. made \in Nat /\ 1..made \subseteq 1..made'
    BY <1>1 DEF TokensInv
  <2> QED BY <2>1 DEF TokensInv
<1>5. \A c \in Flight : c.job # made + 1
  BY DEF TokensInv
<1>6. \A c \in Flight' : c \in [op : {c.op}, job : 1..made', about : {c.about}, arg : {c.arg}]
  BY <1>1, <1>2, <1>3, <1>4
<1>7. \A c, d \in calls' : c.job = d.job => c = d
  BY <1>1, <1>3, <1>5 DEF TokensInv, Flight
<1>8. \A i \in DOMAIN mail : \A c \in calls' : mail[i].call.job # c.job
  BY <1>1, <1>3, <1>5 DEF TokensInv, Flight
<1> HIDE DEF new
<1>9. TokensInv'
  BY <1>1, <1>6, <1>7, <1>8 DEF TokensInv
<1> QED BY <1>2, <1>9 DEF new

\* A chain reports an outcome: its request is on its way back.
LEMMA Reported ==
  ASSUME TokensInv, NEW c \in calls, NEW out, Report(c, out), UNCHANGED <<made, canceled, aborts>>
  PROVE  /\ TokensInv' /\ Flight' = Flight
         /\ \A i \in DOMAIN mail' : \/ i \in DOMAIN mail /\ mail'[i] = mail[i]
                                    \/ mail'[i] = [call |-> c, out |-> out]
<1> DEFINE e == [call |-> c, out |-> out]  n == Len(mail) + 1
<1>1. calls' = calls \ {c} /\ mail' = Append(mail, e)
  BY DEF Report
<1>2. e.call = c
  OBVIOUS
<1> HIDE DEF e
<1>3. /\ Len(mail) \in Nat /\ DOMAIN mail = 1..Len(mail) /\ DOMAIN mail' = 1..n
      /\ \A i \in 1..Len(mail) : mail'[i] = mail[i]
      /\ mail'[n] = e
      /\ mail' \in Seq(Entries(mail'))
  <2>1. PICK q : q = mail
    OBVIOUS
  <2>2. PICK r : r = Append(q, e)
    OBVIOUS
  <2>3. q \in Seq(Entries(q)) /\ mail' = r
    BY <1>1, <2>1, <2>2 DEF TokensInv
  <2>4. /\ Len(q) \in Nat /\ DOMAIN q = 1..Len(q) /\ DOMAIN r = 1..Len(q) + 1
        /\ \A i \in 1..Len(q) : r[i] = q[i]
        /\ r[Len(q) + 1] = e
    BY <2>2, <2>3, Queued
  <2>5. r \in Seq(Entries(r))
    BY <2>2, <2>3, Queued
  <2> QED BY <2>1, <2>3, <2>4, <2>5
<1>4. n \in DOMAIN mail' /\ n \notin DOMAIN mail
  BY <1>3
<1>5. \A i \in DOMAIN mail' : (i \in DOMAIN mail /\ mail'[i] = mail[i]) \/ (i = n /\ mail'[i] = e)
  BY <1>3
<1>6. \A i \in DOMAIN mail : i \in DOMAIN mail' /\ mail'[i] = mail[i]
  BY <1>3
<1> HIDE DEF n
<1>7. Flight' = Flight
  BY <1>1, <1>2, <1>3, <1>4, <1>5, <1>6 DEF Flight
<1>8. \A d \in calls' : d \in calls /\ d.job # c.job
  BY <1>1 DEF TokensInv
<1>9. \A i \in DOMAIN mail' : \A d \in calls' : mail'[i].call.job # d.job
  BY <1>2, <1>5, <1>8 DEF TokensInv
<1>10. \A i, j \in DOMAIN mail' : mail'[i].call.job = mail'[j].call.job => i = j
  BY <1>2, <1>5 DEF TokensInv
<1>11. TokensInv'
  BY <1>3, <1>7, <1>8, <1>9, <1>10 DEF TokensInv
<1> QED BY <1>5, <1>7, <1>11 DEF e

\* Requests end without a word, at their chain's end or because they are aborted.
LEMMA Dropped ==
  ASSUME TokensInv, calls' \subseteq calls, UNCHANGED <<mail, made, canceled>>,
         aborts' \subseteq aborts
  PROVE  TokensInv' /\ Flight' \subseteq Flight
<1>1. Flight' \subseteq Flight
  BY DEF Flight
<1> QED BY <1>1 DEF TokensInv

\* A chain goes on with its next request.
LEMMA WentOn ==
  ASSUME TokensInv, NEW c \in calls, NEW arg, GoOn(c, arg), UNCHANGED <<made, canceled, aborts>>
  PROVE  /\ TokensInv' /\ mail' = mail
         /\ Flight' \subseteq Flight \cup {Call(c.op, c.job, c.about, arg)}
         /\ calls' \subseteq (calls \ {c}) \cup {Call(c.op, c.job, c.about, arg)}
<1> DEFINE new == Call(c.op, c.job, c.about, arg)
<1>1. c \in [op : {c.op}, job : 1..made, about : {c.about}, arg : {c.arg}]
  BY DEF TokensInv, Flight
<1>2. [c EXCEPT !.arg = arg] = new
  BY <1>1 DEF Call
<1>3. calls' \subseteq (calls \ {c}) \cup {new} /\ mail' = mail
  BY <1>2 DEF GoOn
<1>4. /\ new \in [op : {new.op}, job : 1..made, about : {new.about}, arg : {new.arg}]
      /\ new.job = c.job
  BY <1>1 DEF Call
<1> HIDE DEF new
<1>5. Flight' \subseteq Flight \cup {new}
  BY <1>3 DEF Flight
<1>6. \A d \in calls' : d = new \/ (d \in calls /\ d.job # c.job)
  BY <1>3 DEF TokensInv
<1>7. \A d \in Flight' : d \in [op : {d.op}, job : 1..made, about : {d.about}, arg : {d.arg}]
  BY <1>4, <1>5 DEF TokensInv
<1>8. \A d, f \in calls' : d.job = f.job => d = f
  BY <1>4, <1>6 DEF TokensInv
<1>9. \A i \in DOMAIN mail : \A d \in calls' : mail[i].call.job # d.job
  BY <1>4, <1>6 DEF TokensInv
<1>10. TokensInv'
  BY <1>3, <1>7, <1>8, <1>9 DEF TokensInv
<1> QED BY <1>3, <1>5, <1>10 DEF new

\* The first closure is taken: those that remain are where they were.
LEMMA MailTaken ==
  ASSUME TokensInv, NEW m, Take(m)
  PROVE  /\ 1 \in DOMAIN mail /\ m = mail[1]
         /\ \A i \in DOMAIN mail' : \E j \in DOMAIN mail :
              mail'[i] = mail[j] /\ mail'[i].call.job # m.call.job
         /\ \A i \in DOMAIN mail : i = 1 \/ \E j \in DOMAIN mail' : mail'[j] = mail[i]
         /\ \A i, j \in DOMAIN mail' : mail'[i].call.job = mail'[j].call.job => i = j
         /\ mail' \in Seq(Entries(mail'))
<1>1. mail # <<>> /\ m = Head(mail) /\ mail' = Tail(mail)
  BY DEF Take
<1>2. PICK q : q = mail
  OBVIOUS
<1>3. PICK r : r = Tail(q)
  OBVIOUS
<1>4. q \in Seq(Entries(q)) /\ q # <<>> /\ mail' = r
  BY <1>1, <1>2, <1>3 DEF TokensInv
<1>5. 1 \in DOMAIN q /\ Head(q) = q[1]
  BY <1>3, <1>4, Taken
<1>6. \A i \in DOMAIN r : i \in Nat \ {0} /\ i + 1 \in DOMAIN q /\ r[i] = q[i + 1]
  BY <1>3, <1>4, Taken
<1>7. \A i \in DOMAIN q : i = 1 \/ (i \in Int /\ i - 1 \in DOMAIN r /\ r[i - 1] = q[i])
  BY <1>3, <1>4, Taken
<1>8. r \in Seq(Entries(r))
  BY <1>3, <1>4, Taken
<1>9. \A i, j \in DOMAIN q : q[i].call.job = q[j].call.job => i = j
  BY <1>2 DEF TokensInv
<1>10. ASSUME NEW i \in DOMAIN r
       PROVE  \E j \in DOMAIN q : r[i] = q[j] /\ r[i].call.job # q[1].call.job
  <2>1. i + 1 \in DOMAIN q /\ r[i] = q[i + 1] /\ i + 1 # 1
    BY <1>6
  <2> QED BY <1>5, <1>9, <2>1
<1>11. ASSUME NEW i \in DOMAIN r, NEW j \in DOMAIN r, r[i].call.job = r[j].call.job
       PROVE  i = j
  <2>1. /\ i + 1 \in DOMAIN q /\ r[i] = q[i + 1] /\ i \in Nat
        /\ j + 1 \in DOMAIN q /\ r[j] = q[j + 1] /\ j \in Nat
    BY <1>6
  <2>2. i + 1 = j + 1
    BY <1>9, <1>11, <2>1
  <2> QED BY <2>1, <2>2
<1>12. \A i \in DOMAIN q : i = 1 \/ \E j \in DOMAIN r : r[j] = q[i]
  BY <1>7
<1>13. m = q[1]
  BY <1>1, <1>2, <1>5
<1>14. /\ \A i \in DOMAIN r : \E j \in DOMAIN q : r[i] = q[j] /\ r[i].call.job # m.call.job
       /\ \A i, j \in DOMAIN r : r[i].call.job = r[j].call.job => i = j
  BY <1>10, <1>11, <1>13
<1> QED BY <1>2, <1>4, <1>5, <1>8, <1>12, <1>13, <1>14

\* The GUI thread takes a closure: its token is used for nothing else.
LEMMA TakenOff ==
  ASSUME TokensInv, NEW m, Take(m), Quiet
  PROVE  /\ TokensInv' /\ Flight' \subseteq Flight
         /\ m.call \in Flight /\ \E i \in DOMAIN mail : m = mail[i]
         /\ \A c \in Flight' : c.job # m.call.job
         /\ \A c \in Flight : c = m.call \/ c \in Flight'
         /\ \A i \in DOMAIN mail' : \E j \in DOMAIN mail : mail'[i] = mail[j]
<1>1. UNCHANGED <<calls, made, canceled, aborts>>
  BY DEF Quiet
<1>2. /\ 1 \in DOMAIN mail /\ m = mail[1]
      /\ \A i \in DOMAIN mail' : \E j \in DOMAIN mail :
           mail'[i] = mail[j] /\ mail'[i].call.job # m.call.job
      /\ \A i \in DOMAIN mail : i = 1 \/ \E j \in DOMAIN mail' : mail'[j] = mail[i]
      /\ \A i, j \in DOMAIN mail' : mail'[i].call.job = mail'[j].call.job => i = j
      /\ mail' \in Seq(Entries(mail'))
  BY MailTaken
<1>3. Flight' \subseteq Flight /\ m.call \in Flight
  BY <1>1, <1>2 DEF Flight
<1>4. \A c \in calls' : c.job # m.call.job
  BY <1>1, <1>2 DEF TokensInv
<1>5. \A c \in Flight' : c.job # m.call.job
  BY <1>2, <1>4 DEF Flight
<1>6. \A c \in Flight : c = m.call \/ c \in Flight'
  BY <1>1, <1>2 DEF Flight
<1>7. \A i \in DOMAIN mail' : \A c \in calls' : mail'[i].call.job # c.job
  BY <1>1, <1>2 DEF TokensInv
<1>8. TokensInv'
  BY <1>1, <1>2, <1>3, <1>7 DEF TokensInv
<1> QED BY <1>2, <1>3, <1>5, <1>6, <1>8

\* A closure is applied, and asks for something else.
LEMMA TakenAndAsked ==
  ASSUME TokensInv, NEW m, Take(m), NEW op, NEW about, NEW arg, Ask(op, about, arg),
         canceled \subseteq canceled', canceled' \subseteq 1..made', aborts' \subseteq canceled'
  PROVE  /\ TokensInv'
         /\ m.call \in Flight /\ \E i \in DOMAIN mail : m = mail[i]
         /\ \A c \in Flight' :
              c = Call(op, made + 1, about, arg) \/ (c \in Flight /\ c.job # m.call.job)
         /\ \A i \in DOMAIN mail' : \E j \in DOMAIN mail : mail'[i] = mail[j]
<1> DEFINE new == Call(op, made + 1, about, arg)
<1>1. made' = made + 1 /\ calls' = calls \cup {new}
  BY DEF Ask, NewJob, Call
<1>2. /\ 1 \in DOMAIN mail /\ m = mail[1]
      /\ \A i \in DOMAIN mail' : \E j \in DOMAIN mail :
           mail'[i] = mail[j] /\ mail'[i].call.job # m.call.job
      /\ \A i, j \in DOMAIN mail' : mail'[i].call.job = mail'[j].call.job => i = j
      /\ mail' \in Seq(Entries(mail'))
  BY MailTaken
<1>3. /\ new \in [op : {new.op}, job : 1..(made + 1), about : {new.about}, arg : {new.arg}]
      /\ new.job = made + 1 /\ made \in Nat
  BY DEF Call, TokensInv
<1> HIDE DEF new
<1>4. \A c \in Flight : c.job # made + 1 /\ c \in [op : {c.op}, job : 1..made', about : {c.about}, arg : {c.arg}]
  <2>1. 1..made \subseteq 1..made'
    BY <1>1, <1>3
  <2>2. made + 1 \notin 1..made
    BY <1>3
  <2> QED BY <2>1, <2>2 DEF TokensInv
<1>5. \A c \in calls : c \in Flight /\ c.job # m.call.job
  BY <1>2 DEF TokensInv, Flight
<1>6. \A i \in DOMAIN mail' : mail'[i].call \in Flight /\ mail'[i].call.job # m.call.job
  BY <1>2 DEF Flight
<1>7. \A c \in Flight' : c = new \/ (c \in Flight /\ c.job # m.call.job)
  BY <1>1, <1>5, <1>6 DEF Flight
<1>8. \A c \in Flight' : c \in [op : {c.op}, job : 1..made', about : {c.about}, arg : {c.arg}]
  BY <1>1, <1>3, <1>4, <1>7
<1>9. \A c, d \in calls' : c.job = d.job => c = d
  BY <1>1, <1>3, <1>4, <1>5 DEF TokensInv
<1>10. \A i \in DOMAIN mail' : \A c \in calls' : mail'[i].call.job # c.job
  BY <1>1, <1>2, <1>3, <1>4, <1>6 DEF TokensInv
<1>11. made' \in Nat
  BY <1>1, <1>3
<1>12. TokensInv'
  BY <1>2, <1>8, <1>9, <1>10, <1>11 DEF TokensInv
<1> QED BY <1>2, <1>7, <1>12 DEF new, Flight

LEMMA OnItsWay == ASSUME TokensInv, NEW m, Take(m) PROVE m.call \in Flight
BY MailTaken DEF Flight

-----------------------------------------------------------------------------
(* The lists.                                                              *)

LEMMA FeedRows ==
  ASSUME NEW feed, NEW rows \in Seq(RowsFor(feed))
  PROVE  /\ Len(rows) \in Nat /\ DOMAIN rows = 1..Len(rows)
         /\ \A i \in DOMAIN rows : /\ rows[i] \in RowsFor(feed) /\ rows[i].of = feed
                                   /\ rows[i].n \in Nat /\ rows[i].by \in Nat
<1>1. Len(rows) \in Nat /\ DOMAIN rows = 1..Len(rows)
  BY LenProperties
<1>2. \A i \in 1..Len(rows) : rows[i] \in RowsFor(feed)
  BY ElementOfSeq
<1> QED BY <1>1, <1>2 DEF RowsFor

ListOf(job, asked, canPage, rows, next, status, postJob, params, disabled) ==
  [job |-> job, asked |-> asked, canPage |-> canPage, rows |-> rows, next |-> next,
   status |-> status, postJob |-> postJob, params |-> params, disabled |-> disabled]

\* A list whose members are known.
LEMMA ListMembers ==
  ASSUME NEW job \in 0..made, NEW asked, NEW canPage \in BOOLEAN, NEW rows,
         NEW next \in 0..LastPage, NEW status, NEW postJob \in 0..made, NEW params, NEW disabled,
         rows \in Seq(RowsFor(asked)), made' = made,
         self' = ListOf(job, asked, canPage, rows, next, status, postJob, params, disabled)
  PROVE  /\ self' \in ListState'
         /\ self'.job = job /\ self'.asked = asked /\ self'.canPage = canPage
         /\ self'.rows = rows /\ self'.next = next /\ self'.status = status
         /\ self'.postJob = postJob
BY DEF ListOf, ListState

\* What an action of the user needs of the tokens it sets aside.
LEMMA SetAside ==
  ASSUME TokensInv, NEW job \in 0..made, NEW others, others \subseteq 0..made,
         CancelJob(job, others), made' \in {made, made + 1}
  PROVE  /\ canceled \subseteq canceled' /\ canceled' \subseteq 1..made'
         /\ aborts' \subseteq canceled'
         /\ \A j \in others \cup {job} : j # NoJob => j \in canceled'
<1>1. made \in Nat /\ canceled \subseteq 1..made /\ aborts \subseteq canceled
  BY DEF TokensInv
<1>2. canceled' = canceled \cup ((others \cup {job}) \ {NoJob})
  BY DEF CancelJob
<1>3. aborts' = aborts \cup ({job} \ {NoJob})
  BY DEF CancelJob
<1>4. made' \in Nat /\ made <= made'
  BY <1>1
<1>5. canceled' \subseteq 1..made'
  BY <1>1, <1>2, <1>4 DEF NoJob
<1> QED BY <1>1, <1>2, <1>3, <1>5

\* list() and search(): everything in flight is set aside and the list is empty.
LEMMA ListRestarts ==
  ASSUME TokensInv, ListInv, kind \in ListKinds, NEW r, NEW paged \in BOOLEAN,
         NEW arg \in 0..LastPage, Act(kind), Restart(r, paged), Ask(kind, r, arg),
         Paged(arg), kind = "channels" => ~paged
  PROVE  TokensInv' /\ ListInv'
<1> DEFINE new == Call(kind, made + 1, r, arg)
<1>1. made \in Nat /\ made' = made + 1 /\ mail' = mail /\ kind' = kind
  BY DEF TokensInv, Ask, NewJob, Act
<1>2. self.job \in 0..made /\ {self.postJob} \subseteq 0..made
  BY DEF ListInv, ShownInv, ListState
<1>3. CancelJob(self.job, {self.postJob}) /\ Started(r, paged)
  BY DEF Restart
<1>4. /\ canceled \subseteq canceled' /\ canceled' \subseteq 1..made' /\ aborts' \subseteq canceled'
      /\ \A j \in {self.job, self.postJob} : j # NoJob => j \in canceled'
  BY <1>1, <1>2, <1>3, SetAside
<1>5. TokensInv' /\ Flight' = Flight \cup {new}
  BY <1>1, <1>4, Asked
<1>6. new.op = kind /\ new.job = made + 1 /\ new.about = r /\ new.arg = arg
  BY DEF Call
<1> HIDE DEF new
<1>7. \A c \in Flight : c.job \in 1..made
  BY DEF TokensInv
<1>8. \A c \in Flight' : Live(c.job)' => c = new \/ c.op \notin {kind, "post"}
  <2> SUFFICES ASSUME NEW c \in Flight', Live(c.job)', c # new, c.op \in {kind, "post"}
               PROVE  FALSE
    OBVIOUS
  <2>1. c \in Flight /\ Live(c.job) /\ c.job # NoJob
    BY <1>4, <1>5, <1>7 DEF Live, NoJob
  <2>2. c.job \in {self.job, self.postJob}
    BY <2>1 DEF ListInv, LoadsInv, PostsInv
  <2> QED BY <1>4, <2>1, <2>2 DEF Live
<1>9. self' = [job |-> made + 1, asked |-> r, canPage |-> paged, rows |-> <<>>, next |-> NoPage,
               status |-> "Loading", postJob |-> self.postJob, params |-> self.params,
               disabled |-> FALSE]
  BY <1>3 DEF Started, NewJob, ListInv, ShownInv, ListState
<1>10. ShownInv'
  <2>1. <<>> \in Seq(RowsFor(r)) /\ NoPage \in 0..LastPage
    BY EmptySeq, ChainsAssumption DEF NoPage
  <2>2. self' \in ListState'
    BY <1>1, <1>2, <1>9, <2>1 DEF ListState
  <2>3. self'.rows = <<>> /\ self'.next = NoPage /\ (kind = "channels" => ~self'.canPage)
    BY <1>9
  <2>4. Rising(self'.rows) /\ Below(self'.rows, self'.next)
    BY <2>3, EmptySeq DEF Rising, Below
  <2> QED BY <1>1, <2>2, <2>3, <2>4 DEF ShownInv
<1>11. LoadsInv'
  <2>1. Below(self'.rows, PageOf(arg))
    BY <1>9, EmptySeq DEF Below
  <2> QED BY <1>1, <1>6, <1>8, <1>9, <2>1 DEF LoadsInv
<1>12. PostsInv'
  BY <1>6, <1>8 DEF PostsInv, ListKinds
<1>13. PagesInv' /\ ListOps'
  BY <1>1, <1>5, <1>6 DEF ListInv, PagesInv, PageOK, ListOps, Paged
<1> QED BY <1>1, <1>5, <1>10, <1>11, <1>12, <1>13 DEF ListInv

\* fetchMore(): nothing is loading, so the new load is the only one.
LEMMA ListGoesOn ==
  ASSUME TokensInv, ListInv, kind \in ListKinds, Act(kind), More,
         Ask(kind, self.asked, self.next)
  PROVE  TokensInv' /\ ListInv'
<1> DEFINE new == Call(kind, made + 1, self.asked, self.next)
<1>1. /\ made \in Nat /\ made' = made + 1 /\ mail' = mail /\ kind' = kind
      /\ UNCHANGED <<canceled, aborts>>
  BY DEF TokensInv, Ask, NewJob, Act, More
<1>2. self \in ListState
  BY DEF ListInv, ShownInv
<1>3. canceled' \subseteq 1..made' /\ aborts' \subseteq canceled'
  BY <1>1 DEF TokensInv
<1>4. TokensInv' /\ Flight' = Flight \cup {new}
  BY <1>1, <1>3, Asked
<1>5. new.op = kind /\ new.job = made + 1 /\ new.about = self.asked /\ new.arg = self.next
  BY DEF Call
<1> HIDE DEF new
<1>6. /\ self' = [self EXCEPT !.job = made + 1, !.status = "Loading"]
      /\ self.next # NoPage /\ self.status # "Loading"
  BY DEF More, NewJob
<1>7. /\ self'.job = made + 1 /\ self'.status = "Loading" /\ self'.asked = self.asked
      /\ self'.rows = self.rows /\ self'.next = self.next /\ self'.postJob = self.postJob
      /\ self'.canPage = self.canPage
  BY <1>2, <1>6 DEF ListState
<1>8. ShownInv'
  <2>1. self' = [job |-> made + 1, asked |-> self.asked, canPage |-> self.canPage,
                 rows |-> self.rows, next |-> self.next, status |-> "Loading",
                 postJob |-> self.postJob, params |-> self.params, disabled |-> self.disabled]
    BY <1>2, <1>6 DEF ListState
  <2>2. self' \in ListState'
    BY <1>1, <1>2, <2>1 DEF ListState
  <2> QED BY <1>1, <1>7, <2>2 DEF ListInv, ShownInv
<1>9. \A c \in Flight : c.op = kind => ~Live(c.job)
  BY <1>6 DEF ListInv, LoadsInv
<1>10. self.next \in 0..LastPage /\ Below(self.rows, PageOf(self.next))
  BY <1>2, <1>6 DEF ListInv, ShownInv, ListState, PageOf
<1>11. LoadsInv'
  BY <1>1, <1>4, <1>5, <1>7, <1>9, <1>10 DEF LoadsInv, Live
<1>12. PostsInv'
  BY <1>1, <1>4, <1>5, <1>7 DEF ListInv, PostsInv, Live, ListKinds
<1>13. PagesInv' /\ ListOps'
  BY <1>1, <1>4, <1>5, <1>6, <1>10 DEF ListInv, ShownInv, More, PagesInv, PageOK, ListOps, Paged
<1> QED BY <1>1, <1>4, <1>8, <1>11, <1>12, <1>13 DEF ListInv

\* cancel() and ~CommentModel(): the same, and nothing new is asked.
LEMMA ListCanceled ==
  ASSUME TokensInv, ListInv, kind \in ListKinds, Cancel
  PROVE  TokensInv' /\ ListInv'
<1>1. /\ made \in Nat /\ UNCHANGED <<calls, made, mail, kind>>
      /\ self' = [self EXCEPT !.job = NoJob, !.status = "Canceled"]
      /\ CancelJob(self.job, {self.postJob})
  BY DEF TokensInv, Cancel, Act
<1>2. self \in ListState /\ self.job \in 0..made /\ {self.postJob} \subseteq 0..made
  BY DEF ListInv, ShownInv, ListState
<1>3. /\ canceled \subseteq canceled' /\ canceled' \subseteq 1..made' /\ aborts' \subseteq canceled'
      /\ \A j \in {self.job, self.postJob} : j # NoJob => j \in canceled'
  BY <1>1, <1>2, SetAside
<1>4. Flight' = Flight /\ TokensInv'
  <2>1. Flight' = Flight
    BY <1>1 DEF Flight
  <2> QED BY <1>1, <1>3, <2>1 DEF TokensInv, Flight
<1>5. \A c \in Flight : c.job \in 1..made
  BY DEF TokensInv
<1>6. \A c \in Flight' : Live(c.job)' => c.op \notin {kind, "post"}
  <2> SUFFICES ASSUME NEW c \in Flight', Live(c.job)', c.op \in {kind, "post"}
               PROVE  FALSE
    OBVIOUS
  <2>1. c \in Flight /\ Live(c.job) /\ c.job # NoJob
    BY <1>3, <1>4, <1>5 DEF Live, NoJob
  <2>2. c.job \in {self.job, self.postJob}
    BY <2>1 DEF ListInv, LoadsInv, PostsInv
  <2> QED BY <1>3, <2>1, <2>2 DEF Live
<1>7. /\ self'.asked = self.asked /\ self'.rows = self.rows /\ self'.next = self.next
      /\ self'.canPage = self.canPage
  BY <1>1, <1>2 DEF ListState
<1>8. self' \in ListState'
  <2>1. self' = [job |-> NoJob, asked |-> self.asked, canPage |-> self.canPage,
                 rows |-> self.rows, next |-> self.next, status |-> "Canceled",
                 postJob |-> self.postJob, params |-> self.params, disabled |-> self.disabled]
    BY <1>1, <1>2 DEF ListState
  <2> QED BY <1>1, <1>2, <2>1 DEF ListState, NoJob
<1>9. ShownInv'
  BY <1>1, <1>7, <1>8 DEF ListInv, ShownInv
<1>10. LoadsInv' /\ PostsInv' /\ PagesInv' /\ ListOps'
  BY <1>1, <1>4, <1>6 DEF ListInv, LoadsInv, PostsInv, PagesInv, PageOK, ListOps, Paged
<1> QED BY <1>1, <1>4, <1>9, <1>10 DEF ListInv

\* What a row of one's own before the others does to them.
LEMMA OwnFirst ==
  ASSUME NEW feed, NEW rows \in Seq(RowsFor(feed)), NEW own \in RowsFor(feed), own.by # NoJob
  PROVE  /\ <<own>> \o rows \in Seq(RowsFor(feed))
         /\ <<own>> \o rows # <<>> /\ (<<own>> \o rows)[1] = own
         /\ Rising(rows) => Rising(<<own>> \o rows)
         /\ \A n : Below(rows, n) => Below(<<own>> \o rows, n)
<1> DEFINE new == <<own>> \o rows  S == RowsFor(feed)
<1>1. <<own>> \in Seq(S) /\ Len(<<own>>) = 1 /\ <<own>>[1] = own
  OBVIOUS
<1>2. Len(rows) \in Nat /\ DOMAIN rows = 1..Len(rows)
  BY LenProperties
<1>3. /\ new \in Seq(S) /\ Len(new) = 1 + Len(rows)
      /\ \A i \in 1..(1 + Len(rows)) : new[i] = IF i <= 1 THEN <<own>>[i] ELSE rows[i - 1]
  BY <1>1, ConcatProperties
<1>4. DOMAIN new = 1..(Len(rows) + 1)
  BY <1>2, <1>3, LenProperties
<1> HIDE DEF new, S
<1>5. new[1] = own
  BY <1>1, <1>2, <1>3
<1>6. \A i \in DOMAIN new : i # 1 => i - 1 \in DOMAIN rows /\ new[i] = rows[i - 1] /\ i \in Int
  BY <1>2, <1>3, <1>4
<1>7. new # <<>>
  BY <1>2, <1>3
<1>8. ASSUME Rising(rows) PROVE Rising(new)
  <2> SUFFICES ASSUME NEW i \in DOMAIN new, NEW j \in DOMAIN new, i < j,
                      new[i].by = NoJob, new[j].by = NoJob
               PROVE  new[i].n < new[j].n
    BY DEF Rising
  <2>1. i # 1 /\ j # 1
    BY <1>5
  <2>2. /\ i - 1 \in DOMAIN rows /\ new[i] = rows[i - 1] /\ i \in Int
        /\ j - 1 \in DOMAIN rows /\ new[j] = rows[j - 1] /\ j \in Int
    BY <1>6, <2>1
  <2>3. i - 1 < j - 1
    BY <2>2
  <2> QED BY <1>8, <2>2, <2>3 DEF Rising
<1>9. ASSUME NEW n, Below(rows, n) PROVE Below(new, n)
  BY <1>5, <1>6, <1>9 DEF Below
<1> QED BY <1>3, <1>5, <1>7, <1>8, <1>9 DEF new, S

\* post(): the comment goes first, and the posts before it are set aside.
LEMMA ListPosts ==
  ASSUME TokensInv, ListInv, kind \in ListKinds, Post
  PROVE  TokensInv' /\ ListInv'
<1> DEFINE new == Call("post", made + 1, self.asked, self.params)
           own == [of |-> self.asked, n |-> NoPage, by |-> made + 1]
<1>1. /\ made \in Nat /\ made' = made + 1 /\ UNCHANGED <<mail, kind, aborts>>
      /\ kind = "comments"
      /\ self' = [self EXCEPT !.rows = <<own>> \o @, !.postJob = made + 1]
      /\ canceled' = canceled \cup ({self.postJob} \ {NoJob})
      /\ Ask("post", self.asked, self.params)
  BY DEF TokensInv, Post, Act, Ask, NewJob, Own
<1>2. self \in ListState
  BY DEF ListInv, ShownInv
<1>3. canceled \subseteq canceled' /\ canceled' \subseteq 1..made' /\ aborts' \subseteq canceled'
  BY <1>1, <1>2 DEF TokensInv, ListState, NoJob
<1>4. TokensInv' /\ Flight' = Flight \cup {new}
  BY <1>1, <1>3, Asked
<1>5. new.op = "post" /\ new.job = made + 1
  BY DEF Call
<1>6. self.rows \in Seq(RowsFor(self.asked)) /\ own \in RowsFor(self.asked) /\ own.by = made + 1
  BY <1>1, <1>2 DEF ListState, RowsFor, NoPage
<1> HIDE DEF new, own
<1>7. /\ self'.rows = <<own>> \o self.rows /\ self'.postJob = made + 1 /\ self'.job = self.job
      /\ self'.asked = self.asked /\ self'.next = self.next /\ self'.canPage = self.canPage
      /\ self'.status = self.status
  BY <1>1, <1>2 DEF ListState
<1>8. /\ self'.rows \in Seq(RowsFor(self.asked))
      /\ self'.rows # <<>> /\ self'.rows[1] = own
      /\ Rising(self.rows) => Rising(self'.rows)
      /\ \A n : Below(self.rows, n) => Below(self'.rows, n)
  BY <1>1, <1>6, <1>7, OwnFirst DEF NoJob
<1>9. self' \in ListState'
  <2>1. self' = [job |-> self.job, asked |-> self.asked, canPage |-> self.canPage,
                 rows |-> self'.rows, next |-> self.next, status |-> self.status,
                 postJob |-> made + 1, params |-> self.params, disabled |-> self.disabled]
    BY <1>1, <1>2, <1>7 DEF ListState
  <2>2. /\ self.job \in 0..made' /\ made + 1 \in 0..made' /\ self.canPage \in BOOLEAN
        /\ self.next \in 0..LastPage
    BY <1>1, <1>2 DEF ListState
  <2>3. self'.rows \in Seq(RowsFor(self'.asked))
    BY <1>7, <1>8
  <2> QED BY <1>7, <2>1, <2>2, <2>3 DEF ListState
<1>10. ShownInv'
  BY <1>1, <1>7, <1>8, <1>9 DEF ListInv, ShownInv
<1>11. \A c \in Flight : Live(c.job)' => Live(c.job)
  BY <1>3 DEF Live
<1>12. LoadsInv'
  BY <1>1, <1>4, <1>5, <1>7, <1>8, <1>11 DEF ListInv, LoadsInv
<1>13. PostsInv'
  <2>1. \A c \in Flight : c.op = "post" => ~Live(c.job)'
    BY <1>1, <1>11 DEF ListInv, PostsInv, TokensInv, Live, NoJob
  <2> QED BY <1>4, <1>5, <1>6, <1>7, <1>8, <2>1 DEF PostsInv
<1>14. PagesInv' /\ ListOps'
  BY <1>1, <1>4, <1>5 DEF ListInv, PagesInv, PageOK, ListOps, Paged
<1> QED BY <1>1, <1>4, <1>10, <1>12, <1>13, <1>14 DEF ListInv

\* What the removal of a row does to the others.
LEMMA OneLess ==
  ASSUME NEW feed, NEW rows \in Seq(RowsFor(feed)), NEW i \in DOMAIN rows
  PROVE  /\ Without(rows, i) \in Seq(RowsFor(feed))
         /\ Rising(rows) => Rising(Without(rows, i))
         /\ \A n : Below(rows, n) => Below(Without(rows, i), n)
<1> DEFINE S == RowsFor(feed)  N == Len(rows)  new == Without(rows, i)
           before == SubSeq(rows, 1, i - 1)  after == SubSeq(rows, i + 1, N)
<1>1. N \in Nat /\ DOMAIN rows = 1..N /\ i \in 1..N
  BY LenProperties
<1>2. \A k \in 1..N : rows[k] \in S
  BY ElementOfSeq
<1>3. /\ before \in Seq(S) /\ Len(before) = i - 1
      /\ \A k \in 1..(i - 1) : before[k] = rows[k]
  <2>1. \A k \in 1..(i - 1) : rows[k] \in S
    BY <1>1, <1>2
  <2>2. 1 \in Int /\ i - 1 \in Int
    BY <1>1
  <2>3. /\ before \in Seq(S) /\ Len(before) = IF 1 <= i - 1 THEN (i - 1) - 1 + 1 ELSE 0
        /\ \A k \in 1..((i - 1) - 1 + 1) : before[k] = rows[1 + k - 1]
    BY <2>1, <2>2, SubSeqProperties
  <2> QED BY <1>1, <2>3
<1>4. /\ after \in Seq(S) /\ Len(after) = N - i
      /\ \A k \in 1..(N - i) : after[k] = rows[i + k]
  <2>1. \A k \in (i + 1)..N : rows[k] \in S
    BY <1>1, <1>2
  <2>2. i + 1 \in Int /\ N \in Int
    BY <1>1
  <2>3. /\ after \in Seq(S) /\ Len(after) = IF i + 1 <= N THEN N - (i + 1) + 1 ELSE 0
        /\ \A k \in 1..(N - (i + 1) + 1) : after[k] = rows[(i + 1) + k - 1]
    BY <2>1, <2>2, SubSeqProperties
  <2> QED BY <1>1, <2>3
<1>5. new = before \o after
  BY DEF Without
<1> HIDE DEF S, N, new, before, after
<1>6. /\ new \in Seq(S) /\ Len(new) = N - 1
      /\ \A k \in 1..(N - 1) : new[k] = IF k <= i - 1 THEN before[k] ELSE after[k - (i - 1)]
  <2>1. /\ before \o after \in Seq(S) /\ Len(before \o after) = Len(before) + Len(after)
        /\ \A k \in 1..(Len(before) + Len(after)) :
             (before \o after)[k] = IF k <= Len(before) THEN before[k] ELSE after[k - Len(before)]
    BY <1>3, <1>4, ConcatProperties
  <2>2. Len(before) + Len(after) = N - 1
    BY <1>1, <1>3, <1>4
  <2> QED BY <1>3, <1>5, <2>1, <2>2
<1>7. DOMAIN new = 1..(N - 1)
  BY <1>6, LenProperties
<1> DEFINE at(k) == IF k <= i - 1 THEN k ELSE k + 1
<1>8. ASSUME NEW k \in DOMAIN new PROVE at(k) \in DOMAIN rows /\ new[k] = rows[at(k)]
  <2>1. k \in Int /\ 1 <= k /\ k <= N - 1
    BY <1>1, <1>7
  <2>2. CASE k <= i - 1
    BY <1>1, <1>3, <1>6, <2>1, <2>2
  <2>3. CASE ~(k <= i - 1)
    <3>1. k - (i - 1) \in 1..(N - i) /\ i + (k - (i - 1)) = k + 1
      BY <1>1, <2>1, <2>3
    <3>2. new[k] = after[k - (i - 1)]
      BY <1>1, <1>6, <2>1, <2>3
    <3>3. new[k] = rows[k + 1]
      BY <1>4, <3>1, <3>2
    <3> QED BY <1>1, <2>1, <2>3, <3>3
  <2> QED BY <2>2, <2>3
<1>9. \A k, l \in DOMAIN new : k < l => at(k) < at(l)
  BY <1>1, <1>7
<1> HIDE DEF at
<1>10. Rising(rows) => Rising(new)
  BY <1>8, <1>9 DEF Rising
<1>11. \A n : Below(rows, n) => Below(new, n)
  BY <1>8 DEF Below
<1> QED BY <1>6, <1>10, <1>11 DEF S, new

\* unsubscribe(): the row goes, and what is in flight stays as it was.
LEMMA ListUnsubscribes ==
  ASSUME TokensInv, ListInv, kind \in ListKinds, NEW n, ChannelUnsubscribe(n)
  PROVE  TokensInv' /\ ListInv'
<1> DEFINE new == Call("drop", made + 1, n, NoPage)
<1>1. /\ made \in Nat /\ made' = made + 1 /\ UNCHANGED <<mail, kind, canceled, aborts>>
      /\ kind = "channels" /\ Ask("drop", n, NoPage)
  BY DEF TokensInv, ChannelUnsubscribe, Act, Ask, NewJob
<1>2. self \in ListState
  BY DEF ListInv, ShownInv
<1>3. canceled' \subseteq 1..made' /\ aborts' \subseteq canceled'
  BY <1>1 DEF TokensInv
<1>4. TokensInv' /\ Flight' = Flight \cup {new}
  BY <1>1, <1>3, Asked
<1>5. new.op = "drop"
  BY DEF Call
<1> HIDE DEF new
<1>6. self.rows \in Seq(RowsFor(self.asked))
  BY <1>2 DEF ListState
<1>7. /\ self'.job = self.job /\ self'.asked = self.asked /\ self'.canPage = self.canPage
      /\ self'.next = self.next /\ self'.status = self.status
      /\ self'.rows \in Seq(RowsFor(self.asked))
      /\ Rising(self.rows) => Rising(self'.rows)
      /\ \A k : Below(self.rows, k) => Below(self'.rows, k)
      /\ self' \in ListState'
  <2> DEFINE Thinned(rows) ==
               /\ rows \in Seq(RowsFor(self.asked))
               /\ Rising(self.rows) => Rising(rows)
               /\ \A k : Below(self.rows, k) => Below(rows, k)
  <2>1. \E rows : Thinned(rows) /\ self' = [self EXCEPT !.rows = rows]
    <3>1. CASE UNCHANGED self
      <4>1. self' = [self EXCEPT !.rows = self.rows]
        BY <1>2, <3>1 DEF ListState
      <4> QED BY <1>6, <4>1
    <3>2. ASSUME NEW i \in DOMAIN self.rows, self' = [self EXCEPT !.rows = Without(@, i)]
          PROVE  \E rows : Thinned(rows) /\ self' = [self EXCEPT !.rows = rows]
      <4>1. Thinned(Without(self.rows, i))
        BY <1>6, OneLess
      <4> QED BY <3>2, <4>1
    <3> QED BY <3>1, <3>2 DEF ChannelUnsubscribe
  <2>2. PICK rows : Thinned(rows) /\ self' = [self EXCEPT !.rows = rows]
    BY <2>1
  <2>3. self' = [job |-> self.job, asked |-> self.asked, canPage |-> self.canPage,
                 rows |-> rows, next |-> self.next, status |-> self.status,
                 postJob |-> self.postJob, params |-> self.params, disabled |-> self.disabled]
    BY <1>2, <2>2 DEF ListState
  <2>4. /\ self.job \in 0..made' /\ self.postJob \in 0..made' /\ self.canPage \in BOOLEAN
        /\ self.next \in 0..LastPage
    BY <1>1, <1>2 DEF ListState
  <2>5. self' \in ListState'
    BY <2>2, <2>3, <2>4 DEF ListState
  <2> QED BY <2>2, <2>3, <2>5
<1>8. ShownInv'
  BY <1>1, <1>7 DEF ListInv, ShownInv
<1>9. LoadsInv'
  BY <1>1, <1>4, <1>5, <1>7 DEF ListInv, LoadsInv, Live
<1>10. PostsInv'
  BY <1>1, <1>4, <1>5 DEF ListInv, ListOps, PostsInv
<1>11. PagesInv' /\ ListOps'
  BY <1>1, <1>4, <1>5 DEF ListInv, PagesInv, PageOK, ListOps, Paged
<1> QED BY <1>1, <1>4, <1>8, <1>9, <1>10, <1>11 DEF ListInv

\* A step of the worker or a closure that is dropped changes nothing shown.
LEMMA ListStays ==
  ASSUME ListInv, kind \in ListKinds, UNCHANGED <<self, kind, made, canceled>>,
         \A c \in Flight' : c \in Flight,
         \A i \in DOMAIN mail' :
           \/ \E j \in DOMAIN mail : mail'[i] = mail[j]
           \/ mail'[i].call.op = kind /\ mail'[i].out.ok => PageOK(mail'[i])
  PROVE  ListInv'
<1>1. ShownInv'
  BY DEF ListInv, ShownInv, ListState
<1>2. LoadsInv' /\ PostsInv' /\ ListOps'
  BY DEF ListInv, LoadsInv, PostsInv, ListOps, Paged, Live
<1>3. PagesInv'
  BY DEF ListInv, PagesInv, PageOK
<1> QED BY <1>1, <1>2, <1>3 DEF ListInv

\* What a page added at the end leaves of the order.
LEMMA PageAdded ==
  ASSUME NEW feed, NEW rows \in Seq(RowsFor(feed)), NEW more \in Seq(RowsFor(feed)),
         NEW p \in Nat, Rising(rows), Rising(more), Below(rows, p),
         \A i \in DOMAIN more : p <= more[i].n
  PROVE  /\ rows \o more \in Seq(RowsFor(feed))
         /\ Rising(rows \o more)
         /\ \A n \in Nat : p < n /\ Below(more, n) => Below(rows \o more, n)
         /\ rows # <<>> => rows \o more # <<>> /\ (rows \o more)[1] = rows[1]
<1> DEFINE S == RowsFor(feed)  N == Len(rows)  M == Len(more)  new == rows \o more
<1>1. N \in Nat /\ DOMAIN rows = 1..N /\ M \in Nat /\ DOMAIN more = 1..M
  BY LenProperties
<1>2. /\ new \in Seq(S) /\ Len(new) = N + M
      /\ \A i \in 1..(N + M) : new[i] = IF i <= N THEN rows[i] ELSE more[i - N]
  BY ConcatProperties
<1>3. DOMAIN new = 1..(N + M)
  BY <1>2, LenProperties
<1>4. /\ \A i \in DOMAIN rows : rows[i].n \in Nat
      /\ \A i \in DOMAIN more : more[i].n \in Nat
  BY FeedRows
<1>5. rows # <<>> => N >= 1
  BY <1>1, EmptySeq
<1> HIDE DEF S, N, M, new
<1>6. \A i \in DOMAIN new : i \in Int
  BY <1>3
<1>7. \A i \in DOMAIN new : i <= N => i \in DOMAIN rows /\ new[i] = rows[i]
  BY <1>1, <1>2, <1>3
<1>8. \A i \in DOMAIN new : ~(i <= N) => i - N \in DOMAIN more /\ new[i] = more[i - N]
  BY <1>1, <1>2, <1>3
<1>9. ASSUME NEW i \in DOMAIN new, NEW j \in DOMAIN new, i < j,
             new[i].by = NoJob, new[j].by = NoJob
      PROVE  new[i].n < new[j].n
  <2>1. CASE j <= N
    <3>1. i <= N
      BY <1>1, <1>6, <1>9, <2>1
    <3> QED BY <1>7, <1>9, <2>1, <3>1 DEF Rising
  <2>2. CASE ~(i <= N)
    <3>1. ~(j <= N) /\ i - N < j - N
      BY <1>1, <1>6, <1>9, <2>2
    <3> QED BY <1>8, <1>9, <2>2, <3>1 DEF Rising
  <2>3. CASE i <= N /\ ~(j <= N)
    <3>1. i \in DOMAIN rows /\ new[i] = rows[i] /\ j - N \in DOMAIN more /\ new[j] = more[j - N]
      BY <1>7, <1>8, <2>3
    <3>2. rows[i].n < p
      BY <1>9, <3>1 DEF Below
    <3>3. p <= more[j - N].n
      BY <3>1
    <3> QED BY <1>4, <3>1, <3>2, <3>3
  <2> QED BY <2>1, <2>2, <2>3
<1>10. Rising(new)
  BY <1>9 DEF Rising
<1>11. ASSUME NEW n \in Nat, p < n, Below(more, n), NEW i \in DOMAIN new, new[i].by = NoJob
       PROVE  new[i].n < n
  <2>1. CASE i <= N
    <3>1. i \in DOMAIN rows /\ new[i] = rows[i] /\ rows[i].n < p
      BY <1>7, <1>11, <2>1 DEF Below
    <3> QED BY <1>4, <1>11, <3>1
  <2>2. CASE ~(i <= N)
    BY <1>8, <1>11, <2>2 DEF Below
  <2> QED BY <2>1, <2>2
<1>12. \A n \in Nat : p < n /\ Below(more, n) => Below(new, n)
  BY <1>11 DEF Below
<1>13. rows # <<>> => new # <<>> /\ new[1] = rows[1]
  BY <1>1, <1>2, <1>3, <1>5, <1>7, EmptySeq
<1> QED BY <1>2, <1>10, <1>12, <1>13 DEF S, new

\* What is known when a load that is not dropped reaches the GUI thread.
LEMMA LoadArrives ==
  ASSUME TokensInv, ListInv, kind \in ListKinds, NEW m, Take(m), Quiet, ~Stale(m),
         m.call.op = kind
  PROVE  /\ TokensInv' /\ UNCHANGED <<kind, made, canceled>>
         /\ m.call.about = self.asked /\ m.call.arg \in 0..LastPage
         /\ Below(self.rows, PageOf(m.call.arg))
         /\ m.out.ok => PageOK(m)
         /\ \A c \in Flight' : c \in Flight /\ (c.op = kind => ~Live(c.job))
         /\ PagesInv' /\ ListOps'
<1>1. UNCHANGED <<kind, made, canceled>>
  BY DEF Take, Quiet
<1>2. /\ TokensInv' /\ Flight' \subseteq Flight
      /\ m.call \in Flight /\ \E i \in DOMAIN mail : m = mail[i]
      /\ \A c \in Flight' : c.job # m.call.job
      /\ \A i \in DOMAIN mail' : \E j \in DOMAIN mail : mail'[i] = mail[j]
  BY TakenOff
<1>3. Live(m.call.job)
  BY DEF Stale
<1>4. /\ m.call.job = self.job /\ m.call.about = self.asked /\ m.call.arg \in 0..LastPage
      /\ Below(self.rows, PageOf(m.call.arg))
  BY <1>2, <1>3 DEF ListInv, LoadsInv
<1>5. \A c \in Flight' : c \in Flight /\ (c.op = kind => ~Live(c.job))
  BY <1>2, <1>4 DEF ListInv, LoadsInv
<1>6. m.out.ok => PageOK(m)
  BY <1>2 DEF ListInv, PagesInv
<1>7. PagesInv' /\ ListOps'
  BY <1>1, <1>2 DEF ListInv, PagesInv, PageOK, ListOps, Paged
<1> QED BY <1>1, <1>2, <1>4, <1>5, <1>6, <1>7

\* A load failed: the rows stay, and nothing of it is left in flight.
LEMMA ListFails ==
  ASSUME TokensInv, ListInv, kind \in ListKinds, NEW m, Take(m), Quiet, ~Stale(m),
         m.call.op = kind, self' = Failure
  PROVE  TokensInv' /\ ListInv'
<1>1. /\ TokensInv' /\ UNCHANGED <<kind, made, canceled>>
      /\ \A c \in Flight' : c \in Flight /\ (c.op = kind => ~Live(c.job))
      /\ PagesInv' /\ ListOps'
  BY LoadArrives
<1>2. self \in ListState
  BY DEF ListInv, ShownInv
<1>3. self' = [job |-> self.job, asked |-> self.asked, canPage |-> self.canPage,
               rows |-> self.rows, next |-> self.next, status |-> "Failed",
               postJob |-> self.postJob, params |-> self.params, disabled |-> self.disabled]
  BY <1>2 DEF Failure, ListState
<1>4. self' \in ListState'
  BY <1>1, <1>2, <1>3 DEF ListState
<1>5. ShownInv'
  BY <1>1, <1>3, <1>4 DEF ListInv, ShownInv
<1>6. LoadsInv' /\ PostsInv'
  BY <1>1, <1>3 DEF ListInv, LoadsInv, PostsInv, Live
<1> QED BY <1>1, <1>5, <1>6 DEF ListInv

\* A page arrived: it goes to the end.
LEMMA ListGrows ==
  ASSUME TokensInv, ListInv, kind \in ListKinds, NEW m, Take(m), Quiet, ~Stale(m),
         m.call.op = kind, kind # "channels", m.out.ok, NEW params, NEW disabled,
         self' = ListOf(self.job, self.asked, self.canPage, self.rows \o m.out.rows,
                        IF self.canPage THEN m.out.next ELSE NoPage, "Ready", self.postJob,
                        params, disabled)
  PROVE  TokensInv' /\ ListInv'
<1>1. /\ TokensInv' /\ UNCHANGED <<kind, made, canceled>>
      /\ m.call.about = self.asked /\ m.call.arg \in 0..LastPage
      /\ Below(self.rows, PageOf(m.call.arg))
      /\ PageOK(m)
      /\ \A c \in Flight' : c \in Flight /\ (c.op = kind => ~Live(c.job))
      /\ PagesInv' /\ ListOps'
  BY LoadArrives
<1>2. self \in ListState
  BY DEF ListInv, ShownInv
<1> DEFINE p == PageOf(m.call.arg)  then == IF self.canPage THEN m.out.next ELSE NoPage
           rows == self.rows \o m.out.rows
<1>3. /\ self.rows \in Seq(RowsFor(self.asked)) /\ m.out.rows \in Seq(RowsFor(self.asked))
      /\ p \in Nat
  <2>1. m.out.rows \in Seq(PageRows(self.asked))
    BY <1>1 DEF PageOK
  <2>2. PageRows(self.asked) \subseteq RowsFor(self.asked)
    BY DEF PageRows, RowsFor, NoJob
  <2>3. m.out.rows \in Seq(RowsFor(self.asked))
    BY <2>1, <2>2, SeqWider
  <2> QED BY <1>1, <1>2, <2>3, ChainsAssumption DEF ListState, PageOf, NoPage
<1>4. Rising(self.rows) /\ Rising(m.out.rows) /\ \A i \in DOMAIN m.out.rows : p <= m.out.rows[i].n
  BY <1>1 DEF ListInv, ShownInv, PageOK
<1>5. self' = ListOf(self.job, self.asked, self.canPage, rows, then, "Ready", self.postJob,
                     params, disabled)
  OBVIOUS
<1>6. /\ then \in 0..LastPage
      /\ then # NoPage => self.canPage /\ p < then /\ Below(m.out.rows, then)
  BY <1>1, ChainsAssumption DEF PageOK, NoPage
<1> HIDE DEF p, then
<1>7. /\ rows \in Seq(RowsFor(self.asked)) /\ Rising(rows)
      /\ \A n \in Nat : p < n /\ Below(m.out.rows, n) => Below(rows, n)
      /\ self.rows # <<>> => rows # <<>> /\ rows[1] = self.rows[1]
  BY <1>1, <1>3, <1>4, PageAdded DEF p
<1> HIDE DEF rows
<1>8. /\ self' \in ListState'
      /\ self'.job = self.job /\ self'.asked = self.asked /\ self'.canPage = self.canPage
      /\ self'.rows = rows /\ self'.next = then /\ self'.postJob = self.postJob
  <2>1. self.job \in 0..made /\ self.postJob \in 0..made /\ self.canPage \in BOOLEAN
    BY <1>2 DEF ListState
  <2>2. rows \in Seq(RowsFor(self.asked)) /\ made' = made /\ then \in 0..LastPage
    BY <1>1, <1>6, <1>7
  <2> QED BY <1>5, <2>1, <2>2, ListMembers
<1>9. ShownInv'
  <2>1. then # NoPage => self.canPage /\ Below(rows, then)
    BY <1>6, <1>7, ChainsAssumption
  <2> QED BY <1>1, <1>2, <1>7, <1>8, <2>1 DEF ListInv, ShownInv
<1>10. LoadsInv'
  BY <1>1 DEF LoadsInv, Live
<1>11. PostsInv'
  BY <1>1, <1>8, <1>7 DEF ListInv, PostsInv, Live
<1> QED BY <1>1, <1>9, <1>10, <1>11 DEF ListInv

\* The channels arrived: they replace what is shown.
LEMMA ChannelsReplaced ==
  ASSUME TokensInv, ListInv, kind \in ListKinds, NEW m, Take(m), Quiet, ~Stale(m),
         m.call.op = kind, kind = "channels", m.out.ok,
         self' = ListOf(self.job, self.asked, self.canPage, m.out.rows, NoPage, "Ready",
                        self.postJob, self.params, self.disabled)
  PROVE  TokensInv' /\ ListInv'
<1>1. /\ TokensInv' /\ UNCHANGED <<kind, made, canceled>>
      /\ m.call.about = self.asked
      /\ PageOK(m)
      /\ \A c \in Flight' : c \in Flight /\ (c.op = kind => ~Live(c.job))
      /\ PagesInv' /\ ListOps'
  BY LoadArrives
<1>2. self \in ListState /\ ~self.canPage
  BY DEF ListInv, ShownInv
<1> DEFINE rows == m.out.rows
<1>3. rows \in Seq(RowsFor(self.asked)) /\ Rising(rows)
  <2>1. rows \in Seq(PageRows(self.asked))
    BY <1>1 DEF PageOK
  <2>2. PageRows(self.asked) \subseteq RowsFor(self.asked)
    BY DEF PageRows, RowsFor, NoJob
  <2>3. rows \in Seq(RowsFor(self.asked))
    BY <2>1, <2>2, SeqWider
  <2> QED BY <1>1, <2>3 DEF PageOK
<1>4. self' = ListOf(self.job, self.asked, self.canPage, rows, NoPage, "Ready", self.postJob,
                     self.params, self.disabled)
  OBVIOUS
<1> HIDE DEF rows
<1>5. /\ self' \in ListState'
      /\ self'.canPage = self.canPage /\ self'.rows = rows /\ self'.next = NoPage
  <2>1. /\ self.job \in 0..made /\ self.postJob \in 0..made /\ self.canPage \in BOOLEAN
        /\ NoPage \in 0..LastPage
    BY <1>2, ChainsAssumption DEF ListState, NoPage
  <2> QED BY <1>1, <1>3, <1>4, <2>1, ListMembers
<1>6. ShownInv'
  BY <1>1, <1>2, <1>3, <1>5 DEF ListInv, ShownInv
<1>7. LoadsInv'
  BY <1>1 DEF LoadsInv, Live
<1>8. PostsInv'
  BY <1>1 DEF ListOps, PostsInv
<1> QED BY <1>1, <1>6, <1>7, <1>8 DEF ListInv

\* A post failed: the first row is its comment.
LEMMA PostReverts ==
  ASSUME TokensInv, ListInv, kind \in ListKinds, NEW m, Take(m), Quiet, ~Stale(m),
         revertPost(m)
  PROVE  TokensInv' /\ ListInv'
<1>1. UNCHANGED <<kind, made, canceled>>
  BY DEF Take, Quiet
<1>2. /\ TokensInv' /\ Flight' \subseteq Flight
      /\ m.call \in Flight
      /\ \A c \in Flight' : c.job # m.call.job
      /\ \A i \in DOMAIN mail' : \E j \in DOMAIN mail : mail'[i] = mail[j]
  BY TakenOff
<1>3. Live(m.call.job) /\ m.call.op = "post" /\ kind = "comments"
  BY <1>2 DEF Stale, revertPost, ListInv, ListOps, ListKinds
<1>4. m.call.job = self.postJob /\ self.rows # <<>>
  BY <1>2, <1>3 DEF ListInv, PostsInv
<1>5. self \in ListState /\ self.rows \in Seq(RowsFor(self.asked))
  BY DEF ListInv, ShownInv, ListState
<1> DEFINE rows == Tail(self.rows)
<1>6. self' = [job |-> self.job, asked |-> self.asked, canPage |-> self.canPage,
               rows |-> rows, next |-> self.next, status |-> self.status,
               postJob |-> self.postJob, params |-> self.params, disabled |-> self.disabled]
  BY <1>4, <1>5 DEF revertPost, ListState
<1>7. /\ rows \in Seq(RowsFor(self.asked))
      /\ \A i \in DOMAIN rows : i \in Int /\ i + 1 \in DOMAIN self.rows /\ rows[i] = self.rows[i + 1]
  <2>1. /\ rows \in Seq(RowsFor(self.asked)) /\ Len(rows) = Len(self.rows) - 1
        /\ \A i \in 1..Len(rows) : rows[i] = self.rows[i + 1]
    BY <1>4, <1>5, HeadTailProperties
  <2>2. Len(self.rows) \in Nat /\ DOMAIN self.rows = 1..Len(self.rows)
    BY <1>5, LenProperties
  <2>3. DOMAIN rows = 1..Len(rows)
    BY <2>1, LenProperties
  <2> HIDE DEF rows
  <2> QED BY <2>1, <2>2, <2>3
<1> HIDE DEF rows
<1>8. Rising(rows)
  <2> SUFFICES ASSUME NEW i \in DOMAIN rows, NEW j \in DOMAIN rows, i < j,
                      rows[i].by = NoJob, rows[j].by = NoJob
               PROVE  rows[i].n < rows[j].n
    BY DEF Rising
  <2>1. i + 1 < j + 1
    BY <1>7
  <2> QED BY <1>7, <2>1 DEF ListInv, ShownInv, Rising
<1>9. \A n : Below(self.rows, n) => Below(rows, n)
  BY <1>7 DEF Below
<1>10. self' \in ListState'
  BY <1>1, <1>5, <1>6, <1>7 DEF ListState
<1>11. ShownInv'
  BY <1>1, <1>6, <1>8, <1>9, <1>10 DEF ListInv, ShownInv
<1>12. LoadsInv'
  BY <1>1, <1>2, <1>6, <1>9 DEF ListInv, LoadsInv, Live
<1>13. PostsInv'
  BY <1>1, <1>2, <1>4 DEF ListInv, PostsInv, Live
<1>14. PagesInv' /\ ListOps'
  BY <1>1, <1>2 DEF ListInv, PagesInv, PageOK, ListOps, Paged
<1> QED BY <1>1, <1>2, <1>11, <1>12, <1>13, <1>14 DEF ListInv

\* What the chains report is the page they were asked for.
LEMMA ListReplies ==
  ASSUME TokensInv, ListInv, kind \in ListKinds, NEW c \in calls, Reply(c)
  PROVE  TokensInv' /\ ListInv'
<1>1. UNCHANGED <<self, kind, made, canceled, aborts>>
  BY DEF Reply
<1>2. /\ (c.op = kind /\ Paged(c.arg)) \/ c.op = "post" \/ c.op = "drop"
      /\ c \in Flight
  BY DEF ListInv, ListOps, Flight
<1>3. ASSUME NEW out, Report(c, out), c.op = kind /\ out.ok => PageOK([call |-> c, out |-> out])
      PROVE  TokensInv' /\ ListInv'
  <2>1. /\ TokensInv' /\ Flight' = Flight
        /\ \A i \in DOMAIN mail' : \/ i \in DOMAIN mail /\ mail'[i] = mail[i]
                                   \/ mail'[i] = [call |-> c, out |-> out]
    BY <1>1, <1>3, Reported
  <2>2. \A i \in DOMAIN mail' :
          \/ \E j \in DOMAIN mail : mail'[i] = mail[j]
          \/ mail'[i].call.op = kind /\ mail'[i].out.ok => PageOK(mail'[i])
    BY <1>3, <2>1
  <2> QED BY <1>1, <2>1, <2>2, ListStays
<1>4. ASSUME calls' \subseteq calls, UNCHANGED mail PROVE TokensInv' /\ ListInv'
  <2>1. TokensInv' /\ Flight' \subseteq Flight
    BY <1>1, <1>4, Dropped
  <2> QED BY <1>1, <1>4, <2>1, ListStays
<1>5. ASSUME NEW rows, NEW next, Paged(c.arg),
             rows = <<>> \/ rows = <<RowOf(c, PageOf(c.arg))>>,
             next = NoPage \/ (next \in 0..LastPage /\ PageOf(c.arg) < next),
             NEW out, out.rows = rows, out.next = next
      PROVE  PageOK([call |-> c, out |-> out])
  <2>1. PageOf(c.arg) \in Nat
    BY <1>5, ChainsAssumption DEF PageOf, Paged, NoPage
  <2>2. /\ rows \in Seq(PageRows(c.about))
        /\ \A i \in DOMAIN rows : i = 1 /\ rows[i].n = PageOf(c.arg)
    <3>1. RowOf(c, PageOf(c.arg)) \in PageRows(c.about)
      BY <2>1 DEF RowOf, PageRows
    <3>2. RowOf(c, PageOf(c.arg)).n = PageOf(c.arg)
      BY DEF RowOf
    <3>3. PICK row : row = RowOf(c, PageOf(c.arg))
      OBVIOUS
    <3>4. CASE rows = <<>>
      BY <3>4, EmptySeq
    <3>5. CASE rows = <<row>>
      BY <3>1, <3>2, <3>3, <3>5
    <3> QED BY <1>5, <3>3, <3>4, <3>5
  <2>3. next \in 0..LastPage
    BY <1>5, ChainsAssumption DEF NoPage
  <2> QED BY <1>5, <2>1, <2>2, <2>3 DEF PageOK, Rising, Below, Paged, NoPage
<1>6. Paged(c.arg) => /\ NextOf(PageOf(c.arg)) = NoPage \/ PageOf(c.arg) < NextOf(PageOf(c.arg))
                      /\ NextOf(PageOf(c.arg)) \in 0..LastPage
  BY ChainsAssumption DEF NextOf, PageOf, Paged, NoPage
<1>7. CASE fetchVideoList(c) \/ fetchPlaylists(c)
  <2>1. c.op = kind /\ Paged(c.arg) /\ PageOf(c.arg) = c.arg
    BY <1>2, <1>7 DEF fetchVideoList, fetchPlaylists, Paged, PageOf
  <2>2. CASE Report(c, NotOk)
    BY <1>3, <2>2 DEF NotOk
  <2>3. ASSUME NEW rows \in {<<>>, <<RowOf(c, c.arg)>>},
               Report(c, [ok |-> TRUE, rows |-> rows, next |-> NextOf(c.arg)])
        PROVE  TokensInv' /\ ListInv'
    <3>1. PICK out : out = [ok |-> TRUE, rows |-> rows, next |-> NextOf(c.arg)]
      OBVIOUS
    <3>2. PageOK([call |-> c, out |-> out])
      BY <1>5, <1>6, <2>1, <2>3, <3>1
    <3> QED BY <1>3, <2>3, <3>1, <3>2
  <2> QED BY <1>7, <2>2, <2>3 DEF fetchVideoList, fetchPlaylists
<1>8. CASE fetchChannelList(c)
  <2>1. c.op = kind /\ kind = "channels" /\ Paged(c.arg)
    BY <1>2, <1>8 DEF fetchChannelList
  <2>2. CASE Report(c, NotOk)
    BY <1>3, <2>2 DEF NotOk
  <2>3. ASSUME NEW out,
               out = [ok |-> TRUE, rows |-> <<RowOf(c, 1), RowOf(c, 2)>>, next |-> NextOf(1)],
               Report(c, out)
        PROVE  TokensInv' /\ ListInv'
    <3>1. NextOf(1) \in 0..LastPage
      BY ChainsAssumption DEF NextOf, NoPage
    <3>2. out.rows = <<RowOf(c, 1), RowOf(c, 2)>> /\ out.next = NextOf(1)
      BY <2>3
    <3>3. /\ RowOf(c, 1) \in PageRows(c.about) /\ RowOf(c, 2) \in PageRows(c.about)
          /\ RowOf(c, 1).n = 1 /\ RowOf(c, 2).n = 2
      BY DEF RowOf, PageRows
    <3>4. PICK one, two : one = RowOf(c, 1) /\ two = RowOf(c, 2)
      OBVIOUS
    <3>5. <<one, two>> \in Seq(PageRows(c.about)) /\ Rising(<<one, two>>)
      BY <3>3, <3>4 DEF Rising
    <3>6. \A i \in DOMAIN <<one, two>> : 1 <= <<one, two>>[i].n
      BY <3>3, <3>4
    <3>7. out.rows = <<one, two>> /\ PageOf(c.arg) = 1 /\ c.arg \in 0..LastPage
      BY <2>1, <3>2, <3>4 DEF Paged, PageOf
    <3>8. PageOK([call |-> c, out |-> out])
      BY <2>1, <3>1, <3>2, <3>5, <3>6, <3>7 DEF PageOK
    <3> QED BY <1>3, <2>3, <3>8
  <2> QED BY <1>8, <2>2, <2>3 DEF fetchChannelList
<1>9. CASE fetchComments(c)
  <2>1. c.op = kind /\ Paged(c.arg)
    BY <1>2, <1>9 DEF fetchComments
  <2>2. CASE Report(c, NotOk)
    BY <1>3, <2>2 DEF NotOk
  <2>3. ASSUME c.arg = NoPage, GoOn(c, 1) PROVE TokensInv' /\ ListInv'
    <3> DEFINE new == Call(c.op, c.job, c.about, 1)
    <3>1. /\ TokensInv' /\ mail' = mail
          /\ Flight' \subseteq Flight \cup {new}
      BY <1>1, <2>3, WentOn
    <3>2. new.op = kind /\ new.job = c.job /\ new.about = c.about /\ new.arg = 1
      BY <2>1 DEF Call
    <3> HIDE DEF new
    <3>3. kind = "comments" /\ 1 \in 0..LastPage /\ PageOf(c.arg) = 1 /\ PageOf(1) = 1
      BY <1>9, <2>1, <2>3, ChainsAssumption DEF fetchComments, PageOf, NoPage
    <3>4. ShownInv'
      BY <1>1 DEF ListInv, ShownInv, ListState
    <3>5. LoadsInv'
      BY <1>1, <1>2, <2>1, <3>1, <3>2, <3>3 DEF ListInv, LoadsInv, Live
    <3>6. PostsInv'
      BY <1>1, <3>1, <3>2, <3>3 DEF ListInv, PostsInv, Live
    <3>7. PagesInv' /\ ListOps'
      BY <1>1, <3>1, <3>2, <3>3 DEF ListInv, PagesInv, PageOK, ListOps, Paged, NoPage
    <3> QED BY <1>1, <3>1, <3>4, <3>5, <3>6, <3>7 DEF ListInv
  <2>4. ASSUME NEW out, out.rows = <<>>, out.next = NoPage, Report(c, out)
        PROVE  TokensInv' /\ ListInv'
    <3>1. PageOK([call |-> c, out |-> out])
      BY <1>5, <2>1, <2>4
    <3> QED BY <1>3, <2>4, <3>1
  <2>5. ASSUME c.arg # NoPage, NEW rows \in {<<>>, <<RowOf(c, c.arg)>>}, NEW out,
               out.rows = rows, out.next = NextOf(c.arg), Report(c, out)
        PROVE  TokensInv' /\ ListInv'
    <3>1. PageOf(c.arg) = c.arg
      BY <2>5 DEF PageOf
    <3>2. PageOK([call |-> c, out |-> out])
      BY <1>5, <1>6, <2>1, <2>5, <3>1
    <3> QED BY <1>3, <2>5, <3>2
  <2>6. \/ Report(c, NotOk)
        \/ c.arg = NoPage /\ GoOn(c, 1)
        \/ \E out : out.rows = <<>> /\ out.next = NoPage /\ Report(c, out)
        \/ /\ c.arg # NoPage
           /\ \E rows \in {<<>>, <<RowOf(c, c.arg)>>} :
                \E out : out.rows = rows /\ out.next = NextOf(c.arg) /\ Report(c, out)
    <3>1. ASSUME Report(c, [ok |-> TRUE, rows |-> <<>>, next |-> NoPage,
                            params |-> Nothing, disabled |-> TRUE])
          PROVE  \E out : out.rows = <<>> /\ out.next = NoPage /\ Report(c, out)
      <4>1. PICK out : out = [ok |-> TRUE, rows |-> <<>>, next |-> NoPage,
                              params |-> Nothing, disabled |-> TRUE]
        OBVIOUS
      <4>2. out.rows = <<>> /\ out.next = NoPage /\ Report(c, out)
        BY <3>1, <4>1
      <4> QED BY <4>2
    <3>2. ASSUME NEW rows, NEW params,
                 Report(c, [ok |-> TRUE, rows |-> rows, next |-> NextOf(c.arg),
                            params |-> params, disabled |-> FALSE])
          PROVE  \E out : out.rows = rows /\ out.next = NextOf(c.arg) /\ Report(c, out)
      <4>1. PICK out : out = [ok |-> TRUE, rows |-> rows, next |-> NextOf(c.arg),
                              params |-> params, disabled |-> FALSE]
        OBVIOUS
      <4>2. out.rows = rows /\ out.next = NextOf(c.arg) /\ Report(c, out)
        BY <3>2, <4>1
      <4> QED BY <4>2
    <3> QED BY <1>9, <3>1, <3>2, Zenon DEF fetchComments
  <2> QED BY <2>2, <2>3, <2>4, <2>5, <2>6
<1>10. CASE postComment(c) \/ dropSubscription(c)
  <2>1. c.op # kind
    BY <1>10 DEF postComment, dropSubscription, ListKinds
  <2>2. CASE End(c)
    <3>1. calls' \subseteq calls /\ UNCHANGED mail
      BY <2>2 DEF End
    <3> QED BY <1>4, <3>1
  <2>3. CASE Report(c, NotOk)
    BY <1>3, <2>1, <2>3
  <2> QED BY <1>10, <2>2, <2>3 DEF postComment, dropSubscription
<1>11. /\ ~playerTry(c) /\ ~submitAction(c) /\ ~fetchChannelById(c)
       /\ ~fetchChannelSubscribed(c) /\ ~fetchSearchSuggestions(c)
  BY <1>2 DEF playerTry, submitAction, fetchChannelById, fetchChannelSubscribed,
              fetchSearchSuggestions, ListKinds
<1> QED BY <1>7, <1>8, <1>9, <1>10, <1>11 DEF Reply

LEMMA ListAborts ==
  ASSUME TokensInv, ListInv, kind \in ListKinds, NEW j, Abort(j)
  PROVE  TokensInv' /\ ListInv'
<1>1. calls' \subseteq calls /\ aborts' \subseteq aborts /\ UNCHANGED <<mail, kind, self, made, canceled>>
  BY DEF Abort
<1>2. TokensInv' /\ Flight' \subseteq Flight
  BY <1>1, Dropped
<1> QED BY <1>1, <1>2, ListStays

LEMMA ListDelivers ==
  ASSUME TokensInv, ListInv, kind \in ListKinds, Deliver
  PROVE  TokensInv' /\ ListInv'
<1>1. PICK m : Take(m) /\ \/ Stale(m) /\ UNCHANGED self /\ Quiet
                          \/ ~Stale(m) /\ (ListApplies(m) \/ HeaderApplies(m))
  BY DEF Deliver
<1>2. m.call \in Flight /\ (m.call.op = kind \/ m.call.op = "post" \/ m.call.op = "drop")
  <2>1. m.call \in Flight
    BY <1>1, OnItsWay
  <2> QED BY <2>1 DEF ListInv, ListOps
<1>3. CASE Stale(m) /\ UNCHANGED self /\ Quiet
  <2>1. /\ TokensInv' /\ Flight' \subseteq Flight
        /\ \A i \in DOMAIN mail' : \E j \in DOMAIN mail : mail'[i] = mail[j]
    BY <1>1, <1>3, TakenOff
  <2>2. UNCHANGED <<self, kind, made, canceled>>
    BY <1>1, <1>3 DEF Take, Quiet
  <2> QED BY <2>1, <2>2, ListStays
<1>4. CASE ~Stale(m) /\ ListApplies(m)
  <2>1. Quiet
    BY <1>4 DEF ListApplies
  <2>2. self \in ListState /\ (kind = "channels" => ~self.canPage)
    BY DEF ListInv, ShownInv
  <2>3. CASE applyList(m)
    <3>1. m.call.op = kind /\ kind # "channels"
      BY <1>2, <2>3 DEF applyList
    <3>2. CASE m.out.ok
      <4>1. self' = ListOf(self.job, self.asked, self.canPage, self.rows \o m.out.rows,
                           IF self.canPage THEN m.out.next ELSE NoPage, "Ready", self.postJob,
                           self.params, self.disabled)
        BY <2>2, <2>3, <3>2 DEF applyList, Page, ListOf, ListState
      <4> QED BY <1>1, <1>4, <2>1, <3>1, <3>2, <4>1, ListGrows
    <3>3. CASE ~m.out.ok
      BY <1>1, <1>4, <2>1, <2>3, <3>1, <3>3, ListFails DEF applyList
    <3> QED BY <3>2, <3>3
  <2>4. CASE applyUsers(m)
    <3>1. m.call.op = kind /\ kind = "channels"
      BY <1>2, <2>4 DEF applyUsers
    <3>2. CASE m.out.ok
      <4>1. self' = ListOf(self.job, self.asked, self.canPage, m.out.rows, NoPage, "Ready",
                           self.postJob, self.params, self.disabled)
        BY <2>2, <2>4, <3>1, <3>2 DEF applyUsers, Page, ListOf, ListState
      <4> QED BY <1>1, <1>4, <2>1, <3>1, <3>2, <4>1, ChannelsReplaced
    <3>3. CASE ~m.out.ok
      BY <1>1, <1>4, <2>1, <2>4, <3>1, <3>3, ListFails DEF applyUsers
    <3> QED BY <3>2, <3>3
  <2>5. CASE applyComments(m)
    <3>1. m.call.op = kind /\ kind # "channels"
      BY <1>2, <2>5 DEF applyComments
    <3>2. CASE m.out.ok
      <4>1. \E params, disabled :
              self' = ListOf(self.job, self.asked, self.canPage, self.rows \o m.out.rows,
                             IF self.canPage THEN m.out.next ELSE NoPage, "Ready", self.postJob,
                             params, disabled)
        BY <2>2, <2>5, <3>2 DEF applyComments, Page, ListOf, ListState
      <4> QED BY <1>1, <1>4, <2>1, <3>1, <3>2, <4>1, ListGrows
    <3>3. CASE ~m.out.ok
      BY <1>1, <1>4, <2>1, <2>5, <3>1, <3>3, ListFails DEF applyComments
    <3> QED BY <3>2, <3>3
  <2>6. CASE revertPost(m)
    BY <1>1, <1>4, <2>1, <2>6, PostReverts
  <2>7. ~applySuggestions(m)
    BY <1>2 DEF applySuggestions, ListKinds
  <2> QED BY <1>4, <2>3, <2>4, <2>5, <2>6, <2>7 DEF ListApplies
<1>5. ~HeaderApplies(m)
  BY <1>2 DEF HeaderApplies, applyChannel, applySubscribedState, revertSubscribe, applyPlayer,
              ListKinds
<1> QED BY <1>1, <1>3, <1>4, <1>5

LEMMA ListStep ==
  ASSUME TokensInv, ListInv, kind \in ListKinds, Next
  PROVE  TokensInv' /\ ListInv'
<1>1. 1 \in 0..LastPage /\ NoPage \in 0..LastPage /\ NoPage # 1
  BY ChainsAssumption DEF NoPage
<1>2. CASE ListActs
  <2>1. ASSUME NEW r, VideoList(r) \/ VideoSearch(r) PROVE TokensInv' /\ ListInv'
    <3>1. kind = "videos" /\ Paged(1)
      BY <1>1, <2>1 DEF VideoList, VideoSearch, Act, Paged
    <3> QED BY <1>1, <2>1, <3>1, ListRestarts DEF VideoList, VideoSearch
  <2>2. ASSUME NEW r, PlaylistList(r) \/ PlaylistSearch(r) PROVE TokensInv' /\ ListInv'
    <3>1. kind = "playlists" /\ Paged(1)
      BY <1>1, <2>2 DEF PlaylistList, PlaylistSearch, Act, Paged
    <3> QED BY <1>1, <2>2, <3>1, ListRestarts DEF PlaylistList, PlaylistSearch
  <2>3. ASSUME NEW r, ChannelList(r) PROVE TokensInv' /\ ListInv'
    <3>1. kind = "channels" /\ Paged(NoPage)
      BY <1>1, <2>3 DEF ChannelList, Act, Paged
    <3> QED BY <1>1, <2>3, <3>1, ListRestarts DEF ChannelList
  <2>4. ASSUME NEW r, CommentList(r) PROVE TokensInv' /\ ListInv'
    <3>1. kind = "comments" /\ Paged(NoPage)
      BY <1>1, <2>4 DEF CommentList, Act, Paged
    <3> QED BY <1>1, <2>4, <3>1, ListRestarts DEF CommentList
  <2>5. CASE VideoMore \/ PlaylistMore \/ CommentMore
    BY <2>5, ListGoesOn DEF VideoMore, PlaylistMore, CommentMore, Act
  <2>6. CASE Cancel
    BY <2>6, ListCanceled
  <2>7. CASE Post
    BY <2>7, ListPosts
  <2>8. ASSUME NEW n, ChannelUnsubscribe(n) PROVE TokensInv' /\ ListInv'
    BY <2>8, ListUnsubscribes
  <2>9. \A q : ~Query(q)
    BY DEF Query, Act, ListKinds
  <2> QED BY <1>2, <2>1, <2>2, <2>3, <2>4, <2>5, <2>6, <2>7, <2>8, <2>9 DEF ListActs
<1>3. ~HeaderActs
  BY DEF HeaderActs, LoadById, LoadStreams, CancelChannel, ApplySubscribe, CancelStreams, Act,
         ListKinds
<1>4. ASSUME NEW c \in calls, Reply(c) PROVE TokensInv' /\ ListInv'
  BY <1>4, ListReplies
<1>5. ASSUME NEW j, Abort(j) PROVE TokensInv' /\ ListInv'
  BY <1>5, ListAborts
<1>6. CASE Deliver
  BY <1>6, ListDelivers
<1> QED BY <1>2, <1>3, <1>4, <1>5, <1>6 DEF Next

-----------------------------------------------------------------------------
(* The search box.                                                         *)

\* SuggestionsOfTheQuery, said of what is in flight.
Due == self.results \notin {self.query, "none"} =>
         self.query # Nothing /\ \E c \in Flight : c.job = self.job

LEMMA DueIsShown == ASSUME kind = "suggest" PROVE SuggestionsOfTheQuery <=> Due
BY DEF SuggestionsOfTheQuery, Due, Flight

LEMMA SuggestQueries ==
  ASSUME TokensInv, SuggestInv, NEW q, Query(q)
  PROVE  TokensInv' /\ SuggestInv'
<1>1. /\ kind = "suggest" /\ kind' = kind /\ mail' = mail /\ made \in Nat
      /\ CancelJob(self.job, {}) /\ Typed(q)
  BY DEF Query, Act, TokensInv
<1>2. /\ self.job \in 0..made
      /\ self \in [job : 0..made, query : {self.query}, live : {self.live}, results : {self.results}]
  BY <1>1 DEF SuggestInv
<1>3. ASSUME made' \in {made, made + 1}
      PROVE  /\ canceled \subseteq canceled' /\ canceled' \subseteq 1..made'
             /\ aborts' \subseteq canceled'
             /\ self.job # NoJob => self.job \in canceled'
  BY <1>1, <1>2, <1>3, SetAside
<1>4. \A c \in Flight : c.job \in canceled' \/ (c.job \notin canceled' /\ c.job \in 1..made)
  BY DEF TokensInv
<1>5. ASSUME made' \in {made, made + 1} PROVE \A c \in Flight : ~Live(c.job)'
  BY <1>1, <1>2, <1>3, <1>5 DEF SuggestInv, Live, TokensInv, NoJob
<1>6. CASE q = Nothing
  <2>1. /\ calls' = calls /\ made' = made
        /\ self' = [job |-> NoJob, query |-> q, live |-> FALSE, results |-> q]
    BY <1>1, <1>2, <1>6 DEF Typed
  <2>2. Flight' = Flight
    BY <1>1, <2>1 DEF Flight
  <2>3. TokensInv'
    BY <1>1, <1>3, <2>1, <2>2 DEF TokensInv
  <2>4. \A c \in Flight' : ~Live(c.job)'
    BY <1>5, <2>1, <2>2
  <2>5. Live(self.job)' /\ Due'
    BY <1>3, <2>1 DEF Live, Due, NoJob
  <2>6. SuggestionsOfTheQuery'
    BY <2>5 DEF SuggestionsOfTheQuery, Due, Flight
  <2> QED BY <1>1, <2>1, <2>2, <2>3, <2>4, <2>5, <2>6 DEF SuggestInv, NoJob
<1>7. CASE q # Nothing
  <2> DEFINE new == Call("suggest", made + 1, q, NoPage)
  <2>1. /\ Ask("suggest", q, NoPage) /\ made' = made + 1
        /\ self' = [job |-> made + 1, query |-> q, live |-> TRUE, results |-> self.results]
    BY <1>1, <1>2, <1>7 DEF Typed, Ask, NewJob
  <2>2. TokensInv' /\ Flight' = Flight \cup {new}
    BY <1>1, <1>3, <2>1, Asked
  <2>3. new.op = "suggest" /\ new.job = made + 1 /\ new.about = q
    BY DEF Call
  <2> HIDE DEF new
  <2>4. \A c \in Flight : ~Live(c.job)'
    BY <1>5, <2>1
  <2>5. Live(self.job)'
    <3>1. canceled' = canceled \cup (({} \cup {self.job}) \ {NoJob})
      BY <1>1 DEF CancelJob
    <3> QED BY <1>1, <1>2, <2>1, <3>1 DEF Live, TokensInv
  <2>6. Due'
    BY <1>7, <2>1, <2>2, <2>3 DEF Due
  <2>7. SuggestionsOfTheQuery'
    BY <2>6 DEF SuggestionsOfTheQuery, Due, Flight
  <2> QED BY <1>1, <2>1, <2>2, <2>3, <2>4, <2>5, <2>7 DEF SuggestInv
<1> QED BY <1>6, <1>7

LEMMA SuggestStays ==
  ASSUME TokensInv, SuggestInv, kind = "suggest", UNCHANGED <<self, kind, made, canceled>>,
         \A c \in Flight' : c \in Flight,
         \A c \in Flight : Live(c.job) => c \in Flight',
         \A i \in DOMAIN mail' :
           \/ \E j \in DOMAIN mail : mail'[i] = mail[j]
           \/ mail'[i].out.ok => mail'[i].out.results = mail'[i].call.about
  PROVE  SuggestInv'
<1>1. Due'
  BY DueIsShown DEF SuggestInv, Due
<1>2. SuggestionsOfTheQuery'
  BY <1>1 DEF SuggestionsOfTheQuery, Due, Flight
<1> QED BY <1>2 DEF SuggestInv, Live

LEMMA SuggestStep ==
  ASSUME TokensInv, SuggestInv, kind = "suggest", Next
  PROVE  TokensInv' /\ SuggestInv'
<1>1. CASE ListActs
  <2>1. PICK q : Query(q)
    BY <1>1 DEF ListActs, VideoList, VideoSearch, PlaylistList, PlaylistSearch, ChannelList,
                CommentList, VideoMore, PlaylistMore, CommentMore, Cancel, Post,
                ChannelUnsubscribe, Act, ListKinds
  <2> QED BY <2>1, SuggestQueries
<1>2. ~HeaderActs
  BY DEF HeaderActs, LoadById, LoadStreams, CancelChannel, ApplySubscribe, CancelStreams, Act
<1>3. ASSUME NEW c \in calls, Reply(c) PROVE TokensInv' /\ SuggestInv'
  <2>1. c.op = "suggest" /\ UNCHANGED <<self, kind, made, canceled, aborts>>
    BY <1>3 DEF SuggestInv, Flight, Reply
  <2>2. fetchSearchSuggestions(c)
    BY <1>3, <2>1 DEF Reply, playerTry, submitAction, fetchChannelById, fetchChannelSubscribed,
                fetchVideoList, fetchPlaylists, fetchChannelList, fetchComments, postComment,
                dropSubscription
  <2>3. ASSUME NEW out, Report(c, out), out.ok => out.results = c.about
        PROVE  TokensInv' /\ SuggestInv'
    <3>1. /\ TokensInv' /\ Flight' = Flight
          /\ \A i \in DOMAIN mail' : \/ i \in DOMAIN mail /\ mail'[i] = mail[i]
                                     \/ mail'[i] = [call |-> c, out |-> out]
      BY <2>1, <2>3, Reported
    <3>2. \A i \in DOMAIN mail' :
            \/ \E j \in DOMAIN mail : mail'[i] = mail[j]
            \/ mail'[i].out.ok => mail'[i].out.results = mail'[i].call.about
      BY <2>3, <3>1
    <3> QED BY <2>1, <3>1, <3>2, SuggestStays
  <2>4. \E out : Report(c, out) /\ (out.ok => out.results = c.about)
    <3>1. CASE Report(c, NotOk)
      <4>1. ~NotOk.ok
        BY DEF NotOk
      <4> QED BY <3>1, <4>1
    <3>2. ASSUME NEW out, out = [ok |-> TRUE, results |-> c.about], Report(c, out)
          PROVE  \E o : Report(c, o) /\ (o.ok => o.results = c.about)
      BY <3>2
    <3> QED BY <2>2, <3>1, <3>2 DEF fetchSearchSuggestions
  <2> QED BY <2>3, <2>4
<1>4. ASSUME NEW j \in aborts, Abort(j) PROVE TokensInv' /\ SuggestInv'
  <2>1. /\ calls' = {c \in calls : c.job # j} /\ aborts' \subseteq aborts
        /\ UNCHANGED <<mail, kind, self, made, canceled>>
    BY <1>4 DEF Abort
  <2>2. TokensInv' /\ Flight' \subseteq Flight
    BY <2>1, Dropped
  <2>3. \A c \in Flight : Live(c.job) => c \in Flight'
    BY <2>1 DEF Flight, Live, TokensInv
  <2> QED BY <2>1, <2>2, <2>3, SuggestStays
<1>5. CASE Deliver
  <2>1. PICK m : Take(m) /\ \/ Stale(m) /\ UNCHANGED self /\ Quiet
                            \/ ~Stale(m) /\ (ListApplies(m) \/ HeaderApplies(m))
    BY <1>5 DEF Deliver
  <2>2. CASE Stale(m) /\ UNCHANGED self /\ Quiet
    <3>1. /\ TokensInv' /\ Flight' \subseteq Flight
          /\ \A c \in Flight : c = m.call \/ c \in Flight'
          /\ \A i \in DOMAIN mail' : \E j \in DOMAIN mail : mail'[i] = mail[j]
      BY <2>1, <2>2, TakenOff
    <3>2. UNCHANGED <<self, kind, made, canceled>>
      BY <2>1, <2>2 DEF Take, Quiet
    <3>3. \A c \in Flight : Live(c.job) => c \in Flight'
      BY <2>2, <3>1 DEF Stale
    <3> QED BY <3>1, <3>2, <3>3, SuggestStays
  <2>3. CASE ~Stale(m) /\ (ListApplies(m) \/ HeaderApplies(m))
    <3>1. m.call \in Flight
      BY <2>1, OnItsWay
    <3>2. m.call.op = "suggest"
      BY <3>1 DEF SuggestInv
    <3>3. applySuggestions(m) /\ Quiet
      BY <2>3, <3>2 DEF ListApplies, applyList, applyUsers, applyComments, revertPost,
                  HeaderApplies, applyChannel, applySubscribedState, revertSubscribe, applyPlayer
    <3>4. /\ TokensInv' /\ Flight' \subseteq Flight
          /\ \E i \in DOMAIN mail : m = mail[i]
          /\ \A i \in DOMAIN mail' : \E j \in DOMAIN mail : mail'[i] = mail[j]
      BY <2>1, <3>3, TakenOff
    <3>5. UNCHANGED <<kind, made, canceled>>
      BY <2>1, <3>3 DEF Take, Quiet
    <3>6. m.call.about = self.query
      BY <2>3, <3>1 DEF SuggestInv, Stale
    <3>7. m.out.ok => m.out.results = self.query
      BY <3>4, <3>6 DEF SuggestInv
    <3>8. /\ self' = [job |-> self.job, query |-> self.query, live |-> self.live,
                      results |-> IF m.out.ok THEN m.out.results ELSE "none"]
      BY <3>3 DEF applySuggestions, SuggestInv
    <3>9. Due'
      BY <3>7, <3>8 DEF Due
    <3>10. SuggestionsOfTheQuery'
      BY <3>9 DEF SuggestionsOfTheQuery, Due, Flight
    <3> QED BY <3>4, <3>5, <3>8, <3>10 DEF SuggestInv, Live
  <2> QED BY <2>1, <2>2, <2>3
<1> QED BY <1>1, <1>2, <1>3, <1>4, <1>5 DEF Next

-----------------------------------------------------------------------------
(* The channel's header.                                                   *)

ChannelOf(job, actionJob, checkJob, asked, id, subscribed, status) ==
  [job |-> job, actionJob |-> actionJob, checkJob |-> checkJob, asked |-> asked, id |-> id,
   subscribed |-> subscribed, status |-> status]

\* The invariant, of a header whose members are known.
LEMMA ChannelMembers ==
  ASSUME NEW job \in 0..made', NEW actionJob \in 0..made', NEW checkJob \in 0..made',
         NEW asked, NEW id \in {Nothing, asked}, NEW subscribed, NEW status, UNCHANGED signedIn,
         self' = ChannelOf(job, actionJob, checkJob, asked, id, subscribed, status),
         \A c \in Flight' : c.op \in {"channel", "check", "follow", "unfollow"},
         \A c \in Flight' : c.op = "channel" /\ Live(c.job)' => c.job = job /\ c.about = asked,
         \A c \in Flight' : c.op = "check" /\ Live(c.job)' =>
           signedIn /\ c.job = checkJob /\ c.about = id,
         \A i \in DOMAIN mail' : mail'[i].call.op = "channel" /\ mail'[i].out.ok =>
           mail'[i].out.id = mail'[i].call.about
  PROVE  ChannelInv'
BY DEF ChannelInv, ChannelOf

\* The header's members, and that what is in flight is told apart by its token.
LEMMA ChannelFacts ==
  ASSUME ChannelInv, kind = "channel"
  PROVE  /\ self = ChannelOf(self.job, self.actionJob, self.checkJob, self.asked, self.id,
                             self.subscribed, self.status)
         /\ self.job \in 0..made /\ self.actionJob \in 0..made /\ self.checkJob \in 0..made
         /\ self.id \in {Nothing, self.asked}
BY DEF ChannelInv, ChannelOf

\* A step after which the header is what it was but for the button and the status.
LEMMA ChannelStays ==
  ASSUME TokensInv, ChannelInv, kind = "channel", UNCHANGED <<kind, signedIn, made, canceled>>,
         NEW subscribed, NEW status,
         self' = ChannelOf(self.job, self.actionJob, self.checkJob, self.asked, self.id,
                           subscribed, status),
         \A c \in Flight' : c \in Flight,
         \A i \in DOMAIN mail' :
           \/ \E j \in DOMAIN mail : mail'[i] = mail[j]
           \/ mail'[i].call.op = "channel" /\ mail'[i].out.ok =>
                mail'[i].out.id = mail'[i].call.about
  PROVE  ChannelInv'
<1>1. /\ \A c \in Flight' : c.op \in {"channel", "check", "follow", "unfollow"}
      /\ \A c \in Flight' : c.op = "channel" /\ Live(c.job)' =>
           c.job = self.job /\ c.about = self.asked
      /\ \A c \in Flight' : c.op = "check" /\ Live(c.job)' =>
           signedIn /\ c.job = self.checkJob /\ c.about = self.id
  BY DEF ChannelInv, Live
<1>2. \A i \in DOMAIN mail' : mail'[i].call.op = "channel" /\ mail'[i].out.ok =>
        mail'[i].out.id = mail'[i].call.about
  BY DEF ChannelInv
<1>3. /\ self.job \in 0..made' /\ self.actionJob \in 0..made' /\ self.checkJob \in 0..made'
      /\ self.id \in {Nothing, self.asked} /\ UNCHANGED signedIn
  BY ChannelFacts
<1> QED BY <1>1, <1>2, <1>3, ChannelMembers, SMTT(20)

\* loadById() and cancel(): what was in flight for the channel before is set aside.
LEMMA ChannelSetAside ==
  ASSUME TokensInv, ChannelInv, kind = "channel", CancelJob(self.job, ChannelTokens),
         made' \in {made, made + 1}
  PROVE  /\ canceled \subseteq canceled' /\ canceled' \subseteq 1..made'
         /\ aborts' \subseteq canceled'
         /\ \A c \in Flight : Live(c.job)' => c.op \notin {"channel", "check"}
<1>1. ChannelTokens \subseteq 0..made /\ self.job \in 0..made
  BY ChannelFacts DEF ChannelTokens
<1>2. /\ canceled \subseteq canceled' /\ canceled' \subseteq 1..made' /\ aborts' \subseteq canceled'
      /\ \A j \in ChannelTokens \cup {self.job} : j # NoJob => j \in canceled'
  BY <1>1, SetAside
<1>3. \A c \in Flight : c.job # NoJob
  BY DEF TokensInv, NoJob
<1>4. \A c \in Flight : Live(c.job)' => c.op \notin {"channel", "check"}
  BY <1>2, <1>3 DEF ChannelInv, ChannelTokens, Live
<1> QED BY <1>2, <1>4

LEMMA ChannelActs ==
  ASSUME TokensInv, ChannelInv, kind = "channel", HeaderActs
  PROVE  TokensInv' /\ ChannelInv'
<1>1. made \in Nat /\ UNCHANGED <<kind, signedIn, mail>>
  BY DEF TokensInv, HeaderActs, LoadById, LoadStreams, CancelChannel, ApplySubscribe,
         CancelStreams, Act
<1>2. /\ self = ChannelOf(self.job, self.actionJob, self.checkJob, self.asked, self.id,
                          self.subscribed, self.status)
      /\ self.job \in 0..made /\ self.actionJob \in 0..made /\ self.checkJob \in 0..made
      /\ self.id \in {Nothing, self.asked}
  BY ChannelFacts
<1>3. \A i \in DOMAIN mail' : mail'[i].call.op = "channel" /\ mail'[i].out.ok =>
        mail'[i].out.id = mail'[i].call.about
  BY <1>1 DEF ChannelInv
<1>4. ASSUME NEW ch, LoadById(ch) PROVE TokensInv' /\ ChannelInv'
  <2> DEFINE new == Call("channel", made + 1, ch, NoPage)
  <2>1. /\ made' = made + 1 /\ CancelJob(self.job, ChannelTokens) /\ Ask("channel", ch, NoPage)
        /\ self' = ChannelOf(made + 1, self.actionJob, self.checkJob, ch, Nothing, FALSE, "Loading")
    BY <1>2, <1>4 DEF LoadById, Ask, NewJob, ChannelOf
  <2>2. /\ canceled \subseteq canceled' /\ canceled' \subseteq 1..made' /\ aborts' \subseteq canceled'
        /\ \A c \in Flight : Live(c.job)' => c.op \notin {"channel", "check"}
    BY <2>1, ChannelSetAside
  <2>3. TokensInv' /\ Flight' = Flight \cup {new}
    BY <1>1, <2>1, <2>2, Asked
  <2>4. new.op = "channel" /\ new.job = made + 1 /\ new.about = ch
    BY DEF Call
  <2> HIDE DEF new
  <2>5. /\ \A c \in Flight' : c.op \in {"channel", "check", "follow", "unfollow"}
        /\ \A c \in Flight' : c.op = "channel" /\ Live(c.job)' => c.job = made + 1 /\ c.about = ch
        /\ \A c \in Flight' : c.op = "check" => ~Live(c.job)'
    BY <2>2, <2>3, <2>4 DEF ChannelInv
  <2>6. made + 1 \in 0..made' /\ self.actionJob \in 0..made' /\ self.checkJob \in 0..made'
    BY <1>1, <1>2, <2>1
  <2>7. PICK unknown : unknown = FALSE
    OBVIOUS
  <2>8. \A c \in Flight' : c.op = "check" /\ Live(c.job)' =>
          signedIn /\ c.job = self.checkJob /\ c.about = Nothing
    BY <2>5
  <2>9. /\ self' = ChannelOf(made + 1, self.actionJob, self.checkJob, ch, Nothing, unknown, "Loading")
        /\ Nothing \in {Nothing, ch}
    BY <2>1, <2>7
  <2>10. ChannelInv'
    BY <1>1, <1>3, <2>5, <2>6, <2>8, <2>9, ChannelMembers
  <2> QED BY <2>3, <2>10
<1>5. CASE CancelChannel
  <2>1. /\ made' = made /\ calls' = calls /\ CancelJob(self.job, ChannelTokens)
        /\ self' = ChannelOf(NoJob, self.actionJob, self.checkJob, self.asked, self.id,
                             self.subscribed, "Canceled")
    BY <1>2, <1>5 DEF CancelChannel, ChannelOf
  <2>2. /\ canceled \subseteq canceled' /\ canceled' \subseteq 1..made' /\ aborts' \subseteq canceled'
        /\ \A c \in Flight : Live(c.job)' => c.op \notin {"channel", "check"}
    BY <2>1, ChannelSetAside
  <2>3. Flight' = Flight
    BY <1>1, <2>1 DEF Flight
  <2>4. TokensInv'
    BY <1>1, <2>1, <2>2, <2>3 DEF TokensInv
  <2>5. /\ \A c \in Flight' : c.op \in {"channel", "check", "follow", "unfollow"}
        /\ \A c \in Flight' : Live(c.job)' => c.op \notin {"channel", "check"}
    BY <2>2, <2>3 DEF ChannelInv
  <2>6. NoJob \in 0..made' /\ self.actionJob \in 0..made' /\ self.checkJob \in 0..made'
    BY <1>1, <1>2, <2>1 DEF NoJob
  <2>7. ChannelInv'
    BY <1>1, <1>2, <1>3, <2>1, <2>5, <2>6, ChannelMembers
  <2> QED BY <2>4, <2>7
<1>6. CASE ApplySubscribe
  <2>1. PICK op \in {"follow", "unfollow"} : Ask(op, self.id, self.subscribed)
    BY <1>6 DEF ApplySubscribe
  <2> DEFINE new == Call(op, made + 1, self.id, self.subscribed)
  <2>2. /\ made' = made + 1 /\ UNCHANGED aborts
        /\ self' = ChannelOf(self.job, made + 1, self.checkJob, self.asked, self.id,
                             ~self.subscribed, self.status)
        /\ canceled' = canceled \cup ({self.actionJob} \ {NoJob})
    BY <1>2, <1>6 DEF ApplySubscribe, Ask, NewJob, ChannelOf
  <2>3. /\ canceled \subseteq canceled' /\ canceled' \subseteq 1..made' /\ aborts' \subseteq canceled'
    BY <1>1, <1>2, <2>2 DEF TokensInv, NoJob
  <2>4. TokensInv' /\ Flight' = Flight \cup {new}
    BY <1>1, <2>1, <2>3, Asked
  <2>5. new.op \in {"follow", "unfollow"}
    BY <2>1 DEF Call
  <2> HIDE DEF new
  <2>6. /\ \A c \in Flight' : c.op \in {"channel", "check", "follow", "unfollow"}
        /\ \A c \in Flight' : c.op = "channel" /\ Live(c.job)' =>
             c.job = self.job /\ c.about = self.asked
        /\ \A c \in Flight' : c.op = "check" /\ Live(c.job)' =>
             signedIn /\ c.job = self.checkJob /\ c.about = self.id
    BY <2>3, <2>4, <2>5 DEF ChannelInv, Live
  <2>7. self.job \in 0..made' /\ made + 1 \in 0..made' /\ self.checkJob \in 0..made'
    BY <1>1, <1>2, <2>2
  <2>8. PICK subscribed : subscribed = ~self.subscribed
    OBVIOUS
  <2>9. ChannelInv'
    BY <1>1, <1>2, <1>3, <2>2, <2>6, <2>7, <2>8, ChannelMembers, SMTT(20)
  <2> QED BY <2>4, <2>9
<1>7. /\ \A v : ~LoadStreams(v)
      /\ ~CancelStreams
  BY DEF LoadStreams, CancelStreams, Act
<1> QED BY <1>4, <1>5, <1>6, <1>7 DEF HeaderActs

LEMMA ChannelReplies ==
  ASSUME TokensInv, ChannelInv, kind = "channel", NEW c \in calls, Reply(c)
  PROVE  TokensInv' /\ ChannelInv'
<1>1. /\ UNCHANGED <<self, kind, signedIn, made, canceled, aborts>>
      /\ c.op \in {"channel", "check", "follow", "unfollow"}
  BY DEF Reply, ChannelInv, Flight
<1>2. self' = ChannelOf(self.job, self.actionJob, self.checkJob, self.asked, self.id,
                        self.subscribed, self.status)
  BY <1>1, ChannelFacts
<1>3. ASSUME NEW out, Report(c, out), c.op = "channel" /\ out.ok => out.id = c.about
      PROVE  TokensInv' /\ ChannelInv'
  <2>1. /\ TokensInv' /\ Flight' = Flight
        /\ \A i \in DOMAIN mail' : \/ i \in DOMAIN mail /\ mail'[i] = mail[i]
                                   \/ mail'[i] = [call |-> c, out |-> out]
    BY <1>1, <1>3, Reported
  <2>2. \A i \in DOMAIN mail' :
          \/ \E j \in DOMAIN mail : mail'[i] = mail[j]
          \/ mail'[i].call.op = "channel" /\ mail'[i].out.ok =>
               mail'[i].out.id = mail'[i].call.about
    BY <1>3, <2>1
  <2> QED BY <1>1, <1>2, <2>1, <2>2, ChannelStays
<1>4. ASSUME End(c) PROVE TokensInv' /\ ChannelInv'
  <2>1. calls' \subseteq calls /\ UNCHANGED mail
    BY <1>4 DEF End
  <2>2. TokensInv' /\ Flight' \subseteq Flight
    BY <1>1, <2>1, Dropped
  <2> QED BY <1>1, <1>2, <2>1, <2>2, ChannelStays
<1>5. CASE Report(c, NotOk)
  <2>1. ~NotOk.ok
    BY DEF NotOk
  <2> QED BY <1>3, <1>5, <2>1
<1>6. CASE fetchChannelById(c)
  <2>1. ASSUME NEW out, out = [ok |-> TRUE, id |-> c.about], Report(c, out)
        PROVE  TokensInv' /\ ChannelInv'
    BY <1>3, <2>1
  <2> QED BY <1>5, <1>6, <2>1 DEF fetchChannelById
<1>7. CASE fetchChannelSubscribed(c)
  <2>1. ASSUME NEW out, Report(c, out) PROVE TokensInv' /\ ChannelInv'
    BY <1>3, <1>7, <2>1 DEF fetchChannelSubscribed
  <2> QED BY <1>4, <1>7, <2>1 DEF fetchChannelSubscribed
<1>8. CASE submitAction(c)
  BY <1>4, <1>5, <1>8 DEF submitAction
<1>9. /\ ~playerTry(c) /\ ~fetchVideoList(c) /\ ~fetchPlaylists(c) /\ ~fetchChannelList(c)
      /\ ~fetchComments(c) /\ ~postComment(c) /\ ~dropSubscription(c)
      /\ ~fetchSearchSuggestions(c)
  BY <1>1 DEF playerTry, fetchVideoList, fetchPlaylists, fetchChannelList, fetchComments,
              postComment, dropSubscription, fetchSearchSuggestions
<1> QED BY <1>6, <1>7, <1>8, <1>9 DEF Reply

LEMMA ChannelDelivers ==
  ASSUME TokensInv, ChannelInv, kind = "channel", Deliver
  PROVE  TokensInv' /\ ChannelInv'
<1>1. PICK m : Take(m) /\ \/ Stale(m) /\ UNCHANGED self /\ Quiet
                          \/ ~Stale(m) /\ (ListApplies(m) \/ HeaderApplies(m))
  BY DEF Deliver
<1>2. m.call \in Flight /\ m.call.op \in {"channel", "check", "follow", "unfollow"}
  BY <1>1, OnItsWay DEF ChannelInv
<1>3. /\ self = ChannelOf(self.job, self.actionJob, self.checkJob, self.asked, self.id,
                          self.subscribed, self.status)
      /\ self.job \in 0..made /\ self.actionJob \in 0..made /\ self.checkJob \in 0..made
      /\ self.id \in {Nothing, self.asked}
  BY ChannelFacts
<1>4. ASSUME Quiet, NEW subscribed, NEW status,
             self' = ChannelOf(self.job, self.actionJob, self.checkJob, self.asked, self.id,
                               subscribed, status)
      PROVE  TokensInv' /\ ChannelInv'
  <2>1. /\ TokensInv' /\ Flight' \subseteq Flight
        /\ \A i \in DOMAIN mail' : \E j \in DOMAIN mail : mail'[i] = mail[j]
    BY <1>1, <1>4, TakenOff
  <2>2. UNCHANGED <<kind, signedIn, made, canceled>>
    BY <1>1, <1>4 DEF Take, Quiet
  <2> QED BY <1>4, <2>1, <2>2, ChannelStays
<1>5. CASE Stale(m) /\ UNCHANGED self /\ Quiet
  BY <1>3, <1>4, <1>5
<1>6. CASE applySubscribedState(m)
  <2>1. self' = ChannelOf(self.job, self.actionJob, self.checkJob, self.asked, self.id,
                          m.out.subscribed, self.status)
    BY <1>3, <1>6 DEF applySubscribedState, ChannelOf
  <2> QED BY <1>4, <1>6, <2>1 DEF applySubscribedState
<1>7. CASE revertSubscribe(m)
  <2>1. self' = ChannelOf(self.job, self.actionJob, self.checkJob, self.asked, self.id,
                          m.call.arg, self.status)
    BY <1>3, <1>7 DEF revertSubscribe, ChannelOf
  <2> QED BY <1>4, <1>7, <2>1 DEF revertSubscribe
<1>8. CASE ~Stale(m) /\ applyChannel(m)
  <2>1. m.call.op = "channel" /\ m.call.about = self.asked
    BY <1>2, <1>8 DEF applyChannel, ChannelInv, Stale
  <2>2. m.out.ok => m.out.id = self.asked
    BY <1>1, <2>1, MailTaken DEF ChannelInv
  <2>3. CASE ~m.out.ok
    <3>1. self' = ChannelOf(self.job, self.actionJob, self.checkJob, self.asked, self.id,
                            self.subscribed, "Failed")
      BY <1>3, <1>8, <2>3 DEF applyChannel, ChannelOf
    <3> QED BY <1>4, <1>8, <2>3, <3>1 DEF applyChannel
  <2>4. CASE m.out.ok /\ ~signedIn
    <3>1. /\ Quiet /\ UNCHANGED <<signedIn, made, canceled>>
          /\ self' = ChannelOf(self.job, self.actionJob, self.checkJob, self.asked, self.asked,
                               FALSE, "Ready")
      BY <1>1, <1>3, <1>8, <2>2, <2>4 DEF applyChannel, ChannelOf, Take, Quiet
    <3>2. /\ TokensInv' /\ Flight' \subseteq Flight
          /\ \A i \in DOMAIN mail' : \E j \in DOMAIN mail : mail'[i] = mail[j]
      BY <1>1, <3>1, TakenOff
    <3>3. /\ \A c \in Flight' : c.op \in {"channel", "check", "follow", "unfollow"}
          /\ \A c \in Flight' : c.op = "channel" /\ Live(c.job)' =>
               c.job = self.job /\ c.about = self.asked
          /\ \A c \in Flight' : c.op = "check" /\ Live(c.job)' =>
               signedIn /\ c.job = self.checkJob /\ c.about = self.asked
      BY <2>4, <3>1, <3>2 DEF ChannelInv, Live
    <3>4. \A i \in DOMAIN mail' : mail'[i].call.op = "channel" /\ mail'[i].out.ok =>
            mail'[i].out.id = mail'[i].call.about
      BY <3>2 DEF ChannelInv
    <3>5. self.job \in 0..made' /\ self.actionJob \in 0..made' /\ self.checkJob \in 0..made'
      BY <1>3, <3>1
    <3>6. PICK unknown : unknown = FALSE
      OBVIOUS
    <3>7. /\ self' = ChannelOf(self.job, self.actionJob, self.checkJob, self.asked, self.asked,
                               unknown, "Ready")
          /\ self.asked \in {Nothing, self.asked} /\ UNCHANGED signedIn
      BY <3>1, <3>6
    <3>8. ChannelInv'
      BY <3>3, <3>4, <3>5, <3>7, ChannelMembers
    <3> QED BY <3>2, <3>8
  <2>5. CASE m.out.ok /\ signedIn
    <3> DEFINE new == Call("check", made + 1, self.asked, NoPage)
    <3>1. /\ Ask("check", self.asked, NoPage) /\ made' = made + 1
          /\ UNCHANGED <<signedIn, aborts>>
          /\ canceled' = canceled \cup ({self.checkJob} \ {NoJob})
          /\ self' = ChannelOf(self.job, self.actionJob, made + 1, self.asked, self.asked,
                               FALSE, "Ready")
      BY <1>1, <1>3, <1>8, <2>2, <2>5 DEF applyChannel, ChannelOf, Take, Ask, NewJob
    <3>2. /\ canceled \subseteq canceled' /\ canceled' \subseteq 1..made' /\ aborts' \subseteq canceled'
      BY <1>3, <3>1 DEF TokensInv, NoJob
    <3>3. /\ TokensInv'
          /\ \A c \in Flight' : c = new \/ c \in Flight
          /\ \A i \in DOMAIN mail' : \E j \in DOMAIN mail : mail'[i] = mail[j]
      BY <1>1, <3>1, <3>2, TakenAndAsked
    <3>4. new.op = "check" /\ new.job = made + 1 /\ new.about = self.asked
      BY DEF Call
    <3> HIDE DEF new
    <3>5. \A c \in Flight : c.op = "check" => ~Live(c.job)'
      BY <3>1 DEF ChannelInv, Live, TokensInv, NoJob
    <3>6. /\ \A c \in Flight' : c.op \in {"channel", "check", "follow", "unfollow"}
          /\ \A c \in Flight' : c.op = "channel" /\ Live(c.job)' =>
               c.job = self.job /\ c.about = self.asked
          /\ \A c \in Flight' : c.op = "check" /\ Live(c.job)' =>
               signedIn /\ c.job = made + 1 /\ c.about = self.asked
      BY <2>5, <3>2, <3>3, <3>4, <3>5 DEF ChannelInv, Live
    <3>7. \A i \in DOMAIN mail' : mail'[i].call.op = "channel" /\ mail'[i].out.ok =>
            mail'[i].out.id = mail'[i].call.about
      BY <3>3 DEF ChannelInv
    <3>8. self.job \in 0..made' /\ self.actionJob \in 0..made' /\ made + 1 \in 0..made'
      BY <1>3, <3>1 DEF TokensInv
    <3>9. PICK unknown : unknown = FALSE
      OBVIOUS
    <3>10. /\ self' = ChannelOf(self.job, self.actionJob, made + 1, self.asked, self.asked,
                                unknown, "Ready")
           /\ self.asked \in {Nothing, self.asked} /\ UNCHANGED signedIn
      BY <3>1, <3>9
    <3>11. ChannelInv'
      BY <3>6, <3>7, <3>8, <3>10, ChannelMembers, SMTT(20)
    <3> QED BY <3>3, <3>11
  <2> QED BY <2>3, <2>4, <2>5
<1>9. ~ListApplies(m) /\ ~applyPlayer(m)
  BY <1>2 DEF ListApplies, applyList, applyUsers, applyComments, revertPost, applySuggestions,
              applyPlayer
<1> QED BY <1>1, <1>5, <1>6, <1>7, <1>8, <1>9 DEF HeaderApplies

LEMMA ChannelStep ==
  ASSUME TokensInv, ChannelInv, kind = "channel", Next
  PROVE  TokensInv' /\ ChannelInv'
<1>1. ~ListActs
  BY DEF ListActs, VideoList, VideoSearch, PlaylistList, PlaylistSearch, ChannelList,
         CommentList, VideoMore, PlaylistMore, CommentMore, Cancel, Post, ChannelUnsubscribe,
         Query, Act, ListKinds
<1>2. ASSUME NEW j, Abort(j) PROVE TokensInv' /\ ChannelInv'
  <2>1. /\ calls' \subseteq calls /\ aborts' \subseteq aborts
        /\ UNCHANGED <<mail, kind, signedIn, self, made, canceled>>
    BY <1>2 DEF Abort
  <2>2. TokensInv' /\ Flight' \subseteq Flight
    BY <2>1, Dropped
  <2>3. self' = ChannelOf(self.job, self.actionJob, self.checkJob, self.asked, self.id,
                          self.subscribed, self.status)
    BY <2>1, ChannelFacts
  <2> QED BY <2>1, <2>2, <2>3, ChannelStays
<1> QED BY <1>1, <1>2, ChannelActs, ChannelReplies, ChannelDelivers DEF Next

-----------------------------------------------------------------------------
(* The streams of a video.                                                 *)

\* What a member of the catalogue belongs to.
Belongs(x, v) == x = Nothing \/ x.of = v

StreamsOf(job, asked, status, hls, progressive, audio, video, audios, subtitles) ==
  [job |-> job, asked |-> asked, status |-> status, hls |-> hls, progressive |-> progressive,
   audio |-> audio, video |-> video, audios |-> audios, subtitles |-> subtitles]

LEMMA StreamsMembers ==
  ASSUME NEW job \in 0..made', NEW asked, NEW status, NEW hls, NEW progressive, NEW audio,
         NEW video, NEW audios, NEW subtitles,
         self' = StreamsOf(job, asked, status, hls, progressive, audio, video, audios, subtitles),
         Belongs(hls, asked), Belongs(progressive, asked), Belongs(audio, asked),
         Belongs(video, asked), Belongs(audios, asked), Belongs(subtitles, asked),
         \A c \in Flight' : c.op = "player",
         \A c \in Flight' : Live(c.job)' => c.job = job /\ c.about = asked
  PROVE  StreamsInv'
BY DEF StreamsInv, StreamsOf, Belongs, CatalogOfTheAsked

LEMMA StreamsFacts ==
  ASSUME StreamsInv, kind = "streams"
  PROVE  /\ self = StreamsOf(self.job, self.asked, self.status, self.hls, self.progressive,
                             self.audio, self.video, self.audios, self.subtitles)
         /\ self.job \in 0..made
         /\ Belongs(self.hls, self.asked) /\ Belongs(self.progressive, self.asked)
         /\ Belongs(self.audio, self.asked) /\ Belongs(self.video, self.asked)
         /\ Belongs(self.audios, self.asked) /\ Belongs(self.subtitles, self.asked)
BY DEF StreamsInv, StreamsOf, Belongs, CatalogOfTheAsked

\* A step of the worker, or a closure that is dropped.
LEMMA StreamsStay ==
  ASSUME StreamsInv, kind = "streams", UNCHANGED <<kind, self, made, canceled>>,
         \A c \in Flight' : \E d \in Flight : c.op = d.op /\ c.job = d.job /\ c.about = d.about
  PROVE  StreamsInv'
BY DEF StreamsInv, CatalogOfTheAsked, Live

LEMMA StreamsActs ==
  ASSUME TokensInv, StreamsInv, kind = "streams", HeaderActs
  PROVE  TokensInv' /\ StreamsInv'
<1>1. made \in Nat /\ UNCHANGED <<kind, mail>> /\ self.job \in 0..made
  BY StreamsFacts
     DEF TokensInv, HeaderActs, LoadById, LoadStreams, CancelChannel, ApplySubscribe,
         CancelStreams, Act
<1>2. ASSUME CancelJob(self.job, {}), made' \in {made, made + 1}
      PROVE  /\ canceled \subseteq canceled' /\ canceled' \subseteq 1..made'
             /\ aborts' \subseteq canceled'
             /\ \A c \in Flight : c.op = "player" /\ ~Live(c.job)'
  <2>1. /\ canceled \subseteq canceled' /\ canceled' \subseteq 1..made' /\ aborts' \subseteq canceled'
        /\ self.job # NoJob => self.job \in canceled'
    BY <1>1, <1>2, SetAside
  <2>2. \A c \in Flight : c.op = "player" /\ ~Live(c.job)'
    BY <2>1 DEF StreamsInv, Live, TokensInv, NoJob
  <2> QED BY <2>1, <2>2
<1>3. ASSUME NEW v, LoadStreams(v) PROVE TokensInv' /\ StreamsInv'
  <2>1. PICK arg : arg = [left |-> Ladder, captions |-> Nothing]
    OBVIOUS
  <2> DEFINE new == Call("player", made + 1, v, arg)
  <2>2. /\ made' = made + 1 /\ CancelJob(self.job, {}) /\ Ask("player", v, arg)
        /\ self' = StreamsOf(made + 1, v, "Loading", Nothing, Nothing, Nothing, Nothing, Nothing,
                             Nothing)
    BY <1>3, <2>1 DEF LoadStreams, Ask, NewJob, Cleared, NoStreams, StreamsOf
  <2>3. /\ canceled \subseteq canceled' /\ canceled' \subseteq 1..made' /\ aborts' \subseteq canceled'
        /\ \A c \in Flight : c.op = "player" /\ ~Live(c.job)'
    BY <1>2, <2>2
  <2>4. TokensInv' /\ Flight' = Flight \cup {new}
    BY <1>1, <2>2, <2>3, Asked
  <2>5. new.op = "player" /\ new.job = made + 1 /\ new.about = v
    BY DEF Call
  <2> HIDE DEF new
  <2>6. /\ \A c \in Flight' : c.op = "player"
        /\ \A c \in Flight' : Live(c.job)' => c.job = made + 1 /\ c.about = v
    BY <2>3, <2>4, <2>5
  <2>7. made + 1 \in 0..made' /\ Belongs(Nothing, v)
    BY <1>1, <2>2 DEF Belongs
  <2>8. StreamsInv'
    BY <2>2, <2>6, <2>7, StreamsMembers
  <2> QED BY <2>4, <2>8
<1>4. CASE CancelStreams
  <2>1. /\ made' = made /\ calls' = calls /\ CancelJob(self.job, {})
        /\ self' = StreamsOf(NoJob, self.asked, "Canceled", self.hls, self.progressive,
                             self.audio, self.video, self.audios, self.subtitles)
    BY <1>4, StreamsFacts DEF CancelStreams, StreamsOf
  <2>2. /\ canceled \subseteq canceled' /\ canceled' \subseteq 1..made' /\ aborts' \subseteq canceled'
        /\ \A c \in Flight : c.op = "player" /\ ~Live(c.job)'
    BY <1>2, <2>1
  <2>3. Flight' = Flight
    BY <1>1, <2>1 DEF Flight
  <2>4. TokensInv'
    BY <1>1, <2>1, <2>2, <2>3 DEF TokensInv
  <2>5. /\ \A c \in Flight' : c.op = "player"
        /\ \A c \in Flight' : Live(c.job)' => c.job = NoJob /\ c.about = self.asked
    BY <2>2, <2>3
  <2>6. NoJob \in 0..made'
    BY <1>1, <2>1 DEF NoJob
  <2>7. StreamsInv'
    BY <2>1, <2>5, <2>6, StreamsFacts, StreamsMembers
  <2> QED BY <2>4, <2>7
<1>5. /\ \A v : ~LoadById(v)
      /\ ~CancelChannel /\ ~ApplySubscribe
  BY DEF LoadById, CancelChannel, ApplySubscribe, Act
<1> QED BY <1>3, <1>4, <1>5 DEF HeaderActs

LEMMA StreamsReplies ==
  ASSUME TokensInv, StreamsInv, kind = "streams", NEW c \in calls, Reply(c)
  PROVE  TokensInv' /\ StreamsInv'
<1>1. c \in Flight /\ c.op = "player"
  BY DEF StreamsInv, Flight
<1>2. playerTry(c) /\ UNCHANGED <<kind, self, made, canceled, aborts>>
  BY <1>1 DEF Reply, submitAction, fetchChannelById, fetchChannelSubscribed, fetchVideoList,
              fetchPlaylists, fetchChannelList, fetchComments, postComment, dropSubscription,
              fetchSearchSuggestions
<1>3. ASSUME NEW out, Report(c, out) PROVE TokensInv' /\ StreamsInv'
  <2>1. TokensInv' /\ Flight' = Flight
    BY <1>2, <1>3, Reported
  <2> QED BY <1>2, <2>1, StreamsStay
<1>4. ASSUME NEW arg, GoOn(c, arg) PROVE TokensInv' /\ StreamsInv'
  <2> DEFINE new == Call(c.op, c.job, c.about, arg)
  <2>1. TokensInv' /\ Flight' \subseteq Flight \cup {new}
    BY <1>2, <1>4, WentOn
  <2>2. new.op = c.op /\ new.job = c.job /\ new.about = c.about
    BY DEF Call
  <2> HIDE DEF new
  <2>3. \A d \in Flight' : \E e \in Flight : d.op = e.op /\ d.job = e.job /\ d.about = e.about
    BY <1>1, <2>1, <2>2
  <2> QED BY <1>2, <2>1, <2>3, StreamsStay
<1>5. (\E out : Report(c, out)) \/ (\E arg : GoOn(c, arg))
  BY <1>2, Zenon DEF playerTry
<1> QED BY <1>3, <1>4, <1>5

\* What a catalogue lacks stays, and is of the same video or nothing.
LEMMA StreamsApply ==
  ASSUME TokensInv, StreamsInv, kind = "streams", NEW m, Take(m), ~Stale(m), applyPlayer(m)
  PROVE  TokensInv' /\ StreamsInv'
<1>1. Quiet /\ m.call \in Flight
  BY OnItsWay DEF applyPlayer
<1>2. UNCHANGED <<kind, made, canceled>> /\ TokensInv' /\ Flight' \subseteq Flight
  BY <1>1, TakenOff DEF Take, Quiet
<1>3. m.call.about = self.asked
  BY <1>1 DEF StreamsInv, Stale
<1>4. /\ \A c \in Flight' : c.op = "player"
      /\ \A c \in Flight' : Live(c.job)' => c.job = self.job /\ c.about = self.asked
      /\ self.job \in 0..made'
  BY <1>2, StreamsFacts DEF StreamsInv, Live
<1>5. \E status, hls, progressive, audio, video, audios, subtitles :
        /\ self' = StreamsOf(self.job, self.asked, status, hls, progressive, audio, video, audios,
                             subtitles)
        /\ Belongs(hls, self.asked) /\ Belongs(progressive, self.asked)
        /\ Belongs(audio, self.asked) /\ Belongs(video, self.asked)
        /\ Belongs(audios, self.asked) /\ Belongs(subtitles, self.asked)
  <2>1. CASE ~m.out.ok
    <3>1. self' = StreamsOf(self.job, self.asked, "Failed", self.hls, self.progressive,
                            self.audio, self.video, self.audios, self.subtitles)
      BY <2>1, StreamsFacts DEF applyPlayer, StreamsOf
    <3> QED BY <3>1, StreamsFacts
  <2>2. CASE m.out.ok
    <3> DEFINE Set(f, x) == IF x \in {Nothing, <<>>} THEN self[f]
                            ELSE [of |-> m.call.about, is |-> x]
               s == m.out.streams
    <3>1. self' = [self EXCEPT !.status = "Ready",
                     !.hls = Set("hls", Manifest[s]),
                     !.progressive = Set("progressive", Progressive[s]),
                     !.audio = Set("audio", DefaultAudio[s]),
                     !.video = Set("video", Picked[s]),
                     !.audios = Set("audios", Audios[s]),
                     !.subtitles = Set("subtitles", m.out.captions)]
      BY <2>2, Zenon DEF applyPlayer
    <3>2. \A f \in {"hls", "progressive", "audio", "video", "audios", "subtitles"} :
            \A x : Belongs(Set(f, x), self.asked)
      <4> SUFFICES ASSUME NEW f \in {"hls", "progressive", "audio", "video", "audios", "subtitles"},
                          NEW x
                   PROVE  Belongs(Set(f, x), self.asked)
        OBVIOUS
      <4>1. CASE x \in {Nothing, <<>>}
        BY <4>1 DEF Belongs, StreamsInv, CatalogOfTheAsked
      <4>2. CASE x \notin {Nothing, <<>>}
        BY <1>3, <4>2 DEF Belongs
      <4> QED BY <4>1, <4>2
    <3>3. PICK hls : hls = Set("hls", Manifest[s])
      OBVIOUS
    <3>4. PICK progressive : progressive = Set("progressive", Progressive[s])
      OBVIOUS
    <3>5. PICK audio : audio = Set("audio", DefaultAudio[s])
      OBVIOUS
    <3>6. PICK video : video = Set("video", Picked[s])
      OBVIOUS
    <3>7. PICK audios : audios = Set("audios", Audios[s])
      OBVIOUS
    <3>8. PICK subtitles : subtitles = Set("subtitles", m.out.captions)
      OBVIOUS
    <3>9. /\ Belongs(hls, self.asked) /\ Belongs(progressive, self.asked)
          /\ Belongs(audio, self.asked) /\ Belongs(video, self.asked)
          /\ Belongs(audios, self.asked) /\ Belongs(subtitles, self.asked)
      BY <3>2, <3>3, <3>4, <3>5, <3>6, <3>7, <3>8
    <3> HIDE DEF Set, s
    <3>10. self' = [self EXCEPT !.status = "Ready", !.hls = hls, !.progressive = progressive,
                      !.audio = audio, !.video = video, !.audios = audios,
                      !.subtitles = subtitles]
      BY <3>1, <3>3, <3>4, <3>5, <3>6, <3>7, <3>8
    <3>11. self' = StreamsOf(self.job, self.asked, "Ready", hls, progressive, audio, video, audios,
                             subtitles)
      BY <3>10, StreamsFacts DEF StreamsOf
    <3> QED BY <3>9, <3>11
  <2> QED BY <2>1, <2>2
<1>6. StreamsInv'
  BY <1>4, <1>5, StreamsMembers
<1> QED BY <1>2, <1>6

LEMMA StreamsStep ==
  ASSUME TokensInv, StreamsInv, kind = "streams", Next
  PROVE  TokensInv' /\ StreamsInv'
<1>1. ~ListActs
  BY DEF ListActs, VideoList, VideoSearch, PlaylistList, PlaylistSearch, ChannelList,
         CommentList, VideoMore, PlaylistMore, CommentMore, Cancel, Post, ChannelUnsubscribe,
         Query, Act, ListKinds
<1>2. ASSUME NEW j, Abort(j) PROVE TokensInv' /\ StreamsInv'
  <2>1. /\ calls' \subseteq calls /\ aborts' \subseteq aborts
        /\ UNCHANGED <<mail, kind, self, made, canceled>>
    BY <1>2 DEF Abort
  <2>2. TokensInv' /\ Flight' \subseteq Flight
    BY <2>1, Dropped
  <2> QED BY <2>1, <2>2, StreamsStay
<1>3. CASE Deliver
  <2>1. PICK m : Take(m) /\ \/ Stale(m) /\ UNCHANGED self /\ Quiet
                            \/ ~Stale(m) /\ (ListApplies(m) \/ HeaderApplies(m))
    BY <1>3 DEF Deliver
  <2>2. CASE Stale(m) /\ UNCHANGED self /\ Quiet
    <3>1. TokensInv' /\ Flight' \subseteq Flight /\ UNCHANGED <<kind, self, made, canceled>>
      BY <2>1, <2>2, TakenOff DEF Take, Quiet
    <3> QED BY <3>1, StreamsStay
  <2>3. m.call.op = "player"
    BY <2>1, OnItsWay DEF StreamsInv
  <2>4. CASE ~Stale(m) /\ (ListApplies(m) \/ HeaderApplies(m))
    <3>1. applyPlayer(m)
      BY <2>3, <2>4 DEF ListApplies, applyList, applyUsers, applyComments, revertPost,
                  applySuggestions, HeaderApplies, applyChannel, applySubscribedState,
                  revertSubscribe
    <3> QED BY <2>1, <2>4, <3>1, StreamsApply
  <2> QED BY <2>1, <2>2, <2>4
<1> QED BY <1>1, <1>2, <1>3, StreamsActs, StreamsReplies DEF Next

-----------------------------------------------------------------------------
(* The theorems.                                                           *)

LEMMA FacadeInit == Init => FacadeInv
<1> SUFFICES ASSUME Init PROVE FacadeInv
  OBVIOUS
<1>1. /\ kind \in Kinds /\ self = Facade(kind) /\ calls = {} /\ mail = <<>> /\ made = 0
      /\ canceled = {} /\ aborts = {}
  BY DEF Init
<1>2. Flight = {} /\ DOMAIN mail = {}
  BY <1>1 DEF Flight
<1>3. TokensInv
  <2>1. mail \in Seq(Entries(mail))
    BY <1>1, EmptySeq
  <2> QED BY <1>1, <1>2, <2>1 DEF TokensInv
<1>4. ASSUME kind \in ListKinds PROVE ListInv
  <2>1. self = EmptyList
    BY <1>1, <1>4 DEF Facade, ListKinds
  <2>2. /\ self.rows = <<>> /\ self.next = NoPage /\ ~self.canPage
        /\ self = [job |-> NoJob, asked |-> Nothing, canPage |-> FALSE, rows |-> <<>>,
                   next |-> NoPage, status |-> "Null", postJob |-> NoJob, params |-> Nothing,
                   disabled |-> FALSE]
    BY <2>1 DEF EmptyList
  <2>3. <<>> \in Seq(RowsFor(Nothing)) /\ NoPage \in 0..LastPage /\ NoJob \in 0..made
    BY <1>1, EmptySeq, ChainsAssumption DEF NoPage, NoJob
  <2>4. self \in ListState
    BY <2>2, <2>3 DEF ListState
  <2>5. ShownInv
    BY <2>2, <2>4, EmptySeq DEF ShownInv, Rising, Below
  <2> QED BY <1>2, <2>5 DEF ListInv, LoadsInv, PostsInv, PagesInv, ListOps
<1>5. SuggestInv
  <2> SUFFICES ASSUME kind = "suggest" PROVE SuggestInv
    BY DEF SuggestInv
  <2>1. self = Silence
    BY <1>1 DEF Facade, ListKinds
  <2>2. self = [job |-> NoJob, query |-> Nothing, live |-> FALSE, results |-> Nothing]
    BY <2>1 DEF Silence
  <2> QED BY <1>1, <1>2, <2>2 DEF SuggestInv, SuggestionsOfTheQuery, Live, NoJob
<1>6. ChannelInv
  <2> SUFFICES ASSUME kind = "channel" PROVE ChannelInv
    BY DEF ChannelInv
  <2>1. self = NoChannel
    BY <1>1 DEF Facade, ListKinds
  <2> QED BY <1>1, <1>2, <2>1 DEF ChannelInv, NoChannel, NoJob
<1>7. StreamsInv
  <2> SUFFICES ASSUME kind = "streams" PROVE StreamsInv
    BY DEF StreamsInv
  <2>1. self = NoStreams
    BY <1>1 DEF Facade, ListKinds
  <2> QED BY <1>1, <1>2, <2>1 DEF StreamsInv, NoStreams, NoJob, CatalogOfTheAsked
<1> QED BY <1>1, <1>3, <1>4, <1>5, <1>6, <1>7 DEF FacadeInv, ListInv

LEMMA KindKept == ASSUME [Next]_vars PROVE kind' = kind
<1>1. CASE ListActs
  BY <1>1 DEF ListActs, VideoList, VideoSearch, PlaylistList, PlaylistSearch, ChannelList,
         CommentList, VideoMore, PlaylistMore, CommentMore, Cancel, Post, ChannelUnsubscribe,
         Query, Act
<1>2. CASE HeaderActs
  BY <1>2 DEF HeaderActs, LoadById, LoadStreams, CancelChannel, ApplySubscribe, CancelStreams, Act
<1>3. CASE Deliver
  BY <1>3 DEF Deliver, Take
<1> QED BY <1>1, <1>2, <1>3 DEF Next, Reply, Abort, vars

LEMMA FacadeStep == FacadeInv /\ [Next]_vars => FacadeInv'
<1> SUFFICES ASSUME FacadeInv, [Next]_vars PROVE FacadeInv'
  OBVIOUS
<1>1. kind' = kind /\ kind \in ListKinds \cup {"suggest", "channel", "streams"}
  BY KindKept, KindsAssumption DEF FacadeInv
<1>2. CASE UNCHANGED vars
  BY <1>2 DEF FacadeInv, vars, world, TokensInv, ListInv, ShownInv, ListState, LoadsInv, PostsInv,
              PagesInv, PageOK, ListOps, Paged, SuggestInv, SuggestionsOfTheQuery, ChannelInv,
              StreamsInv, CatalogOfTheAsked, Flight, Live
<1>3. CASE Next
  <2>1. ASSUME kind \in ListKinds PROVE TokensInv' /\ ListInv'
    BY <1>3, <2>1, ListStep DEF FacadeInv
  <2>2. ASSUME kind = "suggest" PROVE TokensInv' /\ SuggestInv'
    BY <1>3, <2>2, SuggestStep DEF FacadeInv
  <2>3. ASSUME kind = "channel" PROVE TokensInv' /\ ChannelInv'
    BY <1>3, <2>3, ChannelStep DEF FacadeInv
  <2>4. ASSUME kind = "streams" PROVE TokensInv' /\ StreamsInv'
    BY <1>3, <2>4, StreamsStep DEF FacadeInv
  <2>5. /\ kind \notin ListKinds => ListInv'
        /\ kind # "suggest" => SuggestInv'
        /\ kind # "channel" => ChannelInv'
        /\ kind # "streams" => StreamsInv'
    BY <1>1 DEF ListInv, SuggestInv, ChannelInv, StreamsInv
  <2> QED BY <1>1, <2>1, <2>2, <2>3, <2>4, <2>5 DEF FacadeInv
<1> QED BY <1>2, <1>3

LEMMA FacadesSafe == Spec => []FacadeInv
BY FacadeInit, FacadeStep, PTL DEF Spec

\* Whatever of the page before is still on its way, what a page shows is of
\* what was asked of its object last: rows, suggestions, a header, streams
\* (cancelJob() and the live() test of every closure).
THEOREM AsksAgain == Spec => []ShowsTheAsked
<1>1. FacadeInv => ShowsTheAsked
  <2> SUFFICES ASSUME FacadeInv PROVE ShowsTheAsked
    OBVIOUS
  <2>1. RowsOfTheAsked
    <3> SUFFICES ASSUME kind \in ListKinds
                 PROVE  \A i \in DOMAIN self.rows : self.rows[i].of = self.asked
      BY DEF RowsOfTheAsked
    <3>1. self.rows \in Seq(RowsFor(self.asked))
      BY DEF FacadeInv, ListInv, ShownInv, ListState
    <3> QED BY <3>1, FeedRows
  <2>2. SuggestionsOfTheQuery
    BY DEF FacadeInv, SuggestInv, SuggestionsOfTheQuery
  <2>3. HeaderOfTheAsked
    BY DEF FacadeInv, ChannelInv, HeaderOfTheAsked, Flight
  <2>4. CatalogOfTheAsked
    BY DEF FacadeInv, StreamsInv, CatalogOfTheAsked
  <2> QED BY <2>1, <2>2, <2>3, <2>4 DEF ShowsTheAsked
<1> QED BY <1>1, FacadesSafe, PTL

\* The pages of a list come one after the other and none twice, however its
\* loads fail and are canceled, and a continuation that is kept can be fetched
\* (fetchMore(), applyList(), applyUsers(), applyComments()).
THEOREM PagesAscend == Spec => []PagesInOrder
<1>1. FacadeInv => PagesInOrder
  BY DEF FacadeInv, ListInv, ShownInv, Rising, PagesInOrder
<1> QED BY <1>1, FacadesSafe, PTL

\* A failed post takes back its own comment, whatever was posted, loaded or
\* opened meanwhile (post(), and cancelJob() of CommentModel).
THEOREM RevertsOwnComment == Spec => []RevertsItsOwnComment
<1>1. FacadeInv => RevertsItsOwnComment
  <2> SUFFICES ASSUME FacadeInv, NEW c \in Flight, c.op = "post", Live(c.job)
               PROVE  self.rows # <<>> /\ Head(self.rows).by = c.job
    BY DEF RevertsItsOwnComment, Flight
  <2>1. kind \in ListKinds
    <3>1. kind \in ListKinds \cup {"suggest", "channel", "streams"}
      BY KindsAssumption DEF FacadeInv
    <3> QED BY <3>1 DEF FacadeInv, SuggestInv, ChannelInv, StreamsInv
  <2>2. self.rows # <<>> /\ self.rows[1].by = c.job
    BY <2>1 DEF FacadeInv, ListInv, PostsInv
  <2>3. self.rows \in Seq(RowsFor(self.asked))
    BY <2>1 DEF FacadeInv, ListInv, ShownInv, ListState
  <2> QED BY <2>2, <2>3
<1> QED BY <1>1, FacadesSafe, PTL
=============================================================================
