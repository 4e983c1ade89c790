----------------------------- MODULE ListModels -----------------------------
(***************************************************************************)
(* The lists of the user interface (core/models): VideoModel,              *)
(* PlaylistModel, ChannelModel and CommentModel over ServiceListModel, and *)
(* the search box's SearchSuggest.  A row is known by the feed it belongs  *)
(* to and its page; a comment of the user's own by the token of its post.  *)
(***************************************************************************)
EXTENDS Chains

CONSTANTS Feeds   \* what can be listed: resources, queries, videos

ListKinds == {"videos", "playlists", "channels", "comments"}

\* postJob, params (m_createCommentParams) and disabled are CommentModel's;
\* canPage says whether fetchMore() can continue what is listed.
EmptyList == [job |-> NoJob, asked |-> Nothing, canPage |-> FALSE, rows |-> <<>>,
              next |-> NoPage, status |-> "Null",
              postJob |-> NoJob, params |-> Nothing, disabled |-> FALSE]
Silence == [job |-> NoJob, query |-> Nothing, live |-> FALSE, results |-> Nothing]

-----------------------------------------------------------------------------
(* What the four lists have in common.                                     *)

\* newJob(), clear(), Loading.
Started(r, paged) ==
  self' = [self EXCEPT !.job = NewJob, !.asked = r, !.canPage = paged, !.rows = <<>>,
                       !.next = NoPage, !.status = "Loading", !.disabled = FALSE]

\* Mutant: list() that lets the load before run on.
Restart_KeepJob(r, paged) == Started(r, paged) /\ UNCHANGED <<canceled, aborts>>
\* Mutant: CommentModel::cancelJob() without the post's token.
Restart_KeepPost(r, paged) == CancelJob(self.job, {}) /\ Started(r, paged)

\* list() and search(): cancelJob() before anything else.
Restart(r, paged) == CancelJob(self.job, {self.postJob}) /\ Started(r, paged)

\* Mutant: fetchMore() called again by the end of the list while it loads.
More_Again ==
  /\ self.canPage /\ self.next # NoPage
  /\ self' = [self EXCEPT !.job = NewJob, !.status = "Loading"]
  /\ UNCHANGED <<canceled, aborts>>

\* fetchMore(): a new token; the one before has been answered.
More ==
  /\ self.canPage /\ self.next # NoPage /\ self.status # "Loading"
  /\ self' = [self EXCEPT !.job = NewJob, !.status = "Loading"]
  /\ UNCHANGED <<canceled, aborts>>

Cancel ==
  /\ kind \in ListKinds /\ Act(kind)
  /\ CancelJob(self.job, {self.postJob})
  /\ self' = [self EXCEPT !.job = NoJob, !.status = "Canceled"]
  /\ UNCHANGED <<calls, made>>

Page(out) == [self EXCEPT !.rows = @ \o out.rows, !.status = "Ready",
                          !.next = IF self.canPage THEN out.next ELSE NoPage]
Failure == [self EXCEPT !.status = "Failed"]

-----------------------------------------------------------------------------
(* VideoModel, PlaylistModel, ChannelModel.                                *)
VideoList(r) == Act("videos") /\ Restart(r, TRUE) /\ Ask("videos", r, 1)
VideoSearch(q) == Act("videos") /\ Restart(q, FALSE) /\ Ask("videos", q, 1)
VideoMore == Act("videos") /\ More /\ Ask("videos", self.asked, self.next)

PlaylistList(r) == Act("playlists") /\ Restart(r, TRUE) /\ Ask("playlists", r, 1)
PlaylistSearch(q) == Act("playlists") /\ Restart(q, FALSE) /\ Ask("playlists", q, 1)
PlaylistMore == Act("playlists") /\ More /\ Ask("playlists", self.asked, self.next)

\* list() and search() of channels: one page that replaces what is shown.
ChannelList(r) == Act("channels") /\ Restart(r, FALSE) /\ Ask("channels", r, NoPage)

\* removeAt().
Without(rows, i) == SubSeq(rows, 1, i - 1) \o SubSeq(rows, i + 1, Len(rows))

\* The first row of the channel goes at once, if there is one; what becomes of
\* the request is not looked at.
ChannelUnsubscribe(n) ==
  /\ Act("channels")
  /\ \/ (\A i \in DOMAIN self.rows : self.rows[i].n # n) /\ UNCHANGED self
     \/ \E i \in DOMAIN self.rows :
          /\ self.rows[i].n = n /\ \A j \in 1..(i - 1) : self.rows[j].n # n
          /\ self' = [self EXCEPT !.rows = Without(@, i)]
  /\ Ask("drop", n, NoPage) /\ UNCHANGED <<canceled, aborts>>

applyList(m) ==
  /\ m.call.op \in {"videos", "playlists"}
  /\ self' = IF m.out.ok THEN Page(m.out) ELSE Failure

applyUsers(m) ==
  /\ m.call.op = "channels"
  /\ self' = IF m.out.ok THEN [Page(m.out) EXCEPT !.rows = m.out.rows] ELSE Failure

-----------------------------------------------------------------------------
(* CommentModel.                                                           *)
CommentList(v) == Act("comments") /\ Restart(v, TRUE) /\ Ask("comments", v, NoPage)
CommentMore == Act("comments") /\ More /\ Ask("comments", self.asked, self.next)

Own(job) == [of |-> self.asked, n |-> NoPage, by |-> job]

\* post(): the comment shows at once; an earlier post loses its revert.
Post ==
  /\ Act("comments") /\ signedIn /\ self.asked # Nothing /\ ~self.disabled
  /\ self' = [self EXCEPT !.rows = <<Own(NewJob)>> \o @, !.postJob = NewJob]
  /\ canceled' = canceled \cup ({self.postJob} \ {NoJob})
  /\ Ask("post", self.asked, self.params)
  /\ UNCHANGED aborts

applyComments(m) ==
  /\ m.call.op = "comments"
  /\ self' = IF ~m.out.ok THEN Failure
             ELSE [Page(m.out) EXCEPT !.params = IF m.out.params # Nothing THEN m.out.params ELSE @,
                                      !.disabled = @ \/ m.out.disabled]

\* A post that failed takes the first row away.
revertPost(m) ==
  /\ m.call.op = "post"
  /\ self' = [self EXCEPT !.rows = IF @ = <<>> THEN @ ELSE Tail(@)]

-----------------------------------------------------------------------------
(* SearchSuggest: an empty box shows the history, without the network.     *)

Typed(q) ==
  \/ /\ q = Nothing
     /\ self' = [self EXCEPT !.job = NoJob, !.query = q, !.live = FALSE, !.results = q]
     /\ UNCHANGED <<calls, made>>
  \/ /\ q # Nothing
     /\ self' = [self EXCEPT !.job = NewJob, !.query = q, !.live = TRUE]
     /\ Ask("suggest", q, NoPage)

\* Mutant: query() that leaves the suggestions before on their way.
Query_KeepJob(q) == Act("suggest") /\ UNCHANGED <<canceled, aborts>> /\ Typed(q)

Query(q) == Act("suggest") /\ CancelJob(self.job, {}) /\ Typed(q)

applySuggestions(m) ==
  /\ m.call.op = "suggest"
  /\ self' = [self EXCEPT !.results = IF m.out.ok THEN m.out.results ELSE "none"]

ListActs ==
  \/ \E r \in Feeds : \/ VideoList(r) \/ VideoSearch(r) \/ PlaylistList(r)
                      \/ PlaylistSearch(r) \/ ChannelList(r) \/ CommentList(r)
  \/ VideoMore \/ PlaylistMore \/ CommentMore \/ Cancel \/ Post
  \/ \E n \in 1..2 : ChannelUnsubscribe(n)
  \/ \E q \in Feeds \cup {Nothing} : Query(q)

ListApplies(m) ==
  /\ \/ applyList(m) \/ applyUsers(m) \/ applyComments(m) \/ revertPost(m)
     \/ applySuggestions(m)
  /\ Quiet

-----------------------------------------------------------------------------
Rows == [of : Feeds \cup {Nothing}, n : 0..(LastPage + 2), by : Nat]
ListOK ==
  kind \in ListKinds =>
    /\ self.rows \in Seq(Rows)
    /\ {self.job, self.postJob} \subseteq 0..made
    /\ self.asked \in Feeds \cup {Nothing} /\ self.params \in Feeds \cup {Nothing}
    /\ self.next \in 0..LastPage
    /\ self.status \in {"Null", "Loading", "Ready", "Failed", "Canceled"}
    /\ {self.canPage, self.disabled} \subseteq BOOLEAN

\* A list shows nothing but what was asked of it last: no page of the feed
\* before, no comment posted under another video (list, search; the objects
\* are reused by videoapi.cpp, channelapi.cpp and playlistapi.cpp).
RowsOfTheAsked ==
  kind \in ListKinds => \A i \in DOMAIN self.rows : self.rows[i].of = self.asked

\* Pages come one after the other and none twice, though the list asks for
\* more each time it reaches its end, after failures and cancels; and what is
\* left to fetch can be fetched, "so a search result doesn't spin the footer
\* forever" (fetchMore, applyList, applyUsers).
PagesInOrder ==
  kind \in ListKinds =>
    /\ \A i, j \in DOMAIN self.rows :
         i < j /\ self.rows[i].by = NoJob /\ self.rows[j].by = NoJob
           => self.rows[i].n < self.rows[j].n
    /\ self.next # NoPage => self.canPage

\* A failed post takes back its own comment: as long as its revert is armed its
\* comment is the first row (post; cancelJob, "supersede any in-flight post
\* revert").
RevertsItsOwnComment ==
  \A c \in calls \cup {mail[i].call : i \in DOMAIN mail} :
    c.op = "post" /\ Live(c.job) => self.rows # <<>> /\ Head(self.rows).by = c.job

\* The suggestions shown are of what is in the box, unless those are still on
\* their way; an empty box shows the history (query, applySuggestions).
SuggestionsOfTheQuery ==
  kind = "suggest" /\ self.results \notin {self.query, "none"} =>
    /\ self.query # Nothing
    /\ \/ \E c \in calls : c.job = self.job
       \/ \E i \in DOMAIN mail : mail[i].call.job = self.job

\* "Comments for one video. ... Post a top-level comment" (commentmodel.h): a
\* comment is posted under the video it is shown under.
PostedUnderItsVideo == \A c \in calls : c.op = "post" => c.arg \in {Nothing, c.about}
=============================================================================
