# MeeTube in TLA+

MeeTube is a YouTube client for the Nokia N9: a QML user interface over a C++
core that talks to the Innertube API, and a media player that fetches, demuxes
and pushes streams into GStreamer. Almost everything that can go wrong in it is
a matter of order: three threads that post closures and signals to each other,
replies that come late or never, optimistic updates taken back after the user
has gone on, and one set of long-lived objects shared by every page.

This directory models that behaviour. `PROJECT.json` names, for every
definition, the lines it translates; every run, what it checks; every theorem,
what it proves. Paths below are relative to `src/src/` of the repository.

- [The system](#the-system)
- [Modules](#modules)
- [Runs](#runs)
- [Fairness](#fairness)
- [Proofs](#proofs)
- [Disagreements found](#disagreements-found)
- [What is left out](#what-is-left-out)
- [Plan](#plan)

Parse with `tlasany M.tla`, check with `tlc -config X.cfg MCx.tla`, prove with
`tlapm XProofs.tla`, one for each of the eight modules of that name.

## The system

```
 QML pages ── GUI thread ─────────────────────────────┐
   │  VideoDetails, ChannelDetails, models, Account*  │  StreamPlayer ── PolicyGuard
   │        │ invoke / invokeGui (FIFO closures)      │     │  ▲    └── GstAppPipeline
   │        ▼                                         │     ▼  │ queued signals    ▲
   │  worker thread: Http ── curl                     │  media thread: MediaPump ──┘
   │        (cache, coalescing, jobs, deadlines)      │     RoutingSource x2 (ProgressiveSource
   └──────────────────────────────────────────────────┘     or HlsSource), Fmp4Demuxer x2, curl
```

| component | state | operations | what is hard | what makes it correct |
|---|---|---|---|---|
| Transport: `core/core/http.cpp`, `job.h`, `contextbuilder.cpp` | pending replies and their waiters, index of coalescible questions, FIFO cache, cached deliveries, context and header memos, session, one deadline timer | `post`, `get`, `postForm`, `abort`, `clearCache`, reply, deadline, cached delivery | continuations re-enter the transport from inside its handlers; the GUI cancels between any two of their steps; deadlines race replies | each request of a live job is answered exactly once; the index, the memos, the cache order and the timer describe what is really there; no payload crosses identities |
| Media pump: `core/media/mediapump.cpp`, `bytesource.cpp` | per lane a source (window, prefetch, `m_waiting`), a demuxer, held samples; prebuffer, end flags, seek target | `play`/`playDual`, `stop`, need-data, seek-data, window finished, seek, esReady acknowledgement | `data()` is emitted from inside the fetch handler and asks for more from inside; lanes run apart; windows in flight across seeks and sessions | a stream is pushed once, in order, whole, before its end; sessions do not mix; every stream ends |
| Stream player: `core/media/streamplayer.cpp`, `app/media/policyguard.cpp`, `gstpipeline.cpp` | state, phase, startup gate, deferred switch, restore target, pipeline, policy | `play`, `playDual`, `pause`, `resume`, `stop`, `seek`; grant, preemption, release; pump, bus and GL events | three queues of events, none of which names its session; a preroll that must not be torn down | plays only with the policy, keeps its gate, survives switches, ends its spinners, stops when stopped |
| Account: `accountmanager.cpp`, `accountdetails.cpp`, `settingsstore.cpp` | job, device code, timers, bearer; account record; identity header | `signIn`, `cancel`, `signOut`, `restore`, `poll`, `load`, deliveries | timers nobody can stop, answers of two flows, a refresh crossing a sign-out | no sign-in after cancel, polling never dies, identities do not mix |
| Video details: `videodetails.cpp`, `videoapi.cpp` | primary record, votes, saved flag, session memory, four job tokens | `load`, `like`, `dislike`, `saveToWatchLater`, `addToPlaylist`, `subscribe`, reverts | optimistic states that overlap; navigation with writes in flight; one object, many pages | shows the video asked for; count and state agree; reverts hit their own video and are true |
| Channel details, comment and list models | the same patterns on channels, comments, pages of rows | load, check, subscribe, post, fetchMore | two writers of one flag; tokens of the page before | as above |
| Request chains: `chains.cpp` | none; continuation closures | ladder of player clients, two-hop comments | a job canceled between hops | the ladder ends with the first usable answer or the last error |
| Worker host: `workerhost.cpp`, `innertube.cpp`, the end of `main()` | event queues, the worker's loop | `invoke`, `invokeGui`, start, stop, shutdown | the user quits at any moment; closures queued behind and after the deletion of the transport | nothing uses the transport once it is gone, nobody is in libcurl when its global state goes, and the teardown ends |
| Curl stack: `core/net/` | multi handle, its messages, replies, one timer | create, drive, completion, abort, failed start, deferred delete, death of the manager | `finished()` is emitted from inside the driving loops and its slots abort, release and create replies | one `finished()` per reply, nothing of a dead reply in libcurl, no truncated body taken for an answer |
| Stream set: `streamset.cpp` | the catalogue cut up, one job | `load`, `cancel`, delivery | a load over a load; catalogues of every shape | plays only what the device decodes, of the video loaded last |
| fMP4 demuxer: `core/media/fmp4demux.cpp` | window of bytes, walk, pending and cut samples, clock, index | `feed`, `takeSamples`, `reanchor`, `reset` | bytes cut anywhere, the walk ahead of the download, broken files, seeks | what it gives depends on the file and not on the cuts |
| Routing and HLS sources: `bytesource.cpp`, `hlssource.cpp` | the active child; playlist, place in it, one reply | `open`, `close`, `requestData`, answers | a fetch in flight when the route changes | one child speaks; segments in order |
| Buffer planner: `bufferplanner.cpp` | stream rate, network rate, height | window, startup bytes, read-ahead | zero, rounding, three sizes that must fit each other | the gate waits for no more than the read-ahead fetches |
| Parsers, request bodies | none | pure functions | shapes of JSON | not modelled |

How they interact: facades capture their job token in a closure, `invoke` it on
the worker, where a chain calls the transport; the answer returns by
`invokeGui` and is dropped there if the token has been canceled meanwhile. The
player commands the pump by queued calls and hears of it by queued signals; the
pipeline's bus is read on the GUI thread, its appsrcs pull from the pump on the
media thread.

## Modules

| module | models | notes |
|---|---|---|
| `Transport` | `core::Http` on its worker thread, with the GUI thread posting to it | the core of the project |
| `RequestService` | what the transport promises its callers: each call is answered at most once, and not after it was dropped | abstract; `Transport` implements it (`ServiceSpec`) |
| `CurlReplies` | the network stack of one thread: manager, engine, replies, libcurl's multi handle, and the slots that re-enter it | no specification of its own |
| `ReplyPromise` | what a reply promises its owner: one `finished()`, unless it is given up | abstract; `Teardown` implements it (`PromiseKept`) |
| `Teardown` | the worker host and `main()`: start, posted closures, cancels, quit, shutdown | extends `CurlReplies` |
| `TransportProofs` | theorems about `Transport`, and that it implements `RequestService` | TLAPS |
| `TeardownProofs` | theorems about `CurlReplies` and `Teardown` | TLAPS |
| `ByteSource` | `ProgressiveSource`: range windows, prefetch, `requestData`, seeks | operators on a source record; used for both lanes |
| `MediaPump` | the pump over two byte sources, with the player's commands and the appsrcs | extends `ByteSource` |
| `Fmp4Demux` | the demuxer over files of abstract boxes, and what such a file promises | no specification of its own |
| `SampleStream` | what the demuxer promises the pump: the file's samples from the anchor on | abstract; `MediaInput` implements it (`SampleStreamed`) |
| `HlsSource`, `BufferPlanner` | the playlist source; the sizes of windows, gate and read-ahead | operators on a record |
| `MediaInput` | one lane's way in: routing, windows of the planned sizes, demuxer, startup gate | extends the three, takes `ByteSource` as an instance |
| `PumpProofs`, `MediaInputProofs` | theorems about `MediaPump`, and about `MediaInput` with its routing and playlist | TLAPS |
| `StreamPlayer` | the player's state machine with policy, pipeline and the pump's outside | |
| `PlayerProofs` | theorems about `StreamPlayer` | TLAPS |
| `AccountManager` | sign-in, refresh, sign-out, identity header, sign-in sheet | |
| `VideoDetails` | the shared details object, its optimistic actions and the page stack | |
| `AccountProofs`, `VideoDetailsProofs`, `FacadeProofs` | theorems about `AccountManager`, `VideoDetails` and `Facades` | TLAPS |
| `Chains` | job tokens, the chains of `chains.cpp` and the closures that bring their outcomes to the GUI thread | shared by the facades |
| `ListModels` | the video, playlist, channel and comment lists, and the search suggestions | extends `Chains` |
| `Headers` | `ChannelDetails` and `StreamSet` | extends `Chains` |
| `Facades` | any one of these objects with its user, the worker and the queue | extends `ListModels` and `Headers` |
| `MC*` | values of the constants for TLC | |

**Transport.** A handler that delivers is a sequence of steps (`phase`,
`batch`, `callback`), because the continuation it calls may post again and the
GUI thread may cancel in between; the one place where the code's atomicity is
less than a function. `pending` is the map of replies with their waiters, `inflight` the
coalescing index, `hits` with `zeroTimers` the cached deliveries. Replies are
numbered in issue order, so their deadlines are ordered and `clock` says which
have passed. Abstracted: URLs and bodies are request values; a context is the
tuple of session fields it is built from. `setVisitorSink` (the copy of a
captured visitorData to the settings) is not modelled.

**ByteSource and MediaPump.** Sizes are counted in units of a fragment of a
window. What the pump's handlers do in nested calls (`requestData()` from inside
`data()`, `topUp()` after it) is kept by small steps, `owed` and `unwind`
holding what the outer calls still have to do. A command posted by the GUI is
taken in the order of posting, so posting and execution are one step; need-data
of an old pipeline is drained before the next starts. One need-data per lane is
in flight, as appsrc allows; one fetch may fail per session. A pipeline rebuild
shows as a flush followed by a seek.

**CurlReplies and Teardown.** One thread's control is a stack of frames: a turn
of the event loop, `curl_multi_socket_action` in it (`drive`), the loop of
`checkCompletions` (`check`), and a `slot` on `finished()`, which Qt calls
synchronously and which may abort, release or create replies while those loops are
still running below it. Every handler that emits therefore ends where the slot
begins. libcurl is external: `multi` and `messages` change only as its
calls say (a handle removed takes its messages with it; `messages` is a set, since libcurl
says nothing of the order in which it reports); the sockets it wants are
not kept apart. A body is a number of pieces, cut off at `MaxBody`. An owner is the
transport's map (`listened`); its continuation is whatever the slot does. `Teardown` adds the
thread: `host` and `loop` for `WorkerHost`, `queue` for what was posted (an event of
many closures is run in one frame, `posted`, as `sendPostedEvents` does), `main` for
the stage `main()` has come to, and `busy` for the other network stacks, of which only
being in libcurl or not is kept. One job stands for those of all facades. A
closure that would use a deleted transport sets `misuse`.

**MediaInput and its parts.** `MediaPump` keeps two lanes and lets a window be
a fixed number of fragments; here is one lane, with the sizes the planner
chooses and bytes that mean something. A position is a number of 8-byte units, the length
of a short box header; a file is the sequence of its top-level boxes, each with what
the demuxer reads of it. `feed()` takes a step per pass of its loop; all of the nested
frames of `onVideoData()` end with the same `topUp()`, which runs once, when the innermost
has nothing more to ask (`owed`). A sample has a place, a size and a decode time of one tick;
composition times, key flags and codec data are left out. What a file promises is said
without an order of arrival (`EventsFrom`: the events of a walk and the byte at which each
happens), so the demuxer is compared with a reading of the whole file. The files end in
sample data, so an end that is noticed inside a delivery (see Disagreements) does not occur here. The gate is a pair of
milliseconds that sees the last `progress()`; behind it the paused pipeline takes
`Appetite` windows. Of HLS, one need-data is outstanding at a time: a second one would
lose the segment in flight to `get()`'s `close()`; that appsrc sends none is taken from it.
One may be on its way when the source is closed (`LateNeedData`): a closed `HlsSource`, unlike
a `ProgressiveSource`, fetches the next segment for it. It is read before the next session
opens, since it was queued before the grant that opens one.

**StreamPlayer.** A handler is a function on a record of all that a GUI handler can
change, composed the way the code calls its helpers and seated at once by
`Become`; so `setState()` can start a deferred switch in the middle of its
caller, as in the code, and the caller's remaining lines then apply to the new
session. Three queues: `mail` (queued signals of the pump, appsrc and GL),
`bus` (goes with the pipeline), `words` (answers of the policy manager, which a
release does not recall). A session number in a letter is the model's note, the
code has none. Commands to the pump take effect when posted: the signals that a late
command would let through are in `mail` already. Positions, durations and
percentages are dropped; the gate is which lanes are armed and full; a
position tick needs a first preroll, a preroll needs data. `playDual`'s failure
for a pump without an audio lane is left out, `main.cpp` wires both lanes.

**AccountManager.** A person stands for their refresh token, access token and
profile. Requests are records answered by a small server (codes that are
pending, approved, denied or used up; tokens that are accepted) and delivered
in any order; closures for the session go through the worker's FIFO. The sheet is part of
the model because it is what keeps `signIn()` from being called twice.
The account record is memory and file in one: `write()` is synchronous and
replaces the file by a rename, so a crash loses nothing it had; a failing write
is not modelled.

**VideoDetails.** Tokens are numbered, a delivery is live when it holds the
newest number of its token and that was not canceled. A write carries the state
its failure restores. The server serves in any order, since each request has a
connection of its own; a request that fails was not carried out (a write whose
reply is lost is outside what any revert could know). The RYD vote count is
the video it is about. Signed-out branches and `cancel()`, which no page calls,
are left out.

**Chains, ListModels, Headers, Facades.** The facades share nothing but the two event
queues, so a behaviour follows one of them (`kind`) and its members (`self`), and whether
somebody is signed in is settled at its start. A request in flight is a record with
the token of the job it belongs to; a reply ends its chain with a closure or
makes it ask again, which only happens while the token is live. A row is known
by what it was listed for, its page, and, for a comment of the user's own, the
token of its post; a stream by its itag. What a list was `asked` for is the
model's note where the code keeps no member for it, and so is `offered`, what the
clients had for a load. The operators of `StreamSet` are functions on catalogues.
Destruction of a facade sets the flag of its token and nothing else, as a cancel
does; the branches for a missing engine are left out.

## Runs

`CHECK_DEADLOCK FALSE` is in every configuration: the number of calls, sessions or button
presses is bounded, and the system stops when they are used up.

Bounds are chosen as the smallest with which each hazard needs its full cast:
two waiters of one reply and a third call in between; two sessions for anything
left over by the first; three plays for a switch put off twice; two flows or
two people for answers to cross; two pages for one object.

### Transport
- `transport_share`: two jobs ask one cacheable feed, one of them also gets a
  page; one change of bearer or locale, so that the feed is in flight under two contexts;
  room for one cache entry. `NoLostCall`, `TimerArmed`, `MemoOK`, `InflightOK`, and
  `ServiceSpec`, the refinement of `RequestService`: no call is answered twice or after it
  was dropped.
- `transport_live`: two jobs write the same like, one also polls for a token, and
  the network may never answer. `EveryCallAnswered`, `TypeOK`.

### Network stack and teardown
- `teardown`: two requests in flight at once, one with a body over the cap; a
  load of one or both or a change of bearer, a cancel, and a quit between any two steps.
  Of the other network stacks only the media thread's may be busy; the image readers'
  (`Others = {"media", "images"}`) pass too, in three times the time. Two replies are
  what it takes for a slot on one to abort, release or create the other inside libcurl's
  loops. `PromiseKept`, the refinement of `ReplyPromise` (a reply is mapped to open from
  the moment its owner has it until the owner hears it, drops it or its thread leaves);
  `NoDangling`, `WholeOrError`, `OrderlyTeardown`, `TeardownEnds`, `HostTypeOK`.

### Media input
- `media_input`: two sessions of seven files (as YouTube writes them; with a 64-bit
  header, a box between fragments, an untimed fragment; with a run out of its data, an
  error page, a box without an end, a run without a place, a foreign track) or of an
  HLS playlist that may be of no use; windows of 1 to 4 units, answers cut to one,
  a link a third as fast as the stream or three times faster, a failing fetch, a seek. A file is at most
  17 units, so that windows end inside every header, every box and between moof and data.
  `SampleStreamed`, the refinement of `SampleStream`; `AsArrived`, which also says that
  what has arrived is given at once; `OneVoice`, `SegmentsInOrder`, `InputFlows`, `TypeOK`.

### Media pump
- `pump_switch`: two dual sessions with a prebuffer, a seek, a stop, a failing fetch,
  and a release by the policy manager that leaves the fetches of the first in flight.
  `SessionPure`, `EosIsLast`, `TypeOK`.
- `pump_live`: a single and a dual session, a seek, a release, servers with and without
  ranges, a prebuffer of two frames. The video is seven units with a moov over two windows, so
  `onVideoData()` asks again from inside `data()`, first for the moov and then for the
  prebuffer. `EosComplete`; `EveryStreamEnds`, which excepts the one stream the code does lose:
  `EndLost` describes a nested request that met the last window before the source had noticed
  the end (`bytesource.cpp:176`), and nothing else may leave a lane waiting. It also held, tried by
  hand, for prebuffers of 1, 3 and 9 frames, a read-ahead of 2 with two seeks, and the sessions
  dual-dual and dual-single.

### Stream player
`Budget` bounds each thing that may happen to the player, `MaxActs` all of them
together.
- `player_switch`: up to three plays, pauses and resumes of both kinds of
  stream, gated or not. `OwnPipeline`, `SwitchSparesPreroll`, `SpinnerEnds`, `TypeOK`.
- `player_rough`: up to two plays of single and dual streams, and any four acts in all of a
  play, stop, pause, resume, seek, preemption, release by the manager, failure, loss of the GL
  context and BUFFERING message. `StopSticks`: of all that may be on its way when a player
  stops, only a loss of the policy and, in a single stream, `videoOpened` bring it back.

Some of the passing properties are broken by a longer cast (see the
disagreements): the passing run shows that the machine keeps them without that
cast, and its mutants that they are not empty there.

### Account
- `account_flow`: a fresh install and a relaunch, two flows, two people,
  retries, cancels, sign-outs. `NobodyBehindTheSheet`, `SignInEnds`.
- `account_profile`: the same two people in one launch, with tokens that run
  out and the account page open. `ProfileOfAccount`, `TypeOK`. A relaunch is
  left out of it: after one, a bearer left by a
  refresh after a sign-out (`BearerOfAccount`) writes one person's
  profile into the record of the other.

### Video details
- `details_pages`: two pages over one object, two presses of any buttons, an
  account that already likes one video and follows one channel. `OfTheAsked`,
  `ButtonsTellTheState` (the count follows the like, a save shown is remembered),
  `RevertsItsOwnLike`. `TypeOK` is in `MCVideoDetailsClaims.cfg`, on the same instance,
  by hand.

### Facades
- `facades`: each kind of facade, signed in or not, with three requests, cancels,
  posts or presses (two for streams), two things to ask for, feeds of two pages, and five
  catalogues: none, an old video's, a new one's in both orders, one without muxed
  streams and without itag 140. Three acts are a load, a second one over it and something
  that leans on either, such as a page, a post or a cancel. `ShowsTheAsked`
  (of rows, suggestions, header and streams), `PagesInOrder`, `RevertsItsOwnComment`,
  `StreamsAreUsable` (every offer the device decodes is used, and the picker holds only
  what plays). `MCFacadesLive.cfg` checks `LoadEnds` (no list or page loads for ever) and
  `TypeOK` on the same instance, by hand.

Every property of a passing run has a mutant in its module: a definition with a
slip of the kind the code could have, under which the property fails.

## Fairness

Only what the event loops owe: queued closures run, due timers fire, replies
that arrived are handled, a handler ends. The network owes nothing in
`Transport`, where the 20 s deadline (`kRequestTimeoutMs`) is what ends a request; `AccountManager`
may therefore assume that each of its requests is answered, if only by that
deadline. In `MediaPump` fetches end (curl has timeouts of its own). In
`StreamPlayer` the pipeline prerolls when it is fed and the policy manager
grants unless it preempts. `Facades` is fair to replies and to queued closures:
what the transport is not told to abort it answers, at the latest when the deadline passes
(`EveryCallAnswered` of `Transport`). In `Teardown` libcurl ends each transfer it is
driven through often enough (`CURLOPT_TIMEOUT_MS`), strongly fair because a transfer waits while
others are handled; `main()` goes on once `exec()` has returned, which nothing makes it
do. In `MediaInput` fetches end, the handlers and the gate run and a dry appsrc asks, but
nobody has to consume: the gate must open without. It does on a link that keeps its rate
(`Steady`); for the other see Disagreements. No action of the user, no failure and no
interruption is ever assumed to happen.

## Proofs

`TransportProofs` proves for every set of calls, jobs, requests and clients,
every cache size and every number of session changes:

- `TypeCorrect`: `Spec => []TypeOK`. `TypeOK` carries more than types: the
  index, the sweep of the deadline and the batch refer to replies that exist.
- `IndexTruthful`: `Spec => []InflightOK`: the coalescing index is injective and
  leads only to replies that ask the question they are filed under. What
  `post()` attaches to is therefore always an answer to its own question.
- `MemoFresh`: `Spec => []MemoOK`: a context or header list that is marked valid is what
  would be built from the session now, through locale and bearer changes and
  the capture of visitorData.
- `DeadlineArmed`: `Spec => []TimerArmed`: between handlers, the one timer is armed for the
  nearest deadline or stopped, which is what lets an unanswered request end.

`TypeOK` alone is not inductive: that a reply about to be removed takes its
index entry with it needs `InflightOK`, so `IndexInv == TypeOK /\ InflightOK` is
the inductive invariant, with a lemma per handler (`GuiIndex`, `IssueIndex`,
`FinishIndex`, `AbortIndex`, `DeadlineIndex`). `TimerArmed` says nothing in the middle of
a handler, so its induction goes through `TimerInv`, which holds in every
phase but the one that has just removed a reply. The lemmas on `Nearest` (that a
non-empty set of naturals has a least member) and on the record updates are
stated once at the top. The assumptions used are those of `Transport`, which
TLC evaluates in each of its runs.

Two more theorems build on them:

- `NothingLost` (`NoLostCall`): the request of a live job is queued, in flight or due
  for delivery until its continuation has run.
- `ImplementsService` (`ServiceSpec`): the initial states of `Transport` map to those of
  `RequestService`, and every step to a step of it or to a stutter.

Both rest on one picture, `ServiceInv`: a call is a token that moves from the worker's
queue to the waiters of one reply or to a cached delivery, from there to the batch of a
delivery loop, and is never in two of these places (`OnePlace`), nor in any before it was
issued (`Issued`). That it is in one until it is answered is `NoLostCall`; that it is in
no more is what makes an answer the only one.

`TeardownProofs` goes through `TeardownInv`, the types, `StackInv` (what each frame of
the stack means for the reply it is about) and `HostInv` (how far the teardown has come):

- `StackTypes` (`HostTypeOK`), `NothingDangles` (`NoDangling`), `AnswersWhole`
  (`WholeOrError`), `TakenDownInOrder` (`OrderlyTeardown`), for any number of replies, body
  sizes, stacks and closures.
- `PromiseSafety`: the part of the refinement `PromiseKept` that is not fairness,
  `Promise!SafeSpec`.

`NoDangling` is not inductive by itself: a reply that a slot aborts or deletes inside
libcurl's loop must be known to be the one the frame below stands for, or another.

`PumpProofs`: `PumpInv` says which session everything is of: the video source holds
windows of the current session only, the audio source and the demuxers those of the
current one in a session of two streams and of any past one otherwise. From it

- `PumpTyped` (`TypeOK`), for files, windows and read-ahead of any size;
- `PumpPure` (`SessionPure`): no sample of one session is pushed in another, under
  `NoStaleEs`, that no esReady of two streams is read while a single stream is loading.
- `PumpEndsLast` (`EosIsLast`): nothing follows an end of stream, under `NoStaleEs` and
  `NoStaleOpened`, that a videoOpened which builds a pipeline is of the stream played now.
- `PumpEosComplete` (`EosComplete`): an end of stream comes after everything from the start
  or the last seek, under these two and `AtMostOneFetch`, that no source has a second fetch
  in flight.
- `PumpOneFetch`: `AtMostOneFetch` holds where the policy takes no pipeline away
  (`MaxReleases = 0`): `stop()` closes the sources and nothing asks a closed one.
- `PumpPureDual`, `PumpEndsLastDual`, `PumpEosCompleteDual`: where every session plays two
  streams, as every video with separate streams does, the three hold with nothing assumed,
  `EosComplete` where nothing is released.

The three hypotheses are the protocol the code relies on and does not enforce: without them
the properties fail (see Disagreements). For `EosIsLast` the invariant is `PumpInv` and
`LastInv`: a lane that is ending has a source with nothing ready and nothing in flight, and
nothing held or cut once its end is out (`EndInv`); a consumer waits only when nothing is
ready (`WaitInv`), else a prefetched window could be overtaken; a single stream has no
pipeline while it is probed (`ProbeInv`).

For `EosComplete` a third invariant, `PlaceInv`, says where every unit of a file is. The
windows a source has ready follow on one another up to where the next fetch begins
(`ChainInv`), so the source's cursor, the first byte it has not handed over, is the edge of
what it gave. With two streams the demuxer stands at that edge and every unit before it is
pushed, held or cut (`DualPlace`); with one, every unit up to it is pushed, and nobody asks
before `opened()` has been read (`SinglePlace`). A seek moves origin and cursor together
(`SoughtInv`); the lanes of two streams that play are open (`OpenInv`), and a lane whose
end is pending or out has an open source (`UrlInv`), so by
`EndInv` nothing is ready, held or cut and everything has been pushed.

`PlayerProofs`: a handler of the player is a composition of operators on one record, `world`, so
each operator has a lemma saying what it keeps, and `PlayerSteps` sorts the steps by what
they do to the playback: go on, leave it, make a pipeline, play it, answer. On them rests
`PlayerInv`: the types; a pipeline, pump or letter is of no session that has not begun (`Dated`); a
switch is owed only by a busy player (`Owes`), and never more plays are begun or owed than were asked
for; without a pipeline there is no bus and no preroll (`Piped`), and a player that rests has
none (`Rested`). From it

- `PlayerTyped` (`TypeOK`).
- `OwnsItsPipeline` (`OwnPipeline`): the pipeline is of the stream played now, under `Current`,
  that no signal that builds one is read after its stream was left, and `SeeksOpened`, that a
  single stream is not sought before it is open.
- `SwitchSpares` (`SwitchSparesPreroll`): a switch of quality does not tear down a pipeline in its
  first preroll, under `NothingEndsPreroll`, that no loss of the policy and no full queue takes the
  page out of it: `setState()` makes the switch then.
- `StopRevived` (`StopSticks`), with nothing assumed: what revives a stopped player is the
  page, a loss of the policy, and for a single stream its own opening or a seek.
  `StaysStoppedDual` (`StaysStopped`): where every stream has two lanes, the first two alone.

Each hypothesis of the others is an order of signals that the code counts on and does not enforce (the pump's
signals do not name their session); without it the property fails, as the rows of
`MCStreamPlayerClaims` show.

`MediaInputProofs`: `OneVoiceOnly` (`OneVoice`) and `PlaylistOrder` (`SegmentsInOrder`), for
playlists of any length. The place in the playlist, the reply in flight and what was pushed
are tied by `PlaceInv`.

`VideoDetailsProofs`: `AboutTheAsked` (`OfTheAsked`), `ButtonsAgree`
(`ButtonsTellTheState`) and `RevertsOwn` (`RevertsItsOwnLike`), for any number of videos,
presses and pages, from `DetailsInv`: every write in flight that would still be reverted
is about the page shown and restores a state that fits its count (`CallsInv`), and the
pages below agree with the object (`PageInv`).

`AccountProofs`: `AccountTyped` (`TypeOK`), `NoLateSignIn` (`NobodyBehindTheSheet`) and
`ProfileOwned` (`ProfileOfAccount`), the last under `NoCrossing`, that no refresh is under
way for somebody who has signed out: the hazard at `accountmanager.cpp:158`, which the code
does not rule out (see Disagreements). The types need a count: requests of flows and armed
timers are never more than the sign-ins begun (`BoundInv`).

`FacadeProofs`: `AsksAgain` (`ShowsTheAsked`), `PagesAscend` (`PagesInOrder`) and
`RevertsOwnComment` (`RevertsItsOwnComment`), for every kind of facade, any number of acts
and feeds of any length, from `FacadeInv`: what is in flight or queued with a live token is
about what was asked last.

The assumptions used are the ASSUMEs of the modules, which TLC evaluates in each of their
runs.

Only model-checked:

- liveness and the fairness half of `PromiseKept`: fairness and ENABLED are out of the
  prover's reach;
- what a fold or a filter computes, which takes induction over data: `SampleStreamed`,
  `AsArrived` and the types of `MediaInput` (the demuxer's walk), `StreamsAreUsable`.

## Disagreements found

What a comment or a document of the repository says and the code does not keep.
The configurations `MC*Claims.cfg` list them as properties to check by hand, one at a
time, with the values each of them takes; every one ends in a counterexample.

| configuration | property | what the code does | what it says |
|---|---|---|---|
| `MCTransportClaims` | `NoForeignPayload` | a reply asked under the old bearer is cached for the next | `innertube.cpp:101` |
| `MCTransportClaims` | `WritesHitTheNetwork` | two identical writes become one | `http.cpp:24` |
| `MCTeardownClaims` | `NoHandleSurvives` | the captions' network stack is never deleted and may be in libcurl when its global state goes | `main.cpp:282` "no curl handle survives" |
| `MCTeardownClaims` | `DeleteRuns` | the deletion is posted and the loop told to quit in the middle of a turn: the worker leaves without running it | `innertube.cpp:66` "it runs before the event loop exits" |
| `MCMediaInputClaims` | `InputFlows` | the link slows down after the probe: the gate's target is frozen, the window and the read-ahead follow the new rate, and the gate waits for ever | `bufferplanner.cpp:84`, `streamplayer.h:140` |
| `MCMediaInputClaims` | `SamplesInData` | a sample said to be inside its moof is cut from it, when a chunk ends before the mdat's header | `fmp4demux.cpp:446` "must land inside that mdat's payload" |
| `MCMediaInputClaims` | `ClosedIsDead` | a need-data on its way when an HLS stream is closed fetches the next segment | `bytesource.cpp:142` "dead until open()" |
| `MCMediaPumpClaims` | `EndIsNeverLost` | the last window is delivered while the prebuffer is short: the nested request waits for a fetch that never starts, and the end of the video is never noticed | `mediapump.cpp:258` "a video lane that already ended stops gating" |
| `MCMediaPumpClaims` | `MonotonicDts` | samples held before a seek are pushed after it | `mediapump.cpp:246` |
| `MCMediaPumpClaims` | `SeekReanchors` | a second seek to the same fragment flushes and is ignored | `mediapump.cpp:86` |
| `MCMediaPumpClaims` | `AtMostOneFetch` | a release leaves a fetch that the next play starts over | `bytesource.h`, `m_reply` |
| `MCMediaPumpClaims` | `EosComplete` | after a release and the next play a lane's stray reply is read as an empty window: its end comes before the rest of the file | `bytesource.h`, `m_reply` |
| `MCMediaPumpClaims` | `CapsFirst` | a pipeline is configured with the caps of the session before | `mediapump.h`, ack |
| `MCMediaPumpClaims` | `SessionPure` | a single stream opened over one of two: an esReady still queued is taken for it and drains the old demuxers, which `openSingle()` keeps | `streamplayer.cpp:295` "switched away meanwhile" |
| `MCMediaPumpClaims` | `EosIsLast` | a videoOpened of the stream before builds the pipeline while the next is probed; its need-data waits, a window overtakes the probe's, and the end comes before the rest | `streamplayer.cpp:222` |
| `MCStreamPlayerClaims` | `OnlyWhenGranted` (`StopEarly`) | a queued `videoOpened` plays a stopped, released player | `streamplayer.cpp:222` |
| `MCStreamPlayerClaims` | `OnlyWhenGranted` | `prebuffering(100)` resumes a preempted player | `ipolicy.h`, `lost()` |
| `MCStreamPlayerClaims` | `PlayingPlays` | preempted while loading, the next grant shows Playing without a pipeline | `ipolicy.h`, `granted()` |
| `MCStreamPlayerClaims` | `GateHoldsClock` | the rebuild of a seek plays ahead of the startup gate | `streamplayer.h:140` |
| `MCStreamPlayerClaims` | `SwitchSparesPreroll` | preempted and switched, a prerolling pipeline is torn down | `streamplayer.cpp:180` |
| `MCStreamPlayerClaims` | `SwitchSparesPreroll` (`SwitchDrained`) | a full queue reported in the first preroll shows Playing, and the next switch tears the prerolling pipeline down | `streamplayer.cpp:180` |
| `MCStreamPlayerClaims` | `StoppedFetchesNothing` | a release by the manager leaves the pump fetching | `streamplayer.cpp:480` |
| `MCStreamPlayerClaims` | `PhaseFits` | the end of one stream marks the next as ended | `streamplayer.cpp:221` |
| `MCStreamPlayerClaims` | `OwnPipeline` (`Replayed`) | a grant queued before a stop opens the pump for the stopped player; the next play makes a pipeline for that stream | `streamplayer.cpp:295` "switched away meanwhile" |
| `MCStreamPlayerClaims` | `StaysStopped` | a queued `videoOpened` of a single stream, which looks at no state, revives a stopped player | `streamplayer.cpp:295` "switched away meanwhile" |
| `MCStreamPlayerClaims` | `RestoreIsOwn` | a restoring seek reaches the next stream | `streamplayer.cpp:455` |
| `MCStreamPlayerClaims` | `SpinnerEnds` (`OneSeek`) | a shortage reported before a seek leaves the player buffering | `streamplayer.cpp:338` |
| `MCStreamPlayerClaims` | `SpinnerEnds` (`Minimized`) | a stream that cannot seek is not resumed after a rebuild | `streamplayer.cpp:496` |
| `MCAccountManagerClaims` | `BearerOfAccount` | a refresh answered after the sign-out seats a bearer | `accountmanager.cpp:130` |
| `MCAccountManagerClaims` | `OnePollPerInterval` | two chains poll one code | `accountmanager.h:66` |
| `MCAccountManagerClaims` | `EndsByItsOwnCode` | an answer about one code ends the flow of another | `accountmanager.h:36` |
| `MCAccountManagerClaims` | `MintedOnDemand` | a token that expires is not minted again | `accountmanager.h:37` |
| `MCAccountManagerClaims` | `HeaderOfAccount` | the page shows the person before | `accountdetails.h:30` |
| `MCVideoDetailsClaims` | `RevertsToTheTruth` | a revert to a like nobody confirmed | `videodetails.h:92` |
| `MCVideoDetailsClaims` | `RevertsItsOwnChannel` | a failed subscription reverts the channel of another video | `videodetails.h:56` |
| `MCVideoDetailsClaims` | `RememberedIsSaved` | a save that failed is remembered | `videodetails.cpp:198` |
| `MCVideoDetailsClaims` | `PageShowsItsVideo` | after Back a page shows, and changes, the other video | `videodetails.cpp:184` |
| `MCFacadesClaims` | `PostedUnderItsVideo` | a comment is posted with the token of the video before | `commentmodel.h`, `post()` |
| `MCFacadesClaims` | `DefaultIsTheFirst` | without itag 140 the last AAC stream is the default, not the first | `streamset.cpp:98` |

A loss of the policy that is on its way when the user stops shows the stopped
player as Paused, and a seek of a stopped single stream builds its pipeline again;
`StopSticks` names both.

Three more seen while modelling and not stated as properties: `curlnetworkreply.cpp:181`
says that no consumer connects `readyRead()`, which `bytesource.cpp:79` does; seeking a single
stream that has ended leaves a paused pipeline in Buffering, and `m_seekable`
is not reset by `play()`.

## What is left out

GStreamer and libcurl below their signals; the texture and the streaming threads of
`gstpipeline.cpp`, of which the player and the pump see states, messages and need-data;
codec data and composition times of a file; subtitles (one document, looked up by
position); the parsers and request bodies
(stateless, covered by fixtures and fuzzers in the repository); painting, device
services, packaging and the WebP plugin; layout and most of the QML, of which
the sign-in sheet and the page stack are modelled because they decide which
calls can happen. `PROJECT.json` lists every component with the reason.

## Plan

In this order, most important behaviour first:

1. Done: `Transport` with its proofs; `ByteSource`/`MediaPump`; `StreamPlayer`;
   `AccountManager`; `VideoDetails`.
2. Done: `Chains`, `ListModels`, `Headers`, `Facades`.
3. Done: `CurlReplies`, `ReplyPromise`, `Teardown`; `Fmp4Demux`, `SampleStream`,
   `HlsSource`, `BufferPlanner`, `MediaInput`.
4. Still open: the choice of a client per feed when the bearer changes between two
   pages, `fetchChannelByUrl()`; a second need-data during an HLS fetch; the prebuffer's
   size.
5. Done: the proofs of the last section.
