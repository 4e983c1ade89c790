----------------------------- MODULE MediaPump ------------------------------
(***************************************************************************)
(* media::MediaPump (core/media/mediapump.cpp) on the media thread, with   *)
(* its two ProgressiveSources (ByteSource), the fMP4 demuxers' cursors,    *)
(* the GUI thread that commands it (core/media/streamplayer.cpp) and the   *)
(* appsrcs of the pipeline that pull and receive samples.                  *)
(*                                                                         *)
(* Everything on the media thread is one thread: a source's signal runs a  *)
(* handler, which may ask the same source for more, whose signal runs a    *)
(* handler inside the first.  `owed' holds the requestData() calls made    *)
(* inside the running handler and `unwind' the topUp() calls the enclosing *)
(* frames end with; another event waits until both are empty.              *)
(*                                                                         *)
(* Samples are the units of a file behind its header, one frame each.      *)
(***************************************************************************)
EXTENDS Naturals, Sequences, FiniteSets

CONSTANTS
  Window, ReadAhead, NoReply,   \* see ByteSource
  FileSize,      \* units of each lane's file
  HeaderSize,    \* units of its moov and sidx
  DualSession,   \* which sessions are openDual(), the others openSingle()
  Targets,       \* seek targets: subsegments of the video's sidx
  SegStart,      \* the first unit of each target, by lane
  NoSeek,        \* m_lastDualSeek = -1; no seek-data under way
  PrebufferN,    \* m_prebufferN
  Ranged,        \* whether servers answer with Content-Range
  MaxSeeks, MaxReleases, MaxStops   \* bounds on what the GUI and the policy do

Lanes == {"video", "audio"}
Sessions == DOMAIN DualSession
BS == INSTANCE ByteSource

ASSUME FilesAssumption ==
  \A l \in Lanes : /\ FileSize[l] \in Nat /\ HeaderSize[l] \in 1..FileSize[l] - 1
                   /\ \A t \in Targets : SegStart[t][l] \in HeaderSize[l]..FileSize[l] - 1
ASSUME PlanAssumption == Window \in Nat \ {0} /\ ReadAhead \in Nat \ {0}
ASSUME NoReplyAssumption == NoReply \notin [url : Nat, from : Nat, slot : BS!Slots]
ASSUME TargetsAssumption == NoSeek \notin Targets
ASSUME BoundsAssumption ==
  /\ DualSession \in [1..Len(DualSession) -> BOOLEAN] /\ Ranged \subseteq BOOLEAN
  /\ PrebufferN \in Nat /\ {MaxSeeks, MaxReleases, MaxStops} \subseteq Nat

VARIABLES
  \* media thread
  src,        \* m_video, m_audio
  pump,       \* the scalar members of MediaPump
  demux,      \* m_videoDemux, m_audioDemux: position in the file, samples cut
  hold,       \* m_vHold, m_aHold
  owed, unwind,
  broken,     \* pumpFailed() was emitted
  \* GUI thread
  session,    \* sessions opened so far
  gui,        \* "idle", "loading", "running", "released" (pipeline gone, pump open)
  mail,       \* videoOpened and esReady signals queued to the GUI
  seeking,    \* the target of a flushed seek the pump has not been told yet
  wanted,     \* where the pipeline was flushed to, and
  anchored,   \* where the pump last went because of it
  used,       \* seeks, releases and stops so far
  \* pipeline
  app,        \* the appsrcs: fill level, need-data under way, end of stream
  caps,       \* the session whose caps they carry, 0 without a pipeline
  pushed      \* what was pushed since the last flush

mediaVars == <<src, pump, demux, hold, owed, unwind, broken>>
guiVars == <<session, gui, mail, seeking, wanted, anchored, used>>
pipeVars == <<app, caps, pushed>>
vars == <<mediaVars, guiVars, pipeVars>>

-----------------------------------------------------------------------------
Samples == [session : Sessions, unit : Nat]
Demuxes == [next : Nat, header : BOOLEAN, samples : Seq(Samples), failed : BOOLEAN]
Pumps == [dual : BOOLEAN, open : [Lanes -> BOOLEAN], esSent : BOOLEAN,
          configured : BOOLEAN, eosPending : [Lanes -> BOOLEAN],
          lastSeek : Targets \cup {NoSeek}, primed : BOOLEAN,
          reported : BOOLEAN, videoDone : BOOLEAN]
AppSrcs == [level : {"full", "dry", "blocked"}, asked : BOOLEAN,
            eos : {"no", "yes", "stale"}]
Letters == [kind : {"opened", "es"}, session : Sessions]

Both(x) == [l \in Lanes |-> x]
NewDemux == [next |-> 0, header |-> FALSE, samples |-> <<>>, failed |-> FALSE]
NewAppSrc == [level |-> "dry", asked |-> FALSE, eos |-> "no"]

\* m_esSent, m_configured, the open flags and the pending ends of a new life.
Reset(p) ==
  [p EXCEPT !.open = Both(FALSE), !.esSent = FALSE, !.configured = FALSE,
            !.eosPending = Both(FALSE)]
\* rearmPrebuffer()
Rearm(p) == [p EXCEPT !.primed = (PrebufferN = 0), !.reported = FALSE]

Idle == owed = {} /\ unwind = {}

\* The samples of the units from+1 .. from+n of a file.
Cut(l, w) ==
  LET first == IF w.from < HeaderSize[l] THEN HeaderSize[l] + 1 ELSE w.from + 1
      last == w.from + w.n
  IN IF last < first THEN <<>>
     ELSE [i \in 1..last - first + 1 |-> [session |-> w.url, unit |-> first + i - 1]]

\* Fmp4Demuxer::feed(): the bytes must follow those it has.
Feed(d, l, w) ==
  IF d.failed \/ w.from # d.next THEN [d EXCEPT !.failed = TRUE]
  ELSE [d EXCEPT !.next = w.from + w.n, !.samples = @ \o Cut(l, w),
                 !.header = @ \/ w.from + w.n >= HeaderSize[l]]

Init ==
  /\ src = Both(BS!NewSource)
  /\ pump = [dual |-> FALSE, open |-> Both(FALSE), esSent |-> FALSE,
             configured |-> FALSE, eosPending |-> Both(FALSE), lastSeek |-> NoSeek,
             primed |-> TRUE, reported |-> FALSE, videoDone |-> FALSE]
  /\ demux = Both(NewDemux) /\ hold = Both(<<>>)
  /\ owed = {} /\ unwind = {} /\ broken = FALSE
  /\ session = 0 /\ gui = "idle" /\ mail = <<>>
  /\ seeking = NoSeek /\ wanted = NoSeek /\ anchored = NoSeek
  /\ used = [seeks |-> 0, releases |-> 0, stops |-> 0]
  /\ app = Both(NewAppSrc) /\ caps = 0 /\ pushed = Both(<<>>)

-----------------------------------------------------------------------------
(* Pushing to the pipeline: without one, pushes and ends are dropped. *)

Push(samples) ==
  /\ pushed' = IF caps' = 0 THEN pushed
               ELSE [l \in Lanes |-> pushed[l] \o samples[l]]

\* An end that leaves while a seek is under way meets a flushed appsrc.
End(ends, samples) ==
  app' = IF caps' = 0 THEN app
         ELSE [l \in Lanes |->
                [app[l] EXCEPT
                   !.level = IF samples[l] # <<>> THEN "full" ELSE @,
                   !.eos = IF ends[l] /\ @ = "no"
                           THEN IF seeking = NoSeek THEN "yes" ELSE "stale"
                           ELSE @]]

-----------------------------------------------------------------------------
(* drainSamples() *)

VideoDone(p) == p.eosPending["video"] \/ p.videoDone

Gated(p, held) ==
  ~p.primed /\ ~VideoDone(p) /\ Len(held["video"]) < PrebufferN

\* The caps are not set: the demuxers keep their samples.
Buffer(p, d, more) ==
  /\ ~p.configured
  /\ pump' = p /\ demux' = d /\ owed' = more
  /\ UNCHANGED <<hold, app, pushed>>

\* Too few video frames: hold, and on the video lane ask for more.
Withhold(p, d, l, more) ==
  LET held == [k \in Lanes |-> hold[k] \o d[k].samples]
  IN /\ p.configured /\ Gated(p, held)
     /\ hold' = held
     /\ demux' = [k \in Lanes |-> [d[k] EXCEPT !.samples = <<>>]]
     /\ pump' = [p EXCEPT !.reported = @ \/ l = "video"]
     /\ owed' = IF l = "video" THEN more \cup {l} ELSE more
     /\ UNCHANGED <<app, pushed>>

\* Push what is held and cut, then any end of lane that waited for it.
Flush(p, d, more) ==
  LET held == [k \in Lanes |-> hold[k] \o d[k].samples]
  IN /\ p.configured /\ ~Gated(p, held)
     /\ Push(held) /\ End(p.eosPending, held)
     /\ hold' = Both(<<>>)
     /\ demux' = [k \in Lanes |-> [d[k] EXCEPT !.samples = <<>>]]
     /\ pump' = [p EXCEPT !.primed = TRUE, !.reported = FALSE,
                          !.videoDone = @ \/ p.eosPending["video"],
                          !.eosPending = Both(FALSE)]
     /\ owed' = more

Drain(p, d, l, more) == Buffer(p, d, more) \/ Withhold(p, d, l, more) \/ Flush(p, d, more)

-----------------------------------------------------------------------------
(* What the sources' signals do; `more' are the requests owed already. *)

\* opened(): the video's total goes to the GUI; dual lanes hunt the moov.
OnOpened(l) ==
  /\ mail' = IF l = "video"
             THEN Append(mail, [kind |-> "opened", session |-> session]) ELSE mail
  /\ pump' = [pump EXCEPT !.open[l] = @ \/ pump.dual]
  /\ owed' = IF pump.dual THEN {l} ELSE {}
  /\ UNCHANGED <<demux, hold, broken, app, pushed>>

\* maybeEsReady(): both moovs are parsed and it was not said yet.
BothReady(p, d) == ~p.esSent /\ \A l \in Lanes : p.open[l] /\ d[l].header
EsReady(p, d) == IF BothReady(p, d) THEN Rearm([p EXCEPT !.esSent = TRUE]) ELSE p

\* data() in single mode: container bytes, unparsed.
OnBytes(l, w, more) ==
  /\ ~pump.dual
  /\ LET raw == [k \in Lanes |->
                   IF k # l \/ l = "audio" THEN <<>>
                   ELSE [i \in 1..w.n |-> [session |-> w.url, unit |-> w.from + i]]]
     IN Push(raw) /\ End(Both(FALSE), raw)
  /\ owed' = more
  /\ UNCHANGED <<pump, demux, hold, broken, mail>>

OnStaleData(l, more) ==
  /\ pump.dual /\ ~pump.open[l]
  /\ owed' = more
  /\ UNCHANGED <<pump, demux, hold, broken, mail, app, pushed>>

\* data() in dual mode: feed, hunt the moov, announce it, drain.
OnSamples(l, w, more) ==
  LET d == [demux EXCEPT ![l] = Feed(@, l, w)]
  IN /\ pump.dual /\ pump.open[l]
     /\ \/ /\ d[l].failed
           /\ broken' = TRUE /\ demux' = d /\ owed' = more
           /\ UNCHANGED <<pump, hold, mail, app, pushed>>
        \/ /\ ~d[l].failed /\ ~pump.esSent /\ ~d[l].header
           /\ demux' = d /\ owed' = more \cup {l}
           /\ UNCHANGED <<pump, hold, broken, mail, app, pushed>>
        \/ /\ ~d[l].failed /\ (pump.esSent \/ d[l].header)
           /\ mail' = IF BothReady(pump, d)
                      THEN Append(mail, [kind |-> "es", session |-> session]) ELSE mail
           /\ Drain(EsReady(pump, d), d, l, more)
           /\ UNCHANGED broken

OnData(l, w, more) == OnBytes(l, w, more) \/ OnStaleData(l, more) \/ OnSamples(l, w, more)

OnFinished_AtOnce(l, more) ==
  /\ End([k \in Lanes |-> k = l], Both(<<>>))
  /\ owed' = more
  /\ UNCHANGED <<pump, demux, hold, pushed, broken, mail>>

\* finished(): the end of a lane leaves behind the samples that are held.
OnFinished(l, more) ==
  /\ IF pump.dual
     THEN Drain([pump EXCEPT !.eosPending[l] = TRUE], demux, l, more)
     ELSE /\ End([k \in Lanes |-> k = "video" /\ l = "video"], Both(<<>>))
          /\ owed' = more
          /\ UNCHANGED <<pump, demux, hold, pushed>>
  /\ UNCHANGED <<broken, mail>>

-----------------------------------------------------------------------------
(* The network answers a source *)

ProbeLands(l, ranged) ==
  /\ Idle /\ src[l].reply # NoReply /\ src[l].reply.slot = "probe"
  /\ src' = [src EXCEPT ![l] = BS!Probed(@, BS!Answered(@, FileSize[l]), ranged)]
  /\ unwind' = {l}
  /\ OnOpened(l)
  /\ UNCHANGED <<session, gui, seeking, wanted, anchored, used, caps>>

\* What onWindowFinished() of source s does with a window of n units.
WindowOf(l, s, n) ==
  /\ src' = [src EXCEPT ![l] = BS!Landed(s, n)]
  /\ unwind' = IF n = 0 THEN {} ELSE {l}
  /\ \/ n = 0 /\ s.waiting /\ OnFinished(l, {})
     \/ n > 0 /\ s.waiting /\ OnData(l, BS!Brought(s, n), {})
     \/ ~s.waiting /\ UNCHANGED <<pump, demux, hold, owed, broken, mail, app, pushed>>

WindowLands(l) ==
  /\ Idle /\ src[l].reply # NoReply /\ src[l].reply.slot = "window"
  /\ UNCHANGED <<session, gui, seeking, wanted, anchored, used, caps>>
  /\ WindowOf(l, src[l], BS!Answered(src[l], FileSize[l]))

\* An HTTP status or an error: failed(), and the consumer keeps waiting.
\* Bound: a fetch fails once in a session.
FetchFails(l) ==
  /\ Idle /\ src[l].reply # NoReply /\ ~broken
  /\ src' = [src EXCEPT ![l].reply = NoReply]
  /\ broken' = TRUE
  /\ UNCHANGED <<pump, demux, hold, owed, unwind, guiVars, pipeVars>>

\* A reply open() overwrote finishes: its slot takes m_reply, which is still
\* running, for the finished one, and whatever of it has arrived.
StrayLands(l, slot, n) ==
  /\ Idle /\ slot \in src[l].stray /\ src[l].reply # NoReply
  /\ n <= BS!Answered(src[l], FileSize[l])
  /\ UNCHANGED <<session, gui, seeking, wanted, anchored, used, caps>>
  /\ LET s == [src[l] EXCEPT !.stray = @ \ {slot}]
     IN \/ /\ slot = "probe"
           /\ src' = [src EXCEPT ![l] = BS!Probed(s, n, FALSE)]
           /\ unwind' = {l}
           /\ OnOpened(l)
        \/ slot = "window" /\ WindowOf(l, s, n)

-----------------------------------------------------------------------------
(* Calls made inside a handler *)

\* requestData() on lane l, made by a frame that leaves `more' to do.
Request(l, more) ==
  LET s == src[l]
  IN \/ /\ s.url = 0
        /\ owed' = more
        /\ UNCHANGED <<src, unwind, pump, demux, hold, broken, mail, app, pushed>>
     \/ /\ s.url # 0 /\ s.ready # <<>>
        /\ src' = [src EXCEPT ![l].ready = Tail(@)]
        /\ OnData(l, Head(s.ready), more)
        /\ unwind' = unwind \cup {l}
     \/ /\ s.url # 0 /\ s.ready = <<>> /\ s.eof /\ s.reply = NoReply
        /\ OnFinished(l, more)
        /\ UNCHANGED <<src, unwind>>
     \/ /\ s.url # 0 /\ s.ready = <<>> /\ ~(s.eof /\ s.reply = NoReply)
        /\ src' = [src EXCEPT ![l] = BS!Wait(@, FileSize[l])]
        /\ owed' = more
        /\ UNCHANGED <<unwind, pump, demux, hold, broken, mail, app, pushed>>

Serve(l) ==
  /\ l \in owed
  /\ UNCHANGED <<session, gui, seeking, wanted, anchored, used, caps>>
  /\ Request(l, owed \ {l})

Unwind(l) ==
  /\ owed = {} /\ l \in unwind
  /\ src' = [src EXCEPT ![l] = BS!TopUp(@, FileSize[l])]
  /\ unwind' = unwind \ {l}
  /\ UNCHANGED <<pump, demux, hold, owed, broken, guiVars, pipeVars>>

-----------------------------------------------------------------------------
(* Commands of the GUI thread.  It starts a session only after the need-data  *)
(* of the last pipeline have left its event queue: they were posted before.   *)

Ask == \A l \in Lanes : ~app[l].asked

OpenSingle(url) ==
  /\ pump' = Reset([pump EXCEPT !.dual = FALSE])
  /\ src' = [src EXCEPT !["video"] = BS!Open(BS!Close(@), url)]
  /\ UNCHANGED <<demux, hold>>

OpenDual_KeepHold(url) ==
  /\ pump' = Rearm(Reset([pump EXCEPT !.dual = TRUE, !.lastSeek = NoSeek,
                                      !.videoDone = FALSE]))
  /\ demux' = Both(NewDemux) /\ UNCHANGED hold
  /\ src' = [src EXCEPT !["video"] = BS!Open(BS!Close(@), url),
                        !["audio"] = BS!Open(@, url)]

\* The video lane's RoutingSource closes what was open, the audio lane's
\* ProgressiveSource does not.
OpenDual(url) ==
  /\ pump' = Rearm(Reset([pump EXCEPT !.dual = TRUE, !.lastSeek = NoSeek,
                                      !.videoDone = FALSE]))
  /\ demux' = Both(NewDemux) /\ hold' = Both(<<>>)
  /\ src' = [src EXCEPT !["video"] = BS!Open(BS!Close(@), url),
                        !["audio"] = BS!Open(@, url)]

\* playDual() or play(), granted.
Start ==
  /\ Idle /\ gui \in {"idle", "released"} /\ Ask
  /\ session + 1 \in Sessions
  /\ session' = session + 1 /\ gui' = "loading"
  /\ IF DualSession[session'] THEN OpenDual(session') ELSE OpenSingle(session')
  /\ seeking' = NoSeek /\ wanted' = NoSeek /\ anchored' = NoSeek
  /\ broken' = FALSE
  /\ UNCHANGED <<owed, unwind, mail, used, pipeVars>>

\* closeAll()
CloseAll ==
  /\ src' = [l \in Lanes |-> BS!Close(src[l])]
  /\ pump' = Rearm(Reset([pump EXCEPT !.lastSeek = NoSeek, !.videoDone = FALSE]))
  /\ hold' = Both(<<>>)

\* The pipeline goes; a need-data it has posted still travels.
Teardown ==
  /\ caps' = 0 /\ pushed' = Both(<<>>)
  /\ app' = [l \in Lanes |-> [NewAppSrc EXCEPT !.asked = app[l].asked]]

\* stop(), fail() and the end of playback.
Stop ==
  /\ Idle /\ gui # "idle" /\ used.stops < MaxStops
  /\ used' = [used EXCEPT !.stops = @ + 1]
  /\ gui' = "idle" /\ seeking' = NoSeek
  /\ CloseAll /\ Teardown
  /\ UNCHANGED <<demux, owed, unwind, broken, session, mail, wanted, anchored>>

\* onReleasedByManager(): the pipeline is stopped, the pump is not told.
Release ==
  /\ gui \in {"loading", "running"} /\ used.releases < MaxReleases /\ Idle
  /\ used' = [used EXCEPT !.releases = @ + 1]
  /\ gui' = "released" /\ seeking' = NoSeek
  /\ Teardown
  /\ UNCHANGED <<mediaVars, session, mail, wanted, anchored>>

Build(s) == caps' = s /\ pushed' = Both(<<>>) /\ app' = Both(NewAppSrc)

\* onPumpVideoOpened(): in single mode this builds the pipeline, whatever the
\* player's state; in dual mode it only feeds the startup gate.
ReadOpened ==
  /\ Idle /\ mail # <<>> /\ Head(mail).kind = "opened"
  /\ mail' = Tail(mail)
  /\ IF DualSession[session] THEN UNCHANGED <<gui, pipeVars>>
     ELSE gui' = "running" /\ Build(Head(mail).session)
  /\ UNCHANGED <<mediaVars, session, seeking, wanted, anchored, used>>

\* onEsReady() and the pipelineConfigured() it posts, which begins the drain.
ReadEsReady ==
  /\ Idle /\ mail # <<>> /\ Head(mail).kind = "es"
  /\ mail' = Tail(mail)
  /\ IF gui # "loading" THEN UNCHANGED <<gui, mediaVars, pipeVars>>
     ELSE /\ gui' = "running" /\ caps' = Head(mail).session
          /\ Drain([pump EXCEPT !.configured = TRUE], demux, "video", {})
          /\ UNCHANGED <<src, unwind, broken>>
  /\ UNCHANGED <<session, seeking, wanted, anchored, used>>

\* A seek flushes the appsrcs at once and then travels to the pump; a pipeline
\* rebuilt on a new GL context is primed from the start in the same way.
Seek(t) ==
  /\ Idle /\ gui = "running" /\ used.seeks < MaxSeeks
  /\ DualSession[session] \/ src["video"].ranged
  /\ used' = [used EXCEPT !.seeks = @ + 1]
  /\ seeking' = t /\ wanted' = t /\ anchored' = NoSeek
  /\ pushed' = Both(<<>>)
  /\ app' = [l \in Lanes |-> [NewAppSrc EXCEPT !.asked = app[l].asked]]
  /\ UNCHANGED <<mediaVars, session, gui, mail, caps>>

\* seekBytes() and seekDualTo()
SeekBytes(t) ==
  /\ ~pump.dual
  /\ src' = [src EXCEPT !["video"] = BS!Seek(@, SegStart[t]["video"])]
  /\ owed' = IF src["video"].ranged THEN {"video"} ELSE {}
  /\ anchored' = IF src["video"].ranged THEN t ELSE NoSeek
  /\ UNCHANGED <<pump, demux, hold>>

\* What seek() answers is not looked at: the demuxers move either way.
Reanchor(t) ==
  /\ src' = [l \in Lanes |-> BS!Seek(src[l], SegStart[t][l])]
  /\ demux' = [l \in Lanes |-> [demux[l] EXCEPT !.next = SegStart[t][l],
                                                !.samples = <<>>]]
  /\ pump' = Rearm([pump EXCEPT !.lastSeek = t, !.eosPending = Both(FALSE),
                                !.videoDone = FALSE])
  /\ owed' = Lanes
  /\ anchored' = IF \A l \in Lanes : src[l].ranged THEN t ELSE NoSeek
  /\ UNCHANGED hold

SeekDualTo(t) ==
  /\ pump.dual
  /\ IF pump.esSent /\ t # pump.lastSeek THEN Reanchor(t)
     ELSE UNCHANGED <<src, demux, pump, owed, hold, anchored>>

SeekArrives ==
  /\ Idle /\ seeking # NoSeek
  /\ seeking' = NoSeek
  /\ SeekBytes(seeking) \/ SeekDualTo(seeking)
  /\ UNCHANGED <<unwind, broken, session, gui, mail, wanted, used, pipeVars>>

-----------------------------------------------------------------------------
(* appsrc *)

\* requestVideoData() and requestAudioData(): an empty video queue re-arms
\* the prebuffer before the source is asked.
NeedDataArrives(l) ==
  /\ Idle /\ app[l].asked
  /\ app' = [app EXCEPT ![l].asked = FALSE]
  /\ pump' = IF l = "video" /\ pump.dual /\ pump.esSent THEN Rearm(pump) ELSE pump
  /\ owed' = {l}
  /\ UNCHANGED <<src, demux, hold, unwind, broken, guiVars, caps, pushed>>

\* A dry appsrc asks once and sleeps until a push wakes it.
NeedData(l) ==
  /\ Idle /\ caps # 0 /\ app[l].level = "dry" /\ app[l].eos = "no" /\ ~app[l].asked
  /\ l = "video" \/ DualSession[caps]
  /\ app' = [app EXCEPT ![l].level = "blocked", ![l].asked = TRUE]
  /\ UNCHANGED <<mediaVars, guiVars, caps, pushed>>

Consume(l) ==
  /\ Idle /\ app[l].level = "full"
  /\ app' = [app EXCEPT ![l].level = "dry"]
  /\ UNCHANGED <<mediaVars, guiVars, caps, pushed>>

-----------------------------------------------------------------------------
Gui ==
  \/ Start \/ Stop \/ Release \/ ReadOpened \/ ReadEsReady
  \/ \E t \in Targets : Seek(t)
  \/ SeekArrives

Media ==
  \E l \in Lanes :
    \/ \E ranged \in Ranged : ProbeLands(l, ranged)
    \/ WindowLands(l) \/ FetchFails(l)
    \/ \E slot \in BS!Slots, n \in 0..Window : StrayLands(l, slot, n)
    \/ Serve(l) \/ Unwind(l)

Pipeline == \E l \in Lanes : NeedDataArrives(l) \/ NeedData(l) \/ Consume(l)

Next == Gui \/ Media \/ Pipeline
Spec == Init /\ [][Next]_vars

-----------------------------------------------------------------------------
(* Properties *)

TypeOK ==
  /\ \A l \in Lanes : src[l] \in BS!Sources(Sessions, FileSize[l])
  /\ pump \in Pumps /\ demux \in [Lanes -> Demuxes] /\ hold \in [Lanes -> Seq(Samples)]
  /\ owed \subseteq Lanes /\ unwind \subseteq Lanes /\ broken \in BOOLEAN
  /\ session \in Sessions \cup {0} /\ gui \in {"idle", "loading", "running", "released"}
  /\ mail \in Seq(Letters)
  /\ {seeking, wanted, anchored} \subseteq Targets \cup {NoSeek}
  /\ used \in [seeks : 0..MaxSeeks, releases : 0..MaxReleases, stops : 0..MaxStops]
  /\ app \in [Lanes -> AppSrcs] /\ caps \in Sessions \cup {0}
  /\ pushed \in [Lanes -> Seq(Samples)]

\* A pipeline that plays the current session from where it was flushed to.
Settled == gui = "running" /\ caps = session /\ seeking = NoSeek /\ anchored = wanted

\* Where the lane's samples start: at the target, behind the header, or at
\* the first byte of a container.
Origin(l) ==
  IF wanted # NoSeek THEN SegStart[wanted][l]
  ELSE IF DualSession[session] THEN HeaderSize[l] ELSE 0

\* When an end of stream reaches an appsrc, everything from the start of the
\* file or from the last seek has been pushed: windows, read-ahead, demuxers
\* and prebuffer together lose nothing (bytesource.cpp:98-182,
\* mediapump.cpp:253-302).
EosComplete ==
  \A l \in Lanes :
    Settled /\ ~broken /\ app[l].eos = "yes" =>
      \A u \in Origin(l) + 1..FileSize[l] :
        \E i \in DOMAIN pushed[l] : pushed[l][i].unit = u

\* Nothing is pushed behind an end of stream, which would drop it.
EosIsLast ==
  [][\A l \in Lanes : app[l].eos = "yes" /\ app'[l].eos = "yes" => pushed'[l] = pushed[l]]_vars

\* Samples of one session never reach the pipeline in another, whatever was
\* in flight, buffered or held when the user switched (bytesource.cpp:35-39).
SessionPure ==
  [][\A l \in Lanes : \A i \in Len(pushed[l]) + 1..Len(pushed'[l]) :
       pushed'[l][i].session = session]_vars

\* The appsrcs get timestamps that only grow (mediapump.cpp:243-247).
MonotonicDts ==
  \A l \in Lanes : \A i, j \in DOMAIN pushed[l] :
    i < j => pushed[l][i].unit < pushed[l][j].unit

\* A seek that flushed the pipeline re-anchors the lanes (mediapump.cpp:86-89).
SeekReanchors == gui = "running" /\ seeking = NoSeek => anchored = wanted

\* A source has at most one fetch in flight (bytesource.h: m_reply).
AtMostOneFetch == \A l \in Lanes : src[l].stray = {}

\* No sample is pushed before the GUI has set its caps (mediapump.h).
CapsFirst == \A l \in Lanes : \A i \in DOMAIN pushed[l] : pushed[l][i].session = caps

-----------------------------------------------------------------------------
(* Fairness: the media thread runs its handlers, the network answers or the  *)
(* fetch fails, the GUI thread reads its events, and the pipeline plays.  No *)
(* user, policy or failure is obliged to act.                                *)

Fairness ==
  /\ \A l \in Lanes : /\ WF_vars(Serve(l)) /\ WF_vars(Unwind(l))
                      /\ WF_vars(\E ranged \in Ranged : ProbeLands(l, ranged))
                      /\ WF_vars(WindowLands(l))
                      /\ WF_vars(NeedDataArrives(l)) /\ WF_vars(NeedData(l))
                      /\ WF_vars(Consume(l))
  /\ WF_vars(ReadOpened) /\ WF_vars(ReadEsReady) /\ WF_vars(SeekArrives)

FairSpec == Spec /\ Fairness

Ended == \A l \in Lanes : l = "video" \/ DualSession[session] => app[l].eos # "no"
Disturbed ==
  broken \/ gui \in {"idle", "released"} \/ (seeking = NoSeek /\ anchored # wanted)

\* The end of the video is lost: with the prebuffer short, drainSamples() asked
\* again from inside data(), before the source saw that this was its last window
\* (bytesource.cpp:176-182).  The request waits for a fetch nobody starts, the
\* prebuffer for frames that do not come, and the appsrc, which waits for a push or
\* was told of an end before the last seek, asks no more.
EndLost ==
  LET s == src["video"]
  IN /\ pump.dual /\ s.eof /\ s.waiting /\ s.reply = NoReply /\ s.ready = <<>>
     /\ ~pump.primed /\ Len(hold["video"]) < PrebufferN
     /\ ~app["video"].asked /\ (app["video"].level = "blocked" \/ app["video"].eos # "no")

\* As long as no open() meets a fetch of the play before, a stream that was started
\* or sought is pushed to its end on every lane, unless it fails, is stopped, its
\* seek was refused, or the end of the video is lost: no lane waits in any other way
\* for a fetch or an appsrc that waits for it, be it for a moov over several windows,
\* a short prebuffer or the end of the other lane (bytesource.cpp:140-182,
\* mediapump.cpp:253-302).
EveryStreamEnds ==
  []AtMostOneFetch =>
    (gui \in {"loading", "running"} ~> Ended \/ Disturbed \/ EndLost)

\* The same of every stream: an end is never held by the prebuffer
\* (mediapump.cpp:258).
EndIsNeverLost == gui \in {"loading", "running"} ~> Ended \/ Disturbed

=============================================================================
