---------------------------- MODULE StreamPlayer ----------------------------
(***************************************************************************)
(* media::StreamPlayer (core/media/streamplayer.cpp): the state machine on *)
(* the GUI thread between the player page, the resource policy, the pump   *)
(* on the media thread and the GStreamer pipeline.                         *)
(*                                                                         *)
(* A handler runs to its end; what reaches it waits in three queues: the   *)
(* events posted to the GUI thread by other threads (`mail'), the messages *)
(* of the pipeline's bus (`bus', gone with the pipeline) and the answers   *)
(* of the policy manager (`words').  None of them says which playback it   *)
(* is about: the session in a letter is the model's own note.              *)
(*                                                                         *)
(* The pump is reduced to what the player can see of it (MediaPump has the *)
(* rest), and a command takes effect when it is posted: the pump's signals *)
(* that a late command would let through are in `mail' already.            *)
(***************************************************************************)
EXTENDS Naturals, Sequences, FiniteSets, FiniteSetsExt

CONSTANTS
  Kinds,      \* what the page plays: "single" and "dual" streams
  Gates,      \* the sets of lanes a stream may give a startup target
  Seekables,  \* what a single source may report
  Targets,    \* seek targets, milliseconds in the code
  Start,      \* the beginning of the stream
  NoSeek,     \* m_restoreSeekMs = -1; no user seek pending
  Budget,     \* how often each of Acts may happen
  MaxActs,    \* how often all of them together
  MaxMail     \* how far behind the GUI thread may be for the pump to post

Lanes == {"video", "audio"}
Acts == {"play", "stop", "pause", "resume", "seek", "lost", "revoke", "fail",
         "gl", "buffering"}
NoPlay == "none"

ASSUME PlayerAssumption ==
  /\ Kinds \subseteq {"single", "dual"} /\ Gates \subseteq SUBSET Lanes
  /\ Seekables \subseteq BOOLEAN /\ Budget \in [Acts -> Nat]
  /\ MaxActs \in Nat /\ MaxMail \in Nat
  /\ Start \in Targets /\ NoSeek \notin Targets

VARIABLES
  player,   \* the members of StreamPlayer
  pipe,     \* the GStreamer pipeline
  bus,      \* its messages to the GUI thread
  pump,     \* the pump's session and what it has told
  mail,     \* signals queued to the GUI thread
  policy,   \* PolicyGuard's m_acquired; the manager's decision
  words,    \* answers of the manager on their way
  used      \* how often each act happened

world == [player |-> player, pipe |-> pipe, bus |-> bus, pump |-> pump,
          mail |-> mail, policy |-> policy]
vars == <<player, pipe, bus, pump, mail, policy, words, used>>

Become(w) == /\ player' = w.player /\ pipe' = w.pipe /\ bus' = w.bus
             /\ pump' = w.pump /\ mail' = w.mail /\ policy' = w.policy

-----------------------------------------------------------------------------
States == {"Idle", "Loading", "Buffering", "Playing", "Paused", "Stopped", "Error"}
Phases == {"NoPhase", "Connecting", "LoadingWindow", "Demuxing", "Buffering_",
           "Rebuffering", "Seeking", "Interrupted", "Ended"}
Sessions == 0..Budget["play"]       \* 0: none
Players == [state : States, phase : Phases, dual : BOOLEAN, granted : BOOLEAN,
            seekable : BOOLEAN,
            armed : SUBSET Lanes,   \* lanes whose m_gate...NeedMs is positive
            full : SUBSET Lanes,    \* lanes whose m_gate...HaveMs reaches it
            prebufPaused : BOOLEAN,
            pending : {NoPlay, "single", "dual"},
            restore : Targets \cup {NoSeek}, wasPlaying : BOOLEAN,
            seekTo : Targets \cup {NoSeek}, session : Sessions]
Pipes == [built : BOOLEAN,          \* m_pipeline is there
          session : Sessions,       \* whose configuration it has, kept for rebuild()
          dual : BOOLEAN, seekable : BOOLEAN,
          rebuilt : BOOLEAN,        \* by rebuild(), for a restoring seek
          want : {"ready", "paused", "playing"},
          at : {"ready", "prerolling", "paused", "playing"},
          fresh : BOOLEAN,          \* its first preroll is not over
          segment : Targets]        \* where its last flush starts
Pumps == [session : Sessions, dual : BOOLEAN, seekable : BOOLEAN,
          target : SUBSET Lanes,    \* lanes whose source wants a startup buffer
          full : SUBSET Lanes,      \* and has it
          told : SUBSET {"video", "audio", "es", "failed"},
          configured : BOOLEAN,
          hold : {"filling", "short", "flushed"},   \* the prebuffer
          ended : SUBSET Lanes,
          anchor : Targets \cup {NoSeek}]
Letters ==
  [sig : {"videoOpened", "audioOpened", "demuxing", "esReady", "videoFinished",
          "audioFinished", "failed", "short", "refilled", "videoProgress",
          "audioProgress", "loading", "glLost"} \cup Targets,   \* seek-data
   session : Sessions,
   target : SUBSET Lanes, full : SUBSET Lanes, seekable : BOOLEAN]

Opened == [video |-> "videoOpened", audio |-> "audioOpened"]
Progress == [video |-> "videoProgress", audio |-> "audioProgress"]
Finished == [video |-> "videoFinished", audio |-> "audioFinished"]

NoPipe == [built |-> FALSE, session |-> 0, dual |-> FALSE, seekable |-> FALSE,
           rebuilt |-> FALSE, want |-> "ready", at |-> "ready", fresh |-> FALSE,
           segment |-> Start]
ClosedPump == [session |-> 0, dual |-> FALSE, seekable |-> FALSE, target |-> {},
               full |-> {}, told |-> {}, configured |-> FALSE, hold |-> "filling",
               ended |-> {}, anchor |-> NoSeek]
Letter(sig, session) == [sig |-> sig, session |-> session,
                         target |-> {}, full |-> {}, seekable |-> FALSE]

Init ==
  /\ player = [state |-> "Idle", phase |-> "NoPhase", dual |-> FALSE,
               granted |-> FALSE, seekable |-> FALSE, armed |-> {}, full |-> {},
               prebufPaused |-> FALSE, pending |-> NoPlay, restore |-> NoSeek,
               wasPlaying |-> FALSE, seekTo |-> NoSeek, session |-> 0]
  /\ pipe = NoPipe /\ bus = <<>> /\ pump = ClosedPump /\ mail = <<>>
  /\ policy = [acquired |-> FALSE, manager |-> "free"]
  /\ words = <<>> /\ used = [a \in Acts |-> 0]

-----------------------------------------------------------------------------
(* The pipeline as the player drives it                                    *)

Teardown(w) ==
  [w EXCEPT !.bus = <<>>,
            !.pipe = [NoPipe EXCEPT !.session = w.pipe.session, !.dual = w.pipe.dual,
                                    !.seekable = w.pipe.seekable]]

Rebuild(w) == [Teardown(w) EXCEPT !.pipe.built = TRUE, !.pipe.rebuilt = TRUE,
                                  !.pipe.fresh = TRUE]

\* configure() and configureDualEs()
Configure(w, dual, seekable, session) ==
  [Rebuild(w) EXCEPT !.pipe.rebuilt = FALSE, !.pipe.session = session,
                     !.pipe.dual = dual, !.pipe.seekable = seekable]

\* A fresh appsrc that can seek asks for the start when it is set going.
SetGoing(w) ==
  [w EXCEPT !.pipe.at = "prerolling",
            !.mail = IF w.pipe.seekable
                     THEN Append(@, Letter(Start, w.pipe.session)) ELSE @]

PipePause(w) ==
  IF ~w.pipe.built THEN w
  ELSE LET v == [w EXCEPT !.pipe.want = "paused"]
       IN  CASE w.pipe.at = "ready" -> SetGoing(v)
             [] w.pipe.at = "playing" -> [v EXCEPT !.pipe.at = "paused"]
             [] OTHER -> v

PipePlay(w) ==
  IF ~w.pipe.built THEN w
  ELSE LET v == [w EXCEPT !.pipe.want = "playing"]
       IN  CASE w.pipe.at = "ready" -> SetGoing(v)
             [] w.pipe.at = "paused" -> [v EXCEPT !.pipe.at = "playing",
                                                  !.bus = Append(@, "playing")]
             [] OTHER -> v

\* A flush seek; a pipeline that is not going drops it.
PipeSeek(w, t) ==
  IF w.pipe.at = "ready" \/ ~w.pipe.seekable THEN w
  ELSE [w EXCEPT !.pipe.at = "prerolling", !.pipe.segment = t,
                 !.mail = Append(@, Letter(t, w.pipe.session))]

(* The pump's commands                                                     *)

CloseAll(w) == [w EXCEPT !.pump = ClosedPump]

SeekDualTo(w, t) ==
  IF ~w.pump.dual \/ "es" \notin w.pump.told \/ w.pump.anchor = t THEN w
  ELSE [w EXCEPT !.pump.anchor = t, !.pump.hold = "filling",
                   !.pump.ended = {}]

SeekBytes(w, t) ==
  IF w.pump.dual \/ ~w.pump.seekable THEN w
  ELSE [w EXCEPT !.pump.anchor = t, !.pump.ended = {}]

(* The policy                                                              *)

Acquire(w) == [w EXCEPT !.policy = [acquired |-> TRUE, manager |-> "asked"]]
Release(w) == [w EXCEPT !.policy = [acquired |-> FALSE,
                 manager |-> IF w.policy.acquired THEN "free" ELSE @.manager]]

-----------------------------------------------------------------------------
SetPhase(w, p) == [w EXCEPT !.player.phase = p]

\* setState() before it looks at a deferred switch
EnterState(w, s) ==
  IF w.player.state = s THEN w
  ELSE [w EXCEPT !.player.state = s,
                 !.player.phase = IF s = "Playing" THEN "NoPhase" ELSE @]

Stop(w) ==
  LET quiet == [w EXCEPT !.player.pending = NoPlay, !.player.armed = {},
                         !.player.prebufPaused = FALSE]
  IN  SetPhase(EnterState(Release(CloseAll(Teardown(quiet))), "Stopped"), "NoPhase")

MidPreroll_NotLoading(w) == w.player.state = "Buffering"
MidPreroll_NotBuffering(w) == w.player.state = "Loading"

MidPreroll(w) == w.player.state \in {"Loading", "Buffering"}

\* play() and playDual()
Play(w, kind) ==
  IF MidPreroll(w) THEN [w EXCEPT !.player.pending = kind]
  ELSE LET v == IF w.player.state \in {"Idle", "Stopped", "Error"} THEN w ELSE Stop(w)
           n == [v EXCEPT !.player.dual = (kind = "dual"), !.player.granted = FALSE,
                          !.player.seekTo = NoSeek, !.player.prebufPaused = FALSE,
                          !.player.session = @ + 1]
       IN  Acquire(SetPhase(EnterState(n, "Loading"), "Connecting"))

SetState_Deferred(w, s, due) ==
  LET v == EnterState(w, s)
  IN  IF w.player.state # s /\ v.player.pending # NoPlay /\ s \in due
      THEN Play([v EXCEPT !.player.pending = NoPlay], v.player.pending) ELSE v
SetState_PlayingOnly(w, s) == SetState_Deferred(w, s, {"Playing"})
SetState_NotPlaying(w, s) == SetState_Deferred(w, s, {"Stopped", "Error"})

SetState(w, s) ==
  LET v == EnterState(w, s)
  IN  IF /\ w.player.state # s /\ v.player.pending # NoPlay
         /\ s \in {"Playing", "Stopped", "Error"}
      THEN Play([v EXCEPT !.player.pending = NoPlay], v.player.pending)
      ELSE v

Fail(w) ==
  LET quiet == [w EXCEPT !.player.armed = {}, !.player.prebufPaused = FALSE]
  IN  SetState(Release(CloseAll(Teardown(SetPhase(quiet, "NoPhase")))), "Error")

-----------------------------------------------------------------------------
(* The startup gate                                                        *)

UpdateStartupGate(w) ==
  IF \/ w.player.armed = {} \/ ~(w.player.armed \subseteq w.player.full)
     \/ w.player.state # "Buffering"
  THEN w
  ELSE PipePlay([w EXCEPT !.player.armed = {}])

StartOrGate(w) ==
  LET going == IF w.player.armed # {} THEN PipePause(w) ELSE PipePlay(w)
  IN  UpdateStartupGate(SetPhase(SetState(going, "Buffering"), "Buffering_"))

\* The target and the fill of a lane, as the signal m of the pump carries them
Gate(w, l, m) ==
  LET Adopt(s, from) == IF l \in from THEN s \cup {l} ELSE s \ {l}
  IN  [w EXCEPT !.player.armed = Adopt(@, m.target), !.player.full = Adopt(@, m.full)]

-----------------------------------------------------------------------------
(* Signals of the pump, in the order they were posted                      *)

Read == [world EXCEPT !.mail = Tail(mail)]
Got(sig) == /\ mail # <<>> /\ Head(mail).sig = sig
            /\ UNCHANGED <<words, used>>

OnPumpVideoOpened ==
  /\ Got("videoOpened")
  /\ LET m == Head(mail)
         w == Gate(Read, "video", m)
         built == Configure(w, FALSE, m.seekable, m.session)
     IN  Become(IF player.dual
                THEN UpdateStartupGate(SetPhase(w, "LoadingWindow"))
                ELSE StartOrGate([built EXCEPT !.player.seekable = m.seekable,
                                               !.player.armed = @ \ {"audio"},
                                               !.player.full = @ \ {"audio"}]))

OnPumpAudioOpened ==
  /\ Got("audioOpened")
  /\ Become(IF player.dual THEN UpdateStartupGate(Gate(Read, "audio", Head(mail)))
            ELSE Read)

OnDemuxing ==
  /\ Got("demuxing")
  /\ Become(IF player.state = "Loading" THEN SetPhase(Read, "Demuxing") ELSE Read)

OnEsReady_AnyState ==
  /\ Got("esReady")
  /\ LET m == Head(mail)
         built == Configure([Read EXCEPT !.player.seekable = m.seekable],
                            TRUE, TRUE, m.session)
     IN  Become([StartOrGate(built) EXCEPT !.pump.configured = TRUE])

\* The pump answers pipelineConfigured whatever it is doing by then.
OnEsReady ==
  /\ Got("esReady")
  /\ LET m == Head(mail)
         w == Gate(Gate(Read, "video", m), "audio", m)
         built == Configure([w EXCEPT !.player.seekable = m.seekable],
                            TRUE, TRUE, m.session)
     IN  Become(IF player.state # "Loading" THEN Read
                ELSE [StartOrGate(built) EXCEPT !.pump.configured = TRUE])

OnProgress(l) ==
  /\ Got(Progress[l])
  /\ LET have == IF l \in Head(mail).full THEN player.full \cup {l} ELSE player.full \ {l}
     IN  Become(IF l \in player.armed
                THEN UpdateStartupGate([Read EXCEPT !.player.full = have]) ELSE Read)

OnWindowLoading ==
  /\ Got("loading")
  /\ Become(IF player.state = "Loading" THEN SetPhase(Read, "LoadingWindow") ELSE Read)

OnPumpFinished_NoGate(l) == Got(Finished[l]) /\ Become(Read)

OnPumpFinished(l) ==
  /\ Got(Finished[l])
  /\ Become(IF l \in player.armed
            THEN UpdateStartupGate([Read EXCEPT !.player.full = @ \cup {l}]) ELSE Read)

OnPumpFailed == Got("failed") /\ Become(Fail(Read))

\* prebuffering() below 100
OnPrebufferShort ==
  /\ Got("short")
  /\ Become(IF player.armed = {} /\ player.state = "Playing"
            THEN SetPhase(SetState([PipePause(Read) EXCEPT !.player.prebufPaused = TRUE],
                                   "Buffering"), "Rebuffering")
            ELSE Read)

\* prebuffering(100)
OnPrebufferFull ==
  /\ Got("refilled")
  /\ Become(IF player.armed = {} /\ player.prebufPaused
            THEN PipePlay([Read EXCEPT !.player.prebufPaused = FALSE]) ELSE Read)

\* Seek-data of an appsrc.  The appsrcs of one pipeline ask for the same
\* target; one letter stands for both.
OnSeekRequested(t) ==
  /\ Got(t)
  /\ Become(IF ~player.dual THEN SeekBytes(Read, t)
            ELSE IF player.seekTo # t THEN Read
            ELSE SeekDualTo([Read EXCEPT !.player.seekTo = NoSeek], t))

-----------------------------------------------------------------------------
(* Seeking                                                                 *)

DoRawSeek(w, t) ==
  IF ~w.player.seekable THEN w
  ELSE LET v == PipeSeek([w EXCEPT !.player.seekTo = t], t)
       IN  IF w.player.state = "Playing"
           THEN SetPhase(SetState(v, "Buffering"), "Seeking") ELSE v

RebuildAndReseek(w, t) ==
  LET noted == [w EXCEPT !.player.restore = IF w.player.seekable THEN t ELSE NoSeek,
                         !.player.wasPlaying = (w.player.state # "Paused")]
      shown == SetPhase(SetState(noted, "Buffering"), "Buffering_")
  IN  PipePause(IF w.player.dual THEN SeekDualTo(Rebuild(shown), Start)
                ELSE SeekBytes(Rebuild(shown), Start))

-----------------------------------------------------------------------------
(* Messages of the bus, and the position timer                             *)

Polled == [world EXCEPT !.bus = Tail(bus)]
Heard(msg) == /\ bus # <<>> /\ Head(bus) = msg
              /\ UNCHANGED <<words, used>>

OnStarted == Heard("playing") /\ Become(SetState(Polled, "Playing"))

OnPrerolled ==
  /\ Heard("asyncdone")
  /\ LET sought == DoRawSeek([Polled EXCEPT !.player.restore = NoSeek], player.restore)
     IN  Become(IF player.restore = NoSeek THEN Polled
                ELSE IF player.wasPlaying THEN PipePlay(sought)
                ELSE SetPhase(SetState(sought, "Paused"), "NoPhase"))

OnBuffering(msg) ==
  /\ Heard(msg)
  /\ Become(CASE msg = "draining" /\ player.state = "Playing" ->
                    SetPhase(SetState(Polled, "Buffering"), "Rebuffering")
              [] msg = "drained" /\ player.state = "Buffering" -> SetState(Polled, "Playing")
              [] OTHER -> Polled)

OnPipelineFinished ==
  /\ Heard("eos")
  /\ Become(SetPhase(SetState(Release(CloseAll(Teardown(Polled))), "Stopped"), "Ended"))

OnPipelineError == Heard("error") /\ Become(Fail(Polled))

\* The timer runs while the pipeline is told to play; a pipeline knows its
\* position once it has prerolled.
OnPosition ==
  /\ pipe.built /\ pipe.want = "playing" /\ ~pipe.fresh
  /\ player.restore = NoSeek /\ player.state = "Buffering" /\ player.armed = {}
  /\ Become(SetState(world, "Playing"))
  /\ UNCHANGED <<words, used>>

\* The scene lost its GL context, and the pipeline was there to notice.
OnGlContextLost ==
  /\ Got("glLost")
  /\ \E t \in Targets :     \* m_position
       Become(IF player.state \in {"Playing", "Paused", "Buffering"}
              THEN RebuildAndReseek(Read, t) ELSE Read)

-----------------------------------------------------------------------------
(* Answers of the policy manager                                           *)

Told(word) == /\ words # <<>> /\ Head(words) = word
              /\ words' = Tail(words) /\ UNCHANGED used

\* The first grant opens the stream, whose lanes and length decide what
\* startup buffer it wants and whether it can be sought.
OnGranted ==
  /\ Told("granted")
  /\ IF ~player.granted
     THEN \E target \in Gates, seekable \in Seekables :
            /\ ~player.dual => target \subseteq {"video"}
            /\ Become([world EXCEPT !.player.granted = TRUE,
                         !.pump = [ClosedPump EXCEPT !.session = player.session,
                                     !.dual = player.dual, !.target = target,
                                     !.seekable = seekable]])
     ELSE Become(IF player.state = "Paused"
                 THEN SetState(PipePlay(world), "Playing") ELSE world)

OnLost == /\ Told("lost")
          /\ Become(SetPhase(SetState(PipePause(world), "Paused"), "Interrupted"))
OnDenied == Told("denied") /\ Become(Fail(world))
OnReleasedByManager ==
  /\ Told("released")
  /\ Become(SetPhase(SetState(Teardown(world), "Stopped"), "NoPhase"))

-----------------------------------------------------------------------------
(* The player page                                                         *)

Spend(a) ==
  /\ used[a] < Budget[a]
  /\ MapThenSumSet(LAMBDA b : used[b], Acts) < MaxActs
  /\ used' = [used EXCEPT ![a] = @ + 1]

UserPlay(kind) == Spend("play") /\ Become(Play(world, kind)) /\ UNCHANGED words
UserStop == Spend("stop") /\ Become(Stop(world)) /\ UNCHANGED words
UserPause ==
  /\ player.state = "Playing" /\ Spend("pause")
  /\ Become(SetState(PipePause(world), "Paused")) /\ UNCHANGED words
UserResume ==
  /\ player.state = "Paused" /\ Spend("resume")
  /\ Become(SetState(PipePlay(world), "Playing")) /\ UNCHANGED words
UserSeek(t) ==
  /\ player.seekable /\ Spend("seek")
  /\ Become(IF player.dual THEN DoRawSeek(world, t) ELSE RebuildAndReseek(world, t))
  /\ UNCHANGED words

-----------------------------------------------------------------------------
(* The policy manager.  A release does not take back an answer on its way. *)

Decide(from, to, word) ==
  /\ policy.manager \in from
  /\ policy' = [policy EXCEPT !.manager = to] /\ words' = Append(words, word)
  /\ UNCHANGED <<player, pipe, bus, pump, mail>>

Grant == Decide({"asked"}, "held", "granted") /\ UNCHANGED used
Deny == Decide({"asked"}, "free", "denied") /\ Spend("fail")
Preempt == Decide({"held"}, "preempted", "lost") /\ Spend("lost")
GrantAgain == Decide({"preempted"}, "held", "granted") /\ UNCHANGED used
Revoke == Decide({"held", "preempted"}, "free", "released") /\ Spend("revoke")

-----------------------------------------------------------------------------
(* The pump                                                                *)

Signal(sig) == [sig |-> sig, session |-> pump.session, target |-> pump.target,
                full |-> pump.full, seekable |-> pump.seekable]
Waiting(sig) == \E i \in DOMAIN mail : mail[i].sig = sig
Post(sigs) == /\ pump.session # 0 /\ Len(mail) < MaxMail /\ Len(bus) < MaxMail
              /\ mail' = mail \o sigs
              /\ UNCHANGED <<player, pipe, bus, policy, words>>

\* Either lane's probe answered; a large one fills the startup buffer.
PumpOpened(l) ==
  /\ l \notin pump.told
  /\ ~pump.dual => l = "video" /\ "failed" \notin pump.told
  /\ \E filled \in SUBSET {l} :
       LET full == pump.full \cup (filled \cap pump.target)
       IN  /\ Post(<<[Signal(Opened[l]) EXCEPT !.full = full]>>)
           /\ pump' = [pump EXCEPT !.told = @ \cup {l}, !.full = full]
  /\ UNCHANGED used

PumpReady ==
  /\ pump.dual /\ Lanes \subseteq pump.told /\ "es" \notin pump.told
  /\ Post(<<Signal("demuxing"), Signal("esReady")>>)
  /\ pump' = [pump EXCEPT !.told = @ \cup {"es"}]
  /\ UNCHANGED used

PumpFills(l) ==
  /\ l \in pump.told \ pump.ended /\ l \in pump.target \ pump.full
  /\ Post(<<[Signal(Progress[l]) EXCEPT !.full = @ \cup {l}]>>)
  /\ pump' = [pump EXCEPT !.full = @ \cup {l}]
  /\ UNCHANGED used

PumpLoads ==
  /\ ~Waiting("loading") /\ (IF pump.dual THEN "es" ELSE "video") \notin pump.told
  /\ Post(<<Signal("loading")>>) /\ UNCHANGED <<pump, used>>

\* Too few frames at hand, at first, after a seek or when the appsrc ran dry
PumpRunsShort ==
  /\ pump.dual /\ pump.configured /\ "video" \notin pump.ended /\ ~Waiting("short")
  /\ pump.hold = "flushed" => pipe.at = "playing"
  /\ Post(<<Signal("short")>>)
  /\ pump' = [pump EXCEPT !.hold = "short"] /\ UNCHANGED used

\* Enough frames: they are pushed, and a shortage reported is called off.
PumpFlushes ==
  /\ pump.dual /\ pump.configured /\ pump.hold # "flushed"
  /\ Post(IF pump.hold = "short" THEN <<Signal("refilled")>> ELSE <<>>)
  /\ pump' = [pump EXCEPT !.hold = "flushed"] /\ UNCHANGED used

PumpEnds(l) ==
  /\ (IF pump.dual THEN "es" ELSE l) \in pump.told /\ l \notin pump.ended
  /\ LET flushed == l = "video" /\ pump.configured
     IN  /\ Post((IF flushed /\ pump.hold = "short" THEN <<Signal("refilled")>> ELSE <<>>)
                   \o <<Signal(Finished[l])>>)
         /\ pump' = [pump EXCEPT !.ended = @ \cup {l},
                                 !.hold = IF flushed THEN "flushed" ELSE @]
  /\ UNCHANGED used

PumpFails ==
  /\ "failed" \notin pump.told /\ Spend("fail")
  /\ Post(<<Signal("failed")>>)
  /\ pump' = [pump EXCEPT !.told = @ \cup {"failed"}]

-----------------------------------------------------------------------------
(* The pipeline                                                            *)

\* The pump has what the appsrcs want, and may push it.
Fed == /\ pump.session # 0 /\ pump.dual = pipe.dual
       /\ IF pump.dual THEN pump.hold = "flushed" ELSE "video" \in pump.told

Preroll ==
  /\ pipe.at = "prerolling" /\ Fed
  /\ pipe' = [pipe EXCEPT !.at = pipe.want, !.fresh = FALSE]
  /\ bus' = Append(bus, "asyncdone")
             \o (IF pipe.want = "playing" THEN <<"playing">> ELSE <<>>)
  /\ UNCHANGED <<player, pump, mail, policy, words, used>>

PipeSays(msg) ==
  /\ pipe.at # "ready" /\ \A i \in DOMAIN bus : bus[i] # msg
  /\ bus' = Append(bus, msg)
  /\ UNCHANGED <<player, pipe, pump, mail, policy, words>>

PipeEnds ==
  /\ pipe.at = "playing" /\ Fed
  /\ (IF pump.dual THEN Lanes ELSE {"video"}) \subseteq pump.ended
  /\ PipeSays("eos") /\ UNCHANGED used
PipeFails == PipeSays("error") /\ Spend("fail")
PipeBuffers(msg) == PipeSays(msg) /\ Spend("buffering")

LoseGlContext ==
  /\ pipe.built /\ Spend("gl")
  /\ mail' = Append(mail, Letter("glLost", pipe.session))
  /\ UNCHANGED <<player, pipe, bus, pump, policy, words>>

-----------------------------------------------------------------------------
FromPump ==
  \/ OnPumpVideoOpened \/ OnPumpAudioOpened \/ OnDemuxing \/ OnEsReady
  \/ OnWindowLoading \/ OnPumpFailed \/ OnPrebufferShort \/ OnPrebufferFull
  \/ \E l \in Lanes : OnProgress(l) \/ OnPumpFinished(l)
FromPipe ==
  \/ OnStarted \/ OnPrerolled \/ OnPipelineFinished \/ OnPipelineError
  \/ OnBuffering("draining") \/ OnBuffering("drained")
FromAppSrc == OnGlContextLost \/ \E t \in Targets : OnSeekRequested(t)
FromPolicy == OnGranted \/ OnLost \/ OnDenied \/ OnReleasedByManager
User == \/ \E kind \in Kinds : UserPlay(kind)
        \/ UserStop \/ UserPause \/ UserResume
        \/ \E t \in Targets : UserSeek(t)
Manager == Grant \/ Deny \/ Preempt \/ GrantAgain \/ Revoke
PumpWorks ==
  \/ PumpReady \/ PumpFlushes \/ \E l \in Lanes : PumpOpened(l) \/ PumpFills(l)
PumpMay ==
  PumpLoads \/ PumpRunsShort \/ PumpFails \/ \E l \in Lanes : PumpEnds(l)
PipeMay ==
  PipeEnds \/ PipeFails \/ LoseGlContext \/ \E m \in {"draining", "drained"} : PipeBuffers(m)

Next == FromPump \/ FromPipe \/ FromAppSrc \/ FromPolicy \/ OnPosition
        \/ User \/ Manager \/ PumpWorks \/ PumpMay \/ Preroll \/ PipeMay

Spec == Init /\ [][Next]_vars

\* What is posted is delivered, a running pipeline plays, the manager decides
\* and the network brings what the pump waits for.  The user and the failures
\* are free not to happen, an interruption to last.
Fairness == /\ WF_vars(FromPump) /\ WF_vars(FromPipe) /\ WF_vars(FromAppSrc)
            /\ WF_vars(FromPolicy) /\ WF_vars(OnPosition)
            /\ WF_vars(Grant) /\ WF_vars(PumpWorks) /\ WF_vars(Preroll)

FairSpec == Spec /\ Fairness

-----------------------------------------------------------------------------
(* Properties                                                              *)

\* Every variable has its type; a switch waits only while the player is busy.
TypeOK ==
  /\ player \in Players /\ pipe \in Pipes /\ pump \in Pumps
  /\ \A i \in DOMAIN bus : bus[i] \in {"playing", "asyncdone", "eos", "error",
                                        "draining", "drained"}
  /\ \A i \in DOMAIN mail : mail[i] \in Letters
  /\ policy \in [acquired : BOOLEAN,
                 manager : {"free", "asked", "held", "preempted"}]
  /\ \A i \in DOMAIN words : words[i] \in {"granted", "denied", "lost", "released"}
  /\ used \in [Acts -> Nat]
  /\ player.pending # NoPlay => player.state \in {"Loading", "Buffering", "Paused"}

\* The pipeline is told to play only on the manager's grant: play() acquires
\* first, and onLost() pauses (streamplayer.cpp 222, 488; ipolicy.h 10-12).
OnlyWhenGranted ==
  pipe.built /\ pipe.want = "playing" /\ words = <<>> => policy.manager = "held"

\* The clock stands while the startup gate is armed (360-364).
GateHoldsClock == pipe.built /\ player.armed # {} => pipe.want # "playing"

\* The pipeline has the configuration of the stream being played, not of one
\* whose signal was still queued when it was left (295).
OwnPipeline == pipe.built => pipe.session = player.session

\* The state the page shows follows the pipeline: Playing means there is one
\* and it was told to play.
PlayingPlays ==
  player.state = "Playing" => pipe.built /\ pipe.want = "playing"

\* A switch of quality never tears down a pipeline in its first preroll: that
\* aborts the process (180-182).
SwitchSparesPreroll ==
  [][(\E kind \in Kinds : UserPlay(kind)) /\ pipe.at = "prerolling" /\ pipe.fresh
       => pipe'.built /\ pipe'.fresh]_vars

Revived == player.state = "Stopped" /\ player'.state \notin {"Stopped", "Error"}

\* What revives a stopped player: the page, a loss of the policy that crossed the
\* stop, which shows it Paused, and, in a single stream, its videoOpened, which
\* looks at no state (268-282), or a seek, which rebuilds the pipeline (539).
Revivals ==
  \/ OnLost \/ \E kind \in Kinds : UserPlay(kind)
  \/ ~player.dual /\ (OnPumpVideoOpened \/ \E t \in Targets : UserSeek(t))

\* Nothing else does, of all that may still be on its way when a player stops: no
\* esReady, progress or prebuffer of the pump, no grant, message of the bus or
\* position tick (295, 445, 566-575).  A late failure makes an Error.
StopSticks == [][Revived => Revivals]_vars

\* No signal of the pump revives a player that was stopped (295, 566-575).
StaysStopped ==
  [][Revived => OnLost \/ \E kind \in Kinds : UserPlay(kind)]_vars

\* A player that came to a stop fetches nothing more (480-483).
StoppedFetchesNothing ==
  player.state = "Stopped" /\ words = <<>> => pump.session = 0

\* The phase shown belongs to the state it is shown in.
PhaseFits ==
  /\ player.state = "Loading" =>
       player.phase \in {"Connecting", "LoadingWindow", "Demuxing"}
  /\ player.phase = "Ended" => player.state = "Stopped"

\* A restoring seek waits for the pipeline it rebuilt, not for the next
\* stream's (449-455).
RestoreIsOwn == pipe.built /\ player.restore # NoSeek => pipe.rebuilt

\* Loading and buffering come to an end (379-399, 465-472, 517), and a switch
\* put off until the preroll is over is made or taken back (180-189).
SpinnerEnds ==
  /\ MidPreroll(world) ~> ~MidPreroll(world)
  /\ (player.pending # NoPlay) ~> (player.pending = NoPlay)

=============================================================================
