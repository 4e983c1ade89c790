----------------------------- MODULE MediaInput -----------------------------
(***************************************************************************)
(* From the network to the video lane: RoutingSource over an HlsSource and *)
(* a ProgressiveSource (core/media/bytesource.cpp, hlssource.cpp), the     *)
(* BufferPlanner that sizes the latter's windows, the Fmp4Demuxer they are *)
(* fed to, and the startup gate of the player (core/media/streamplayer.cpp)*)
(* that holds the clock until enough of the file is in.                    *)
(*                                                                         *)
(* An adaptive file goes through the demuxer (openDual; the prebuffer is   *)
(* off), an HLS playlist to the pipeline as it is (openSingle).  MediaPump *)
(* has both lanes, the prebuffer and the order of nested handlers; here    *)
(* the sizes vary and the bytes mean something.  All of it runs on the     *)
(* media thread, except the gate, which sees the last progress().          *)
(***************************************************************************)
EXTENDS Fmp4Demux, HlsSource, BufferPlanner

CONSTANTS
  NoReply,
  Duration,    \* seconds a file plays, dur= in its url
  Height,      \* setQualityHint()
  Rates,       \* what a link may carry, in tenths of a unit per second
  Steady,      \* whether the link keeps the rate it had first
  Masters, Variants,   \* playlists a server may send
  Short,       \* units of an answer cut short
  Appetite,    \* windows a paused pipeline may take to preroll
  MaxOpens     \* bound on sessions

ASSUME InputAssumption ==
  /\ Duration \in Nat /\ Height \in Nat /\ Rates \subseteq Nat \ {0}
  /\ Steady \in BOOLEAN /\ Short \in Nat \ {0} /\ {Appetite, MaxOpens} \subseteq Nat

\* The addresses the playlists list.
SegmentUrls == UNION {ToSet(ParseSegments(variant)) : variant \in Variants}

ASSUME PlaylistAssumption ==
  /\ Masters \cup Variants \subseteq Seq([tag : Tags, url : Nat])
  /\ NoFetch \notin [what : Fetches, url : SegmentUrls]

VARIABLES
  active,    \* m_active, and the session it was opened for
  prog, hls, plan, link,
  owed,      \* onVideoData() has called feed() and has more to do
  over,      \* "no", or why nothing more is coming: "end", "failed", "closed"
  gate,      \* the player: m_gateVideoNeedMs, m_gateVideoHaveMs, armed
  app,       \* the appsrc: in a pipeline, dry, asking; and the preroll's appetite
  raw        \* the segments an HLS session has pushed

inputVars == <<active, prog, hls, plan, link, owed, over, gate, app, raw>>
vars == <<demuxVars, inputVars>>

BS(window, readAhead) ==
  INSTANCE ByteSource WITH Window <- window, ReadAhead <- readAhead

Size == FileEnd(file)
ToppedUp(p, s) == BS(WindowBytes(p), ReadAheadWindows(p))!TopUp(s, Size)
Waiting(p, s) == BS(WindowBytes(p), ReadAheadWindows(p))!Wait(s, Size)
\* The operators of ByteSource that have no window in them.
Plain(s) == BS(MaxWindow, ReadAheadMin)!Close(s)

\* The media thread is in no handler.
Free == ~feeding /\ ~owed

NoGate == [armed |-> FALSE, need |-> 0, have |-> 0]
NoApp == [built |-> FALSE, dry |-> FALSE, asked |-> FALSE, appetite |-> Appetite]

Init ==
  /\ DemuxInit /\ file = CHOOSE f \in Files : TRUE
  /\ active = [route |-> "none", session |-> 0]
  /\ prog = BS(MaxWindow, ReadAheadMin)!NewSource /\ hls = NewHls
  /\ plan = [NewPlan EXCEPT !.height = Height] /\ link \in Rates
  /\ owed = FALSE /\ over = "closed" /\ gate = NoGate /\ app = NoApp /\ raw = <<>>

-----------------------------------------------------------------------------
(* RoutingSource *)

\* Mutant: the child that was active goes on.
CloseActive_None == [prog |-> prog, hls |-> hls]

\* The child that was active is closed, whichever is opened.
CloseActive ==
  [prog |-> IF active.route = "progressive" THEN Plain(prog) ELSE prog,
   hls  |-> IF active.route = "hls" THEN CloseHls(hls) ELSE hls]

\* What the pipeline before asked for was queued ahead of the grant that opens.
Opened(route) ==
  /\ Free /\ active.session < MaxOpens /\ (over = "closed" => ~app.asked)
  /\ active' = [route |-> route, session |-> active.session + 1]
  /\ owed' = FALSE /\ over' = "no" /\ gate' = NoGate /\ app' = NoApp /\ raw' = <<>>
  /\ UNCHANGED link

\* openDual() of an adaptive file.
OpenProgressive(f) ==
  /\ Opened("progressive") /\ ResetTo(f)
  /\ prog' = BS(MaxWindow, ReadAheadMin)!Open(CloseActive.prog, active'.session)
  /\ hls' = CloseActive.hls
  /\ plan' = Forgotten(plan)

\* openSingle() of a manifest.
OpenHlsSession ==
  /\ Opened("hls") /\ prog' = CloseActive.prog
  /\ hls' = OpenHls(CloseActive.hls, active'.session)
  /\ UNCHANGED <<plan, demuxVars>>

\* A dry appsrc says so once.
Hungry == app.built /\ app.dry /\ ~app.asked /\ over = "no"

\* closeAll(), by the user or by the player's fail(); a need-data may be on its
\* way through the GUI thread.
Close ==
  /\ Free /\ over # "closed"
  /\ prog' = CloseActive.prog /\ hls' = CloseActive.hls
  /\ over' = "closed" /\ gate' = NoGate
  /\ \E late \in BOOLEAN : (late => Hungry) /\ app' = [NoApp EXCEPT !.asked = late]
  /\ UNCHANGED <<active, plan, link, owed, raw, demuxVars>>

-----------------------------------------------------------------------------
(* The progressive source.  The frames of nested deliveries all end with a *)
(* topUp(); it runs when the innermost has nothing more to ask.            *)

Fetched(n) == n \in {x \in {Short, WindowBytes(plan)} : x <= WindowBytes(plan)}
Left == Size - prog.offset
Answer == {IF n < Left THEN n ELSE Left : n \in {x \in 1..WindowBytes(plan) :
                                                   Fetched(x)}}
Link == IF Steady THEN {link} ELSE Rates

Deliver(s, n) == prog' = s /\ Feed(n) /\ owed' = TRUE

\* onVideoOpened(): the gate is armed, and the probe's window is asked for.
ProbeFinished(n, rate) ==
  /\ Free /\ prog.reply # NoReply /\ prog.reply.slot = "probe" /\ n \in Answer
  /\ plan' = [NoteFetch(plan, n, rate) EXCEPT !.total = Size, !.dur = Duration]
  /\ Deliver([BS(MaxWindow, ReadAheadMin)!Probed(prog, n, TRUE) EXCEPT !.ready = <<>>], n)
  /\ gate' = [armed |-> BufferedMs(plan', StartupBytes(plan')) > 0,
              need  |-> BufferedMs(plan', StartupBytes(plan')),
              have  |-> BufferedMs(plan', n)]
  /\ UNCHANGED <<active, hls, link, over, app, raw>>

WindowFinished(n, rate) ==
  LET landed == BS(WindowBytes(plan), ReadAheadMin)!Landed(prog, n)
  IN /\ Free /\ prog.reply # NoReply /\ prog.reply.slot = "window" /\ n \in Answer
     /\ plan' = NoteFetch(plan, n, rate)
     /\ gate' = [gate EXCEPT !.have = BufferedMs(plan', landed.offset)]
     /\ IF prog.waiting THEN Deliver(landed, n)
        ELSE prog' = ToppedUp(plan', landed) /\ UNCHANGED <<owed, demuxVars>>
     /\ UNCHANGED <<active, hls, link, over, app, raw>>

FetchFails ==
  /\ Free /\ prog.reply # NoReply
  /\ prog' = [prog EXCEPT !.reply = NoReply] /\ over' = "failed"
  /\ UNCHANGED <<active, hls, plan, link, owed, gate, app, raw, demuxVars>>

\* The end satisfies the gate by definition (onPumpVideoFinished).
Finished == over' = "end" /\ gate' = [gate EXCEPT !.have = gate.need]

\* requestData()
Request ==
  \/ /\ prog.ready # <<>>
     /\ Deliver([prog EXCEPT !.ready = Tail(@)], Head(prog.ready).n)
     /\ UNCHANGED <<over, gate>>
  \/ /\ prog.ready = <<>> /\ prog.eof /\ prog.reply = NoReply
     /\ Finished /\ owed' = FALSE /\ UNCHANGED <<prog, demuxVars>>
  \/ /\ prog.ready = <<>> /\ ~(prog.eof /\ prog.reply = NoReply)
     /\ prog' = Waiting(plan, prog)
     /\ owed' = FALSE /\ UNCHANGED <<over, gate, demuxVars>>

\* The rest of onVideoData(): without a moov or a sample it asks again, from
\* inside the delivery; otherwise the samples go to the appsrc.
FeedReturned ==
  /\ owed /\ ~feeding
  /\ \/ /\ failed
        /\ over' = "failed" /\ owed' = FALSE /\ prog' = ToppedUp(plan, prog)
        /\ UNCHANGED <<gate, app, demuxVars>>
     \/ /\ ~failed /\ (~header \/ samples = <<>>)
        /\ Request
        /\ app' = IF header /\ ~app.built
                  THEN [app EXCEPT !.built = TRUE, !.dry = TRUE] ELSE app
     \/ /\ ~failed /\ header /\ samples # <<>>
        /\ Take /\ owed' = FALSE /\ prog' = ToppedUp(plan, prog)
        /\ app' = [app EXCEPT !.built = TRUE, !.dry = FALSE, !.asked = FALSE]
        /\ UNCHANGED <<over, gate>>
  /\ UNCHANGED <<active, hls, plan, link, raw>>

\* seekDualTo(): both are taken to the subsegment, and delivery starts again.
SeekTo(time) ==
  /\ Free /\ active.route = "progressive" /\ header /\ over \in {"no", "end"} /\ app.built
  /\ Seek(time)
  /\ LET sought == BS(MaxWindow, ReadAheadMin)!Seek(prog, walk')
     IN prog' = Waiting(plan, sought)
  /\ over' = "no" /\ app' = [app EXCEPT !.dry = TRUE, !.asked = TRUE]
  /\ UNCHANGED <<active, hls, plan, link, owed, gate, raw>>

-----------------------------------------------------------------------------
(* The HLS source *)

HlsFails == hls' = CloseHls(hls) /\ over' = "failed" /\ UNCHANGED <<app, raw>>

\* onMasterFinished(), onVariantFinished(), onSegmentFinished()
HlsAnswered ==
  /\ Free /\ hls.reply # NoFetch
  /\ \/ HlsFails
     \/ /\ hls.reply.what = "master"
        /\ \E master \in Masters :
             IF HasAudio(master)
             THEN hls' = MasterRead(hls, master) /\ UNCHANGED <<over, app, raw>>
             ELSE HlsFails
     \/ /\ hls.reply.what = "variant"
        /\ \E variant \in Variants :
             IF ParseSegments(variant) # <<>>
             THEN /\ hls' = VariantRead(hls, variant)
                  /\ app' = [app EXCEPT !.built = TRUE, !.dry = TRUE]
                  /\ UNCHANGED <<over, raw>>
             ELSE HlsFails
     \/ /\ hls.reply.what = "segment" /\ over = "no"
        /\ hls' = CloseHls(hls)
        /\ \/ /\ raw' = Append(raw, hls.reply.url)
              /\ app' = [app EXCEPT !.dry = FALSE, !.asked = FALSE]
              /\ UNCHANGED over
           \/ over' = "end" /\ UNCHANGED <<raw, app>>       \* an empty segment
     \/ /\ hls.reply.what = "segment" /\ over = "closed"    \* no pipeline takes it
        /\ hls' = CloseHls(hls) /\ UNCHANGED <<over, raw, app>>
  /\ UNCHANGED <<active, prog, plan, link, owed, gate, demuxVars>>

HlsRequest ==
  /\ IF AtEnd(hls) THEN over' = "end" /\ UNCHANGED hls
     ELSE hls' = GetSegment(hls) /\ UNCHANGED over
  /\ UNCHANGED <<prog, owed, gate, demuxVars>>

-----------------------------------------------------------------------------
(* The pipeline and the gate *)

\* need-data, queued through the GUI thread to requestVideoData().
NeedData ==
  /\ Free /\ Hungry
  /\ app' = [app EXCEPT !.asked = TRUE]
  /\ IF active.route = "hls" THEN HlsRequest ELSE Request /\ UNCHANGED hls
  /\ UNCHANGED <<active, plan, link, raw>>

\* The one that was on its way when the source was closed: a progressive source
\* has no url and returns, the HLS source knows its playlist and goes on.
LateNeedData ==
  /\ Free /\ over = "closed" /\ app.asked
  /\ app' = [app EXCEPT !.asked = FALSE]
  /\ hls' = IF active.route = "hls" /\ ~AtEnd(hls) THEN GetSegment(hls) ELSE hls
  /\ UNCHANGED <<active, prog, plan, link, owed, over, gate, raw, demuxVars>>

\* Behind the gate the paused pipeline takes what its preroll takes.
Consume ==
  /\ app.built /\ ~app.dry /\ (gate.armed => app.appetite > 0)
  /\ app' = [app EXCEPT !.dry = TRUE, !.appetite = IF gate.armed THEN @ - 1 ELSE @]
  /\ UNCHANGED <<active, prog, hls, plan, link, owed, over, gate, raw, demuxVars>>

\* updateStartupGate()
GateOpens ==
  /\ gate.armed /\ app.built /\ gate.have >= gate.need
  /\ gate' = [gate EXCEPT !.armed = FALSE]
  /\ UNCHANGED <<active, prog, hls, plan, link, owed, over, app, raw, demuxVars>>

Demuxing == (Slice \/ Await \/ Refuse \/ Walk) /\ UNCHANGED inputVars

Fetching ==
  \E n \in 1..MaxWindow, rate \in Link : ProbeFinished(n, rate) \/ WindowFinished(n, rate)

Next ==
  \/ \E f \in Files : OpenProgressive(f)
  \/ OpenHlsSession \/ Close
  \/ Fetching \/ FetchFails \/ FeedReturned \/ Demuxing
  \/ \E time \in Times : SeekTo(time)
  \/ HlsAnswered \/ NeedData \/ LateNeedData \/ Consume \/ GateOpens

Spec == Init /\ [][Next]_vars

\* Fetches end, as every curl transfer does; the handlers and the gate run,
\* and a dry appsrc asks.  Nobody has to consume.
FairSpec ==
  /\ Spec /\ WF_vars(Fetching \/ FetchFails) /\ WF_vars(HlsAnswered)
  /\ WF_vars(Demuxing) /\ WF_vars(FeedReturned) /\ WF_vars(NeedData)
  /\ WF_vars(GateOpens) /\ WF_vars(over = "failed" /\ Close)

-----------------------------------------------------------------------------
(* Properties *)

TypeOK ==
  /\ active.route \in {"none", "progressive", "hls"}
  /\ over \in {"no", "end", "failed", "closed"}
  /\ bufOff <= have /\ bufOff <= walk
  /\ active.route = "progressive" =>
       prog.offset <= Size /\ Len(prog.ready) <= ReadAheadMax
  /\ gate.armed => gate.need \in 1..(Duration * 1000)

\* Only the child of the url opened last has a fetch in flight, of that url,
\* and no reply is left that nobody remembers (bytesource.h, RoutingSource).
OneVoice ==
  /\ active.route # "progressive" => prog.reply = NoReply
  /\ prog.reply # NoReply => prog.reply.url = active.session
  /\ active.route # "hls" => hls.reply = NoFetch
  /\ prog.stray = {}

\* What the demuxer has given when feed() returns depends on what arrived and
\* not on how it was cut, nor on a seek: everything the file promises up to
\* there from the anchor on, and the error if the file has one there.
AsArrived ==
  ~feeding =>
    LET past == Happened(Events[file][anchor], have)
    IN /\ taken \o samples = Given(SubSeq(Events[file][anchor], 1, past))
       /\ failed = Broken(SubSeq(Events[file][anchor], 1, past))

PromisedSamples == [f \in Files |-> [a \in Anchors(f) |-> Given(Events[f][a])]]
FaultyFiles == [f \in Files |-> [a \in Anchors(f) |-> Broken(Events[f][a])]]

Stream == INSTANCE SampleStream WITH
  Promised <- PromisedSamples, Faulty <- FaultyFiles,
  given <- taken \o samples, broken <- failed
SampleStreamed == Stream!Spec

\* "every sample the moof described must land inside that mdat's payload"
\* (fmp4demux.cpp:443): it does when the mdat's header came with its bytes.
SamplesInData ==
  \A s \in ToSet(taken \o samples) :
    \E b \in DOMAIN file :
      /\ file[b].type = "mdat"
      /\ s.off >= Start(file, b) + file[b].hdr /\ s.off + s.size <= End(file, b)

\* "dead until open()" (bytesource.cpp:142).
ClosedIsDead == over = "closed" => prog.reply = NoReply /\ hls.reply = NoFetch

\* An HLS session pushes the segments its playlist lists, none left out and
\* none twice.
SegmentsInOrder ==
  active.route = "hls" => IsPrefix(raw, hls.segments)

\* The gate opens, on a link that keeps its rate; and whoever waits for data
\* is given some, or the end.
InputFlows ==
  /\ gate.armed ~> ~gate.armed
  /\ app.asked ~> (~app.asked \/ over # "no")

=============================================================================
