-------------------------- MODULE MediaInputProofs --------------------------
(***************************************************************************)
(* Proofs about MediaInput: the two sources under RoutingSource never have *)
(* a fetch in flight together or for a url that was left                   *)
(* (core/media/bytesource.cpp), and an HLS session pushes its segments in  *)
(* the playlist's order (core/media/hlssource.cpp).                        *)
(***************************************************************************)
EXTENDS MediaInput, SequenceTheorems, FiniteSetTheorems, TLAPS

\* The fields of a progressive source, whatever is in them.
Shaped(s) ==
  s \in [url : {s.url}, ranged : {s.ranged}, offset : {s.offset}, eof : {s.eof},
         waiting : {s.waiting}, ready : {s.ready}, reply : {s.reply}, stray : {s.stray}]

Quiet(s) == Shaped(s) /\ s.stray = {}

ShapeInv ==
  /\ Quiet(prog)
  /\ hls \in [segments : {hls.segments}, next : {hls.next}, reply : {hls.reply}]
  /\ app \in [built : {app.built}, dry : {app.dry}, asked : {app.asked},
              appetite : {app.appetite}]

\* A source that was left has no url, and cannot fetch until it is opened.
UrlInv ==
  /\ active.route # "progressive" => prog.url = 0
  /\ prog.url # 0 => prog.url = active.session

VoiceInv == ShapeInv /\ UrlInv /\ OneVoice

\* Where an HLS session is: it has pushed the segments before the next one,
\* but for the one in flight, and none before the playlist is read.  After its
\* end or a failure nothing is in flight; after closeAll() a late segment may be.
PlaceInv ==
  /\ hls.segments \in Seq(SegmentUrls) /\ raw \in Seq(SegmentUrls)
  /\ hls.next \in 1..Len(hls.segments) + 1
  /\ IsPrefix(raw, hls.segments)
  /\ ~owed
  /\ over \notin {"no", "closed"} => hls.reply = NoFetch
  /\ hls.reply # NoFetch =>
       /\ hls.reply.what \in Fetches
       /\ hls.reply.what # "segment" =>
            over = "no" /\ ~app.built /\ raw = <<>> /\ hls.next = 1
       /\ hls.reply.what = "segment" /\ over = "no" =>
            /\ app.asked /\ hls.next = Len(raw) + 2
            /\ hls.reply.url = hls.segments[Len(raw) + 1]
  /\ over = "no" /\ hls.reply = NoFetch => hls.next = Len(raw) + 1

HlsInv == VoiceInv /\ (active.route = "hls" => PlaceInv)

-----------------------------------------------------------------------------
(* What the methods of a progressive source do to its reply                *)

\* What the source becomes keeps its url, and has the reply it had, or none,
\* or one of that url.
Keeps(t, s) ==
  /\ Quiet(t) /\ t.url = s.url
  /\ t.reply # NoReply => t.reply = s.reply \/ (s.url # 0 /\ t.reply.url = s.url)

LEMMA TopUpKeeps ==
  ASSUME NEW s, NEW window, NEW readAhead, NEW size, Quiet(s)
  PROVE  Keeps(BS(window, readAhead)!TopUp(s, size), s)
  BY DEF Quiet, Shaped, Keeps, BS!TopUp, BS!Issue

LEMMA WaitKeeps ==
  ASSUME NEW s, NEW window, NEW readAhead, NEW size, Quiet(s)
  PROVE  Keeps(BS(window, readAhead)!Wait(s, size), s)
<1> DEFINE t == [s EXCEPT !.waiting = TRUE]
<1>1. Quiet(t) /\ t.url = s.url /\ t.reply = s.reply
  BY DEF Quiet, Shaped
<1> HIDE DEF t
<1>2. Keeps(BS(window, readAhead)!TopUp(t, size), t)
  BY <1>1, TopUpKeeps
<1>3. BS(window, readAhead)!Wait(s, size) = BS(window, readAhead)!TopUp(t, size)
  BY DEF t, BS!Wait
<1> QED BY <1>1, <1>2, <1>3 DEF Keeps

LEMMA CloseKeeps ==
  ASSUME NEW s, Quiet(s)
  PROVE  Quiet(Plain(s)) /\ Plain(s).url = 0 /\ Plain(s).reply = NoReply
  BY DEF Quiet, Shaped, Plain, BS!Close

LEMMA OpenIssues ==
  ASSUME NEW s, NEW window, NEW readAhead, NEW url, Quiet(s), s.reply = NoReply
  PROVE  LET t == BS(window, readAhead)!Open(s, url)
         IN Quiet(t) /\ t.url = url /\ t.reply.url = url
  BY DEF Quiet, Shaped, BS!Open, BS!Issue

LEMMA SeekKeeps ==
  ASSUME NEW s, NEW window, NEW readAhead, NEW offset, Quiet(s)
  PROVE  Keeps(BS(window, readAhead)!Seek(s, offset), s)
  BY DEF Quiet, Shaped, Keeps, BS!Seek, BS!Close

LEMMA ProbedKeeps ==
  ASSUME NEW s, NEW window, NEW readAhead, NEW n, Quiet(s)
  PROVE  Keeps([BS(window, readAhead)!Probed(s, n, TRUE) EXCEPT !.ready = <<>>], s)
  BY DEF Quiet, Shaped, Keeps, BS!Probed

LEMMA LandedKeeps ==
  ASSUME NEW s, NEW window, NEW readAhead, NEW n, Quiet(s)
  PROVE  Keeps(BS(window, readAhead)!Landed(s, n), s)
  BY DEF Quiet, Shaped, Keeps, BS!Landed

LEMMA KeepsTrans ==
  ASSUME NEW s, NEW t, NEW u, Keeps(t, s), Keeps(u, t)
  PROVE  Keeps(u, s)
  BY DEF Keeps

LEMMA KeepsSelf == ASSUME NEW s, Quiet(s) PROVE Keeps(s, s)
  BY DEF Keeps

-----------------------------------------------------------------------------
(* One voice: every action keeps VoiceInv                                  *)

HlsShape == hls \in [segments : {hls.segments}, next : {hls.next}, reply : {hls.reply}]
AppShape == app \in [built : {app.built}, dry : {app.dry}, asked : {app.asked},
                     appetite : {app.appetite}]

\* A step inside a session: the progressive source keeps what it is, and an
\* HLS source that is not the active one stays silent.
LEMMA VoiceStep ==
  ASSUME VoiceInv, active' = active, Keeps(prog', prog), HlsShape', AppShape',
         active.route # "hls" => hls'.reply = NoFetch
  PROVE  VoiceInv'
<1>1. ShapeInv'
  BY DEF ShapeInv, Keeps, HlsShape, AppShape
<1>2. UrlInv'
  BY DEF VoiceInv, UrlInv, Keeps
<1>3. OneVoice'
  <2>1. active.route # "progressive" => prog'.reply = NoReply
    BY DEF VoiceInv, UrlInv, OneVoice, Keeps
  <2>2. prog'.reply # NoReply => prog'.reply.url = active.session
    BY DEF VoiceInv, UrlInv, OneVoice, Keeps
  <2>3. prog'.stray = {}
    BY DEF Keeps, Quiet
  <2> QED BY <2>1, <2>2, <2>3 DEF OneVoice
<1> QED BY <1>1, <1>2, <1>3 DEF VoiceInv

\* The same when the HLS source is left alone.
LEMMA VoiceProg ==
  ASSUME VoiceInv, active' = active, hls' = hls, Keeps(prog', prog), AppShape'
  PROVE  VoiceInv'
BY VoiceStep DEF VoiceInv, ShapeInv, OneVoice, HlsShape

LEMMA VoiceInit == Init => VoiceInv
<1> SUFFICES ASSUME Init PROVE VoiceInv
  OBVIOUS
<1>1. prog = [url |-> 0, ranged |-> FALSE, offset |-> 0, eof |-> FALSE, waiting |-> FALSE,
              ready |-> <<>>, reply |-> NoReply, stray |-> {}]
  BY DEF Init, BS!NewSource
<1>2. Quiet(prog) /\ prog.url = 0 /\ prog.reply = NoReply
  BY <1>1 DEF Quiet, Shaped
<1>3. HlsShape /\ hls.reply = NoFetch
  BY DEF Init, NewHls, HlsShape
<1>4. AppShape
  BY DEF Init, NoApp, AppShape
<1>5. active.route = "none"
  BY DEF Init
<1> QED
  BY <1>2, <1>3, <1>4, <1>5
     DEF VoiceInv, ShapeInv, UrlInv, OneVoice, Quiet, HlsShape, AppShape

\* What closing the active child leaves: no reply on either side.
LEMMA ClosedBoth ==
  ASSUME VoiceInv
  PROVE  /\ Quiet(CloseActive.prog) /\ CloseActive.prog.url = 0
         /\ CloseActive.prog.reply = NoReply
         /\ CloseActive.hls \in [segments : {hls.segments}, next : {hls.next},
                                 reply : {NoFetch}]
<1>1. Quiet(CloseActive.prog) /\ CloseActive.prog.url = 0 /\ CloseActive.prog.reply = NoReply
  <2>1. CASE active.route = "progressive"
    BY <2>1, CloseKeeps DEF CloseActive, VoiceInv, ShapeInv
  <2>2. CASE active.route # "progressive"
    BY <2>2 DEF CloseActive, VoiceInv, ShapeInv, UrlInv, OneVoice
  <2> QED BY <2>1, <2>2
<1>2. CloseActive.hls \in [segments : {hls.segments}, next : {hls.next}, reply : {NoFetch}]
  BY DEF CloseActive, CloseHls, VoiceInv, ShapeInv, OneVoice
<1> QED BY <1>1, <1>2

LEMMA VoiceOpenProgressive ==
  ASSUME VoiceInv, NEW f \in Files, OpenProgressive(f)
  PROVE  VoiceInv'
<1>1. /\ active'.route = "progressive" /\ app' = NoApp
      /\ prog' = BS(MaxWindow, ReadAheadMin)!Open(CloseActive.prog, active'.session)
      /\ hls' = CloseActive.hls
  BY DEF OpenProgressive, Opened
<1>2. Quiet(prog') /\ prog'.url = active'.session /\ prog'.reply.url = active'.session
  BY <1>1, ClosedBoth, OpenIssues
<1>3. HlsShape' /\ hls'.reply = NoFetch
  BY <1>1, ClosedBoth DEF HlsShape
<1>4. AppShape'
  BY <1>1 DEF AppShape, NoApp
<1> QED
  BY <1>1, <1>2, <1>3, <1>4
     DEF VoiceInv, ShapeInv, UrlInv, OneVoice, Quiet, HlsShape, AppShape

LEMMA VoiceOpenHls ==
  ASSUME VoiceInv, OpenHlsSession
  PROVE  VoiceInv'
<1>1. /\ active'.route = "hls" /\ app' = NoApp /\ prog' = CloseActive.prog
      /\ hls' = OpenHls(CloseActive.hls, active'.session)
  BY DEF OpenHlsSession, Opened
<1>2. Quiet(prog') /\ prog'.url = 0 /\ prog'.reply = NoReply
  BY <1>1, ClosedBoth
<1>3. HlsShape'
  BY <1>1, ClosedBoth DEF HlsShape, OpenHls, Get
<1>4. AppShape'
  BY <1>1 DEF AppShape, NoApp
<1> QED
  BY <1>1, <1>2, <1>3, <1>4
     DEF VoiceInv, ShapeInv, UrlInv, OneVoice, Quiet, HlsShape, AppShape

LEMMA VoiceClose ==
  ASSUME VoiceInv, Close
  PROVE  VoiceInv'
<1>1. /\ active' = active /\ prog' = CloseActive.prog /\ hls' = CloseActive.hls
      /\ \E late \in BOOLEAN : app' = [NoApp EXCEPT !.asked = late]
  BY DEF Close
<1>2. Quiet(prog') /\ prog'.url = 0 /\ prog'.reply = NoReply
  BY <1>1, ClosedBoth
<1>3. HlsShape' /\ hls'.reply = NoFetch
  BY <1>1, ClosedBoth DEF HlsShape
<1>4. AppShape'
  BY <1>1 DEF AppShape, NoApp
<1> QED
  BY <1>1, <1>2, <1>3, <1>4
     DEF VoiceInv, ShapeInv, UrlInv, OneVoice, Quiet, HlsShape, AppShape

\* A handler that leaves the progressive source and the HLS source alone.
LEMMA VoiceApp ==
  ASSUME VoiceInv, active' = active, prog' = prog, hls' = hls, AppShape'
  PROVE  VoiceInv'
BY VoiceProg, KeepsSelf DEF VoiceInv, ShapeInv

LEMMA VoiceFetching ==
  ASSUME VoiceInv, Fetching
  PROVE  VoiceInv'
<1> PICK n \in 1..MaxWindow, rate \in Link : ProbeFinished(n, rate) \/ WindowFinished(n, rate)
  BY DEF Fetching
<1>0. Quiet(prog) /\ AppShape
  BY DEF VoiceInv, ShapeInv, AppShape
<1>1. CASE ProbeFinished(n, rate)
  <2>1. /\ active' = active /\ hls' = hls /\ app' = app
        /\ prog' = [BS(MaxWindow, ReadAheadMin)!Probed(prog, n, TRUE) EXCEPT !.ready = <<>>]
    BY <1>1 DEF ProbeFinished, Deliver
  <2>2. Keeps(prog', prog)
    BY <1>0, <2>1, ProbedKeeps
  <2> QED BY <1>0, <2>1, <2>2, VoiceProg DEF AppShape
<1>2. CASE WindowFinished(n, rate)
  <2> DEFINE landed == BS(WindowBytes(plan), ReadAheadMin)!Landed(prog, n)
  <2>1. /\ active' = active /\ hls' = hls /\ app' = app
        /\ prog' = landed \/ prog' = ToppedUp(plan', landed)
    BY <1>2 DEF WindowFinished, Deliver
  <2>2. Keeps(landed, prog)
    BY <1>0, LandedKeeps
  <2> HIDE DEF landed
  <2>3. Keeps(ToppedUp(plan', landed), landed)
    BY <2>2, TopUpKeeps DEF ToppedUp, Keeps
  <2>4. Keeps(prog', prog)
    BY <2>1, <2>2, <2>3, KeepsTrans
  <2> QED BY <1>0, <2>1, <2>4, VoiceProg DEF AppShape
<1> QED BY <1>1, <1>2

LEMMA VoiceFetchFails ==
  ASSUME VoiceInv, FetchFails
  PROVE  VoiceInv'
<1>1. /\ active' = active /\ hls' = hls /\ app' = app
      /\ prog' = [prog EXCEPT !.reply = NoReply]
  BY DEF FetchFails
<1>2. Keeps(prog', prog)
  BY <1>1 DEF VoiceInv, ShapeInv, Quiet, Shaped, Keeps
<1>3. AppShape'
  BY <1>1 DEF VoiceInv, ShapeInv, AppShape
<1> QED BY <1>1, <1>2, <1>3, VoiceProg

LEMMA RequestKeeps ==
  ASSUME Quiet(prog), Request
  PROVE  Keeps(prog', prog)
<1>1. CASE prog.ready # <<>>
  <2>1. prog' = [prog EXCEPT !.ready = Tail(@)]
    BY <1>1 DEF Request, Deliver
  <2> QED BY <2>1 DEF Quiet, Shaped, Keeps
<1>2. CASE prog.ready = <<>> /\ prog.eof /\ prog.reply = NoReply
  BY <1>2, KeepsSelf DEF Request
<1>3. CASE prog.ready = <<>> /\ ~(prog.eof /\ prog.reply = NoReply)
  <2>1. prog' = Waiting(plan, prog)
    BY <1>3 DEF Request
  <2> QED BY <2>1, WaitKeeps DEF Waiting
<1> QED BY <1>1, <1>2, <1>3

LEMMA VoiceFeedReturned ==
  ASSUME VoiceInv, FeedReturned
  PROVE  VoiceInv'
<1>0. Quiet(prog) /\ AppShape /\ active' = active /\ hls' = hls
  BY DEF VoiceInv, ShapeInv, AppShape, FeedReturned
<1>1. Keeps(ToppedUp(plan, prog), prog)
  BY <1>0, TopUpKeeps DEF ToppedUp
<1>2. Keeps(prog', prog)
  BY <1>0, <1>1, RequestKeeps DEF FeedReturned
<1>3. \/ app' = app \/ app' = [app EXCEPT !.built = TRUE, !.dry = TRUE]
      \/ app' = [app EXCEPT !.built = TRUE, !.dry = FALSE, !.asked = FALSE]
  BY DEF FeedReturned
<1>4. AppShape'
  BY <1>0, <1>3 DEF AppShape
<1> QED BY <1>0, <1>2, <1>4, VoiceProg

LEMMA VoiceSeek ==
  ASSUME VoiceInv, NEW time \in Times, SeekTo(time)
  PROVE  VoiceInv'
<1> DEFINE sought == BS(MaxWindow, ReadAheadMin)!Seek(prog, walk')
<1>1. /\ active' = active /\ hls' = hls /\ prog' = Waiting(plan, sought)
      /\ app' = [app EXCEPT !.dry = TRUE, !.asked = TRUE]
  BY DEF SeekTo
<1>2. Keeps(sought, prog)
  BY SeekKeeps DEF VoiceInv, ShapeInv
<1> HIDE DEF sought
<1>3. Keeps(Waiting(plan, sought), sought)
  BY <1>2, WaitKeeps DEF Waiting, Keeps
<1>4. AppShape'
  BY <1>1 DEF VoiceInv, ShapeInv, AppShape
<1> QED BY <1>1, <1>2, <1>3, <1>4, KeepsTrans, VoiceProg

LEMMA VoiceHlsAnswered ==
  ASSUME VoiceInv, HlsAnswered
  PROVE  VoiceInv'
<1>0. /\ active.route = "hls" /\ active' = active /\ prog' = prog
      /\ HlsShape /\ AppShape /\ Quiet(prog)
  BY DEF VoiceInv, ShapeInv, OneVoice, HlsShape, AppShape, HlsAnswered
<1>1. \/ hls' = CloseHls(hls)
      \/ \E master \in Masters : hls' = MasterRead(hls, master)
      \/ \E variant \in Variants : hls' = VariantRead(hls, variant)
  BY DEF HlsAnswered, HlsFails
<1>2. HlsShape'
  BY <1>0, <1>1 DEF HlsShape, CloseHls, MasterRead, VariantRead, Get
<1>3. \/ app' = app \/ app' = [app EXCEPT !.built = TRUE, !.dry = TRUE]
      \/ app' = [app EXCEPT !.dry = FALSE, !.asked = FALSE]
  BY DEF HlsAnswered, HlsFails
<1>4. AppShape'
  BY <1>0, <1>3 DEF AppShape
<1> QED BY <1>0, <1>2, <1>4, VoiceStep, KeepsSelf

LEMMA VoiceNeedData ==
  ASSUME VoiceInv, NeedData
  PROVE  VoiceInv'
<1>0. /\ active' = active /\ HlsShape /\ AppShape /\ Quiet(prog)
      /\ app' = [app EXCEPT !.asked = TRUE]
  BY DEF VoiceInv, ShapeInv, HlsShape, AppShape, NeedData
<1>1. AppShape'
  BY <1>0 DEF AppShape
<1>2. CASE active.route = "hls"
  <2>1. prog' = prog /\ (hls' = hls \/ hls' = GetSegment(hls))
    BY <1>2 DEF NeedData, HlsRequest
  <2>2. HlsShape'
    BY <1>0, <2>1 DEF HlsShape, GetSegment, Get
  <2> QED BY <1>0, <1>1, <1>2, <2>1, <2>2, VoiceStep, KeepsSelf
<1>3. CASE active.route # "hls"
  <2>1. Request /\ hls' = hls
    BY <1>3 DEF NeedData
  <2> QED BY <1>0, <1>1, <2>1, RequestKeeps, VoiceProg
<1> QED BY <1>2, <1>3

LEMMA VoiceLateNeedData ==
  ASSUME VoiceInv, LateNeedData
  PROVE  VoiceInv'
<1>0. /\ active' = active /\ prog' = prog /\ HlsShape /\ AppShape /\ Quiet(prog)
      /\ app' = [app EXCEPT !.asked = FALSE]
      /\ hls' = hls \/ (active.route = "hls" /\ hls' = GetSegment(hls))
  BY DEF VoiceInv, ShapeInv, HlsShape, AppShape, LateNeedData
<1>1. AppShape'
  BY <1>0 DEF AppShape
<1>2. HlsShape'
  BY <1>0 DEF HlsShape, GetSegment, Get
<1>3. active.route # "hls" => hls'.reply = NoFetch
  BY <1>0 DEF VoiceInv, OneVoice
<1> QED BY <1>0, <1>1, <1>2, <1>3, VoiceStep, KeepsSelf

LEMMA VoiceNext == VoiceInv /\ [Next]_vars => VoiceInv'
<1> SUFFICES ASSUME VoiceInv, [Next]_vars PROVE VoiceInv'
  OBVIOUS
<1>0. AppShape
  BY DEF VoiceInv, ShapeInv, AppShape
<1>1. CASE \E f \in Files : OpenProgressive(f)
  BY <1>1, VoiceOpenProgressive
<1>2. CASE OpenHlsSession
  BY <1>2, VoiceOpenHls
<1>3. CASE Close
  BY <1>3, VoiceClose
<1>4. CASE Fetching
  BY <1>4, VoiceFetching
<1>5. CASE FetchFails
  BY <1>5, VoiceFetchFails
<1>6. CASE FeedReturned
  BY <1>6, VoiceFeedReturned
<1>7. CASE Demuxing
  <2>1. active' = active /\ prog' = prog /\ hls' = hls /\ app' = app
    BY <1>7 DEF Demuxing, inputVars
  <2> QED BY <1>0, <2>1, VoiceApp DEF AppShape
<1>8. CASE \E time \in Times : SeekTo(time)
  BY <1>8, VoiceSeek
<1>9. CASE HlsAnswered
  BY <1>9, VoiceHlsAnswered
<1>10. CASE NeedData
  BY <1>10, VoiceNeedData
<1>11. CASE Consume
  <2>1. /\ active' = active /\ prog' = prog /\ hls' = hls
        /\ app' = [app EXCEPT !.dry = TRUE, !.appetite = IF gate.armed THEN @ - 1 ELSE @]
    BY <1>11 DEF Consume
  <2>2. AppShape'
    BY <1>0, <2>1 DEF AppShape
  <2> QED BY <2>1, <2>2, VoiceApp
<1>12. CASE GateOpens
  <2>1. active' = active /\ prog' = prog /\ hls' = hls /\ app' = app
    BY <1>12 DEF GateOpens
  <2> QED BY <1>0, <2>1, VoiceApp DEF AppShape
<1>13. CASE UNCHANGED vars
  <2>1. active' = active /\ prog' = prog /\ hls' = hls /\ app' = app
    BY <1>13 DEF vars, inputVars
  <2> QED BY <1>0, <2>1, VoiceApp DEF AppShape
<1>14. CASE LateNeedData
  BY <1>14, VoiceLateNeedData
<1> QED
  BY <1>1, <1>2, <1>3, <1>4, <1>5, <1>6, <1>7, <1>8, <1>9, <1>10, <1>11, <1>12, <1>13,
     <1>14 DEF Next

LEMMA VoiceAlways == Spec => []VoiceInv
BY VoiceInit, VoiceNext, PTL DEF Spec

\* Only the child of the url opened last has a fetch in flight, of that url,
\* and no reply is left that nobody remembers: RoutingSource closes the child
\* that was active before it opens one, and a window is issued only when no
\* reply is in flight (core/media/bytesource.cpp).
THEOREM OneVoiceOnly == Spec => []OneVoice
<1>1. VoiceInv => OneVoice
  BY DEF VoiceInv
<1> QED BY <1>1, VoiceAlways, PTL

-----------------------------------------------------------------------------
(* An HLS session: every action keeps PlaceInv                             *)

LEMMA Playlist ==
  ASSUME NEW variant \in Variants
  PROVE  ParseSegments(variant) \in Seq(SegmentUrls)
<1> DEFINE segments == {i \in DOMAIN variant : Is(variant[i], {"map", "uri"})}
           at(k) == CHOOSE i \in segments : Cardinality({j \in segments : j <= i}) = k
           n == Cardinality(segments)
           urls == [k \in 1..n |-> variant[at(k)].url]
<1>1. variant \in Seq([tag : Tags, url : Nat])
  BY PlaylistAssumption
<1>2. DOMAIN variant = 1..Len(variant) /\ Len(variant) \in Nat
  BY <1>1, LenProperties
<1>3. IsFiniteSet(segments)
  <2>1. IsFiniteSet(1..Len(variant))
    BY <1>2, FS_Interval
  <2>2. segments \in SUBSET (1..Len(variant))
    BY <1>2
  <2> QED BY <2>1, <2>2, FS_Subset
<1>4. n \in Nat
  BY <1>3, FS_CardinalityType
<1> HIDE DEF n, at
<1>5. urls = ParseSegments(variant)
  BY DEF ParseSegments, n, at
<1>6. \A k \in DOMAIN urls : urls[k] \in ToSet(urls)
  BY DEF ToSet
<1>7. ToSet(urls) \subseteq SegmentUrls
  BY <1>5 DEF SegmentUrls
<1>8. urls \in [1..n -> SegmentUrls]
  BY <1>6, <1>7
<1>9. urls \in Seq(SegmentUrls)
  BY <1>4, <1>8, IsASeq
<1> QED BY <1>5, <1>9

\* A step that leaves the HLS source, its session and what it asked alone.
LEMMA PlaceStep ==
  ASSUME PlaceInv, hls' = hls, raw' = raw, owed' = owed, over' = over,
         app'.built = app.built, app'.asked = app.asked
  PROVE  PlaceInv'
BY DEF PlaceInv

LEMMA PlaceOpen ==
  ASSUME VoiceInv, OpenHlsSession
  PROVE  PlaceInv'
<1> DEFINE url == active'.session
<1>1. /\ hls' = OpenHls(CloseActive.hls, url) /\ raw' = <<>> /\ owed' = FALSE
      /\ over' = "no" /\ app' = NoApp
  BY DEF OpenHlsSession, Opened
<1> HIDE DEF url
<1>2. /\ hls'.segments = <<>> /\ hls'.next = 1
      /\ hls'.reply = [what |-> "master", url |-> url]
  BY <1>1, ClosedBoth DEF OpenHls, Get
<1>3. <<>> \in Seq(SegmentUrls) /\ Len(<<>>) = 0
  BY EmptySeq
<1>4. IsPrefix(raw', hls'.segments)
  BY <1>1, <1>2, <1>3 DEF IsPrefix
<1>5. hls'.reply.what = "master" /\ ~app'.built
  BY <1>1, <1>2 DEF NoApp
<1>6. over' = "no" /\ hls'.reply = NoFetch => hls'.next = Len(raw') + 1
  BY <1>1, <1>2, <1>3
<1> QED BY <1>1, <1>2, <1>3, <1>4, <1>5, <1>6 DEF PlaceInv, Fetches

\* Nothing in flight, and nothing more is coming.
LEMMA PlaceOver ==
  ASSUME PlaceInv, HlsShape, hls' = CloseHls(hls), raw' = raw, owed' = owed, over' # "no"
  PROVE  PlaceInv'
BY DEF PlaceInv, HlsShape, CloseHls

LEMMA PlaceClose ==
  ASSUME VoiceInv, active.route = "hls", PlaceInv, Close
  PROVE  PlaceInv'
BY PlaceOver DEF Close, CloseActive, VoiceInv, ShapeInv, HlsShape

LEMMA PlaceAnswered ==
  ASSUME VoiceInv, active.route = "hls", PlaceInv, HlsAnswered
  PROVE  PlaceInv'
<1>0. /\ HlsShape /\ AppShape /\ owed' = owed /\ hls.reply # NoFetch
      /\ over \in {"no", "closed"} /\ hls.reply.what \in Fetches
  BY DEF VoiceInv, ShapeInv, HlsShape, AppShape, HlsAnswered, PlaceInv
<1>1. CASE HlsFails
  BY <1>0, <1>1, PlaceOver DEF HlsFails
<1>2. ASSUME hls.reply.what = "master", NEW master \in Masters,
             hls' = MasterRead(hls, master), over' = over, app' = app, raw' = raw
      PROVE  PlaceInv'
  <2>1. /\ hls'.segments = hls.segments /\ hls'.next = hls.next
        /\ hls'.reply.what = "variant"
        /\ hls'.reply = [what |-> "variant", url |-> PickAudioPlaylist(master)]
    BY <1>0, <1>2 DEF MasterRead, Get, HlsShape
  <2>2. over = "no" /\ ~app.built /\ raw = <<>> /\ hls.next = 1
    BY <1>0, <1>2 DEF PlaceInv
  <2>3. Len(raw') = 0
    BY <1>2, <2>2
  <2> QED BY <1>0, <1>2, <2>1, <2>2, <2>3 DEF PlaceInv, Fetches
<1>3. ASSUME hls.reply.what = "variant", NEW variant \in Variants,
             hls' = VariantRead(hls, variant), over' = over, raw' = raw
      PROVE  PlaceInv'
  <2>1. /\ hls'.segments = ParseSegments(variant) /\ hls'.next = hls.next
        /\ hls'.reply = NoFetch
    BY <1>0, <1>3 DEF VariantRead, HlsShape
  <2>2. over = "no" /\ raw = <<>> /\ hls.next = 1
    BY <1>0, <1>3 DEF PlaceInv
  <2>3. hls'.segments \in Seq(SegmentUrls) /\ Len(hls'.segments) \in Nat
    BY <2>1, Playlist, LenProperties
  <2>4. Len(raw') = 0
    BY <1>3, <2>2
  <2>5. IsPrefix(raw', hls'.segments)
    BY <1>3, <2>2, <2>3, <2>4 DEF IsPrefix
  <2> QED BY <1>0, <1>3, <2>1, <2>2, <2>3, <2>4, <2>5 DEF PlaceInv
<1>4. ASSUME hls.reply.what = "segment", over = "no", hls' = CloseHls(hls),
             raw' = Append(raw, hls.reply.url), over' = over
      PROVE  PlaceInv'
  <2> DEFINE k == Len(raw)  segments == hls.segments
  <2>1. hls'.segments = segments /\ hls'.next = hls.next /\ hls'.reply = NoFetch
    BY <1>0, <1>4 DEF CloseHls, HlsShape
  <2>2. /\ segments \in Seq(SegmentUrls) /\ raw \in Seq(SegmentUrls)
        /\ hls.next = k + 2 /\ hls.reply.url = segments[k + 1] /\ IsPrefix(raw, segments)
        /\ hls.next \in 1..Len(segments) + 1 /\ ~owed
    BY <1>0, <1>4 DEF PlaceInv
  <2>3. k \in Nat /\ Len(segments) \in Nat /\ k + 1 \in 1..Len(segments)
    BY <2>2, LenProperties
  <2>4. segments[k + 1] \in SegmentUrls
    BY <2>2, <2>3, ElementOfSeq
  <2>5. raw' \in Seq(SegmentUrls) /\ Len(raw') = k + 1
    BY <1>4, <2>2, <2>4, AppendProperties
  <2>6. \A i \in 1..k : raw[i] = segments[i]
    <3> TAKE i \in 1..k
    <3>1. SubSeq(raw, 1, k)[i] = SubSeq(segments, 1, k)[i]
      BY <2>2 DEF IsPrefix
    <3>2. SubSeq(raw, 1, k)[i] = raw[i] /\ SubSeq(segments, 1, k)[i] = segments[i]
      BY <2>2, <2>3
    <3> QED BY <3>1, <3>2
  <2>7. \A i \in 1..k + 1 : raw'[i] = segments[i]
    BY <1>4, <2>2, <2>3, <2>4, <2>6, AppendProperties
  <2>8. SubSeq(raw', 1, k + 1) = SubSeq(segments, 1, k + 1)
    BY <2>2, <2>3, <2>5, <2>7
  <2>9. IsPrefix(raw', segments)
    BY <2>3, <2>5, <2>8 DEF IsPrefix
  <2> QED BY <1>0, <1>4, <2>1, <2>2, <2>3, <2>5, <2>9 DEF PlaceInv
<1>5. CASE hls' = CloseHls(hls) /\ over' \in {"end", "closed"} /\ raw' = raw
  BY <1>0, <1>5, PlaceOver
<1> QED BY <1>0, <1>1, <1>2, <1>3, <1>4, <1>5 DEF HlsAnswered

LEMMA PlaceNeedData ==
  ASSUME VoiceInv, active.route = "hls", PlaceInv, NeedData
  PROVE  PlaceInv'
<1>0. /\ HlsShape /\ AppShape /\ owed' = owed /\ raw' = raw /\ over = "no"
      /\ app.built /\ ~app.asked /\ app'.built = app.built /\ app'.asked
  BY DEF VoiceInv, ShapeInv, HlsShape, AppShape, NeedData, Hungry, HlsRequest
<1>1. hls.reply = NoFetch
  BY <1>0 DEF PlaceInv, Fetches
<1>2. CASE AtEnd(hls)
  <2>1. hls' = hls /\ over' = "end"
    BY <1>2 DEF NeedData, HlsRequest
  <2> QED BY <1>0, <1>1, <2>1 DEF PlaceInv
<1>3. CASE ~AtEnd(hls)
  <2>1. hls' = GetSegment(hls) /\ over' = over
    BY <1>3 DEF NeedData, HlsRequest
  <2>2. /\ hls'.segments = hls.segments /\ hls'.next = hls.next + 1
        /\ hls'.reply = [what |-> "segment", url |-> hls.segments[hls.next]]
    BY <1>0, <2>1 DEF HlsShape, GetSegment, Get
  <2>3. /\ Len(hls.segments) \in Nat /\ Len(raw) \in Nat
        /\ hls.next = Len(raw) + 1 /\ hls.next \in 1..Len(hls.segments)
    BY <1>0, <1>1, <1>3, LenProperties DEF PlaceInv, AtEnd
  <2>4. hls'.reply # NoFetch
    <3>1. hls.segments[hls.next] \in SegmentUrls
      BY <2>3, ElementOfSeq DEF PlaceInv
    <3> QED BY <2>2, <3>1, PlaylistAssumption DEF Fetches
  <2>5. /\ hls'.reply.what = "segment" /\ hls'.next = Len(raw) + 2
        /\ hls'.reply.url = hls.segments[Len(raw) + 1]
        /\ hls'.next \in 1..Len(hls.segments) + 1
    BY <2>2, <2>3
  <2> QED BY <1>0, <2>1, <2>2, <2>4, <2>5 DEF PlaceInv, Fetches
<1> QED BY <1>2, <1>3

\* A late segment leaves what was pushed, and the place is in the playlist still.
LEMMA PlaceLateNeedData ==
  ASSUME VoiceInv, active.route = "hls", PlaceInv, LateNeedData
  PROVE  PlaceInv'
<1>0. /\ HlsShape /\ AppShape /\ owed' = owed /\ raw' = raw
      /\ over = "closed" /\ over' = over
      /\ app' = [app EXCEPT !.asked = FALSE]
  BY DEF VoiceInv, ShapeInv, HlsShape, AppShape, LateNeedData
<1>1. app'.built = app.built
  BY <1>0 DEF AppShape
<1>2. CASE AtEnd(hls)
  <2>1. hls' = hls
    BY <1>2 DEF LateNeedData
  <2> QED BY <1>0, <1>1, <2>1 DEF PlaceInv
<1>3. CASE ~AtEnd(hls)
  <2>1. hls' = GetSegment(hls)
    BY <1>3 DEF LateNeedData
  <2>2. /\ hls'.segments = hls.segments /\ hls'.next = hls.next + 1
        /\ hls'.reply = [what |-> "segment", url |-> hls.segments[hls.next]]
    BY <1>0, <2>1 DEF HlsShape, GetSegment, Get
  <2>3. hls'.next \in 1..Len(hls'.segments) + 1
    <3>1. Len(hls.segments) \in Nat /\ hls.next \in 1..Len(hls.segments)
      BY <1>3, LenProperties DEF PlaceInv, AtEnd
    <3> QED BY <2>2, <3>1
  <2> QED BY <1>0, <2>2, <2>3 DEF PlaceInv, Fetches
<1> QED BY <1>2, <1>3

LEMMA PlaceNext ==
  ASSUME VoiceInv, active'.route = "hls", active.route = "hls" => PlaceInv, [Next]_vars
  PROVE  PlaceInv'
<1>1. CASE \E f \in Files : OpenProgressive(f)
  BY <1>1 DEF OpenProgressive, Opened
<1>2. CASE OpenHlsSession
  BY <1>2, PlaceOpen
<1>3. CASE Close
  BY <1>3, PlaceClose DEF Close
<1>4. CASE Fetching \/ FetchFails
  <2>1. active.route = "hls"
    BY <1>4 DEF Fetching, FetchFails, ProbeFinished, WindowFinished
  <2>2. prog.reply # NoReply
    BY <1>4 DEF Fetching, FetchFails, ProbeFinished, WindowFinished
  <2> QED BY <2>1, <2>2 DEF VoiceInv, OneVoice
<1>5. CASE FeedReturned
  BY <1>5 DEF FeedReturned, PlaceInv
<1>6. CASE Demuxing
  BY <1>6, PlaceStep DEF Demuxing, inputVars
<1>7. CASE \E time \in Times : SeekTo(time)
  BY <1>7 DEF SeekTo
<1>8. CASE HlsAnswered
  BY <1>8, PlaceAnswered DEF HlsAnswered
<1>9. CASE NeedData
  BY <1>9, PlaceNeedData DEF NeedData
<1>10. CASE Consume
  <2>1. /\ active' = active /\ hls' = hls /\ raw' = raw /\ owed' = owed /\ over' = over
        /\ app' = [app EXCEPT !.dry = TRUE, !.appetite = IF gate.armed THEN @ - 1 ELSE @]
    BY <1>10 DEF Consume
  <2>2. app'.built = app.built /\ app'.asked = app.asked
    BY <2>1 DEF VoiceInv, ShapeInv
  <2> QED BY <2>1, <2>2, PlaceStep
<1>11. CASE GateOpens
  BY <1>11, PlaceStep DEF GateOpens
<1>12. CASE UNCHANGED vars
  BY <1>12, PlaceStep DEF vars, inputVars
<1>13. CASE LateNeedData
  BY <1>13, PlaceLateNeedData DEF LateNeedData
<1> QED
  BY <1>1, <1>2, <1>3, <1>4, <1>5, <1>6, <1>7, <1>8, <1>9, <1>10, <1>11, <1>12, <1>13
     DEF Next

\* An HLS session pushes the segments its playlist lists, in that order, none
\* left out and none twice, until something ends it: requestData() is asked for
\* the next one only when the one before it was answered
\* (core/media/hlssource.cpp).
THEOREM PlaylistOrder == Spec => []SegmentsInOrder
<1>1. Init => HlsInv
  BY VoiceInit DEF Init, HlsInv
<1>2. HlsInv /\ [Next]_vars => HlsInv'
  BY VoiceNext, PlaceNext DEF HlsInv
<1>3. HlsInv => SegmentsInOrder
  BY DEF HlsInv, PlaceInv, SegmentsInOrder
<1> QED BY <1>1, <1>2, <1>3, PTL DEF Spec

=============================================================================
