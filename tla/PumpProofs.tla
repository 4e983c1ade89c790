----------------------------- MODULE PumpProofs -----------------------------
(***************************************************************************)
(* Proofs about MediaPump: its types, that the pipeline only gets samples  *)
(* of the session that is played, that nothing follows the end of a stream *)
(* and that nothing is missing before it (core/media/mediapump.cpp,        *)
(* core/media/bytesource.cpp).                                             *)
(***************************************************************************)
EXTENDS MediaPump, SequenceTheorems, TLAPS

SamplesOf(S) == [session : S, unit : Nat]
DemuxesOf(S) == [next : Nat, header : BOOLEAN, samples : Seq(SamplesOf(S)),
                 failed : BOOLEAN]

Here == {session} \ {0}
Past == 1..session

\* The sessions whose windows a lane's source may hold: openSingle() leaves
\* the audio lane as the session before left it.
UrlsOf(l) == IF l = "video" \/ pump.dual THEN Here ELSE Past

\* The sessions whose samples the demuxers and the prebuffer may hold:
\* openSingle() leaves those, too.
Kept == IF pump.dual THEN Here ELSE Past

\* What the handlers on the media thread change, with samples of the sessions K.
Handling(K) ==
  /\ pump \in Pumps
  /\ demux \in [Lanes -> DemuxesOf(K)] /\ hold \in [Lanes -> Seq(SamplesOf(K))]
  /\ owed \subseteq Lanes /\ broken \in BOOLEAN
  /\ mail \in Seq(Letters)
  /\ app \in [Lanes -> AppSrcs] /\ pushed \in [Lanes -> Seq(Samples)]

\* What the GUI thread changes, and the frames that wait.
Commanding ==
  /\ unwind \subseteq Lanes
  /\ session \in Sessions \cup {0} /\ gui \in {"idle", "loading", "running", "released"}
  /\ {seeking, wanted, anchored} \subseteq Targets \cup {NoSeek}
  /\ used \in [seeks : 0..MaxSeeks, releases : 0..MaxReleases, stops : 0..MaxStops]
  /\ caps \in Sessions \cup {0}

SourcesInv ==
  /\ src \in [Lanes -> {src["video"], src["audio"]}]
  /\ \A l \in Lanes : src[l] \in BS!Sources(UrlsOf(l), FileSize[l])

DualInv == pump.dual = (session # 0 /\ DualSession[session])

PumpInv == Handling(Kept) /\ Commanding /\ SourcesInv /\ DualInv

\* A step adds samples of the sessions K to what was pushed, or none.
Adds(K) == \A l \in Lanes : \E s \in Seq(SamplesOf(K)) : pushed'[l] = pushed[l] \o s

-----------------------------------------------------------------------------
(* The methods of a source                                                 *)

LEMMA SessionsAre == Sessions = 1..Len(DualSession) /\ Len(DualSession) \in Nat
BY BoundsAssumption DEF Sessions

LEMMA SizeIs == ASSUME NEW l \in Lanes PROVE FileSize[l] \in Nat /\ HeaderSize[l] \in Nat
BY FilesAssumption

\* The fields of a source, whatever is in them.
Shaped(s) ==
  s \in [url : {s.url}, ranged : {s.ranged}, offset : {s.offset}, eof : {s.eof},
         waiting : {s.waiting}, ready : {s.ready}, reply : {s.reply}, stray : {s.stray}]

LEMMA SourceShaped ==
  ASSUME NEW U, NEW size, NEW s \in BS!Sources(U, size)
  PROVE  Shaped(s)
BY DEF BS!Sources, Shaped

LEMMA CloseFits ==
  ASSUME NEW U, NEW size, NEW s \in BS!Sources(U, size), NEW V
  PROVE  BS!Close(s) \in BS!Sources(V, size)
<1> DEFINE t == BS!Close(s)
<1>0. Shaped(s)
  BY SourceShaped
<1>1. /\ Shaped(t) /\ t.url = 0 /\ t.ranged = s.ranged /\ t.offset = s.offset
      /\ t.eof = s.eof /\ t.waiting = FALSE /\ t.ready = <<>> /\ t.reply = NoReply
      /\ t.stray = s.stray
  BY <1>0 DEF Shaped, BS!Close
<1>2. /\ s.ranged \in BOOLEAN /\ s.offset \in 0..size /\ s.eof \in BOOLEAN
      /\ s.stray \in SUBSET BS!Slots
  BY DEF BS!Sources
<1> HIDE DEF t
<1>3. t.ready \in Seq(BS!Windows(V, size))
  BY <1>1
<1>4. t \in BS!Sources(V, size)
  BY <1>1, <1>2, <1>3 DEF BS!Sources, Shaped
<1> QED BY <1>4 DEF t

LEMMA IssueFits ==
  ASSUME NEW U, NEW size, NEW s \in BS!Sources(U, size), s.url \in U, NEW slot \in BS!Slots
  PROVE  BS!Issue(s, slot) \in BS!Sources(U, size)
<1>1. [url |-> s.url, from |-> s.offset, slot |-> slot] \in BS!Replies(U, size)
  BY DEF BS!Sources, BS!Replies
<1>2. (IF s.reply = NoReply THEN {} ELSE {s.reply.slot}) \subseteq BS!Slots
  BY DEF BS!Sources, BS!Replies
<1> QED BY <1>1, <1>2 DEF BS!Issue, BS!Sources

LEMMA TopUpFits ==
  ASSUME NEW U, NEW size, NEW s \in BS!Sources(U, size)
  PROVE  BS!TopUp(s, size) \in BS!Sources(U, size)
<1>1. [s EXCEPT !.eof = TRUE] \in BS!Sources(U, size)
  BY DEF BS!Sources
<1>2. CASE s.url = 0 \/ s.reply # NoReply \/ s.eof
  <2>1. BS!TopUp(s, size) \in {s, [s EXCEPT !.eof = TRUE]}
    BY <1>2 DEF BS!TopUp
  <2> QED BY <1>1, <2>1
<1>3. CASE ~(s.url = 0 \/ s.reply # NoReply \/ s.eof)
  <2>1. BS!Issue(s, "window") \in BS!Sources(U, size)
    BY <1>3, IssueFits DEF BS!Sources, BS!Slots
  <2>2. BS!TopUp(s, size) \in {s, [s EXCEPT !.eof = TRUE], BS!Issue(s, "window")}
    BY <1>3 DEF BS!TopUp
  <2> QED BY <1>1, <2>1, <2>2
<1> QED BY <1>2, <1>3

LEMMA WaitFits ==
  ASSUME NEW U, NEW size, NEW s \in BS!Sources(U, size)
  PROVE  BS!Wait(s, size) \in BS!Sources(U, size)
<1>1. [s EXCEPT !.waiting = TRUE] \in BS!Sources(U, size)
  BY DEF BS!Sources
<1> QED BY <1>1, TopUpFits DEF BS!Wait

LEMMA OpenFits ==
  ASSUME NEW U, NEW size \in Nat, NEW s \in BS!Sources(U, size), NEW url
  PROVE  BS!Open(s, url) \in BS!Sources({url}, size)
<1> DEFINE t == [s EXCEPT !.url = url, !.offset = 0, !.eof = FALSE, !.waiting = FALSE,
                          !.ready = <<>>]
           u == BS!Open(s, url)
<1>0. Shaped(s)
  BY SourceShaped
<1>1. /\ Shaped(t) /\ t.url = url /\ t.ranged = s.ranged /\ t.offset = 0
      /\ t.eof = FALSE /\ t.waiting = FALSE /\ t.ready = <<>> /\ t.reply = s.reply
      /\ t.stray = s.stray
  BY <1>0 DEF Shaped
<1>2. u = BS!Issue(t, "probe")
  BY DEF BS!Open
<1> HIDE DEF t, u
<1>3. /\ Shaped(u) /\ u.url = url /\ u.ranged = s.ranged /\ u.offset = 0
      /\ u.eof = FALSE /\ u.waiting = FALSE /\ u.ready = <<>>
      /\ u.reply = [url |-> url, from |-> 0, slot |-> "probe"]
      /\ u.stray = s.stray \cup (IF s.reply = NoReply THEN {} ELSE {s.reply.slot})
  BY <1>1, <1>2 DEF Shaped, BS!Issue
<1>4. u.reply \in BS!Replies({url}, size)
  BY <1>3 DEF BS!Replies, BS!Slots
<1>5. u.stray \in SUBSET BS!Slots
  BY <1>3 DEF BS!Sources, BS!Replies
<1>6. s.ranged \in BOOLEAN /\ 0 \in 0..size
  BY DEF BS!Sources
<1>7. u.ready \in Seq(BS!Windows({url}, size))
  BY <1>3
<1>8. u \in BS!Sources({url}, size)
  BY <1>3, <1>4, <1>5, <1>6, <1>7 DEF BS!Sources, Shaped
<1> QED BY <1>8 DEF u

LEMMA SeekFits ==
  ASSUME NEW U, NEW size, NEW s \in BS!Sources(U, size), NEW offset \in 0..size
  PROVE  BS!Seek(s, offset) \in BS!Sources(U, size)
<1>1. CASE s.ranged
  <2>1. BS!Seek(s, offset) =
          [url |-> s.url, ranged |-> s.ranged, offset |-> offset, eof |-> FALSE,
           waiting |-> FALSE, ready |-> <<>>, reply |-> NoReply, stray |-> s.stray]
    BY <1>1 DEF BS!Seek, BS!Close, BS!Sources
  <2>2. s.url \in U \cup {0} /\ s.ranged \in BOOLEAN /\ s.stray \in SUBSET BS!Slots
    BY DEF BS!Sources
  <2> QED BY <2>1, <2>2 DEF BS!Sources
<1>2. CASE ~s.ranged
  BY <1>2 DEF BS!Seek
<1> QED BY <1>1, <1>2

LEMMA AnsweredIs ==
  ASSUME NEW U, NEW size \in Nat, NEW s \in BS!Sources(U, size)
  PROVE  BS!Answered(s, size) \in 0..Window /\ s.offset + BS!Answered(s, size) <= size
BY PlanAssumption DEF BS!Answered, BS!Sources

LEMMA BroughtFits ==
  ASSUME NEW U, NEW size, NEW s \in BS!Sources(U, size), s.reply # NoReply,
         NEW n \in 1..Window
  PROVE  BS!Brought(s, n) \in BS!Windows(U, size)
BY DEF BS!Brought, BS!Sources, BS!Replies, BS!Windows

LEMMA ProbedFits ==
  ASSUME NEW U, NEW size \in Nat, NEW s \in BS!Sources(U, size), s.reply # NoReply,
         NEW n \in 0..Window, s.offset + n <= size, NEW ranged \in BOOLEAN
  PROVE  BS!Probed(s, n, ranged) \in BS!Sources(U, size)
<1>1. (IF n = 0 THEN s.ready ELSE Append(s.ready, BS!Brought(s, n)))
        \in Seq(BS!Windows(U, size))
  BY BroughtFits, PlanAssumption DEF BS!Sources
<1>2. s.offset + n \in 0..size
  BY DEF BS!Sources
<1> QED BY <1>1, <1>2 DEF BS!Probed, BS!Sources

LEMMA LandedFits ==
  ASSUME NEW U, NEW size \in Nat, NEW s \in BS!Sources(U, size), s.reply # NoReply,
         NEW n \in 0..Window, s.offset + n <= size
  PROVE  BS!Landed(s, n) \in BS!Sources(U, size)
<1>1. (IF n = 0 \/ s.waiting THEN s.ready ELSE Append(s.ready, BS!Brought(s, n)))
        \in Seq(BS!Windows(U, size))
  BY BroughtFits, PlanAssumption DEF BS!Sources
<1>2. s.offset + n \in 0..size
  BY DEF BS!Sources
<1> QED BY <1>1, <1>2 DEF BS!Landed, BS!Sources

-----------------------------------------------------------------------------
(* Samples, demuxers and the members of the pump                           *)

LEMMA SamplesWithin ==
  ASSUME NEW K, NEW L, K \subseteq L
  PROVE  Seq(SamplesOf(K)) \subseteq Seq(SamplesOf(L))
<1>1. SamplesOf(K) \subseteq SamplesOf(L)
  BY DEF SamplesOf
<1> QED BY <1>1

LEMMA SamplesAll == Seq(SamplesOf(Sessions)) = Seq(Samples)
<1>1. SamplesOf(Sessions) = Samples
  BY DEF SamplesOf, Samples
<1> QED BY <1>1

LEMMA CutGives ==
  ASSUME NEW l \in Lanes, NEW U, NEW w \in BS!Windows(U, FileSize[l])
  PROVE  Cut(l, w) \in Seq(SamplesOf(U))
<1> DEFINE first == IF w.from < HeaderSize[l] THEN HeaderSize[l] + 1 ELSE w.from + 1
           last == w.from + w.n
<1>1. first \in Nat /\ last \in Nat /\ w.url \in U
  BY SizeIs, PlanAssumption DEF BS!Windows
<1>2. CASE last < first
  BY <1>2 DEF Cut
<1>3. CASE ~(last < first)
  <2> DEFINE n == last - first + 1
  <2>1. Cut(l, w) = [i \in 1..n |-> [session |-> w.url, unit |-> first + i - 1]]
    BY <1>3 DEF Cut
  <2> HIDE DEF first, last
  <2>2. n \in Nat
    BY <1>1, <1>3
  <2>3. \A i \in 1..n : [session |-> w.url, unit |-> first + i - 1] \in SamplesOf(U)
    BY <1>1, <2>2 DEF SamplesOf
  <2> HIDE DEF n
  <2> QED BY <2>1, <2>2, <2>3
<1> QED BY <1>2, <1>3

LEMMA FeedGives ==
  ASSUME NEW l \in Lanes, NEW K, NEW d \in DemuxesOf(K),
         NEW w \in BS!Windows(K, FileSize[l])
  PROVE  Feed(d, l, w) \in DemuxesOf(K)
<1>1. Cut(l, w) \in Seq(SamplesOf(K))
  BY CutGives
<1>2. d.samples \o Cut(l, w) \in Seq(SamplesOf(K))
  BY <1>1 DEF DemuxesOf
<1>3. w.from + w.n \in Nat /\ HeaderSize[l] \in Nat
  BY SizeIs, PlanAssumption DEF BS!Windows
<1>4. [d EXCEPT !.failed = TRUE] \in DemuxesOf(K)
  BY DEF DemuxesOf
<1>5. [d EXCEPT !.next = w.from + w.n, !.samples = @ \o Cut(l, w),
                !.header = @ \/ w.from + w.n >= HeaderSize[l]] \in DemuxesOf(K)
  BY <1>2, <1>3 DEF DemuxesOf
<1> QED BY <1>4, <1>5 DEF Feed

LEMMA RearmGives ==
  ASSUME NEW p \in Pumps
  PROVE  Rearm(p) \in Pumps /\ Rearm(p).dual = p.dual
BY DEF Rearm, Pumps

LEMMA ResetGives ==
  ASSUME NEW p \in Pumps
  PROVE  Reset(p) \in Pumps /\ Reset(p).dual = p.dual
BY DEF Reset, Pumps, Both

LEMMA EsReadyGives ==
  ASSUME NEW p \in Pumps, NEW d
  PROVE  EsReady(p, d) \in Pumps /\ EsReady(p, d).dual = p.dual
<1>1. [p EXCEPT !.esSent = TRUE] \in Pumps /\ [p EXCEPT !.esSent = TRUE].dual = p.dual
  BY DEF Pumps
<1> QED BY <1>1, RearmGives DEF EsReady

LEMMA PendingGives ==
  ASSUME NEW p \in Pumps, NEW l \in Lanes
  PROVE  LET q == [p EXCEPT !.eosPending[l] = TRUE] IN q \in Pumps /\ q.dual = p.dual
BY DEF Pumps

LEMMA EndKeeps ==
  ASSUME app \in [Lanes -> AppSrcs], NEW ends, NEW samples, End(ends, samples)
  PROVE  app' \in [Lanes -> AppSrcs]
BY DEF End, AppSrcs

LEMMA PushAdds ==
  ASSUME pushed \in [Lanes -> Seq(Samples)], NEW K, K \subseteq Sessions,
         NEW samples \in [Lanes -> Seq(SamplesOf(K))], Push(samples)
  PROVE  pushed' \in [Lanes -> Seq(Samples)] /\ Adds(K)
<1>1. Seq(SamplesOf(K)) \subseteq Seq(Samples)
  BY SamplesWithin, SamplesAll
<1>2. CASE caps' = 0
  <2>1. \A l \in Lanes : pushed'[l] = pushed[l] \o <<>> /\ <<>> \in Seq(SamplesOf(K))
    BY <1>2 DEF Push
  <2> QED BY <1>2, <2>1 DEF Push, Adds
<1>3. CASE caps' # 0
  <2>1. pushed' = [l \in Lanes |-> pushed[l] \o samples[l]]
    BY <1>3 DEF Push
  <2>2. \A l \in Lanes : samples[l] \in Seq(SamplesOf(K)) /\ pushed[l] \o samples[l] \in Seq(Samples)
    BY <1>1
  <2>3. pushed' \in [Lanes -> Seq(Samples)]
    BY <2>1, <2>2
  <2>4. Adds(K)
    BY <2>1, <2>2 DEF Adds
  <2> QED BY <2>3, <2>4
<1> QED BY <1>2, <1>3

LEMMA AddsNothing ==
  ASSUME pushed \in [Lanes -> Seq(Samples)], NEW K, pushed' = pushed
  PROVE  Adds(K)
<1>1. \A l \in Lanes : pushed'[l] = pushed[l] \o <<>> /\ <<>> \in Seq(SamplesOf(K))
  OBVIOUS
<1> QED BY <1>1 DEF Adds

-----------------------------------------------------------------------------
(* What the signals of a source do                                         *)

LEMMA EmptiedGives ==
  ASSUME NEW K, NEW d \in DemuxesOf(K)
  PROVE  [d EXCEPT !.samples = <<>>] \in DemuxesOf(K)
<1>1. \A e \in Seq(SamplesOf(K)) : [d EXCEPT !.samples = e] \in DemuxesOf(K)
  BY DEF DemuxesOf
<1>2. <<>> \in Seq(SamplesOf(K))
  OBVIOUS
<1> QED BY <1>1, <1>2

LEMMA HeldGives ==
  ASSUME NEW K, NEW h \in [Lanes -> Seq(SamplesOf(K))], NEW d \in [Lanes -> DemuxesOf(K)]
  PROVE  /\ [k \in Lanes |-> h[k] \o d[k].samples] \in [Lanes -> Seq(SamplesOf(K))]
         /\ [k \in Lanes |-> [d[k] EXCEPT !.samples = <<>>]] \in [Lanes -> DemuxesOf(K)]
         /\ Both(<<>>) \in [Lanes -> Seq(SamplesOf(K))]
<1>1. \A k \in Lanes : h[k] \o d[k].samples \in Seq(SamplesOf(K))
  BY DEF DemuxesOf
<1>2. \A k \in Lanes : [d[k] EXCEPT !.samples = <<>>] \in DemuxesOf(K)
  BY EmptiedGives
<1>3. Both(<<>>) \in [Lanes -> Seq(SamplesOf(K))]
  BY DEF Both
<1> QED BY <1>1, <1>2, <1>3

\* drainSamples(): p and d are the members the handler has come to.
LEMMA DrainKeeps ==
  ASSUME NEW K, K \subseteq Sessions, Handling(K), NEW p \in Pumps,
         NEW d \in [Lanes -> DemuxesOf(K)], NEW l \in Lanes, NEW more, more \subseteq Lanes,
         Drain(p, d, l, more)
  PROVE  /\ pump' \in Pumps /\ pump'.dual = p.dual
         /\ demux' \in [Lanes -> DemuxesOf(K)] /\ hold' \in [Lanes -> Seq(SamplesOf(K))]
         /\ owed' \subseteq Lanes /\ app' \in [Lanes -> AppSrcs]
         /\ pushed' \in [Lanes -> Seq(Samples)] /\ Adds(K)
<1> DEFINE held == [k \in Lanes |-> hold[k] \o d[k].samples]
           rest == [k \in Lanes |-> [d[k] EXCEPT !.samples = <<>>]]
<1>1. /\ hold \in [Lanes -> Seq(SamplesOf(K))] /\ app \in [Lanes -> AppSrcs]
      /\ pushed \in [Lanes -> Seq(Samples)]
  BY DEF Handling
<1>2. /\ held \in [Lanes -> Seq(SamplesOf(K))] /\ rest \in [Lanes -> DemuxesOf(K)]
      /\ Both(<<>>) \in [Lanes -> Seq(SamplesOf(K))]
  <2>1. held \in [Lanes -> Seq(SamplesOf(K))]
    BY <1>1, HeldGives
  <2>2. rest \in [Lanes -> DemuxesOf(K)]
    BY EmptiedGives
  <2> QED BY <1>1, <2>1, <2>2, HeldGives
<1>3. CASE Buffer(p, d, more)
  BY <1>1, <1>3, AddsNothing DEF Buffer
<1>4. CASE Withhold(p, d, l, more)
  <2>1. /\ hold' = held /\ demux' = rest /\ app' = app /\ pushed' = pushed
        /\ pump' = [p EXCEPT !.reported = @ \/ l = "video"] /\ owed' \subseteq Lanes
    BY <1>4 DEF Withhold
  <2>2. pump' \in Pumps /\ pump'.dual = p.dual
    BY <2>1 DEF Pumps
  <2> QED BY <1>1, <1>2, <2>1, <2>2, AddsNothing
<1>5. CASE Flush(p, d, more)
  <2>1. /\ hold' = Both(<<>>) /\ demux' = rest /\ owed' = more
        /\ Push(held) /\ End(p.eosPending, held)
        /\ pump' = [p EXCEPT !.primed = TRUE, !.reported = FALSE,
                             !.videoDone = @ \/ p.eosPending["video"],
                             !.eosPending = Both(FALSE)]
    BY <1>5 DEF Flush
  <2>2. pump' \in Pumps /\ pump'.dual = p.dual
    BY <2>1 DEF Pumps, Both, Lanes
  <2>3. pushed' \in [Lanes -> Seq(Samples)] /\ Adds(K)
    BY <1>1, <1>2, <2>1, PushAdds
  <2>4. app' \in [Lanes -> AppSrcs]
    BY <1>1, <2>1, EndKeeps
  <2> QED BY <1>2, <2>1, <2>2, <2>3, <2>4
<1> QED BY <1>3, <1>4, <1>5 DEF Drain

LEMMA LetterQueued ==
  ASSUME mail \in Seq(Letters), session \in Sessions, NEW kind \in {"opened", "es"}
  PROVE  Append(mail, [kind |-> kind, session |-> session]) \in Seq(Letters)
<1>1. [kind |-> kind, session |-> session] \in Letters
  BY DEF Letters
<1> QED BY <1>1

\* onVideoOpened(), onAudioOpened()
LEMMA OpenedKeeps ==
  ASSUME NEW K, Handling(K), session \in Sessions, NEW l \in Lanes, OnOpened(l)
  PROVE  Handling(K)' /\ pump'.dual = pump.dual /\ pushed' = pushed
<1>1. pump' \in Pumps /\ pump'.dual = pump.dual
  <2>1. pump' = [pump EXCEPT !.open[l] = @ \/ pump.dual] /\ pump \in Pumps
    BY DEF OnOpened, Handling
  <2> QED BY <2>1 DEF Pumps
<1>2. mail' \in Seq(Letters)
  BY LetterQueued DEF OnOpened, Handling
<1>3. owed' \subseteq Lanes
  BY DEF OnOpened
<1>4. UNCHANGED <<demux, hold, broken, app, pushed>>
  BY DEF OnOpened
<1> QED BY <1>1, <1>2, <1>3, <1>4 DEF Handling

\* onVideoFinished(), onAudioFinished()
LEMMA FinishedKeeps ==
  ASSUME NEW K, K \subseteq Sessions, Handling(K), NEW l \in Lanes, NEW more,
         more \subseteq Lanes, OnFinished(l, more)
  PROVE  Handling(K)' /\ pump'.dual = pump.dual /\ (IF pump.dual THEN Adds(K) ELSE pushed' = pushed)
<1>1. CASE pump.dual
  <2> DEFINE p == [pump EXCEPT !.eosPending[l] = TRUE]
  <2>1. Drain(p, demux, l, more) /\ UNCHANGED <<broken, mail>>
    BY <1>1 DEF OnFinished
  <2>2. p \in Pumps /\ p.dual = pump.dual
    BY PendingGives DEF Handling
  <2> HIDE DEF p
  <2>3. demux \in [Lanes -> DemuxesOf(K)]
    BY DEF Handling
  <2>4. /\ pump' \in Pumps /\ pump'.dual = p.dual
        /\ demux' \in [Lanes -> DemuxesOf(K)] /\ hold' \in [Lanes -> Seq(SamplesOf(K))]
        /\ owed' \subseteq Lanes /\ app' \in [Lanes -> AppSrcs]
        /\ pushed' \in [Lanes -> Seq(Samples)] /\ Adds(K)
    BY <2>1, <2>2, <2>3, DrainKeeps
  <2> QED BY <1>1, <2>1, <2>2, <2>4 DEF Handling
<1>2. CASE ~pump.dual
  <2>1. /\ End([k \in Lanes |-> k = "video" /\ l = "video"], Both(<<>>))
        /\ owed' = more /\ UNCHANGED <<pump, demux, hold, pushed, broken, mail>>
    BY <1>2 DEF OnFinished
  <2>2. app' \in [Lanes -> AppSrcs]
    BY <2>1, EndKeeps DEF Handling
  <2> QED BY <1>2, <2>1, <2>2 DEF Handling
<1> QED BY <1>1, <1>2

\* onVideoData() of a single stream: the container's bytes go straight on.
LEMMA BytesKeep ==
  ASSUME NEW K, NEW U, U \subseteq Sessions, Handling(K), NEW l \in Lanes,
         NEW w \in BS!Windows(U, FileSize[l]), NEW more, more \subseteq Lanes,
         OnBytes(l, w, more)
  PROVE  /\ Handling(K)' /\ pump'.dual = pump.dual
         /\ IF l = "video" THEN Adds(U) ELSE Adds({})
<1> DEFINE units == [i \in 1..w.n |-> [session |-> w.url, unit |-> w.from + i]]
           raw == [k \in Lanes |-> IF k # l \/ l = "audio" THEN <<>> ELSE units]
<1>1. /\ Push(raw) /\ End(Both(FALSE), raw) /\ owed' = more
      /\ UNCHANGED <<pump, demux, hold, broken, mail>>
  BY DEF OnBytes
<1>2. units \in Seq(SamplesOf(U))
  <2>1. w.n \in Nat
    BY PlanAssumption DEF BS!Windows
  <2>2. \A i \in 1..w.n : [session |-> w.url, unit |-> w.from + i] \in SamplesOf(U)
    BY SizeIs, PlanAssumption DEF BS!Windows, SamplesOf
  <2> QED BY <2>1, <2>2
<1> HIDE DEF units
<1>3. raw \in [Lanes -> Seq(SamplesOf(U))]
  BY <1>2
<1>4. l = "audio" => raw \in [Lanes -> Seq(SamplesOf({}))]
  OBVIOUS
<1> HIDE DEF raw
<1>5. app' \in [Lanes -> AppSrcs]
  BY <1>1, EndKeeps DEF Handling
<1>6. pushed' \in [Lanes -> Seq(Samples)] /\ Adds(U)
  BY <1>1, <1>3, PushAdds DEF Handling
<1>7. l = "audio" => Adds({})
  BY <1>1, <1>4, PushAdds DEF Handling
<1>8. Handling(K)' /\ pump'.dual = pump.dual
  BY <1>1, <1>5, <1>6 DEF Handling
<1> QED BY <1>6, <1>7, <1>8 DEF Lanes

\* onVideoData(), onAudioData() of two streams: what is drained was fed now or
\* kept from before.
LEMMA SamplesKeep ==
  ASSUME NEW K, K \subseteq Sessions, Handling(K), session \in Sessions, NEW l \in Lanes,
         NEW w \in BS!Windows(K, FileSize[l]), NEW more, more \subseteq Lanes,
         OnSamples(l, w, more)
  PROVE  Handling(K)' /\ pump'.dual = pump.dual /\ Adds(K)
<1> DEFINE d == [demux EXCEPT ![l] = Feed(@, l, w)]
<1>1. d \in [Lanes -> DemuxesOf(K)]
  BY FeedGives DEF Handling
<1>2. \/ /\ broken' = TRUE /\ demux' = d /\ owed' = more
         /\ UNCHANGED <<pump, hold, mail, app, pushed>>
      \/ /\ demux' = d /\ owed' = more \cup {l}
         /\ UNCHANGED <<pump, hold, broken, mail, app, pushed>>
      \/ /\ mail' = IF BothReady(pump, d)
                    THEN Append(mail, [kind |-> "es", session |-> session]) ELSE mail
         /\ Drain(EsReady(pump, d), d, l, more)
         /\ UNCHANGED broken
  BY DEF OnSamples
<1> HIDE DEF d
<1>3. CASE /\ broken' = TRUE /\ demux' = d /\ owed' = more
           /\ UNCHANGED <<pump, hold, mail, app, pushed>>
  BY <1>1, <1>3, AddsNothing DEF Handling
<1>4. CASE /\ demux' = d /\ owed' = more \cup {l}
           /\ UNCHANGED <<pump, hold, broken, mail, app, pushed>>
  BY <1>1, <1>4, AddsNothing DEF Handling
<1>5. CASE /\ mail' = IF BothReady(pump, d)
                      THEN Append(mail, [kind |-> "es", session |-> session]) ELSE mail
           /\ Drain(EsReady(pump, d), d, l, more)
           /\ UNCHANGED broken
  <2>1. EsReady(pump, d) \in Pumps /\ EsReady(pump, d).dual = pump.dual
    BY EsReadyGives DEF Handling
  <2>2. mail' \in Seq(Letters)
    BY <1>5, LetterQueued DEF Handling
  <2> DEFINE p == EsReady(pump, d)
  <2> HIDE DEF p
  <2>3. p \in Pumps /\ p.dual = pump.dual /\ Drain(p, d, l, more)
    BY <1>5, <2>1 DEF p
  <2>4. /\ pump' \in Pumps /\ pump'.dual = p.dual
        /\ demux' \in [Lanes -> DemuxesOf(K)] /\ hold' \in [Lanes -> Seq(SamplesOf(K))]
        /\ owed' \subseteq Lanes /\ app' \in [Lanes -> AppSrcs]
        /\ pushed' \in [Lanes -> Seq(Samples)] /\ Adds(K)
    BY <1>1, <2>3, DrainKeeps
  <2>5. broken' \in BOOLEAN
    BY <1>5 DEF Handling
  <2> QED BY <2>2, <2>3, <2>4, <2>5 DEF Handling
<1> QED BY <1>2, <1>3, <1>4, <1>5

LEMMA DataKeeps ==
  ASSUME NEW K, K \subseteq Sessions, NEW U, U \subseteq Sessions, Handling(K),
         session \in Sessions, NEW l \in Lanes, NEW w \in BS!Windows(U, FileSize[l]),
         pump.dual => U = K, NEW more, more \subseteq Lanes, OnData(l, w, more)
  PROVE  /\ Handling(K)' /\ pump'.dual = pump.dual
         /\ IF pump.dual \/ l = "video" THEN Adds(U) ELSE Adds({})
<1>1. CASE OnBytes(l, w, more)
  <2>1. ~pump.dual
    BY <1>1 DEF OnBytes
  <2> QED BY <1>1, <2>1, BytesKeep
<1>2. CASE OnStaleData(l, more)
  <2>1. owed' = more /\ UNCHANGED <<pump, demux, hold, broken, mail, app, pushed>>
    BY <1>2 DEF OnStaleData
  <2>2. Adds(U) /\ Adds({})
    BY <2>1, AddsNothing DEF Handling
  <2> QED BY <2>1, <2>2 DEF Handling
<1>3. CASE OnSamples(l, w, more)
  <2>1. pump.dual
    BY <1>3 DEF OnSamples
  <2>2. U = K
    BY <2>1
  <2>3. Handling(K)' /\ pump'.dual = pump.dual /\ Adds(K)
    BY <1>3, <2>2, SamplesKeep
  <2> QED BY <2>1, <2>2, <2>3
<1> QED BY <1>1, <1>2, <1>3 DEF OnData

-----------------------------------------------------------------------------
(* The steps of the media thread                                           *)

\* What a step adds is of the session that is played, or the pipeline was
\* emptied.
PureStep == Adds(Here) \/ pushed' = Both(<<>>)

LEMMA AddsMore ==
  ASSUME NEW K, NEW L, K \subseteq L, Adds(K)
  PROVE  Adds(L)
BY SamplesWithin DEF Adds

LEMMA UrlsAre ==
  ASSUME Commanding, NEW l \in Lanes
  PROVE  /\ Here \subseteq Sessions /\ Past \subseteq Sessions
         /\ UrlsOf(l) \subseteq Sessions /\ Kept \subseteq Sessions
         /\ UrlsOf(l) # {} => session \in Sessions
         /\ pump.dual => UrlsOf(l) = Kept
         /\ l = "video" \/ pump.dual => UrlsOf(l) = Here
BY SessionsAre DEF Commanding, UrlsOf, Kept, Here, Past

\* A step within a session, of which the handlers kept what they change.
LEMMA WithinSession ==
  ASSUME PumpInv, NEW K, K = Kept, Handling(K)', pump'.dual = pump.dual,
         session' = session, Commanding', SourcesInv'
  PROVE  PumpInv'
<1>1. Kept' = Kept
  BY DEF Kept, Here, Past
<1>2. Handling(Kept)'
  BY <1>1 DEF Handling
<1>3. DualInv'
  BY DEF PumpInv, DualInv
<1> QED BY <1>2, <1>3 DEF PumpInv

LEMMA SourceKept ==
  ASSUME SourcesInv, NEW l \in Lanes, NEW t \in BS!Sources(UrlsOf(l), FileSize[l]),
         src' = [src EXCEPT ![l] = t], pump'.dual = pump.dual, session' = session
  PROVE  SourcesInv'
<1>1. \A k \in Lanes : UrlsOf(k)' = UrlsOf(k)
  BY DEF UrlsOf, Here, Past
<1>2. \A k \in Lanes : src'[k] \in BS!Sources(UrlsOf(k), FileSize[k])
  BY DEF SourcesInv
<1>3. src' \in [Lanes -> {src'["video"], src'["audio"]}]
  BY DEF SourcesInv, Lanes
<1> QED BY <1>1, <1>2, <1>3 DEF SourcesInv

LEMMA SourcesKept ==
  ASSUME SourcesInv, src' = src, pump'.dual = pump.dual, session' = session
  PROVE  SourcesInv'
<1>1. \A k \in Lanes : UrlsOf(k)' = UrlsOf(k)
  BY DEF UrlsOf, Here, Past
<1> QED BY <1>1 DEF SourcesInv

LEMMA CommandingKept ==
  ASSUME Commanding, UNCHANGED <<session, gui, seeking, wanted, anchored, used, caps>>,
         unwind' \subseteq Lanes
  PROVE  Commanding'
BY DEF Commanding

\* onWindowFinished() of a source that is s by now.
LEMMA PureWindow ==
  ASSUME PumpInv, NEW l \in Lanes, NEW s \in BS!Sources(UrlsOf(l), FileSize[l]),
         s.reply # NoReply, NEW n \in 0..Window, s.offset + n <= FileSize[l],
         WindowOf(l, s, n), UNCHANGED <<session, gui, seeking, wanted, anchored, used, caps>>
  PROVE  PumpInv' /\ PureStep
<1> PICK K : K = Kept
  OBVIOUS
<1> PICK U : U = UrlsOf(l)
  OBVIOUS
<1>1. /\ Handling(K) /\ Commanding /\ SourcesInv /\ K \subseteq Sessions /\ U \subseteq Sessions
      /\ pump.dual => U = K
      /\ l = "video" \/ pump.dual => U = Here
  BY UrlsAre DEF PumpInv
<1>2. s \in BS!Sources(U, FileSize[l]) /\ FileSize[l] \in Nat
  BY SizeIs
<1>3. session \in Sessions
  <2>1. s.reply.url \in U
    BY <1>2 DEF BS!Sources, BS!Replies
  <2> QED BY <1>1, <2>1, UrlsAre
<1>4. BS!Landed(s, n) \in BS!Sources(U, FileSize[l])
  BY <1>2, LandedFits
<1>5. src' = [src EXCEPT ![l] = BS!Landed(s, n)] /\ unwind' \subseteq Lanes
  BY DEF WindowOf
<1>6. Commanding'
  BY <1>1, <1>5, CommandingKept
<1>7. Handling(K)' /\ pump'.dual = pump.dual /\ PureStep
  <2>1. CASE n = 0 /\ s.waiting /\ OnFinished(l, {})
    <3>1. Handling(K)' /\ pump'.dual = pump.dual /\ (IF pump.dual THEN Adds(K) ELSE pushed' = pushed)
      BY <1>1, <2>1, FinishedKeeps
    <3>2. Adds(Here)
      BY <1>1, <3>1, AddsNothing DEF Handling
    <3> QED BY <3>1, <3>2 DEF PureStep
  <2>2. CASE n > 0 /\ s.waiting /\ OnData(l, BS!Brought(s, n), {})
    <3> DEFINE w == BS!Brought(s, n)
    <3>0. w \in BS!Windows(U, FileSize[l])
      BY <1>2, <2>2, BroughtFits, PlanAssumption
    <3> HIDE DEF w
    <3>1. OnData(l, w, {}) /\ {} \subseteq Lanes
      BY <2>2 DEF w
    <3>2. /\ Handling(K)' /\ pump'.dual = pump.dual
          /\ IF pump.dual \/ l = "video" THEN Adds(U) ELSE Adds({})
      BY <1>1, <1>3, <3>0, <3>1, DataKeeps
    <3>3. Adds(Here)
      BY <1>1, <3>2, AddsMore
    <3> QED BY <3>2, <3>3 DEF PureStep
  <2>3. CASE ~s.waiting /\ UNCHANGED <<pump, demux, hold, owed, broken, mail, app, pushed>>
    <3>1. Adds(Here)
      BY <1>1, <2>3, AddsNothing DEF Handling
    <3> QED BY <1>1, <2>3, <3>1 DEF Handling, PureStep
  <2> QED BY <2>1, <2>2, <2>3 DEF WindowOf
<1>8. SourcesInv'
  BY <1>1, <1>4, <1>5, <1>7, SourceKept
<1> QED BY <1>6, <1>7, <1>8, WithinSession

\* onProbeFinished() of a source that is s by now.
LEMMA PureProbe ==
  ASSUME PumpInv, NEW l \in Lanes, NEW s \in BS!Sources(UrlsOf(l), FileSize[l]),
         s.reply # NoReply, NEW n \in 0..Window, s.offset + n <= FileSize[l],
         NEW ranged \in BOOLEAN,
         src' = [src EXCEPT ![l] = BS!Probed(s, n, ranged)], unwind' = {l}, OnOpened(l),
         UNCHANGED <<session, gui, seeking, wanted, anchored, used, caps>>
  PROVE  PumpInv' /\ PureStep
<1> PICK K : K = Kept
  OBVIOUS
<1> PICK U : U = UrlsOf(l)
  OBVIOUS
<1>1. Handling(K) /\ Commanding /\ SourcesInv
  BY DEF PumpInv
<1>2. s \in BS!Sources(U, FileSize[l]) /\ FileSize[l] \in Nat
  BY SizeIs
<1>3. session \in Sessions
  <2>1. s.reply.url \in U
    BY <1>2 DEF BS!Sources, BS!Replies
  <2> QED BY <1>1, <2>1, UrlsAre
<1>4. BS!Probed(s, n, ranged) \in BS!Sources(U, FileSize[l])
  BY <1>2, ProbedFits
<1>5. Commanding'
  BY <1>1, CommandingKept
<1>6. Handling(K)' /\ pump'.dual = pump.dual /\ pushed' = pushed
  BY <1>1, <1>3, OpenedKeeps
<1>7. PureStep
  BY <1>1, <1>6, AddsNothing DEF PureStep, Handling
<1>8. SourcesInv'
  BY <1>1, <1>4, <1>6, SourceKept
<1> QED BY <1>5, <1>6, <1>7, <1>8, WithinSession

\* A step that only moves one source on.
LEMMA PureSource ==
  ASSUME PumpInv, NEW l \in Lanes, NEW t \in BS!Sources(UrlsOf(l), FileSize[l]),
         src' = [src EXCEPT ![l] = t], owed' \subseteq Lanes, unwind' \subseteq Lanes,
         broken' \in BOOLEAN, UNCHANGED <<pump, demux, hold, guiVars, pipeVars>>
  PROVE  PumpInv' /\ PureStep
<1> PICK K : K = Kept
  OBVIOUS
<1>1. Handling(K) /\ Commanding /\ SourcesInv
  BY DEF PumpInv
<1>2. UNCHANGED <<pump, demux, hold, session, gui, mail, seeking, wanted, anchored, used,
                  app, caps, pushed>>
  BY DEF guiVars, pipeVars
<1>3. Handling(K)' /\ Commanding'
  BY <1>1, <1>2 DEF Handling, Commanding
<1>4. SourcesInv'
  BY <1>1, <1>2, SourceKept
<1>5. PureStep
  BY <1>1, <1>2, AddsNothing DEF PureStep, Handling
<1> QED BY <1>2, <1>3, <1>4, <1>5, WithinSession

LEMMA AnswerFits ==
  ASSUME SourcesInv, NEW l \in Lanes
  PROVE  /\ BS!Answered(src[l], FileSize[l]) \in 0..Window
         /\ src[l].offset + BS!Answered(src[l], FileSize[l]) <= FileSize[l]
         /\ src[l] \in BS!Sources(UrlsOf(l), FileSize[l])
BY AnsweredIs, SizeIs DEF SourcesInv

LEMMA PureProbeLands ==
  ASSUME PumpInv, NEW l \in Lanes, NEW ranged \in Ranged, ProbeLands(l, ranged)
  PROVE  PumpInv' /\ PureStep
<1> DEFINE n == BS!Answered(src[l], FileSize[l])
<1>1. /\ n \in 0..Window /\ src[l].offset + n <= FileSize[l]
      /\ src[l] \in BS!Sources(UrlsOf(l), FileSize[l])
  BY AnswerFits DEF PumpInv
<1>2. src' = [src EXCEPT ![l] = BS!Probed(src[l], n, ranged)]
  BY DEF ProbeLands
<1> HIDE DEF n
<1>3. /\ src[l].reply # NoReply /\ unwind' = {l} /\ OnOpened(l)
      /\ UNCHANGED <<session, gui, seeking, wanted, anchored, used, caps>>
  BY DEF ProbeLands
<1>4. ranged \in BOOLEAN
  BY BoundsAssumption
<1> QED BY <1>1, <1>2, <1>3, <1>4, PureProbe

LEMMA PureWindowLands ==
  ASSUME PumpInv, NEW l \in Lanes, WindowLands(l)
  PROVE  PumpInv' /\ PureStep
<1> DEFINE n == BS!Answered(src[l], FileSize[l])
<1>1. /\ n \in 0..Window /\ src[l].offset + n <= FileSize[l]
      /\ src[l] \in BS!Sources(UrlsOf(l), FileSize[l])
  BY AnswerFits DEF PumpInv
<1>2. WindowOf(l, src[l], n)
  BY DEF WindowLands
<1> HIDE DEF n
<1>3. /\ src[l].reply # NoReply
      /\ UNCHANGED <<session, gui, seeking, wanted, anchored, used, caps>>
  BY DEF WindowLands
<1> QED BY <1>1, <1>2, <1>3, PureWindow

LEMMA PureFetchFails ==
  ASSUME PumpInv, NEW l \in Lanes, FetchFails(l)
  PROVE  PumpInv' /\ PureStep
<1>1. /\ src' = [src EXCEPT ![l] = [src[l] EXCEPT !.reply = NoReply]]
      /\ UNCHANGED <<pump, demux, hold, owed, unwind, guiVars, pipeVars>>
      /\ broken' \in BOOLEAN
  BY DEF FetchFails, PumpInv, SourcesInv
<1>2. [src[l] EXCEPT !.reply = NoReply] \in BS!Sources(UrlsOf(l), FileSize[l])
  BY DEF PumpInv, SourcesInv, BS!Sources
<1>3. owed' \subseteq Lanes /\ unwind' \subseteq Lanes
  BY <1>1 DEF PumpInv, Handling, Commanding
<1> QED BY <1>1, <1>2, <1>3, PureSource

LEMMA PureStrayLands ==
  ASSUME PumpInv, NEW l \in Lanes, NEW slot \in BS!Slots, NEW n \in 0..Window,
         StrayLands(l, slot, n)
  PROVE  PumpInv' /\ PureStep
<1> DEFINE s == [src[l] EXCEPT !.stray = @ \ {slot}]
<1>1. /\ src[l] \in BS!Sources(UrlsOf(l), FileSize[l])
      /\ src[l].offset + n <= FileSize[l] /\ src[l].reply # NoReply
  <2>1. n <= BS!Answered(src[l], FileSize[l]) /\ src[l].reply # NoReply
    BY DEF StrayLands
  <2>2. /\ src[l] \in BS!Sources(UrlsOf(l), FileSize[l])
        /\ src[l].offset + BS!Answered(src[l], FileSize[l]) <= FileSize[l]
        /\ BS!Answered(src[l], FileSize[l]) \in 0..Window
    BY AnswerFits DEF PumpInv
  <2>3. src[l].offset \in Nat /\ FileSize[l] \in Nat /\ Window \in Nat
    BY <2>2, SizeIs, PlanAssumption DEF BS!Sources
  <2> QED BY <2>1, <2>2, <2>3
<1>2. /\ s \in BS!Sources(UrlsOf(l), FileSize[l]) /\ s.reply = src[l].reply
      /\ s.offset = src[l].offset
  BY <1>1 DEF BS!Sources
<1>3. /\ UNCHANGED <<session, gui, seeking, wanted, anchored, used, caps>>
      /\ \/ /\ src' = [src EXCEPT ![l] = BS!Probed(s, n, FALSE)]
            /\ unwind' = {l} /\ OnOpened(l)
         \/ WindowOf(l, s, n)
  BY DEF StrayLands
<1> HIDE DEF s
<1>4. s.reply # NoReply /\ s.offset + n <= FileSize[l]
  BY <1>1, <1>2
<1>5. CASE src' = [src EXCEPT ![l] = BS!Probed(s, n, FALSE)] /\ unwind' = {l} /\ OnOpened(l)
  <2>1. PICK ranged \in BOOLEAN : ranged = FALSE
    OBVIOUS
  <2>2. src' = [src EXCEPT ![l] = BS!Probed(s, n, ranged)]
    BY <1>5, <2>1
  <2> QED BY <1>2, <1>3, <1>4, <1>5, <2>2, PureProbe
<1>6. CASE WindowOf(l, s, n)
  BY <1>2, <1>3, <1>4, <1>6, PureWindow
<1> QED BY <1>3, <1>5, <1>6

LEMMA PureUnwind ==
  ASSUME PumpInv, NEW l \in Lanes, Unwind(l)
  PROVE  PumpInv' /\ PureStep
<1>1. /\ src' = [src EXCEPT ![l] = BS!TopUp(src[l], FileSize[l])]
      /\ unwind' = unwind \ {l}
      /\ UNCHANGED <<pump, demux, hold, owed, broken, guiVars, pipeVars>>
  BY DEF Unwind, PumpInv, SourcesInv
<1>2. BS!TopUp(src[l], FileSize[l]) \in BS!Sources(UrlsOf(l), FileSize[l])
  BY TopUpFits DEF PumpInv, SourcesInv
<1>3. owed' \subseteq Lanes /\ unwind' \subseteq Lanes /\ broken' \in BOOLEAN
  BY <1>1 DEF PumpInv, Handling, Commanding
<1> QED BY <1>1, <1>2, <1>3, PureSource

\* requestData(), from inside the handler that owes it.
LEMMA PureServe ==
  ASSUME PumpInv, NEW l \in Lanes, Serve(l)
  PROVE  PumpInv' /\ PureStep
<1> PICK K : K = Kept
  OBVIOUS
<1> PICK U : U = UrlsOf(l)
  OBVIOUS
<1> PICK s : s = src[l]
  OBVIOUS
<1> DEFINE more == owed \ {l}
<1>1. /\ Handling(K) /\ Commanding /\ SourcesInv /\ K \subseteq Sessions /\ U \subseteq Sessions
      /\ pump.dual => U = K
      /\ l = "video" \/ pump.dual => U = Here
  BY UrlsAre DEF PumpInv
<1>2. s \in BS!Sources(U, FileSize[l]) /\ FileSize[l] \in Nat
  BY <1>1, SizeIs DEF SourcesInv
<1>3. /\ UNCHANGED <<session, gui, seeking, wanted, anchored, used, caps>>
      /\ more \subseteq Lanes
  BY <1>1 DEF Serve, Handling
<1>4. \/ /\ owed' = more
         /\ UNCHANGED <<src, unwind, pump, demux, hold, broken, mail, app, pushed>>
      \/ /\ s.ready # <<>> /\ src' = [src EXCEPT ![l].ready = Tail(@)]
         /\ OnData(l, Head(s.ready), more) /\ unwind' = unwind \cup {l}
      \/ OnFinished(l, more) /\ UNCHANGED <<src, unwind>>
      \/ /\ src' = [src EXCEPT ![l] = BS!Wait(s, FileSize[l])] /\ owed' = more
         /\ UNCHANGED <<unwind, pump, demux, hold, broken, mail, app, pushed>>
  BY <1>1 DEF Serve, Request, SourcesInv
<1> HIDE DEF more
<1>5. unwind' \subseteq Lanes
  BY <1>1, <1>4 DEF Commanding
<1>6. Commanding'
  BY <1>1, <1>3, <1>5, CommandingKept
<1>7. CASE /\ owed' = more
           /\ UNCHANGED <<src, unwind, pump, demux, hold, broken, mail, app, pushed>>
  <2>1. Handling(K)' /\ SourcesInv'
    BY <1>1, <1>3, <1>7, SourcesKept DEF Handling
  <2>2. PureStep
    BY <1>1, <1>7, AddsNothing DEF PureStep, Handling
  <2> QED BY <1>3, <1>6, <1>7, <2>1, <2>2, WithinSession
<1>8. CASE /\ s.ready # <<>> /\ src' = [src EXCEPT ![l].ready = Tail(@)]
           /\ OnData(l, Head(s.ready), more) /\ unwind' = unwind \cup {l}
  <2>1. /\ Head(s.ready) \in BS!Windows(U, FileSize[l])
        /\ Tail(s.ready) \in Seq(BS!Windows(U, FileSize[l]))
    <3>1. s.ready \in Seq(BS!Windows(U, FileSize[l]))
      BY <1>2 DEF BS!Sources
    <3>2. s.ready # <<>>
      BY <1>8
    <3> QED BY <3>1, <3>2, HeadTailProperties
  <2>2. session \in Sessions
    <3>1. Head(s.ready).url \in U
      BY <2>1 DEF BS!Windows
    <3> QED BY <1>1, <3>1, UrlsAre
  <2>3. /\ Handling(K)' /\ pump'.dual = pump.dual
        /\ IF pump.dual \/ l = "video" THEN Adds(U) ELSE Adds({})
    BY <1>1, <1>3, <1>8, <2>1, <2>2, DataKeeps
  <2>4. PureStep
    BY <1>1, <2>3, AddsMore DEF PureStep
  <2>5. [s EXCEPT !.ready = Tail(s.ready)] \in BS!Sources(U, FileSize[l])
    BY <1>2, <2>1 DEF BS!Sources
  <2>6. src' = [src EXCEPT ![l] = [s EXCEPT !.ready = Tail(s.ready)]]
    BY <1>8
  <2>7. SourcesInv'
    BY <1>1, <1>3, <2>3, <2>5, <2>6, SourceKept
  <2> QED BY <1>3, <1>6, <2>3, <2>4, <2>7, WithinSession
<1>9. CASE OnFinished(l, more) /\ UNCHANGED <<src, unwind>>
  <2>1. /\ Handling(K)' /\ pump'.dual = pump.dual
        /\ (IF pump.dual THEN Adds(K) ELSE pushed' = pushed)
    BY <1>1, <1>3, <1>9, FinishedKeeps
  <2>2. PureStep
    BY <1>1, <2>1, AddsNothing DEF PureStep, Handling
  <2>3. SourcesInv'
    BY <1>1, <1>3, <1>9, <2>1, SourcesKept
  <2> QED BY <1>3, <1>6, <2>1, <2>2, <2>3, WithinSession
<1>10. CASE /\ src' = [src EXCEPT ![l] = BS!Wait(s, FileSize[l])] /\ owed' = more
            /\ UNCHANGED <<unwind, pump, demux, hold, broken, mail, app, pushed>>
  <2>1. BS!Wait(s, FileSize[l]) \in BS!Sources(U, FileSize[l])
    BY <1>2, WaitFits
  <2>2. SourcesInv'
    BY <1>1, <1>3, <1>10, <2>1, SourceKept
  <2>3. Handling(K)'
    BY <1>1, <1>3, <1>10 DEF Handling
  <2>4. PureStep
    BY <1>1, <1>10, AddsNothing DEF PureStep, Handling
  <2> QED BY <1>3, <1>6, <1>10, <2>2, <2>3, <2>4, WithinSession
<1> QED BY <1>4, <1>7, <1>8, <1>9, <1>10

-----------------------------------------------------------------------------
(* The steps of the GUI thread and of the pipeline                         *)

\* An esReady is taken for the session it is read in, and is one of two streams.
\* The comment at streamplayer.cpp:295 says the test of the state sees to it; it
\* does not when the player is loading something else by then.
NoStaleEs ==
  session \in Sessions /\ gui = "loading" /\ mail # <<>> /\ Head(mail).kind = "es" =>
    DualSession[session]

LEMMA SourcesWithin ==
  ASSUME NEW U, NEW V, U \subseteq V, NEW size
  PROVE  BS!Sources(U, size) \subseteq BS!Sources(V, size)
<1>1. BS!Windows(U, size) \subseteq BS!Windows(V, size)
  BY DEF BS!Windows
<1>2. Seq(BS!Windows(U, size)) \subseteq Seq(BS!Windows(V, size))
  BY <1>1
<1>3. BS!Replies(U, size) \subseteq BS!Replies(V, size)
  BY DEF BS!Replies
<1> QED BY <1>2, <1>3 DEF BS!Sources

LEMMA DemuxesWithin ==
  ASSUME NEW K, NEW L, K \subseteq L
  PROVE  DemuxesOf(K) \subseteq DemuxesOf(L)
BY SamplesWithin DEF DemuxesOf

LEMMA NewDemuxes ==
  ASSUME NEW K
  PROVE  /\ Both(NewDemux) \in [Lanes -> DemuxesOf(K)]
         /\ Both(<<>>) \in [Lanes -> Seq(SamplesOf(K))]
<1>1. NewDemux \in DemuxesOf(K)
  <2>1. \A e \in Seq(SamplesOf(K)) :
          [next |-> 0, header |-> FALSE, samples |-> e, failed |-> FALSE] \in DemuxesOf(K)
    BY DEF DemuxesOf
  <2>2. <<>> \in Seq(SamplesOf(K))
    OBVIOUS
  <2> QED BY <2>1, <2>2 DEF NewDemux
<1> QED BY <1>1 DEF Both

LEMMA NewApp ==
  /\ Both(NewAppSrc) \in [Lanes -> AppSrcs]
  /\ app \in [Lanes -> AppSrcs] =>
       [l \in Lanes |-> [NewAppSrc EXCEPT !.asked = app[l].asked]] \in [Lanes -> AppSrcs]
  /\ Both(<<>>) \in [Lanes -> Seq(Samples)]
BY DEF Both, NewAppSrc, AppSrcs

LEMMA LetterRead ==
  ASSUME mail \in Seq(Letters), mail # <<>>
  PROVE  Head(mail).session \in Sessions /\ Tail(mail) \in Seq(Letters)
<1>1. Head(mail) \in Letters /\ Tail(mail) \in Seq(Letters)
  BY HeadTailProperties
<1> QED BY <1>1 DEF Letters

LEMMA PureInit == Init => PumpInv
<1> SUFFICES ASSUME Init PROVE PumpInv
  OBVIOUS
<1>1. /\ Here = {} /\ Past = {} /\ Kept = {} /\ \A l \in Lanes : UrlsOf(l) = {}
  BY DEF Init, Here, Past, Kept, UrlsOf
<1>2. pump \in Pumps /\ pump.dual = FALSE
  BY DEF Init, Pumps, Both
<1>3. Handling({})
  <2>1. /\ demux = Both(NewDemux) /\ hold = Both(<<>>) /\ owed = {} /\ broken = FALSE
        /\ mail = <<>> /\ app = Both(NewAppSrc) /\ pushed = Both(<<>>)
    BY DEF Init
  <2>2. mail \in Seq(Letters) /\ broken \in BOOLEAN
    <3>1. <<>> \in Seq(Letters)
      OBVIOUS
    <3>2. mail = <<>> /\ broken \in BOOLEAN
      BY DEF Init
    <3> QED BY <3>1, <3>2
  <2>3. demux \in [Lanes -> DemuxesOf({})] /\ hold \in [Lanes -> Seq(SamplesOf({}))]
    BY <2>1, NewDemuxes
  <2>4. app \in [Lanes -> AppSrcs] /\ pushed \in [Lanes -> Seq(Samples)]
    BY <2>1, NewApp
  <2> QED BY <1>2, <2>1, <2>2, <2>3, <2>4 DEF Handling
<1>4. Commanding
  BY BoundsAssumption DEF Init, Commanding
<1>5. SourcesInv
  <2>1. \A l \in Lanes : src[l] = BS!NewSource
    BY DEF Init, Both
  <2>2. \A size \in Nat : BS!NewSource \in BS!Sources({}, size)
    <3>1. \A size \in Nat : \A e \in Seq(BS!Windows({}, size)) :
            [url |-> 0, ranged |-> FALSE, offset |-> 0, eof |-> FALSE, waiting |-> FALSE,
             ready |-> e, reply |-> NoReply, stray |-> {}] \in BS!Sources({}, size)
      BY DEF BS!Sources
    <3>2. \A size \in Nat : <<>> \in Seq(BS!Windows({}, size))
      OBVIOUS
    <3> QED BY <3>1, <3>2 DEF BS!NewSource
  <2>3. src \in [Lanes -> {src["video"], src["audio"]}]
    BY DEF Init, Both, Lanes
  <2> QED BY <1>1, <2>1, <2>2, <2>3, SizeIs DEF SourcesInv
<1>6. DualInv
  BY <1>2 DEF Init, DualInv
<1> QED BY <1>1, <1>3, <1>4, <1>5, <1>6 DEF PumpInv

LEMMA PureStop ==
  ASSUME PumpInv, Stop
  PROVE  PumpInv' /\ PureStep
<1> PICK K : K = Kept
  OBVIOUS
<1>1. Handling(K) /\ Commanding /\ SourcesInv
  BY DEF PumpInv
<1>2. /\ src' = [l \in Lanes |-> BS!Close(src[l])] /\ hold' = Both(<<>>)
      /\ pump' = Rearm(Reset([pump EXCEPT !.lastSeek = NoSeek, !.videoDone = FALSE]))
      /\ caps' = 0 /\ pushed' = Both(<<>>)
      /\ app' = [l \in Lanes |-> [NewAppSrc EXCEPT !.asked = app[l].asked]]
      /\ UNCHANGED <<demux, owed, unwind, broken, session, mail, wanted, anchored>>
  BY DEF Stop, CloseAll, Teardown
<1>3. pump' \in Pumps /\ pump'.dual = pump.dual
  <2> DEFINE p == [pump EXCEPT !.lastSeek = NoSeek, !.videoDone = FALSE]
  <2>1. p \in Pumps /\ p.dual = pump.dual
    BY <1>1 DEF Handling, Pumps
  <2>2. pump' = Rearm(Reset(p))
    BY <1>2
  <2> HIDE DEF p
  <2> QED BY <2>1, <2>2, ResetGives, RearmGives
<1>4. Handling(K)'
  BY <1>1, <1>2, <1>3, NewDemuxes, NewApp DEF Handling
<1>5. used' \in [seeks : 0..MaxSeeks, releases : 0..MaxReleases, stops : 0..MaxStops]
  <2>1. used' = [used EXCEPT !.stops = @ + 1] /\ used.stops < MaxStops
    BY DEF Stop
  <2> QED BY <1>1, <2>1, BoundsAssumption DEF Commanding
<1>6. Commanding'
  BY <1>1, <1>2, <1>5 DEF Stop, Commanding
<1>7. SourcesInv'
  <2>1. \A l \in Lanes : src'[l] = BS!Close(src[l]) /\ src[l] \in BS!Sources(UrlsOf(l), FileSize[l])
    BY <1>1, <1>2 DEF SourcesInv
  <2>2. \A l \in Lanes : src'[l] \in BS!Sources(UrlsOf(l), FileSize[l])
    BY <2>1, CloseFits
  <2>3. \A l \in Lanes : UrlsOf(l)' = UrlsOf(l)
    BY <1>2, <1>3 DEF UrlsOf, Here, Past
  <2>4. src' \in [Lanes -> {src'["video"], src'["audio"]}]
    BY <1>2 DEF Lanes
  <2> QED BY <2>2, <2>3, <2>4 DEF SourcesInv
<1>8. session' = session /\ PureStep
  BY <1>2 DEF PureStep
<1> QED BY <1>3, <1>4, <1>6, <1>7, <1>8, WithinSession

\* A url opened on a source belongs to the new session, whatever it held.
LEMMA ReopenFits ==
  ASSUME NEW l \in Lanes, NEW U, NEW s \in BS!Sources(U, FileSize[l]), NEW url
  PROVE  /\ BS!Open(BS!Close(s), url) \in BS!Sources({url}, FileSize[l])
         /\ BS!Open(s, url) \in BS!Sources({url}, FileSize[l])
<1>1. BS!Close(s) \in BS!Sources(U, FileSize[l])
  BY CloseFits
<1> QED BY <1>1, OpenFits, SizeIs

\* The GUI's side of a new session.
LEMMA StartCommands ==
  ASSUME Commanding, Start
  PROVE  /\ Commanding' /\ session' = session + 1 /\ session \in Nat
         /\ session' \in Sessions /\ Here' = {session'} /\ Past' = 1..session'
         /\ Past \subseteq Past' /\ Here \subseteq Past
         /\ UNCHANGED <<owed, unwind, mail, used, pipeVars>> /\ broken' = FALSE
<1>1. /\ session' = session + 1 /\ session + 1 \in Sessions /\ gui' = "loading"
      /\ seeking' = NoSeek /\ wanted' = NoSeek /\ anchored' = NoSeek
      /\ broken' = FALSE /\ UNCHANGED <<owed, unwind, mail, used, pipeVars>>
  BY DEF Start
<1>2. session \in Nat
  BY SessionsAre DEF Commanding
<1>3. Commanding'
  BY <1>1 DEF Commanding, pipeVars
<1> QED BY <1>1, <1>2, <1>3 DEF Here, Past

LEMMA PureStartDual ==
  ASSUME PumpInv, Start, DualSession[session']
  PROVE  PumpInv' /\ PureStep
<1>1. /\ Commanding' /\ session' = session + 1 /\ session \in Nat
      /\ session' \in Sessions /\ Here' = {session'}
      /\ UNCHANGED <<owed, unwind, mail, used, pipeVars>> /\ broken' = FALSE
  BY StartCommands DEF PumpInv
<1>2. /\ pump' = Rearm(Reset([pump EXCEPT !.dual = TRUE, !.lastSeek = NoSeek,
                                          !.videoDone = FALSE]))
      /\ demux' = Both(NewDemux) /\ hold' = Both(<<>>)
      /\ src' = [src EXCEPT !["video"] = BS!Open(BS!Close(@), session'),
                            !["audio"] = BS!Open(@, session')]
  BY DEF Start, OpenDual
<1>3. pump' \in Pumps /\ pump'.dual = TRUE
  <2> DEFINE p == [pump EXCEPT !.dual = TRUE, !.lastSeek = NoSeek, !.videoDone = FALSE]
  <2>1. p \in Pumps /\ p.dual = TRUE
    BY DEF PumpInv, Handling, Pumps
  <2>2. pump' = Rearm(Reset(p))
    BY <1>2
  <2> HIDE DEF p
  <2> QED BY <2>1, <2>2, ResetGives, RearmGives
<1>4. Kept' = Here' /\ \A l \in Lanes : UrlsOf(l)' = Here'
  BY <1>3 DEF Kept, UrlsOf
<1>5. Handling(Kept)'
  <2>1. demux' \in [Lanes -> DemuxesOf(Kept')] /\ hold' \in [Lanes -> Seq(SamplesOf(Kept'))]
    BY <1>2, NewDemuxes
  <2>2. UNCHANGED <<owed, mail, app, pushed>> /\ broken' \in BOOLEAN
    BY <1>1 DEF pipeVars
  <2> QED BY <1>3, <2>1, <2>2 DEF PumpInv, Handling
<1>6. SourcesInv'
  <2>1. /\ src["video"] \in BS!Sources(UrlsOf("video"), FileSize["video"])
        /\ src["audio"] \in BS!Sources(UrlsOf("audio"), FileSize["audio"])
        /\ src \in [Lanes -> {src["video"], src["audio"]}]
    BY DEF PumpInv, SourcesInv, Lanes
  <2>2. /\ src'["video"] = BS!Open(BS!Close(src["video"]), session')
        /\ src'["audio"] = BS!Open(src["audio"], session')
        /\ src' \in [Lanes -> {src'["video"], src'["audio"]}]
    BY <1>2, <2>1 DEF Lanes
  <2>3. src'["video"] \in BS!Sources({session'}, FileSize["video"])
    BY <2>1, <2>2, ReopenFits DEF Lanes
  <2>4. src'["audio"] \in BS!Sources({session'}, FileSize["audio"])
    BY <2>1, <2>2, ReopenFits DEF Lanes
  <2>5. \A l \in Lanes : src'[l] \in BS!Sources(UrlsOf(l)', FileSize[l])
    BY <1>1, <1>4, <2>3, <2>4 DEF Lanes
  <2> QED BY <2>2, <2>5 DEF SourcesInv
<1>7. DualInv'
  <2>1. session' # 0 /\ DualSession[session']
    BY <1>1
  <2> QED BY <1>3, <2>1 DEF DualInv
<1>8. PureStep
  BY <1>1, AddsNothing DEF PureStep, PumpInv, Handling, pipeVars
<1> QED BY <1>1, <1>5, <1>6, <1>7, <1>8 DEF PumpInv

LEMMA PureStartSingle ==
  ASSUME PumpInv, Start, ~DualSession[session']
  PROVE  PumpInv' /\ PureStep
<1>1. /\ Commanding' /\ session' = session + 1 /\ session \in Nat
      /\ session' \in Sessions /\ Here' = {session'}
      /\ Past \subseteq Past' /\ Here \subseteq Past
      /\ UNCHANGED <<owed, unwind, mail, used, pipeVars>> /\ broken' = FALSE
  BY StartCommands DEF PumpInv
<1>2. /\ pump' = Reset([pump EXCEPT !.dual = FALSE]) /\ UNCHANGED <<demux, hold>>
      /\ src' = [src EXCEPT !["video"] = BS!Open(BS!Close(@), session')]
  BY DEF Start, OpenSingle
<1>3. pump' \in Pumps /\ pump'.dual = FALSE
  <2> DEFINE p == [pump EXCEPT !.dual = FALSE]
  <2>1. p \in Pumps /\ p.dual = FALSE
    BY DEF PumpInv, Handling, Pumps
  <2>2. pump' = Reset(p)
    BY <1>2
  <2> HIDE DEF p
  <2> QED BY <2>1, <2>2, ResetGives
<1>4. Kept' = Past' /\ UrlsOf("video")' = Here' /\ UrlsOf("audio")' = Past'
  BY <1>3 DEF Kept, UrlsOf
<1>5. Kept \subseteq Past' /\ UrlsOf("audio") \subseteq Past'
  BY <1>1 DEF Kept, UrlsOf
<1>6. Handling(Kept)'
  <2>1. demux \in [Lanes -> DemuxesOf(Kept)] /\ hold \in [Lanes -> Seq(SamplesOf(Kept))]
    BY DEF PumpInv, Handling
  <2>2. /\ DemuxesOf(Kept) \subseteq DemuxesOf(Kept')
        /\ Seq(SamplesOf(Kept)) \subseteq Seq(SamplesOf(Kept'))
    BY <1>4, <1>5, DemuxesWithin, SamplesWithin
  <2>3. demux' \in [Lanes -> DemuxesOf(Kept')] /\ hold' \in [Lanes -> Seq(SamplesOf(Kept'))]
    BY <1>2, <2>1, <2>2
  <2>4. UNCHANGED <<owed, mail, app, pushed>> /\ broken' \in BOOLEAN
    BY <1>1 DEF pipeVars
  <2> QED BY <1>3, <2>3, <2>4 DEF PumpInv, Handling
<1>7. SourcesInv'
  <2>1. /\ src["video"] \in BS!Sources(UrlsOf("video"), FileSize["video"])
        /\ src["audio"] \in BS!Sources(UrlsOf("audio"), FileSize["audio"])
        /\ src \in [Lanes -> {src["video"], src["audio"]}]
    BY DEF PumpInv, SourcesInv, Lanes
  <2>2. /\ src'["video"] = BS!Open(BS!Close(src["video"]), session')
        /\ src'["audio"] = src["audio"]
        /\ src' \in [Lanes -> {src'["video"], src'["audio"]}]
    BY <1>2, <2>1 DEF Lanes
  <2>3. src'["video"] \in BS!Sources({session'}, FileSize["video"])
    BY <2>1, <2>2, ReopenFits DEF Lanes
  <2>4. src'["audio"] \in BS!Sources(Past', FileSize["audio"])
    BY <1>5, <2>1, <2>2, SourcesWithin
  <2>5. \A l \in Lanes : src'[l] \in BS!Sources(UrlsOf(l)', FileSize[l])
    BY <1>1, <1>4, <2>3, <2>4 DEF Lanes
  <2> QED BY <2>2, <2>5 DEF SourcesInv
<1>8. DualInv'
  <2>1. ~(session' # 0 /\ DualSession[session'])
    OBVIOUS
  <2> QED BY <1>3, <2>1 DEF DualInv
<1>9. PureStep
  BY <1>1, AddsNothing DEF PureStep, PumpInv, Handling, pipeVars
<1> QED BY <1>1, <1>6, <1>7, <1>8, <1>9 DEF PumpInv

LEMMA PureStart ==
  ASSUME PumpInv, Start
  PROVE  PumpInv' /\ PureStep
BY PureStartDual, PureStartSingle

\* A step that leaves the members of the pump alone.
LEMMA PumpAlone ==
  ASSUME PumpInv, UNCHANGED <<mediaVars, session>>, mail' \in Seq(Letters),
         app' \in [Lanes -> AppSrcs], pushed' \in [Lanes -> Seq(Samples)], Commanding'
  PROVE  PumpInv'
<1> PICK K : K = Kept
  OBVIOUS
<1>1. UNCHANGED <<src, pump, demux, hold, owed, unwind, broken, session>>
  BY DEF mediaVars
<1>2. Handling(K)'
  BY <1>1 DEF PumpInv, Handling
<1>3. SourcesInv'
  BY <1>1, SourcesKept DEF PumpInv
<1> QED BY <1>1, <1>2, <1>3, WithinSession

LEMMA PureRelease ==
  ASSUME PumpInv, Release
  PROVE  PumpInv' /\ PureStep
<1>1. /\ caps' = 0 /\ pushed' = Both(<<>>)
      /\ app' = [l \in Lanes |-> [NewAppSrc EXCEPT !.asked = app[l].asked]]
      /\ gui' = "released" /\ seeking' = NoSeek
      /\ UNCHANGED <<mediaVars, session, mail, wanted, anchored>>
  BY DEF Release, Teardown
<1>2. app' \in [Lanes -> AppSrcs] /\ pushed' \in [Lanes -> Seq(Samples)]
  BY <1>1, NewApp DEF PumpInv, Handling
<1>3. used' \in [seeks : 0..MaxSeeks, releases : 0..MaxReleases, stops : 0..MaxStops]
  <2>1. used' = [used EXCEPT !.releases = @ + 1] /\ used.releases < MaxReleases
    BY DEF Release
  <2> QED BY <2>1, BoundsAssumption DEF PumpInv, Commanding
<1>4. Commanding'
  BY <1>1, <1>3 DEF PumpInv, Commanding, mediaVars
<1>5. mail' \in Seq(Letters)
  BY <1>1 DEF PumpInv, Handling
<1> QED BY <1>1, <1>2, <1>4, <1>5, PumpAlone DEF PureStep

LEMMA PureReadOpened ==
  ASSUME PumpInv, ReadOpened
  PROVE  PumpInv' /\ PureStep
<1>1. /\ mail # <<>> /\ mail' = Tail(mail)
      /\ UNCHANGED <<mediaVars, session, seeking, wanted, anchored, used>>
      /\ \/ UNCHANGED <<gui, pipeVars>>
         \/ gui' = "running" /\ Build(Head(mail).session)
  BY DEF ReadOpened
<1>2. Head(mail).session \in Sessions /\ mail' \in Seq(Letters)
  BY <1>1, LetterRead DEF PumpInv, Handling
<1>3. CASE UNCHANGED <<gui, pipeVars>>
  <2>1. UNCHANGED <<app, caps, pushed>>
    BY <1>3 DEF pipeVars
  <2>2. Commanding'
    BY <1>1, <1>3, <2>1 DEF PumpInv, Commanding, mediaVars
  <2>3. app' \in [Lanes -> AppSrcs] /\ pushed' \in [Lanes -> Seq(Samples)]
    BY <2>1 DEF PumpInv, Handling
  <2>4. PureStep
    BY <2>1, AddsNothing DEF PureStep, PumpInv, Handling
  <2> QED BY <1>1, <1>2, <2>2, <2>3, <2>4, PumpAlone
<1>4. CASE gui' = "running" /\ Build(Head(mail).session)
  <2>1. caps' = Head(mail).session /\ pushed' = Both(<<>>) /\ app' = Both(NewAppSrc)
    BY <1>4 DEF Build
  <2>2. Commanding'
    BY <1>1, <1>2, <1>4, <2>1 DEF PumpInv, Commanding, mediaVars
  <2>3. app' \in [Lanes -> AppSrcs] /\ pushed' \in [Lanes -> Seq(Samples)]
    BY <2>1, NewApp
  <2> QED BY <1>1, <1>2, <2>1, <2>2, <2>3, PumpAlone DEF PureStep
<1> QED BY <1>1, <1>3, <1>4

\* pipelineConfigured() drains what the pump holds; that is of the session
\* that is played unless an esReady of two streams is read in a single one.
LEMMA PureReadEsReady ==
  ASSUME PumpInv, ReadEsReady
  PROVE  PumpInv' /\ (NoStaleEs => PureStep)
<1> PICK K : K = Kept
  OBVIOUS
<1>1. Handling(K) /\ Commanding /\ SourcesInv /\ DualInv /\ K \subseteq Sessions
  BY UrlsAre DEF PumpInv, Lanes
<1>2. /\ mail # <<>> /\ mail' = Tail(mail) /\ Head(mail).kind = "es"
      /\ UNCHANGED <<session, seeking, wanted, anchored, used>>
      /\ \/ UNCHANGED <<gui, mediaVars, pipeVars>>
         \/ /\ gui = "loading" /\ gui' = "running" /\ caps' = Head(mail).session
            /\ Drain([pump EXCEPT !.configured = TRUE], demux, "video", {})
            /\ UNCHANGED <<src, unwind, broken>>
  BY DEF ReadEsReady
<1>3. Head(mail).session \in Sessions /\ mail' \in Seq(Letters)
  BY <1>1, <1>2, LetterRead DEF Handling
<1>4. CASE UNCHANGED <<gui, mediaVars, pipeVars>>
  <2>1. UNCHANGED <<app, caps, pushed>>
    BY <1>4 DEF pipeVars
  <2>2. Commanding'
    BY <1>1, <1>2, <1>4, <2>1 DEF Commanding, mediaVars
  <2>3. app' \in [Lanes -> AppSrcs] /\ pushed' \in [Lanes -> Seq(Samples)]
    BY <1>1, <2>1 DEF Handling
  <2>4. PureStep
    BY <1>1, <2>1, AddsNothing DEF PureStep, Handling
  <2> QED BY <1>2, <1>3, <1>4, <2>2, <2>3, <2>4, PumpAlone
<1>5. CASE /\ gui = "loading" /\ gui' = "running" /\ caps' = Head(mail).session
           /\ Drain([pump EXCEPT !.configured = TRUE], demux, "video", {})
           /\ UNCHANGED <<src, unwind, broken>>
  <2> DEFINE p == [pump EXCEPT !.configured = TRUE]
  <2>1. p \in Pumps /\ p.dual = pump.dual
    BY <1>1 DEF Handling, Pumps
  <2>2. Drain(p, demux, "video", {}) /\ {} \subseteq Lanes /\ "video" \in Lanes
    BY <1>5 DEF Lanes
  <2> HIDE DEF p
  <2>3. demux \in [Lanes -> DemuxesOf(K)]
    BY <1>1 DEF Handling
  <2>4. /\ pump' \in Pumps /\ pump'.dual = p.dual
        /\ demux' \in [Lanes -> DemuxesOf(K)] /\ hold' \in [Lanes -> Seq(SamplesOf(K))]
        /\ owed' \subseteq Lanes /\ app' \in [Lanes -> AppSrcs]
        /\ pushed' \in [Lanes -> Seq(Samples)] /\ Adds(K)
    BY <1>1, <2>1, <2>2, <2>3, DrainKeeps
  <2>5. Handling(K)'
    BY <1>1, <1>3, <1>5, <2>4 DEF Handling
  <2>6. Commanding'
    BY <1>1, <1>2, <1>3, <1>5 DEF Commanding
  <2>7. SourcesInv'
    BY <1>1, <1>2, <1>5, <2>1, <2>4, SourcesKept
  <2>8. NoStaleEs => PureStep
    <3>1. NoStaleEs => K \subseteq Here
      <4>1. CASE session = 0
        <5>1. Here = {} /\ Past = {}
          BY <4>1 DEF Here, Past
        <5> QED BY <5>1 DEF Kept
      <4>2. CASE session # 0
        <5>1. NoStaleEs => DualSession[session]
          BY <1>1, <1>2, <1>5, <4>2 DEF NoStaleEs, Commanding
        <5>2. NoStaleEs => pump.dual
          BY <1>1, <4>2, <5>1 DEF DualInv
        <5> QED BY <5>2 DEF Kept
      <4> QED BY <4>1, <4>2
    <3> QED BY <2>4, <3>1, AddsMore DEF PureStep
  <2> QED BY <1>2, <2>1, <2>4, <2>5, <2>6, <2>7, <2>8, WithinSession
<1> QED BY <1>2, <1>4, <1>5

LEMMA PureSeek ==
  ASSUME PumpInv, NEW t \in Targets, Seek(t)
  PROVE  PumpInv' /\ PureStep
<1>1. /\ pushed' = Both(<<>>)
      /\ app' = [l \in Lanes |-> [NewAppSrc EXCEPT !.asked = app[l].asked]]
      /\ seeking' = t /\ wanted' = t /\ anchored' = NoSeek
      /\ UNCHANGED <<mediaVars, session, gui, mail, caps>>
  BY DEF Seek
<1>2. app' \in [Lanes -> AppSrcs] /\ pushed' \in [Lanes -> Seq(Samples)]
  BY <1>1, NewApp DEF PumpInv, Handling
<1>3. used' \in [seeks : 0..MaxSeeks, releases : 0..MaxReleases, stops : 0..MaxStops]
  <2>1. used' = [used EXCEPT !.seeks = @ + 1] /\ used.seeks < MaxSeeks
    BY DEF Seek
  <2> QED BY <2>1, BoundsAssumption DEF PumpInv, Commanding
<1>4. Commanding'
  BY <1>1, <1>3 DEF PumpInv, Commanding, mediaVars
<1>5. mail' \in Seq(Letters)
  BY <1>1 DEF PumpInv, Handling
<1> QED BY <1>1, <1>2, <1>4, <1>5, PumpAlone DEF PureStep

LEMMA TargetFits ==
  ASSUME NEW t \in Targets, NEW l \in Lanes
  PROVE  SegStart[t][l] \in 0..FileSize[l] /\ SegStart[t][l] \in Nat
BY FilesAssumption

LEMMA ReanchorKeeps ==
  ASSUME NEW K, Handling(K), SourcesInv, session' = session, NEW t \in Targets, Reanchor(t)
  PROVE  /\ pump' \in Pumps /\ pump'.dual = pump.dual
         /\ demux' \in [Lanes -> DemuxesOf(K)] /\ SourcesInv'
<1>1. /\ src' = [l \in Lanes |-> BS!Seek(src[l], SegStart[t][l])]
      /\ demux' = [l \in Lanes |-> [demux[l] EXCEPT !.next = SegStart[t][l],
                                                    !.samples = <<>>]]
      /\ pump' = Rearm([pump EXCEPT !.lastSeek = t, !.eosPending = Both(FALSE),
                                    !.videoDone = FALSE])
  BY DEF Reanchor
<1>2. pump' \in Pumps /\ pump'.dual = pump.dual
  <2> DEFINE p == [pump EXCEPT !.lastSeek = t, !.eosPending = Both(FALSE),
                               !.videoDone = FALSE]
  <2>1. p \in Pumps /\ p.dual = pump.dual
    BY DEF Handling, Pumps, Both
  <2>2. pump' = Rearm(p)
    BY <1>1
  <2> HIDE DEF p
  <2> QED BY <2>1, <2>2, RearmGives
<1>3. \A l \in Lanes : [demux[l] EXCEPT !.next = SegStart[t][l], !.samples = <<>>]
                          \in DemuxesOf(K)
  <2> SUFFICES ASSUME NEW l \in Lanes
               PROVE  [demux[l] EXCEPT !.next = SegStart[t][l], !.samples = <<>>]
                        \in DemuxesOf(K)
    OBVIOUS
  <2>1. demux[l] \in DemuxesOf(K)
    BY DEF Handling
  <2>2. \A n \in Nat, e \in Seq(SamplesOf(K)) :
          [demux[l] EXCEPT !.next = n, !.samples = e] \in DemuxesOf(K)
    BY <2>1 DEF DemuxesOf
  <2>3. <<>> \in Seq(SamplesOf(K))
    OBVIOUS
  <2>4. SegStart[t][l] \in Nat
    BY TargetFits
  <2> QED BY <2>2, <2>3, <2>4
<1>4. demux' \in [Lanes -> DemuxesOf(K)]
  BY <1>1, <1>3
<1>5. SourcesInv'
  <2>1. \A l \in Lanes : src'[l] \in BS!Sources(UrlsOf(l), FileSize[l])
    <3> SUFFICES ASSUME NEW l \in Lanes
                 PROVE  src'[l] \in BS!Sources(UrlsOf(l), FileSize[l])
      OBVIOUS
    <3>1. src'[l] = BS!Seek(src[l], SegStart[t][l])
      BY <1>1
    <3>2. src[l] \in BS!Sources(UrlsOf(l), FileSize[l])
      BY DEF SourcesInv
    <3>3. SegStart[t][l] \in 0..FileSize[l]
      BY TargetFits
    <3> QED BY <3>1, <3>2, <3>3, SeekFits
  <2>2. \A l \in Lanes : UrlsOf(l)' = UrlsOf(l)
    BY <1>2 DEF UrlsOf, Here, Past
  <2>3. src' \in [Lanes -> {src'["video"], src'["audio"]}]
    BY <1>1 DEF Lanes
  <2> QED BY <2>1, <2>2, <2>3 DEF SourcesInv
<1> QED BY <1>2, <1>4, <1>5

\* seekBytes() and seekDualTo() push nothing: they move the sources on.
LEMMA PureSeekArrives ==
  ASSUME PumpInv, SeekArrives
  PROVE  PumpInv' /\ PureStep
<1> PICK K : K = Kept
  OBVIOUS
<1> PICK t : t = seeking
  OBVIOUS
<1>1. Handling(K) /\ Commanding /\ SourcesInv
  BY DEF PumpInv
<1>2. /\ t \in Targets /\ seeking' = NoSeek
      /\ UNCHANGED <<unwind, broken, session, gui, mail, wanted, used, app, caps, pushed>>
      /\ SeekBytes(t) \/ SeekDualTo(t)
  BY <1>1 DEF SeekArrives, Commanding, pipeVars
<1>3. PureStep
  BY <1>1, <1>2, AddsNothing DEF PureStep, Handling
<1>4. anchored' \in Targets \cup {NoSeek}
  BY <1>1, <1>2 DEF SeekBytes, SeekDualTo, Reanchor, Commanding
<1>5. Commanding'
  BY <1>1, <1>2, <1>4 DEF Commanding
<1>6. CASE SeekBytes(t)
  <2> DEFINE s == BS!Seek(src["video"], SegStart[t]["video"])
  <2>1. /\ src' = [src EXCEPT !["video"] = s] /\ UNCHANGED <<pump, demux, hold>>
        /\ owed' \subseteq Lanes
    BY <1>6 DEF SeekBytes, Lanes
  <2>2. s \in BS!Sources(UrlsOf("video"), FileSize["video"])
    BY <1>1, <1>2, SeekFits, TargetFits DEF SourcesInv, Lanes
  <2> HIDE DEF s
  <2>3. SourcesInv'
    BY <1>1, <1>2, <2>1, <2>2, SourceKept DEF Lanes
  <2>4. Handling(K)'
    BY <1>1, <1>2, <2>1 DEF Handling
  <2> QED BY <1>2, <1>3, <1>5, <2>1, <2>3, <2>4, WithinSession
<1>7. CASE SeekDualTo(t) /\ ~Reanchor(t)
  <2>1. UNCHANGED <<src, demux, pump, owed, hold>>
    BY <1>7 DEF SeekDualTo
  <2>2. Handling(K)'
    BY <1>1, <1>2, <2>1 DEF Handling
  <2>3. SourcesInv'
    BY <1>1, <1>2, <2>1, SourcesKept
  <2> QED BY <1>2, <1>3, <1>5, <2>1, <2>2, <2>3, WithinSession
<1>8. CASE Reanchor(t)
  <2>1. /\ pump' \in Pumps /\ pump'.dual = pump.dual
        /\ demux' \in [Lanes -> DemuxesOf(K)] /\ SourcesInv'
    BY <1>1, <1>2, <1>8, ReanchorKeeps
  <2>2. owed' = Lanes /\ hold' = hold
    BY <1>8 DEF Reanchor
  <2>3. Handling(K)'
    BY <1>1, <1>2, <2>1, <2>2 DEF Handling
  <2> QED BY <1>2, <1>3, <1>5, <2>1, <2>3, WithinSession
<1> QED BY <1>2, <1>6, <1>7, <1>8

LEMMA PureNeedDataArrives ==
  ASSUME PumpInv, NEW l \in Lanes, NeedDataArrives(l)
  PROVE  PumpInv' /\ PureStep
<1> PICK K : K = Kept
  OBVIOUS
<1>1. Handling(K) /\ Commanding /\ SourcesInv
  BY DEF PumpInv
<1>2. /\ app' = [app EXCEPT ![l].asked = FALSE] /\ owed' = {l}
      /\ pump' = pump \/ pump' = Rearm(pump)
      /\ UNCHANGED <<src, demux, hold, unwind, broken, session, gui, mail, seeking, wanted,
                     anchored, used, caps, pushed>>
  BY DEF NeedDataArrives, guiVars
<1>3. pump' \in Pumps /\ pump'.dual = pump.dual
  BY <1>1, <1>2, RearmGives DEF Handling
<1>4. app' \in [Lanes -> AppSrcs]
  BY <1>1, <1>2 DEF Handling, AppSrcs
<1>5. Handling(K)' /\ Commanding'
  BY <1>1, <1>2, <1>3, <1>4 DEF Handling, Commanding
<1>6. SourcesInv'
  BY <1>1, <1>2, <1>3, SourcesKept
<1>7. PureStep
  BY <1>1, <1>2, AddsNothing DEF PureStep, Handling
<1> QED BY <1>2, <1>3, <1>5, <1>6, <1>7, WithinSession

LEMMA PureAppSrc ==
  ASSUME PumpInv, NEW l \in Lanes, NeedData(l) \/ Consume(l)
  PROVE  PumpInv' /\ PureStep
<1>1. UNCHANGED <<mediaVars, guiVars, caps, pushed>>
  BY DEF NeedData, Consume
<1>2. app' \in [Lanes -> AppSrcs]
  <2>1. \/ app' = [app EXCEPT ![l].level = "blocked", ![l].asked = TRUE]
        \/ app' = [app EXCEPT ![l].level = "dry"]
    BY DEF NeedData, Consume
  <2>2. app \in [Lanes -> AppSrcs]
    BY DEF PumpInv, Handling
  <2>3. CASE app' = [app EXCEPT ![l].level = "blocked", ![l].asked = TRUE]
    BY <2>2, <2>3 DEF AppSrcs
  <2>4. CASE app' = [app EXCEPT ![l].level = "dry"]
    BY <2>2, <2>4 DEF AppSrcs
  <2> QED BY <2>1, <2>3, <2>4
<1>3. UNCHANGED <<session, gui, mail, seeking, wanted, anchored, used, unwind, caps, pushed>>
  BY <1>1 DEF guiVars, mediaVars
<1>4. Commanding' /\ mail' \in Seq(Letters) /\ pushed' \in [Lanes -> Seq(Samples)]
  BY <1>3 DEF PumpInv, Commanding, Handling
<1>5. PureStep
  BY <1>3, AddsNothing DEF PureStep, PumpInv, Handling
<1> QED BY <1>1, <1>2, <1>3, <1>4, <1>5, PumpAlone

-----------------------------------------------------------------------------
(* The theorems                                                            *)

LEMMA PureNext ==
  ASSUME PumpInv, Next
  PROVE  PumpInv' /\ (NoStaleEs => PureStep)
<1>1. ASSUME Gui PROVE PumpInv' /\ (NoStaleEs => PureStep)
  BY <1>1, PureStart, PureStop, PureRelease, PureReadOpened, PureReadEsReady, PureSeek,
     PureSeekArrives DEF Gui
<1>2. ASSUME NEW l \in Lanes,
             \/ \E ranged \in Ranged : ProbeLands(l, ranged)
             \/ WindowLands(l) \/ FetchFails(l)
             \/ \E slot \in BS!Slots, n \in 0..Window : StrayLands(l, slot, n)
             \/ Serve(l) \/ Unwind(l)
      PROVE  PumpInv' /\ PureStep
  BY <1>2, PureProbeLands, PureWindowLands, PureFetchFails, PureStrayLands, PureServe,
     PureUnwind
<1>3. ASSUME NEW l \in Lanes, NeedDataArrives(l) \/ NeedData(l) \/ Consume(l)
      PROVE  PumpInv' /\ PureStep
  BY <1>3, PureNeedDataArrives, PureAppSrc
<1> QED BY <1>1, <1>2, <1>3 DEF Next, Media, Pipeline

LEMMA PureStutter ==
  ASSUME PumpInv, UNCHANGED vars
  PROVE  PumpInv'
<1>1. UNCHANGED <<mediaVars, guiVars, pipeVars>>
  BY DEF vars
<1>2. UNCHANGED <<src, pump, demux, hold, owed, unwind, broken, session, gui, mail,
                  seeking, wanted, anchored, used, app, caps, pushed>>
  BY <1>1 DEF mediaVars, guiVars, pipeVars
<1>3. Commanding' /\ mail' \in Seq(Letters) /\ app' \in [Lanes -> AppSrcs]
      /\ pushed' \in [Lanes -> Seq(Samples)]
  BY <1>2 DEF PumpInv, Commanding, Handling
<1> QED BY <1>1, <1>2, <1>3, PumpAlone

LEMMA PureAlways == Spec => []PumpInv
<1>1. PumpInv /\ [Next]_vars => PumpInv'
  BY PureNext, PureStutter
<1> QED BY <1>1, PureInit, PTL DEF Spec

LEMMA PureTyped == PumpInv => TypeOK
<1> SUFFICES ASSUME PumpInv PROVE TypeOK
  OBVIOUS
<1>1. Kept \subseteq Sessions /\ \A l \in Lanes : UrlsOf(l) \subseteq Sessions
  BY UrlsAre DEF PumpInv, Lanes
<1>2. \A l \in Lanes : src[l] \in BS!Sources(Sessions, FileSize[l])
  BY <1>1, SourcesWithin DEF PumpInv, SourcesInv
<1>3. DemuxesOf(Kept) \subseteq Demuxes /\ Seq(SamplesOf(Kept)) \subseteq Seq(Samples)
  <2>1. Seq(SamplesOf(Kept)) \subseteq Seq(Samples)
    BY <1>1, SamplesWithin, SamplesAll
  <2> QED BY <2>1 DEF DemuxesOf, Demuxes
<1>4. demux \in [Lanes -> Demuxes] /\ hold \in [Lanes -> Seq(Samples)]
  BY <1>3 DEF PumpInv, Handling
<1> QED BY <1>2, <1>4 DEF PumpInv, Handling, Commanding, TypeOK

\* The pump, its sources and the pipeline keep their types: no window lies beyond
\* its file, whatever the servers answer, nothing is fetched for a closed source,
\* and the bounds are kept (mediapump.cpp, bytesource.cpp).
THEOREM PumpTyped == Spec => []TypeOK
BY PureAlways, PureTyped, PTL

\* A sample added by a step is one of the session's.
LEMMA PureIsPure ==
  ASSUME PumpInv, PureStep
  PROVE  \A l \in Lanes : \A i \in Len(pushed[l]) + 1..Len(pushed'[l]) :
           pushed'[l][i].session = session
<1> SUFFICES ASSUME NEW l \in Lanes, NEW i \in Len(pushed[l]) + 1..Len(pushed'[l])
             PROVE  pushed'[l][i].session = session
  OBVIOUS
<1>1. pushed[l] \in Seq(Samples)
  BY DEF PumpInv, Handling
<1>2. CASE pushed' = Both(<<>>)
  <2>1. Len(pushed'[l]) = 0 /\ Len(pushed[l]) \in Nat
    BY <1>1, <1>2 DEF Both
  <2> QED BY <2>1
<1>3. CASE Adds(Here)
  <2>1. PICK s \in Seq(SamplesOf(Here)) : pushed'[l] = pushed[l] \o s
    BY <1>3 DEF Adds
  <2>2. /\ Len(pushed'[l]) = Len(pushed[l]) + Len(s)
        /\ i - Len(pushed[l]) \in 1..Len(s)
        /\ pushed'[l][i] = s[i - Len(pushed[l])]
    BY <1>1, <2>1
  <2>3. s[i - Len(pushed[l])] \in SamplesOf(Here)
    BY <2>2
  <2> QED BY <2>2, <2>3 DEF SamplesOf, Here
<1> QED BY <1>2, <1>3 DEF PureStep

LEMMA PureWhenOwn ==
  ASSUME PumpInv, NoStaleEs, [Next]_vars
  PROVE  [\A l \in Lanes : \A i \in Len(pushed[l]) + 1..Len(pushed'[l]) :
            pushed'[l][i].session = session]_vars
<1>1. CASE Next
  BY <1>1, PureNext, PureIsPure
<1>2. CASE UNCHANGED vars
  BY <1>2
<1> QED BY <1>1, <1>2

\* Samples of one session never reach the pipeline in another, whatever windows
\* were in flight, ready, cut or held when the user switched: close() and open()
\* forget what the source had, openDual() what was cut and held, and an audio
\* source that was left speaks to nobody (bytesource.cpp, mediapump.cpp).  What
\* they do not forget is an esReady already queued to the GUI (NoStaleEs): read
\* while a single stream is loading, it drains the session before.
THEOREM PumpPure == Spec /\ []NoStaleEs => SessionPure
<1>1. PumpInv /\ NoStaleEs /\ [Next]_vars =>
        [\A l \in Lanes : \A i \in Len(pushed[l]) + 1..Len(pushed'[l]) :
           pushed'[l][i].session = session]_vars
  BY PureWhenOwn
<1> QED BY <1>1, PureAlways, PTL DEF Spec, SessionPure

\* Where every session plays two streams nothing has to be assumed.
THEOREM PumpPureDual ==
  ASSUME \A s \in Sessions : DualSession[s]
  PROVE  Spec => SessionPure
<1>1. NoStaleEs
  BY DEF NoStaleEs
<1>2. PumpInv /\ [Next]_vars =>
        [\A l \in Lanes : \A i \in Len(pushed[l]) + 1..Len(pushed'[l]) :
           pushed'[l][i].session = session]_vars
  BY <1>1, PureWhenOwn
<1> QED BY <1>2, PureAlways, PTL DEF Spec, SessionPure

-----------------------------------------------------------------------------
(* The end of a stream comes last                                          *)

\* A videoOpened() that builds a pipeline is of the single stream played now:
\* onPumpVideoOpened() does not ask.
NoStaleOpened ==
  session \in Sessions /\ mail # <<>> /\ Head(mail).kind = "opened" /\ ~DualSession[session] =>
    Head(mail).session = session

\* A source has delivered all it will ever deliver.
Done(s) == s.eof /\ s.reply = NoReply /\ s.ready = <<>>

\* The lanes that push: openSingle() leaves the audio lane with no way to the pipeline.
Speaks(l) == l = "video" \/ pump.dual

\* The GUI side: a pipeline is there while something runs, and only then can it
\* be sought; the letters under way were written in sessions that have begun.
StageInv ==
  /\ gui = "running" <=> caps # 0
  /\ seeking # NoSeek => gui = "running"
  /\ caps = 0 => \A l \in Lanes : app[l].eos = "no"
  /\ \A i \in DOMAIN mail : mail[i].session \in Past

\* A lane that has ended, or will once the samples before its end are out, has
\* nothing left to come; behind an end that is out nothing is held or cut.
EndInv ==
  /\ \A l \in Lanes : pump.eosPending[l] \/ app[l].eos = "yes" => Speaks(l) /\ Done(src[l])
  /\ ~pump.dual => \A l \in Lanes : ~pump.eosPending[l]
  /\ \A l \in Lanes : app[l].eos = "yes" =>
       /\ seeking = NoSeek
       /\ pump.dual => hold[l] = <<>> /\ demux[l].samples = <<>>

\* A consumer that waits has found nothing ready, but for the window of a probe
\* that is about to be asked for; none waits for a closed source.
WaitInv ==
  \A l \in Lanes : src[l].waiting =>
    /\ src[l].url # 0
    /\ Speaks(l) /\ src[l].ready # <<>> => l \in owed /\ Tail(src[l].ready) = <<>>

\* A single stream that is still probed has no pipeline to ask for more, and
\* its letter is still to be written.
Probing(s) == s.reply # NoReply /\ s.reply.slot = "probe"
ProbeInv ==
  /\ src["video"].stray = {}
  /\ ~pump.dual /\ Probing(src["video"]) =>
       /\ caps = 0 /\ ~app["video"].asked /\ "video" \notin owed /\ ~src["video"].waiting
       /\ \A i \in DOMAIN mail : mail[i].kind = "opened" => mail[i].session # session

LastInv == StageInv /\ EndInv /\ WaitInv /\ ProbeInv

\* What a handler called in the course of a step may do to the ends: only the
\* lanes D may be ending, and `more' is what it was owed before.
Ending(D, more) ==
  /\ \A k \in Lanes : pump'.eosPending[k] => k \in D
  /\ \A k \in Lanes : app'[k].eos = "yes" =>
       /\ k \in D
       /\ app[k].eos = "yes" \/ (caps' # 0 /\ seeking = NoSeek)
       /\ pump.dual => hold'[k] = <<>> /\ demux'[k].samples = <<>>
  /\ \A k \in Lanes : app[k].eos = "yes" => pushed'[k] = pushed[k]
  /\ \A k \in Lanes : app'[k].asked = app[k].asked
  /\ caps' = 0 => app' = app
  /\ pump'.dual = pump.dual /\ more \subseteq owed'
  /\ ~pump.dual => (\A k \in Lanes : ~pump'.eosPending[k]) /\ owed' = more

\* Only a session of two streams writes esReady letters.
Writes == \/ mail' = mail
          \/ pump.dual /\ mail' = Append(mail, [kind |-> "es", session |-> session])

\* Where it starts: the lanes that are ending are done.
EndingFrom(D) ==
  /\ \A k \in Lanes : pump.eosPending[k] \/ app[k].eos = "yes" => k \in D
  /\ ~pump.dual => \A k \in Lanes : ~pump.eosPending[k]
  /\ \A k \in Lanes : app[k].eos = "yes" /\ pump.dual =>
       hold[k] = <<>> /\ demux[k].samples = <<>>

LEMMA EndEnds ==
  ASSUME app \in [Lanes -> AppSrcs], NEW ends, NEW samples, End(ends, samples)
  PROVE  /\ \A k \in Lanes : app'[k].eos = "yes" =>
              app[k].eos = "yes" \/ (caps' # 0 /\ seeking = NoSeek /\ ends[k])
         /\ \A k \in Lanes : app'[k].asked = app[k].asked
         /\ caps' = 0 => app' = app
<1>1. caps' = 0 => app' = app
  BY DEF End
<1>2. \A k \in Lanes : app'[k].eos = "yes" =>
         app[k].eos = "yes" \/ (caps' # 0 /\ seeking = NoSeek /\ ends[k])
  BY DEF End, AppSrcs
<1>3. \A k \in Lanes : app'[k].asked = app[k].asked
  BY DEF End, AppSrcs
<1> QED BY <1>1, <1>2, <1>3

LEMMA PushKeeps ==
  ASSUME pushed \in [Lanes -> Seq(Samples)], NEW samples, Push(samples),
         NEW k \in Lanes, samples[k] = <<>>
  PROVE  pushed'[k] = pushed[k]
<1>1. pushed[k] \o <<>> = pushed[k]
  OBVIOUS
<1> QED BY <1>1 DEF Push

\* drainSamples(), in a session of two streams.
LEMMA DrainEnding ==
  ASSUME NEW K, Handling(K), pump.dual, NEW D, NEW p \in Pumps, p.dual,
         \A k \in Lanes : p.eosPending[k] => k \in D,
         \A k \in Lanes : app[k].eos = "yes" => k \in D /\ hold[k] = <<>>,
         NEW d \in [Lanes -> DemuxesOf(K)],
         \A k \in Lanes : app[k].eos = "yes" => d[k].samples = <<>>,
         NEW l \in Lanes, NEW more, Drain(p, d, l, more)
  PROVE  Ending(D, more)
<1> DEFINE held == [k \in Lanes |-> hold[k] \o d[k].samples]
           rest == [k \in Lanes |-> [d[k] EXCEPT !.samples = <<>>]]
<1>1. app \in [Lanes -> AppSrcs] /\ pushed \in [Lanes -> Seq(Samples)]
  BY DEF Handling
<1>2. \A k \in Lanes : app[k].eos = "yes" => held[k] = <<>>
  OBVIOUS
<1>3. \A k \in Lanes : rest[k].samples = <<>>
  BY DEF DemuxesOf
<1>4. CASE Buffer(p, d, more)
  <2>1. pump' = p /\ demux' = d /\ owed' = more /\ UNCHANGED <<hold, app, pushed>>
    BY <1>4 DEF Buffer
  <2> QED BY <2>1 DEF Ending
<1>5. CASE Withhold(p, d, l, more)
  <2>1. /\ hold' = held /\ demux' = rest /\ UNCHANGED <<app, pushed>>
        /\ pump' = [p EXCEPT !.reported = @ \/ l = "video"] /\ more \subseteq owed'
    BY <1>5 DEF Withhold
  <2>2. pump'.eosPending = p.eosPending /\ pump'.dual = p.dual
    BY <2>1 DEF Pumps
  <2>3. \A k \in Lanes : app[k].eos = "yes" => hold'[k] = <<>> /\ demux'[k].samples = <<>>
    BY <1>2, <1>3, <2>1
  <2>4. pump'.dual = pump.dual
    BY <2>2 DEF Handling, Pumps
  <2> HIDE DEF held, rest
  <2>5. UNCHANGED <<app, pushed>> /\ more \subseteq owed'
    BY <2>1
  <2> QED BY <2>2, <2>3, <2>4, <2>5 DEF Ending
<1>6. CASE Flush(p, d, more)
  <2>1. /\ hold' = Both(<<>>) /\ demux' = rest /\ owed' = more
        /\ Push(held) /\ End(p.eosPending, held)
        /\ pump' = [p EXCEPT !.primed = TRUE, !.reported = FALSE,
                             !.videoDone = @ \/ p.eosPending["video"],
                             !.eosPending = Both(FALSE)]
    BY <1>6 DEF Flush
  <2>2. pump'.eosPending = Both(FALSE) /\ pump'.dual = p.dual
    BY <2>1 DEF Pumps
  <2>3. \A k \in Lanes : hold'[k] = <<>> /\ demux'[k].samples = <<>>
    BY <1>3, <2>1 DEF Both
  <2>4. pump'.dual = pump.dual /\ \A k \in Lanes : ~pump'.eosPending[k]
    BY <2>2 DEF Handling, Pumps, Both
  <2>5. \A k \in Lanes : app[k].eos = "yes" => pushed'[k] = pushed[k]
    BY <1>1, <1>2, <2>1, PushKeeps
  <2>6. /\ \A k \in Lanes : app'[k].eos = "yes" =>
             app[k].eos = "yes" \/ (caps' # 0 /\ seeking = NoSeek /\ p.eosPending[k])
        /\ \A k \in Lanes : app'[k].asked = app[k].asked
        /\ caps' = 0 => app' = app
    BY <1>1, <2>1, EndEnds
  <2>7. owed' = more
    BY <2>1
  <2> HIDE DEF held, rest
  <2> QED BY <2>3, <2>4, <2>5, <2>6, <2>7 DEF Ending
<1> QED BY <1>4, <1>5, <1>6 DEF Drain

\* onVideoFinished(), onAudioFinished() of a lane that is ending
LEMMA FinishedEnding ==
  ASSUME NEW K, Handling(K), NEW D, EndingFrom(D), NEW l \in Lanes, Speaks(l) => l \in D,
         NEW more, OnFinished(l, more)
  PROVE  Ending(D, more) /\ mail' = mail
<1>0. mail' = mail
  BY DEF OnFinished
<1>1. CASE pump.dual
  <2> DEFINE p == [pump EXCEPT !.eosPending[l] = TRUE]
  <2>1. Drain(p, demux, l, more)
    BY <1>1 DEF OnFinished
  <2>2. p \in Pumps /\ p.dual
    BY <1>1, PendingGives DEF Handling
  <2>3. \A k \in Lanes : p.eosPending[k] => k \in D
    BY <1>1 DEF EndingFrom, Handling, Pumps, Speaks
  <2> HIDE DEF p
  <2>4. demux \in [Lanes -> DemuxesOf(K)]
    BY DEF Handling
  <2>5. \A k \in Lanes : app[k].eos = "yes" =>
           k \in D /\ hold[k] = <<>> /\ demux[k].samples = <<>>
    BY <1>1 DEF EndingFrom
  <2>6. Ending(D, more)
    BY <1>1, <2>1, <2>2, <2>3, <2>4, <2>5, DrainEnding
  <2> QED BY <1>0, <2>6
<1>2. CASE ~pump.dual
  <2> DEFINE ends == [k \in Lanes |-> k = "video" /\ l = "video"]
  <2>1. /\ End(ends, Both(<<>>))
        /\ owed' = more /\ UNCHANGED <<pump, demux, hold, pushed>>
    BY <1>2 DEF OnFinished
  <2>2. \A k \in Lanes : ends[k] => k \in D
    BY DEF Speaks
  <2> HIDE DEF ends
  <2>3. /\ \A k \in Lanes : app'[k].eos = "yes" =>
             app[k].eos = "yes" \/ (caps' # 0 /\ seeking = NoSeek /\ ends[k])
        /\ \A k \in Lanes : app'[k].asked = app[k].asked
        /\ caps' = 0 => app' = app
    BY <2>1, EndEnds DEF Handling
  <2>4. Ending(D, more)
    BY <1>2, <2>1, <2>2, <2>3 DEF Ending, EndingFrom
  <2> QED BY <1>0, <2>4
<1> QED BY <1>1, <1>2

\* onVideoData() of a single stream that is not ending
LEMMA BytesEnding ==
  ASSUME NEW K, Handling(K), NEW D, EndingFrom(D), NEW l \in Lanes, l \notin D,
         NEW w, NEW more, OnBytes(l, w, more)
  PROVE  Ending(D, more) /\ mail' = mail
<1> DEFINE raw == [k \in Lanes |->
                     IF k # l \/ l = "audio" THEN <<>>
                     ELSE [i \in 1..w.n |-> [session |-> w.url, unit |-> w.from + i]]]
           ends == Both(FALSE)
<1>1. /\ ~pump.dual /\ Push(raw) /\ End(ends, raw)
      /\ owed' = more /\ UNCHANGED <<pump, demux, hold, broken, mail>>
  BY DEF OnBytes
<1>2. \A k \in Lanes : ~ends[k]
  BY DEF Both
<1>3. \A k \in D \cap Lanes : raw[k] = <<>>
  OBVIOUS
<1> HIDE DEF raw, ends
<1>4. /\ \A k \in Lanes : app'[k].eos = "yes" => app[k].eos = "yes"
      /\ \A k \in Lanes : app'[k].asked = app[k].asked
      /\ caps' = 0 => app' = app
  BY <1>1, <1>2, EndEnds DEF Handling
<1>5. \A k \in Lanes : app[k].eos = "yes" => pushed'[k] = pushed[k]
  BY <1>1, <1>3, PushKeeps DEF Handling, EndingFrom
<1> QED BY <1>1, <1>4, <1>5 DEF Ending, EndingFrom

\* onVideoData(), onAudioData() of a lane that is not ending
LEMMA SamplesEnding ==
  ASSUME NEW K, K \subseteq Sessions, Handling(K), NEW D, EndingFrom(D), NEW l \in Lanes,
         l \notin D, NEW w \in BS!Windows(K, FileSize[l]), NEW more, OnSamples(l, w, more)
  PROVE  Ending(D, more) /\ Writes
<1> DEFINE d == [demux EXCEPT ![l] = Feed(@, l, w)]
<1>1. d \in [Lanes -> DemuxesOf(K)]
  BY FeedGives DEF Handling
<1>2. \A k \in D \cap Lanes : d[k] = demux[k]
  BY DEF Handling
<1>3. \/ demux' = d /\ owed' = more /\ UNCHANGED <<pump, hold, mail, app, pushed>>
      \/ demux' = d /\ owed' = more \cup {l} /\ UNCHANGED <<pump, hold, mail, app, pushed>>
      \/ /\ mail' = IF BothReady(pump, d)
                    THEN Append(mail, [kind |-> "es", session |-> session]) ELSE mail
         /\ Drain(EsReady(pump, d), d, l, more)
  BY DEF OnSamples
<1>4. pump.dual
  BY DEF OnSamples
<1> HIDE DEF d
<1>5. \A k \in Lanes : app[k].eos = "yes" =>
         k \in D /\ hold[k] = <<>> /\ d[k].samples = <<>>
  BY <1>2, <1>4 DEF EndingFrom
<1>6. CASE demux' = d /\ more \subseteq owed' /\ UNCHANGED <<pump, hold, mail, app, pushed>>
  BY <1>4, <1>5, <1>6 DEF Ending, EndingFrom, Writes
<1>7. CASE /\ mail' = IF BothReady(pump, d)
                      THEN Append(mail, [kind |-> "es", session |-> session]) ELSE mail
           /\ Drain(EsReady(pump, d), d, l, more)
  <2> DEFINE p == EsReady(pump, d)
  <2>1. p \in Pumps /\ p.dual = pump.dual
    BY EsReadyGives DEF Handling
  <2>2. p.eosPending = pump.eosPending
    BY DEF EsReady, Rearm, Handling, Pumps
  <2>3. Drain(p, d, l, more)
    BY <1>7
  <2> HIDE DEF p
  <2>4. \A k \in Lanes : p.eosPending[k] => k \in D
    BY <2>2 DEF EndingFrom
  <2>5. Ending(D, more)
    BY <1>1, <1>4, <1>5, <2>1, <2>3, <2>4, DrainEnding
  <2>6. Writes
    BY <1>4, <1>7 DEF Writes
  <2> QED BY <2>5, <2>6
<1> QED BY <1>3, <1>6, <1>7

LEMMA DataEnding ==
  ASSUME NEW K, K \subseteq Sessions, Handling(K), NEW D, EndingFrom(D), NEW l \in Lanes,
         l \notin D, NEW U, NEW w \in BS!Windows(U, FileSize[l]), pump.dual => U = K,
         NEW more, OnData(l, w, more)
  PROVE  Ending(D, more) /\ Writes
<1>1. CASE OnBytes(l, w, more)
  BY <1>1, BytesEnding DEF Writes
<1>2. CASE OnStaleData(l, more)
  BY <1>2 DEF OnStaleData, Ending, EndingFrom, Writes
<1>3. CASE OnSamples(l, w, more)
  <2>1. U = K
    BY <1>3 DEF OnSamples
  <2> QED BY <1>3, <2>1, SamplesEnding
<1> QED BY <1>1, <1>2, <1>3 DEF OnData

-----------------------------------------------------------------------------
(* The ends and the steps of the media thread                              *)

\* Nothing was pushed behind an end.
LastStep ==
  \A l \in Lanes : app[l].eos = "yes" /\ app'[l].eos = "yes" => pushed'[l] = pushed[l]

LEMMA LetterAdded ==
  ASSUME NEW S, mail \in Seq(Letters), \A i \in DOMAIN mail : mail[i].session \in S,
         NEW kind, session \in S, mail' = Append(mail, [kind |-> kind, session |-> session])
  PROVE  \A i \in DOMAIN mail' : mail'[i].session \in S
<1> DEFINE e == [kind |-> kind, session |-> session]
<1>1. e.session \in S
  OBVIOUS
<1>2. mail' = Append(mail, e)
  OBVIOUS
<1> HIDE DEF e
<1>3. \A i \in DOMAIN mail' : mail'[i] = e \/ (i \in DOMAIN mail /\ mail'[i] = mail[i])
  BY <1>2
<1> QED BY <1>1, <1>3

LEMMA StageKept ==
  ASSUME PumpInv, StageInv, UNCHANGED <<session, gui, seeking, caps>>,
         caps' = 0 => app' = app,
         mail' = mail \/ \E kind : session # 0 /\ mail' = Append(mail, [kind |-> kind, session |-> session])
  PROVE  StageInv'
<1>1. Past' = Past /\ mail \in Seq(Letters)
  BY DEF Past, PumpInv, Handling
<1>2. \A i \in DOMAIN mail' : mail'[i].session \in Past
  <2>1. CASE mail' = mail
    BY <2>1 DEF StageInv
  <2>2. CASE \E kind : session # 0 /\ mail' = Append(mail, [kind |-> kind, session |-> session])
    <3>1. PICK kind : session # 0 /\ mail' = Append(mail, [kind |-> kind, session |-> session])
      BY <2>2
    <3>2. session \in Past
      BY <3>1, SessionsAre DEF Past, PumpInv, Commanding
    <3> QED BY <1>1, <3>1, <3>2, LetterAdded DEF StageInv
  <2> QED BY <2>1, <2>2
<1> QED BY <1>1, <1>2 DEF StageInv

\* A step of the media thread that moves the source of lane l on, to t.
LEMMA LastMoves ==
  ASSUME PumpInv, LastInv, NEW l \in Lanes, NEW t, src' = [src EXCEPT ![l] = t],
         NEW D, NEW more, Ending(D, more), Writes,
         UNCHANGED <<session, gui, seeking, caps>>,
         \A k \in D \cap Lanes : Speaks(k) /\ Done(src'[k]),
         owed \ {l} \subseteq more, more \subseteq owed,
         t.waiting => /\ t.url # 0
                      /\ Speaks(l) /\ t.ready # <<>> => l \in owed' /\ Tail(t.ready) = <<>>,
         l = "video" => t.stray = {},
         l = "video" /\ ~pump.dual /\ Probing(t) =>
           Probing(src[l]) /\ ~t.waiting /\ "video" \notin more
  PROVE  LastInv' /\ LastStep
<1>1. src'[l] = t /\ \A k \in Lanes : k # l => src'[k] = src[k]
  BY DEF PumpInv, SourcesInv
<1>2. /\ pump'.dual = pump.dual /\ more \subseteq owed'
      /\ \A k \in Lanes : Speaks(k)' = Speaks(k)
  BY DEF Ending, Speaks
<1>3. StageInv'
  <2>1. caps' = 0 => app' = app
    BY DEF Ending
  <2>2. mail' = mail \/ (session # 0 /\ mail' = Append(mail, [kind |-> "es", session |-> session]))
    BY DEF Writes, PumpInv, DualInv
  <2> QED BY <2>1, <2>2, StageKept DEF LastInv
<1>4. EndInv'
  <2>1. \A k \in Lanes : pump'.eosPending[k] \/ app'[k].eos = "yes" => k \in D
    BY DEF Ending
  <2>2. \A k \in Lanes : app'[k].eos = "yes" => seeking = NoSeek
    BY DEF Ending, LastInv, EndInv
  <2>3. /\ ~pump.dual => \A k \in Lanes : ~pump'.eosPending[k]
        /\ pump.dual => \A k \in Lanes : app'[k].eos = "yes" =>
             hold'[k] = <<>> /\ demux'[k].samples = <<>>
    BY DEF Ending
  <2>4. \A k \in Lanes : pump'.eosPending[k] \/ app'[k].eos = "yes" =>
           Speaks(k)' /\ Done(src'[k])
    BY <1>2, <2>1
  <2> QED BY <1>2, <2>2, <2>3, <2>4 DEF EndInv, Done
<1>5. WaitInv'
  <2>1. SUFFICES ASSUME NEW k \in Lanes, src'[k].waiting
                 PROVE  /\ src'[k].url # 0
                        /\ Speaks(k) /\ src'[k].ready # <<>> =>
                             k \in owed' /\ Tail(src'[k].ready) = <<>>
    BY <1>2 DEF WaitInv
  <2>2. CASE k = l
    BY <1>1, <2>1, <2>2
  <2>3. CASE k # l
    BY <1>1, <1>2, <2>1, <2>3 DEF LastInv, WaitInv
  <2> QED BY <2>2, <2>3
<1>6. ProbeInv'
  <2>1. src'["video"].stray = {}
    BY <1>1 DEF LastInv, ProbeInv, Lanes
  <2>2. SUFFICES ASSUME ~pump.dual, Probing(src'["video"])
                 PROVE  /\ caps' = 0 /\ ~app'["video"].asked /\ "video" \notin owed'
                        /\ ~src'["video"].waiting
                        /\ \A i \in DOMAIN mail' :
                             mail'[i].kind = "opened" => mail'[i].session # session'
    BY <1>2, <2>1 DEF ProbeInv, Probing
  <2>3. Probing(src["video"]) /\ ~src'["video"].waiting /\ "video" \notin more
    BY <1>1, <2>2 DEF LastInv, ProbeInv, Lanes
  <2>4. /\ caps = 0 /\ ~app["video"].asked
        /\ \A i \in DOMAIN mail : mail[i].kind = "opened" => mail[i].session # session
    BY <2>2, <2>3 DEF LastInv, ProbeInv
  <2>5. mail' = mail /\ owed' = more /\ ~app'["video"].asked
    BY <2>2, <2>4 DEF Ending, Writes, Lanes
  <2> QED BY <2>3, <2>4, <2>5
<1>7. LastStep
  BY DEF Ending, LastStep
<1> QED BY <1>3, <1>4, <1>5, <1>6, <1>7 DEF LastInv

\* Where every handler starts.
LEMMA LastStarts ==
  ASSUME LastInv, NEW D, \A k \in Lanes : Speaks(k) /\ Done(src[k]) => k \in D
  PROVE  EndingFrom(D)
BY DEF LastInv, EndInv, EndingFrom

LEMMA LastIdle ==
  ASSUME LastInv, Idle, NEW l \in Lanes, src[l].waiting
  PROVE  src[l].url # 0 /\ (Speaks(l) => src[l].ready = <<>>)
BY DEF LastInv, WaitInv, Idle

-----------------------------------------------------------------------------
(* What the methods of a source leave                                      *)

LEMMA ProbedIs ==
  ASSUME NEW U, NEW size, NEW s \in BS!Sources(U, size), NEW n, NEW ranged
  PROVE  LET t == BS!Probed(s, n, ranged)
         IN /\ t.url = s.url /\ t.waiting = s.waiting /\ t.reply = NoReply /\ t.stray = s.stray
            /\ t.ready = s.ready \/ t.ready = Append(s.ready, BS!Brought(s, n))
<1>0. Shaped(s)
  BY SourceShaped
<1> QED BY <1>0 DEF BS!Probed, Shaped

LEMMA LandedIs ==
  ASSUME NEW U, NEW size, NEW s \in BS!Sources(U, size), NEW n
  PROVE  LET t == BS!Landed(s, n)
         IN /\ t.url = s.url /\ t.waiting = FALSE /\ t.reply = NoReply /\ t.stray = s.stray
            /\ s.waiting \/ n = 0 => t.ready = s.ready
            /\ n = 0 => t.eof
<1>0. Shaped(s)
  BY SourceShaped
<1> QED BY <1>0 DEF BS!Landed, Shaped

LEMMA TopUpIs ==
  ASSUME NEW U, NEW size, NEW s \in BS!Sources(U, size)
  PROVE  LET t == BS!TopUp(s, size)
         IN /\ t.url = s.url /\ t.waiting = s.waiting /\ t.ready = s.ready
            /\ t.stray = s.stray
            /\ t.reply = s.reply \/ t.reply.slot = "window"
            /\ Done(s) => t = s
<1> DEFINE t == BS!TopUp(s, size)
           e == [s EXCEPT !.eof = TRUE]
           i == BS!Issue(s, "window")
<1>0. Shaped(s)
  BY SourceShaped
<1>1. CASE s.url = 0 \/ s.reply # NoReply \/ s.eof
  <2>1. t \in {s, e}
    BY <1>1 DEF BS!TopUp
  <2>2. Done(s) => t = s
    BY <1>0, <1>1, <2>1 DEF Done, Shaped
  <2>3. /\ e.url = s.url /\ e.waiting = s.waiting /\ e.ready = s.ready
        /\ e.stray = s.stray /\ e.reply = s.reply
    BY <1>0 DEF Shaped
  <2> HIDE DEF t, e
  <2>4. /\ t.url = s.url /\ t.waiting = s.waiting /\ t.ready = s.ready
        /\ t.stray = s.stray /\ t.reply = s.reply
    BY <2>1, <2>3
  <2> QED BY <2>2, <2>4 DEF t
<1>2. CASE ~(s.url = 0 \/ s.reply # NoReply \/ s.eof)
  <2>1. t \in {s, e, i}
    BY <1>2 DEF BS!TopUp
  <2>2. /\ i.url = s.url /\ i.waiting = s.waiting /\ i.ready = s.ready
        /\ i.stray = s.stray /\ i.reply.slot = "window"
    BY <1>0, <1>2 DEF Shaped, BS!Issue
  <2>3. /\ e.url = s.url /\ e.waiting = s.waiting /\ e.ready = s.ready
        /\ e.stray = s.stray /\ e.reply = s.reply
    BY <1>0 DEF Shaped
  <2>4. ~Done(s)
    BY <1>2 DEF Done
  <2> HIDE DEF t, e, i
  <2>5. /\ t.url = s.url /\ t.waiting = s.waiting /\ t.ready = s.ready
        /\ t.stray = s.stray /\ (t.reply = s.reply \/ t.reply.slot = "window")
    BY <2>1, <2>2, <2>3
  <2> QED BY <2>4, <2>5 DEF t
<1> QED BY <1>1, <1>2

LEMMA WaitIs ==
  ASSUME NEW U, NEW size, NEW s \in BS!Sources(U, size)
  PROVE  LET t == BS!Wait(s, size)
         IN /\ t.url = s.url /\ t.ready = s.ready /\ t.stray = s.stray
            /\ t.reply = s.reply \/ t.reply.slot = "window"
<1> DEFINE w == [s EXCEPT !.waiting = TRUE]
<1>1. w \in BS!Sources(U, size)
  BY DEF BS!Sources
<1>2. w.url = s.url /\ w.ready = s.ready /\ w.stray = s.stray /\ w.reply = s.reply
  <2>1. Shaped(s)
    BY SourceShaped
  <2> QED BY <2>1 DEF Shaped
<1>3. BS!Wait(s, size) = BS!TopUp(w, size)
  BY DEF BS!Wait
<1> HIDE DEF w
<1> QED BY <1>1, <1>2, <1>3, TopUpIs

\* onProbeFinished() of a source that is s by now.
LEMMA LastProbe ==
  ASSUME PumpInv, LastInv, Idle, NEW l \in Lanes, NEW s \in BS!Sources(UrlsOf(l), FileSize[l]),
         s.url = src[l].url, s.waiting = src[l].waiting, s.ready = src[l].ready,
         src[l].reply # NoReply, l = "video" => s.stray = {} /\ Probing(src[l]),
         NEW n, NEW ranged, src' = [src EXCEPT ![l] = BS!Probed(s, n, ranged)], OnOpened(l),
         UNCHANGED <<session, gui, seeking, caps>>
  PROVE  LastInv' /\ LastStep
<1>1. /\ OnOpened(l) /\ pump' = [pump EXCEPT !.open[l] = @ \/ pump.dual]
      /\ UNCHANGED <<demux, hold, broken, app, pushed>>
  BY DEF OnOpened
<1>2. pump'.dual = pump.dual /\ pump'.eosPending = pump.eosPending
  BY <1>1 DEF PumpInv, Handling, Pumps
<1>3. PICK t : t = BS!Probed(s, n, ranged)
  OBVIOUS
<1>4. /\ t.url = s.url /\ t.waiting = s.waiting /\ t.reply = NoReply /\ t.stray = s.stray
      /\ t.ready = s.ready \/ t.ready = Append(s.ready, BS!Brought(s, n))
  BY <1>3, ProbedIs, SMTT(20)
<1>5. src'[l] = t /\ \A k \in Lanes : k # l => src'[k] = src[k]
  BY <1>3 DEF PumpInv, SourcesInv
<1>6. \A k \in Lanes : Speaks(k)' = Speaks(k)
  BY <1>2 DEF Speaks
<1>7. StageInv'
  <2>1. session # 0
    <3>1. src[l].reply.url \in UrlsOf(l)
      BY DEF PumpInv, SourcesInv, BS!Sources, BS!Replies
    <3> QED BY <3>1, UrlsAre, SessionsAre DEF PumpInv
  <2>2. mail' = mail \/ (session # 0 /\ mail' = Append(mail, [kind |-> "opened", session |-> session]))
    BY <2>1 DEF OnOpened
  <2> QED BY <1>1, <2>2, StageKept DEF LastInv
<1>8. EndInv'
  <2>1. \A k \in Lanes : pump.eosPending[k] \/ app[k].eos = "yes" => k # l
    BY DEF LastInv, EndInv, Done
  <2>2. \A k \in Lanes : pump.eosPending[k] \/ app[k].eos = "yes" =>
           Speaks(k)' /\ Done(src'[k])
    BY <1>5, <1>6, <2>1 DEF LastInv, EndInv
  <2> QED BY <1>1, <1>2, <2>2 DEF LastInv, EndInv, Done
<1>9. WaitInv'
  <2>1. SUFFICES ASSUME NEW k \in Lanes, src'[k].waiting
                 PROVE  /\ src'[k].url # 0
                        /\ Speaks(k) /\ src'[k].ready # <<>> =>
                             k \in owed' /\ Tail(src'[k].ready) = <<>>
    BY <1>6 DEF WaitInv
  <2>2. CASE k = l
    <3>1. src[l].waiting
      BY <1>4, <1>5, <2>1, <2>2
    <3>2. t.url # 0
      BY <1>4, <3>1, LastIdle
    <3>3. ASSUME Speaks(l), t.ready # <<>>
          PROVE  l \in owed' /\ Tail(t.ready) = <<>>
      <4>1. pump.dual
        BY <3>1, <3>3 DEF Speaks, LastInv, ProbeInv
      <4>2. owed' = {l}
        BY <1>1, <4>1 DEF OnOpened
      <4>3. s.ready = <<>>
        BY <3>1, <3>3, LastIdle
      <4>4. t.ready = Append(<<>>, BS!Brought(s, n))
        BY <1>4, <3>3, <4>3
      <4>5. Tail(t.ready) = <<>>
        BY <4>4
      <4> QED BY <4>2, <4>5
    <3> QED BY <1>5, <2>2, <3>2, <3>3
  <2>3. CASE k # l
    <3>1. src[k].waiting
      BY <1>5, <2>1, <2>3
    <3> QED BY <1>5, <2>3, <3>1, LastIdle
  <2> QED BY <2>2, <2>3
<1>10. ProbeInv'
  <2>1. src'["video"].stray = {}
    BY <1>4, <1>5 DEF LastInv, ProbeInv, Lanes
  <2>2. SUFFICES ASSUME ~pump.dual, Probing(src'["video"])
                 PROVE  /\ caps' = 0 /\ ~app'["video"].asked /\ "video" \notin owed'
                        /\ ~src'["video"].waiting
                        /\ \A i \in DOMAIN mail' :
                             mail'[i].kind = "opened" => mail'[i].session # session'
    BY <1>2, <2>1 DEF ProbeInv, Probing
  <2>3. l # "video"
    BY <1>4, <1>5, <2>2 DEF Probing
  <2>4. mail' = mail /\ owed' = {}
    BY <1>1, <2>2, <2>3 DEF OnOpened
  <2>5. src'["video"] = src["video"]
    BY <1>5, <2>3 DEF Lanes
  <2> QED BY <1>1, <2>2, <2>4, <2>5 DEF LastInv, ProbeInv
<1>11. LastStep
  BY <1>1 DEF LastStep
<1> QED BY <1>7, <1>8, <1>9, <1>10, <1>11 DEF LastInv

\* onWindowFinished() of a source that is s by now.
LEMMA LastWindow ==
  ASSUME PumpInv, LastInv, Idle, NEW l \in Lanes, NEW s \in BS!Sources(UrlsOf(l), FileSize[l]),
         s.url = src[l].url, s.waiting = src[l].waiting, s.ready = src[l].ready,
         s.reply = src[l].reply, s.offset = src[l].offset,
         s.reply # NoReply, l = "video" => s.stray = {},
         NEW n \in 0..Window, s.offset + n <= FileSize[l], WindowOf(l, s, n),
         UNCHANGED <<session, gui, seeking, caps>>
  PROVE  LastInv' /\ LastStep
<1> PICK K : K = Kept
  OBVIOUS
<1> PICK U : U = UrlsOf(l)
  OBVIOUS
<1>1. /\ Handling(K) /\ K \subseteq Sessions /\ (pump.dual => U = K)
      /\ s \in BS!Sources(U, FileSize[l]) /\ FileSize[l] \in Nat
  BY UrlsAre, SizeIs DEF PumpInv
<1>2. PICK t : t = BS!Landed(s, n)
  OBVIOUS
<1>3. /\ t.url = s.url /\ t.waiting = FALSE /\ t.reply = NoReply /\ t.stray = s.stray
      /\ s.waiting \/ n = 0 => t.ready = s.ready
      /\ n = 0 => t.eof
  <2> DEFINE u == BS!Landed(s, n)
  <2>1. /\ u.url = s.url /\ u.waiting = FALSE /\ u.reply = NoReply /\ u.stray = s.stray
        /\ s.waiting \/ n = 0 => u.ready = s.ready
        /\ n = 0 => u.eof
    BY LandedIs
  <2> HIDE DEF u
  <2>2. t = u
    BY <1>2 DEF u
  <2> QED BY <2>1, <2>2
<1>4. src' = [src EXCEPT ![l] = t]
  BY <1>2 DEF WindowOf
<1>5. src'[l] = t /\ \A k \in Lanes : k # l => src'[k] = src[k]
  BY <1>4 DEF PumpInv, SourcesInv
<1> PICK E : E = {k \in Lanes : Speaks(k) /\ Done(src[k])}
  OBVIOUS
<1>6. l \notin E /\ \A k \in E : Speaks(k) /\ Done(src'[k])
  BY <1>5 DEF Done
<1>7. owed = {} /\ ~Probing(t)
  BY <1>3 DEF Idle, Probing
<1>8. CASE n = 0 /\ s.waiting /\ OnFinished(l, {})
  <2> PICK D : D = E \cup (IF Speaks(l) THEN {l} ELSE {})
    OBVIOUS
  <2>1. EndingFrom(D)
    BY LastStarts
  <2>2. Ending(D, {}) /\ mail' = mail
    <3>1. Handling(K) /\ OnFinished(l, {}) /\ (Speaks(l) => l \in D)
      BY <1>1, <1>8
    <3> QED BY <2>1, <3>1, FinishedEnding
  <2>3. Speaks(l) => Done(t)
    BY <1>3, <1>8, LastIdle DEF Done
  <2>4. \A k \in D \cap Lanes : Speaks(k) /\ Done(src'[k])
    BY <1>5, <1>6, <2>3
  <2> QED BY <1>3, <1>4, <1>7, <2>2, <2>4, LastMoves DEF Writes
<1>9. CASE n > 0 /\ s.waiting /\ OnData(l, BS!Brought(s, n), {})
  <2> DEFINE w == BS!Brought(s, n)
  <2>1. w \in BS!Windows(U, FileSize[l]) /\ OnData(l, w, {})
    BY <1>1, <1>9, BroughtFits, PlanAssumption
  <2> HIDE DEF w
  <2>2. EndingFrom(E)
    BY LastStarts
  <2>3. Ending(E, {}) /\ Writes
    <3>1. Handling(K) /\ K \subseteq Sessions /\ (pump.dual => U = K) /\ l \notin E
      BY <1>1, <1>6
    <3> QED BY <2>1, <2>2, <3>1, DataEnding
  <2> QED BY <1>3, <1>4, <1>6, <1>7, <2>3, LastMoves
<1>10. CASE ~s.waiting /\ UNCHANGED <<pump, demux, hold, owed, broken, mail, app, pushed>>
  <2>1. EndingFrom(E)
    BY LastStarts
  <2>2. Ending(E, {}) /\ Writes
    BY <1>7, <1>10, <2>1 DEF Ending, EndingFrom, Writes
  <2> QED BY <1>3, <1>4, <1>6, <1>7, <2>2, LastMoves
<1> QED BY <1>8, <1>9, <1>10 DEF WindowOf

LEMMA LastProbeLands ==
  ASSUME PumpInv, LastInv, NEW l \in Lanes, NEW ranged, ProbeLands(l, ranged)
  PROVE  LastInv' /\ LastStep
<1> DEFINE n == BS!Answered(src[l], FileSize[l])
<1>1. src[l] \in BS!Sources(UrlsOf(l), FileSize[l])
  BY AnswerFits DEF PumpInv
<1>2. src' = [src EXCEPT ![l] = BS!Probed(src[l], n, ranged)]
  BY DEF ProbeLands
<1> HIDE DEF n
<1>3. /\ Idle /\ src[l].reply # NoReply /\ Probing(src[l]) /\ OnOpened(l)
      /\ UNCHANGED <<session, gui, seeking, caps>>
  BY DEF ProbeLands, Probing
<1>4. l = "video" => src[l].stray = {}
  BY DEF LastInv, ProbeInv
<1> QED BY <1>1, <1>2, <1>3, <1>4, LastProbe

LEMMA LastWindowLands ==
  ASSUME PumpInv, LastInv, NEW l \in Lanes, WindowLands(l)
  PROVE  LastInv' /\ LastStep
<1> DEFINE n == BS!Answered(src[l], FileSize[l])
<1>1. /\ n \in 0..Window /\ src[l].offset + n <= FileSize[l]
      /\ src[l] \in BS!Sources(UrlsOf(l), FileSize[l])
  BY AnswerFits DEF PumpInv
<1>2. WindowOf(l, src[l], n)
  BY DEF WindowLands
<1> HIDE DEF n
<1>3. Idle /\ src[l].reply # NoReply /\ UNCHANGED <<session, gui, seeking, caps>>
  BY DEF WindowLands
<1>4. l = "video" => src[l].stray = {}
  BY DEF LastInv, ProbeInv
<1> QED BY <1>1, <1>2, <1>3, <1>4, LastWindow

LEMMA EndingNothing ==
  ASSUME NEW D, EndingFrom(D), NEW more, owed' = more,
         UNCHANGED <<pump, demux, hold, mail, app, pushed>>
  PROVE  Ending(D, more) /\ Writes
BY DEF Ending, EndingFrom, Writes

LEMMA LastFetchFails ==
  ASSUME PumpInv, LastInv, NEW l \in Lanes, FetchFails(l)
  PROVE  LastInv' /\ LastStep
<1> PICK E : E = {k \in Lanes : Speaks(k) /\ Done(src[k])}
  OBVIOUS
<1> DEFINE t == [src[l] EXCEPT !.reply = NoReply]
<1>1. Shaped(src[l])
  BY SourceShaped DEF PumpInv, SourcesInv
<1>2. /\ t.url = src[l].url /\ t.waiting = src[l].waiting /\ t.ready = src[l].ready
      /\ t.stray = src[l].stray /\ ~Probing(t)
  BY <1>1 DEF Shaped, Probing
<1>3. /\ Idle /\ src[l].reply # NoReply /\ src' = [src EXCEPT ![l] = t]
      /\ UNCHANGED <<pump, demux, hold, owed, guiVars, pipeVars>>
  BY DEF FetchFails, PumpInv, SourcesInv
<1> HIDE DEF t
<1>4. UNCHANGED <<pump, demux, hold, owed, mail, app, pushed, session, gui, seeking, caps>>
  BY <1>3 DEF guiVars, pipeVars
<1>5. Ending(E, owed) /\ Writes
  BY <1>4, LastStarts, EndingNothing
<1>6. \A k \in E : Speaks(k) /\ Done(src'[k])
  BY <1>3 DEF Done, PumpInv, SourcesInv
<1>7. t.waiting => t.url # 0 /\ (Speaks(l) => t.ready = <<>>)
  BY <1>2, <1>3, LastIdle
<1>8. l = "video" => t.stray = {}
  BY <1>2 DEF LastInv, ProbeInv
<1> QED BY <1>2, <1>3, <1>4, <1>5, <1>6, <1>7, <1>8, LastMoves

LEMMA LastStrayLands ==
  ASSUME PumpInv, LastInv, NEW l \in Lanes, NEW slot \in BS!Slots, NEW n \in 0..Window,
         StrayLands(l, slot, n)
  PROVE  LastInv' /\ LastStep
<1> DEFINE s == [src[l] EXCEPT !.stray = @ \ {slot}]
<1>1. /\ src[l] \in BS!Sources(UrlsOf(l), FileSize[l])
      /\ src[l].offset + n <= FileSize[l] /\ src[l].reply # NoReply
  <2>1. n <= BS!Answered(src[l], FileSize[l]) /\ src[l].reply # NoReply
    BY DEF StrayLands
  <2>2. /\ src[l] \in BS!Sources(UrlsOf(l), FileSize[l])
        /\ src[l].offset + BS!Answered(src[l], FileSize[l]) <= FileSize[l]
        /\ BS!Answered(src[l], FileSize[l]) \in 0..Window
    BY AnswerFits DEF PumpInv
  <2>3. src[l].offset \in Nat /\ FileSize[l] \in Nat /\ Window \in Nat
    BY <2>2, SizeIs, PlanAssumption DEF BS!Sources
  <2> QED BY <2>1, <2>2, <2>3
<1>2. /\ s \in BS!Sources(UrlsOf(l), FileSize[l]) /\ s.reply = src[l].reply
      /\ s.offset = src[l].offset /\ s.url = src[l].url /\ s.waiting = src[l].waiting
      /\ s.ready = src[l].ready
  BY <1>1 DEF BS!Sources
<1>3. /\ Idle /\ UNCHANGED <<session, gui, seeking, caps>> /\ slot \in src[l].stray
      /\ \/ src' = [src EXCEPT ![l] = BS!Probed(s, n, FALSE)] /\ OnOpened(l)
         \/ WindowOf(l, s, n)
  BY DEF StrayLands
<1>4. l # "video"
  BY <1>3 DEF LastInv, ProbeInv
<1> HIDE DEF s
<1>5. s.reply # NoReply /\ s.offset + n <= FileSize[l]
  BY <1>1, <1>2
<1>6. CASE src' = [src EXCEPT ![l] = BS!Probed(s, n, FALSE)] /\ OnOpened(l)
  <2>1. PICK ranged : ranged = FALSE
    OBVIOUS
  <2>2. src' = [src EXCEPT ![l] = BS!Probed(s, n, ranged)] /\ OnOpened(l)
    BY <1>6, <2>1
  <2>3. src[l].reply # NoReply /\ Idle /\ UNCHANGED <<session, gui, seeking, caps>>
    BY <1>1, <1>3
  <2> QED BY <1>2, <1>4, <2>2, <2>3, LastProbe
<1>7. CASE WindowOf(l, s, n)
  BY <1>2, <1>3, <1>4, <1>5, <1>7, LastWindow
<1> QED BY <1>3, <1>6, <1>7

LEMMA LastUnwind ==
  ASSUME PumpInv, LastInv, NEW l \in Lanes, Unwind(l)
  PROVE  LastInv' /\ LastStep
<1> PICK E : E = {k \in Lanes : Speaks(k) /\ Done(src[k])}
  OBVIOUS
<1> DEFINE t == BS!TopUp(src[l], FileSize[l])
<1>1. /\ t.url = src[l].url /\ t.waiting = src[l].waiting /\ t.ready = src[l].ready
      /\ t.stray = src[l].stray
      /\ t.reply = src[l].reply \/ t.reply.slot = "window"
      /\ Done(src[l]) => t = src[l]
  BY TopUpIs DEF PumpInv, SourcesInv
<1>2. /\ src' = [src EXCEPT ![l] = t] /\ owed = {}
      /\ UNCHANGED <<pump, demux, hold, owed, guiVars, pipeVars>>
  BY DEF Unwind
<1> HIDE DEF t
<1>3. UNCHANGED <<pump, demux, hold, owed, mail, app, pushed, session, gui, seeking, caps>>
  BY <1>2 DEF guiVars, pipeVars
<1>4. Ending(E, owed) /\ Writes
  BY <1>3, LastStarts, EndingNothing
<1>5. \A k \in E : Speaks(k) /\ Done(src'[k])
  BY <1>1, <1>2 DEF PumpInv, SourcesInv
<1>6. t.waiting => t.url # 0 /\ (Speaks(l) => t.ready = <<>>)
  BY <1>1, <1>2 DEF LastInv, WaitInv
<1>7. l = "video" => t.stray = {}
  BY <1>1 DEF LastInv, ProbeInv
<1>8. Probing(t) => Probing(src[l])
  BY <1>1 DEF Probing
<1>9. ~pump.dual /\ Probing(src["video"]) => ~src["video"].waiting
  BY DEF LastInv, ProbeInv
<1> QED BY <1>1, <1>2, <1>3, <1>4, <1>5, <1>6, <1>7, <1>8, <1>9, LastMoves

\* A request that leaves the source as it is.
LEMMA LastStays ==
  ASSUME PumpInv, LastInv, NEW l \in owed, src' = src, NEW D, NEW more,
         Ending(D, more), Writes, UNCHANGED <<session, gui, seeking, caps>>,
         \A k \in D \cap Lanes : Speaks(k) /\ Done(src[k]),
         owed \ {l} \subseteq more, more \subseteq owed,
         src[l].waiting /\ Speaks(l) => src[l].ready = <<>>
  PROVE  LastInv' /\ LastStep
<1>0. l \in Lanes /\ src \in [Lanes -> {src["video"], src["audio"]}]
  BY DEF PumpInv, Handling, SourcesInv
<1> DEFINE t == src[l]
<1>1. src' = [src EXCEPT ![l] = t]
  BY <1>0
<1>2. t.waiting => t.url # 0 /\ (Speaks(l) => t.ready = <<>>)
  BY <1>0 DEF LastInv, WaitInv
<1>3. l = "video" => t.stray = {}
  BY DEF LastInv, ProbeInv
<1>4. ~(l = "video" /\ ~pump.dual /\ Probing(t))
  BY DEF LastInv, ProbeInv
<1>5. \A k \in D \cap Lanes : Speaks(k) /\ Done(src'[k])
  OBVIOUS
<1>6. t.waiting => /\ t.url # 0
                   /\ Speaks(l) /\ t.ready # <<>> => l \in owed' /\ Tail(t.ready) = <<>>
  BY <1>2
<1>7. l = "video" /\ ~pump.dual /\ Probing(t) =>
        Probing(src[l]) /\ ~t.waiting /\ "video" \notin more
  BY <1>4
<1> HIDE DEF t
<1> QED BY <1>0, <1>1, <1>3, <1>5, <1>6, <1>7, LastMoves

\* requestData(), from inside the handler that owes it.
LEMMA LastServe ==
  ASSUME PumpInv, LastInv, NEW l \in Lanes, Serve(l)
  PROVE  LastInv' /\ LastStep
<1> PICK K : K = Kept
  OBVIOUS
<1> PICK U : U = UrlsOf(l)
  OBVIOUS
<1> PICK s : s = src[l]
  OBVIOUS
<1> PICK E : E = {k \in Lanes : Speaks(k) /\ Done(src[k])}
  OBVIOUS
<1> PICK more : more = owed \ {l}
  OBVIOUS
<1>1. Handling(K) /\ K \subseteq Sessions /\ (pump.dual => U = K)
  BY UrlsAre DEF PumpInv
<1>2. s \in BS!Sources(U, FileSize[l])
  BY DEF PumpInv, SourcesInv
<1>3. UNCHANGED <<session, gui, seeking, caps>> /\ Request(l, more) /\ l \in owed
  BY DEF Serve
<1>4. EndingFrom(E)
  BY LastStarts
<1>5. src \in [Lanes -> {src["video"], src["audio"]}]
  BY DEF PumpInv, SourcesInv
<1>6. ~(l = "video" /\ ~pump.dual /\ Probing(s))
  BY <1>3 DEF LastInv, ProbeInv
<1>7. /\ s.waiting => s.url # 0 /\ (Speaks(l) /\ s.ready # <<>> => Tail(s.ready) = <<>>)
      /\ l = "video" => s.stray = {}
  BY DEF LastInv, WaitInv, ProbeInv
<1>13. owed \ {l} \subseteq more /\ more \subseteq owed
  OBVIOUS
<1>8. CASE src' = src /\ Ending(E, more) /\ Writes /\ (s.waiting /\ Speaks(l) => s.ready = <<>>)
  <2>1. \A k \in E \cap Lanes : Speaks(k) /\ Done(src[k])
    OBVIOUS
  <2> QED BY <1>3, <1>8, <1>13, <2>1, LastStays
<1>9. CASE /\ s.url = 0 /\ owed' = more
           /\ UNCHANGED <<src, unwind, pump, demux, hold, broken, mail, app, pushed>>
  <2>1. Ending(E, more) /\ Writes
    BY <1>4, <1>9, EndingNothing
  <2> QED BY <1>7, <1>8, <1>9, <2>1
<1>10. CASE s.url # 0 /\ s.ready # <<>> /\ src' = [src EXCEPT ![l].ready = Tail(@)]
            /\ OnData(l, Head(s.ready), more)
  <2> DEFINE t == [s EXCEPT !.ready = Tail(s.ready)]
  <2>1. Head(s.ready) \in BS!Windows(U, FileSize[l])
    <3>1. s.ready \in Seq(BS!Windows(U, FileSize[l]))
      BY <1>2 DEF BS!Sources
    <3>2. s.ready # <<>>
      BY <1>10
    <3> QED BY <3>1, <3>2, HeadTailProperties
  <2>2. l \notin E
    BY <1>10 DEF Done
  <2>3. Ending(E, more) /\ Writes
    BY <1>1, <1>4, <1>10, <2>1, <2>2, DataEnding
  <2>4. src' = [src EXCEPT ![l] = t]
    BY <1>10
  <2>5. /\ t.url = s.url /\ t.waiting = s.waiting /\ t.ready = Tail(s.ready)
        /\ t.stray = s.stray /\ t.reply = s.reply
    <3>1. Shaped(s)
      BY <1>2, SourceShaped
    <3> QED BY <3>1 DEF Shaped
  <2> HIDE DEF t
  <2>6. \A k \in E \cap Lanes : Speaks(k) /\ Done(src'[k])
    BY <1>5, <2>2, <2>4
  <2>7. ~(l = "video" /\ ~pump.dual /\ Probing(t))
    BY <1>6, <2>5 DEF Probing
  <2>8. t.waiting => t.url # 0 /\ (Speaks(l) => t.ready = <<>>)
    BY <1>7, <1>10, <2>5
  <2>9. l = "video" => t.stray = {}
    BY <1>7, <2>5
  <2>10. UNCHANGED <<session, gui, seeking, caps>>
    BY <1>3
  <2>11. t.waiting => /\ t.url # 0
                      /\ Speaks(l) /\ t.ready # <<>> => l \in owed' /\ Tail(t.ready) = <<>>
    BY <2>8
  <2>12. l = "video" /\ ~pump.dual /\ Probing(t) =>
          Probing(src[l]) /\ ~t.waiting /\ "video" \notin more
    BY <2>7
  <2> QED BY <1>13, <2>3, <2>4, <2>6, <2>9, <2>10, <2>11, <2>12, LastMoves
<1>11. CASE /\ s.ready = <<>> /\ s.eof /\ s.reply = NoReply
            /\ OnFinished(l, more) /\ UNCHANGED <<src, unwind>>
  <2>1. Speaks(l) => l \in E
    BY <1>11 DEF Done
  <2>2. Ending(E, more) /\ mail' = mail
    BY <1>1, <1>4, <1>11, <2>1, FinishedEnding
  <2> QED BY <1>8, <1>11, <2>2 DEF Writes
<1>12. CASE /\ s.url # 0 /\ s.ready = <<>> /\ ~(s.eof /\ s.reply = NoReply)
            /\ src' = [src EXCEPT ![l] = BS!Wait(@, FileSize[l])] /\ owed' = more
            /\ UNCHANGED <<unwind, pump, demux, hold, broken, mail, app, pushed>>
  <2> DEFINE t == BS!Wait(s, FileSize[l])
  <2>1. /\ t.url = s.url /\ t.ready = s.ready /\ t.stray = s.stray
        /\ t.reply = s.reply \/ t.reply.slot = "window"
    BY <1>2, WaitIs
  <2>2. src' = [src EXCEPT ![l] = t]
    BY <1>12
  <2> HIDE DEF t
  <2>3. Ending(E, more) /\ Writes
    BY <1>4, <1>12, EndingNothing
  <2>4. \A k \in E \cap Lanes : Speaks(k) /\ Done(src'[k])
    BY <1>5, <1>12, <2>2 DEF Done
  <2>5. ~(l = "video" /\ ~pump.dual /\ Probing(t))
    BY <1>6, <2>1 DEF Probing
  <2>6. t.url # 0 /\ t.ready = <<>> /\ (l = "video" => t.stray = {})
    BY <1>7, <1>12, <2>1
  <2>7. UNCHANGED <<session, gui, seeking, caps>>
    BY <1>3
  <2>8. t.waiting => /\ t.url # 0
                     /\ Speaks(l) /\ t.ready # <<>> => l \in owed' /\ Tail(t.ready) = <<>>
    BY <2>6
  <2>9. l = "video" /\ ~pump.dual /\ Probing(t) =>
          Probing(src[l]) /\ ~t.waiting /\ "video" \notin more
    BY <2>5
  <2>10. l = "video" => t.stray = {}
    BY <2>6
  <2> QED BY <1>13, <2>2, <2>3, <2>4, <2>7, <2>8, <2>9, <2>10, LastMoves
<1> QED BY <1>3, <1>9, <1>10, <1>11, <1>12 DEF Request

-----------------------------------------------------------------------------
(* The ends and the steps of the GUI thread and of the pipeline            *)

LEMMA LetterLeft ==
  ASSUME mail \in Seq(Letters), mail # <<>>, mail' = Tail(mail)
  PROVE  \A i \in DOMAIN mail' : \E j \in DOMAIN mail : mail'[i] = mail[j]
<1>1. \A i \in DOMAIN mail' : i + 1 \in DOMAIN mail /\ mail'[i] = mail[i + 1]
  OBVIOUS
<1> QED BY <1>1

LEMMA LetterFirst ==
  ASSUME PumpInv, StageInv, mail # <<>>
  PROVE  /\ 1 \in DOMAIN mail /\ Head(mail) = mail[1]
         /\ Head(mail).session \in Past /\ Head(mail).session # 0 /\ session # 0
<1>1. mail \in Seq(Letters)
  BY DEF PumpInv, Handling
<1>2. 1 \in DOMAIN mail /\ Head(mail) = mail[1]
  BY <1>1
<1>3. Head(mail).session \in 1..session
  BY <1>2 DEF StageInv, Past
<1>4. session \in Nat
  BY SessionsAre DEF PumpInv, Commanding
<1> QED BY <1>2, <1>3, <1>4 DEF Past

LEMMA ResetIs ==
  ASSUME NEW p \in Pumps
  PROVE  /\ Reset(p).eosPending = Both(FALSE)
         /\ Rearm(Reset(p)).eosPending = Both(FALSE)
         /\ Rearm(p).eosPending = p.eosPending
<1>1. Reset(p).eosPending = Both(FALSE) /\ Reset(p) \in Pumps
  BY ResetGives DEF Reset, Pumps
<1>2. \A q \in Pumps : Rearm(q).eosPending = q.eosPending
  BY DEF Rearm, Pumps
<1> QED BY <1>1, <1>2

LEMMA CloseIs ==
  ASSUME NEW U, NEW size, NEW s \in BS!Sources(U, size)
  PROVE  LET t == BS!Close(s)
         IN t.waiting = FALSE /\ t.stray = s.stray /\ t.reply = NoReply
<1>0. Shaped(s)
  BY SourceShaped
<1> QED BY <1>0 DEF BS!Close, Shaped

LEMMA ClosesTo ==
  ASSUME NEW U, NEW size, NEW s \in BS!Sources(U, size), NEW t, t = BS!Close(s)
  PROVE  t.waiting = FALSE /\ t.stray = s.stray /\ t.reply = NoReply
BY CloseIs

LEMMA OpenIs ==
  ASSUME NEW U, NEW size, NEW s \in BS!Sources(U, size), NEW url
  PROVE  LET t == BS!Open(s, url)
         IN t.waiting = FALSE /\ (s.reply = NoReply => t.stray = s.stray)
<1> DEFINE r == [s EXCEPT !.url = url, !.offset = 0, !.eof = FALSE, !.waiting = FALSE,
                          !.ready = <<>>]
           t == BS!Open(s, url)
<1>0. Shaped(s)
  BY SourceShaped
<1>1. Shaped(r) /\ r.waiting = FALSE /\ r.reply = s.reply /\ r.stray = s.stray
  BY <1>0 DEF Shaped
<1>2. t = BS!Issue(r, "probe")
  BY DEF BS!Open
<1> HIDE DEF t, r
<1>3. t.waiting = FALSE /\ (s.reply = NoReply => t.stray = s.stray)
  BY <1>1, <1>2 DEF Shaped, BS!Issue
<1> QED BY <1>3 DEF t

LEMMA ReopenIs ==
  ASSUME NEW U, NEW size, NEW s \in BS!Sources(U, size), NEW url
  PROVE  LET t == BS!Open(BS!Close(s), url) IN t.waiting = FALSE /\ t.stray = s.stray
<1>1. BS!Close(s) \in BS!Sources(U, size)
  BY CloseFits
<1>2. BS!Close(s).stray = s.stray /\ BS!Close(s).reply = NoReply
  BY CloseIs
<1> DEFINE c == BS!Close(s)
<1> HIDE DEF c
<1>3. c \in BS!Sources(U, size) /\ c.stray = s.stray /\ c.reply = NoReply
  BY <1>1, <1>2 DEF c
<1>4. BS!Open(c, url).waiting = FALSE /\ BS!Open(c, url).stray = c.stray
  BY <1>3, OpenIs
<1> QED BY <1>3, <1>4 DEF c

LEMMA SeekIs ==
  ASSUME NEW U, NEW size, NEW s \in BS!Sources(U, size), NEW offset
  PROVE  LET t == BS!Seek(s, offset)
         IN /\ t.url = s.url /\ t.stray = s.stray
            /\ Probing(t) => Probing(s)
            /\ t.waiting => s.waiting /\ t.ready = s.ready
<1>1. CASE s.ranged
  <2>1. BS!Seek(s, offset) =
          [url |-> s.url, ranged |-> s.ranged, offset |-> offset, eof |-> FALSE,
           waiting |-> FALSE, ready |-> <<>>, reply |-> NoReply, stray |-> s.stray]
    BY <1>1 DEF BS!Seek, BS!Close, BS!Sources
  <2> QED BY <2>1 DEF Probing
<1>2. CASE ~s.ranged
  BY <1>2 DEF BS!Seek
<1> QED BY <1>1, <1>2

\* A step of the GUI or of the pipeline, of which the pump hears nothing.
LEMMA LastPipe ==
  ASSUME PumpInv, LastInv, UNCHANGED <<mediaVars, session>>, StageInv',
         \A l \in Lanes : app'[l].eos = "yes" => app[l].eos = "yes" /\ seeking' = seeking,
         mail' = mail \/ (mail # <<>> /\ mail' = Tail(mail)),
         ~pump.dual /\ Probing(src["video"]) => caps' = 0 /\ ~app'["video"].asked
  PROVE  LastInv'
<1>1. UNCHANGED <<src, pump, demux, hold, owed, session>>
  BY DEF mediaVars
<1>2. \A l \in Lanes : Speaks(l)' = Speaks(l) /\ Done(src[l])' = Done(src[l])
  BY <1>1 DEF Speaks, Done
<1>3. EndInv'
  <2>1. /\ \A l \in Lanes : pump.eosPending[l] \/ app'[l].eos = "yes" =>
             Speaks(l)' /\ Done(src[l])'
        /\ \A l \in Lanes : app'[l].eos = "yes" =>
             seeking' = NoSeek /\ (pump.dual => hold[l] = <<>> /\ demux[l].samples = <<>>)
    BY <1>2 DEF LastInv, EndInv
  <2> QED BY <1>1, <2>1 DEF LastInv, EndInv
<1>4. WaitInv'
  <2>1. \A l \in Lanes : src[l].waiting =>
          /\ src[l].url # 0
          /\ Speaks(l)' /\ src[l].ready # <<>> => l \in owed /\ Tail(src[l].ready) = <<>>
    BY <1>2 DEF LastInv, WaitInv
  <2> QED BY <1>1, <2>1 DEF WaitInv
<1>5. ProbeInv'
  <2>1. \A i \in DOMAIN mail' : \E j \in DOMAIN mail : mail'[i] = mail[j]
    BY LetterLeft DEF PumpInv, Handling
  <2>2. Probing(src["video"])' = Probing(src["video"])
    BY <1>1 DEF Probing
  <2>3. src'["video"].stray = {}
    BY <1>1 DEF LastInv, ProbeInv
  <2>4. SUFFICES ASSUME ~pump.dual, Probing(src["video"])
                 PROVE  /\ caps' = 0 /\ ~app'["video"].asked /\ "video" \notin owed'
                        /\ ~src'["video"].waiting
                        /\ \A i \in DOMAIN mail' :
                             mail'[i].kind = "opened" => mail'[i].session # session'
    BY <1>1, <2>2, <2>3 DEF ProbeInv
  <2>5. "video" \notin owed' /\ ~src'["video"].waiting
    BY <1>1, <2>4 DEF LastInv, ProbeInv
  <2>6. \A j \in DOMAIN mail : mail[j].kind = "opened" => mail[j].session # session'
    BY <1>1, <2>4 DEF LastInv, ProbeInv
  <2> QED BY <2>1, <2>4, <2>5, <2>6
<1> QED BY <1>3, <1>4, <1>5 DEF LastInv

\* A single stream that has its pipeline is not probed any more.
LEMMA LastProbed ==
  ASSUME LastInv, gui = "running" \/ caps # 0 \/ app["video"].asked
  PROVE  ~(~pump.dual /\ Probing(src["video"]))
BY DEF LastInv, StageInv, ProbeInv

LEMMA LastRelease ==
  ASSUME PumpInv, LastInv, Release
  PROVE  LastInv' /\ LastStep
<1>1. /\ caps' = 0 /\ gui' = "released" /\ seeking' = NoSeek
      /\ app' = [l \in Lanes |-> [NewAppSrc EXCEPT !.asked = app[l].asked]]
      /\ UNCHANGED <<mediaVars, session, mail>>
  BY DEF Release, Teardown
<1>2. \A l \in Lanes : app'[l].eos = "no" /\ app'[l].asked = app[l].asked
  BY <1>1 DEF NewAppSrc
<1>3. StageInv'
  BY <1>1, <1>2 DEF LastInv, StageInv, Past
<1>4. ~pump.dual /\ Probing(src["video"]) => caps' = 0 /\ ~app'["video"].asked
  BY <1>1, <1>2 DEF LastInv, ProbeInv, Lanes
<1>5. LastInv'
  BY <1>1, <1>2, <1>3, <1>4, LastPipe
<1> QED BY <1>2, <1>5 DEF LastStep

LEMMA LastSeek ==
  ASSUME PumpInv, LastInv, NEW t, Seek(t)
  PROVE  LastInv' /\ LastStep
<1>1. /\ gui = "running" /\ seeking' = t
      /\ app' = [l \in Lanes |-> [NewAppSrc EXCEPT !.asked = app[l].asked]]
      /\ UNCHANGED <<mediaVars, session, gui, mail, caps>>
  BY DEF Seek
<1>2. \A l \in Lanes : app'[l].eos = "no" /\ app'[l].asked = app[l].asked
  BY <1>1 DEF NewAppSrc
<1>3. StageInv'
  BY <1>1, <1>2 DEF LastInv, StageInv, Past
<1>4. LastInv'
  BY <1>1, <1>2, <1>3, LastProbed, LastPipe
<1> QED BY <1>2, <1>4 DEF LastStep

LEMMA LastReadOpened ==
  ASSUME PumpInv, LastInv, NoStaleOpened, ReadOpened
  PROVE  LastInv' /\ LastStep
<1>1. /\ mail # <<>> /\ mail' = Tail(mail) /\ Head(mail).kind = "opened"
      /\ UNCHANGED <<mediaVars, session, seeking>>
      /\ \/ UNCHANGED <<gui, pipeVars>>
         \/ ~DualSession[session] /\ gui' = "running" /\ Build(Head(mail).session)
  BY DEF ReadOpened
<1>2. /\ 1 \in DOMAIN mail /\ Head(mail) = mail[1]
      /\ Head(mail).session # 0 /\ session # 0
  BY <1>1, LetterFirst DEF LastInv
<1>3. \A i \in DOMAIN mail' : mail'[i].session \in Past'
  <2>1. \A i \in DOMAIN mail' : \E j \in DOMAIN mail : mail'[i] = mail[j]
    BY <1>1, LetterLeft DEF PumpInv, Handling
  <2>2. Past' = Past
    BY <1>1 DEF Past
  <2> QED BY <2>1, <2>2 DEF LastInv, StageInv
<1>4. CASE UNCHANGED <<gui, pipeVars>>
  <2>1. UNCHANGED <<gui, app, caps, pushed>>
    BY <1>4 DEF pipeVars
  <2>2. StageInv'
    BY <1>1, <1>3, <2>1 DEF LastInv, StageInv
  <2>3. ~pump.dual /\ Probing(src["video"]) => caps' = 0 /\ ~app'["video"].asked
    BY <2>1 DEF LastInv, ProbeInv
  <2>4. LastInv'
    BY <1>1, <2>1, <2>2, <2>3, LastPipe
  <2> QED BY <2>1, <2>4 DEF LastStep
<1>5. CASE ~DualSession[session] /\ gui' = "running" /\ Build(Head(mail).session)
  <2>1. caps' # 0 /\ app' = Both(NewAppSrc)
    BY <1>2, <1>5 DEF Build
  <2>2. \A l \in Lanes : app'[l].eos = "no"
    BY <2>1 DEF Both, NewAppSrc
  <2>3. StageInv'
    BY <1>3, <1>5, <2>1 DEF StageInv
  <2>4. ~(~pump.dual /\ Probing(src["video"]))
    <3>1. mail[1].session = session
      BY <1>1, <1>2, <1>5 DEF NoStaleOpened, PumpInv, Commanding
    <3> QED BY <1>1, <1>2, <3>1 DEF LastInv, ProbeInv
  <2>5. LastInv'
    BY <1>1, <2>2, <2>3, <2>4, LastPipe
  <2> QED BY <2>2, <2>5 DEF LastStep
<1> QED BY <1>1, <1>4, <1>5

LEMMA LastAppSrc ==
  ASSUME PumpInv, LastInv, NEW l \in Lanes, NeedData(l) \/ Consume(l)
  PROVE  LastInv' /\ LastStep
<1>1. /\ UNCHANGED <<mediaVars, guiVars, caps, pushed>>
      /\ \/ caps # 0 /\ app' = [app EXCEPT ![l].level = "blocked", ![l].asked = TRUE]
         \/ app' = [app EXCEPT ![l].level = "dry"]
  BY DEF NeedData, Consume
<1>2. UNCHANGED <<session, gui, seeking, mail>>
  BY <1>1 DEF guiVars
<1>3. app \in [Lanes -> AppSrcs]
  BY DEF PumpInv, Handling
<1>4. /\ \A k \in Lanes : app'[k].eos = app[k].eos
      /\ caps = 0 => \A k \in Lanes : app'[k].asked = app[k].asked
  BY <1>1, <1>3 DEF AppSrcs
<1>5. StageInv'
  BY <1>1, <1>2, <1>4 DEF LastInv, StageInv, Past
<1>6. ~pump.dual /\ Probing(src["video"]) => caps' = 0 /\ ~app'["video"].asked
  BY <1>1, <1>4 DEF LastInv, ProbeInv, Lanes
<1>7. LastInv'
  BY <1>1, <1>2, <1>4, <1>5, <1>6, LastPipe
<1> QED BY <1>1, <1>7 DEF LastStep

LEMMA LastStutter ==
  ASSUME PumpInv, LastInv, UNCHANGED vars
  PROVE  LastInv'
<1>1. UNCHANGED <<mediaVars, session, gui, seeking, mail, app, caps>>
  BY DEF vars, guiVars, pipeVars
<1>2. StageInv'
  BY <1>1 DEF LastInv, StageInv, Past
<1>3. ~pump.dual /\ Probing(src["video"]) => caps' = 0 /\ ~app'["video"].asked
  BY <1>1 DEF LastInv, ProbeInv
<1> QED BY <1>1, <1>2, <1>3, LastPipe

LEMMA LastInit == Init => LastInv
<1> SUFFICES ASSUME Init PROVE LastInv
  OBVIOUS
<1>1. /\ src = Both(BS!NewSource) /\ session = 0 /\ gui = "idle" /\ mail = <<>>
      /\ seeking = NoSeek /\ app = Both(NewAppSrc) /\ caps = 0
      /\ pump.eosPending = Both(FALSE) /\ owed = {}
  BY DEF Init
<1>2. /\ \A l \in Lanes : ~src[l].waiting /\ src[l].stray = {} /\ src[l].reply = NoReply
      /\ \A l \in Lanes : app[l].eos = "no" /\ ~pump.eosPending[l]
      /\ \A i \in DOMAIN mail : FALSE
  BY <1>1 DEF Both, BS!NewSource, NewAppSrc
<1>3. StageInv
  BY <1>1, <1>2 DEF StageInv
<1>4. EndInv
  BY <1>2 DEF EndInv
<1>5. WaitInv
  BY <1>2 DEF WaitInv
<1>6. ProbeInv
  BY <1>2 DEF ProbeInv, Probing, Lanes
<1> QED BY <1>3, <1>4, <1>5, <1>6 DEF LastInv

\* A step after which no lane is ending, and none is owed more than it was.
LEMMA LastAnew ==
  ASSUME StageInv',
         \A l \in Lanes : ~pump'.eosPending[l] /\ app'[l].eos # "yes",
         \A l \in Lanes : src'[l].waiting =>
           src'[l].url # 0 /\ (Speaks(l)' => src'[l].ready = <<>>),
         ProbeInv'
  PROVE  LastInv' /\ LastStep
<1>1. EndInv'
  BY DEF EndInv
<1>2. WaitInv'
  BY DEF WaitInv
<1> QED BY <1>1, <1>2 DEF LastInv, LastStep

LEMMA LastStop ==
  ASSUME PumpInv, LastInv, Stop
  PROVE  LastInv' /\ LastStep
<1>1. /\ gui' = "idle" /\ seeking' = NoSeek /\ caps' = 0
      /\ src' = [l \in Lanes |-> BS!Close(src[l])]
      /\ pump' = Rearm(Reset([pump EXCEPT !.lastSeek = NoSeek, !.videoDone = FALSE]))
      /\ app' = [l \in Lanes |-> [NewAppSrc EXCEPT !.asked = app[l].asked]]
      /\ UNCHANGED <<session, mail>>
  BY DEF Stop, CloseAll, Teardown
<1>2. \A l \in Lanes : app'[l].eos = "no"
  BY <1>1 DEF NewAppSrc
<1>3. \A l \in Lanes : ~pump'.eosPending[l]
  <2> DEFINE p == [pump EXCEPT !.lastSeek = NoSeek, !.videoDone = FALSE]
  <2>1. p \in Pumps
    BY DEF PumpInv, Handling, Pumps
  <2>2. pump' = Rearm(Reset(p))
    BY <1>1
  <2> HIDE DEF p
  <2> QED BY <2>1, <2>2, ResetIs DEF Both
<1>4. \A l \in Lanes : src'[l].waiting = FALSE /\ src'[l].stray = src[l].stray
                       /\ src'[l].reply = NoReply
  <2> SUFFICES ASSUME NEW l \in Lanes
               PROVE  src'[l].waiting = FALSE /\ src'[l].stray = src[l].stray
                      /\ src'[l].reply = NoReply
    OBVIOUS
  <2> DEFINE s == src[l]
             t == src'[l]
  <2>1. t = BS!Close(s)
    BY <1>1
  <2>2. s \in BS!Sources(UrlsOf(l), FileSize[l])
    BY DEF PumpInv, SourcesInv
  <2> HIDE DEF s, t
  <2>3. t.waiting = FALSE /\ t.stray = s.stray /\ t.reply = NoReply
    BY <2>1, <2>2, ClosesTo
  <2> QED BY <2>3 DEF s, t
<1>5. StageInv'
  BY <1>1, <1>2 DEF LastInv, StageInv, Past
<1>6. ProbeInv'
  <2>1. src'["video"].stray = {} /\ ~Probing(src'["video"])
    BY <1>4 DEF LastInv, ProbeInv, Probing, Lanes
  <2> QED BY <2>1 DEF ProbeInv, Probing
<1>7. \A l \in Lanes : app'[l].eos # "yes"
  BY <1>2
<1>8. \A l \in Lanes : ~src'[l].waiting
  BY <1>4
<1> QED BY <1>3, <1>5, <1>6, <1>7, <1>8, LastAnew

LEMMA LastStart ==
  ASSUME PumpInv, LastInv, Start
  PROVE  LastInv' /\ LastStep
<1>1. /\ session' = session + 1 /\ session \in Nat /\ Past \subseteq Past'
      /\ UNCHANGED <<owed, mail, app, caps, pushed>>
  BY StartCommands DEF PumpInv, pipeVars
<1>2. /\ Idle /\ gui # "running" /\ gui' = "loading" /\ seeking' = NoSeek
      /\ \A l \in Lanes : ~app[l].asked
      /\ IF DualSession[session'] THEN OpenDual(session') ELSE OpenSingle(session')
  BY DEF Start, Ask
<1>3. caps = 0 /\ \A l \in Lanes : app[l].eos = "no"
  BY <1>2 DEF LastInv, StageInv
<1>4. StageInv'
  BY <1>1, <1>2, <1>3 DEF LastInv, StageInv
<1>5. /\ src["video"] \in BS!Sources(UrlsOf("video"), FileSize["video"])
      /\ src["audio"] \in BS!Sources(UrlsOf("audio"), FileSize["audio"])
      /\ src \in [Lanes -> {src["video"], src["audio"]}]
  BY DEF PumpInv, SourcesInv, Lanes
<1>6. /\ BS!Open(BS!Close(src["video"]), session').waiting = FALSE
      /\ BS!Open(BS!Close(src["video"]), session').stray = src["video"].stray
      /\ BS!Open(src["audio"], session').waiting = FALSE
  <2>1. src["video"] \in BS!Sources(UrlsOf("video"), FileSize["video"])
    BY <1>5
  <2>2. src["audio"] \in BS!Sources(UrlsOf("audio"), FileSize["audio"])
    BY <1>5
  <2>3. /\ BS!Open(BS!Close(src["video"]), session').waiting = FALSE
        /\ BS!Open(BS!Close(src["video"]), session').stray = src["video"].stray
    BY <2>1, ReopenIs
  <2>4. BS!Open(src["audio"], session').waiting = FALSE
    <3> DEFINE t == BS!Open(src["audio"], session')
    <3>1. /\ t.waiting = FALSE
          /\ src["audio"].reply = NoReply => t.stray = src["audio"].stray
      BY <2>2, OpenIs
    <3> QED BY <3>1
  <2> QED BY <2>3, <2>4
<1>7. src["video"].stray = {}
  BY DEF LastInv, ProbeInv
<1>8. \A l \in Lanes : app'[l].eos # "yes"
  BY <1>1, <1>3
<1>9. CASE OpenDual(session')
  <2>1. /\ pump' = Rearm(Reset([pump EXCEPT !.dual = TRUE, !.lastSeek = NoSeek,
                                            !.videoDone = FALSE]))
        /\ src' = [src EXCEPT !["video"] = BS!Open(BS!Close(@), session'),
                              !["audio"] = BS!Open(@, session')]
    BY <1>9 DEF OpenDual
  <2>2. /\ src'["video"] = BS!Open(BS!Close(src["video"]), session')
        /\ src'["audio"] = BS!Open(src["audio"], session')
    BY <1>5, <2>1 DEF Lanes
  <2>3. pump'.dual /\ \A l \in Lanes : ~pump'.eosPending[l]
    <3> DEFINE p == [pump EXCEPT !.dual = TRUE, !.lastSeek = NoSeek, !.videoDone = FALSE]
    <3>1. p \in Pumps /\ p.dual = TRUE
      BY DEF PumpInv, Handling, Pumps
    <3>2. pump' = Rearm(Reset(p))
      BY <2>1
    <3> HIDE DEF p
    <3> QED BY <3>1, <3>2, ResetIs, ResetGives, RearmGives DEF Both
  <2>4. \A l \in Lanes : ~src'[l].waiting
    BY <1>6, <2>2 DEF Lanes
  <2>5. ProbeInv'
    BY <1>6, <1>7, <2>2, <2>3 DEF ProbeInv
  <2> QED BY <1>4, <1>8, <2>3, <2>4, <2>5, LastAnew
<1>10. CASE OpenSingle(session')
  <2>1. /\ pump' = Reset([pump EXCEPT !.dual = FALSE])
        /\ src' = [src EXCEPT !["video"] = BS!Open(BS!Close(@), session')]
    BY <1>10 DEF OpenSingle
  <2>2. /\ src'["video"] = BS!Open(BS!Close(src["video"]), session')
        /\ src'["audio"] = src["audio"]
    BY <1>5, <2>1 DEF Lanes
  <2>3. ~pump'.dual /\ \A l \in Lanes : ~pump'.eosPending[l]
    <3> DEFINE p == [pump EXCEPT !.dual = FALSE]
    <3>1. p \in Pumps /\ p.dual = FALSE
      BY DEF PumpInv, Handling, Pumps
    <3>2. pump' = Reset(p)
      BY <2>1
    <3> HIDE DEF p
    <3> QED BY <3>1, <3>2, ResetIs, ResetGives DEF Both
  <2>4. src'["video"].stray = {} /\ ~src'["video"].waiting
    BY <1>6, <1>7, <2>2
  <2>5. ~Speaks("audio")'
    BY <2>3 DEF Speaks
  <2>6. src["audio"].waiting => src["audio"].url # 0
    BY DEF LastInv, WaitInv, Lanes
  <2>7. \A l \in Lanes : src'[l].waiting =>
           src'[l].url # 0 /\ (Speaks(l)' => src'[l].ready = <<>>)
    BY <2>2, <2>4, <2>5, <2>6 DEF Lanes
  <2>8. ProbeInv'
    <3>1. \A i \in DOMAIN mail' : mail'[i].session # session'
      BY <1>1 DEF LastInv, StageInv, Past
    <3>2. "video" \notin owed' /\ caps' = 0 /\ ~app'["video"].asked
      BY <1>1, <1>2, <1>3 DEF Idle, Lanes
    <3> QED BY <2>4, <3>1, <3>2 DEF ProbeInv
  <2> QED BY <1>4, <1>8, <2>3, <2>7, <2>8, LastAnew
<1> QED BY <1>2, <1>9, <1>10

\* pipelineConfigured(): the pipeline it meets is the one just built.
LEMMA LastReadEsReady ==
  ASSUME PumpInv, LastInv, NoStaleEs, ReadEsReady
  PROVE  LastInv' /\ LastStep
<1>1. /\ mail # <<>> /\ mail' = Tail(mail) /\ Head(mail).kind = "es" /\ Idle
      /\ UNCHANGED <<session, seeking>>
      /\ \/ UNCHANGED <<gui, mediaVars, pipeVars>>
         \/ /\ gui = "loading" /\ gui' = "running" /\ caps' = Head(mail).session
            /\ Drain([pump EXCEPT !.configured = TRUE], demux, "video", {})
            /\ UNCHANGED src
  BY DEF ReadEsReady
<1>2. Head(mail).session # 0 /\ session # 0
  BY <1>1, LetterFirst DEF LastInv
<1>3. \A i \in DOMAIN mail' : mail'[i].session \in Past'
  <2>1. \A i \in DOMAIN mail' : \E j \in DOMAIN mail : mail'[i] = mail[j]
    BY <1>1, LetterLeft DEF PumpInv, Handling
  <2>2. Past' = Past
    BY <1>1 DEF Past
  <2> QED BY <2>1, <2>2 DEF LastInv, StageInv
<1>4. CASE UNCHANGED <<gui, mediaVars, pipeVars>>
  <2>1. UNCHANGED <<gui, app, caps, pushed>>
    BY <1>4 DEF pipeVars
  <2>2. StageInv'
    BY <1>1, <1>3, <2>1 DEF LastInv, StageInv
  <2>3. ~pump.dual /\ Probing(src["video"]) => caps' = 0 /\ ~app'["video"].asked
    BY <2>1 DEF LastInv, ProbeInv
  <2>4. LastInv'
    BY <1>1, <1>4, <2>1, <2>2, <2>3, LastPipe
  <2> QED BY <2>1, <2>4 DEF LastStep
<1>5. CASE /\ gui = "loading" /\ gui' = "running" /\ caps' = Head(mail).session
           /\ Drain([pump EXCEPT !.configured = TRUE], demux, "video", {})
           /\ UNCHANGED src
  <2> PICK K : K = Kept
    OBVIOUS
  <2> PICK E : E = {k \in Lanes : Speaks(k) /\ Done(src[k])}
    OBVIOUS
  <2> DEFINE p == [pump EXCEPT !.configured = TRUE]
  <2>1. pump.dual
    <3>1. DualSession[session]
      BY <1>1, <1>2, <1>5 DEF NoStaleEs, PumpInv, Commanding
    <3> QED BY <1>2, <3>1 DEF PumpInv, DualInv
  <2>2. p \in Pumps /\ p.dual /\ p.eosPending = pump.eosPending
    BY <2>1 DEF PumpInv, Handling, Pumps
  <2>3. Drain(p, demux, "video", {}) /\ "video" \in Lanes
    BY <1>5 DEF Lanes
  <2> HIDE DEF p
  <2>4. EndingFrom(E)
    BY LastStarts
  <2>5. \A k \in Lanes : p.eosPending[k] => k \in E
    BY <2>2, <2>4 DEF EndingFrom
  <2>6. \A k \in Lanes : app[k].eos = "yes" =>
           k \in E /\ hold[k] = <<>> /\ demux[k].samples = <<>>
    BY <2>1, <2>4 DEF EndingFrom
  <2>7. Handling(K) /\ demux \in [Lanes -> DemuxesOf(K)]
    BY DEF PumpInv, Handling
  <2>8. Ending(E, {})
    BY <2>1, <2>2, <2>3, <2>5, <2>6, <2>7, DrainEnding
  <2>9. caps' # 0
    BY <1>2, <1>5
  <2>10. StageInv'
    BY <1>3, <1>5, <2>9 DEF StageInv
  <2>11. pump'.dual /\ \A k \in Lanes : Speaks(k)' = Speaks(k)
    BY <2>1, <2>8 DEF Ending, Speaks
  <2>12. EndInv'
    <3>1. \A k \in Lanes : pump'.eosPending[k] \/ app'[k].eos = "yes" =>
             Speaks(k)' /\ Done(src'[k])
      BY <1>5, <2>8, <2>11 DEF Ending
    <3>2. \A k \in Lanes : app'[k].eos = "yes" =>
             seeking' = NoSeek /\ hold'[k] = <<>> /\ demux'[k].samples = <<>>
      BY <1>1, <2>1, <2>8 DEF Ending, LastInv, EndInv
    <3> QED BY <2>11, <3>1, <3>2 DEF EndInv, Done
  <2>13. WaitInv'
    <3>1. \A k \in Lanes : src'[k].waiting =>
             src'[k].url # 0 /\ (Speaks(k)' => src'[k].ready = <<>>)
      BY <1>1, <1>5, <2>11, LastIdle
    <3> QED BY <3>1 DEF WaitInv
  <2>14. ProbeInv'
    BY <1>5, <2>11 DEF LastInv, ProbeInv
  <2>15. LastStep
    BY <2>8 DEF Ending, LastStep
  <2> QED BY <2>10, <2>12, <2>13, <2>14, <2>15 DEF LastInv
<1> QED BY <1>1, <1>4, <1>5

\* A seek arrives at a pipeline that was flushed: no lane of it has ended.
LEMMA LastSeekArrives ==
  ASSUME PumpInv, LastInv, SeekArrives
  PROVE  LastInv' /\ LastStep
<1> PICK t : t = seeking
  OBVIOUS
<1>1. /\ Idle /\ seeking # NoSeek /\ t \in Targets /\ seeking' = NoSeek
      /\ UNCHANGED <<session, gui, mail, app, caps, pushed>>
      /\ SeekBytes(t) \/ SeekDualTo(t)
  BY DEF SeekArrives, PumpInv, Commanding, pipeVars
<1>2. \A l \in Lanes : app[l].eos # "yes"
  BY <1>1 DEF LastInv, EndInv
<1>3. StageInv'
  BY <1>1 DEF LastInv, StageInv, Past
<1>4. ~(~pump.dual /\ Probing(src["video"]))
  BY <1>1, LastProbed DEF LastInv, StageInv
<1>5. src["video"].stray = {}
  BY DEF LastInv, ProbeInv
<1>6. LastStep
  BY <1>1 DEF LastStep
<1>7. ASSUME NEW l \in Lanes
      PROVE  LET s == BS!Seek(src[l], SegStart[t][l])
             IN /\ s.url = src[l].url /\ s.stray = src[l].stray
                /\ Probing(s) => Probing(src[l])
                /\ s.waiting => src[l].waiting /\ s.ready = src[l].ready
  <2>1. src[l] \in BS!Sources(UrlsOf(l), FileSize[l])
    BY DEF PumpInv, SourcesInv
  <2> QED BY <2>1, SeekIs
<1>8. ASSUME NEW l \in Lanes, src[l].waiting
      PROVE  src[l].url # 0 /\ (Speaks(l) => src[l].ready = <<>>)
  BY <1>1, <1>8, LastIdle
<1>9. CASE SeekBytes(t)
  <2> DEFINE s == BS!Seek(src["video"], SegStart[t]["video"])
  <2>1. /\ src' = [src EXCEPT !["video"] = s] /\ UNCHANGED <<pump, demux, hold>> /\ ~pump.dual
    BY <1>9 DEF SeekBytes
  <2>2. /\ s.url = src["video"].url /\ s.stray = {}
        /\ Probing(s) => Probing(src["video"])
        /\ s.waiting => src["video"].waiting /\ s.ready = src["video"].ready
    BY <1>5, <1>7 DEF Lanes
  <2> HIDE DEF s
  <2>3. src'["video"] = s /\ src'["audio"] = src["audio"]
    BY <2>1 DEF PumpInv, SourcesInv, Lanes
  <2>4. \A l \in Lanes : ~pump'.eosPending[l] /\ app'[l].eos # "yes"
    BY <1>1, <1>2, <2>1 DEF LastInv, EndInv
  <2>5. \A l \in Lanes : Speaks(l)' = Speaks(l)
    BY <2>1 DEF Speaks
  <2>6. \A l \in Lanes : src'[l].waiting =>
          src'[l].url # 0 /\ (Speaks(l)' => src'[l].ready = <<>>)
    BY <1>8, <2>2, <2>3, <2>5 DEF Lanes
  <2>7. ProbeInv'
    <3>1. src'["video"].stray = {} /\ ~Probing(src'["video"])
      BY <1>4, <2>1, <2>2, <2>3
    <3> QED BY <3>1 DEF ProbeInv, Probing
  <2> QED BY <1>3, <2>4, <2>6, <2>7, LastAnew
<1>10. CASE pump.dual /\ Reanchor(t)
  <2>1. /\ src' = [l \in Lanes |-> BS!Seek(src[l], SegStart[t][l])]
        /\ pump' = Rearm([pump EXCEPT !.lastSeek = t, !.eosPending = Both(FALSE),
                                      !.videoDone = FALSE])
    BY <1>10 DEF Reanchor
  <2>2. pump'.dual /\ \A l \in Lanes : ~pump'.eosPending[l]
    <3> DEFINE p == [pump EXCEPT !.lastSeek = t, !.eosPending = Both(FALSE),
                                 !.videoDone = FALSE]
    <3>1. p \in Pumps /\ p.dual = TRUE /\ p.eosPending = Both(FALSE)
      BY <1>1, <1>10 DEF PumpInv, Handling, Pumps, Both
    <3>2. pump' = Rearm(p)
      BY <2>1
    <3> HIDE DEF p
    <3> QED BY <3>1, <3>2, ResetIs, RearmGives DEF Both
  <2>3. \A l \in Lanes : src'[l].waiting => src'[l].url # 0 /\ src'[l].ready = <<>>
    <3> SUFFICES ASSUME NEW l \in Lanes, src'[l].waiting
                 PROVE  src'[l].url # 0 /\ src'[l].ready = <<>>
      OBVIOUS
    <3> DEFINE s == BS!Seek(src[l], SegStart[t][l])
    <3>1. src'[l] = s
      BY <2>1
    <3>2. s.url = src[l].url /\ (s.waiting => src[l].waiting /\ s.ready = src[l].ready)
      BY <1>7
    <3> HIDE DEF s
    <3> QED BY <1>8, <1>10, <3>1, <3>2 DEF Speaks
  <2>4. src'["video"].stray = {}
    <3> DEFINE s == BS!Seek(src["video"], SegStart[t]["video"])
    <3>1. src'["video"] = s
      BY <2>1 DEF Lanes
    <3>2. s.stray = src["video"].stray
      BY <1>7 DEF Lanes
    <3> HIDE DEF s
    <3> QED BY <1>5, <3>1, <3>2
  <2>5. ProbeInv'
    BY <2>2, <2>4 DEF ProbeInv
  <2>6. \A l \in Lanes : ~pump'.eosPending[l] /\ app'[l].eos # "yes"
    BY <1>1, <1>2, <2>2
  <2> QED BY <1>3, <2>3, <2>5, <2>6, LastAnew
<1>11. CASE UNCHANGED <<src, demux, pump, owed, hold>>
  <2>1. UNCHANGED mediaVars
    BY <1>11 DEF mediaVars, SeekArrives
  <2>2. \A l \in Lanes : app'[l].eos = "yes" => app[l].eos = "yes" /\ seeking' = seeking
    BY <1>1, <1>2
  <2>3. LastInv'
    BY <1>1, <1>3, <1>4, <2>1, <2>2, LastPipe
  <2> QED BY <1>6, <2>3
<1> QED BY <1>1, <1>9, <1>10, <1>11 DEF SeekDualTo

\* requestVideoData(), requestAudioData()
LEMMA LastNeedDataArrives ==
  ASSUME PumpInv, LastInv, NEW l \in Lanes, NeedDataArrives(l)
  PROVE  LastInv' /\ LastStep
<1>1. /\ Idle /\ app[l].asked /\ app' = [app EXCEPT ![l].asked = FALSE] /\ owed' = {l}
      /\ pump' = pump \/ pump' = Rearm(pump)
      /\ UNCHANGED <<src, demux, hold, session, gui, mail, seeking, caps, pushed>>
  BY DEF NeedDataArrives, guiVars
<1>2. pump'.dual = pump.dual /\ pump'.eosPending = pump.eosPending
  BY <1>1, RearmGives, ResetIs DEF PumpInv, Handling
<1>3. \A k \in Lanes : app'[k].eos = app[k].eos /\ (app'[k].asked => app[k].asked)
  BY <1>1 DEF PumpInv, Handling, AppSrcs
<1>4. \A k \in Lanes : Speaks(k)' = Speaks(k)
  BY <1>2 DEF Speaks
<1>5. StageInv'
  BY <1>1, <1>3 DEF LastInv, StageInv, Past
<1>6. EndInv'
  BY <1>1, <1>2, <1>3, <1>4 DEF LastInv, EndInv, Done
<1>7. WaitInv'
  <2>1. \A k \in Lanes : src'[k].waiting =>
           src'[k].url # 0 /\ (Speaks(k)' => src'[k].ready = <<>>)
    BY <1>1, <1>4, LastIdle
  <2> QED BY <2>1 DEF WaitInv
<1>8. ProbeInv'
  <2>1. ~pump.dual /\ Probing(src["video"]) => l # "video" /\ ~app'["video"].asked
    BY <1>1, <1>3 DEF LastInv, ProbeInv, Lanes
  <2> QED BY <1>1, <1>2, <2>1 DEF LastInv, ProbeInv, Probing
<1>9. LastStep
  BY <1>1 DEF LastStep
<1> QED BY <1>5, <1>6, <1>7, <1>8, <1>9 DEF LastInv

LEMMA LastNext ==
  ASSUME PumpInv, LastInv, NoStaleEs, NoStaleOpened, Next
  PROVE  LastInv' /\ LastStep
<1>1. ASSUME Gui PROVE LastInv' /\ LastStep
  BY <1>1, LastStart, LastStop, LastRelease, LastReadOpened, LastReadEsReady, LastSeek,
     LastSeekArrives DEF Gui
<1>2. ASSUME NEW l \in Lanes,
             \/ \E ranged \in Ranged : ProbeLands(l, ranged)
             \/ WindowLands(l) \/ FetchFails(l)
             \/ \E slot \in BS!Slots, n \in 0..Window : StrayLands(l, slot, n)
             \/ Serve(l) \/ Unwind(l)
      PROVE  LastInv' /\ LastStep
  BY <1>2, LastProbeLands, LastWindowLands, LastFetchFails, LastStrayLands, LastServe,
     LastUnwind
<1>3. ASSUME NEW l \in Lanes, NeedDataArrives(l) \/ NeedData(l) \/ Consume(l)
      PROVE  LastInv' /\ LastStep
  BY <1>3, LastNeedDataArrives, LastAppSrc
<1> QED BY <1>1, <1>2, <1>3 DEF Next, Media, Pipeline

LEMMA LastIsLast ==
  ASSUME PumpInv, LastInv, NoStaleEs, NoStaleOpened, [Next]_vars
  PROVE  /\ LastInv'
         /\ [\A l \in Lanes : app[l].eos = "yes" /\ app'[l].eos = "yes" =>
               pushed'[l] = pushed[l]]_vars
<1>1. CASE Next
  BY <1>1, LastNext DEF LastStep
<1>2. CASE UNCHANGED vars
  BY <1>2, LastStutter
<1> QED BY <1>1, <1>2

\* Nothing is pushed behind an end of stream: when finished() ends a lane, its
\* source has nothing ready and nothing in flight, and what the prebuffer and the
\* demuxers held of it is out (bytesource.cpp, mediapump.cpp:253-302).  It takes
\* that the signals queued to the GUI are read in the session that sent them: a
\* videoOpened() of the stream before builds a pipeline whose first need-data
\* meets a source still probed, and its window is overtaken by the next.
THEOREM PumpEndsLast == Spec /\ [](NoStaleEs /\ NoStaleOpened) => EosIsLast
<1>1. PumpInv /\ LastInv /\ NoStaleEs /\ NoStaleOpened /\ [Next]_vars =>
        /\ LastInv'
        /\ [\A l \in Lanes : app[l].eos = "yes" /\ app'[l].eos = "yes" =>
              pushed'[l] = pushed[l]]_vars
  BY LastIsLast
<1> QED BY <1>1, LastInit, PureAlways, PTL DEF Spec, EosIsLast

\* Where every session plays two streams nothing has to be assumed.
THEOREM PumpEndsLastDual ==
  ASSUME \A s \in Sessions : DualSession[s]
  PROVE  Spec => EosIsLast
<1>1. NoStaleEs /\ NoStaleOpened
  BY DEF NoStaleEs, NoStaleOpened
<1>2. PumpInv /\ LastInv /\ [Next]_vars =>
        /\ LastInv'
        /\ [\A l \in Lanes : app[l].eos = "yes" /\ app'[l].eos = "yes" =>
              pushed'[l] = pushed[l]]_vars
  BY <1>1, LastIsLast
<1> QED BY <1>2, LastInit, PureAlways, PTL DEF Spec, EosIsLast

-----------------------------------------------------------------------------
(* The place of a source in its file                                       *)

\* The unit a source delivers next.
Cursor(s) == IF s.ready = <<>> THEN s.offset ELSE Head(s.ready).from

\* What is ready follows on, up to where the next fetch begins; a probe brings
\* the first of it, and at the end all of the file has been fetched.
Chain(s, size) ==
  /\ \A i \in DOMAIN s.ready :
       s.ready[i].from + s.ready[i].n =
         IF i = Len(s.ready) THEN s.offset ELSE s.ready[i + 1].from
  /\ s.reply # NoReply => s.reply.from = s.offset
  /\ Probing(s) => s.ready = <<>> /\ s.offset = 0
  /\ s.eof => s.offset = size

-----------------------------------------------------------------------------
(* The windows of a source                                                 *)

LEMMA ChainTopUp ==
  ASSUME NEW U, NEW size \in Nat, NEW s \in BS!Sources(U, size), Chain(s, size),
         NEW t, t = BS!TopUp(s, size)
  PROVE  Chain(t, size) /\ Cursor(t) = Cursor(s) /\ t.ready = s.ready
         /\ (Probing(t) <=> Probing(s))
<1> DEFINE e == [s EXCEPT !.eof = TRUE]
           i == BS!Issue(s, "window")
<1>0. Shaped(s) /\ s.offset \in 0..size
  BY SourceShaped DEF BS!Sources
<1>1. CASE t = s
  BY <1>1
<1>2. CASE t = e /\ s.offset >= size
  <2>1. /\ t.offset = s.offset /\ t.ready = s.ready /\ t.reply = s.reply /\ t.eof = TRUE
        /\ s.offset = size
    BY <1>0, <1>2 DEF Shaped
  <2> QED BY <1>2, <2>1 DEF Chain, Cursor, Probing
<1>3. CASE t = i /\ s.reply = NoReply
  <2>1. /\ t.offset = s.offset /\ t.ready = s.ready /\ t.eof = s.eof
        /\ t.reply.from = s.offset /\ t.reply.slot = "window"
    BY <1>0, <1>3 DEF Shaped, BS!Issue
  <2> QED BY <1>3, <2>1 DEF Chain, Cursor, Probing
<1>4. t = s \/ (t = e /\ s.offset >= size) \/ (t = i /\ s.reply = NoReply)
  <2> HIDE DEF e, i
  <2>1. CASE s.url = 0 \/ s.reply # NoReply \/ s.eof
    BY <2>1 DEF BS!TopUp, e
  <2>2. CASE ~(s.url = 0 \/ s.reply # NoReply \/ s.eof)
    BY <2>2 DEF BS!TopUp, e, i
  <2> QED BY <2>1, <2>2
<1> QED BY <1>1, <1>2, <1>3, <1>4

LEMMA ChainWait ==
  ASSUME NEW U, NEW size \in Nat, NEW s \in BS!Sources(U, size), Chain(s, size),
         NEW t, t = BS!Wait(s, size)
  PROVE  Chain(t, size) /\ Cursor(t) = Cursor(s) /\ (Probing(t) <=> Probing(s))
<1> DEFINE w == [s EXCEPT !.waiting = TRUE]
<1>1. w \in BS!Sources(U, size)
  BY DEF BS!Sources
<1>2. w.offset = s.offset /\ w.ready = s.ready /\ w.reply = s.reply /\ w.eof = s.eof
  <2>1. Shaped(s)
    BY SourceShaped
  <2> QED BY <2>1 DEF Shaped
<1>3. t = BS!TopUp(w, size)
  BY DEF BS!Wait
<1> HIDE DEF w
<1>4. Chain(w, size) /\ Cursor(w) = Cursor(s) /\ (Probing(w) <=> Probing(s))
  BY <1>2 DEF Chain, Cursor, Probing
<1> QED BY <1>1, <1>3, <1>4, ChainTopUp

LEMMA ChainClose ==
  ASSUME NEW U, NEW size \in Nat, NEW s \in BS!Sources(U, size), Chain(s, size),
         NEW t, t = BS!Close(s)
  PROVE  Chain(t, size) /\ t.url = 0
<1>0. Shaped(s)
  BY SourceShaped
<1>1. /\ t.url = 0 /\ t.offset = s.offset /\ t.eof = s.eof /\ t.ready = <<>>
      /\ t.reply = NoReply
  BY <1>0 DEF Shaped, BS!Close
<1> QED BY <1>1 DEF Chain, Probing

LEMMA ChainOpen ==
  ASSUME NEW U, NEW size \in Nat, NEW s \in BS!Sources(U, size), NEW url \in Nat,
         NEW t, t = BS!Open(s, url)
  PROVE  Chain(t, size) /\ t.url = url /\ Cursor(t) = 0 /\ Probing(t)
<1> DEFINE r == [s EXCEPT !.url = url, !.offset = 0, !.eof = FALSE, !.waiting = FALSE,
                          !.ready = <<>>]
<1>0. Shaped(s)
  BY SourceShaped
<1>1. /\ Shaped(r) /\ r.url = url /\ r.offset = 0 /\ r.eof = FALSE /\ r.ready = <<>>
      /\ r.reply = s.reply
  BY <1>0 DEF Shaped
<1>2. t = BS!Issue(r, "probe")
  BY DEF BS!Open
<1> HIDE DEF r
<1>3. /\ t.url = url /\ t.offset = 0 /\ t.eof = FALSE /\ t.ready = <<>>
      /\ t.reply = [url |-> url, from |-> 0, slot |-> "probe"]
  BY <1>1, <1>2 DEF Shaped, BS!Issue
<1>4. t.reply # NoReply
  <2>1. [url |-> url, from |-> 0, slot |-> "probe"] \in [url : Nat, from : Nat, slot : BS!Slots]
    BY DEF BS!Slots
  <2> QED BY <1>3, <2>1, NoReplyAssumption
<1> QED BY <1>3, <1>4 DEF Chain, Cursor, Probing

LEMMA ChainSeek ==
  ASSUME NEW U, NEW size \in Nat, NEW s \in BS!Sources(U, size), Chain(s, size), NEW offset,
         NEW t, t = BS!Seek(s, offset)
  PROVE  /\ Chain(t, size) /\ t.url = s.url
         /\ s.ranged => Cursor(t) = offset
<1>1. CASE s.ranged
  <2>1. t =
          [url |-> s.url, ranged |-> s.ranged, offset |-> offset, eof |-> FALSE,
           waiting |-> FALSE, ready |-> <<>>, reply |-> NoReply, stray |-> s.stray]
    BY <1>1 DEF BS!Seek, BS!Close, BS!Sources
  <2> QED BY <2>1 DEF Chain, Cursor, Probing
<1>2. CASE ~s.ranged
  BY <1>2 DEF BS!Seek
<1> QED BY <1>1, <1>2

LEMMA ChainFails ==
  ASSUME NEW U, NEW size \in Nat, NEW s \in BS!Sources(U, size), Chain(s, size),
         NEW t, t = [s EXCEPT !.reply = NoReply]
  PROVE  Chain(t, size) /\ t.url = s.url /\ Cursor(t) = Cursor(s)
         /\ t.waiting = s.waiting
<1>0. Shaped(s)
  BY SourceShaped
<1>1. /\ t.url = s.url /\ t.offset = s.offset /\ t.eof = s.eof /\ t.ready = s.ready
      /\ t.reply = NoReply /\ t.waiting = s.waiting
  BY <1>0 DEF Shaped
<1> QED BY <1>1 DEF Chain, Cursor, Probing

\* The consumer takes the first window.
LEMMA ChainTail ==
  ASSUME NEW U, NEW size \in Nat, NEW s \in BS!Sources(U, size), Chain(s, size),
         s.ready # <<>>, NEW t, t = [s EXCEPT !.ready = Tail(s.ready)]
  PROVE  /\ Chain(t, size) /\ t.url = s.url /\ t.waiting = s.waiting /\ ~Probing(s)
         /\ Cursor(s) = Head(s.ready).from
         /\ Cursor(t) = Head(s.ready).from + Head(s.ready).n
<1>0. Shaped(s) /\ s.ready \in Seq(BS!Windows(U, size))
  BY SourceShaped DEF BS!Sources
<1>1. /\ t.url = s.url /\ t.offset = s.offset /\ t.eof = s.eof /\ t.ready = Tail(s.ready)
      /\ t.reply = s.reply /\ t.waiting = s.waiting
  BY <1>0 DEF Shaped
<1> DEFINE q == s.ready
           r == Tail(q)
<1>2. /\ Len(q) \in Nat \ {0} /\ Len(r) = Len(q) - 1 /\ Head(q) = q[1]
      /\ DOMAIN q = 1..Len(q) /\ DOMAIN r = 1..Len(r)
      /\ \A i \in DOMAIN r : r[i] = q[i + 1]
      /\ Len(r) # 0 => r # <<>> /\ Head(r) = r[1]
      /\ Len(r) = 0 => r = <<>>
  <2>1. q \in Seq(BS!Windows(U, size)) /\ q # <<>>
    BY <1>0
  <2>2. r \in Seq(BS!Windows(U, size)) /\ Len(r) = Len(q) - 1 /\ Head(q) = q[1]
        /\ \A i \in 1..Len(q) - 1 : r[i] = q[i + 1]
    BY <2>1, HeadTailProperties
  <2> HIDE DEF q, r
  <2>3. Len(q) \in Nat \ {0} /\ DOMAIN q = 1..Len(q) /\ DOMAIN r = 1..Len(r)
    BY <2>1, <2>2, EmptySeq
  <2>4. Len(r) # 0 => r # <<>> /\ Head(r) = r[1]
    BY <2>2
  <2>5. Len(r) = 0 => r = <<>>
    BY <2>2, EmptySeq
  <2> QED BY <2>2, <2>3, <2>4, <2>5
<1>3. \A i \in DOMAIN q : q[i].from + q[i].n = IF i = Len(q) THEN s.offset ELSE q[i + 1].from
  BY DEF Chain
<1>4. ~Probing(s)
  BY DEF Chain
<1> HIDE DEF q, r
<1>5. \A i \in DOMAIN r : r[i].from + r[i].n = IF i = Len(r) THEN s.offset ELSE r[i + 1].from
  <2> SUFFICES ASSUME NEW i \in DOMAIN r
               PROVE  r[i].from + r[i].n = IF i = Len(r) THEN s.offset ELSE r[i + 1].from
    OBVIOUS
  <2>1. i + 1 \in DOMAIN q /\ r[i] = q[i + 1]
    BY <1>2
  <2>2. q[i + 1].from + q[i + 1].n = IF i + 1 = Len(q) THEN s.offset ELSE q[i + 2].from
    BY <1>2, <1>3, <2>1
  <2>3. i # Len(r) => i + 1 \in DOMAIN r /\ r[i + 1] = q[i + 2]
    BY <1>2
  <2>4. (i = Len(r)) <=> (i + 1 = Len(q))
    BY <1>2
  <2> QED BY <2>1, <2>2, <2>3, <2>4
<1>6. q[1].from + q[1].n = IF Len(r) = 0 THEN s.offset ELSE r[1].from
  <2>1. 1 \in DOMAIN q /\ (Len(r) = 0 <=> 1 = Len(q))
    BY <1>2
  <2>2. Len(r) # 0 => r[1] = q[1 + 1]
    BY <1>2
  <2>3. q[1].from + q[1].n = IF 1 = Len(q) THEN s.offset ELSE q[1 + 1].from
    BY <1>3, <2>1
  <2> QED BY <2>1, <2>2, <2>3
<1>7. Cursor(t) = Head(q).from + Head(q).n
  BY <1>1, <1>2, <1>6 DEF Cursor, q, r
<1>8. Cursor(s) = Head(q).from
  BY DEF Cursor, q
<1>9. Chain(t, size)
  BY <1>1, <1>4, <1>5 DEF Chain, Probing, q, r
<1> QED BY <1>1, <1>4, <1>7, <1>8, <1>9 DEF q

\* What is left of a file is fetched, and nothing only at its end.
LEMMA AnsweredAll ==
  ASSUME NEW U, NEW size \in Nat, NEW s \in BS!Sources(U, size), NEW n,
         n = BS!Answered(s, size)
  PROVE  n \in 0..Window /\ s.offset + n <= size /\ (n = 0 => s.offset = size)
BY PlanAssumption DEF BS!Answered, BS!Sources

\* A window is added behind the others.
LEMMA ChainGrows ==
  ASSUME NEW U, NEW size \in Nat, NEW s \in BS!Sources(U, size), Chain(s, size),
         s.reply # NoReply, NEW n \in 1..Window, NEW t,
         t.ready = Append(s.ready, BS!Brought(s, n)), t.offset = s.offset + n,
         t.reply = NoReply, t.eof = s.eof, ~s.eof
  PROVE  Chain(t, size) /\ Cursor(t) = Cursor(s)
<1> DEFINE q == s.ready
           r == t.ready
           w == BS!Brought(s, n)
<1>1. q \in Seq(BS!Windows(U, size)) /\ s.offset \in Nat
  BY DEF BS!Sources
<1>2. w.from = s.offset /\ w.n = n
  BY DEF BS!Brought, Chain
<1>3. \A i \in DOMAIN q : q[i].from + q[i].n = IF i = Len(q) THEN s.offset ELSE q[i + 1].from
  BY DEF Chain
<1>4. Cursor(s) = IF q = <<>> THEN s.offset ELSE Head(q).from
  BY DEF Cursor
<1>5. r = Append(q, w)
  OBVIOUS
<1> HIDE DEF q, r, w
<1>6. /\ Len(q) \in Nat /\ Len(r) = Len(q) + 1 /\ DOMAIN q = 1..Len(q) /\ DOMAIN r = 1..Len(r)
      /\ \A i \in DOMAIN q : r[i] = q[i]
      /\ r[Len(q) + 1] = w
      /\ r # <<>> /\ Head(r) = r[1]
  BY <1>1, <1>5
<1>7. \A i \in DOMAIN r : r[i].from + r[i].n = IF i = Len(r) THEN t.offset ELSE r[i + 1].from
  <2> SUFFICES ASSUME NEW i \in DOMAIN r
               PROVE  r[i].from + r[i].n = IF i = Len(r) THEN t.offset ELSE r[i + 1].from
    OBVIOUS
  <2>1. CASE i = Len(r)
    BY <1>2, <1>6, <2>1
  <2>2. CASE i # Len(r)
    <3>1. i \in DOMAIN q /\ r[i] = q[i] /\ (i # Len(q) => r[i + 1] = q[i + 1])
          /\ (i = Len(q) => r[i + 1] = w)
      BY <1>6, <2>2
    <3> QED BY <1>2, <1>3, <2>2, <3>1
  <2> QED BY <2>1, <2>2
<1>8. Cursor(t) = Cursor(s)
  <2>1. CASE q = <<>>
    <3>1. Head(r) = w
      BY <1>6, <2>1
    <3> QED BY <1>2, <1>4, <1>6, <2>1, <3>1 DEF Cursor, r
  <2>2. CASE q # <<>>
    <3>1. 1 \in DOMAIN q /\ Head(q) = q[1]
      BY <1>1, <2>2, EmptySeq
    <3> QED BY <1>4, <1>6, <2>2, <3>1 DEF Cursor, r
  <2> QED BY <2>1, <2>2
<1> QED BY <1>7, <1>8 DEF Chain, Probing, r

\* onProbeFinished()
LEMMA ChainProbed ==
  ASSUME NEW l \in Lanes, NEW U, NEW s \in BS!Sources(U, FileSize[l]),
         Chain(s, FileSize[l]), Probing(s), NEW ranged,
         NEW t, t = BS!Probed(s, BS!Answered(s, FileSize[l]), ranged)
  PROVE  Chain(t, FileSize[l]) /\ Cursor(t) = 0 /\ Cursor(s) = 0
<1> DEFINE size == FileSize[l]
           n == BS!Answered(s, size)
<1>0. Shaped(s)
  BY SourceShaped
<1>1. /\ FileSize[l] \in Nat /\ HeaderSize[l] \in 1..FileSize[l] - 1
      /\ s.offset = 0 /\ s.ready = <<>> /\ s.reply # NoReply
  BY FilesAssumption DEF Chain, Probing
<1>2. n \in 0..Window /\ (n = 0 => s.offset = size)
  BY <1>1, AnsweredAll
<1>3. n \in 1..Window /\ ~s.eof /\ size # 0
  BY <1>1, <1>2, PlanAssumption DEF Chain
<1>4. t = BS!Probed(s, n, ranged)
  OBVIOUS
<1> HIDE DEF n
<1>5. /\ t.ready = Append(s.ready, BS!Brought(s, n)) /\ t.offset = s.offset + n
      /\ t.reply = NoReply /\ t.eof = s.eof
  <2>1. s.eof \in BOOLEAN
    BY DEF BS!Sources
  <2>2. n # 0
    BY <1>3
  <2>3. /\ t.ready = Append(s.ready, BS!Brought(s, n)) /\ t.offset = s.offset + n
        /\ t.reply = NoReply /\ t.eof = (s.eof \/ n = 0)
    BY <1>0, <1>4, <2>2 DEF Shaped, BS!Probed
  <2> QED BY <1>3, <2>1, <2>2, <2>3
<1>6. size \in Nat /\ Chain(s, size)
  BY <1>1
<1> HIDE DEF size
<1>7. Chain(t, size) /\ Cursor(t) = Cursor(s)
  <2>1. s \in BS!Sources(U, size)
    BY DEF size
  <2> QED BY <1>1, <1>3, <1>5, <1>6, <2>1, ChainGrows
<1>8. Cursor(s) = 0
  BY <1>1 DEF Cursor
<1> QED BY <1>7, <1>8 DEF size

\* onWindowFinished(): a consumer that waits has the window already.
LEMMA ChainLanded ==
  ASSUME NEW U, NEW size \in Nat, NEW s \in BS!Sources(U, size), Chain(s, size),
         s.reply # NoReply, s.waiting => s.ready = <<>>, NEW n, n = BS!Answered(s, size),
         NEW t, t = BS!Landed(s, n)
  PROVE  /\ Chain(t, size) /\ t.url = s.url /\ ~t.waiting
         /\ ~s.waiting \/ n = 0 => Cursor(t) = Cursor(s)
         /\ s.waiting => Cursor(s) = BS!Brought(s, n).from /\ Cursor(t) = Cursor(s) + n
<1>0. Shaped(s) /\ s.eof \in BOOLEAN /\ s.offset \in 0..size
  BY SourceShaped DEF BS!Sources
<1>1. n \in 0..Window /\ s.offset + n <= size /\ (n = 0 => s.offset = size)
  BY AnsweredAll
<1>2. /\ t.url = s.url /\ t.offset = s.offset + n /\ t.reply = NoReply /\ t.waiting = FALSE
      /\ t.eof = (s.eof \/ n = 0)
      /\ t.ready = IF n = 0 \/ s.waiting THEN s.ready ELSE Append(s.ready, BS!Brought(s, n))
  BY <1>0 DEF Shaped, BS!Landed
<1>3. s.reply.from = s.offset /\ (s.eof => s.offset = size) /\ BS!Brought(s, n).from = s.offset
  BY DEF Chain, BS!Brought
<1>4. CASE n = 0
  <2>1. t.ready = s.ready /\ t.offset = s.offset /\ t.offset = size
    BY <1>0, <1>1, <1>2, <1>4
  <2>2. Chain(t, size) /\ Cursor(t) = Cursor(s)
    BY <1>2, <2>1 DEF Chain, Cursor, Probing
  <2>3. s.waiting => Cursor(s) = s.offset
    BY DEF Cursor
  <2> QED BY <1>0, <1>2, <1>3, <1>4, <2>2, <2>3
<1>5. CASE n # 0 /\ s.waiting
  <2>1. t.ready = <<>> /\ s.ready = <<>> /\ \A i \in DOMAIN t.ready : FALSE
    BY <1>2, <1>5
  <2>2. t.eof => t.offset = size
    BY <1>0, <1>1, <1>2, <1>3, <1>5
  <2>3. Chain(t, size)
    BY <1>2, <2>1, <2>2 DEF Chain, Probing
  <2> QED BY <1>2, <1>3, <1>5, <2>1, <2>3 DEF Cursor
<1>6. CASE n # 0 /\ ~s.waiting
  <2>1. ~s.eof /\ n \in 1..Window
    BY <1>0, <1>1, <1>3, <1>6, PlanAssumption
  <2>2. t.ready = Append(s.ready, BS!Brought(s, n)) /\ t.eof = s.eof
    BY <1>0, <1>2, <1>6
  <2>3. Chain(t, size) /\ Cursor(t) = Cursor(s)
    BY <1>2, <2>1, <2>2, ChainGrows
  <2> QED BY <1>2, <1>6, <2>3
<1> QED BY <1>4, <1>5, <1>6

-----------------------------------------------------------------------------
(* Where the units are                                                     *)

Has(q, u) == \E i \in DOMAIN q : q[i].unit = u

\* A unit has been pushed, or is held, or cut and not drained yet.
Taken(l, u) == Has(pushed[l], u) \/ Has(hold[l], u) \/ Has(demux[l].samples, u)

\* The members that say how far the opening of two streams has come are those of p.
Steady(p) ==
  /\ pump'.dual = p.dual /\ pump'.open = p.open
  /\ pump'.esSent = p.esSent /\ pump'.configured = p.configured

LEMMA HasBoth ==
  ASSUME NEW S, NEW q \in Seq(S), NEW r \in Seq(S), NEW u, Has(q, u) \/ Has(r, u)
  PROVE  Has(q \o r, u)
<1>1. /\ Len(q) \in Nat /\ Len(r) \in Nat
      /\ DOMAIN q = 1..Len(q) /\ DOMAIN r = 1..Len(r)
      /\ DOMAIN (q \o r) = 1..Len(q) + Len(r)
      /\ \A i \in 1..Len(q) : (q \o r)[i] = q[i]
      /\ \A i \in 1..Len(r) : (q \o r)[Len(q) + i] = r[i]
  OBVIOUS
<1> DEFINE c == q \o r
<1> HIDE DEF c
<1>2. CASE Has(q, u)
  <2>1. PICK i \in 1..Len(q) : q[i].unit = u
    BY <1>1, <1>2 DEF Has
  <2>2. i \in DOMAIN c /\ c[i].unit = u
    BY <1>1, <2>1 DEF c
  <2> QED BY <2>2 DEF Has, c
<1>3. CASE Has(r, u)
  <2>1. PICK i \in 1..Len(r) : r[i].unit = u
    BY <1>1, <1>3 DEF Has
  <2>2. Len(q) + i \in DOMAIN c /\ c[Len(q) + i].unit = u
    BY <1>1, <2>1 DEF c
  <2> QED BY <2>2 DEF Has, c
<1> QED BY <1>2, <1>3

LEMMA HasSample ==
  ASSUME NEW S, NEW n \in Nat, NEW b \in Nat, NEW u \in b + 1..b + n,
         NEW q, q = [i \in 1..n |-> [session |-> S, unit |-> b + i]]
  PROVE  Has(q, u)
<1>1. u - b \in 1..n
  OBVIOUS
<1>2. u - b \in DOMAIN q /\ q[u - b].unit = u
  BY <1>1
<1> QED BY <1>2 DEF Has

\* The samples cut from a window are all of its units behind the header.
LEMMA CutHas ==
  ASSUME NEW l \in Lanes, NEW U, NEW w \in BS!Windows(U, FileSize[l]),
         NEW u \in w.from + 1..w.from + w.n, u > HeaderSize[l]
  PROVE  Has(Cut(l, w), u)
<1> DEFINE first == IF w.from < HeaderSize[l] THEN HeaderSize[l] + 1 ELSE w.from + 1
           last == w.from + w.n
           n == last - first + 1
<1>1. /\ w.from \in Nat /\ w.n \in Nat /\ HeaderSize[l] \in Nat
  BY SizeIs, PlanAssumption DEF BS!Windows
<1>2. first \in Nat /\ last \in Nat /\ u \in first..last /\ first >= 1
  BY <1>1
<1>3. ~(last < first)
  BY <1>2
<1>4. Cut(l, w) = [i \in 1..n |-> [session |-> w.url, unit |-> first + i - 1]]
  BY <1>3 DEF Cut
<1> HIDE DEF first, last
<1>5. u - first + 1 \in 1..n /\ first + (u - first + 1) - 1 = u
  BY <1>2
<1> HIDE DEF n
<1> DEFINE q == Cut(l, w)
<1>6. u - first + 1 \in DOMAIN q /\ q[u - first + 1].unit = u
  BY <1>4, <1>5
<1> HIDE DEF q
<1>7. Has(q, u)
  BY <1>6 DEF Has
<1> QED BY <1>7 DEF q

\* drainSamples() keeps every sample, as long as there is a pipeline to push to.
LEMMA DrainTakes ==
  ASSUME NEW K, K \subseteq Sessions, Handling(K), NEW p \in Pumps,
         NEW d \in [Lanes -> DemuxesOf(K)], NEW l \in Lanes, NEW more, Drain(p, d, l, more),
         p.configured => caps' # 0
  PROVE  /\ Steady(p)
         /\ \A k \in Lanes :
              /\ demux'[k].next = d[k].next
              /\ \A u : Has(pushed[k], u) \/ Has(hold[k], u) \/ Has(d[k].samples, u)
                          => Taken(k, u)'
<1> DEFINE held == [k \in Lanes |-> hold[k] \o d[k].samples]
           rest == [k \in Lanes |-> [d[k] EXCEPT !.samples = <<>>]]
<1>1. /\ pushed \in [Lanes -> Seq(Samples)] /\ hold \in [Lanes -> Seq(SamplesOf(K))]
      /\ \A k \in Lanes : d[k].samples \in Seq(SamplesOf(K))
      /\ Seq(SamplesOf(K)) \subseteq Seq(Samples)
  BY SamplesWithin, SamplesAll DEF Handling, DemuxesOf
<1>2. \A k \in Lanes : rest[k].next = d[k].next
  BY DEF DemuxesOf
<1>3. \A k \in Lanes : \A u : Has(hold[k], u) \/ Has(d[k].samples, u) => Has(held[k], u)
  BY <1>1, HasBoth
<1>4. held \in [Lanes -> Seq(Samples)]
  <2>1. \A k \in Lanes : hold[k] \o d[k].samples \in Seq(SamplesOf(K))
    BY <1>1
  <2> QED BY <1>1, <2>1
<1>5. CASE Buffer(p, d, more)
  <2>1. pump' = p /\ demux' = d /\ UNCHANGED <<hold, pushed>>
    BY <1>5 DEF Buffer
  <2> QED BY <2>1 DEF Steady, Taken
<1>6. CASE Withhold(p, d, l, more)
  <2>1. /\ hold' = held /\ demux' = rest /\ pushed' = pushed
        /\ pump' = [p EXCEPT !.reported = @ \/ l = "video"]
    BY <1>6 DEF Withhold
  <2>2. Steady(p)
    BY <2>1 DEF Steady, Pumps
  <2> HIDE DEF held, rest
  <2> QED BY <1>2, <1>3, <2>1, <2>2 DEF Taken
<1>7. CASE Flush(p, d, more)
  <2>1. /\ p.configured /\ demux' = rest /\ Push(held)
        /\ pump' = [p EXCEPT !.primed = TRUE, !.reported = FALSE,
                             !.videoDone = @ \/ p.eosPending["video"],
                             !.eosPending = Both(FALSE)]
    BY <1>7 DEF Flush
  <2>2. Steady(p)
    BY <2>1 DEF Steady, Pumps
  <2> HIDE DEF held, rest
  <2>3. \A k \in Lanes : pushed'[k] = pushed[k] \o held[k]
    BY <2>1 DEF Push
  <2>4. \A k \in Lanes : \A u : Has(pushed[k], u) \/ Has(held[k], u) => Has(pushed'[k], u)
    <3> SUFFICES ASSUME NEW k \in Lanes, NEW u, Has(pushed[k], u) \/ Has(held[k], u)
                 PROVE  Has(pushed'[k], u)
      OBVIOUS
    <3>1. pushed[k] \in Seq(Samples) /\ held[k] \in Seq(Samples)
      BY <1>1, <1>4
    <3>2. Has(pushed[k] \o held[k], u)
      BY <3>1, HasBoth
    <3> QED BY <2>3, <3>2
  <2> QED BY <1>2, <1>3, <2>1, <2>2, <2>4 DEF Taken
<1> QED BY <1>5, <1>6, <1>7 DEF Drain

\* onVideoFinished(), onAudioFinished() of two streams.
LEMMA FinishedTakes ==
  ASSUME NEW K, K \subseteq Sessions, Handling(K), pump.dual, NEW l \in Lanes, NEW more,
         OnFinished(l, more), pump.configured => caps' # 0
  PROVE  /\ Steady(pump) /\ mail' = mail /\ broken' = broken
         /\ \A k \in Lanes : /\ demux'[k].next = demux[k].next
                             /\ \A u : Taken(k, u) => Taken(k, u)'
<1> DEFINE p == [pump EXCEPT !.eosPending[l] = TRUE]
<1>1. Drain(p, demux, l, more) /\ UNCHANGED <<broken, mail>>
  BY DEF OnFinished
<1>2. /\ p \in Pumps /\ p.dual = pump.dual /\ p.open = pump.open
      /\ p.esSent = pump.esSent /\ p.configured = pump.configured
  BY PendingGives DEF Handling, Pumps
<1>3. demux \in [Lanes -> DemuxesOf(K)]
  BY DEF Handling
<1> HIDE DEF p
<1>4. /\ Steady(p)
      /\ \A k \in Lanes :
           /\ demux'[k].next = demux[k].next
           /\ \A u : Has(pushed[k], u) \/ Has(hold[k], u) \/ Has(demux[k].samples, u)
                       => Taken(k, u)'
  BY <1>1, <1>2, <1>3, DrainTakes
<1>5. Steady(pump)
  BY <1>2, <1>4 DEF Steady
<1> QED BY <1>1, <1>4, <1>5 DEF Taken

\* feed() of bytes that follow on.
LEMMA FeedHas ==
  ASSUME NEW l \in Lanes, NEW K, NEW d \in DemuxesOf(K),
         NEW w \in BS!Windows(K, FileSize[l]), NEW e, e = Feed(d, l, w), ~e.failed
  PROVE  /\ d.next = w.from /\ e.next = w.from + w.n
         /\ \A u : Has(d.samples, u) => Has(e.samples, u)
         /\ \A u \in w.from + 1..w.from + w.n : u > HeaderSize[l] => Has(e.samples, u)
<1>1. Cut(l, w) \in Seq(SamplesOf(K)) /\ d.samples \in Seq(SamplesOf(K))
  BY CutGives DEF DemuxesOf
<1>2. ~(d.failed \/ w.from # d.next)
  <2>1. ASSUME d.failed \/ w.from # d.next PROVE FALSE
    <3>1. e = [d EXCEPT !.failed = TRUE]
      BY <2>1 DEF Feed
    <3> QED BY <3>1 DEF DemuxesOf
  <2> QED BY <2>1
<1>3. e = [d EXCEPT !.next = w.from + w.n, !.samples = d.samples \o Cut(l, w),
                    !.header = d.header \/ w.from + w.n >= HeaderSize[l]]
  BY <1>2 DEF Feed
<1>4. e.next = w.from + w.n /\ e.samples = d.samples \o Cut(l, w)
  BY <1>3 DEF DemuxesOf
<1>5. \A u : Has(d.samples, u) \/ Has(Cut(l, w), u) => Has(e.samples, u)
  BY <1>1, <1>4, HasBoth
<1>6. \A u \in w.from + 1..w.from + w.n : u > HeaderSize[l] => Has(Cut(l, w), u)
  BY CutHas
<1> QED BY <1>2, <1>4, <1>5, <1>6

\* maybeEsReady()
LEMMA EsReadyIs ==
  ASSUME NEW p \in Pumps, NEW d
  PROVE  LET q == EsReady(p, d)
         IN /\ q \in Pumps /\ q.dual = p.dual /\ q.open = p.open
            /\ q.configured = p.configured
            /\ q.esSent => p.esSent \/ \A k \in Lanes : p.open[k]
<1> DEFINE r == [p EXCEPT !.esSent = TRUE]
<1>1. r \in Pumps /\ r.dual = p.dual /\ r.open = p.open /\ r.configured = p.configured
  BY DEF Pumps
<1>2. CASE BothReady(p, d)
  <2>1. EsReady(p, d) = Rearm(r)
    BY <1>2 DEF EsReady
  <2> HIDE DEF r
  <2>2. Rearm(r) \in Pumps
    BY <1>1, RearmGives
  <2>3. Rearm(r).dual = r.dual /\ Rearm(r).open = r.open /\ Rearm(r).configured = r.configured
    BY <1>1 DEF Rearm, Pumps
  <2>4. \A k \in Lanes : p.open[k]
    BY <1>2 DEF BothReady
  <2> QED BY <1>1, <2>1, <2>2, <2>3, <2>4
<1>3. CASE ~BothReady(p, d)
  BY <1>3 DEF EsReady
<1> QED BY <1>2, <1>3

\* onVideoData(), onAudioData() of two streams that are open: the window is
\* parsed whole, where it belongs, or the pump has failed.
LEMMA DataTakes ==
  ASSUME NEW K, K \subseteq Sessions, Handling(K), pump.dual, NEW l \in Lanes, pump.open[l],
         NEW w \in BS!Windows(K, FileSize[l]), NEW more, OnData(l, w, more),
         pump.configured => caps' # 0
  PROVE  /\ pump'.dual = pump.dual /\ pump'.open = pump.open
         /\ pump'.configured = pump.configured
         /\ pump'.esSent => pump.esSent \/ \A k \in Lanes : pump.open[k]
         /\ broken => broken'
         /\ ~broken' =>
              /\ demux[l].next = w.from /\ demux'[l].next = w.from + w.n
              /\ \A k \in Lanes : k # l => demux'[k].next = demux[k].next
              /\ \A k \in Lanes : \A u : Taken(k, u) => Taken(k, u)'
              /\ \A u \in w.from + 1..w.from + w.n : u > HeaderSize[l] => Taken(l, u)'
<1> DEFINE e == Feed(demux[l], l, w)
           d == [demux EXCEPT ![l] = e]
<1>1. OnSamples(l, w, more)
  BY DEF OnData, OnBytes, OnStaleData
<1>2. demux \in [Lanes -> DemuxesOf(K)] /\ pump \in Pumps /\ e \in DemuxesOf(K)
  BY FeedGives DEF Handling
<1>3. d \in [Lanes -> DemuxesOf(K)] /\ d[l] = e /\ \A k \in Lanes : k # l => d[k] = demux[k]
  BY <1>2
<1>4. ~e.failed =>
        /\ demux[l].next = w.from /\ e.next = w.from + w.n
        /\ \A u : Has(demux[l].samples, u) => Has(e.samples, u)
        /\ \A u \in w.from + 1..w.from + w.n : u > HeaderSize[l] => Has(e.samples, u)
  <2> DEFINE f == demux[l]
  <2>1. f \in DemuxesOf(K)
    BY <1>2
  <2>2. e = Feed(f, l, w)
    OBVIOUS
  <2> HIDE DEF f, e
  <2>3. ~e.failed => /\ f.next = w.from /\ e.next = w.from + w.n
                     /\ \A u : Has(f.samples, u) => Has(e.samples, u)
                     /\ \A u \in w.from + 1..w.from + w.n : u > HeaderSize[l] => Has(e.samples, u)
    BY <2>1, <2>2, FeedHas
  <2> QED BY <2>3 DEF f
<1>5. \/ e.failed /\ broken' /\ pump' = pump
      \/ ~e.failed /\ demux' = d /\ UNCHANGED <<pump, hold, broken, pushed>>
      \/ ~e.failed /\ Drain(EsReady(pump, d), d, l, more) /\ UNCHANGED broken
  <2> HIDE DEF e
  <2>1. OnSamples(l, w, more) /\ d = [demux EXCEPT ![l] = Feed(@, l, w)]
    BY <1>1 DEF e
  <2> HIDE DEF d
  <2> QED BY <1>3, <2>1 DEF OnSamples
<1> HIDE DEF d, e
<1>6. CASE e.failed /\ broken' /\ pump' = pump
  BY <1>6
<1>7. CASE ~e.failed /\ demux' = d /\ UNCHANGED <<pump, hold, broken, pushed>>
  <2>1. \A k \in Lanes : \A u : Has(demux[k].samples, u) => Has(d[k].samples, u)
    BY <1>3, <1>4, <1>7
  <2> QED BY <1>3, <1>4, <1>7, <2>1 DEF Taken
<1>8. CASE ~e.failed /\ Drain(EsReady(pump, d), d, l, more) /\ UNCHANGED broken
  <2> DEFINE q == EsReady(pump, d)
  <2>1. /\ q \in Pumps /\ q.dual = pump.dual /\ q.open = pump.open
        /\ q.configured = pump.configured
        /\ q.esSent => pump.esSent \/ \A k \in Lanes : pump.open[k]
    BY <1>2, EsReadyIs
  <2>2. Drain(q, d, l, more)
    BY <1>8
  <2> HIDE DEF q
  <2>3. /\ Steady(q)
        /\ \A k \in Lanes :
             /\ demux'[k].next = d[k].next
             /\ \A u : Has(pushed[k], u) \/ Has(hold[k], u) \/ Has(d[k].samples, u)
                         => Taken(k, u)'
    BY <1>3, <2>1, <2>2, DrainTakes
  <2>4. \A k \in Lanes : \A u : Has(demux[k].samples, u) => Has(d[k].samples, u)
    BY <1>3, <1>4, <1>8
  <2>5. \A k \in Lanes : \A u : Taken(k, u) => Taken(k, u)'
    BY <2>3, <2>4 DEF Taken
  <2>6. /\ demux[l].next = w.from /\ demux'[l].next = w.from + w.n
        /\ \A k \in Lanes : k # l => demux'[k].next = demux[k].next
    BY <1>3, <1>4, <1>8, <2>3
  <2>7. \A u \in w.from + 1..w.from + w.n : u > HeaderSize[l] => Taken(l, u)'
    BY <1>3, <1>4, <1>8, <2>3
  <2>8. /\ pump'.dual = pump.dual /\ pump'.open = pump.open
        /\ pump'.configured = pump.configured
        /\ pump'.esSent => pump.esSent \/ \A k \in Lanes : pump.open[k]
    BY <2>1, <2>3 DEF Steady
  <2> QED BY <1>8, <2>5, <2>6, <2>7, <2>8
<1> QED BY <1>5, <1>6, <1>7, <1>8

\* onVideoData() of a single stream: its units are pushed as they come.
LEMMA BytesTake ==
  ASSUME NEW K, Handling(K), ~pump.dual, NEW U, U \subseteq Sessions, NEW l \in Lanes,
         NEW w \in BS!Windows(U, FileSize[l]), NEW more, OnData(l, w, more)
  PROVE  /\ owed' = more /\ UNCHANGED <<pump, mail, broken>>
         /\ \A u : Has(pushed["video"], u) => Has(pushed'["video"], u)
         /\ l = "video" /\ caps' # 0 =>
              \A u \in w.from + 1..w.from + w.n : Has(pushed'["video"], u)
<1> DEFINE units == [i \in 1..w.n |-> [session |-> w.url, unit |-> w.from + i]]
           raw == [k \in Lanes |-> IF k # l \/ l = "audio" THEN <<>> ELSE units]
<1>1. /\ Push(raw) /\ owed' = more /\ UNCHANGED <<pump, mail, broken>>
  BY DEF OnData, OnBytes, OnStaleData, OnSamples
<1>2. w.n \in Nat /\ w.from \in Nat /\ w.url \in U
  BY SizeIs, PlanAssumption DEF BS!Windows
<1>3. units \in Seq(Samples)
  <2>1. \A i \in 1..w.n : [session |-> w.url, unit |-> w.from + i] \in Samples
    BY <1>2 DEF Samples
  <2> QED BY <1>2, <2>1
<1>4. \A u \in w.from + 1..w.from + w.n : Has(units, u)
  BY <1>2, HasSample
<1> HIDE DEF units
<1>5. raw["video"] \in Seq(Samples) /\ (l = "video" => raw["video"] = units)
  <2>1. <<>> \in Seq(Samples)
    OBVIOUS
  <2> QED BY <1>3, <2>1 DEF Lanes
<1> HIDE DEF raw
<1>6. CASE caps' = 0
  BY <1>1, <1>6 DEF Push
<1>7. CASE caps' # 0
  <2>1. pushed'["video"] = pushed["video"] \o raw["video"] /\ pushed["video"] \in Seq(Samples)
    BY <1>1, <1>7 DEF Push, Handling, Lanes
  <2>2. \A u : Has(pushed["video"], u) \/ Has(raw["video"], u) => Has(pushed'["video"], u)
    BY <1>5, <2>1, HasBoth
  <2> QED BY <1>1, <1>4, <1>5, <2>2
<1> QED BY <1>6, <1>7

-----------------------------------------------------------------------------
(* Nothing is left out                                                     *)

ChainInv == \A l \in Lanes : Speaks(l) => Chain(src[l], FileSize[l])

\* A seek under way is the last one made, and the pump has not moved for it.
SoughtInv == seeking # NoSeek => wanted = seeking /\ anchored = NoSeek

\* The lanes of two streams that play are open, once the probe has been answered.
Runs == pump.dual /\ ~broken /\ gui \in {"loading", "running"}
OpenInv ==
  pump.dual =>
    /\ pump.esSent => \A l \in Lanes : pump.open[l]
    /\ gui = "loading" => ~pump.configured
    /\ Runs => \A l \in Lanes : pump.open[l] \/ Probing(src[l])

UrlInv == \A l \in Lanes : pump.eosPending[l] \/ app[l].eos = "yes" => src[l].url # 0

\* The pump is where the pipeline was flushed to.
At == ~broken /\ seeking = NoSeek /\ anchored = wanted

\* Two streams: the demuxer is where the source is, and all before it is taken.
DualPlace ==
  Runs /\ At /\ (gui = "running" => caps = session) =>
    \A l \in Lanes :
      /\ demux[l].next = Cursor(src[l])
      /\ \A u \in Origin(l) + 1..demux[l].next : Taken(l, u)

\* A single stream: while its opened() is unread there is nobody to ask for data;
\* in its pipeline all is pushed that the source has delivered.
Opening(i) == mail[i] = [kind |-> "opened", session |-> session]
Quiet(s) == ~s.waiting /\ "video" \notin owed
SinglePlace ==
  ~pump.dual /\ src["video"].url # 0 =>
    /\ (\E i \in DOMAIN mail : Opening(i)) =>
         /\ caps = 0 /\ ~app["video"].asked /\ Quiet(src["video"])
         /\ Cursor(src["video"]) = 0
         /\ \A i, j \in DOMAIN mail : Opening(i) /\ Opening(j) => i = j
    /\ At /\ caps = session =>
         \A u \in Origin("video") + 1..Cursor(src["video"]) : Has(pushed["video"], u)

PlaceInv == ChainInv /\ SoughtInv /\ OpenInv /\ UrlInv /\ DualPlace /\ SinglePlace

\* What a step of the media thread may do to the lanes of two streams.
DualMoves ==
  \A k \in Lanes :
    /\ demux[k].next = Cursor(src[k]) => demux'[k].next = Cursor(src'[k])
    /\ \A u : Taken(k, u) => Taken(k, u)'
    /\ \A u \in demux[k].next + 1..demux'[k].next : u > HeaderSize[k] => Taken(k, u)'

\* And to a single stream.
SingleMoves ==
  /\ \/ mail' = mail
     \/ /\ Probing(src["video"])
        /\ mail' = Append(mail, [kind |-> "opened", session |-> session])
  /\ app'["video"].asked => app["video"].asked
  /\ Quiet(src["video"]) => /\ Quiet(src["video"])'
                            /\ Cursor(src'["video"]) = Cursor(src["video"])
  /\ \A u : Has(pushed["video"], u) => Has(pushed'["video"], u)
  /\ caps # 0 => \A u \in Cursor(src["video"]) + 1..Cursor(src'["video"]) : Has(pushed'["video"], u)

LEMMA OriginIs ==
  ASSUME PumpInv, session # 0, NEW l \in Lanes
  PROVE  Origin(l) \in Nat /\ (pump.dual => Origin(l) >= HeaderSize[l])
<1>1. CASE wanted # NoSeek
  <2>1. wanted \in Targets
    BY <1>1 DEF PumpInv, Commanding
  <2> QED BY <1>1, <2>1, FilesAssumption DEF Origin
<1>2. CASE wanted = NoSeek
  <2>1. pump.dual => DualSession[session]
    BY DEF PumpInv, DualInv
  <2> QED BY <1>2, <2>1, SizeIs DEF Origin
<1> QED BY <1>1, <1>2

\* A pipeline that is configured is there to be pushed to.
LEMMA RunsPushes ==
  ASSUME LastInv, OpenInv, Runs, pump.configured
  PROVE  caps # 0
BY DEF LastInv, StageInv, OpenInv, Runs

LEMMA CursorIs ==
  ASSUME NEW U, NEW size \in Nat, NEW s \in BS!Sources(U, size)
  PROVE  Cursor(s) \in Nat
<1>1. CASE s.ready = <<>>
  BY <1>1 DEF Cursor, BS!Sources
<1>2. CASE s.ready # <<>>
  <2>1. s.ready \in Seq(BS!Windows(U, size))
    BY DEF BS!Sources
  <2>2. Head(s.ready) \in BS!Windows(U, size)
    BY <1>2, <2>1, HeadTailProperties
  <2> QED BY <1>2, <2>2 DEF Cursor, BS!Windows
<1> QED BY <1>1, <1>2

LEMMA LetterKept ==
  ASSUME mail \in Seq(Letters), mail' = Tail(mail), mail # <<>>, session' = session
  PROVE  \A i \in DOMAIN mail' : Opening(i)' => i + 1 \in DOMAIN mail /\ Opening(i + 1)
<1>1. \A i \in DOMAIN mail' : i + 1 \in DOMAIN mail /\ mail'[i] = mail[i + 1]
  OBVIOUS
<1> QED BY <1>1 DEF Opening

LEMMA DualMoved ==
  ASSUME PumpInv, OpenInv, DualPlace, UNCHANGED <<session, gui, seeking, wanted, anchored, caps>>,
         broken => broken', pump'.dual = pump.dual,
         Runs /\ ~broken' => DualMoves,
         \A k \in Lanes : demux'[k].next \in Nat
  PROVE  DualPlace'
<1> SUFFICES ASSUME Runs', At', (gui = "running" => caps = session), NEW l \in Lanes
             PROVE  /\ demux'[l].next = Cursor(src'[l])
                    /\ \A u \in Origin(l)' + 1..demux'[l].next : Taken(l, u)'
  BY DEF DualPlace
<1>1. Runs /\ At /\ ~broken'
  BY DEF Runs, At
<1>2. /\ demux[l].next = Cursor(src[l])
      /\ \A u \in Origin(l) + 1..demux[l].next : Taken(l, u)
  BY <1>1 DEF DualPlace
<1>3. /\ demux'[l].next = Cursor(src'[l])
      /\ \A u : Taken(l, u) => Taken(l, u)'
      /\ \A u \in demux[l].next + 1..demux'[l].next : u > HeaderSize[l] => Taken(l, u)'
  BY <1>1, <1>2 DEF DualMoves
<1>4. Origin(l)' = Origin(l)
  BY DEF Origin
<1>5. Origin(l) \in Nat /\ Origin(l) >= HeaderSize[l] /\ HeaderSize[l] \in Nat
  <2>1. session # 0
    BY <1>1 DEF PumpInv, DualInv, Runs
  <2> QED BY <1>1, <2>1, OriginIs, SizeIs DEF Runs
<1>6. demux[l].next \in Nat /\ demux'[l].next \in Nat
  BY DEF PumpInv, Handling, DemuxesOf
<1>7. ASSUME NEW u \in Origin(l) + 1..demux'[l].next PROVE Taken(l, u)'
  <2>1. CASE u <= demux[l].next
    <3>1. u \in Origin(l) + 1..demux[l].next
      BY <1>5, <1>6, <2>1
    <3> QED BY <1>2, <1>3, <3>1
  <2>2. CASE ~(u <= demux[l].next)
    <3>1. u \in demux[l].next + 1..demux'[l].next /\ u > HeaderSize[l]
      BY <1>5, <1>6, <2>2
    <3> QED BY <1>3, <3>1
  <2> QED BY <2>1, <2>2
<1> QED BY <1>3, <1>4, <1>7

LEMMA SingleMoved ==
  ASSUME PumpInv, LastInv, ChainInv, SinglePlace,
         UNCHANGED <<session, seeking, wanted, anchored, caps>>,
         broken => broken', pump'.dual = pump.dual, src'["video"].url = src["video"].url,
         Cursor(src'["video"]) \in Nat,
         ~pump.dual => SingleMoves
  PROVE  SinglePlace'
<1> DEFINE s == src["video"]
           t == src'["video"]
<1> SUFFICES ASSUME ~pump.dual, s.url # 0
             PROVE  /\ (\E i \in DOMAIN mail' : Opening(i)') =>
                         /\ caps = 0 /\ ~app'["video"].asked /\ Quiet(s)' /\ Cursor(t) = 0
                         /\ \A i, j \in DOMAIN mail' : Opening(i)' /\ Opening(j)' => i = j
                    /\ At' /\ caps = session =>
                         \A u \in Origin("video")' + 1..Cursor(t) : Has(pushed'["video"], u)
  BY DEF SinglePlace
<1>0. "video" \in Lanes
  BY DEF Lanes
<1>1. SingleMoves /\ mail \in Seq(Letters) /\ Chain(s, FileSize["video"])
  BY <1>0 DEF PumpInv, Handling, ChainInv, Speaks
<1>2. ASSUME \E i \in DOMAIN mail' : Opening(i)'
      PROVE  /\ caps = 0 /\ ~app'["video"].asked /\ Quiet(s)' /\ Cursor(t) = 0
             /\ \A i, j \in DOMAIN mail' : Opening(i)' /\ Opening(j)' => i = j
  <2>1. CASE mail' = mail
    <3>1. \A i \in DOMAIN mail' : Opening(i)' <=> Opening(i)
      BY <2>1 DEF Opening
    <3>2. /\ caps = 0 /\ ~app["video"].asked /\ Quiet(s) /\ Cursor(s) = 0
          /\ \A i, j \in DOMAIN mail : Opening(i) /\ Opening(j) => i = j
      BY <1>2, <2>1, <3>1 DEF SinglePlace
    <3> QED BY <1>1, <2>1, <3>1, <3>2 DEF SingleMoves
  <2>2. CASE /\ Probing(s)
             /\ mail' = Append(mail, [kind |-> "opened", session |-> session])
    <3>1. /\ caps = 0 /\ ~app["video"].asked /\ Quiet(s)
          /\ \A i \in DOMAIN mail : mail[i].kind = "opened" => mail[i].session # session
      BY <2>2 DEF LastInv, ProbeInv, Quiet
    <3>2. Cursor(s) = 0
      BY <1>1, <2>2 DEF Chain, Cursor
    <3>3. \A i \in DOMAIN mail' : i = Len(mail) + 1 \/ (i \in DOMAIN mail /\ mail'[i] = mail[i])
      BY <1>1, <2>2
    <3>4. \A i \in DOMAIN mail : ~Opening(i)
      BY <3>1 DEF Opening
    <3>5. \A i \in DOMAIN mail' : Opening(i)' => i = Len(mail) + 1
      BY <3>3, <3>4 DEF Opening
    <3> QED BY <1>1, <3>1, <3>2, <3>5 DEF SingleMoves
  <2> QED BY <1>1, <2>1, <2>2 DEF SingleMoves
<1>3. ASSUME At', caps = session
      PROVE  \A u \in Origin("video")' + 1..Cursor(t) : Has(pushed'["video"], u)
  <2> SUFFICES ASSUME NEW u \in Origin("video")' + 1..Cursor(t)
               PROVE  Has(pushed'["video"], u)
    OBVIOUS
  <2>1. s \in BS!Sources(UrlsOf("video"), FileSize["video"]) /\ FileSize["video"] \in Nat
    BY <1>0, SizeIs DEF PumpInv, SourcesInv
  <2>2. session # 0
    <3>1. s.url \in UrlsOf("video")
      BY <2>1 DEF BS!Sources
    <3> QED BY <3>1, UrlsAre, SessionsAre, <1>0 DEF PumpInv
  <2>3. Origin("video") \in Nat /\ Cursor(s) \in Nat /\ Cursor(t) \in Nat
    BY <1>0, <2>1, <2>2, OriginIs, CursorIs
  <2>4. Origin("video")' = Origin("video") /\ At
    BY <1>3 DEF Origin, At
  <2>5. \A v \in Origin("video") + 1..Cursor(s) : Has(pushed["video"], v)
    BY <1>3, <2>4 DEF SinglePlace
  <2> HIDE DEF s, t
  <2>6. CASE u <= Cursor(s)
    <3>1. u \in Origin("video") + 1..Cursor(s)
      BY <2>3, <2>4, <2>6
    <3> QED BY <1>1, <2>5, <3>1 DEF SingleMoves
  <2>7. CASE ~(u <= Cursor(s))
    <3>1. u \in Cursor(s) + 1..Cursor(t) /\ caps # 0
      BY <1>3, <2>2, <2>3, <2>4, <2>7
    <3> QED BY <1>1, <3>1 DEF SingleMoves, s, t
  <2> QED BY <2>6, <2>7
<1> QED BY <1>2, <1>3

\* A step of the media thread that moves the source of lane l on, to t.
LEMMA PlaceMoves ==
  ASSUME PumpInv, PumpInv', LastInv, PlaceInv, NEW l \in Lanes, NEW t,
         src' = [src EXCEPT ![l] = t], t.url = src[l].url,
         UNCHANGED <<session, gui, seeking, wanted, anchored, caps>>,
         broken => broken',
         Speaks(l) => Chain(t, FileSize[l]),
         pump'.dual = pump.dual, pump'.configured = pump.configured,
         \A k \in Lanes : pump.open[k] => pump'.open[k],
         pump'.esSent => pump.esSent \/ \A k \in Lanes : pump.open[k],
         Probing(src[l]) => Probing(t) \/ pump'.open[l] \/ broken' \/ ~pump.dual,
         \A k \in Lanes : pump'.eosPending[k] \/ app'[k].eos = "yes" => src[k].url # 0,
         Runs /\ ~broken' => DualMoves, ~pump.dual => SingleMoves
  PROVE  PlaceInv'
<1>1. src'[l] = t /\ \A k \in Lanes : k # l => src'[k] = src[k]
  BY DEF PumpInv, SourcesInv
<1>2. \A k \in Lanes : Speaks(k)' = Speaks(k) /\ src'[k].url = src[k].url
  BY <1>1 DEF Speaks
<1>3. ChainInv'
  BY <1>1, <1>2 DEF PlaceInv, ChainInv
<1>4. SoughtInv'
  BY DEF PlaceInv, SoughtInv
<1>5. OpenInv'
  <2> SUFFICES ASSUME pump.dual PROVE OpenInv'
    BY DEF OpenInv
  <2>1. OpenInv
    BY DEF PlaceInv
  <2>2. Runs' => Runs /\ ~broken'
    BY DEF Runs
  <2>3. \A k \in Lanes : Runs' => pump'.open[k] \/ Probing(src'[k])
    BY <1>1, <2>1, <2>2 DEF OpenInv
  <2> QED BY <2>1, <2>3 DEF OpenInv, Probing
<1>6. UrlInv'
  BY <1>2 DEF UrlInv
<1>7. DualPlace'
  <2>1. \A k \in Lanes : demux'[k].next \in Nat
    BY DEF PumpInv, Handling, DemuxesOf
  <2> QED BY <2>1, DualMoved DEF PlaceInv
<1>8. SinglePlace'
  <2>1. "video" \in Lanes
    BY DEF Lanes
  <2>2. Cursor(src'["video"]) \in Nat
    <3>1. src'["video"] \in BS!Sources(UrlsOf("video")', FileSize["video"])
      BY <2>1 DEF PumpInv, SourcesInv
    <3> QED BY <2>1, <3>1, CursorIs, SizeIs
  <2> QED BY <1>2, <2>1, <2>2, SingleMoved DEF PlaceInv
<1> QED BY <1>3, <1>4, <1>5, <1>6, <1>7, <1>8 DEF PlaceInv

\* Where a source delivers nothing, nothing has to be said of the units.
LEMMA PlaceStays ==
  ASSUME PumpInv, PumpInv', LastInv, PlaceInv, NEW l \in Lanes, NEW t,
         src' = [src EXCEPT ![l] = t], t.url = src[l].url,
         UNCHANGED <<session, gui, seeking, wanted, anchored, caps>>,
         UNCHANGED <<pump, demux, hold, mail, app, pushed>>, owed' \subseteq owed,
         broken => broken',
         Speaks(l) => Chain(t, FileSize[l]) /\ Cursor(t) = Cursor(src[l]),
         t.waiting => src[l].waiting \/ l \in owed,
         Probing(src[l]) => Probing(t) \/ broken' \/ ~pump.dual
  PROVE  PlaceInv'
<1>1. src'[l] = t /\ \A k \in Lanes : k # l => src'[k] = src[k]
  BY DEF PumpInv, SourcesInv
<1>2. \A k \in Lanes : Speaks(k) => Cursor(src'[k]) = Cursor(src[k])
  BY <1>1
<1>3. Runs => DualMoves
  <2> SUFFICES ASSUME Runs, NEW k \in Lanes
               PROVE  /\ demux[k].next = Cursor(src[k]) => demux'[k].next = Cursor(src'[k])
                      /\ \A u : Taken(k, u) => Taken(k, u)'
                      /\ \A u \in demux[k].next + 1..demux'[k].next :
                           u > HeaderSize[k] => Taken(k, u)'
    BY DEF DualMoves
  <2>1. demux[k].next \in Nat
    BY DEF PumpInv, Handling, DemuxesOf
  <2>2. Cursor(src'[k]) = Cursor(src[k])
    BY <1>2 DEF Runs, Speaks
  <2> QED BY <2>1, <2>2 DEF Taken
<1>4. ~pump.dual => SingleMoves
  <2>0. "video" \in Lanes
    BY DEF Lanes
  <2>1. Cursor(src'["video"]) = Cursor(src["video"])
    BY <1>2, <2>0 DEF Speaks
  <2>2. Cursor(src["video"]) \in Nat
    <3>1. src["video"] \in BS!Sources(UrlsOf("video"), FileSize["video"])
      BY <2>0 DEF PumpInv, SourcesInv
    <3> QED BY <2>0, <3>1, CursorIs, SizeIs
  <2>3. \A u \in Cursor(src["video"]) + 1..Cursor(src'["video"]) : FALSE
    BY <2>1, <2>2
  <2>4. Quiet(src["video"]) => Quiet(src["video"])'
    BY <1>1, <2>0 DEF Quiet
  <2> QED BY <2>1, <2>3, <2>4 DEF SingleMoves
<1>5. \A k \in Lanes : pump'.eosPending[k] \/ app'[k].eos = "yes" => src[k].url # 0
  BY DEF PlaceInv, UrlInv
<1>6. /\ pump'.dual = pump.dual /\ pump'.configured = pump.configured
      /\ \A k \in Lanes : pump.open[k] => pump'.open[k]
      /\ pump'.esSent => pump.esSent
  OBVIOUS
<1>7. Speaks(l) => Chain(t, FileSize[l])
  OBVIOUS
<1>8. Probing(src[l]) => Probing(t) \/ pump'.open[l] \/ broken' \/ ~pump.dual
  OBVIOUS
<1> QED BY <1>3, <1>4, <1>5, <1>6, <1>7, <1>8, PlaceMoves

LEMMA PlaceFetchFails ==
  ASSUME PumpInv, PumpInv', LastInv, PlaceInv, NEW l \in Lanes, FetchFails(l)
  PROVE  PlaceInv'
<1> DEFINE t == [src[l] EXCEPT !.reply = NoReply]
<1>1. src[l] \in BS!Sources(UrlsOf(l), FileSize[l]) /\ FileSize[l] \in Nat
  BY SizeIs DEF PumpInv, SourcesInv
<1>2. t.url = src[l].url /\ t.waiting = src[l].waiting
  <2>1. Shaped(src[l])
    BY <1>1, SourceShaped
  <2> QED BY <2>1 DEF Shaped
<1>3. src' = [src EXCEPT ![l] = t] /\ broken'
      /\ UNCHANGED <<pump, demux, hold, owed, guiVars, pipeVars>>
  BY DEF FetchFails, PumpInv, SourcesInv
<1>4. Speaks(l) => Chain(t, FileSize[l]) /\ Cursor(t) = Cursor(src[l])
  <2> SUFFICES ASSUME Chain(src[l], FileSize[l])
               PROVE  Chain(t, FileSize[l]) /\ Cursor(t) = Cursor(src[l])
    BY DEF PlaceInv, ChainInv
  <2> QED BY <1>1, ChainFails
<1> HIDE DEF t
<1>5. UNCHANGED <<pump, demux, hold, owed, mail, app, pushed, session, gui, seeking,
                  wanted, anchored, caps>>
  BY <1>3 DEF guiVars, pipeVars
<1> QED BY <1>2, <1>3, <1>4, <1>5, PlaceStays

LEMMA PlaceUnwind ==
  ASSUME PumpInv, PumpInv', LastInv, PlaceInv, NEW l \in Lanes, Unwind(l)
  PROVE  PlaceInv'
<1> DEFINE t == BS!TopUp(src[l], FileSize[l])
<1>1. src[l] \in BS!Sources(UrlsOf(l), FileSize[l]) /\ FileSize[l] \in Nat
  BY SizeIs DEF PumpInv, SourcesInv
<1>2. t.url = src[l].url /\ t.waiting = src[l].waiting /\ (Probing(src[l]) => Probing(t))
  <2>1. /\ t.url = src[l].url /\ t.waiting = src[l].waiting
    BY <1>1, TopUpIs
  <2>2. Probing(src[l]) => t.reply = src[l].reply
    <3>1. ASSUME Probing(src[l]) PROVE t \in {src[l], [src[l] EXCEPT !.eof = TRUE]}
      BY <3>1 DEF BS!TopUp, Probing
    <3>2. [src[l] EXCEPT !.eof = TRUE].reply = src[l].reply
      <4>1. Shaped(src[l])
        BY <1>1, SourceShaped
      <4> QED BY <4>1 DEF Shaped
    <3> QED BY <3>1, <3>2
  <2> HIDE DEF t
  <2> QED BY <2>1, <2>2 DEF Probing
<1>3. src' = [src EXCEPT ![l] = t]
      /\ UNCHANGED <<pump, demux, hold, owed, broken, guiVars, pipeVars>>
  BY DEF Unwind
<1>4. Speaks(l) => Chain(t, FileSize[l]) /\ Cursor(t) = Cursor(src[l])
  <2> SUFFICES ASSUME Chain(src[l], FileSize[l])
               PROVE  Chain(t, FileSize[l]) /\ Cursor(t) = Cursor(src[l])
    BY DEF PlaceInv, ChainInv
  <2> QED BY <1>1, ChainTopUp
<1> HIDE DEF t
<1>5. UNCHANGED <<pump, demux, hold, owed, mail, app, pushed, session, gui, seeking,
                  wanted, anchored, caps>>
  BY <1>3 DEF guiVars, pipeVars
<1> QED BY <1>2, <1>3, <1>4, <1>5, PlaceStays

LEMMA PlaceProbeLands ==
  ASSUME PumpInv, PumpInv', LastInv, PlaceInv, NEW l \in Lanes, NEW ranged, ProbeLands(l, ranged)
  PROVE  PlaceInv'
<1> PICK s : s = src[l]
  OBVIOUS
<1> PICK n : n = BS!Answered(src[l], FileSize[l])
  OBVIOUS
<1> PICK t : t = BS!Probed(s, n, ranged)
  OBVIOUS
<1>1. /\ src' = [src EXCEPT ![l] = t] /\ Probing(s) /\ Idle
      /\ mail' = IF l = "video"
                 THEN Append(mail, [kind |-> "opened", session |-> session]) ELSE mail
      /\ pump' = [pump EXCEPT !.open[l] = @ \/ pump.dual]
      /\ owed' = IF pump.dual THEN {l} ELSE {}
      /\ UNCHANGED <<demux, hold, broken, app, pushed>>
      /\ UNCHANGED <<session, gui, seeking, wanted, anchored, caps>>
  BY DEF ProbeLands, OnOpened, Probing
<1>2. s \in BS!Sources(UrlsOf(l), FileSize[l])
  BY DEF PumpInv, SourcesInv
<1>3. t.url = s.url /\ t.waiting = s.waiting
  <2> DEFINE u == BS!Probed(s, n, ranged)
  <2>1. u.url = s.url /\ u.waiting = s.waiting
    BY <1>2, ProbedIs
  <2> QED BY <2>1
<1>4. Speaks(l) => Chain(t, FileSize[l]) /\ Cursor(t) = Cursor(s)
  <2> SUFFICES ASSUME Chain(s, FileSize[l])
               PROVE  Chain(t, FileSize[l]) /\ Cursor(t) = Cursor(s)
    BY DEF PlaceInv, ChainInv
  <2> QED BY <1>1, <1>2, ChainProbed
<1>5. src'[l] = t /\ \A k \in Lanes : k # l => src'[k] = src[k]
  BY <1>1 DEF PumpInv, SourcesInv
<1>6. /\ pump'.dual = pump.dual /\ pump'.configured = pump.configured
      /\ pump'.esSent = pump.esSent /\ pump'.eosPending = pump.eosPending
      /\ \A k \in Lanes : pump.open[k] => pump'.open[k]
      /\ pump.dual => pump'.open[l]
  BY <1>1 DEF PumpInv, Handling, Pumps
<1>7. \A k \in Lanes : pump'.eosPending[k] \/ app'[k].eos = "yes" => src[k].url # 0
  BY <1>1, <1>6 DEF PlaceInv, UrlInv
<1>8. \A k \in Lanes : Speaks(k) => Cursor(src'[k]) = Cursor(src[k])
  BY <1>4, <1>5
<1>9. Runs => DualMoves
  <2> SUFFICES ASSUME Runs, NEW k \in Lanes
               PROVE  /\ demux[k].next = Cursor(src[k]) => demux'[k].next = Cursor(src'[k])
                      /\ \A u : Taken(k, u) => Taken(k, u)'
                      /\ \A u \in demux[k].next + 1..demux'[k].next :
                           u > HeaderSize[k] => Taken(k, u)'
    BY DEF DualMoves
  <2>1. demux[k].next \in Nat
    BY DEF PumpInv, Handling, DemuxesOf
  <2>2. Cursor(src'[k]) = Cursor(src[k])
    BY <1>8 DEF Runs, Speaks
  <2> QED BY <1>1, <2>1, <2>2 DEF Taken
<1>10. ~pump.dual => SingleMoves
  <2> SUFFICES ASSUME ~pump.dual PROVE SingleMoves
    OBVIOUS
  <2>0. "video" \in Lanes
    BY DEF Lanes
  <2>1. Cursor(src'["video"]) = Cursor(src["video"])
    BY <1>8, <2>0 DEF Speaks
  <2>2. Cursor(src["video"]) \in Nat
    <3>1. src["video"] \in BS!Sources(UrlsOf("video"), FileSize["video"])
      BY <2>0 DEF PumpInv, SourcesInv
    <3> QED BY <2>0, <3>1, CursorIs, SizeIs
  <2>3. \A u \in Cursor(src["video"]) + 1..Cursor(src'["video"]) : FALSE
    BY <2>1, <2>2
  <2>4. Quiet(src["video"]) => Quiet(src["video"])'
    BY <1>1, <1>3, <1>5, <2>0 DEF Quiet
  <2>5. \/ mail' = mail
        \/ /\ Probing(src["video"])
           /\ mail' = Append(mail, [kind |-> "opened", session |-> session])
    BY <1>1
  <2> QED BY <1>1, <2>1, <2>3, <2>4, <2>5 DEF SingleMoves
<1>11. Probing(src[l]) => Probing(t) \/ pump'.open[l] \/ broken' \/ ~pump.dual
  BY <1>6
<1> QED BY <1>1, <1>3, <1>4, <1>6, <1>7, <1>9, <1>10, <1>11, PlaceMoves

\* Whatever the pipeline, the opening of the streams goes on only in maybeEsReady().
LEMMA DrainSteady ==
  ASSUME NEW p \in Pumps, NEW d, NEW l, NEW more, Drain(p, d, l, more)
  PROVE  Steady(p)
<1>1. CASE Buffer(p, d, more)
  BY <1>1 DEF Buffer, Steady
<1>2. CASE Withhold(p, d, l, more)
  <2>1. pump' = [p EXCEPT !.reported = @ \/ l = "video"]
    BY <1>2 DEF Withhold
  <2> QED BY <2>1 DEF Steady, Pumps
<1>3. CASE Flush(p, d, more)
  <2>1. pump' = [p EXCEPT !.primed = TRUE, !.reported = FALSE,
                          !.videoDone = @ \/ p.eosPending["video"],
                          !.eosPending = Both(FALSE)]
    BY <1>3 DEF Flush
  <2> QED BY <2>1 DEF Steady, Pumps
<1> QED BY <1>1, <1>2, <1>3 DEF Drain

LEMMA FinishedSteady ==
  ASSUME pump \in Pumps, NEW l \in Lanes, NEW more, OnFinished(l, more)
  PROVE  Steady(pump)
<1>1. CASE pump.dual
  <2> DEFINE p == [pump EXCEPT !.eosPending[l] = TRUE]
  <2>1. p \in Pumps /\ Drain(p, demux, l, more)
    BY <1>1 DEF OnFinished, Pumps
  <2>2. p.dual = pump.dual /\ p.open = pump.open
        /\ p.esSent = pump.esSent /\ p.configured = pump.configured
    BY DEF Pumps
  <2> HIDE DEF p
  <2>3. Steady(p)
    BY <2>1, DrainSteady
  <2> QED BY <2>2, <2>3 DEF Steady
<1>2. CASE ~pump.dual
  BY <1>2 DEF OnFinished, Steady
<1> QED BY <1>1, <1>2

LEMMA DataSteady ==
  ASSUME pump \in Pumps, NEW l \in Lanes, NEW w, NEW more, OnData(l, w, more)
  PROVE  /\ pump'.dual = pump.dual /\ pump'.open = pump.open
         /\ pump'.configured = pump.configured
         /\ pump'.esSent => pump.esSent \/ \A k \in Lanes : pump.open[k]
         /\ broken => broken'
<1>1. CASE pump' = pump /\ (broken' = broken \/ broken')
  BY <1>1
<1>2. CASE \E d : Drain(EsReady(pump, d), d, l, more) /\ UNCHANGED broken
  <2> PICK d : Drain(EsReady(pump, d), d, l, more) /\ UNCHANGED broken
    BY <1>2
  <2> DEFINE q == EsReady(pump, d)
  <2>1. /\ q \in Pumps /\ q.dual = pump.dual /\ q.open = pump.open
        /\ q.configured = pump.configured
        /\ q.esSent => pump.esSent \/ \A k \in Lanes : pump.open[k]
    BY EsReadyIs
  <2> HIDE DEF q
  <2>2. Steady(q)
    BY <2>1, DrainSteady DEF q
  <2> QED BY <2>1, <2>2 DEF Steady
<1> QED BY <1>1, <1>2 DEF OnData, OnBytes, OnStaleData, OnSamples

\* The lanes whose end may be out: an open source that has delivered all.
EndedLanes == {k \in Lanes : Speaks(k) /\ Done(src[k]) /\ src[k].url # 0}

LEMMA PlaceEnds ==
  ASSUME LastInv, UrlInv
  PROVE  EndingFrom(EndedLanes)
BY DEF LastInv, EndInv, UrlInv, EndingFrom, EndedLanes

\* A window goes through onVideoData(), onAudioData().
LEMMA PlaceData ==
  ASSUME PumpInv, PumpInv', LastInv, PlaceInv, NEW l \in Lanes, NEW t,
         src' = [src EXCEPT ![l] = t], t.url = src[l].url,
         UNCHANGED <<session, gui, seeking, wanted, anchored, caps>>,
         NEW w \in BS!Windows(UrlsOf(l), FileSize[l]), NEW more, OnData(l, w, more),
         more \subseteq owed, Speaks(l) => ~Probing(src[l]), ~Done(src[l]),
         Speaks(l) => /\ Chain(t, FileSize[l])
                      /\ Cursor(src[l]) = w.from /\ Cursor(t) = w.from + w.n,
         l = "video" => ~Quiet(src["video"])
  PROVE  PlaceInv'
<1> PICK K : K = Kept
  OBVIOUS
<1> PICK U : U = UrlsOf(l)
  OBVIOUS
<1>1. /\ Handling(K) /\ K \subseteq Sessions /\ (pump.dual => U = K) /\ U \subseteq Sessions
      /\ w \in BS!Windows(U, FileSize[l])
  BY UrlsAre DEF PumpInv
<1>2. src'[l] = t /\ \A k \in Lanes : k # l => src'[k] = src[k]
  BY DEF PumpInv, SourcesInv
<1>3. /\ pump'.dual = pump.dual /\ pump'.open = pump.open
      /\ pump'.configured = pump.configured
      /\ pump'.esSent => pump.esSent \/ \A k \in Lanes : pump.open[k]
      /\ broken => broken'
  BY DataSteady DEF PumpInv, Handling
<1>4. Ending(EndedLanes, more)
  <2>1. EndingFrom(EndedLanes) /\ l \notin EndedLanes
    BY PlaceEnds DEF PlaceInv, EndedLanes
  <2> QED BY <1>1, <2>1, DataEnding
<1>5. \A k \in Lanes : pump'.eosPending[k] \/ app'[k].eos = "yes" => src[k].url # 0
  BY <1>4 DEF Ending, EndedLanes
<1>6. Runs /\ ~broken' => DualMoves
  <2> SUFFICES ASSUME Runs, ~broken', NEW k \in Lanes
               PROVE  /\ demux[k].next = Cursor(src[k]) => demux'[k].next = Cursor(src'[k])
                      /\ \A u : Taken(k, u) => Taken(k, u)'
                      /\ \A u \in demux[k].next + 1..demux'[k].next :
                           u > HeaderSize[k] => Taken(k, u)'
    BY DEF DualMoves
  <2>1. pump.dual /\ pump.open[l] /\ Speaks(l)
    BY DEF PlaceInv, OpenInv, Runs, Speaks
  <2>2. pump.configured => caps' # 0
    BY RunsPushes DEF PlaceInv
  <2>3. w \in BS!Windows(K, FileSize[l])
    BY <1>1, <2>1
  <2>4. /\ demux[l].next = w.from /\ demux'[l].next = w.from + w.n
        /\ \A j \in Lanes : j # l => demux'[j].next = demux[j].next
        /\ \A j \in Lanes : \A u : Taken(j, u) => Taken(j, u)'
        /\ \A u \in w.from + 1..w.from + w.n : u > HeaderSize[l] => Taken(l, u)'
    BY <1>1, <2>1, <2>2, <2>3, DataTakes
  <2>5. CASE k = l
    BY <1>2, <2>1, <2>4, <2>5
  <2>6. CASE k # l
    <3>1. demux[k].next \in Nat
      BY DEF PumpInv, Handling, DemuxesOf
    <3> QED BY <1>2, <2>4, <2>6, <3>1
  <2> QED BY <2>5, <2>6
<1>7. ~pump.dual => SingleMoves
  <2> SUFFICES ASSUME ~pump.dual PROVE SingleMoves
    OBVIOUS
  <2>0. "video" \in Lanes
    BY DEF Lanes
  <2>1. /\ owed' = more /\ UNCHANGED <<pump, mail, broken>>
        /\ \A u : Has(pushed["video"], u) => Has(pushed'["video"], u)
        /\ l = "video" /\ caps' # 0 =>
             \A u \in w.from + 1..w.from + w.n : Has(pushed'["video"], u)
    BY <1>1, BytesTake
  <2>2. app'["video"].asked = app["video"].asked
    BY <1>4, <2>0 DEF Ending
  <2>3. CASE l = "video"
    <3>1. Cursor(src["video"]) = w.from /\ Cursor(src'["video"]) = w.from + w.n
      BY <1>2, <2>3 DEF Speaks
    <3> QED BY <2>1, <2>2, <2>3, <3>1 DEF SingleMoves
  <2>4. CASE l # "video"
    <3>1. src'["video"] = src["video"]
      BY <1>2, <2>0, <2>4
    <3>2. Cursor(src["video"]) \in Nat
      <4>1. src["video"] \in BS!Sources(UrlsOf("video"), FileSize["video"])
        BY <2>0 DEF PumpInv, SourcesInv
      <4> QED BY <2>0, <4>1, CursorIs, SizeIs
    <3>3. \A u \in Cursor(src["video"]) + 1..Cursor(src'["video"]) : FALSE
      BY <3>1, <3>2
    <3>4. Quiet(src["video"]) => Quiet(src["video"])'
      BY <2>1, <3>1 DEF Quiet
    <3> QED BY <2>1, <2>2, <3>1, <3>3, <3>4 DEF SingleMoves
  <2> QED BY <2>3, <2>4
<1>8. /\ Speaks(l) => Chain(t, FileSize[l])
      /\ \A k \in Lanes : pump.open[k] => pump'.open[k]
      /\ Probing(src[l]) => Probing(t) \/ pump'.open[l] \/ broken' \/ ~pump.dual
  BY <1>3 DEF Speaks
<1> QED BY <1>3, <1>5, <1>6, <1>7, <1>8, PlaceMoves

\* The end of a source goes through onVideoFinished(), onAudioFinished().
LEMMA PlaceFinished ==
  ASSUME PumpInv, PumpInv', LastInv, PlaceInv, NEW l \in Lanes, NEW t,
         src' = [src EXCEPT ![l] = t], t.url = src[l].url, src[l].url # 0,
         UNCHANGED <<session, gui, seeking, wanted, anchored, caps>>,
         NEW more, OnFinished(l, more), more \subseteq owed,
         Speaks(l) => ~Probing(src[l]),
         Speaks(l) => Chain(t, FileSize[l]) /\ Cursor(t) = Cursor(src[l]),
         t.waiting => src[l].waiting
  PROVE  PlaceInv'
<1> PICK K : K = Kept
  OBVIOUS
<1>1. Handling(K) /\ K \subseteq Sessions
  BY UrlsAre DEF PumpInv
<1>2. src'[l] = t /\ \A k \in Lanes : k # l => src'[k] = src[k]
  BY DEF PumpInv, SourcesInv
<1>3. Steady(pump) /\ broken' = broken /\ mail' = mail
  BY FinishedSteady DEF PumpInv, Handling, OnFinished
<1> PICK D : D = EndedLanes \cup (IF Speaks(l) THEN {l} ELSE {})
  OBVIOUS
<1>4. Ending(D, more)
  <2>1. EndingFrom(D) /\ (Speaks(l) => l \in D)
    BY PlaceEnds DEF PlaceInv, EndingFrom
  <2> QED BY <1>1, <2>1, FinishedEnding
<1>5. \A k \in Lanes : pump'.eosPending[k] \/ app'[k].eos = "yes" => src[k].url # 0
  BY <1>4 DEF Ending, EndedLanes
<1>6. \A k \in Lanes : Speaks(k) => Cursor(src'[k]) = Cursor(src[k])
  BY <1>2
<1>7. Runs => DualMoves
  <2> SUFFICES ASSUME Runs, NEW k \in Lanes
               PROVE  /\ demux[k].next = Cursor(src[k]) => demux'[k].next = Cursor(src'[k])
                      /\ \A u : Taken(k, u) => Taken(k, u)'
                      /\ \A u \in demux[k].next + 1..demux'[k].next :
                           u > HeaderSize[k] => Taken(k, u)'
    BY DEF DualMoves
  <2>1. demux[k].next \in Nat
    BY DEF PumpInv, Handling, DemuxesOf
  <2>2. Cursor(src'[k]) = Cursor(src[k])
    BY <1>6 DEF Runs, Speaks
  <2>3. pump.dual /\ (pump.configured => caps' # 0)
    BY RunsPushes DEF PlaceInv, Runs
  <2>4. demux'[k].next = demux[k].next /\ \A u : Taken(k, u) => Taken(k, u)'
    BY <1>1, <2>3, FinishedTakes
  <2> QED BY <2>1, <2>2, <2>4
<1>8. ~pump.dual => SingleMoves
  <2> SUFFICES ASSUME ~pump.dual PROVE SingleMoves
    OBVIOUS
  <2>0. "video" \in Lanes
    BY DEF Lanes
  <2>1. Cursor(src'["video"]) = Cursor(src["video"])
    BY <1>6, <2>0 DEF Speaks
  <2>2. Cursor(src["video"]) \in Nat
    <3>1. src["video"] \in BS!Sources(UrlsOf("video"), FileSize["video"])
      BY <2>0 DEF PumpInv, SourcesInv
    <3> QED BY <2>0, <3>1, CursorIs, SizeIs
  <2>3. \A u \in Cursor(src["video"]) + 1..Cursor(src'["video"]) : FALSE
    BY <2>1, <2>2
  <2>4. pushed' = pushed /\ owed' = more
    BY DEF OnFinished
  <2>5. app'["video"].asked = app["video"].asked
    BY <1>4, <2>0 DEF Ending
  <2>6. Quiet(src["video"]) => Quiet(src["video"])'
    BY <1>2, <2>0, <2>4 DEF Quiet
  <2> QED BY <1>3, <2>1, <2>3, <2>4, <2>5, <2>6 DEF SingleMoves
<1>9. /\ Speaks(l) => Chain(t, FileSize[l])
      /\ pump'.dual = pump.dual /\ pump'.configured = pump.configured
      /\ \A k \in Lanes : pump.open[k] => pump'.open[k]
      /\ pump'.esSent => pump.esSent
      /\ Probing(src[l]) => Probing(t) \/ pump'.open[l] \/ broken' \/ ~pump.dual
      /\ broken => broken'
  BY <1>3 DEF Steady, Speaks
<1> QED BY <1>5, <1>7, <1>8, <1>9, PlaceMoves

LEMMA LandsTo ==
  ASSUME NEW U, NEW size, NEW s \in BS!Sources(U, size), NEW n, NEW t, t = BS!Landed(s, n)
  PROVE  t.url = s.url /\ ~t.waiting
<1>0. Shaped(s)
  BY SourceShaped
<1> QED BY <1>0 DEF BS!Landed, Shaped

\* onWindowFinished()
LEMMA PlaceWindowLands ==
  ASSUME PumpInv, PumpInv', LastInv, PlaceInv, NEW l \in Lanes, WindowLands(l)
  PROVE  PlaceInv'
<1> PICK s : s = src[l]
  OBVIOUS
<1> PICK n : n = BS!Answered(s, FileSize[l])
  OBVIOUS
<1> PICK t : t = BS!Landed(s, n)
  OBVIOUS
<1> PICK U : U = UrlsOf(l)
  OBVIOUS
<1> PICK more : more = {}
  OBVIOUS
<1>1. /\ Idle /\ s.reply # NoReply /\ ~Probing(s) /\ WindowOf(l, s, n)
      /\ src' = [src EXCEPT ![l] = t]
      /\ UNCHANGED <<session, gui, seeking, wanted, anchored, caps>>
  BY DEF WindowLands, WindowOf, Probing
<1>2. s \in BS!Sources(U, FileSize[l]) /\ FileSize[l] \in Nat
  BY SizeIs DEF PumpInv, SourcesInv
<1>3. /\ n \in 0..Window /\ s.offset + n <= FileSize[l]
  BY <1>2, AnsweredAll
<1>4. t.url = s.url /\ ~t.waiting
  <2>1. s \in BS!Sources(U, FileSize[l])
    BY <1>2
  <2>2. t.url = s.url
    BY <2>1, LandsTo
  <2>3. ~t.waiting
    BY <2>1, LandsTo
  <2> QED BY <2>2, <2>3
<1>5. s.waiting => s.url # 0 /\ (Speaks(l) => s.ready = <<>>)
  BY <1>1, LastIdle
<1>6. Speaks(l) =>
        /\ Chain(t, FileSize[l])
        /\ ~s.waiting \/ n = 0 => Cursor(t) = Cursor(s)
        /\ s.waiting => Cursor(s) = BS!Brought(s, n).from /\ Cursor(t) = Cursor(s) + n
  <2> SUFFICES ASSUME Chain(s, FileSize[l]), s.waiting => s.ready = <<>>
               PROVE  /\ Chain(t, FileSize[l])
                      /\ ~s.waiting \/ n = 0 => Cursor(t) = Cursor(s)
                      /\ s.waiting => /\ Cursor(s) = BS!Brought(s, n).from
                                      /\ Cursor(t) = Cursor(s) + n
    BY <1>5 DEF PlaceInv, ChainInv
  <2> QED BY <1>1, <1>2, ChainLanded
<1>7. CASE n = 0 /\ s.waiting /\ OnFinished(l, {})
  <2>1. /\ t.url = src[l].url /\ src[l].url # 0 /\ OnFinished(l, more) /\ more \subseteq owed
        /\ Speaks(l) => ~Probing(src[l])
        /\ Speaks(l) => Chain(t, FileSize[l]) /\ Cursor(t) = Cursor(src[l])
        /\ t.waiting => src[l].waiting
    BY <1>1, <1>4, <1>5, <1>6, <1>7
  <2> QED BY <1>1, <2>1, PlaceFinished
<1>8. CASE n > 0 /\ s.waiting /\ OnData(l, BS!Brought(s, n), {})
  <2> DEFINE w == BS!Brought(s, n)
  <2>1. w \in BS!Windows(U, FileSize[l])
    <3>1. n \in 1..Window
      BY <1>3, <1>8
    <3> QED BY <1>1, <1>2, <1>3, <3>1, BroughtFits, PlanAssumption
  <2>2. w.n = n
    BY DEF BS!Brought
  <2>3. OnData(l, w, more)
    BY <1>8
  <2> HIDE DEF w
  <2>4. Speaks(l) => /\ Chain(t, FileSize[l])
                     /\ Cursor(src[l]) = w.from /\ Cursor(t) = w.from + w.n
    BY <1>6, <1>8, <2>2 DEF w
  <2>5. ~Done(src[l]) /\ (l = "video" => ~Quiet(src["video"]))
    BY <1>1, <1>8 DEF Done, Quiet
  <2>6. t.url = src[l].url /\ more \subseteq owed /\ (Speaks(l) => ~Probing(src[l]))
    BY <1>1, <1>4
  <2>7. w \in BS!Windows(UrlsOf(l), FileSize[l])
    BY <2>1
  <2> QED BY <1>1, <2>3, <2>4, <2>5, <2>6, <2>7, PlaceData
<1>9. CASE ~s.waiting /\ UNCHANGED <<pump, demux, hold, owed, broken, mail, app, pushed>>
  BY <1>1, <1>4, <1>6, <1>9, PlaceStays
<1> QED BY <1>1, <1>7, <1>8, <1>9 DEF WindowOf

\* requestData(), from inside the handler that owes it.
LEMMA PlaceServe ==
  ASSUME PumpInv, PumpInv', LastInv, PlaceInv, NEW l \in Lanes, Serve(l)
  PROVE  PlaceInv'
<1> PICK s : s = src[l]
  OBVIOUS
<1> PICK U : U = UrlsOf(l)
  OBVIOUS
<1> PICK more : more = owed \ {l}
  OBVIOUS
<1>1. /\ UNCHANGED <<session, gui, seeking, wanted, anchored, caps>>
      /\ Request(l, more) /\ l \in owed /\ more \subseteq owed
  BY DEF Serve
<1>2. s \in BS!Sources(U, FileSize[l]) /\ FileSize[l] \in Nat
  BY SizeIs DEF PumpInv, SourcesInv
<1>3. Speaks(l) => Chain(s, FileSize[l])
  BY DEF PlaceInv, ChainInv
<1>4. src = [src EXCEPT ![l] = s]
  BY DEF PumpInv, SourcesInv
<1>5. CASE /\ s.url = 0 /\ owed' = more
           /\ UNCHANGED <<src, unwind, pump, demux, hold, broken, mail, app, pushed>>
  <2>1. src' = [src EXCEPT ![l] = s]
    BY <1>4, <1>5
  <2> QED BY <1>1, <1>3, <1>5, <2>1, PlaceStays
<1>6. CASE s.url # 0 /\ s.ready # <<>> /\ src' = [src EXCEPT ![l].ready = Tail(@)]
           /\ OnData(l, Head(s.ready), more)
  <2> PICK t : t = [s EXCEPT !.ready = Tail(s.ready)]
    OBVIOUS
  <2> PICK w : w = Head(s.ready)
    OBVIOUS
  <2>1. w \in BS!Windows(U, FileSize[l])
    <3>1. s.ready \in Seq(BS!Windows(U, FileSize[l]))
      BY <1>2 DEF BS!Sources
    <3> QED BY <1>6, <3>1, HeadTailProperties
  <2>2. src' = [src EXCEPT ![l] = t] /\ OnData(l, w, more)
    BY <1>6
  <2>3. t.url = s.url
    <3>1. Shaped(s)
      BY <1>2, SourceShaped
    <3> QED BY <3>1 DEF Shaped
  <2>4. Speaks(l) => /\ Chain(t, FileSize[l])
                     /\ Cursor(src[l]) = w.from /\ Cursor(t) = w.from + w.n
    <3> SUFFICES ASSUME Chain(s, FileSize[l])
                 PROVE  /\ Chain(t, FileSize[l])
                        /\ Cursor(s) = w.from /\ Cursor(t) = w.from + w.n
      BY <1>3
    <3> QED BY <1>2, <1>6, ChainTail
  <2>5. ~Done(src[l]) /\ (l = "video" => ~Quiet(src["video"]))
    BY <1>1, <1>6 DEF Done, Quiet
  <2>6. Speaks(l) => ~Probing(src[l])
    BY <1>3, <1>6 DEF Chain
  <2> QED BY <1>1, <2>1, <2>2, <2>3, <2>4, <2>5, <2>6, PlaceData
<1>7. CASE /\ s.url # 0 /\ s.ready = <<>> /\ s.eof /\ s.reply = NoReply
           /\ OnFinished(l, more) /\ UNCHANGED <<src, unwind>>
  <2>1. src' = [src EXCEPT ![l] = s] /\ ~Probing(s)
    BY <1>4, <1>7 DEF Probing
  <2> QED BY <1>1, <1>3, <1>7, <2>1, PlaceFinished
<1>8. CASE /\ s.url # 0 /\ s.ready = <<>> /\ ~(s.eof /\ s.reply = NoReply)
           /\ src' = [src EXCEPT ![l] = BS!Wait(@, FileSize[l])] /\ owed' = more
           /\ UNCHANGED <<unwind, pump, demux, hold, broken, mail, app, pushed>>
  <2> PICK t : t = BS!Wait(s, FileSize[l])
    OBVIOUS
  <2>1. t.url = s.url
    <3> DEFINE u == BS!Wait(s, FileSize[l])
    <3>1. u.url = s.url
      BY <1>2, WaitIs
    <3> QED BY <3>1
  <2>2. src' = [src EXCEPT ![l] = t]
    BY <1>8
  <2>3. Speaks(l) => /\ Chain(t, FileSize[l]) /\ Cursor(t) = Cursor(s)
                     /\ Probing(t) <=> Probing(s)
    <3> SUFFICES ASSUME Chain(s, FileSize[l])
                 PROVE  /\ Chain(t, FileSize[l]) /\ Cursor(t) = Cursor(s)
                        /\ Probing(t) <=> Probing(s)
      BY <1>3
    <3> QED BY <1>2, ChainWait
  <2>4. Probing(src[l]) => Probing(t) \/ broken' \/ ~pump.dual
    BY <2>3 DEF Speaks
  <2> QED BY <1>1, <1>8, <2>1, <2>2, <2>3, <2>4, PlaceStays
<1> QED BY <1>1, <1>5, <1>6, <1>7, <1>8 DEF Request

-----------------------------------------------------------------------------
(* The places and the steps of the GUI thread and of the pipeline          *)

\* A step of the GUI or of the pipeline, of which the pump hears nothing.
LEMMA PlacePipe ==
  ASSUME PlaceInv, UNCHANGED <<mediaVars, session>>,
         \A l \in Lanes : app'[l].eos = "yes" => app[l].eos = "yes",
         gui' = "loading" => gui = "loading",
         pump.dual /\ gui' \in {"loading", "running"} => gui \in {"loading", "running"}
  PROVE  ChainInv' /\ OpenInv' /\ UrlInv'
<1>1. UNCHANGED <<src, pump, broken>>
  BY DEF mediaVars
<1>2. ChainInv'
  BY <1>1 DEF PlaceInv, ChainInv, Speaks
<1>3. OpenInv'
  BY <1>1 DEF PlaceInv, OpenInv, Runs, Probing
<1>4. UrlInv'
  BY <1>1 DEF PlaceInv, UrlInv
<1> QED BY <1>2, <1>3, <1>4

\* At most a letter is read, and an appsrc asks or plays.
LEMMA PlaceQuietly ==
  ASSUME PumpInv, PlaceInv, UNCHANGED <<mediaVars, session, gui, seeking, wanted, anchored>>,
         UNCHANGED <<caps, pushed>>,
         mail' = mail \/ (mail # <<>> /\ mail' = Tail(mail)),
         \A l \in Lanes : app'[l].eos = "yes" => app[l].eos = "yes",
         caps = 0 => app'["video"].asked = app["video"].asked
  PROVE  PlaceInv'
<1>1. UNCHANGED <<src, pump, demux, hold, owed, broken>>
  BY DEF mediaVars
<1>2. ChainInv' /\ OpenInv' /\ UrlInv'
  BY PlacePipe
<1>3. SoughtInv'
  BY DEF PlaceInv, SoughtInv
<1>4. DualPlace'
  BY <1>1 DEF PlaceInv, DualPlace, Runs, At, Origin, Taken
<1>5. SinglePlace'
  <2>1. \E d \in {0, 1} : \A i \in DOMAIN mail' : Opening(i)' =>
           i + d \in DOMAIN mail /\ Opening(i + d)
    <3>1. CASE mail' = mail
      <4>1. \A i \in DOMAIN mail' : Opening(i)' => i + 0 \in DOMAIN mail /\ Opening(i + 0)
        BY <3>1 DEF Opening, PumpInv, Handling
      <4> QED BY <4>1
    <3>2. CASE mail # <<>> /\ mail' = Tail(mail)
      <4>1. \A i \in DOMAIN mail' : Opening(i)' => i + 1 \in DOMAIN mail /\ Opening(i + 1)
        BY <3>2, LetterKept DEF PumpInv, Handling
      <4> QED BY <4>1
    <3> QED BY <3>1, <3>2
  <2>2. DOMAIN mail' \subseteq Nat
    BY DEF PumpInv, Handling
  <2> PICK d \in {0, 1} : \A i \in DOMAIN mail' : Opening(i)' =>
                            i + d \in DOMAIN mail /\ Opening(i + d)
    BY <2>1
  <2> SUFFICES ASSUME ~pump.dual, src["video"].url # 0
               PROVE  /\ (\E i \in DOMAIN mail' : Opening(i)') =>
                           /\ caps = 0 /\ ~app'["video"].asked /\ Quiet(src["video"])
                           /\ Cursor(src["video"]) = 0
                           /\ \A i, j \in DOMAIN mail' : Opening(i)' /\ Opening(j)' => i = j
                      /\ At /\ caps = session =>
                           \A u \in Origin("video") + 1..Cursor(src["video"]) :
                             Has(pushed["video"], u)
    BY <1>1 DEF SinglePlace, Quiet, At, Origin
  <2>3. ASSUME \E i \in DOMAIN mail' : Opening(i)'
        PROVE  /\ caps = 0 /\ ~app'["video"].asked /\ Quiet(src["video"])
               /\ Cursor(src["video"]) = 0
               /\ \A i, j \in DOMAIN mail' : Opening(i)' /\ Opening(j)' => i = j
    <3>1. \E i \in DOMAIN mail : Opening(i)
      BY <2>3
    <3>2. /\ caps = 0 /\ ~app["video"].asked /\ Quiet(src["video"])
          /\ Cursor(src["video"]) = 0
          /\ \A i, j \in DOMAIN mail : Opening(i) /\ Opening(j) => i = j
      BY <3>1 DEF PlaceInv, SinglePlace
    <3>3. \A i, j \in DOMAIN mail' : Opening(i)' /\ Opening(j)' => i + d = j + d
      BY <3>2
    <3>4. \A i, j \in DOMAIN mail' : Opening(i)' /\ Opening(j)' => i = j
      BY <2>2, <3>3
    <3> QED BY <3>2, <3>4
  <2>4. At /\ caps = session =>
          \A u \in Origin("video") + 1..Cursor(src["video"]) : Has(pushed["video"], u)
    BY DEF PlaceInv, SinglePlace
  <2> QED BY <2>3, <2>4
<1> QED BY <1>2, <1>3, <1>4, <1>5 DEF PlaceInv

LEMMA PlaceRelease ==
  ASSUME PumpInv, PlaceInv, Release
  PROVE  PlaceInv'
<1>1. /\ caps' = 0 /\ gui' = "released" /\ seeking' = NoSeek
      /\ app' = [l \in Lanes |-> [NewAppSrc EXCEPT !.asked = app[l].asked]]
      /\ UNCHANGED <<mediaVars, session, mail>>
  BY DEF Release, Teardown
<1>2. UNCHANGED <<src, pump, owed>>
  BY <1>1 DEF mediaVars
<1>3. \A l \in Lanes : app'[l].eos = "no" /\ app'[l].asked = app[l].asked
  BY <1>1 DEF NewAppSrc
<1>4. ChainInv' /\ OpenInv' /\ UrlInv'
  BY <1>1, <1>3, PlacePipe
<1>5. SoughtInv' /\ DualPlace'
  BY <1>1 DEF SoughtInv, DualPlace, Runs
<1>6. SinglePlace'
  <2> SUFFICES ASSUME ~pump.dual, src["video"].url # 0 PROVE SinglePlace'
    BY <1>2 DEF SinglePlace
  <2>1. session # 0
    <3>1. src["video"].url \in UrlsOf("video")
      BY DEF PumpInv, SourcesInv, BS!Sources, Lanes
    <3> QED BY <3>1, UrlsAre, SessionsAre DEF PumpInv, Lanes
  <2>2. ~app'["video"].asked <=> ~app["video"].asked
    BY <1>3 DEF Lanes
  <2>3. \A i \in DOMAIN mail' : Opening(i)' = Opening(i)
    BY <1>1 DEF Opening
  <2> QED BY <1>1, <1>2, <2>1, <2>2, <2>3 DEF PlaceInv, SinglePlace, Quiet
<1> QED BY <1>4, <1>5, <1>6 DEF PlaceInv

LEMMA PlaceSeek ==
  ASSUME PumpInv, PlaceInv, NEW t \in Targets, Seek(t)
  PROVE  PlaceInv'
<1>1. /\ gui = "running" /\ seeking' = t /\ wanted' = t /\ anchored' = NoSeek
      /\ app' = [l \in Lanes |-> [NewAppSrc EXCEPT !.asked = app[l].asked]]
      /\ UNCHANGED <<mediaVars, session, gui, mail, caps>>
  BY DEF Seek
<1>2. UNCHANGED <<src, pump, owed>>
  BY <1>1 DEF mediaVars
<1>3. \A l \in Lanes : app'[l].eos = "no" /\ app'[l].asked = app[l].asked
  BY <1>1 DEF NewAppSrc
<1>4. ChainInv' /\ OpenInv' /\ UrlInv'
  BY <1>1, <1>3, PlacePipe
<1>5. SoughtInv' /\ ~At'
  BY <1>1, TargetsAssumption DEF SoughtInv, At
<1>6. DualPlace'
  BY <1>5 DEF DualPlace
<1>7. SinglePlace'
  <2>1. ~app'["video"].asked <=> ~app["video"].asked
    BY <1>3 DEF Lanes
  <2>2. \A i \in DOMAIN mail' : Opening(i)' = Opening(i)
    BY <1>1 DEF Opening
  <2> QED BY <1>1, <1>2, <1>5, <2>1, <2>2 DEF PlaceInv, SinglePlace, Quiet
<1> QED BY <1>4, <1>5, <1>6, <1>7 DEF PlaceInv

\* The pipeline of a single stream is built before anything has been delivered.
LEMMA PlaceReadOpened ==
  ASSUME PumpInv, LastInv, PlaceInv, NoStaleOpened, ReadOpened
  PROVE  PlaceInv'
<1>1. /\ mail # <<>> /\ mail' = Tail(mail) /\ Head(mail).kind = "opened"
      /\ UNCHANGED <<mediaVars, session, seeking, wanted, anchored>>
      /\ IF DualSession[session] THEN UNCHANGED <<gui, pipeVars>>
         ELSE gui' = "running" /\ Build(Head(mail).session)
  BY DEF ReadOpened
<1>2. 1 \in DOMAIN mail /\ Head(mail) = mail[1] /\ session # 0 /\ mail \in Seq(Letters)
  BY <1>1, LetterFirst DEF LastInv, PumpInv, Handling
<1>3. CASE DualSession[session]
  <2>1. UNCHANGED <<gui, app, caps, pushed>>
    BY <1>1, <1>3 DEF pipeVars
  <2> QED BY <1>1, <2>1, PlaceQuietly
<1>4. CASE ~DualSession[session]
  <2>1. ~pump.dual /\ gui' = "running" /\ caps' = session /\ app' = Both(NewAppSrc)
    <3>1. Head(mail).session = session
      BY <1>1, <1>2, <1>4 DEF NoStaleOpened, PumpInv, Commanding
    <3> QED BY <1>1, <1>4, <3>1 DEF Build, PumpInv, DualInv
  <2>2. \A l \in Lanes : app'[l].eos = "no"
    BY <2>1 DEF Both, NewAppSrc
  <2>3. UNCHANGED <<src, pump>>
    BY <1>1 DEF mediaVars
  <2>4. ChainInv' /\ OpenInv' /\ UrlInv'
    BY <1>1, <2>1, <2>2, PlacePipe
  <2>5. SoughtInv' /\ DualPlace'
    BY <1>1, <2>1, <2>3 DEF PlaceInv, SoughtInv, DualPlace, Runs
  <2>6. SinglePlace'
    <3> SUFFICES ASSUME src["video"].url # 0 PROVE SinglePlace'
      BY <2>3 DEF SinglePlace
    <3>1. Opening(1)
      <4>1. mail \in Seq(Letters) /\ mail[1] \in Letters
        BY <1>2
      <4>2. mail[1].kind = "opened" /\ mail[1].session = session
        BY <1>1, <1>2, <1>4 DEF NoStaleOpened, PumpInv, Commanding
      <4> QED BY <4>1, <4>2 DEF Opening, Letters
    <3>2. /\ Cursor(src["video"]) = 0
          /\ \A i \in DOMAIN mail : Opening(i) => i = 1
      BY <1>2, <2>1, <3>1 DEF PlaceInv, SinglePlace
    <3>3. \A i \in DOMAIN mail' : i \in 1..Len(mail')
      BY <1>1, <1>2
    <3>4. \A i \in DOMAIN mail' : ~Opening(i)'
      BY <1>1, <1>2, <3>2, <3>3, LetterKept
    <3>5. Origin("video")' \in Nat
      <4>1. Origin("video")' = Origin("video")
        BY <1>1 DEF Origin
      <4> QED BY <1>2, <4>1, OriginIs DEF Lanes
    <3>6. \A u \in Origin("video")' + 1..Cursor(src'["video"]) : FALSE
      BY <2>3, <3>2, <3>5
    <3> QED BY <3>4, <3>6 DEF SinglePlace
  <2> QED BY <2>4, <2>5, <2>6 DEF PlaceInv
<1> QED BY <1>3, <1>4

LEMMA PlaceAppSrc ==
  ASSUME PumpInv, PlaceInv, NEW l \in Lanes, NeedData(l) \/ Consume(l)
  PROVE  PlaceInv'
<1>1. /\ UNCHANGED <<mediaVars, guiVars, caps, pushed>>
      /\ \/ caps # 0 /\ app' = [app EXCEPT ![l].level = "blocked", ![l].asked = TRUE]
         \/ app' = [app EXCEPT ![l].level = "dry"]
  BY DEF NeedData, Consume
<1>2. UNCHANGED <<session, gui, seeking, wanted, anchored, mail>>
  BY <1>1 DEF guiVars
<1>3. app \in [Lanes -> AppSrcs]
  BY DEF PumpInv, Handling
<1>4. /\ \A k \in Lanes : app'[k].eos = app[k].eos
      /\ caps = 0 => \A k \in Lanes : app'[k].asked = app[k].asked
  BY <1>1, <1>3 DEF AppSrcs
<1> QED BY <1>1, <1>2, <1>4, PlaceQuietly DEF Lanes

LEMMA PlaceStutter ==
  ASSUME PumpInv, PlaceInv, UNCHANGED vars
  PROVE  PlaceInv'
<1>1. /\ UNCHANGED <<mediaVars, session, gui, seeking, wanted, anchored, mail>>
      /\ UNCHANGED <<caps, pushed, app>>
  BY DEF vars, guiVars, pipeVars
<1> QED BY <1>1, PlaceQuietly

LEMMA RearmKeeps ==
  ASSUME NEW p \in Pumps
  PROVE  /\ Rearm(p) \in Pumps /\ Rearm(p).dual = p.dual /\ Rearm(p).open = p.open
         /\ Rearm(p).esSent = p.esSent /\ Rearm(p).configured = p.configured
         /\ Rearm(p).eosPending = p.eosPending
BY RearmGives DEF Rearm, Pumps

LEMMA ResetClears ==
  ASSUME NEW p \in Pumps
  PROVE  /\ Reset(p) \in Pumps /\ Reset(p).dual = p.dual
         /\ Reset(p).esSent = FALSE /\ Reset(p).configured = FALSE
         /\ \A l \in Lanes : ~Reset(p).open[l] /\ ~Reset(p).eosPending[l]
BY ResetGives DEF Reset, Pumps, Both

LEMMA PlaceNeedDataArrives ==
  ASSUME PumpInv, LastInv, PlaceInv, NEW l \in Lanes, NeedDataArrives(l)
  PROVE  PlaceInv'
<1>1. /\ Idle /\ app[l].asked /\ app' = [app EXCEPT ![l].asked = FALSE] /\ owed' = {l}
      /\ pump' = pump \/ pump' = Rearm(pump)
      /\ UNCHANGED <<src, demux, hold, broken, caps, pushed>>
      /\ UNCHANGED <<session, gui, mail, seeking, wanted, anchored>>
  BY DEF NeedDataArrives, guiVars
<1>2. /\ Steady(pump) /\ pump'.eosPending = pump.eosPending
  BY <1>1, RearmKeeps DEF PumpInv, Handling, Steady
<1>3. \A k \in Lanes : app'[k].eos = app[k].eos /\ (app'[k].asked => app[k].asked)
  BY <1>1 DEF PumpInv, Handling, AppSrcs
<1>4. ChainInv' /\ SoughtInv' /\ UrlInv'
  BY <1>1, <1>2, <1>3 DEF PlaceInv, ChainInv, SoughtInv, UrlInv, Speaks, Steady
<1>5. OpenInv'
  BY <1>1, <1>2 DEF PlaceInv, OpenInv, Runs, Probing, Steady
<1>6. DualPlace'
  BY <1>1, <1>2 DEF PlaceInv, DualPlace, Runs, At, Origin, Taken, Steady
<1>7. SinglePlace'
  <2>1. \A i \in DOMAIN mail' : Opening(i)' = Opening(i)
    BY <1>1 DEF Opening
  <2>2. (\E i \in DOMAIN mail : Opening(i)) /\ ~pump.dual /\ src["video"].url # 0 =>
          l # "video" /\ ~app'["video"].asked
    BY <1>1, <1>3 DEF PlaceInv, SinglePlace, Lanes
  <2> QED BY <1>1, <1>2, <2>1, <2>2 DEF PlaceInv, SinglePlace, Quiet, At, Origin, Steady
<1> QED BY <1>4, <1>5, <1>6, <1>7 DEF PlaceInv

\* seekBytes(), seekDualTo(): both lanes of two streams go where the pipeline was
\* flushed to, or the pump is known not to be there.
LEMMA PlaceSeekArrives ==
  ASSUME PumpInv, LastInv, PlaceInv, SeekArrives
  PROVE  PlaceInv'
<1> PICK t : t = seeking
  OBVIOUS
<1>1. /\ Idle /\ t \in Targets /\ seeking' = NoSeek /\ t # NoSeek
      /\ UNCHANGED <<unwind, broken, session, gui, mail, wanted, app, caps, pushed>>
      /\ SeekBytes(t) \/ SeekDualTo(t)
  BY DEF SeekArrives, PumpInv, Commanding, pipeVars
<1>2. wanted = t /\ anchored = NoSeek
  BY <1>1 DEF PlaceInv, SoughtInv
<1>3. caps # 0 /\ gui = "running"
  BY <1>1 DEF LastInv, StageInv
<1>4. SoughtInv'
  BY <1>1 DEF SoughtInv
<1>5. \A l \in Lanes : src[l] \in BS!Sources(UrlsOf(l), FileSize[l]) /\ FileSize[l] \in Nat
  BY SizeIs DEF PumpInv, SourcesInv
<1>6. ASSUME NEW l \in Lanes, Speaks(l), NEW s, s = BS!Seek(src[l], SegStart[t][l])
      PROVE  /\ Chain(s, FileSize[l]) /\ s.url = src[l].url
             /\ src[l].ranged => Cursor(s) = SegStart[t][l]
  <2>1. Chain(src[l], FileSize[l])
    BY <1>6 DEF PlaceInv, ChainInv
  <2> QED BY <1>5, <1>6, <2>1, ChainSeek
<1>7. Origin("video")' = SegStart[t]["video"] /\ \A l \in Lanes : Origin(l)' = SegStart[t][l]
  BY <1>1, <1>2 DEF Origin
<1>8. CASE SeekBytes(t)
  <2> PICK s : s = BS!Seek(src["video"], SegStart[t]["video"])
    OBVIOUS
  <2>1. /\ ~pump.dual /\ src' = [src EXCEPT !["video"] = s] /\ UNCHANGED <<pump, demux, hold>>
        /\ anchored' = IF src["video"].ranged THEN t ELSE NoSeek
    BY <1>8 DEF SeekBytes
  <2>2. src'["video"] = s /\ src'["audio"] = src["audio"]
    BY <2>1 DEF PumpInv, SourcesInv, Lanes
  <2>3. /\ Chain(s, FileSize["video"]) /\ s.url = src["video"].url
        /\ src["video"].ranged => Cursor(s) = SegStart[t]["video"]
    BY <1>6 DEF Speaks, Lanes
  <2>4. ChainInv'
    BY <2>1, <2>2, <2>3 DEF ChainInv, Speaks, Lanes
  <2>5. OpenInv' /\ DualPlace'
    BY <2>1 DEF OpenInv, DualPlace, Runs
  <2>6. UrlInv'
    BY <1>1, <2>1, <2>2, <2>3 DEF PlaceInv, UrlInv, Lanes
  <2>7. SinglePlace'
    <3>1. \A i \in DOMAIN mail' : Opening(i)' = Opening(i)
      BY <1>1 DEF Opening
    <3>2. src'["video"].url # 0 => \A i \in DOMAIN mail' : ~Opening(i)'
      BY <1>1, <1>3, <2>1, <2>2, <2>3, <3>1 DEF PlaceInv, SinglePlace
    <3>3. At' => src["video"].ranged
      BY <1>1, <1>2, <2>1 DEF At
    <3>4. At' => \A u \in Origin("video")' + 1..Cursor(src'["video"]) : FALSE
      BY <1>1, <1>7, <2>2, <2>3, <3>3, TargetFits DEF Lanes
    <3> QED BY <3>2, <3>4 DEF SinglePlace
  <2> QED BY <1>4, <2>4, <2>5, <2>6, <2>7 DEF PlaceInv
<1>9. CASE pump.dual /\ pump.esSent /\ Reanchor(t)
  <2>1. /\ src' = [l \in Lanes |-> BS!Seek(src[l], SegStart[t][l])]
        /\ demux' = [l \in Lanes |-> [demux[l] EXCEPT !.next = SegStart[t][l],
                                                      !.samples = <<>>]]
        /\ pump' = Rearm([pump EXCEPT !.lastSeek = t, !.eosPending = Both(FALSE),
                                      !.videoDone = FALSE])
        /\ anchored' = IF \A l \in Lanes : src[l].ranged THEN t ELSE NoSeek
    BY <1>9 DEF Reanchor
  <2>2. /\ pump'.dual /\ pump'.open = pump.open /\ pump'.configured = pump.configured
        /\ \A l \in Lanes : ~pump'.eosPending[l]
    <3> DEFINE p == [pump EXCEPT !.lastSeek = t, !.eosPending = Both(FALSE),
                                 !.videoDone = FALSE]
    <3>1. p \in Pumps /\ p.dual = TRUE /\ p.eosPending = Both(FALSE)
          /\ p.open = pump.open /\ p.configured = pump.configured
      BY <1>1, <1>9 DEF PumpInv, Handling, Pumps, Both
    <3>2. pump' = Rearm(p)
      BY <2>1
    <3> HIDE DEF p
    <3> QED BY <3>1, <3>2, RearmKeeps DEF Both
  <2>3. \A l \in Lanes : pump'.open[l]
    BY <1>9, <2>2 DEF PlaceInv, OpenInv
  <2>4. \A l \in Lanes : /\ Chain(src'[l], FileSize[l]) /\ src'[l].url = src[l].url
                         /\ src[l].ranged => Cursor(src'[l]) = SegStart[t][l]
    BY <1>6, <1>9, <2>1 DEF Speaks
  <2>5. ChainInv'
    BY <2>4 DEF ChainInv
  <2>6. OpenInv'
    BY <1>1, <1>3, <2>3 DEF OpenInv
  <2>7. UrlInv'
    BY <1>1, <2>2, <2>4 DEF PlaceInv, UrlInv
  <2>8. DualPlace'
    <3> SUFFICES ASSUME At', NEW l \in Lanes
                 PROVE  /\ demux'[l].next = Cursor(src'[l])
                        /\ \A u \in Origin(l)' + 1..demux'[l].next : Taken(l, u)'
      BY DEF DualPlace
    <3>1. \A k \in Lanes : src[k].ranged
      BY <1>1, <1>2, <2>1 DEF At
    <3>2. demux'[l].next = SegStart[t][l]
      <4>1. demux[l] \in DemuxesOf(Kept)
        BY DEF PumpInv, Handling
      <4> QED BY <2>1, <4>1 DEF DemuxesOf
    <3>3. \A u \in Origin(l)' + 1..demux'[l].next : FALSE
      BY <1>1, <1>7, <3>2, TargetFits
    <3> QED BY <2>4, <3>1, <3>2, <3>3
  <2>9. SinglePlace'
    BY <2>2 DEF SinglePlace
  <2> QED BY <1>4, <2>5, <2>6, <2>7, <2>8, <2>9 DEF PlaceInv
<1>10. CASE pump.dual /\ UNCHANGED <<src, demux, pump, owed, hold, anchored>>
  <2>1. UNCHANGED mediaVars
    BY <1>1, <1>10 DEF mediaVars
  <2>2. ChainInv' /\ OpenInv' /\ UrlInv'
    BY <1>1, <2>1, PlacePipe
  <2>3. ~At'
    BY <1>1, <1>2, <1>10 DEF At
  <2>4. DualPlace' /\ SinglePlace'
    BY <1>10, <2>3 DEF DualPlace, SinglePlace
  <2> QED BY <1>4, <2>2, <2>4 DEF PlaceInv
<1> QED BY <1>1, <1>8, <1>9, <1>10 DEF SeekDualTo

LEMMA PlaceStop ==
  ASSUME PumpInv, LastInv, PlaceInv, Stop
  PROVE  PlaceInv'
<1>1. /\ gui' = "idle" /\ seeking' = NoSeek
      /\ src' = [l \in Lanes |-> BS!Close(src[l])]
      /\ pump' = Rearm(Reset([pump EXCEPT !.lastSeek = NoSeek, !.videoDone = FALSE]))
      /\ app' = [l \in Lanes |-> [NewAppSrc EXCEPT !.asked = app[l].asked]]
  BY DEF Stop, CloseAll, Teardown
<1>2. \A l \in Lanes : app'[l].eos = "no"
  BY <1>1 DEF NewAppSrc
<1>3. /\ pump'.dual = pump.dual /\ pump'.esSent = FALSE
      /\ \A l \in Lanes : ~pump'.eosPending[l]
  <2> DEFINE p == [pump EXCEPT !.lastSeek = NoSeek, !.videoDone = FALSE]
  <2>1. p \in Pumps /\ p.dual = pump.dual
    BY DEF PumpInv, Handling, Pumps
  <2>2. pump' = Rearm(Reset(p))
    BY <1>1
  <2> HIDE DEF p
  <2>3. /\ Reset(p) \in Pumps /\ Reset(p).dual = p.dual /\ Reset(p).esSent = FALSE
        /\ \A l \in Lanes : ~Reset(p).eosPending[l]
    BY <2>1, ResetClears
  <2> QED BY <2>1, <2>2, <2>3, RearmKeeps
<1>4. \A l \in Lanes : Speaks(l) => Chain(src'[l], FileSize[l]) /\ src'[l].url = 0
  <2> SUFFICES ASSUME NEW l \in Lanes, Chain(src[l], FileSize[l])
               PROVE  Chain(src'[l], FileSize[l]) /\ src'[l].url = 0
    BY DEF PlaceInv, ChainInv
  <2>1. src[l] \in BS!Sources(UrlsOf(l), FileSize[l]) /\ FileSize[l] \in Nat
    BY SizeIs DEF PumpInv, SourcesInv
  <2>2. src'[l] = BS!Close(src[l])
    BY <1>1
  <2> QED BY <2>1, <2>2, ChainClose
<1>5. ChainInv'
  BY <1>3, <1>4 DEF ChainInv, Speaks
<1>6. SoughtInv' /\ OpenInv' /\ DualPlace'
  BY <1>1, <1>3 DEF SoughtInv, OpenInv, DualPlace, Runs
<1>7. UrlInv'
  BY <1>2, <1>3 DEF UrlInv
<1>8. SinglePlace'
  BY <1>4 DEF SinglePlace, Speaks, Lanes
<1> QED BY <1>5, <1>6, <1>7, <1>8 DEF PlaceInv

LEMMA ChainReopen ==
  ASSUME NEW U, NEW size \in Nat, NEW s \in BS!Sources(U, size), NEW url \in Nat,
         NEW t, t = BS!Open(BS!Close(s), url)
  PROVE  Chain(t, size) /\ t.url = url /\ Cursor(t) = 0 /\ Probing(t)
<1> PICK c : c = BS!Close(s)
  OBVIOUS
<1>1. c \in BS!Sources(U, size)
  BY CloseFits
<1> QED BY <1>1, ChainOpen

LEMMA PlaceStartDual ==
  ASSUME PumpInv, LastInv, PlaceInv, Start, DualSession[session']
  PROVE  PlaceInv'
<1>1. /\ session' = session + 1 /\ session \in Nat
      /\ gui' = "loading" /\ seeking' = NoSeek /\ wanted' = NoSeek
      /\ UNCHANGED <<owed, mail, app, caps, pushed>>
      /\ pump' = Rearm(Reset([pump EXCEPT !.dual = TRUE, !.lastSeek = NoSeek,
                                          !.videoDone = FALSE]))
      /\ demux' = Both(NewDemux)
      /\ src' = [src EXCEPT !["video"] = BS!Open(BS!Close(@), session'),
                            !["audio"] = BS!Open(@, session')]
  BY StartCommands DEF Start, OpenDual, pipeVars, PumpInv
<1>2. /\ pump'.dual = TRUE /\ pump'.esSent = FALSE /\ pump'.configured = FALSE
      /\ \A l \in Lanes : ~pump'.eosPending[l]
  <2> DEFINE p == [pump EXCEPT !.dual = TRUE, !.lastSeek = NoSeek, !.videoDone = FALSE]
  <2>1. p \in Pumps /\ p.dual = TRUE
    BY DEF PumpInv, Handling, Pumps
  <2>2. pump' = Rearm(Reset(p))
    BY <1>1
  <2> HIDE DEF p
  <2>3. /\ Reset(p) \in Pumps /\ Reset(p).dual = p.dual
        /\ Reset(p).esSent = FALSE /\ Reset(p).configured = FALSE
        /\ \A l \in Lanes : ~Reset(p).eosPending[l]
    BY <2>1, ResetClears
  <2> QED BY <2>1, <2>2, <2>3, RearmKeeps
<1>3. \A l \in Lanes : /\ Chain(src'[l], FileSize[l]) /\ src'[l].url = session'
                       /\ Cursor(src'[l]) = 0 /\ Probing(src'[l])
  <2>1. /\ src["video"] \in BS!Sources(UrlsOf("video"), FileSize["video"])
        /\ src["audio"] \in BS!Sources(UrlsOf("audio"), FileSize["audio"])
        /\ FileSize["video"] \in Nat /\ FileSize["audio"] \in Nat /\ session' \in Nat
    BY <1>1, SizeIs DEF PumpInv, SourcesInv, Lanes
  <2>2. /\ src'["video"] = BS!Open(BS!Close(src["video"]), session')
        /\ src'["audio"] = BS!Open(src["audio"], session')
    BY <1>1 DEF PumpInv, SourcesInv, Lanes
  <2>3. /\ Chain(src'["video"], FileSize["video"]) /\ src'["video"].url = session'
        /\ Cursor(src'["video"]) = 0 /\ Probing(src'["video"])
    BY <2>1, <2>2, ChainReopen
  <2>4. /\ Chain(src'["audio"], FileSize["audio"]) /\ src'["audio"].url = session'
        /\ Cursor(src'["audio"]) = 0 /\ Probing(src'["audio"])
    BY <2>1, <2>2, ChainOpen
  <2> QED BY <2>3, <2>4 DEF Lanes
<1>4. ChainInv' /\ SoughtInv'
  BY <1>1, <1>3 DEF ChainInv, SoughtInv
<1>5. OpenInv'
  BY <1>2, <1>3 DEF OpenInv
<1>6. UrlInv'
  <2>1. session' # 0
    BY <1>1
  <2> QED BY <1>3, <2>1 DEF UrlInv
<1>7. DualPlace'
  <2> SUFFICES ASSUME NEW l \in Lanes
               PROVE  /\ demux'[l].next = Cursor(src'[l])
                      /\ \A u \in Origin(l)' + 1..demux'[l].next : Taken(l, u)'
    BY DEF DualPlace
  <2>1. demux'[l].next = 0
    BY <1>1 DEF Both, NewDemux
  <2>2. Origin(l)' = HeaderSize[l] /\ HeaderSize[l] \in Nat
    BY <1>1, SizeIs DEF Origin
  <2> QED BY <1>3, <2>1, <2>2
<1>8. SinglePlace'
  BY <1>2 DEF SinglePlace
<1> QED BY <1>4, <1>5, <1>6, <1>7, <1>8 DEF PlaceInv

LEMMA PlaceStartSingle ==
  ASSUME PumpInv, LastInv, PlaceInv, Start, ~DualSession[session']
  PROVE  PlaceInv'
<1>1. /\ session' = session + 1 /\ session \in Nat
      /\ Idle /\ gui # "running" /\ gui' = "loading" /\ seeking' = NoSeek /\ wanted' = NoSeek
      /\ \A l \in Lanes : ~app[l].asked
      /\ UNCHANGED <<owed, mail, app, caps, pushed>>
      /\ pump' = Reset([pump EXCEPT !.dual = FALSE])
      /\ src' = [src EXCEPT !["video"] = BS!Open(BS!Close(@), session')]
  BY StartCommands DEF Start, Ask, OpenSingle, pipeVars, PumpInv
<1>2. /\ pump'.dual = FALSE /\ \A l \in Lanes : ~pump'.eosPending[l]
  <2> DEFINE p == [pump EXCEPT !.dual = FALSE]
  <2>1. p \in Pumps /\ p.dual = FALSE
    BY DEF PumpInv, Handling, Pumps
  <2>2. pump' = Reset(p)
    BY <1>1
  <2> HIDE DEF p
  <2> QED BY <2>1, <2>2, ResetClears
<1>3. /\ Chain(src'["video"], FileSize["video"]) /\ Cursor(src'["video"]) = 0
  <2>1. /\ src["video"] \in BS!Sources(UrlsOf("video"), FileSize["video"])
        /\ FileSize["video"] \in Nat /\ session' \in Nat
    BY <1>1, SizeIs DEF PumpInv, SourcesInv, Lanes
  <2>2. src'["video"] = BS!Open(BS!Close(src["video"]), session')
    BY <1>1 DEF PumpInv, SourcesInv, Lanes
  <2> QED BY <2>1, <2>2, ChainReopen
<1>4. ChainInv' /\ SoughtInv'
  BY <1>1, <1>2, <1>3 DEF ChainInv, SoughtInv, Speaks, Lanes
<1>5. OpenInv' /\ DualPlace'
  BY <1>2 DEF OpenInv, DualPlace, Runs
<1>6. caps = 0 /\ \A l \in Lanes : app[l].eos = "no"
  BY <1>1 DEF LastInv, StageInv
<1>7. UrlInv'
  BY <1>1, <1>2, <1>6 DEF UrlInv
<1>8. SinglePlace'
  <2>1. \A i \in DOMAIN mail' : ~Opening(i)'
    <3>1. \A i \in DOMAIN mail' : mail'[i].session # session'
      BY <1>1 DEF LastInv, StageInv, Past
    <3> QED BY <3>1 DEF Opening
  <2>2. caps' # session'
    BY <1>1, <1>6
  <2> QED BY <2>1, <2>2 DEF SinglePlace
<1> QED BY <1>4, <1>5, <1>7, <1>8 DEF PlaceInv

\* pipelineConfigured(): what was cut before goes out, the header's samples first.
LEMMA PlaceReadEsReady ==
  ASSUME PumpInv, LastInv, PlaceInv, NoStaleEs, ReadEsReady
  PROVE  PlaceInv'
<1>1. /\ mail # <<>> /\ mail' = Tail(mail) /\ Head(mail).kind = "es" /\ Idle
      /\ UNCHANGED <<session, seeking, wanted, anchored>>
      /\ \/ UNCHANGED <<gui, mediaVars, pipeVars>>
         \/ /\ gui = "loading" /\ gui' = "running" /\ caps' = Head(mail).session
            /\ Drain([pump EXCEPT !.configured = TRUE], demux, "video", {})
            /\ UNCHANGED <<src, broken>>
  BY DEF ReadEsReady
<1>2. Head(mail).session # 0 /\ session # 0
  BY <1>1, LetterFirst DEF LastInv
<1>3. CASE UNCHANGED <<gui, mediaVars, pipeVars>>
  <2>1. UNCHANGED <<app, caps, pushed>>
    BY <1>3 DEF pipeVars
  <2> QED BY <1>1, <1>3, <2>1, PlaceQuietly
<1>4. CASE /\ gui = "loading" /\ gui' = "running" /\ caps' = Head(mail).session
           /\ Drain([pump EXCEPT !.configured = TRUE], demux, "video", {})
           /\ UNCHANGED <<src, broken>>
  <2> PICK K : K = Kept
    OBVIOUS
  <2> PICK more : more = {}
    OBVIOUS
  <2> PICK p : p = [pump EXCEPT !.configured = TRUE]
    OBVIOUS
  <2>1. pump.dual
    <3>1. DualSession[session]
      BY <1>1, <1>2, <1>4 DEF NoStaleEs, PumpInv, Commanding
    <3> QED BY <1>2, <3>1 DEF PumpInv, DualInv
  <2>2. /\ p \in Pumps /\ p.dual /\ p.open = pump.open /\ p.esSent = pump.esSent
        /\ p.eosPending = pump.eosPending
    BY <2>1 DEF PumpInv, Handling, Pumps
  <2>3. Drain(p, demux, "video", more) /\ "video" \in Lanes /\ caps' # 0
    BY <1>2, <1>4 DEF Lanes
  <2>4. Handling(K) /\ K \subseteq Sessions /\ demux \in [Lanes -> DemuxesOf(K)]
    <3>1. Handling(K) /\ K \subseteq Sessions
      BY UrlsAre DEF PumpInv, Lanes
    <3> QED BY <3>1 DEF Handling
  <2>5. /\ Steady(p)
        /\ \A k \in Lanes :
             /\ demux'[k].next = demux[k].next
             /\ \A u : Has(pushed[k], u) \/ Has(hold[k], u) \/ Has(demux[k].samples, u)
                         => Taken(k, u)'
    BY <2>2, <2>3, <2>4, DrainTakes
  <2>6. Ending(EndedLanes, more)
    <3>1. EndingFrom(EndedLanes)
      BY PlaceEnds DEF PlaceInv
    <3>2. /\ \A k \in Lanes : p.eosPending[k] => k \in EndedLanes
          /\ \A k \in Lanes : app[k].eos = "yes" =>
               k \in EndedLanes /\ hold[k] = <<>> /\ demux[k].samples = <<>>
      BY <2>1, <2>2, <3>1 DEF EndingFrom
    <3> QED BY <2>1, <2>2, <2>3, <2>4, <3>2, DrainEnding
  <2>7. ChainInv' /\ SoughtInv'
    BY <1>1, <1>4, <2>1, <2>2, <2>5 DEF PlaceInv, ChainInv, SoughtInv, Speaks, Steady
  <2>8. OpenInv'
    BY <1>4, <2>1, <2>2, <2>5 DEF PlaceInv, OpenInv, Runs, Probing, Steady
  <2>9. UrlInv'
    BY <1>4, <2>6 DEF UrlInv, Ending, EndedLanes
  <2>10. DualPlace'
    <3> SUFFICES ASSUME Runs', At', NEW l \in Lanes
                 PROVE  /\ demux'[l].next = Cursor(src'[l])
                        /\ \A u \in Origin(l)' + 1..demux'[l].next : Taken(l, u)'
      BY DEF DualPlace
    <3>1. Runs /\ At /\ (gui = "running" => caps = session)
      BY <1>1, <1>4, <2>1 DEF Runs, At
    <3>2. /\ demux[l].next = Cursor(src[l])
          /\ \A u \in Origin(l) + 1..demux[l].next : Taken(l, u)
      BY <3>1 DEF PlaceInv, DualPlace
    <3>3. Origin(l)' = Origin(l)
      BY <1>1 DEF Origin
    <3> QED BY <1>4, <2>5, <3>2, <3>3 DEF Taken
  <2>11. SinglePlace'
    BY <2>2, <2>5 DEF SinglePlace, Steady
  <2> QED BY <2>7, <2>8, <2>9, <2>10, <2>11 DEF PlaceInv
<1> QED BY <1>1, <1>3, <1>4

LEMMA PlaceInit == Init => PlaceInv
<1> SUFFICES ASSUME Init PROVE PlaceInv
  OBVIOUS
<1>1. /\ src = Both(BS!NewSource) /\ gui = "idle" /\ seeking = NoSeek
      /\ app = Both(NewAppSrc) /\ pump.eosPending = Both(FALSE) /\ pump.dual = FALSE
  BY DEF Init
<1>2. /\ \A l \in Lanes : /\ src[l].url = 0 /\ src[l].ready = <<>> /\ src[l].reply = NoReply
                          /\ ~src[l].eof
      /\ \A l \in Lanes : app[l].eos = "no" /\ ~pump.eosPending[l]
  BY <1>1 DEF Both, BS!NewSource, NewAppSrc
<1>3. ChainInv
  BY <1>2 DEF ChainInv, Chain, Probing
<1>4. SoughtInv /\ OpenInv /\ UrlInv /\ DualPlace /\ SinglePlace
  BY <1>1, <1>2 DEF SoughtInv, OpenInv, UrlInv, DualPlace, SinglePlace, Runs, Lanes
<1> QED BY <1>3, <1>4 DEF PlaceInv

-----------------------------------------------------------------------------
(* What has ended is complete                                              *)

LEMMA PlaceNext ==
  ASSUME PumpInv, LastInv, PlaceInv, NoStaleEs, NoStaleOpened, AtMostOneFetch, Next
  PROVE  PlaceInv'
<1>1. PumpInv'
  BY PureNext
<1>2. ASSUME Gui PROVE PlaceInv'
  BY <1>1, <1>2, PlaceStartDual, PlaceStartSingle, PlaceStop, PlaceRelease, PlaceReadOpened,
     PlaceReadEsReady, PlaceSeek, PlaceSeekArrives DEF Gui
<1>3. ASSUME NEW l \in Lanes,
             \/ \E ranged \in Ranged : ProbeLands(l, ranged)
             \/ WindowLands(l) \/ FetchFails(l)
             \/ \E slot \in BS!Slots, n \in 0..Window : StrayLands(l, slot, n)
             \/ Serve(l) \/ Unwind(l)
      PROVE  PlaceInv'
  <2>1. ~\E slot \in BS!Slots, n \in 0..Window : StrayLands(l, slot, n)
    BY DEF AtMostOneFetch, StrayLands
  <2> QED BY <1>1, <1>3, <2>1, PlaceProbeLands, PlaceWindowLands, PlaceFetchFails,
             PlaceServe, PlaceUnwind
<1>4. ASSUME NEW l \in Lanes, NeedDataArrives(l) \/ NeedData(l) \/ Consume(l)
      PROVE  PlaceInv'
  BY <1>4, PlaceNeedDataArrives, PlaceAppSrc
<1> QED BY <1>2, <1>3, <1>4 DEF Next, Media, Pipeline

\* At an end all of the file has been fetched and delivered, nothing is held or
\* cut, and the demuxer is where the source is: every unit has been pushed.
LEMMA PlaceComplete ==
  ASSUME PumpInv, LastInv, PlaceInv
  PROVE  EosComplete
<1> SUFFICES ASSUME NEW l \in Lanes, Settled, ~broken, app[l].eos = "yes",
                    NEW u \in Origin(l) + 1..FileSize[l]
             PROVE  Has(pushed[l], u)
  BY DEF EosComplete, Has
<1>1. Speaks(l) /\ Done(src[l]) /\ src[l].url # 0
  BY DEF LastInv, EndInv, PlaceInv, UrlInv
<1>2. Cursor(src[l]) = FileSize[l]
  BY <1>1 DEF PlaceInv, ChainInv, Chain, Cursor, Done
<1>3. At /\ gui = "running" /\ caps = session
  BY DEF Settled, At
<1>4. CASE pump.dual
  <2>1. Runs
    BY <1>3, <1>4 DEF Runs, Settled
  <2>2. Taken(l, u)
    BY <1>2, <1>3, <2>1 DEF PlaceInv, DualPlace
  <2>3. hold[l] = <<>> /\ demux[l].samples = <<>>
    BY <1>4 DEF LastInv, EndInv
  <2> QED BY <2>2, <2>3 DEF Taken, Has
<1>5. CASE ~pump.dual
  BY <1>1, <1>2, <1>3, <1>5 DEF Speaks, PlaceInv, SinglePlace
<1> QED BY <1>4, <1>5

\* An end of stream comes behind all of the file from where the lane began:
\* windows, read-ahead, demuxers and prebuffer lose nothing (bytesource.cpp:98-182,
\* mediapump.cpp:253-302).  It takes that the signals queued to the GUI are read in
\* the session that sent them, and that no open() meets a fetch of the one before:
\* such a reply is taken for the one in flight, with what has arrived of it.
THEOREM PumpEosComplete ==
  Spec /\ [](NoStaleEs /\ NoStaleOpened /\ AtMostOneFetch) => []EosComplete
<1>1. PumpInv /\ LastInv /\ PlaceInv /\ NoStaleEs /\ NoStaleOpened /\ AtMostOneFetch
        /\ [Next]_vars => LastInv' /\ PlaceInv'
  BY LastIsLast, PlaceNext, PlaceStutter
<1>2. PumpInv /\ LastInv /\ PlaceInv => EosComplete
  BY PlaceComplete
<1> QED BY <1>1, <1>2, LastInit, PlaceInit, PureAlways, PTL DEF Spec

-----------------------------------------------------------------------------
(* One fetch at a time                                                     *)

\* Where the policy takes no pipeline away, every open() follows a close().
FetchInv ==
  /\ gui # "released"
  /\ \A l \in Lanes : /\ src[l].stray = {}
                      /\ gui = "idle" => src[l].url = 0 /\ src[l].reply = NoReply

LEMMA TopUpFetches ==
  ASSUME NEW U, NEW size, NEW s \in BS!Sources(U, size), NEW t, t = BS!TopUp(s, size)
  PROVE  t.stray = s.stray /\ t.url = s.url /\ (s.url = 0 => t.reply = s.reply)
<1>1. t.stray = s.stray /\ t.url = s.url
  BY TopUpIs
<1>2. s.url = 0 => t = s
  BY DEF BS!TopUp
<1> QED BY <1>1, <1>2

\* A step that moves the source of lane l on, to t.
LEMMA FetchMoves ==
  ASSUME PumpInv, FetchInv, NEW l \in Lanes, NEW t, src' = [src EXCEPT ![l] = t], gui' = gui,
         t.stray = {}, gui = "idle" => t.url = 0 /\ t.reply = NoReply
  PROVE  FetchInv'
<1>1. src'[l] = t /\ \A k \in Lanes : k # l => src'[k] = src[k]
  BY DEF PumpInv, SourcesInv
<1> QED BY <1>1 DEF FetchInv

LEMMA FetchMedia ==
  ASSUME PumpInv, FetchInv, NEW l \in Lanes,
         \/ \E ranged \in Ranged : ProbeLands(l, ranged)
         \/ WindowLands(l) \/ FetchFails(l)
         \/ \E slot \in BS!Slots, n \in 0..Window : StrayLands(l, slot, n)
         \/ Serve(l) \/ Unwind(l)
  PROVE  FetchInv'
<1> PICK s : s = src[l]
  OBVIOUS
<1>1. /\ s \in BS!Sources(UrlsOf(l), FileSize[l]) /\ s.stray = {} /\ Shaped(s)
      /\ src = [src EXCEPT ![l] = s]
  BY SourceShaped DEF PumpInv, SourcesInv, FetchInv
<1>2. gui = "idle" => s.url = 0 /\ s.reply = NoReply
  BY DEF FetchInv
<1>3. ASSUME NEW ranged \in Ranged, ProbeLands(l, ranged) PROVE FetchInv'
  <2> PICK n : n = BS!Answered(s, FileSize[l])
    OBVIOUS
  <2> PICK t : t = BS!Probed(s, n, ranged)
    OBVIOUS
  <2>1. src' = [src EXCEPT ![l] = t] /\ gui' = gui /\ gui # "idle"
    BY <1>2, <1>3 DEF ProbeLands
  <2>2. t.stray = {}
    BY <1>1 DEF BS!Probed, Shaped
  <2> QED BY <2>1, <2>2, FetchMoves
<1>4. CASE WindowLands(l)
  <2> PICK n : n = BS!Answered(s, FileSize[l])
    OBVIOUS
  <2> PICK t : t = BS!Landed(s, n)
    OBVIOUS
  <2>1. src' = [src EXCEPT ![l] = t] /\ gui' = gui /\ gui # "idle"
    BY <1>2, <1>4 DEF WindowLands, WindowOf
  <2>2. t.stray = {}
    BY <1>1 DEF BS!Landed, Shaped
  <2> QED BY <2>1, <2>2, FetchMoves
<1>5. CASE FetchFails(l)
  <2> PICK t : t = [s EXCEPT !.reply = NoReply]
    OBVIOUS
  <2>1. src' = [src EXCEPT ![l] = t] /\ gui' = gui /\ gui # "idle"
    BY <1>2, <1>5 DEF FetchFails, guiVars, PumpInv, SourcesInv
  <2>2. t.stray = {}
    BY <1>1 DEF Shaped
  <2> QED BY <2>1, <2>2, FetchMoves
<1>6. ~\E slot \in BS!Slots, n \in 0..Window : StrayLands(l, slot, n)
  BY <1>1 DEF StrayLands
<1>7. CASE Serve(l)
  <2> PICK more : more = owed \ {l}
    OBVIOUS
  <2>1. Request(l, more) /\ gui' = gui
    BY <1>7 DEF Serve
  <2>2. CASE src' = src
    BY <1>1, <1>2, <2>1, <2>2, FetchMoves
  <2>3. CASE src' = [src EXCEPT ![l].ready = Tail(@)] /\ s.url # 0
    <3> PICK t : t = [s EXCEPT !.ready = Tail(s.ready)]
      OBVIOUS
    <3>1. src' = [src EXCEPT ![l] = t] /\ t.stray = {} /\ gui # "idle"
      BY <1>1, <1>2, <2>3 DEF Shaped
    <3> QED BY <2>1, <3>1, FetchMoves
  <2>4. CASE src' = [src EXCEPT ![l] = BS!Wait(@, FileSize[l])] /\ s.url # 0
    <3> PICK t : t = BS!Wait(s, FileSize[l])
      OBVIOUS
    <3>1. src' = [src EXCEPT ![l] = t] /\ gui # "idle"
      BY <1>2, <2>4
    <3>2. t.stray = {}
      <4> DEFINE u == BS!Wait(s, FileSize[l])
      <4>1. u.stray = s.stray
        BY <1>1, WaitIs
      <4> QED BY <1>1, <4>1
    <3> QED BY <2>1, <3>1, <3>2, FetchMoves
  <2> QED BY <2>1, <2>2, <2>3, <2>4 DEF Request
<1>8. CASE Unwind(l)
  <2> PICK t : t = BS!TopUp(s, FileSize[l])
    OBVIOUS
  <2>1. src' = [src EXCEPT ![l] = t] /\ gui' = gui
    BY <1>8 DEF Unwind, guiVars
  <2>2. t.stray = {} /\ t.url = s.url /\ (s.url = 0 => t.reply = s.reply)
    BY <1>1, TopUpFetches
  <2> QED BY <1>2, <2>1, <2>2, FetchMoves
<1> QED BY <1>3, <1>4, <1>5, <1>6, <1>7, <1>8

LEMMA FetchGui ==
  ASSUME MaxReleases = 0, PumpInv, FetchInv, Gui
  PROVE  FetchInv'
<1>1. \A l \in Lanes : src[l] \in BS!Sources(UrlsOf(l), FileSize[l])
  BY DEF PumpInv, SourcesInv
<1>2. CASE src' = src /\ gui' \notin {"idle", "released"}
  BY <1>2 DEF FetchInv
<1>3. CASE Start
  <2>1. gui' = "loading" /\ \A l \in Lanes : src[l].reply = NoReply
    BY <1>3 DEF Start, FetchInv
  <2>2. ASSUME NEW l \in Lanes, NEW s, s = BS!Open(src[l], session')
        PROVE  s.stray = {}
    <3>1. s.stray = src[l].stray
      <4> PICK U : U = UrlsOf(l)
        OBVIOUS
      <4> PICK r : r = src[l]
        OBVIOUS
      <4>1. r \in BS!Sources(U, FileSize[l]) /\ r.reply = NoReply
        BY <1>1, <2>1
      <4>2. BS!Open(r, session').stray = r.stray
        BY <4>1, OpenIs
      <4> QED BY <2>2, <4>2
    <3> QED BY <3>1 DEF FetchInv
  <2>3. ASSUME NEW l \in Lanes, NEW s, s = BS!Open(BS!Close(src[l]), session')
        PROVE  s.stray = {}
    <3> PICK U : U = UrlsOf(l)
      OBVIOUS
    <3> PICK r : r = src[l]
      OBVIOUS
    <3>1. r \in BS!Sources(U, FileSize[l])
      BY <1>1
    <3>2. BS!Open(BS!Close(r), session').stray = r.stray
      BY <3>1, ReopenIs
    <3> QED BY <2>3, <3>2 DEF FetchInv
  <2>4. \A l \in Lanes : src'[l] \in {src[l], BS!Open(src[l], session'),
                                      BS!Open(BS!Close(src[l]), session')}
    <3>1. src \in [Lanes -> {src["video"], src["audio"]}]
      BY DEF PumpInv, SourcesInv
    <3>2. CASE OpenDual(session')
      BY <3>1, <3>2 DEF OpenDual, Lanes
    <3>3. CASE OpenSingle(session')
      BY <3>1, <3>3 DEF OpenSingle, Lanes
    <3> QED BY <1>3, <3>2, <3>3 DEF Start
  <2> QED BY <2>1, <2>2, <2>3, <2>4 DEF FetchInv
<1>4. CASE Stop
  <2>1. src' = [l \in Lanes |-> BS!Close(src[l])] /\ gui' = "idle"
    BY <1>4 DEF Stop, CloseAll
  <2>2. ASSUME NEW l \in Lanes
        PROVE  src'[l].stray = {} /\ src'[l].url = 0 /\ src'[l].reply = NoReply
    <3>1. Shaped(src[l]) /\ src[l].stray = {}
      BY <1>1, SourceShaped DEF FetchInv
    <3>2. src'[l] = BS!Close(src[l])
      BY <2>1
    <3> QED BY <3>1, <3>2 DEF BS!Close, Shaped
  <2> QED BY <2>1, <2>2 DEF FetchInv
<1>5. ~Release
  BY DEF Release, PumpInv, Commanding
<1>6. CASE ReadOpened
  <2>1. src' = src /\ (gui' = gui \/ gui' = "running")
    BY <1>6 DEF ReadOpened, mediaVars
  <2> QED BY <2>1 DEF FetchInv
<1>7. CASE ReadEsReady
  <2>1. src' = src /\ (gui' = gui \/ gui' = "running")
    BY <1>7 DEF ReadEsReady, mediaVars
  <2> QED BY <2>1 DEF FetchInv
<1>8. CASE \E t \in Targets : Seek(t)
  <2>1. src' = src /\ gui' = gui
    BY <1>8 DEF Seek, mediaVars
  <2> QED BY <2>1 DEF FetchInv
<1>9. CASE SeekArrives
  <2> PICK t : t = seeking
    OBVIOUS
  <2>1. gui' = gui /\ (SeekBytes(t) \/ SeekDualTo(t))
    BY <1>9 DEF SeekArrives
  <2>2. ASSUME NEW l \in Lanes, NEW s, s = BS!Seek(src[l], SegStart[t][l])
        PROVE  s.stray = {} /\ (gui = "idle" => s.url = 0 /\ s.reply = NoReply)
    <3>1. Shaped(src[l]) /\ src[l].stray = {}
          /\ (gui = "idle" => src[l].url = 0 /\ src[l].reply = NoReply)
      BY <1>1, SourceShaped DEF FetchInv
    <3> QED BY <2>2, <3>1 DEF BS!Seek, BS!Close, Shaped
  <2>3. \A l \in Lanes : src'[l] \in {src[l], BS!Seek(src[l], SegStart[t][l])}
    BY <2>1 DEF SeekBytes, SeekDualTo, Reanchor, PumpInv, SourcesInv, Lanes
  <2> QED BY <2>1, <2>2, <2>3 DEF FetchInv
<1> QED BY <1>3, <1>4, <1>5, <1>6, <1>7, <1>8, <1>9 DEF Gui

LEMMA FetchNext ==
  ASSUME MaxReleases = 0, PumpInv, FetchInv, [Next]_vars
  PROVE  FetchInv'
<1>1. CASE \E l \in Lanes : NeedDataArrives(l) \/ NeedData(l) \/ Consume(l)
  <2>1. src' = src /\ gui' = gui
    BY <1>1 DEF NeedDataArrives, NeedData, Consume, mediaVars, guiVars
  <2> QED BY <2>1 DEF FetchInv
<1>2. CASE UNCHANGED vars
  BY <1>2 DEF vars, mediaVars, guiVars, FetchInv
<1> QED BY <1>1, <1>2, FetchMedia, FetchGui DEF Next, Media, Pipeline

LEMMA FetchInit == Init => FetchInv
BY DEF Init, FetchInv, Both, BS!NewSource

\* A source has at most one fetch in flight (bytesource.h: m_reply), as long as the
\* policy takes no pipeline away: stop() closes the sources, and nothing asks a
\* closed one; a pipeline that is released leaves them open for the next open().
THEOREM PumpOneFetch ==
  ASSUME MaxReleases = 0
  PROVE  Spec => []AtMostOneFetch
<1>1. PumpInv /\ FetchInv /\ [Next]_vars => FetchInv'
  BY FetchNext
<1>2. FetchInv => AtMostOneFetch
  BY DEF FetchInv, AtMostOneFetch
<1> QED BY <1>1, <1>2, FetchInit, PureAlways, PTL DEF Spec

\* Where every session plays two streams, and the policy takes no pipeline away,
\* nothing has to be assumed for the ends to be complete.
THEOREM PumpEosCompleteDual ==
  ASSUME \A s \in Sessions : DualSession[s], MaxReleases = 0
  PROVE  Spec => []EosComplete
<1>1. NoStaleEs /\ NoStaleOpened
  BY DEF NoStaleEs, NoStaleOpened
<1>2. PumpInv /\ LastInv /\ PlaceInv /\ AtMostOneFetch /\ [Next]_vars => LastInv' /\ PlaceInv'
  BY <1>1, LastIsLast, PlaceNext, PlaceStutter
<1>3. PumpInv /\ LastInv /\ PlaceInv => EosComplete
  BY PlaceComplete
<1>4. Spec => []AtMostOneFetch
  BY PumpOneFetch
<1> QED BY <1>2, <1>3, <1>4, LastInit, PlaceInit, PureAlways, PTL DEF Spec

=============================================================================
