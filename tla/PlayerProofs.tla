---------------------------- MODULE PlayerProofs ----------------------------
(***************************************************************************)
(* Proofs about StreamPlayer, for any number of plays, stops, losses and   *)
(* failures: its types and the switch it may owe, what may revive a        *)
(* stopped player, that a pipeline in its first preroll is spared, and     *)
(* that the pipeline is of the stream played (core/media/streamplayer.cpp).*)
(*                                                                         *)
(* A handler is a composition of operators on the record `world'.  The     *)
(* lemmas say what each operator keeps of it; the lemma of a handler then  *)
(* only puts them together.                                                *)
(***************************************************************************)
EXTENDS StreamPlayer, SequenceTheorems, TLAPS

Messages == {"playing", "asyncdone", "eos", "error", "draining", "drained"}
Policies == [acquired : BOOLEAN, manager : {"free", "asked", "held", "preempted"}]
Worlds == [player : Players, pipe : Pipes, bus : Seq(Messages), pump : Pumps,
           mail : Seq(Letters), policy : Policies]

Quiet == {"Idle", "Stopped", "Error"}

\* The sessions begun, and the one a deferred switch will begin.
Begun(w) == w.player.session + (IF w.player.pending = NoPlay THEN 0 ELSE 1)

\* A switch is owed only by a player that is busy.
Owes(w) == w.player.pending # NoPlay => w.player.state \in {"Loading", "Buffering", "Paused"}

\* Without a pipeline there is no bus, and nothing prerolls; in its first
\* preroll it has not said yet that it has prerolled or plays.
Piped(w) ==
  /\ ~w.pipe.built => w.pipe.at = "ready" /\ ~w.pipe.fresh /\ w.bus = <<>>
  /\ w.pipe.fresh => /\ w.pipe.at \in {"ready", "prerolling"}
                     /\ \A i \in DOMAIN w.bus : w.bus[i] \notin {"asyncdone", "playing"}

\* No pipeline, pump or letter is of a session that has not begun.
Dated(w) ==
  /\ w.pipe.session <= w.player.session /\ w.pump.session <= w.player.session
  /\ \A i \in DOMAIN w.mail : w.mail[i].session <= w.player.session

\* What every operator keeps, with at most n sessions begun or owed.
Base(w, n) ==
  /\ w \in Worlds /\ Owes(w) /\ Piped(w) /\ Dated(w)
  /\ Begun(w) <= n

\* A player that rests has no pipeline.
Rested(w) == w.player.state \in Quiet => ~w.pipe.built

\* From w to v a letter is only read, or written by the pipeline of w.
Posts(w, v) ==
  \A i \in DOMAIN v.mail : \/ \E j \in DOMAIN w.mail : v.mail[i] = w.mail[j]
                           \/ w.pipe.built /\ v.mail[i].session = w.pipe.session

\* From w to v the pipeline is only driven.
Drives(w, v) ==
  /\ v.player = w.player /\ v.pump = w.pump /\ v.policy = w.policy
  /\ v.pipe.built = w.pipe.built /\ v.pipe.fresh = w.pipe.fresh
  /\ v.pipe.session = w.pipe.session
  /\ Posts(w, v)

-----------------------------------------------------------------------------
(* The records                                                             *)

LEMMA WorldParts ==
  ASSUME NEW w \in Worlds
  PROVE  /\ w.player \in Players /\ w.pipe \in Pipes /\ w.bus \in Seq(Messages)
         /\ w.pump \in Pumps /\ w.mail \in Seq(Letters) /\ w.policy \in Policies
         /\ w = [player |-> w.player, pipe |-> w.pipe, bus |-> w.bus, pump |-> w.pump,
                 mail |-> w.mail, policy |-> w.policy]
BY DEF Worlds

LEMMA PlayerWorld ==
  ASSUME NEW w \in Worlds, NEW p \in Players
  PROVE  LET v == [w EXCEPT !.player = p]
         IN  /\ v \in Worlds /\ v.player = p /\ v.pipe = w.pipe /\ v.bus = w.bus
             /\ v.pump = w.pump /\ v.mail = w.mail /\ v.policy = w.policy
BY DEF Worlds

LEMMA LetterTyped ==
  ASSUME NEW t \in Targets, NEW s \in Sessions
  PROVE  Letter(t, s) \in Letters /\ Letter(t, s).session = s
BY DEF Letter, Letters

LEMMA PlaysAre == Budget["play"] \in Nat /\ Sessions \subseteq Nat /\ 0 \in Sessions
BY PlayerAssumption DEF Sessions, Acts

-----------------------------------------------------------------------------
(* The pipeline                                                            *)

LEMMA TeardownIs ==
  ASSUME NEW n, NEW w, Base(w, n)
  PROVE  LET v == Teardown(w)
         IN  /\ Base(v, n) /\ ~v.pipe.built /\ v.pipe.session = w.pipe.session
             /\ v.player = w.player /\ v.pump = w.pump /\ v.mail = w.mail
             /\ v.policy = w.policy
<1> DEFINE p == [NoPipe EXCEPT !.session = w.pipe.session, !.dual = w.pipe.dual,
                               !.seekable = w.pipe.seekable]
           v == Teardown(w)
<1>1. p \in Pipes /\ ~p.built /\ p.session = w.pipe.session /\ p.at = "ready" /\ ~p.fresh
  BY WorldParts, PlayerAssumption DEF Base, Pipes, NoPipe
<1>2. v = [w EXCEPT !.bus = <<>>, !.pipe = p]
  BY DEF Teardown
<1>3. <<>> \in Seq(Messages)
  OBVIOUS
<1> HIDE DEF p, v
<1>4. /\ v \in Worlds /\ v.pipe = p /\ v.bus = <<>> /\ v.player = w.player
      /\ v.pump = w.pump /\ v.mail = w.mail /\ v.policy = w.policy
  BY <1>1, <1>2, <1>3 DEF Base, Worlds
<1>5. Base(v, n)
  BY <1>1, <1>4 DEF Base, Owes, Piped, Dated, Begun
<1> QED BY <1>1, <1>4, <1>5 DEF v

LEMMA RebuildIs ==
  ASSUME NEW n, NEW w, Base(w, n)
  PROVE  LET v == Rebuild(w)
         IN  /\ Base(v, n) /\ v.pipe.built /\ v.pipe.session = w.pipe.session
             /\ v.pipe.at = "ready" /\ v.bus = <<>>
             /\ v.player = w.player /\ v.pump = w.pump /\ v.mail = w.mail
             /\ v.policy = w.policy
<1> DEFINE p == [NoPipe EXCEPT !.session = w.pipe.session, !.dual = w.pipe.dual,
                               !.seekable = w.pipe.seekable, !.built = TRUE,
                               !.rebuilt = TRUE, !.fresh = TRUE]
           v == Rebuild(w)
<1>1. p \in Pipes /\ p.built /\ p.session = w.pipe.session /\ p.at = "ready"
  BY WorldParts, PlayerAssumption DEF Base, Pipes, NoPipe
<1>2. v = [w EXCEPT !.bus = <<>>, !.pipe = p]
  BY WorldParts DEF Rebuild, Teardown, NoPipe, Base
<1>3. <<>> \in Seq(Messages)
  OBVIOUS
<1> HIDE DEF p, v
<1>4. /\ v \in Worlds /\ v.pipe = p /\ v.bus = <<>> /\ v.player = w.player
      /\ v.pump = w.pump /\ v.mail = w.mail /\ v.policy = w.policy
  BY <1>1, <1>2, <1>3 DEF Base, Worlds
<1>5. Base(v, n)
  BY <1>1, <1>4 DEF Base, Owes, Piped, Dated, Begun
<1> QED BY <1>1, <1>4, <1>5 DEF v

LEMMA ConfigureIs ==
  ASSUME NEW n, NEW w, Base(w, n), NEW dual \in BOOLEAN, NEW seekable \in BOOLEAN,
         NEW s \in Sessions, s <= w.player.session
  PROVE  LET v == Configure(w, dual, seekable, s)
         IN  /\ Base(v, n) /\ v.pipe.built /\ v.pipe.session = s
             /\ v.player = w.player /\ v.pump = w.pump /\ v.mail = w.mail
             /\ v.policy = w.policy
<1> DEFINE u == Rebuild(w)
           p == [u.pipe EXCEPT !.rebuilt = FALSE, !.session = s, !.dual = dual,
                               !.seekable = seekable]
           v == Configure(w, dual, seekable, s)
<1>1. /\ Base(u, n) /\ u.pipe.built /\ u.pipe.at = "ready" /\ u.bus = <<>>
      /\ u.player = w.player /\ u.pump = w.pump /\ u.mail = w.mail
      /\ u.policy = w.policy
  BY RebuildIs
<1>2. v = [u EXCEPT !.pipe.rebuilt = FALSE, !.pipe.session = s, !.pipe.dual = dual,
                    !.pipe.seekable = seekable]
  BY DEF Configure
<1> HIDE DEF u
<1>3. /\ u.pipe \in Pipes
      /\ p \in Pipes /\ p.built /\ p.session = s /\ p.at = "ready" /\ p.fresh = u.pipe.fresh
  <2> DEFINE q == u.pipe
  <2>1. q \in Pipes /\ q.built /\ q.at = "ready"
    BY <1>1, WorldParts DEF Base
  <2> HIDE DEF q
  <2>2. LET r == [q EXCEPT !.rebuilt = FALSE, !.session = s, !.dual = dual,
                           !.seekable = seekable]
        IN  r \in Pipes /\ r.built /\ r.session = s /\ r.at = "ready" /\ r.fresh = q.fresh
    BY <2>1 DEF Pipes
  <2> QED BY <2>1, <2>2 DEF q
<1>4. v = [u EXCEPT !.pipe = p]
  BY <1>1, <1>2, WorldParts DEF Base
<1> HIDE DEF p, v
<1>5. /\ v \in Worlds /\ v.pipe = p /\ v.bus = <<>> /\ v.player = u.player
      /\ v.pump = u.pump /\ v.mail = u.mail /\ v.policy = u.policy
  BY <1>1, <1>3, <1>4 DEF Base, Worlds
<1>6. Base(v, n)
  BY <1>1, <1>3, <1>5 DEF Base, Owes, Piped, Dated, Begun
<1> QED BY <1>1, <1>3, <1>5, <1>6 DEF v

\* What a pipeline does when it is told: it moves, and it may write.
LEMMA Driven ==
  ASSUME NEW n, NEW w, Base(w, n), NEW p \in Pipes, NEW b \in Seq(Messages),
         NEW m \in Seq(Letters), w.pipe.built, p.built, p.fresh = w.pipe.fresh,
         p.session = w.pipe.session,
         p.fresh => p.at \in {"ready", "prerolling"} /\ b = w.bus,
         m = w.mail \/ \E t \in Targets : m = Append(w.mail, Letter(t, w.pipe.session)),
         NEW v, v = [w EXCEPT !.pipe = p, !.bus = b, !.mail = m]
  PROVE  Base(v, n) /\ Drives(w, v)
<1>1. /\ v \in Worlds /\ v.pipe = p /\ v.bus = b /\ v.player = w.player
      /\ v.pump = w.pump /\ v.mail = m /\ v.policy = w.policy
  BY DEF Base, Worlds
<1>2. \A i \in DOMAIN m : \/ \E j \in DOMAIN w.mail : m[i] = w.mail[j]
                          \/ m[i].session = w.pipe.session
  <2>1. CASE m = w.mail
    BY <2>1
  <2>2. ASSUME NEW t \in Targets, m = Append(w.mail, Letter(t, w.pipe.session))
        PROVE  \A i \in DOMAIN m : \/ \E j \in DOMAIN w.mail : m[i] = w.mail[j]
                                   \/ m[i].session = w.pipe.session
    <3>1. w.mail \in Seq(Letters) /\ w.pipe.session \in Sessions
      BY WorldParts DEF Base, Pipes
    <3> DEFINE e == Letter(t, w.pipe.session)
    <3>2. e \in Letters /\ e.session = w.pipe.session
      BY <3>1, LetterTyped
    <3> HIDE DEF e
    <3>3. m = Append(w.mail, e)
      BY <2>2 DEF e
    <3>4. \A i \in DOMAIN m : (i \in DOMAIN w.mail /\ m[i] = w.mail[i]) \/ m[i] = e
      BY <3>1, <3>2, <3>3
    <3> QED BY <3>2, <3>4
  <2> QED BY <2>1, <2>2
<1>3. Posts(w, v)
  BY <1>1, <1>2 DEF Posts
<1>4. Dated(v)
  BY <1>1, <1>2 DEF Base, Dated
<1>5. Base(v, n)
  BY <1>1, <1>4 DEF Base, Owes, Piped, Begun
<1>6. v.pipe.built = w.pipe.built /\ v.pipe.fresh = w.pipe.fresh
      /\ v.pipe.session = w.pipe.session
  <2>1. p.built = TRUE /\ w.pipe.built = TRUE
    BY WorldParts DEF Base, Pipes
  <2>2. v.pipe = p
    BY <1>1
  <2> QED BY <2>1, <2>2
<1>7. Drives(w, v)
  BY <1>1, <1>3, <1>6, Zenon DEF Drives
<1> QED BY <1>5, <1>7

LEMMA DrivesSelf ==
  ASSUME NEW w
  PROVE  Drives(w, w)
BY DEF Drives, Posts

\* The pipeline is set going, and told to pause or to play.
LEMMA SetGoingIs ==
  ASSUME NEW n, NEW w, Base(w, n), w.pipe.built, NEW want \in {"paused", "playing"}
  PROVE  LET v == SetGoing([w EXCEPT !.pipe.want = want])
         IN  Base(v, n) /\ Drives(w, v)
<1> DEFINE p == [w.pipe EXCEPT !.want = want, !.at = "prerolling"]
           m == IF w.pipe.seekable THEN Append(w.mail, Letter(Start, w.pipe.session))
                ELSE w.mail
           v == SetGoing([w EXCEPT !.pipe.want = want])
<1>1. w.pipe \in Pipes /\ w.mail \in Seq(Letters) /\ w.bus \in Seq(Messages)
  BY WorldParts DEF Base
<1>2. /\ p \in Pipes /\ p.built /\ p.fresh = w.pipe.fresh /\ p.session = w.pipe.session
      /\ p.at = "prerolling"
  BY <1>1 DEF Pipes
<1>3. Letter(Start, w.pipe.session) \in Letters
  BY <1>1, LetterTyped, PlayerAssumption DEF Pipes
<1>4. m \in Seq(Letters)
  BY <1>1, <1>3
<1>5. m = w.mail \/ \E t \in Targets : m = Append(w.mail, Letter(t, w.pipe.session))
  BY PlayerAssumption
<1>6. v = [w EXCEPT !.pipe = p, !.bus = w.bus, !.mail = m]
  <2> DEFINE u == [w EXCEPT !.pipe.want = want]
  <2>1. v = [u EXCEPT !.pipe.at = "prerolling",
                      !.mail = IF u.pipe.seekable
                               THEN Append(@, Letter(Start, u.pipe.session)) ELSE @]
    BY DEF SetGoing
  <2>2. u.pipe = [w.pipe EXCEPT !.want = want] /\ u.mail = w.mail
        /\ u.pipe.seekable = w.pipe.seekable /\ u.pipe.session = w.pipe.session
    BY <1>1, WorldParts DEF Base, Pipes
  <2>3. v = [u EXCEPT !.pipe.at = "prerolling", !.mail = m]
    BY <2>1, <2>2
  <2> QED BY <1>1, <2>3, WorldParts DEF Base, Pipes
<1> HIDE DEF p, m, v
<1>7. Base(v, n) /\ Drives(w, v)
  BY <1>1, <1>2, <1>4, <1>5, <1>6, Driven
<1> QED BY <1>7 DEF v

LEMMA PipePauseIs ==
  ASSUME NEW n, NEW w, Base(w, n)
  PROVE  Base(PipePause(w), n) /\ Drives(w, PipePause(w))
<1>1. CASE ~w.pipe.built
  BY <1>1, DrivesSelf DEF PipePause
<1>2. CASE w.pipe.built /\ w.pipe.at = "ready"
  BY <1>2, WorldParts, SetGoingIs DEF PipePause, Base, Pipes
<1>3. CASE w.pipe.built /\ w.pipe.at # "ready"
  <2> DEFINE p == [w.pipe EXCEPT !.want = "paused",
                                 !.at = IF @ = "playing" THEN "paused" ELSE @]
             v == PipePause(w)
  <2>1. w.pipe \in Pipes /\ w.mail \in Seq(Letters) /\ w.bus \in Seq(Messages)
    BY WorldParts DEF Base
  <2>2. /\ p \in Pipes /\ p.built /\ p.fresh = w.pipe.fresh /\ p.session = w.pipe.session
        /\ p.fresh => p.at \in {"ready", "prerolling"}
    BY <1>3, <2>1 DEF Pipes, Base, Piped
  <2>3. v = [w EXCEPT !.pipe = p, !.bus = w.bus, !.mail = w.mail]
    BY <1>3, <2>1, WorldParts DEF PipePause, Base, Pipes
  <2> HIDE DEF p, v
  <2>4. Base(v, n) /\ Drives(w, v)
    BY <1>3, <2>1, <2>2, <2>3, Driven
  <2> QED BY <2>4 DEF v
<1> QED BY <1>1, <1>2, <1>3

LEMMA PipePlayIs ==
  ASSUME NEW n, NEW w, Base(w, n)
  PROVE  Base(PipePlay(w), n) /\ Drives(w, PipePlay(w))
<1>1. CASE ~w.pipe.built
  BY <1>1, DrivesSelf DEF PipePlay
<1>2. CASE w.pipe.built /\ w.pipe.at = "ready"
  BY <1>2, WorldParts, SetGoingIs DEF PipePlay, Base, Pipes
<1>3. CASE w.pipe.built /\ w.pipe.at # "ready"
  <2> DEFINE p == [w.pipe EXCEPT !.want = "playing",
                                 !.at = IF @ = "paused" THEN "playing" ELSE @]
             b == IF w.pipe.at = "paused" THEN Append(w.bus, "playing") ELSE w.bus
             v == PipePlay(w)
  <2>1. w.pipe \in Pipes /\ w.mail \in Seq(Letters) /\ w.bus \in Seq(Messages)
    BY WorldParts DEF Base
  <2>2. /\ p \in Pipes /\ p.built /\ p.fresh = w.pipe.fresh /\ p.session = w.pipe.session
        /\ p.fresh => p.at \in {"ready", "prerolling"} /\ b = w.bus
    BY <1>3, <2>1 DEF Pipes, Base, Piped
  <2>3. b \in Seq(Messages)
    BY <2>1 DEF Messages
  <2>4. v = [w EXCEPT !.pipe = p, !.bus = b, !.mail = w.mail]
    BY <1>3, <2>1, WorldParts DEF PipePlay, Base, Pipes
  <2> HIDE DEF p, b, v
  <2>5. Base(v, n) /\ Drives(w, v)
    BY <1>3, <2>1, <2>2, <2>3, <2>4, Driven
  <2> QED BY <2>5 DEF v
<1> QED BY <1>1, <1>2, <1>3

LEMMA PipeSeekIs ==
  ASSUME NEW n, NEW w, Base(w, n), NEW t \in Targets
  PROVE  Base(PipeSeek(w, t), n) /\ Drives(w, PipeSeek(w, t))
<1>1. CASE w.pipe.at = "ready" \/ ~w.pipe.seekable
  BY <1>1, DrivesSelf DEF PipeSeek
<1>2. CASE w.pipe.at # "ready" /\ w.pipe.seekable
  <2> DEFINE p == [w.pipe EXCEPT !.at = "prerolling", !.segment = t]
             m == Append(w.mail, Letter(t, w.pipe.session))
             v == PipeSeek(w, t)
  <2>1. w.pipe \in Pipes /\ w.mail \in Seq(Letters) /\ w.bus \in Seq(Messages)
    BY WorldParts DEF Base
  <2>2. /\ w.pipe.built
        /\ p \in Pipes /\ p.built /\ p.fresh = w.pipe.fresh /\ p.session = w.pipe.session
        /\ p.at = "prerolling"
    BY <1>2, <2>1 DEF Pipes, Base, Piped
  <2>3. Letter(t, w.pipe.session) \in Letters
    BY <2>1, LetterTyped DEF Pipes
  <2>4. m \in Seq(Letters)
    BY <2>1, <2>3
  <2>5. v = [w EXCEPT !.pipe = p, !.bus = w.bus, !.mail = m]
    BY <1>2, <2>1, WorldParts DEF PipeSeek, Base, Pipes
  <2>6. \E k \in Targets : m = Append(w.mail, Letter(k, w.pipe.session))
    OBVIOUS
  <2> HIDE DEF p, m, v
  <2>7. Base(v, n) /\ Drives(w, v)
    BY <2>1, <2>2, <2>4, <2>5, <2>6, Driven
  <2> QED BY <2>7 DEF v
<1> QED BY <1>1, <1>2

-----------------------------------------------------------------------------
(* The pump, the policy and the members of the player                      *)

\* From w to v only the pump is commanded and the policy asked.
Commands(w, v) ==
  v.player = w.player /\ v.pipe = w.pipe /\ v.bus = w.bus /\ v.mail = w.mail

\* From w to v the player only notes something, in the same playback.
Notes(w, v) ==
  /\ v.pipe = w.pipe /\ v.bus = w.bus /\ v.pump = w.pump /\ v.mail = w.mail
  /\ v.policy = w.policy
  /\ v.player.session = w.player.session /\ v.player.dual = w.player.dual
  /\ v.player.seekable = w.player.seekable

LEMMA PumpSet ==
  ASSUME NEW n, NEW w, Base(w, n), NEW q \in Pumps, q.session <= w.player.session,
         NEW v, v = [w EXCEPT !.pump = q]
  PROVE  Base(v, n) /\ Commands(w, v)
<1>1. /\ v \in Worlds /\ v.pump = q /\ v.player = w.player /\ v.pipe = w.pipe
      /\ v.bus = w.bus /\ v.mail = w.mail
  BY DEF Base, Worlds
<1> QED BY <1>1 DEF Base, Owes, Piped, Dated, Begun, Commands

LEMMA PolicySet ==
  ASSUME NEW n, NEW w, Base(w, n), NEW q \in Policies, NEW v, v = [w EXCEPT !.policy = q]
  PROVE  Base(v, n) /\ Commands(w, v)
<1>1. /\ v \in Worlds /\ v.pump = w.pump /\ v.player = w.player /\ v.pipe = w.pipe
      /\ v.bus = w.bus /\ v.mail = w.mail
  BY DEF Base, Worlds
<1> QED BY <1>1 DEF Base, Owes, Piped, Dated, Begun, Commands

LEMMA CommandsSelf ==
  ASSUME NEW w
  PROVE  Commands(w, w)
BY DEF Commands

LEMMA CloseAllIs ==
  ASSUME NEW n, NEW w, Base(w, n)
  PROVE  Base(CloseAll(w), n) /\ Commands(w, CloseAll(w))
<1>1. ClosedPump \in Pumps /\ ClosedPump.session = 0
  BY PlaysAre DEF ClosedPump, Pumps
<1>2. 0 <= w.player.session
  BY WorldParts, PlaysAre DEF Base, Players
<1>3. CloseAll(w) = [w EXCEPT !.pump = ClosedPump]
  BY DEF CloseAll
<1> QED BY <1>1, <1>2, <1>3, PumpSet

LEMMA SeekDualToIs ==
  ASSUME NEW n, NEW w, Base(w, n), NEW t \in Targets
  PROVE  Base(SeekDualTo(w, t), n) /\ Commands(w, SeekDualTo(w, t))
<1> DEFINE q == [w.pump EXCEPT !.anchor = t, !.hold = "filling", !.ended = {}]
           v == [w EXCEPT !.pump = q]
<1>1. w.pump \in Pumps /\ w.pump.session <= w.player.session
  BY WorldParts DEF Base, Dated
<1>2. q \in Pumps /\ q.session = w.pump.session
  BY <1>1 DEF Pumps
<1>3. SeekDualTo(w, t) = w \/ SeekDualTo(w, t) = v
  <2>1. v = [w EXCEPT !.pump.anchor = t, !.pump.hold = "filling", !.pump.ended = {}]
    BY <1>1, WorldParts DEF Base
  <2> HIDE DEF v
  <2> QED BY <2>1 DEF SeekDualTo
<1> HIDE DEF q
<1>4. Base(v, n) /\ Commands(w, v)
  BY <1>1, <1>2, PumpSet
<1> QED BY <1>3, <1>4, CommandsSelf

LEMMA SeekBytesIs ==
  ASSUME NEW n, NEW w, Base(w, n), NEW t \in Targets
  PROVE  Base(SeekBytes(w, t), n) /\ Commands(w, SeekBytes(w, t))
<1> DEFINE q == [w.pump EXCEPT !.anchor = t, !.ended = {}]
           v == [w EXCEPT !.pump = q]
<1>1. w.pump \in Pumps /\ w.pump.session <= w.player.session
  BY WorldParts DEF Base, Dated
<1>2. q \in Pumps /\ q.session = w.pump.session
  BY <1>1 DEF Pumps
<1>3. SeekBytes(w, t) = w \/ SeekBytes(w, t) = v
  <2>1. v = [w EXCEPT !.pump.anchor = t, !.pump.ended = {}]
    BY <1>1, WorldParts DEF Base
  <2> HIDE DEF v
  <2> QED BY <2>1 DEF SeekBytes
<1> HIDE DEF q
<1>4. Base(v, n) /\ Commands(w, v)
  BY <1>1, <1>2, PumpSet
<1> QED BY <1>3, <1>4, CommandsSelf

LEMMA AcquireIs ==
  ASSUME NEW n, NEW w, Base(w, n)
  PROVE  Base(Acquire(w), n) /\ Commands(w, Acquire(w))
<1>1. [acquired |-> TRUE, manager |-> "asked"] \in Policies
  BY DEF Policies
<1>2. Acquire(w) = [w EXCEPT !.policy = [acquired |-> TRUE, manager |-> "asked"]]
  BY DEF Acquire
<1> QED BY <1>1, <1>2, PolicySet

LEMMA ReleaseIs ==
  ASSUME NEW n, NEW w, Base(w, n)
  PROVE  Base(Release(w), n) /\ Commands(w, Release(w))
<1> DEFINE q == [acquired |-> FALSE,
                 manager |-> IF w.policy.acquired THEN "free" ELSE w.policy.manager]
<1>1. w.policy \in Policies
  BY WorldParts DEF Base
<1>2. q \in Policies
  BY <1>1 DEF Policies
<1>3. Release(w) = [w EXCEPT !.policy = q]
  BY <1>1, WorldParts DEF Release, Base
<1> HIDE DEF q
<1> QED BY <1>2, <1>3, PolicySet

LEMMA PlayerSet ==
  ASSUME NEW n, NEW w, Base(w, n), NEW p \in Players, p.session = w.player.session,
         p.pending # NoPlay => p.state \in {"Loading", "Buffering", "Paused"},
         p.session + (IF p.pending = NoPlay THEN 0 ELSE 1) <= n,
         NEW v, v = [w EXCEPT !.player = p]
  PROVE  /\ Base(v, n) /\ v.player = p /\ v.pipe = w.pipe /\ v.bus = w.bus
         /\ v.pump = w.pump /\ v.mail = w.mail /\ v.policy = w.policy
<1>1. /\ v \in Worlds /\ v.player = p /\ v.pipe = w.pipe /\ v.bus = w.bus
      /\ v.pump = w.pump /\ v.mail = w.mail /\ v.policy = w.policy
  BY PlayerWorld DEF Base
<1> QED BY <1>1 DEF Base, Owes, Piped, Dated, Begun

LEMMA SetPhaseIs ==
  ASSUME NEW n, NEW w, Base(w, n), NEW phase \in Phases
  PROVE  LET v == SetPhase(w, phase)
         IN  /\ Base(v, n) /\ Notes(w, v)
             /\ v.player.state = w.player.state /\ v.player.pending = w.player.pending
<1> DEFINE p == [w.player EXCEPT !.phase = phase]
           v == SetPhase(w, phase)
<1>1. w.player \in Players
  BY WorldParts DEF Base
<1>2. /\ p \in Players /\ p.session = w.player.session /\ p.dual = w.player.dual
      /\ p.seekable = w.player.seekable /\ p.state = w.player.state
      /\ p.pending = w.player.pending
  BY <1>1 DEF Players
<1>3. v = [w EXCEPT !.player = p]
  BY <1>1, WorldParts DEF SetPhase, Base
<1>4. /\ p.pending # NoPlay => p.state \in {"Loading", "Buffering", "Paused"}
      /\ p.session + (IF p.pending = NoPlay THEN 0 ELSE 1) <= n
  BY <1>2 DEF Base, Owes, Begun
<1> HIDE DEF p, v
<1>5. /\ Base(v, n) /\ v.player = p /\ v.pipe = w.pipe /\ v.bus = w.bus
      /\ v.pump = w.pump /\ v.mail = w.mail /\ v.policy = w.policy
  BY <1>2, <1>3, <1>4, PlayerSet
<1>6. Notes(w, v)
  BY <1>2, <1>5 DEF Notes
<1> QED BY <1>2, <1>5, <1>6 DEF v

-----------------------------------------------------------------------------
(* The states, and the next playback                                       *)

Busy == {"Loading", "Buffering", "Paused"}

\* From w to v the next playback begins: nothing is left of the pipeline.
Begins(w, v, kind) ==
  /\ v.player.state = "Loading" /\ v.player.pending = NoPlay
  /\ v.player.session = w.player.session + 1 /\ v.player.dual = (kind = "dual")
  /\ v.player.seekable = w.player.seekable
  /\ ~v.pipe.built /\ v.pipe.session = w.pipe.session /\ v.mail = w.mail

\* From w to v the player stops.
Halts(w, v) ==
  /\ v.player.session = w.player.session /\ v.player.dual = w.player.dual
  /\ v.player.seekable = w.player.seekable
  /\ ~v.pipe.built /\ v.pipe.session = w.pipe.session /\ v.mail = w.mail

LEMMA EnterStateIs ==
  ASSUME NEW n, NEW w, Base(w, n), NEW s \in States, w.player.pending # NoPlay => s \in Busy
  PROVE  LET v == EnterState(w, s)
         IN  /\ Base(v, n) /\ Notes(w, v)
             /\ v.player.state = s /\ v.player.pending = w.player.pending
<1> DEFINE p == [w.player EXCEPT !.state = s,
                                 !.phase = IF s = "Playing" THEN "NoPhase" ELSE @]
           v == EnterState(w, s)
<1>1. w.player \in Players
  BY WorldParts DEF Base
<1>2. CASE w.player.state = s
  BY <1>2 DEF EnterState, Notes
<1>3. CASE w.player.state # s
  <2>1. /\ p \in Players /\ p.session = w.player.session /\ p.dual = w.player.dual
        /\ p.seekable = w.player.seekable /\ p.state = s
        /\ p.pending = w.player.pending
    BY <1>1 DEF Players, Phases
  <2>2. v = [w EXCEPT !.player = p]
    BY <1>1, <1>3, WorldParts DEF EnterState, Base
  <2>3. /\ p.pending # NoPlay => p.state \in {"Loading", "Buffering", "Paused"}
        /\ p.session + (IF p.pending = NoPlay THEN 0 ELSE 1) <= n
    BY <2>1 DEF Base, Owes, Begun, Busy
  <2> HIDE DEF p, v
  <2>4. /\ Base(v, n) /\ v.player = p /\ v.pipe = w.pipe /\ v.bus = w.bus
        /\ v.pump = w.pump /\ v.mail = w.mail /\ v.policy = w.policy
    BY <2>1, <2>2, <2>3, PlayerSet
  <2>5. Notes(w, v)
    BY <2>1, <2>4 DEF Notes
  <2> QED BY <2>1, <2>4, <2>5 DEF v
<1> QED BY <1>2, <1>3

LEMMA StopIs ==
  ASSUME NEW n, NEW w, Base(w, n), n \in Sessions
  PROVE  LET v == Stop(w)
         IN  /\ Base(v, n) /\ Halts(w, v)
             /\ v.player.state = "Stopped" /\ v.player.pending = NoPlay
<1> DEFINE p == [w.player EXCEPT !.pending = NoPlay, !.armed = {}, !.prebufPaused = FALSE]
           a == [w EXCEPT !.player = p]
           b == Teardown(a)
           c == CloseAll(b)
           d == Release(c)
           e == EnterState(d, "Stopped")
           v == Stop(w)
<1>1. w.player \in Players
  BY WorldParts DEF Base
<1>2. /\ p \in Players /\ p.session = w.player.session /\ p.dual = w.player.dual
      /\ p.seekable = w.player.seekable /\ p.pending = NoPlay
  BY <1>1 DEF Players, NoPlay
<1>3. p.session + (IF p.pending = NoPlay THEN 0 ELSE 1) <= n
  <2>1. w.player.session \in Nat /\ n \in Nat
    BY <1>1, PlaysAre DEF Players
  <2> QED BY <1>2, <2>1 DEF Base, Begun
<1>4. v = SetPhase(e, "NoPhase")
  <2>1. a = [w EXCEPT !.player.pending = NoPlay, !.player.armed = {},
                      !.player.prebufPaused = FALSE]
    BY <1>1, WorldParts DEF Base
  <2> HIDE DEF a
  <2> QED BY <2>1 DEF Stop
<1> HIDE DEF p
<1>5. Base(a, n) /\ a.player = p /\ a.pipe = w.pipe /\ a.mail = w.mail
  BY <1>2, <1>3, PlayerSet
<1> HIDE DEF a
<1>6. /\ Base(b, n) /\ ~b.pipe.built /\ b.pipe.session = a.pipe.session
      /\ b.player = a.player /\ b.mail = a.mail
  BY <1>5, TeardownIs
<1> HIDE DEF b
<1>7. Base(c, n) /\ Commands(b, c)
  BY <1>6, CloseAllIs
<1> HIDE DEF c
<1>8. Base(d, n) /\ Commands(c, d)
  BY <1>7, ReleaseIs
<1> HIDE DEF d
<1>9. d.player = p /\ ~d.pipe.built /\ d.pipe.session = w.pipe.session /\ d.mail = w.mail
  BY <1>5, <1>6, <1>7, <1>8 DEF Commands
<1>10. /\ Base(e, n) /\ Notes(d, e)
       /\ e.player.state = "Stopped" /\ e.player.pending = d.player.pending
  BY <1>2, <1>8, <1>9, EnterStateIs DEF States
<1> HIDE DEF e, v
<1>11. /\ Base(v, n) /\ Notes(e, v)
       /\ v.player.state = e.player.state /\ v.player.pending = e.player.pending
  BY <1>4, <1>10, SetPhaseIs DEF Phases
<1>12. Halts(w, v)
  BY <1>2, <1>9, <1>10, <1>11 DEF Notes, Halts
<1> QED BY <1>2, <1>9, <1>10, <1>11, <1>12 DEF v

\* play() and playDual(): put off while a preroll runs, else the next playback.
LEMMA PlayIs ==
  ASSUME NEW n \in Sessions, NEW w, Base(w, n), Rested(w), NEW kind \in {"single", "dual"},
         w.player.session + 1 <= n
  PROVE  LET v == Play(w, kind)
         IN  /\ Base(v, n)
             /\ \/ /\ MidPreroll(w) /\ Notes(w, v)
                   /\ v.player.state = w.player.state /\ v.player.pending = kind
                \/ ~MidPreroll(w) /\ Begins(w, v, kind)
<1> DEFINE v == Play(w, kind)
<1>0. w.player \in Players /\ w.player.session \in Nat /\ n \in Nat
  BY WorldParts, PlaysAre DEF Base, Players
<1>1. CASE MidPreroll(w)
  <2> DEFINE p == [w.player EXCEPT !.pending = kind]
  <2>1. /\ p \in Players /\ p.session = w.player.session /\ p.dual = w.player.dual
        /\ p.seekable = w.player.seekable /\ p.state = w.player.state
        /\ p.pending = kind
    BY <1>0 DEF Players
  <2>2. v = [w EXCEPT !.player = p]
    BY <1>0, <1>1, WorldParts DEF Play, Base
  <2>3. /\ p.pending # NoPlay => p.state \in {"Loading", "Buffering", "Paused"}
        /\ p.session + (IF p.pending = NoPlay THEN 0 ELSE 1) <= n
    BY <1>0, <1>1, <2>1 DEF MidPreroll
  <2> HIDE DEF p, v
  <2>4. /\ Base(v, n) /\ v.player = p /\ v.pipe = w.pipe /\ v.bus = w.bus
        /\ v.pump = w.pump /\ v.mail = w.mail /\ v.policy = w.policy
    BY <2>1, <2>2, <2>3, PlayerSet
  <2>5. Notes(w, v)
    BY <2>1, <2>4 DEF Notes
  <2> QED BY <1>1, <2>1, <2>4, <2>5 DEF v
<1>2. CASE ~MidPreroll(w)
  <2> DEFINE u == IF w.player.state \in Quiet THEN w ELSE Stop(w)
             p == [u.player EXCEPT !.dual = (kind = "dual"), !.granted = FALSE,
                                   !.seekTo = NoSeek, !.prebufPaused = FALSE,
                                   !.session = @ + 1]
             a == [u EXCEPT !.player = p]
             b == EnterState(a, "Loading")
             c == SetPhase(b, "Connecting")
  <2>1. /\ Base(u, n) /\ Halts(w, u) /\ u.player.pending = NoPlay
    <3>1. CASE w.player.state \in Quiet
      BY <3>1, <1>0 DEF Rested, Halts, Base, Owes, Quiet
    <3>2. CASE w.player.state \notin Quiet
      BY <3>2, StopIs
    <3> QED BY <3>1, <3>2
  <2>2. v = Acquire(c)
    <3>1. a = [u EXCEPT !.player.dual = (kind = "dual"), !.player.granted = FALSE,
                        !.player.seekTo = NoSeek, !.player.prebufPaused = FALSE,
                        !.player.session = @ + 1]
      BY <2>1, WorldParts DEF Base
    <3> HIDE DEF a
    <3> QED BY <1>2, <3>1 DEF Play, Quiet
  <2> HIDE DEF u
  <2>3. u.player \in Players /\ u.player.session + 1 \in Sessions
    BY <1>0, <2>1, WorldParts, PlaysAre DEF Base, Halts, Sessions
  <2>4. /\ p \in Players /\ p.session = w.player.session + 1 /\ p.dual = (kind = "dual")
        /\ p.seekable = w.player.seekable /\ p.pending = NoPlay
    <3>1. /\ p \in Players /\ p.session = u.player.session + 1 /\ p.dual = (kind = "dual")
          /\ p.seekable = u.player.seekable /\ p.pending = u.player.pending
      BY <2>3, PlayerAssumption DEF Players
    <3> QED BY <2>1, <3>1 DEF Halts
  <2> HIDE DEF p
  <2>5. /\ a \in Worlds /\ a.player = p /\ a.pipe = u.pipe /\ a.bus = u.bus
        /\ a.pump = u.pump /\ a.mail = u.mail /\ a.policy = u.policy
    BY <2>1, <2>4, PlayerWorld DEF Base
  <2> HIDE DEF a
  <2>6. Base(a, n)
    <3>1. Owes(a) /\ Piped(a) /\ Begun(a) <= n
      BY <1>0, <2>1, <2>4, <2>5 DEF Base, Owes, Piped, Begun
    <3>2. Dated(a)
      <4>1. /\ u.pipe.session <= u.player.session /\ u.pump.session <= u.player.session
            /\ \A i \in DOMAIN u.mail : u.mail[i].session <= u.player.session
        BY <2>1 DEF Base, Dated
      <4>2. /\ u.pipe.session \in Nat /\ u.pump.session \in Nat
            /\ \A i \in DOMAIN u.mail : u.mail[i].session \in Nat
        <5>1. u.pipe \in Pipes /\ u.pump \in Pumps /\ u.mail \in Seq(Letters)
          BY <2>1, WorldParts DEF Base
        <5>2. \A i \in DOMAIN u.mail : u.mail[i] \in Letters
          BY <5>1
        <5> QED BY <5>1, <5>2, PlaysAre DEF Pipes, Pumps, Letters
      <4>3. p.session = u.player.session + 1 /\ u.player.session \in Nat
        BY <1>0, <2>1, <2>4 DEF Halts
      <4> QED BY <2>5, <4>1, <4>2, <4>3 DEF Dated
    <3> QED BY <2>5, <3>1, <3>2 DEF Base
  <2>7. /\ Base(b, n) /\ Notes(a, b)
        /\ b.player.state = "Loading" /\ b.player.pending = a.player.pending
    BY <2>4, <2>5, <2>6, EnterStateIs DEF States
  <2> HIDE DEF b
  <2>8. /\ Base(c, n) /\ Notes(b, c)
        /\ c.player.state = b.player.state /\ c.player.pending = b.player.pending
    BY <2>7, SetPhaseIs DEF Phases
  <2> HIDE DEF c, v
  <2>9. Base(v, n) /\ Commands(c, v)
    BY <2>2, <2>8, AcquireIs
  <2>10. Begins(w, v, kind)
    BY <2>1, <2>4, <2>5, <2>7, <2>8, <2>9 DEF Commands, Notes, Halts, Begins
  <2> QED BY <1>2, <2>9, <2>10 DEF v
<1> QED BY <1>1, <1>2

\* setState(): the state is shown, or the switch that was put off is made.
LEMMA SetStateIs ==
  ASSUME NEW n \in Sessions, NEW w, Base(w, n), NEW s \in States,
         s # "Idle", s # "Loading", s \in {"Stopped", "Error"} => ~w.pipe.built
  PROVE  LET v == SetState(w, s)
         IN  /\ Base(v, n)
             /\ \/ /\ Notes(w, v) /\ v.player.state = s
                   /\ v.player.pending = w.player.pending
                \/ /\ s \in {"Playing", "Stopped", "Error"}
                   /\ w.player.pending # NoPlay /\ Begins(w, v, w.player.pending)
<1> DEFINE v == SetState(w, s)
           due == {"Playing", "Stopped", "Error"}
           p == [w.player EXCEPT !.state = s,
                                 !.phase = IF s = "Playing" THEN "NoPhase" ELSE @]
           q == [p EXCEPT !.pending = NoPlay]
           x == [w EXCEPT !.player = q]
<1>0. w.player \in Players /\ w.player.session \in Nat /\ n \in Nat
  BY WorldParts, PlaysAre DEF Base, Players
<1>1. CASE w.player.state = s \/ w.player.pending = NoPlay \/ s \notin due
  <2> DEFINE e == EnterState(w, s)
  <2>1. v = e
    <3>1. CASE w.player.state = s \/ s \notin due
      BY <3>1 DEF SetState
    <3>2. CASE w.player.pending = NoPlay
      <4>1. e.player.pending = NoPlay
        BY <3>2, EnterStateIs
      <4> HIDE DEF e
      <4> QED BY <4>1 DEF SetState, e
    <3> QED BY <1>1, <3>1, <3>2
  <2>2. w.player.pending # NoPlay => s \in Busy
    BY <1>1 DEF Base, Owes, Busy, States
  <2> HIDE DEF e, v
  <2>3. /\ Base(e, n) /\ Notes(w, e) /\ e.player.state = s
        /\ e.player.pending = w.player.pending
    BY <2>2, EnterStateIs DEF e
  <2> QED BY <2>1, <2>3 DEF v
<1>2. CASE w.player.state # s /\ w.player.pending # NoPlay /\ s \in due
  <2>1. /\ p \in Players /\ p.pending = w.player.pending
        /\ q \in Players /\ q.session = w.player.session /\ q.dual = w.player.dual
        /\ q.seekable = w.player.seekable /\ q.state = s /\ q.pending = NoPlay
    BY <1>0 DEF Players, Phases, NoPlay
  <2>2. EnterState(w, s) = [w EXCEPT !.player = p]
    BY <1>0, <1>2, WorldParts DEF EnterState, Base
  <2>3. [w EXCEPT !.player = p].player = p
    BY <2>1, PlayerWorld DEF Base
  <2>4. x = [[w EXCEPT !.player = p] EXCEPT !.player.pending = NoPlay]
    BY <2>1, <2>3, WorldParts DEF Base
  <2>5. v = Play(x, w.player.pending)
    <3> DEFINE e == [w EXCEPT !.player = p]
    <3>1. e.player.pending = w.player.pending
      BY <2>1, <2>3
    <3>2. x = [e EXCEPT !.player.pending = NoPlay]
      BY <2>4
    <3>3. EnterState(w, s) = e
      BY <2>2
    <3> HIDE DEF e, x, p, q
    <3> QED BY <1>2, <3>1, <3>2, <3>3 DEF SetState
  <2>6. q.session + (IF q.pending = NoPlay THEN 0 ELSE 1) <= n /\ q.session + 1 <= n
    BY <1>0, <1>2, <2>1 DEF Base, Begun
  <2>7. w.player.pending \in {"single", "dual"}
    BY <1>0, <1>2 DEF Players, NoPlay
  <2> HIDE DEF p, q
  <2>8. /\ Base(x, n) /\ x.player = q /\ x.pipe = w.pipe /\ x.mail = w.mail
    BY <2>1, <2>6, PlayerSet
  <2> HIDE DEF x, v
  <2>9. ~MidPreroll(x) /\ Rested(x)
    BY <1>2, <2>1, <2>8 DEF MidPreroll, Rested, Quiet
  <2>10. Base(v, n) /\ Begins(x, v, w.player.pending)
    BY <2>1, <2>5, <2>6, <2>7, <2>8, <2>9, PlayIs
  <2>11. Begins(w, v, w.player.pending)
    BY <2>1, <2>8, <2>10 DEF Begins
  <2> QED BY <1>2, <2>10, <2>11 DEF v
<1> QED BY <1>1, <1>2

\* An end without a pipeline: teardown, closeAll(), release and a state to rest in.
Resting(w, s) == SetState(Release(CloseAll(Teardown(w))), s)

LEMMA RestingIs ==
  ASSUME NEW n \in Sessions, NEW w, Base(w, n), NEW s \in {"Stopped", "Error"}
  PROVE  LET v == Resting(w, s)
         IN  /\ Base(v, n)
             /\ \/ Halts(w, v) /\ v.player.state = s
                \/ w.player.pending # NoPlay /\ Begins(w, v, w.player.pending)
<1> DEFINE b == Teardown(w)
           c == CloseAll(b)
           d == Release(c)
           v == SetState(d, s)
<1>1. /\ Base(b, n) /\ ~b.pipe.built /\ b.pipe.session = w.pipe.session
      /\ b.player = w.player /\ b.mail = w.mail
  BY TeardownIs
<1> HIDE DEF b
<1>2. Base(c, n) /\ Commands(b, c)
  BY <1>1, CloseAllIs
<1> HIDE DEF c
<1>3. Base(d, n) /\ Commands(c, d)
  BY <1>2, ReleaseIs
<1> HIDE DEF d
<1>4. d.player = w.player /\ ~d.pipe.built /\ d.pipe.session = w.pipe.session
      /\ d.mail = w.mail
  BY <1>1, <1>2, <1>3 DEF Commands
<1>5. /\ Base(v, n)
      /\ \/ Notes(d, v) /\ v.player.state = s
         \/ d.player.pending # NoPlay /\ Begins(d, v, d.player.pending)
  BY <1>3, <1>4, SetStateIs DEF States
<1>6. v = Resting(w, s)
  BY DEF Resting, b, c, d
<1> HIDE DEF v
<1>7. Notes(d, v) => Halts(w, v)
  BY <1>4 DEF Notes, Halts
<1>8. Begins(d, v, d.player.pending) => Begins(w, v, w.player.pending)
  BY <1>4 DEF Begins
<1>9. d.player.pending = w.player.pending
  BY <1>4
<1> QED BY <1>5, <1>6, <1>7, <1>8, <1>9

LEMMA FailIs ==
  ASSUME NEW n \in Sessions, NEW w, Base(w, n)
  PROVE  LET v == Fail(w)
         IN  /\ Base(v, n)
             /\ \/ Halts(w, v) /\ v.player.state = "Error"
                \/ w.player.pending # NoPlay /\ Begins(w, v, w.player.pending)
<1> DEFINE p == [w.player EXCEPT !.armed = {}, !.prebufPaused = FALSE]
           a == [w EXCEPT !.player = p]
           b == SetPhase(a, "NoPhase")
           v == Fail(w)
<1>1. w.player \in Players
  BY WorldParts DEF Base
<1>2. /\ p \in Players /\ p.session = w.player.session /\ p.dual = w.player.dual
      /\ p.seekable = w.player.seekable /\ p.state = w.player.state
      /\ p.pending = w.player.pending
  BY <1>1 DEF Players
<1>3. /\ p.pending # NoPlay => p.state \in {"Loading", "Buffering", "Paused"}
      /\ p.session + (IF p.pending = NoPlay THEN 0 ELSE 1) <= n
  BY <1>2 DEF Base, Owes, Begun
<1>4. v = Resting(b, "Error")
  <2>1. a = [w EXCEPT !.player.armed = {}, !.player.prebufPaused = FALSE]
    BY <1>1, WorldParts DEF Base
  <2> HIDE DEF a
  <2> QED BY <2>1 DEF Fail, Resting
<1> HIDE DEF p
<1>5. /\ Base(a, n) /\ a.player = p /\ a.pipe = w.pipe /\ a.mail = w.mail
  BY <1>2, <1>3, PlayerSet
<1> HIDE DEF a
<1>6. Base(b, n) /\ Notes(a, b) /\ b.player.pending = a.player.pending
  BY <1>5, SetPhaseIs DEF Phases
<1> HIDE DEF b, v
<1>7. /\ Base(v, n)
      /\ \/ Halts(b, v) /\ v.player.state = "Error"
         \/ b.player.pending # NoPlay /\ Begins(b, v, b.player.pending)
  BY <1>4, <1>6, RestingIs
<1>8. /\ b.player.session = w.player.session /\ b.player.dual = w.player.dual
      /\ b.player.seekable = w.player.seekable /\ b.player.pending = w.player.pending
      /\ b.pipe = w.pipe /\ b.mail = w.mail
  BY <1>2, <1>5, <1>6 DEF Notes
<1>9. Halts(b, v) => Halts(w, v)
  BY <1>8 DEF Halts
<1>10. Begins(b, v, b.player.pending) => Begins(w, v, w.player.pending)
  BY <1>8 DEF Begins
<1> QED BY <1>7, <1>8, <1>9, <1>10 DEF v

-----------------------------------------------------------------------------
(* The startup gate and the seeks                                          *)

\* From w to v the playback stays the same, and so does the pipeline's place in it.
Moves(w, v) ==
  /\ v.player.session = w.player.session /\ v.player.dual = w.player.dual
  /\ v.player.seekable = w.player.seekable /\ v.player.pending = w.player.pending
  /\ v.pipe.built = w.pipe.built /\ v.pipe.fresh = w.pipe.fresh
  /\ v.pipe.session = w.pipe.session
  /\ Posts(w, v)

Goes(w, v) == Moves(w, v) /\ v.player.state = w.player.state

LEMMA MovesOn ==
  ASSUME NEW u, NEW w, NEW v, Moves(u, w), Moves(w, v)
  PROVE  Moves(u, v)
<1>1. Posts(u, v)
  BY DEF Moves, Posts
<1> QED BY <1>1 DEF Moves

LEMMA DrivesMoves ==
  ASSUME NEW w, NEW v, Drives(w, v)
  PROVE  Goes(w, v)
BY DEF Drives, Goes, Moves

LEMMA NotesMoves ==
  ASSUME NEW w, NEW v, Notes(w, v), v.player.pending = w.player.pending
  PROVE  Moves(w, v)
BY DEF Notes, Moves, Posts

LEMMA CommandsMoves ==
  ASSUME NEW w, NEW v, Commands(w, v)
  PROVE  Goes(w, v)
BY DEF Commands, Goes, Moves, Posts

\* A note among the members that no lemma tells apart.
LEMMA Noted ==
  ASSUME NEW n, NEW w, Base(w, n), NEW p \in Players, p.session = w.player.session,
         p.dual = w.player.dual, p.pending = w.player.pending, p.state = w.player.state,
         NEW v, v = [w EXCEPT !.player = p]
  PROVE  /\ Base(v, n) /\ v.player = p /\ v.pipe = w.pipe /\ v.bus = w.bus
         /\ v.mail = w.mail /\ v.pump = w.pump /\ v.policy = w.policy
         /\ p.seekable = w.player.seekable => Goes(w, v)
<1>1. /\ p.pending # NoPlay => p.state \in {"Loading", "Buffering", "Paused"}
      /\ p.session + (IF p.pending = NoPlay THEN 0 ELSE 1) <= n
  BY DEF Base, Owes, Begun
<1>2. /\ Base(v, n) /\ v.player = p /\ v.pipe = w.pipe /\ v.bus = w.bus
      /\ v.pump = w.pump /\ v.mail = w.mail /\ v.policy = w.policy
  BY <1>1, PlayerSet
<1> QED BY <1>2 DEF Goes, Moves, Posts

LEMMA GateOpens ==
  ASSUME NEW n, NEW w, Base(w, n)
  PROVE  Base(UpdateStartupGate(w), n) /\ Goes(w, UpdateStartupGate(w))
<1> DEFINE p == [w.player EXCEPT !.armed = {}]
           a == [w EXCEPT !.player = p]
           v == PipePlay(a)
<1>1. w.player \in Players
  BY WorldParts DEF Base
<1>2. /\ p \in Players /\ p.session = w.player.session /\ p.dual = w.player.dual
      /\ p.pending = w.player.pending /\ p.state = w.player.state
      /\ p.seekable = w.player.seekable
  BY <1>1 DEF Players
<1>3. UpdateStartupGate(w) = w \/ UpdateStartupGate(w) = v
  <2>1. a = [w EXCEPT !.player.armed = {}]
    BY <1>1, WorldParts DEF Base
  <2> HIDE DEF a
  <2> QED BY <2>1 DEF UpdateStartupGate
<1> HIDE DEF p
<1>4. Base(a, n) /\ Goes(w, a)
  BY <1>2, Noted
<1> HIDE DEF a
<1>5. Base(v, n) /\ Goes(a, v)
  BY <1>4, PipePlayIs, DrivesMoves
<1>6. Goes(w, v)
  BY <1>4, <1>5, MovesOn DEF Goes
<1>7. Goes(w, w)
  BY CommandsSelf, CommandsMoves
<1> QED BY <1>3, <1>5, <1>6, <1>7

LEMMA StartOrGateIs ==
  ASSUME NEW n \in Sessions, NEW w, Base(w, n)
  PROVE  LET v == StartOrGate(w)
         IN  Base(v, n) /\ Moves(w, v) /\ v.player.state = "Buffering"
<1> DEFINE a == IF w.player.armed # {} THEN PipePause(w) ELSE PipePlay(w)
           b == SetState(a, "Buffering")
           c == SetPhase(b, "Buffering_")
           v == UpdateStartupGate(c)
<1>1. Base(a, n) /\ Goes(w, a)
  BY PipePauseIs, PipePlayIs, DrivesMoves
<1>2. v = StartOrGate(w)
  BY DEF StartOrGate
<1> HIDE DEF a
<1>3. Base(b, n) /\ Moves(a, b) /\ b.player.state = "Buffering"
  <2>1. /\ Base(b, n) /\ Notes(a, b) /\ b.player.state = "Buffering"
        /\ b.player.pending = a.player.pending
    BY <1>1, SetStateIs DEF States
  <2> QED BY <2>1, NotesMoves
<1> HIDE DEF b
<1>4. Base(c, n) /\ Moves(b, c) /\ c.player.state = b.player.state
  BY <1>3, SetPhaseIs, NotesMoves DEF Phases
<1> HIDE DEF c
<1>5. Base(v, n) /\ Goes(c, v)
  BY <1>4, GateOpens
<1> HIDE DEF v
<1>6. Moves(w, v) /\ v.player.state = "Buffering"
  BY <1>1, <1>3, <1>4, <1>5, MovesOn DEF Goes
<1> QED BY <1>2, <1>5, <1>6

LEMMA GateIs ==
  ASSUME NEW n, NEW w, Base(w, n), NEW l \in Lanes, NEW m \in Letters
  PROVE  Base(Gate(w, l, m), n) /\ Goes(w, Gate(w, l, m))
<1> DEFINE armed == IF l \in m.target THEN w.player.armed \cup {l} ELSE w.player.armed \ {l}
           full == IF l \in m.full THEN w.player.full \cup {l} ELSE w.player.full \ {l}
           p == [w.player EXCEPT !.armed = armed, !.full = full]
           v == Gate(w, l, m)
<1>1. w.player \in Players
  BY WorldParts DEF Base
<1>2. armed \subseteq Lanes /\ full \subseteq Lanes
  BY <1>1 DEF Players
<1>3. v = [w EXCEPT !.player.armed = armed, !.player.full = full]
  BY <1>1, WorldParts DEF Gate, Base, Players
<1> HIDE DEF armed, full
<1>4. /\ p \in Players /\ p.session = w.player.session /\ p.dual = w.player.dual
      /\ p.pending = w.player.pending /\ p.state = w.player.state
      /\ p.seekable = w.player.seekable
  BY <1>1, <1>2 DEF Players
<1>5. v = [w EXCEPT !.player = p]
  BY <1>1, <1>3, WorldParts DEF Base
<1> HIDE DEF p, v
<1>6. Base(v, n) /\ Goes(w, v)
  BY <1>4, <1>5, Noted
<1> QED BY <1>6 DEF v

LEMMA DoRawSeekIs ==
  ASSUME NEW n \in Sessions, NEW w, Base(w, n), NEW t \in Targets
  PROVE  LET v == DoRawSeek(w, t)
         IN  /\ Base(v, n) /\ Moves(w, v)
             /\ v.player.state = w.player.state
                \/ (w.player.state = "Playing" /\ v.player.state = "Buffering")
<1> DEFINE p == [w.player EXCEPT !.seekTo = t]
           a == [w EXCEPT !.player = p]
           b == PipeSeek(a, t)
           c == SetState(b, "Buffering")
           d == SetPhase(c, "Seeking")
           v == DoRawSeek(w, t)
<1>1. w.player \in Players
  BY WorldParts DEF Base
<1>2. /\ p \in Players /\ p.session = w.player.session /\ p.dual = w.player.dual
      /\ p.pending = w.player.pending /\ p.state = w.player.state
      /\ p.seekable = w.player.seekable
  BY <1>1 DEF Players
<1>3. v = w \/ v = b \/ (v = d /\ w.player.state = "Playing")
  <2>1. a = [w EXCEPT !.player.seekTo = t]
    BY <1>1, WorldParts DEF Base
  <2> HIDE DEF a
  <2> QED BY <2>1 DEF DoRawSeek
<1> HIDE DEF p
<1>4. Base(a, n) /\ Goes(w, a)
  BY <1>2, Noted
<1> HIDE DEF a
<1>5. Base(b, n) /\ Goes(a, b)
  BY <1>4, PipeSeekIs, DrivesMoves
<1> HIDE DEF b
<1>6. Base(c, n) /\ Moves(b, c) /\ c.player.state = "Buffering"
  <2>1. /\ Base(c, n) /\ Notes(b, c) /\ c.player.state = "Buffering"
        /\ c.player.pending = b.player.pending
    BY <1>5, SetStateIs DEF States
  <2> QED BY <2>1, NotesMoves
<1> HIDE DEF c
<1>7. Base(d, n) /\ Moves(c, d) /\ d.player.state = c.player.state
  BY <1>6, SetPhaseIs, NotesMoves DEF Phases
<1> HIDE DEF d, v
<1>8. Goes(w, w) /\ Goes(w, b) /\ Moves(w, d)
  BY <1>4, <1>5, <1>6, <1>7, MovesOn, CommandsSelf, CommandsMoves DEF Goes
<1>9. v = w \/ v = b \/ v = d => Base(v, n) /\ Moves(w, v)
  BY <1>5, <1>7, <1>8 DEF Goes
<1>10. v.player.state = w.player.state
       \/ (w.player.state = "Playing" /\ v.player.state = "Buffering")
  BY <1>3, <1>6, <1>7, <1>8 DEF Goes
<1>11. Base(v, n) /\ Moves(w, v)
  BY <1>3, <1>9
<1> QED BY <1>10, <1>11 DEF v

\* From w to v the pipeline of session s is built, for the playback there is.
Opens(w, v, s) ==
  /\ v.player.session = w.player.session /\ v.player.dual = w.player.dual
  /\ v.player.pending = w.player.pending /\ v.player.state = "Buffering"
  /\ v.pipe.session = s
  /\ \A i \in DOMAIN v.mail : \/ \E j \in DOMAIN w.mail : v.mail[i] = w.mail[j]
                              \/ v.mail[i].session = s

\* A pipeline rebuilt keeps the configuration it had.
LEMMA RebuildAndReseekIs ==
  ASSUME NEW n \in Sessions, NEW w, Base(w, n), NEW t \in Targets
  PROVE  LET v == RebuildAndReseek(w, t)
         IN  Base(v, n) /\ Opens(w, v, w.pipe.session)
<1> DEFINE restore == IF w.player.seekable THEN t ELSE NoSeek
           p == [w.player EXCEPT !.restore = restore,
                                 !.wasPlaying = (w.player.state # "Paused")]
           a == [w EXCEPT !.player = p]
           b == SetState(a, "Buffering")
           c == SetPhase(b, "Buffering_")
           d == Rebuild(c)
           e == IF w.player.dual THEN SeekDualTo(d, Start) ELSE SeekBytes(d, Start)
           v == PipePause(e)
<1>0. v = RebuildAndReseek(w, t)
  <2>1. a = [w EXCEPT !.player.restore = restore,
                      !.player.wasPlaying = (w.player.state # "Paused")]
    BY WorldParts DEF Base
  <2> HIDE DEF a
  <2> QED BY <2>1 DEF RebuildAndReseek
<1>1. w.player \in Players /\ restore \in Targets \cup {NoSeek}
  BY WorldParts DEF Base
<1> HIDE DEF restore
<1>2. /\ p \in Players /\ p.session = w.player.session /\ p.dual = w.player.dual
      /\ p.pending = w.player.pending /\ p.state = w.player.state
      /\ p.seekable = w.player.seekable
  BY <1>1 DEF Players
<1> HIDE DEF p
<1>4. Base(a, n) /\ Goes(w, a)
  BY <1>2, Noted
<1> HIDE DEF a
<1>5. Base(b, n) /\ Moves(a, b) /\ b.player.state = "Buffering"
  <2>1. /\ Base(b, n) /\ Notes(a, b) /\ b.player.state = "Buffering"
        /\ b.player.pending = a.player.pending
    BY <1>4, SetStateIs DEF States
  <2> QED BY <2>1, NotesMoves
<1> HIDE DEF b
<1>6. Base(c, n) /\ Moves(b, c) /\ c.player.state = b.player.state
  BY <1>5, SetPhaseIs, NotesMoves DEF Phases
<1> HIDE DEF c
<1>7. Base(d, n) /\ d.player = c.player /\ d.mail = c.mail /\ d.pipe.session = c.pipe.session
  BY <1>6, RebuildIs
<1> HIDE DEF d
<1>8. Base(e, n) /\ Commands(d, e)
  BY <1>7, SeekDualToIs, SeekBytesIs, PlayerAssumption
<1> HIDE DEF e
<1>9. Base(v, n) /\ Goes(e, v)
  BY <1>8, PipePauseIs, DrivesMoves
<1> HIDE DEF v
<1>10. Moves(w, c)
  BY <1>4, <1>5, <1>6, MovesOn DEF Goes
<1>11. \A i \in DOMAIN v.mail : \/ \E j \in DOMAIN w.mail : v.mail[i] = w.mail[j]
                               \/ v.mail[i].session = w.pipe.session
  BY <1>7, <1>8, <1>9, <1>10 DEF Goes, Moves, Posts, Commands
<1>12. /\ v.player.state = "Buffering"
       /\ v.player.session = w.player.session /\ v.player.dual = w.player.dual
       /\ v.player.pending = w.player.pending /\ v.pipe.session = w.pipe.session
  BY <1>5, <1>6, <1>7, <1>8, <1>9, <1>10 DEF Goes, Moves, Commands
<1> QED BY <1>0, <1>9, <1>11, <1>12 DEF Opens

-----------------------------------------------------------------------------
(* The invariant, and a letter or a message taken from its queue           *)

Answers == {"granted", "denied", "lost", "released"}

PlayerInv ==
  /\ Base(world, used["play"]) /\ Rested(world)
  /\ words \in Seq(Answers) /\ used \in [Acts -> Nat]
  /\ used["play"] <= Budget["play"]

Active == {"Playing", "Paused", "Buffering"}

LEMMA WorldIs ==
  /\ world.player = player /\ world.pipe = pipe /\ world.bus = bus
  /\ world.pump = pump /\ world.mail = mail /\ world.policy = policy
BY DEF world

LEMMA PlaysCount ==
  ASSUME PlayerInv
  PROVE  used["play"] \in Sessions
BY PlaysAre DEF PlayerInv, Acts, Sessions

\* What a handler leaves is the world of the next state.
LEMMA Becomes ==
  ASSUME NEW w, w \in Worlds, Become(w)
  PROVE  world' = w
BY WorldParts DEF Become, world

LEMMA Kept ==
  ASSUME PlayerInv, UNCHANGED <<words, used>>, Base(world', used["play"]), Rested(world')
  PROVE  PlayerInv'
BY DEF PlayerInv

LEMMA RestsOn ==
  ASSUME NEW w, NEW v, Moves(w, v), Rested(w),
         v.player.state = w.player.state \/ v.player.state \in Active
  PROVE  Rested(v)
BY DEF Moves, Rested, Active, Quiet

LEMMA AwakeRests ==
  ASSUME NEW v, v.player.state \in Active \/ v.player.state = "Loading" \/ ~v.pipe.built
  PROVE  Rested(v)
BY DEF Rested, Active, Quiet

LEMMA ReadIs ==
  ASSUME PlayerInv, mail # <<>>
  PROVE  /\ Base(Read, used["play"]) /\ Rested(Read) /\ Goes(world, Read)
         /\ Read.player = player /\ Read.pipe = pipe /\ Read.bus = bus
         /\ Head(mail) \in Letters /\ Head(mail).session <= player.session
<1> DEFINE m == Tail(mail)
           v == [world EXCEPT !.mail = m]
<1>1. world \in Worlds /\ mail \in Seq(Letters)
  BY WorldParts, WorldIs DEF PlayerInv, Base
<1>2. /\ m \in Seq(Letters) /\ Head(mail) \in Letters /\ Head(mail) = mail[1]
      /\ 1 \in DOMAIN mail
      /\ \A i \in DOMAIN m : i + 1 \in DOMAIN mail /\ m[i] = mail[i + 1]
  BY <1>1
<1>3. Read = v
  BY DEF Read
<1> HIDE DEF m
<1>4. /\ v \in Worlds /\ v.player = player /\ v.pipe = pipe /\ v.bus = bus
      /\ v.pump = pump /\ v.mail = m /\ v.policy = policy
  BY <1>1, <1>2, WorldIs DEF Worlds
<1> HIDE DEF v
<1>5. Base(v, used["play"]) /\ Rested(v)
  BY <1>2, <1>4, WorldIs DEF PlayerInv, Base, Owes, Piped, Dated, Begun, Rested
<1>6. Goes(world, v)
  BY <1>2, <1>4, WorldIs DEF Goes, Moves, Posts
<1>7. Head(mail).session <= player.session
  BY <1>2, WorldIs DEF PlayerInv, Base, Dated
<1> QED BY <1>2, <1>3, <1>4, <1>5, <1>6, <1>7

LEMMA PolledIs ==
  ASSUME PlayerInv, bus # <<>>
  PROVE  /\ Base(Polled, used["play"]) /\ Rested(Polled) /\ Goes(world, Polled)
         /\ Polled.player = player /\ Polled.pipe = pipe /\ Polled.mail = mail
         /\ player.state \notin Quiet
         /\ pipe.fresh => Head(bus) \notin {"asyncdone", "playing"}
<1> DEFINE m == Tail(bus)
           v == [world EXCEPT !.bus = m]
<1>1. world \in Worlds /\ bus \in Seq(Messages)
  BY WorldParts, WorldIs DEF PlayerInv, Base
<1>2. /\ m \in Seq(Messages) /\ Head(bus) = bus[1] /\ 1 \in DOMAIN bus
      /\ \A i \in DOMAIN m : i + 1 \in DOMAIN bus /\ m[i] = bus[i + 1]
  BY <1>1
<1>3. Polled = v
  BY DEF Polled
<1> HIDE DEF m
<1>4. /\ v \in Worlds /\ v.player = player /\ v.pipe = pipe /\ v.bus = m
      /\ v.pump = pump /\ v.mail = mail /\ v.policy = policy
  BY <1>1, <1>2, WorldIs DEF Worlds
<1> HIDE DEF v
<1>5. pipe.built /\ player.state \notin Quiet
      /\ (pipe.fresh => Head(bus) \notin {"asyncdone", "playing"})
  BY <1>2, WorldIs DEF PlayerInv, Base, Piped, Rested
<1>6. Base(v, used["play"]) /\ Rested(v)
  BY <1>2, <1>4, <1>5, WorldIs DEF PlayerInv, Base, Owes, Piped, Dated, Begun, Rested
<1>7. Goes(world, v)
  BY <1>4, WorldIs DEF Goes, Moves, Posts
<1> QED BY <1>3, <1>4, <1>5, <1>6, <1>7

-----------------------------------------------------------------------------
(* The handlers of the pump's signals                                      *)

LEMMA Reached ==
  ASSUME PlayerInv, UNCHANGED <<words, used>>, NEW w, Become(w),
         Base(w, used["play"]), Rested(w)
  PROVE  PlayerInv' /\ world' = w
<1>1. world' = w
  BY Becomes DEF Base
<1> QED BY <1>1, Kept

LEMMA GoesOn ==
  ASSUME NEW u, NEW w, NEW v, Goes(u, w), Goes(w, v)
  PROVE  Goes(u, v)
BY MovesOn DEF Goes

LEMMA GoesSelf ==
  ASSUME NEW w
  PROVE  Goes(w, w)
BY CommandsSelf, CommandsMoves

\* A handler that only moves on from the letter it read.
LEMMA GoesFrom ==
  ASSUME PlayerInv, UNCHANGED <<words, used>>, NEW u, Goes(world, u),
         NEW w, Become(w), Base(w, used["play"]), Goes(u, w)
  PROVE  PlayerInv' /\ Goes(world, world')
<1>1. Goes(world, w)
  BY GoesOn
<1>2. Rested(w)
  BY <1>1, RestsOn DEF PlayerInv, Goes
<1> QED BY <1>1, <1>2, Reached

LEMMA PhaseGoes ==
  ASSUME NEW n, NEW w, Base(w, n), NEW phase \in Phases
  PROVE  Base(SetPhase(w, phase), n) /\ Goes(w, SetPhase(w, phase))
BY SetPhaseIs, NotesMoves DEF Goes

LEMMA OnDemuxingIs ==
  ASSUME PlayerInv, OnDemuxing
  PROVE  PlayerInv' /\ Goes(world, world')
<1>1. mail # <<>> /\ UNCHANGED <<words, used>>
  BY DEF OnDemuxing, Got
<1> DEFINE v == IF player.state = "Loading" THEN SetPhase(Read, "Demuxing") ELSE Read
<1>2. Become(v)
  BY DEF OnDemuxing
<1>3. Base(v, used["play"]) /\ Goes(Read, v)
  BY <1>1, ReadIs, PhaseGoes, GoesSelf DEF Phases
<1> HIDE DEF v
<1> QED BY <1>1, <1>2, <1>3, ReadIs, GoesFrom

LEMMA OnWindowLoadingIs ==
  ASSUME PlayerInv, OnWindowLoading
  PROVE  PlayerInv' /\ Goes(world, world')
<1>1. mail # <<>> /\ UNCHANGED <<words, used>>
  BY DEF OnWindowLoading, Got
<1> DEFINE v == IF player.state = "Loading" THEN SetPhase(Read, "LoadingWindow") ELSE Read
<1>2. Become(v)
  BY DEF OnWindowLoading
<1>3. Base(v, used["play"]) /\ Goes(Read, v)
  BY <1>1, ReadIs, PhaseGoes, GoesSelf DEF Phases
<1> HIDE DEF v
<1> QED BY <1>1, <1>2, <1>3, ReadIs, GoesFrom

LEMMA OnPumpAudioOpenedIs ==
  ASSUME PlayerInv, OnPumpAudioOpened
  PROVE  PlayerInv' /\ Goes(world, world')
<1>1. mail # <<>> /\ UNCHANGED <<words, used>>
  BY DEF OnPumpAudioOpened, Got
<1> DEFINE g == Gate(Read, "audio", Head(mail))
           v == IF player.dual THEN UpdateStartupGate(g) ELSE Read
<1>2. Become(v)
  BY DEF OnPumpAudioOpened
<1>3. Base(g, used["play"]) /\ Goes(Read, g)
  BY <1>1, ReadIs, GateIs DEF Lanes
<1> HIDE DEF g
<1>4. Base(v, used["play"]) /\ Goes(Read, v)
  BY <1>1, <1>3, ReadIs, GateOpens, GoesSelf, GoesOn
<1> HIDE DEF v
<1> QED BY <1>1, <1>2, <1>4, ReadIs, GoesFrom

LEMMA OnProgressIs ==
  ASSUME PlayerInv, NEW l \in Lanes, OnProgress(l)
  PROVE  PlayerInv' /\ Goes(world, world')
<1>1. mail # <<>> /\ UNCHANGED <<words, used>>
  BY DEF OnProgress, Got
<1> DEFINE have == IF l \in Head(mail).full THEN player.full \cup {l} ELSE player.full \ {l}
           p == [player EXCEPT !.full = have]
           g == [Read EXCEPT !.player = p]
           v == IF l \in player.armed THEN UpdateStartupGate(g) ELSE Read
<1>2. player \in Players /\ Read \in Worlds /\ Read.player = player
  BY <1>1, ReadIs, WorldParts, WorldIs DEF PlayerInv, Base
<1>3. Become(v)
  <2>1. g = [Read EXCEPT !.player.full = have]
    BY <1>2
  <2> HIDE DEF g
  <2> QED BY <2>1 DEF OnProgress
<1>4. /\ p \in Players /\ p.session = player.session /\ p.dual = player.dual
      /\ p.pending = player.pending /\ p.state = player.state
      /\ p.seekable = player.seekable
  <2>1. have \subseteq Lanes
    BY <1>2 DEF Players
  <2> HIDE DEF have
  <2> QED BY <1>2, <2>1 DEF Players
<1> HIDE DEF p
<1>5. Base(g, used["play"]) /\ Goes(Read, g)
  BY <1>1, <1>4, ReadIs, Noted
<1> HIDE DEF g
<1>6. Base(v, used["play"]) /\ Goes(Read, v)
  BY <1>1, <1>5, ReadIs, GateOpens, GoesSelf, GoesOn
<1> HIDE DEF v
<1> QED BY <1>1, <1>3, <1>6, ReadIs, GoesFrom

LEMMA OnPumpFinishedIs ==
  ASSUME PlayerInv, NEW l \in Lanes, OnPumpFinished(l)
  PROVE  PlayerInv' /\ Goes(world, world')
<1>1. mail # <<>> /\ UNCHANGED <<words, used>>
  BY DEF OnPumpFinished, Got
<1> DEFINE p == [player EXCEPT !.full = @ \cup {l}]
           g == [Read EXCEPT !.player = p]
           v == IF l \in player.armed THEN UpdateStartupGate(g) ELSE Read
<1>2. player \in Players /\ Read \in Worlds /\ Read.player = player
  BY <1>1, ReadIs, WorldParts, WorldIs DEF PlayerInv, Base
<1>3. Become(v)
  <2>1. g = [Read EXCEPT !.player.full = @ \cup {l}]
    BY <1>2
  <2> HIDE DEF g
  <2> QED BY <2>1 DEF OnPumpFinished
<1>4. /\ p \in Players /\ p.session = player.session /\ p.dual = player.dual
      /\ p.pending = player.pending /\ p.state = player.state
      /\ p.seekable = player.seekable
  BY <1>2 DEF Players
<1> HIDE DEF p
<1>5. Base(g, used["play"]) /\ Goes(Read, g)
  BY <1>1, <1>4, ReadIs, Noted
<1> HIDE DEF g
<1>6. Base(v, used["play"]) /\ Goes(Read, v)
  BY <1>1, <1>5, ReadIs, GateOpens, GoesSelf, GoesOn
<1> HIDE DEF v
<1> QED BY <1>1, <1>3, <1>6, ReadIs, GoesFrom

LEMMA OnPrebufferFullIs ==
  ASSUME PlayerInv, OnPrebufferFull
  PROVE  PlayerInv' /\ Goes(world, world')
<1>1. mail # <<>> /\ UNCHANGED <<words, used>>
  BY DEF OnPrebufferFull, Got
<1> DEFINE p == [player EXCEPT !.prebufPaused = FALSE]
           g == [Read EXCEPT !.player = p]
           v == IF player.armed = {} /\ player.prebufPaused THEN PipePlay(g) ELSE Read
<1>2. player \in Players /\ Read \in Worlds /\ Read.player = player
  BY <1>1, ReadIs, WorldParts, WorldIs DEF PlayerInv, Base
<1>3. Become(v)
  <2>1. g = [Read EXCEPT !.player.prebufPaused = FALSE]
    BY <1>2
  <2> HIDE DEF g
  <2> QED BY <2>1 DEF OnPrebufferFull
<1>4. /\ p \in Players /\ p.session = player.session /\ p.dual = player.dual
      /\ p.pending = player.pending /\ p.state = player.state
      /\ p.seekable = player.seekable
  BY <1>2 DEF Players
<1> HIDE DEF p
<1>5. Base(g, used["play"]) /\ Goes(Read, g)
  BY <1>1, <1>4, ReadIs, Noted
<1> HIDE DEF g
<1>6. Base(v, used["play"]) /\ Goes(Read, v)
  BY <1>1, <1>5, ReadIs, PipePlayIs, DrivesMoves, GoesSelf, GoesOn
<1> HIDE DEF v
<1> QED BY <1>1, <1>3, <1>6, ReadIs, GoesFrom

LEMMA OnSeekRequestedIs ==
  ASSUME PlayerInv, NEW t \in Targets, OnSeekRequested(t)
  PROVE  PlayerInv' /\ Goes(world, world')
<1>1. mail # <<>> /\ UNCHANGED <<words, used>>
  BY DEF OnSeekRequested, Got
<1> DEFINE p == [player EXCEPT !.seekTo = NoSeek]
           g == [Read EXCEPT !.player = p]
           v == IF ~player.dual THEN SeekBytes(Read, t)
                ELSE IF player.seekTo # t THEN Read ELSE SeekDualTo(g, t)
<1>2. player \in Players /\ Read \in Worlds /\ Read.player = player
  BY <1>1, ReadIs, WorldParts, WorldIs DEF PlayerInv, Base
<1>3. Become(v)
  <2>1. g = [Read EXCEPT !.player.seekTo = NoSeek]
    BY <1>2
  <2> HIDE DEF g
  <2> QED BY <2>1 DEF OnSeekRequested
<1>4. /\ p \in Players /\ p.session = player.session /\ p.dual = player.dual
      /\ p.pending = player.pending /\ p.state = player.state
      /\ p.seekable = player.seekable
  BY <1>2 DEF Players
<1> HIDE DEF p
<1>5. Base(g, used["play"]) /\ Goes(Read, g)
  BY <1>1, <1>4, ReadIs, Noted
<1> HIDE DEF g
<1>6. Base(v, used["play"]) /\ Goes(Read, v)
  BY <1>1, <1>5, ReadIs, SeekBytesIs, SeekDualToIs, CommandsMoves, GoesSelf, GoesOn
<1> HIDE DEF v
<1> QED BY <1>1, <1>3, <1>6, ReadIs, GoesFrom

\* The pipeline of session s is built and set going or gated.
LEMMA OpensIs ==
  ASSUME NEW n \in Sessions, NEW w, Base(w, n), NEW c, Base(c, n),
         c.player.session = w.player.session, c.player.dual = w.player.dual,
         c.player.pending = w.player.pending, c.mail = w.mail
  PROVE  LET v == StartOrGate(c)
         IN  Base(v, n) /\ Rested(v) /\ Opens(w, v, c.pipe.session)
<1> DEFINE v == StartOrGate(c)
<1>1. Base(v, n) /\ Moves(c, v) /\ v.player.state = "Buffering"
  BY StartOrGateIs
<1> HIDE DEF v
<1>2. Rested(v)
  BY <1>1, AwakeRests DEF Active
<1>3. Opens(w, v, c.pipe.session)
  BY <1>1 DEF Moves, Posts, Opens
<1> QED BY <1>1, <1>2, <1>3 DEF v

LEMMA OpenedFromRead ==
  ASSUME PlayerInv, mail # <<>>, NEW v, NEW s, Opens(Read, v, s)
  PROVE  Opens(world, v, s)
<1>1. mail \in Seq(Letters) /\ Read.mail = Tail(mail)
  BY WorldParts, WorldIs DEF PlayerInv, Base, Read
<1>2. \A i \in DOMAIN Read.mail : \E j \in DOMAIN mail : Read.mail[i] = mail[j]
  BY <1>1
<1> QED BY <1>2, ReadIs, WorldIs DEF Opens

LEMMA OnPumpVideoOpenedIs ==
  ASSUME PlayerInv, OnPumpVideoOpened
  PROVE  /\ PlayerInv'
         /\ \/ player.dual /\ Goes(world, world')
            \/ ~player.dual /\ Opens(world, world', Head(mail).session)
<1>1. mail # <<>> /\ UNCHANGED <<words, used>>
  BY DEF OnPumpVideoOpened, Got
<1> DEFINE n == used["play"]
           m == Head(mail)
           w == Gate(Read, "video", m)
           built == Configure(w, FALSE, m.seekable, m.session)
           p == [built.player EXCEPT !.seekable = m.seekable, !.armed = @ \ {"audio"},
                                     !.full = @ \ {"audio"}]
           c == [built EXCEPT !.player = p]
           a == UpdateStartupGate(SetPhase(w, "LoadingWindow"))
           b == StartOrGate(c)
<1>2. m \in Letters /\ m.session <= player.session
  BY <1>1, ReadIs
<1>3. Base(w, n) /\ Goes(Read, w)
  BY <1>1, <1>2, ReadIs, GateIs DEF Lanes
<1>4. w.mail = Read.mail
  BY <1>1, ReadIs, WorldParts DEF Gate, Base
<1>5. n \in Sessions /\ w.player.session = player.session /\ w.player.dual = player.dual
      /\ w.player.pending = player.pending /\ m.session \in Sessions
      /\ m.seekable \in BOOLEAN
  BY <1>1, <1>2, <1>3, ReadIs, PlaysCount DEF Goes, Moves, Letters
<1>6. /\ Base(built, n) /\ built.pipe.session = m.session
      /\ built.player = w.player /\ built.mail = w.mail
  <2> HIDE DEF n, w, m
  <2>1. m.session <= w.player.session
    BY <1>2, <1>5
  <2> DEFINE dual == FALSE
             seekable == m.seekable
             session == m.session
             x == Configure(w, dual, seekable, session)
  <2>2. dual \in BOOLEAN /\ seekable \in BOOLEAN /\ session \in Sessions
        /\ session <= w.player.session
    BY <1>5, <2>1
  <2> HIDE DEF dual, seekable, session
  <2>3. /\ Base(x, n) /\ x.pipe.session = session
        /\ x.player = w.player /\ x.mail = w.mail
    BY <1>3, <2>2, ConfigureIs
  <2> QED BY <2>3 DEF dual, seekable, session
<1>7. Become(IF player.dual THEN a ELSE b)
  <2>1. c = [built EXCEPT !.player.seekable = m.seekable,
                          !.player.armed = @ \ {"audio"}, !.player.full = @ \ {"audio"}]
    BY <1>6, WorldParts DEF Base
  <2> HIDE DEF c
  <2> QED BY <2>1 DEF OnPumpVideoOpened
<1> HIDE DEF built
<1>8. CASE player.dual
  <2>1. Base(a, n) /\ Goes(Read, a)
    <3> DEFINE d == SetPhase(w, "LoadingWindow")
    <3>1. Base(d, n) /\ Goes(w, d)
      BY <1>3, PhaseGoes DEF Phases
    <3> HIDE DEF d, w, n
    <3>2. Base(a, n) /\ Goes(d, a)
      BY <3>1, GateOpens DEF d
    <3> QED BY <1>3, <3>1, <3>2, GoesOn
  <2> HIDE DEF a
  <2> QED BY <1>1, <1>7, <1>8, <2>1, ReadIs, GoesFrom
<1>9. CASE ~player.dual
  <2>1. built.player \in Players
    BY <1>6, WorldParts DEF Base
  <2>2. /\ p \in Players /\ p.session = built.player.session /\ p.dual = built.player.dual
        /\ p.pending = built.player.pending /\ p.state = built.player.state
    BY <1>5, <2>1 DEF Players
  <2> HIDE DEF p
  <2>3. Base(c, n) /\ c.player = p /\ c.pipe = built.pipe /\ c.mail = built.mail
    BY <1>6, <2>2, Noted
  <2> HIDE DEF c
  <2>4. Base(b, n) /\ Rested(b) /\ Opens(Read, b, m.session)
    <3>1. c.player.session = Read.player.session /\ c.player.dual = Read.player.dual
          /\ c.player.pending = Read.player.pending /\ c.mail = Read.mail
          /\ c.pipe.session = m.session
      BY <1>1, <1>4, <1>5, <1>6, <2>2, <2>3, ReadIs
    <3> QED BY <1>1, <1>5, <2>3, <3>1, ReadIs, OpensIs
  <2> HIDE DEF b
  <2>5. PlayerInv' /\ world' = b
    BY <1>1, <1>7, <1>9, <2>4, Reached
  <2>6. Opens(world, b, m.session)
    BY <1>1, <2>4, OpenedFromRead
  <2> QED BY <1>9, <2>5, <2>6
<1> QED BY <1>8, <1>9

LEMMA OnEsReadyIs ==
  ASSUME PlayerInv, OnEsReady
  PROVE  /\ PlayerInv'
         /\ \/ Goes(world, world')
            \/ player.state = "Loading" /\ Opens(world, world', Head(mail).session)
<1>1. mail # <<>> /\ UNCHANGED <<words, used>>
  BY DEF OnEsReady, Got
<1> DEFINE n == used["play"]
           m == Head(mail)
           g == Gate(Read, "video", m)
           w == Gate(g, "audio", m)
           p == [w.player EXCEPT !.seekable = m.seekable]
           a == [w EXCEPT !.player = p]
           dual == TRUE
           seekable == TRUE
           session == m.session
           c == Configure(a, dual, seekable, session)
           b == StartOrGate(c)
           q == [b.pump EXCEPT !.configured = TRUE]
           d == [b EXCEPT !.pump = q]
<1>2. m \in Letters /\ m.session <= player.session
  BY <1>1, ReadIs
<1>3. m.seekable \in BOOLEAN /\ session \in Sessions
  BY <1>2 DEF Letters
<1>4. Base(g, n) /\ Goes(Read, g)
  BY <1>1, <1>2, ReadIs, GateIs DEF Lanes
<1>5. g.mail = Read.mail
  BY <1>1, ReadIs, WorldParts DEF Gate, Base
<1>6. Base(w, n) /\ Goes(g, w) /\ w.mail = g.mail
  <2> HIDE DEF g, m
  <2>1. Base(w, n) /\ Goes(g, w)
    BY <1>2, <1>4, GateIs DEF Lanes
  <2>2. w.mail = g.mail
    BY <1>4, WorldParts DEF Gate, Base
  <2> QED BY <2>1, <2>2
<1> HIDE DEF g
<1>7. /\ w.player.session = player.session /\ w.player.dual = player.dual
      /\ w.player.pending = player.pending /\ w.mail = Read.mail
  BY <1>1, <1>4, <1>5, <1>6, ReadIs DEF Goes, Moves
<1>8. w.player \in Players
  BY <1>6, WorldParts DEF Base
<1>9. /\ p \in Players /\ p.session = w.player.session /\ p.dual = w.player.dual
      /\ p.pending = w.player.pending /\ p.state = w.player.state
  BY <1>3, <1>8 DEF Players
<1>10. a = [w EXCEPT !.player.seekable = m.seekable]
  BY <1>6, WorldParts DEF Base
<1> HIDE DEF w, p, m
<1>11. Base(a, n) /\ a.player = p /\ a.mail = w.mail
  BY <1>6, <1>9, Noted
<1> HIDE DEF a
<1>12. session <= a.player.session /\ dual \in BOOLEAN /\ seekable \in BOOLEAN
  BY <1>2, <1>7, <1>9, <1>11
<1> HIDE DEF dual, seekable, session
<1>13. Base(c, n) /\ c.pipe.session = session /\ c.player = a.player /\ c.mail = a.mail
  BY <1>3, <1>11, <1>12, ConfigureIs
<1> HIDE DEF c
<1>14. Base(b, n) /\ Rested(b) /\ Opens(Read, b, session)
  <2>1. /\ c.player.session = Read.player.session /\ c.player.dual = Read.player.dual
        /\ c.player.pending = Read.player.pending /\ c.mail = Read.mail
    BY <1>1, <1>7, <1>9, <1>11, <1>13, ReadIs
  <2> HIDE DEF n
  <2>2. n \in Sessions /\ Base(Read, n)
    BY <1>1, ReadIs, PlaysCount DEF n
  <2>3. Base(b, n) /\ Rested(b) /\ Opens(Read, b, c.pipe.session)
    BY <1>13, <2>1, <2>2, OpensIs
  <2> QED BY <1>13, <2>3
<1> HIDE DEF b
<1>15. b.pump \in Pumps /\ b.pump.session <= b.player.session
  BY <1>14, WorldParts DEF Base, Dated
<1>16. q \in Pumps /\ q.session = b.pump.session
  BY <1>15 DEF Pumps
<1>17. d = [b EXCEPT !.pump.configured = TRUE]
  BY <1>14, WorldParts DEF Base
<1> HIDE DEF q
<1>18. Base(d, n) /\ Commands(b, d)
  BY <1>14, <1>15, <1>16, PumpSet
<1> HIDE DEF d
<1>19. Rested(d) /\ Opens(Read, d, session)
  BY <1>14, <1>18 DEF Commands, Rested, Opens
<1>20. Become(IF player.state # "Loading" THEN Read ELSE d)
  BY <1>10, <1>17 DEF OnEsReady, g, w, m, b, c, dual, seekable, session
<1>21. CASE player.state # "Loading"
  BY <1>1, <1>20, <1>21, ReadIs, Reached
<1>22. CASE player.state = "Loading"
  <2>1. PlayerInv' /\ world' = d
    BY <1>1, <1>18, <1>19, <1>20, <1>22, Reached
  <2>2. Opens(world, d, session)
    BY <1>1, <1>19, OpenedFromRead
  <2> QED BY <1>22, <2>1, <2>2 DEF session, m
<1> QED BY <1>21, <1>22

\* From w to v the playback is over, or the one that was put off begins.
Over(w, v) ==
  /\ ~v.pipe.built /\ v.pipe.session = w.pipe.session
  /\ v.player.seekable = w.player.seekable /\ Posts(w, v)
  /\ \/ /\ v.player.session = w.player.session /\ v.player.dual = w.player.dual
        /\ v.player.state \in {"Stopped", "Error"}
     \/ /\ w.player.pending # NoPlay
        /\ v.player.session = w.player.session + 1 /\ v.player.state = "Loading"
        /\ v.player.pending = NoPlay /\ v.player.dual = (w.player.pending = "dual")

LEMMA OverIs ==
  ASSUME NEW u, NEW w, NEW v, Goes(w, u),
         \/ Halts(u, v) /\ v.player.state \in {"Stopped", "Error"}
         \/ u.player.pending # NoPlay /\ Begins(u, v, u.player.pending)
  PROVE  Over(w, v) /\ Rested(v)
<1>1. Posts(w, v)
  BY DEF Goes, Moves, Halts, Begins, Posts
<1>2. Rested(v)
  BY AwakeRests DEF Halts, Begins
<1> QED BY <1>1, <1>2 DEF Goes, Moves, Halts, Begins, Over

LEMMA OnPumpFailedIs ==
  ASSUME PlayerInv, OnPumpFailed
  PROVE  PlayerInv' /\ Over(world, world')
<1>1. mail # <<>> /\ UNCHANGED <<words, used>> /\ Become(Fail(Read))
  BY DEF OnPumpFailed, Got
<1> DEFINE n == used["play"]
           v == Fail(Read)
<1>2. /\ Base(v, n)
      /\ \/ Halts(Read, v) /\ v.player.state = "Error"
         \/ Read.player.pending # NoPlay /\ Begins(Read, v, Read.player.pending)
  <2> DEFINE r == Read
  <2>1. Base(r, n) /\ n \in Sessions
    BY <1>1, ReadIs, PlaysCount
  <2> HIDE DEF n, r
  <2>2. /\ Base(Fail(r), n)
        /\ \/ Halts(r, Fail(r)) /\ Fail(r).player.state = "Error"
           \/ r.player.pending # NoPlay /\ Begins(r, Fail(r), r.player.pending)
    BY <2>1, FailIs
  <2> QED BY <2>2 DEF r
<1> HIDE DEF v
<1>3. Over(world, v) /\ Rested(v)
  BY <1>1, <1>2, ReadIs, OverIs
<1> QED BY <1>1, <1>2, <1>3, Reached DEF v

LEMMA OnPrebufferShortIs ==
  ASSUME PlayerInv, OnPrebufferShort
  PROVE  /\ PlayerInv'
         /\ \/ Goes(world, world')
            \/ /\ player.state = "Playing" /\ world'.player.state = "Buffering"
               /\ Moves(world, world')
<1>1. mail # <<>> /\ UNCHANGED <<words, used>>
  BY DEF OnPrebufferShort, Got
<1> DEFINE n == used["play"]
           a == PipePause(Read)
           p == [a.player EXCEPT !.prebufPaused = TRUE]
           b == [a EXCEPT !.player = p]
           c == SetState(b, "Buffering")
           v == SetPhase(c, "Rebuffering")
<1>2. Base(a, n) /\ Goes(Read, a)
  BY <1>1, ReadIs, PipePauseIs, DrivesMoves
<1>3. Become(IF player.armed = {} /\ player.state = "Playing" THEN v ELSE Read)
  <2>1. b = [a EXCEPT !.player.prebufPaused = TRUE]
    BY <1>2, WorldParts DEF Base
  <2> HIDE DEF b
  <2> QED BY <2>1 DEF OnPrebufferShort
<1> HIDE DEF a
<1>4. a.player \in Players
  BY <1>2, WorldParts DEF Base
<1>5. /\ p \in Players /\ p.session = a.player.session /\ p.dual = a.player.dual
      /\ p.pending = a.player.pending /\ p.state = a.player.state
      /\ p.seekable = a.player.seekable
  BY <1>4 DEF Players
<1> HIDE DEF p
<1>6. Base(b, n) /\ Goes(a, b)
  BY <1>2, <1>5, Noted
<1> HIDE DEF b
<1>7. Base(c, n) /\ Moves(b, c) /\ c.player.state = "Buffering"
  <2> HIDE DEF n
  <2>0. n \in Sessions
    BY PlaysCount DEF n
  <2>1. /\ Base(c, n) /\ Notes(b, c) /\ c.player.state = "Buffering"
        /\ c.player.pending = b.player.pending
    BY <1>6, <2>0, SetStateIs DEF States
  <2> QED BY <2>1, NotesMoves
<1> HIDE DEF c
<1>8. Base(v, n) /\ Goes(c, v)
  BY <1>7, PhaseGoes DEF Phases
<1> HIDE DEF v
<1>9. Moves(world, v) /\ v.player.state = "Buffering"
  BY <1>1, <1>2, <1>6, <1>7, <1>8, ReadIs, MovesOn DEF Goes
<1>10. Rested(v)
  BY <1>9, AwakeRests DEF Active
<1>11. CASE player.armed = {} /\ player.state = "Playing"
  BY <1>1, <1>3, <1>8, <1>9, <1>10, <1>11, Reached
<1>12. CASE ~(player.armed = {} /\ player.state = "Playing")
  BY <1>1, <1>3, <1>12, ReadIs, Reached
<1> QED BY <1>11, <1>12

-----------------------------------------------------------------------------
(* The handlers of the pipeline's messages, and the timer                  *)

\* A state that is shown while the pipeline stands.
LEMMA ShowIs ==
  ASSUME NEW n \in Sessions, NEW w, Base(w, n), NEW s \in Active
  PROVE  LET v == SetState(w, s)
         IN  /\ Base(v, n) /\ Rested(v)
             /\ \/ Moves(w, v) /\ v.player.state = s
                \/ /\ s = "Playing" /\ w.player.pending # NoPlay
                   /\ Begins(w, v, w.player.pending)
<1> DEFINE v == SetState(w, s)
<1>1. /\ Base(v, n)
      /\ \/ /\ Notes(w, v) /\ v.player.state = s
            /\ v.player.pending = w.player.pending
         \/ /\ s \in {"Playing", "Stopped", "Error"}
            /\ w.player.pending # NoPlay /\ Begins(w, v, w.player.pending)
  BY SetStateIs DEF States, Active
<1> HIDE DEF v
<1>2. Rested(v)
  BY <1>1, AwakeRests DEF Begins
<1>3. Notes(w, v) /\ v.player.pending = w.player.pending => Moves(w, v)
  BY NotesMoves
<1> QED BY <1>1, <1>2, <1>3 DEF v, Active

LEMMA OnStartedIs ==
  ASSUME PlayerInv, OnStarted
  PROVE  /\ PlayerInv' /\ player.state \notin Quiet /\ ~pipe.fresh
         /\ \/ Moves(world, world') /\ world'.player.state = "Playing"
            \/ Over(world, world')
<1>1. bus # <<>> /\ Head(bus) = "playing" /\ UNCHANGED <<words, used>>
      /\ Become(SetState(Polled, "Playing"))
  BY DEF OnStarted, Heard
<1> DEFINE n == used["play"]
           v == SetState(Polled, "Playing")
<1>2. /\ Base(v, n) /\ Rested(v)
      /\ \/ Moves(Polled, v) /\ v.player.state = "Playing"
         \/ Polled.player.pending # NoPlay /\ Begins(Polled, v, Polled.player.pending)
  <2> DEFINE r == Polled
  <2>1. Base(r, n) /\ n \in Sessions
    BY <1>1, PolledIs, PlaysCount
  <2> HIDE DEF n, r
  <2> QED BY <2>1, ShowIs DEF r, Active
<1> HIDE DEF v
<1>3. PlayerInv' /\ world' = v
  BY <1>1, <1>2, Reached DEF v
<1>4. Moves(Polled, v) => Moves(world, v)
  BY <1>1, PolledIs, MovesOn DEF Goes
<1>5. Polled.player.pending # NoPlay /\ Begins(Polled, v, Polled.player.pending)
        => Over(world, v)
  BY <1>1, PolledIs, OverIs
<1> QED BY <1>1, <1>2, <1>3, <1>4, <1>5, PolledIs

LEMMA OnPrerolledIs ==
  ASSUME PlayerInv, OnPrerolled
  PROVE  /\ PlayerInv' /\ player.state \notin Quiet /\ ~pipe.fresh
         /\ Moves(world, world')
         /\ world'.player.state = player.state \/ world'.player.state \in Active
<1>1. bus # <<>> /\ Head(bus) = "asyncdone" /\ UNCHANGED <<words, used>>
  BY DEF OnPrerolled, Heard
<1> DEFINE n == used["play"]
           t == player.restore
           p == [player EXCEPT !.restore = NoSeek]
           a == [Polled EXCEPT !.player = p]
           b == DoRawSeek(a, t)
           c == PipePlay(b)
           d == SetState(b, "Paused")
           e == SetPhase(d, "NoPhase")
           v == IF t = NoSeek THEN Polled ELSE IF player.wasPlaying THEN c ELSE e
<1>2. player \in Players /\ Polled.player = player /\ Polled \in Worlds
  BY <1>1, PolledIs, WorldParts, WorldIs DEF PlayerInv, Base
<1>3. Become(v)
  <2>1. a = [Polled EXCEPT !.player.restore = NoSeek]
    BY <1>2
  <2> HIDE DEF a
  <2> QED BY <2>1 DEF OnPrerolled
<1>4. CASE t = NoSeek
  <2>1. v = Polled
    BY <1>4
  <2> HIDE DEF v
  <2> QED BY <1>1, <1>3, <2>1, PolledIs, Reached DEF Goes
<1>5. CASE t # NoSeek
  <2>1. t \in Targets
    BY <1>2, <1>5 DEF Players
  <2>2. /\ p \in Players /\ p.session = player.session /\ p.dual = player.dual
        /\ p.pending = player.pending /\ p.state = player.state
        /\ p.seekable = player.seekable
    BY <1>2 DEF Players
  <2> HIDE DEF p
  <2>3. Base(a, n) /\ Goes(Polled, a)
    BY <1>1, <2>2, PolledIs, Noted
  <2> HIDE DEF a, n
  <2>4. n \in Sessions
    BY PlaysCount DEF n
  <2>5. /\ Base(b, n) /\ Moves(a, b)
        /\ b.player.state = a.player.state \/ b.player.state = "Buffering"
    <3> HIDE DEF t
    <3> QED BY <2>1, <2>3, <2>4, DoRawSeekIs
  <2> HIDE DEF b
  <2>6. Base(c, n) /\ Goes(b, c)
    BY <2>5, PipePlayIs, DrivesMoves
  <2>7. Base(d, n) /\ Moves(b, d) /\ d.player.state = "Paused"
    BY <2>4, <2>5, ShowIs DEF Active
  <2> HIDE DEF d
  <2>8. Base(e, n) /\ Goes(d, e)
    BY <2>7, PhaseGoes DEF Phases
  <2> HIDE DEF c, e
  <2>9. v = c \/ v = e
    BY <1>5
  <2>10. Moves(world, c) /\ Moves(world, e)
    BY <1>1, <2>3, <2>5, <2>6, <2>7, <2>8, PolledIs, MovesOn DEF Goes
  <2>11. /\ c.player.state = player.state \/ c.player.state \in Active
         /\ e.player.state \in Active
    BY <1>1, <2>2, <2>3, <2>5, <2>6, <2>7, <2>8, PolledIs DEF Goes, Active
  <2> HIDE DEF v
  <2>12. /\ Base(v, n) /\ Moves(world, v)
         /\ v.player.state = player.state \/ v.player.state \in Active
    BY <2>6, <2>8, <2>9, <2>10, <2>11
  <2>13. Rested(v)
    BY <2>12, RestsOn, WorldIs DEF PlayerInv
  <2>14. PlayerInv' /\ world' = v
    BY <1>1, <1>3, <2>12, <2>13, Reached DEF n
  <2> QED BY <1>1, <2>12, <2>14, PolledIs
<1> QED BY <1>4, <1>5

LEMMA OnBufferingIs ==
  ASSUME PlayerInv, NEW msg \in {"draining", "drained"}, OnBuffering(msg)
  PROVE  /\ PlayerInv' /\ player.state \notin Quiet
         /\ \/ Goes(world, world')
            \/ /\ player.state = "Playing" /\ world'.player.state = "Buffering"
               /\ Moves(world, world')
            \/ /\ msg = "drained"
               /\ \/ Moves(world, world') /\ world'.player.state = "Playing"
                  \/ Over(world, world')
<1>1. bus # <<>> /\ UNCHANGED <<words, used>>
  BY DEF OnBuffering, Heard
<1> DEFINE n == used["play"]
           r == Polled
           a == SetState(r, "Buffering")
           b == SetPhase(a, "Rebuffering")
           c == SetState(r, "Playing")
<1>2. /\ Base(r, n) /\ n \in Sessions /\ Goes(world, r) /\ Rested(r)
      /\ player.state \notin Quiet
  BY <1>1, PolledIs, PlaysCount, WorldIs
<1>3. \/ msg = "draining" /\ player.state = "Playing" /\ Become(b)
      \/ msg = "drained" /\ player.state = "Buffering" /\ Become(c)
      \/ Become(r)
  BY DEF OnBuffering
<1> HIDE DEF n, r
<1>4. CASE msg = "draining" /\ player.state = "Playing" /\ Become(b)
  <2>1. Base(a, n) /\ Moves(r, a) /\ a.player.state = "Buffering"
    BY <1>2, ShowIs DEF Active
  <2> HIDE DEF a
  <2>2. Base(b, n) /\ Goes(a, b)
    BY <2>1, PhaseGoes DEF Phases
  <2> HIDE DEF b
  <2>3. Moves(world, b) /\ b.player.state = "Buffering"
    BY <1>2, <2>1, <2>2, MovesOn DEF Goes
  <2>4. Rested(b)
    BY <2>3, AwakeRests DEF Active
  <2>5. PlayerInv' /\ world' = b
    BY <1>1, <1>4, <2>2, <2>4, Reached DEF n
  <2> QED BY <1>2, <1>4, <2>3, <2>5
<1>5. CASE msg = "drained" /\ player.state = "Buffering" /\ Become(c)
  <2>1. /\ Base(c, n) /\ Rested(c)
        /\ \/ Moves(r, c) /\ c.player.state = "Playing"
           \/ r.player.pending # NoPlay /\ Begins(r, c, r.player.pending)
    BY <1>2, ShowIs DEF Active
  <2> HIDE DEF c
  <2>2. PlayerInv' /\ world' = c
    BY <1>1, <1>5, <2>1, Reached DEF n
  <2>3. Moves(r, c) => Moves(world, c)
    BY <1>2, MovesOn DEF Goes
  <2>4. r.player.pending # NoPlay /\ Begins(r, c, r.player.pending) => Over(world, c)
    BY <1>2, OverIs
  <2> QED BY <1>2, <1>5, <2>1, <2>2, <2>3, <2>4
<1>6. CASE Become(r)
  BY <1>1, <1>2, <1>6, Reached DEF n
<1> QED BY <1>3, <1>4, <1>5, <1>6

LEMMA OnPipelineFinishedIs ==
  ASSUME PlayerInv, OnPipelineFinished
  PROVE  PlayerInv' /\ Over(world, world')
<1>1. bus # <<>> /\ UNCHANGED <<words, used>>
  BY DEF OnPipelineFinished, Heard
<1> DEFINE n == used["play"]
           r == Polled
           a == Resting(r, "Stopped")
           v == SetPhase(a, "Ended")
<1>2. Base(r, n) /\ n \in Sessions /\ Goes(world, r)
  BY <1>1, PolledIs, PlaysCount, WorldIs
<1>3. Become(v)
  BY DEF OnPipelineFinished, Resting
<1> HIDE DEF n, r
<1>4. /\ Base(a, n)
      /\ \/ Halts(r, a) /\ a.player.state = "Stopped"
         \/ r.player.pending # NoPlay /\ Begins(r, a, r.player.pending)
  BY <1>2, RestingIs
<1> HIDE DEF a
<1>5. Base(v, n) /\ Notes(a, v) /\ v.player.state = a.player.state
      /\ v.player.pending = a.player.pending
  BY <1>4, SetPhaseIs DEF Phases
<1> HIDE DEF v
<1>6. \/ Halts(r, v) /\ v.player.state = "Stopped"
      \/ r.player.pending # NoPlay /\ Begins(r, v, r.player.pending)
  BY <1>4, <1>5 DEF Notes, Halts, Begins
<1>7. Over(world, v) /\ Rested(v)
  BY <1>2, <1>6, OverIs
<1> QED BY <1>1, <1>3, <1>5, <1>7, Reached DEF n

LEMMA OnPipelineErrorIs ==
  ASSUME PlayerInv, OnPipelineError
  PROVE  PlayerInv' /\ Over(world, world')
<1>1. bus # <<>> /\ UNCHANGED <<words, used>> /\ Become(Fail(Polled))
  BY DEF OnPipelineError, Heard
<1> DEFINE n == used["play"]
           r == Polled
           v == Fail(r)
<1>2. Base(r, n) /\ n \in Sessions /\ Goes(world, r)
  BY <1>1, PolledIs, PlaysCount, WorldIs
<1>3. Become(v)
  BY <1>1
<1> HIDE DEF n, r
<1>4. /\ Base(v, n)
      /\ \/ Halts(r, v) /\ v.player.state = "Error"
         \/ r.player.pending # NoPlay /\ Begins(r, v, r.player.pending)
  BY <1>2, FailIs
<1> HIDE DEF v
<1>5. Over(world, v) /\ Rested(v)
  BY <1>2, <1>4, OverIs
<1> QED BY <1>1, <1>3, <1>4, <1>5, Reached DEF n

LEMMA OnPositionIs ==
  ASSUME PlayerInv, OnPosition
  PROVE  /\ PlayerInv' /\ player.state = "Buffering" /\ ~pipe.fresh
         /\ \/ Moves(world, world') /\ world'.player.state = "Playing"
            \/ Over(world, world')
<1> DEFINE n == used["play"]
           w == world
           v == SetState(w, "Playing")
<1>1. Become(v) /\ UNCHANGED <<words, used>> /\ player.state = "Buffering" /\ ~pipe.fresh
  BY DEF OnPosition
<1>2. Base(w, n) /\ n \in Sessions
  BY PlaysCount DEF PlayerInv
<1> HIDE DEF n, w
<1>3. /\ Base(v, n) /\ Rested(v)
      /\ \/ Moves(w, v) /\ v.player.state = "Playing"
         \/ w.player.pending # NoPlay /\ Begins(w, v, w.player.pending)
  BY <1>2, ShowIs DEF Active
<1> HIDE DEF v
<1>4. PlayerInv' /\ world' = v
  BY <1>1, <1>3, Reached DEF n
<1>5. w.player.pending # NoPlay /\ Begins(w, v, w.player.pending) => Over(w, v)
  BY OverIs, GoesSelf
<1> QED BY <1>1, <1>3, <1>4, <1>5 DEF w

LEMMA OnGlContextLostIs ==
  ASSUME PlayerInv, OnGlContextLost
  PROVE  /\ PlayerInv'
         /\ \/ Goes(world, world')
            \/ player.state \in Active /\ Opens(world, world', pipe.session)
<1>1. mail # <<>> /\ UNCHANGED <<words, used>>
  BY DEF OnGlContextLost, Got
<1>2. PICK t \in Targets :
        Become(IF player.state \in {"Playing", "Paused", "Buffering"}
               THEN RebuildAndReseek(Read, t) ELSE Read)
  BY DEF OnGlContextLost
<1> DEFINE n == used["play"]
           r == Read
           v == RebuildAndReseek(r, t)
<1>3. Base(r, n) /\ n \in Sessions /\ r.pipe.session = pipe.session
  BY <1>1, ReadIs, PlaysCount
<1> HIDE DEF n, r
<1>4. Base(v, n) /\ Opens(r, v, pipe.session)
  BY <1>3, RebuildAndReseekIs
<1>5. Become(IF player.state \in Active THEN v ELSE r)
  BY <1>2 DEF r, Active
<1> HIDE DEF v
<1>6. Rested(v)
  BY <1>4, AwakeRests DEF Opens, Active
<1>7. Opens(world, v, pipe.session)
  BY <1>1, <1>4, OpenedFromRead DEF r
<1>8. CASE player.state \in Active
  BY <1>1, <1>4, <1>5, <1>6, <1>7, <1>8, Reached DEF n
<1>9. CASE player.state \notin Active
  BY <1>1, <1>5, <1>9, ReadIs, Reached DEF n, r
<1> QED BY <1>8, <1>9

-----------------------------------------------------------------------------
(* The handlers of the policy's answers                                    *)

LEMMA ToldOn ==
  ASSUME PlayerInv, NEW word, Told(word), NEW w, Become(w),
         Base(w, used["play"]), Rested(w)
  PROVE  PlayerInv' /\ world' = w
<1>1. world' = w /\ words' \in Seq(Answers) /\ used' = used
  BY Becomes DEF Base, PlayerInv, Told
<1> QED BY <1>1 DEF PlayerInv

LEMMA WorldBase ==
  ASSUME PlayerInv
  PROVE  Base(world, used["play"]) /\ used["play"] \in Sessions /\ Rested(world)
BY PlaysCount DEF PlayerInv

LEMMA OnGrantedIs ==
  ASSUME PlayerInv, OnGranted
  PROVE  /\ PlayerInv'
         /\ \/ Goes(world, world')
            \/ /\ player.state = "Paused"
               /\ \/ Moves(world, world') /\ world'.player.state = "Playing"
                  \/ Over(world, world')
<1> DEFINE n == used["play"]
           w == world
<1>1. Base(w, n) /\ n \in Sessions /\ Rested(w)
  BY WorldBase
<1>2. Told("granted")
  BY DEF OnGranted
<1>3. w.player = player /\ w.pump = pump /\ w.player \in Players
  BY <1>1, WorldIs, WorldParts DEF Base
<1>4. CASE ~player.granted
  <2>1. PICK target \in Gates, seekable \in Seekables :
          Become([w EXCEPT !.player.granted = TRUE,
                    !.pump = [ClosedPump EXCEPT !.session = player.session,
                                !.dual = player.dual, !.target = target,
                                !.seekable = seekable]])
    BY <1>4 DEF OnGranted
  <2> DEFINE p == [player EXCEPT !.granted = TRUE]
             q == [ClosedPump EXCEPT !.session = player.session, !.dual = player.dual,
                                     !.target = target, !.seekable = seekable]
             a == [w EXCEPT !.player = p]
             v == [a EXCEPT !.pump = q]
  <2>2. v = [w EXCEPT !.player.granted = TRUE, !.pump = q]
    BY <1>1, <1>3, WorldParts DEF Base
  <2>3. Become(v)
    <3> HIDE DEF v, w
    <3> QED BY <2>1, <2>2
  <2>4. /\ p \in Players /\ p.session = player.session /\ p.dual = player.dual
        /\ p.pending = player.pending /\ p.state = player.state
        /\ p.seekable = player.seekable
    BY <1>3 DEF Players
  <2>5. q \in Pumps /\ q.session = player.session
    <3>1. /\ target \subseteq Lanes /\ seekable \in BOOLEAN
          /\ player.session \in Sessions /\ player.dual \in BOOLEAN
      BY <1>3, PlayerAssumption DEF Players
    <3> QED BY <3>1, PlaysAre DEF Pumps, ClosedPump
  <2> HIDE DEF w, n, p, q
  <2>6. Base(a, n) /\ a.player = p /\ Goes(w, a)
    BY <1>1, <1>3, <2>4, Noted
  <2> HIDE DEF a
  <2>7. q.session <= a.player.session
    <3>1. q.session \in Nat
      BY <2>5, PlaysAre DEF Pumps
    <3> QED BY <2>4, <2>5, <2>6, <3>1
  <2>8. Base(v, n) /\ Commands(a, v)
    BY <2>5, <2>6, <2>7, PumpSet
  <2> HIDE DEF v
  <2>9. Goes(w, v)
    BY <2>6, <2>8, CommandsMoves, GoesOn
  <2>10. Rested(v)
    BY <1>1, <2>9, RestsOn DEF Goes
  <2> QED BY <1>2, <2>3, <2>8, <2>9, <2>10, ToldOn DEF n, w
<1>5. CASE player.granted /\ player.state = "Paused"
  <2> DEFINE a == PipePlay(w)
             v == SetState(a, "Playing")
  <2>1. Become(v)
    BY <1>5 DEF OnGranted
  <2> HIDE DEF w, n
  <2>2. Base(a, n) /\ Goes(w, a)
    BY <1>1, PipePlayIs, DrivesMoves
  <2> HIDE DEF a
  <2>5. /\ Base(v, n) /\ Rested(v)
        /\ \/ Moves(a, v) /\ v.player.state = "Playing"
           \/ a.player.pending # NoPlay /\ Begins(a, v, a.player.pending)
    BY <1>1, <2>2, ShowIs DEF Active
  <2> HIDE DEF v
  <2>6. Moves(a, v) => Moves(w, v)
    BY <2>2, MovesOn DEF Goes
  <2>7. a.player.pending # NoPlay /\ Begins(a, v, a.player.pending) => Over(w, v)
    BY <2>2, OverIs
  <2>8. PlayerInv' /\ world' = v
    BY <1>2, <2>1, <2>5, ToldOn DEF n
  <2> QED BY <1>5, <2>5, <2>6, <2>7, <2>8 DEF w
<1>6. CASE player.granted /\ player.state # "Paused"
  BY <1>1, <1>2, <1>6, ToldOn, GoesSelf DEF OnGranted
<1> QED BY <1>4, <1>5, <1>6

LEMMA OnLostIs ==
  ASSUME PlayerInv, OnLost
  PROVE  PlayerInv' /\ Moves(world, world') /\ world'.player.state = "Paused"
<1> DEFINE n == used["play"]
           w == world
           a == PipePause(w)
           b == SetState(a, "Paused")
           v == SetPhase(b, "Interrupted")
<1>1. Base(w, n) /\ n \in Sessions
  BY WorldBase
<1>2. Told("lost") /\ Become(v)
  BY DEF OnLost
<1> HIDE DEF n, w
<1>3. Base(a, n) /\ Goes(w, a)
  BY <1>1, PipePauseIs, DrivesMoves
<1> HIDE DEF a
<1>4. Base(b, n) /\ Moves(a, b) /\ b.player.state = "Paused"
  BY <1>1, <1>3, ShowIs DEF Active
<1> HIDE DEF b
<1>5. Base(v, n) /\ Goes(b, v)
  BY <1>4, PhaseGoes DEF Phases
<1> HIDE DEF v
<1>6. Moves(w, v) /\ v.player.state = "Paused"
  BY <1>3, <1>4, <1>5, MovesOn DEF Goes
<1>7. Rested(v)
  BY <1>6, AwakeRests DEF Active
<1> QED BY <1>2, <1>5, <1>6, <1>7, ToldOn DEF n, w

LEMMA OnDeniedIs ==
  ASSUME PlayerInv, OnDenied
  PROVE  PlayerInv' /\ Over(world, world')
<1> DEFINE n == used["play"]
           w == world
           v == Fail(w)
<1>1. Base(w, n) /\ n \in Sessions
  BY WorldBase
<1>2. Told("denied") /\ Become(v)
  BY DEF OnDenied
<1> HIDE DEF n, w
<1>3. /\ Base(v, n)
      /\ \/ Halts(w, v) /\ v.player.state = "Error"
         \/ w.player.pending # NoPlay /\ Begins(w, v, w.player.pending)
  BY <1>1, FailIs
<1> HIDE DEF v
<1>4. Over(w, v) /\ Rested(v)
  BY <1>3, GoesSelf, OverIs
<1> QED BY <1>2, <1>3, <1>4, ToldOn DEF n, w

LEMMA OnReleasedByManagerIs ==
  ASSUME PlayerInv, OnReleasedByManager
  PROVE  PlayerInv' /\ Over(world, world')
<1> DEFINE n == used["play"]
           w == world
           a == Teardown(w)
           b == SetState(a, "Stopped")
           v == SetPhase(b, "NoPhase")
<1>1. Base(w, n) /\ n \in Sessions
  BY WorldBase
<1>2. Told("released") /\ Become(v)
  BY DEF OnReleasedByManager
<1> HIDE DEF n, w
<1>3. /\ Base(a, n) /\ ~a.pipe.built /\ a.pipe.session = w.pipe.session
      /\ a.player = w.player /\ a.mail = w.mail
  BY <1>1, TeardownIs
<1> HIDE DEF a
<1>4. /\ Base(b, n)
      /\ \/ Notes(a, b) /\ b.player.state = "Stopped"
         \/ a.player.pending # NoPlay /\ Begins(a, b, a.player.pending)
  BY <1>1, <1>3, SetStateIs DEF States
<1> HIDE DEF b
<1>5. /\ Base(v, n) /\ Notes(b, v)
      /\ v.player.state = b.player.state /\ v.player.pending = b.player.pending
  BY <1>4, SetPhaseIs DEF Phases
<1> HIDE DEF v
<1>6. \/ Halts(w, v) /\ v.player.state = "Stopped"
      \/ w.player.pending # NoPlay /\ Begins(w, v, w.player.pending)
  BY <1>3, <1>4, <1>5 DEF Notes, Halts, Begins
<1>7. Over(w, v) /\ Rested(v)
  BY <1>6, GoesSelf, OverIs
<1> QED BY <1>2, <1>5, <1>7, ToldOn DEF n, w

-----------------------------------------------------------------------------
(* The player page                                                         *)

LEMMA SpendIs ==
  ASSUME PlayerInv, NEW a \in Acts, Spend(a)
  PROVE  /\ used' \in [Acts -> Nat] /\ used'["play"] <= Budget["play"]
         /\ used'["play"] = IF a = "play" THEN used["play"] + 1 ELSE used["play"]
<1>1. /\ used \in [Acts -> Nat] /\ used["play"] <= Budget["play"]
      /\ used[a] < Budget[a] /\ used' = [used EXCEPT ![a] = @ + 1]
      /\ Budget \in [Acts -> Nat] /\ "play" \in Acts
  BY PlayerAssumption DEF PlayerInv, Spend, Acts
<1> QED BY <1>1

LEMMA Acted ==
  ASSUME PlayerInv, NEW a \in Acts, a # "play", Spend(a), words' = words,
         NEW w, Become(w), Base(w, used["play"]), Rested(w)
  PROVE  PlayerInv' /\ world' = w
<1>1. world' = w
  BY Becomes DEF Base
<1> QED BY <1>1, SpendIs DEF PlayerInv

LEMMA BaseGrows ==
  ASSUME NEW n \in Nat, NEW k \in Nat, n <= k, NEW w, Base(w, n)
  PROVE  Base(w, k)
<1>1. w.player.session \in Nat
  BY WorldParts, PlaysAre DEF Base, Players
<1>2. Begun(w) \in Nat
  BY <1>1 DEF Begun
<1> QED BY <1>2 DEF Base

LEMMA UserPlayIs ==
  ASSUME PlayerInv, NEW kind \in Kinds, UserPlay(kind)
  PROVE  /\ PlayerInv'
         /\ \/ /\ MidPreroll(world) /\ Notes(world, world')
               /\ world'.player.state = player.state /\ world'.player.pending = kind
            \/ ~MidPreroll(world) /\ Begins(world, world', kind)
<1> DEFINE n == used["play"]
           k == used'["play"]
           w == world
           v == Play(w, kind)
<1>1. Spend("play") /\ Become(v) /\ words' = words
  BY DEF UserPlay
<1>2. Base(w, n) /\ n \in Sessions /\ Rested(w) /\ kind \in {"single", "dual"}
  BY WorldBase, PlayerAssumption
<1>3. /\ used' \in [Acts -> Nat] /\ k <= Budget["play"] /\ k = n + 1
  BY <1>1, SpendIs DEF Acts
<1>4. n \in Nat /\ k \in Sessions /\ k \in Nat /\ n <= k
  BY <1>2, <1>3, PlaysAre DEF Sessions
<1> HIDE DEF n, k, w
<1>5. w.player.session + 1 <= k /\ Base(w, k)
  <2>1. w.player.session \in Nat
    BY <1>2, WorldParts, PlaysAre DEF Base, Players
  <2> QED BY <1>2, <1>3, <1>4, <2>1, BaseGrows DEF Base, Begun
<1>6. /\ Base(v, k)
      /\ \/ /\ MidPreroll(w) /\ Notes(w, v)
            /\ v.player.state = w.player.state /\ v.player.pending = kind
         \/ ~MidPreroll(w) /\ Begins(w, v, kind)
  BY <1>2, <1>4, <1>5, PlayIs
<1> HIDE DEF v
<1>7. world' = v
  BY <1>1, <1>6, Becomes DEF Base
<1>8. Rested(v)
  BY <1>2, <1>6, AwakeRests DEF MidPreroll, Begins, Active
<1>9. PlayerInv'
  BY <1>1, <1>3, <1>6, <1>7, <1>8 DEF PlayerInv, k
<1> QED BY <1>6, <1>7, <1>9, WorldIs DEF w

LEMMA UserStopIs ==
  ASSUME PlayerInv, UserStop
  PROVE  PlayerInv' /\ Over(world, world')
<1> DEFINE n == used["play"]
           w == world
           v == Stop(w)
<1>1. Spend("stop") /\ Become(v) /\ words' = words /\ "stop" \in Acts
  BY DEF UserStop, Acts
<1>2. Base(w, n) /\ n \in Sessions
  BY WorldBase
<1> HIDE DEF n, w
<1>3. Base(v, n) /\ Halts(w, v) /\ v.player.state = "Stopped"
  BY <1>2, StopIs
<1> HIDE DEF v
<1>4. Over(w, v) /\ Rested(v)
  BY <1>3, GoesSelf, OverIs
<1> QED BY <1>1, <1>3, <1>4, Acted DEF n, w

LEMMA UserPauseIs ==
  ASSUME PlayerInv, UserPause
  PROVE  /\ PlayerInv' /\ player.state = "Playing"
         /\ Moves(world, world') /\ world'.player.state = "Paused"
<1> DEFINE n == used["play"]
           w == world
           a == PipePause(w)
           v == SetState(a, "Paused")
<1>1. /\ Spend("pause") /\ Become(v) /\ words' = words /\ "pause" \in Acts
      /\ player.state = "Playing"
  BY DEF UserPause, Acts
<1>2. Base(w, n) /\ n \in Sessions
  BY WorldBase
<1> HIDE DEF n, w
<1>3. Base(a, n) /\ Goes(w, a)
  BY <1>2, PipePauseIs, DrivesMoves
<1> HIDE DEF a
<1>4. Base(v, n) /\ Rested(v) /\ Moves(a, v) /\ v.player.state = "Paused"
  BY <1>2, <1>3, ShowIs DEF Active
<1> HIDE DEF v
<1>5. Moves(w, v)
  BY <1>3, <1>4, MovesOn DEF Goes
<1> QED BY <1>1, <1>4, <1>5, Acted DEF n, w

LEMMA UserResumeIs ==
  ASSUME PlayerInv, UserResume
  PROVE  /\ PlayerInv' /\ player.state = "Paused"
         /\ \/ Moves(world, world') /\ world'.player.state = "Playing"
            \/ Over(world, world')
<1> DEFINE n == used["play"]
           w == world
           a == PipePlay(w)
           v == SetState(a, "Playing")
<1>1. /\ Spend("resume") /\ Become(v) /\ words' = words /\ "resume" \in Acts
      /\ player.state = "Paused"
  BY DEF UserResume, Acts
<1>2. Base(w, n) /\ n \in Sessions
  BY WorldBase
<1> HIDE DEF n, w
<1>3. Base(a, n) /\ Goes(w, a)
  BY <1>2, PipePlayIs, DrivesMoves
<1> HIDE DEF a
<1>4. /\ Base(v, n) /\ Rested(v)
      /\ \/ Moves(a, v) /\ v.player.state = "Playing"
         \/ a.player.pending # NoPlay /\ Begins(a, v, a.player.pending)
  BY <1>2, <1>3, ShowIs DEF Active
<1> HIDE DEF v
<1>5. Moves(a, v) => Moves(w, v)
  BY <1>3, MovesOn DEF Goes
<1>6. a.player.pending # NoPlay /\ Begins(a, v, a.player.pending) => Over(w, v)
  BY <1>3, OverIs
<1>7. PlayerInv' /\ world' = v
  BY <1>1, <1>4, Acted DEF n
<1> QED BY <1>1, <1>4, <1>5, <1>6, <1>7 DEF w

LEMMA UserSeekIs ==
  ASSUME PlayerInv, NEW t \in Targets, UserSeek(t)
  PROVE  /\ PlayerInv' /\ player.seekable
         /\ \/ player.dual /\ Goes(world, world')
            \/ /\ player.state = "Playing" /\ world'.player.state = "Buffering"
               /\ Moves(world, world')
            \/ ~player.dual /\ Opens(world, world', pipe.session)
<1> DEFINE n == used["play"]
           w == world
           a == DoRawSeek(w, t)
           b == RebuildAndReseek(w, t)
<1>1. /\ Spend("seek") /\ words' = words /\ "seek" \in Acts /\ player.seekable
      /\ Become(IF player.dual THEN a ELSE b)
  BY DEF UserSeek, Acts
<1>2. Base(w, n) /\ n \in Sessions /\ w.player = player /\ w.pipe = pipe /\ Rested(w)
  BY WorldBase, WorldIs
<1> HIDE DEF n, w
<1>3. CASE player.dual
  <2>1. /\ Base(a, n) /\ Moves(w, a)
        /\ a.player.state = w.player.state
           \/ (w.player.state = "Playing" /\ a.player.state = "Buffering")
    BY <1>2, DoRawSeekIs
  <2> HIDE DEF a
  <2>2. Rested(a)
    BY <1>2, <2>1, RestsOn DEF Active
  <2>3. PlayerInv' /\ world' = a
    BY <1>1, <1>3, <2>1, <2>2, Acted DEF n
  <2> QED BY <1>1, <1>2, <1>3, <2>1, <2>3 DEF Goes, w
<1>4. CASE ~player.dual
  <2>1. Base(b, n) /\ Opens(w, b, pipe.session)
    BY <1>2, RebuildAndReseekIs
  <2> HIDE DEF b
  <2>2. Rested(b)
    BY <2>1, AwakeRests DEF Opens, Active
  <2>3. PlayerInv' /\ world' = b
    BY <1>1, <1>4, <2>1, <2>2, Acted DEF n
  <2> QED BY <1>1, <1>4, <2>1, <2>3 DEF w
<1> QED BY <1>3, <1>4

-----------------------------------------------------------------------------
(* The manager, the pump and the pipeline                                  *)

Counted == used' \in [Acts -> Nat] /\ used'["play"] = used["play"]

LEMMA CountedIs ==
  ASSUME PlayerInv, UNCHANGED used \/ \E a \in Acts \ {"play"} : Spend(a)
  PROVE  Counted
BY SpendIs DEF Counted, PlayerInv

LEMMA Went ==
  ASSUME PlayerInv, Counted, words' \in Seq(Answers), Base(world', used["play"]),
         Rested(world')
  PROVE  PlayerInv'
BY DEF PlayerInv, Counted

LEMMA ManagerIs ==
  ASSUME PlayerInv, Manager
  PROVE  PlayerInv' /\ Goes(world, world')
<1>1. PICK from \in SUBSET {"asked", "held", "preempted"}, to \in {"free", "held", "preempted"},
           word \in Answers : Decide(from, to, word)
  <2>1. CASE Grant
    BY <2>1 DEF Grant, Answers
  <2>2. CASE Deny
    BY <2>2 DEF Deny, Answers
  <2>3. CASE Preempt
    BY <2>3 DEF Preempt, Answers
  <2>4. CASE GrantAgain
    BY <2>4 DEF GrantAgain, Answers
  <2>5. CASE Revoke
    BY <2>5 DEF Revoke, Answers
  <2> QED BY <2>1, <2>2, <2>3, <2>4, <2>5 DEF Manager
<1>2. Counted
  BY CountedIs DEF Manager, Grant, Deny, Preempt, GrantAgain, Revoke, Acts
<1> DEFINE n == used["play"]
           q == [policy EXCEPT !.manager = to]
           v == [world EXCEPT !.policy = q]
<1>3. policy \in Policies /\ Base(world, n) /\ Rested(world)
  BY WorldBase, WorldParts, WorldIs DEF Base
<1>4. q \in Policies
  BY <1>3 DEF Policies
<1>5. policy' = q /\ UNCHANGED <<player, pipe, bus, pump, mail>>
      /\ words' = Append(words, word)
  BY <1>1 DEF Decide
<1>6. world' = v
  BY <1>5 DEF world
<1>7. words' \in Seq(Answers)
  BY <1>5 DEF PlayerInv
<1> HIDE DEF q
<1>8. Base(v, n) /\ Commands(world, v)
  BY <1>3, <1>4, PolicySet
<1>9. Goes(world, v) /\ Rested(v)
  BY <1>3, <1>8, CommandsMoves, RestsOn DEF Goes
<1> HIDE DEF v
<1> QED BY <1>2, <1>6, <1>7, <1>8, <1>9, Went

\* From w to v the pump of a session says something.
Tells(w, v) ==
  /\ v.player = w.player /\ v.pipe = w.pipe /\ v.bus = w.bus /\ w.pump.session # 0
  /\ \A i \in DOMAIN v.mail :
       \/ \E j \in DOMAIN w.mail : v.mail[i] = w.mail[j]
       \/ v.mail[i].session = w.pump.session /\ v.mail[i].sig # "glLost"

Saying(sigs) ==
  /\ sigs \in Seq(Letters)
  /\ \A i \in DOMAIN sigs : sigs[i].session = pump.session /\ sigs[i].sig # "glLost"

LEMMA PumpTells ==
  ASSUME PlayerInv, Counted, NEW sigs, Saying(sigs), Post(sigs),
         pump' \in Pumps, pump'.session = pump.session
  PROVE  PlayerInv' /\ Tells(world, world')
<1> DEFINE n == used["play"]
           m == mail \o sigs
           q == pump'
           v == [world EXCEPT !.pump = q, !.mail = m]
<1>1. /\ Base(world, n) /\ Rested(world) /\ mail \in Seq(Letters)
      /\ pump.session <= player.session
  BY WorldBase, WorldParts, WorldIs DEF Base, Dated
<1>2. /\ mail' = m /\ UNCHANGED <<player, pipe, bus, policy, words>> /\ pump.session # 0
  BY DEF Post
<1>4. /\ m \in Seq(Letters)
      /\ \A i \in DOMAIN m : \/ \E j \in DOMAIN mail : m[i] = mail[j]
                             \/ m[i].session = pump.session /\ m[i].sig # "glLost"
  <2>1. m \in Seq(Letters) /\ Len(m) = Len(mail) + Len(sigs)
    BY <1>1, ConcatProperties DEF Saying
  <2>2. \A i \in 1..Len(m) : m[i] = IF i <= Len(mail) THEN mail[i] ELSE sigs[i - Len(mail)]
    BY <1>1, ConcatProperties DEF Saying
  <2> HIDE DEF m
  <2>3. ASSUME NEW i \in 1..Len(m)
        PROVE  \/ \E j \in DOMAIN mail : m[i] = mail[j]
               \/ m[i].session = pump.session /\ m[i].sig # "glLost"
    <3>1. CASE i <= Len(mail)
      BY <1>1, <2>2, <3>1
    <3>2. CASE i > Len(mail)
      <4>1. i - Len(mail) \in DOMAIN sigs /\ m[i] = sigs[i - Len(mail)]
        BY <1>1, <2>1, <2>2, <3>2 DEF Saying
      <4> QED BY <4>1 DEF Saying
    <3> QED BY <1>1, <3>1, <3>2
  <2> QED BY <2>1, <2>3
<1> HIDE DEF m, q
<1>5. /\ v \in Worlds /\ v.player = player /\ v.pipe = pipe /\ v.bus = bus
      /\ v.mail = m /\ v.pump = q /\ v.policy = policy
  BY <1>1, <1>4, WorldIs DEF Base, Worlds, q
<1> HIDE DEF v
<1>3. world' = v
  <2>1. world'.player = player /\ world'.pipe = pipe /\ world'.bus = bus
        /\ world'.mail = m /\ world'.pump = q /\ world'.policy = policy
        /\ world' = [player |-> world'.player, pipe |-> world'.pipe, bus |-> world'.bus,
                     pump |-> world'.pump, mail |-> world'.mail, policy |-> world'.policy]
    BY <1>2 DEF world, q
  <2> QED BY <1>5, <2>1, WorldParts
<1>6. Dated(v)
  BY <1>1, <1>4, <1>5, WorldIs DEF Base, Dated, q
<1>7. Base(v, n) /\ Rested(v)
  BY <1>1, <1>5, <1>6, WorldIs DEF Base, Owes, Piped, Begun, Rested
<1>8. Tells(world, v)
  BY <1>2, <1>4, <1>5, WorldIs DEF Tells
<1>9. words' \in Seq(Answers)
  BY <1>2 DEF PlayerInv
<1> QED BY <1>3, <1>7, <1>8, <1>9, Went

Sayings == {"videoOpened", "audioOpened", "demuxing", "esReady", "videoFinished",
            "audioFinished", "failed", "short", "refilled", "videoProgress",
            "audioProgress", "loading"}

LEMMA SignalIs ==
  ASSUME PlayerInv, NEW sig \in Sayings
  PROVE  /\ Signal(sig) \in Letters /\ Signal(sig).session = pump.session
         /\ Signal(sig).sig = sig
         /\ \A full \in SUBSET Lanes :
              LET m == [Signal(sig) EXCEPT !.full = full]
              IN  m \in Letters /\ m.session = pump.session /\ m.sig = sig
<1>1. pump \in Pumps
  BY WorldBase, WorldParts, WorldIs DEF Base
<1> QED BY <1>1 DEF Signal, Letters, Pumps, Sayings

LEMMA SayingOne ==
  ASSUME NEW m \in Letters, m.session = pump.session, m.sig # "glLost"
  PROVE  Saying(<<m>>)
BY DEF Saying

LEMMA SayingNone == Saying(<<>>)
<1>1. <<>> \in Seq(Letters)
  OBVIOUS
<1> QED BY <1>1 DEF Saying

LEMMA SayingTwo ==
  ASSUME NEW m \in Letters, m.session = pump.session, m.sig # "glLost",
         NEW k \in Letters, k.session = pump.session, k.sig # "glLost"
  PROVE  Saying(<<m, k>>)
BY DEF Saying

LEMMA SayingBoth ==
  ASSUME NEW a, Saying(a), NEW b, Saying(b)
  PROVE  Saying(a \o b)
<1> DEFINE c == a \o b
<1>1. /\ a \in Seq(Letters) /\ b \in Seq(Letters)
      /\ c \in Seq(Letters) /\ Len(c) = Len(a) + Len(b)
      /\ \A i \in 1..Len(c) : c[i] = IF i <= Len(a) THEN a[i] ELSE b[i - Len(a)]
  BY ConcatProperties DEF Saying
<1> HIDE DEF c
<1>2. ASSUME NEW i \in 1..Len(c)
      PROVE  c[i].session = pump.session /\ c[i].sig # "glLost"
  <2>1. CASE i <= Len(a)
    BY <1>1, <2>1 DEF Saying
  <2>2. CASE i > Len(a)
    <3>1. i - Len(a) \in DOMAIN b /\ c[i] = b[i - Len(a)]
      BY <1>1, <2>2
    <3> QED BY <3>1 DEF Saying
  <2> QED BY <1>1, <2>1, <2>2
<1>3. Saying(c)
  BY <1>1, <1>2 DEF Saying
<1> QED BY <1>3 DEF c

LEMMA SaysIs ==
  ASSUME PlayerInv, NEW sig \in Sayings
  PROVE  Saying(<<Signal(sig)>>)
<1> DEFINE m == Signal(sig)
<1>1. m \in Letters /\ m.session = pump.session /\ m.sig = sig
  BY SignalIs
<1> HIDE DEF m
<1>2. Saying(<<m>>)
  BY <1>1, SayingOne DEF Sayings
<1> QED BY <1>2 DEF m

LEMMA FillsIs ==
  ASSUME PlayerInv, NEW sig \in Sayings, NEW full \in SUBSET Lanes
  PROVE  Saying(<<[Signal(sig) EXCEPT !.full = full]>>)
<1> DEFINE m == [Signal(sig) EXCEPT !.full = full]
<1>1. m \in Letters /\ m.session = pump.session /\ m.sig = sig
  BY SignalIs
<1> HIDE DEF m
<1>2. Saying(<<m>>)
  BY <1>1, SayingOne DEF Sayings
<1> QED BY <1>2 DEF m

LEMMA LanesSay ==
  ASSUME NEW l \in Lanes
  PROVE  Opened[l] \in Sayings /\ Progress[l] \in Sayings /\ Finished[l] \in Sayings
BY DEF Lanes, Opened, Progress, Finished, Sayings

LEMMA PumpTyped ==
  ASSUME PlayerInv
  PROVE  pump \in Pumps
BY WorldBase, WorldParts, WorldIs DEF Base

LEMMA PumpOpenedIs ==
  ASSUME PlayerInv, NEW l \in Lanes, PumpOpened(l)
  PROVE  PlayerInv' /\ Tells(world, world')
<1>1. PICK filled \in SUBSET {l} :
        LET full == pump.full \cup (filled \cap pump.target)
        IN  /\ Post(<<[Signal(Opened[l]) EXCEPT !.full = full]>>)
            /\ pump' = [pump EXCEPT !.told = @ \cup {l}, !.full = full]
  BY DEF PumpOpened
<1> DEFINE full == pump.full \cup (filled \cap pump.target)
           sigs == <<[Signal(Opened[l]) EXCEPT !.full = full]>>
<1>2. pump \in Pumps /\ full \in SUBSET Lanes
  BY PumpTyped DEF Pumps
<1>3. Post(sigs) /\ pump' = [pump EXCEPT !.told = @ \cup {l}, !.full = full]
  BY <1>1
<1> HIDE DEF full
<1>4. pump' \in Pumps /\ pump'.session = pump.session
  BY <1>2, <1>3 DEF Pumps, Lanes
<1>5. Saying(sigs)
  BY <1>2, FillsIs, LanesSay
<1>6. Counted
  BY CountedIs DEF PumpOpened
<1> HIDE DEF sigs
<1> QED BY <1>3, <1>4, <1>5, <1>6, PumpTells

LEMMA PumpReadyIs ==
  ASSUME PlayerInv, PumpReady
  PROVE  PlayerInv' /\ Tells(world, world')
<1> DEFINE m == Signal("demuxing")
           k == Signal("esReady")
           sigs == <<m, k>>
<1>1. Post(sigs) /\ pump' = [pump EXCEPT !.told = @ \cup {"es"}] /\ pump \in Pumps
  BY PumpTyped DEF PumpReady
<1>2. pump' \in Pumps /\ pump'.session = pump.session
  BY <1>1 DEF Pumps
<1>3. /\ m \in Letters /\ m.session = pump.session /\ m.sig # "glLost"
      /\ k \in Letters /\ k.session = pump.session /\ k.sig # "glLost"
  BY SignalIs DEF Sayings
<1> HIDE DEF m, k
<1>4. Saying(sigs)
  BY <1>3, SayingTwo
<1>5. Counted
  BY CountedIs DEF PumpReady
<1> HIDE DEF sigs
<1> QED BY <1>1, <1>2, <1>4, <1>5, PumpTells

LEMMA PumpFillsIs ==
  ASSUME PlayerInv, NEW l \in Lanes, PumpFills(l)
  PROVE  PlayerInv' /\ Tells(world, world')
<1> DEFINE full == pump.full \cup {l}
           sigs == <<[Signal(Progress[l]) EXCEPT !.full = full]>>
<1>1. pump \in Pumps /\ full \in SUBSET Lanes
  BY PumpTyped DEF Pumps
<1>2. pump' = [pump EXCEPT !.full = @ \cup {l}]
      /\ Post(<<[Signal(Progress[l]) EXCEPT !.full = @ \cup {l}]>>)
  BY DEF PumpFills
<1>3. Signal(Progress[l]).full = pump.full
  BY DEF Signal
<1>4. Post(sigs)
  BY <1>2, <1>3
<1>5. pump' \in Pumps /\ pump'.session = pump.session
  BY <1>1, <1>2 DEF Pumps
<1> HIDE DEF full
<1>6. Saying(sigs)
  BY <1>1, FillsIs, LanesSay
<1>7. Counted
  BY CountedIs DEF PumpFills
<1> HIDE DEF sigs
<1> QED BY <1>4, <1>5, <1>6, <1>7, PumpTells

LEMMA PumpFlushesIs ==
  ASSUME PlayerInv, PumpFlushes
  PROVE  PlayerInv' /\ Tells(world, world')
<1> DEFINE sigs == IF pump.hold = "short" THEN <<Signal("refilled")>> ELSE <<>>
<1>1. Post(sigs) /\ pump' = [pump EXCEPT !.hold = "flushed"] /\ pump \in Pumps
  BY PumpTyped DEF PumpFlushes
<1>2. pump' \in Pumps /\ pump'.session = pump.session
  BY <1>1 DEF Pumps
<1>3. Saying(sigs)
  BY SaysIs, SayingNone DEF Sayings
<1>4. Counted
  BY CountedIs DEF PumpFlushes
<1> HIDE DEF sigs
<1> QED BY <1>1, <1>2, <1>3, <1>4, PumpTells

LEMMA PumpLoadsIs ==
  ASSUME PlayerInv, PumpLoads
  PROVE  PlayerInv' /\ Tells(world, world')
<1> DEFINE sigs == <<Signal("loading")>>
<1>1. Post(sigs) /\ pump' = pump /\ pump \in Pumps
  BY PumpTyped DEF PumpLoads
<1>2. Saying(sigs)
  BY SaysIs DEF Sayings
<1>3. Counted
  BY CountedIs DEF PumpLoads
<1> HIDE DEF sigs
<1> QED BY <1>1, <1>2, <1>3, PumpTells

LEMMA PumpRunsShortIs ==
  ASSUME PlayerInv, PumpRunsShort
  PROVE  PlayerInv' /\ Tells(world, world')
<1> DEFINE sigs == <<Signal("short")>>
<1>1. Post(sigs) /\ pump' = [pump EXCEPT !.hold = "short"] /\ pump \in Pumps
  BY PumpTyped DEF PumpRunsShort
<1>2. pump' \in Pumps /\ pump'.session = pump.session
  BY <1>1 DEF Pumps
<1>3. Saying(sigs)
  BY SaysIs DEF Sayings
<1>4. Counted
  BY CountedIs DEF PumpRunsShort
<1> HIDE DEF sigs
<1> QED BY <1>1, <1>2, <1>3, <1>4, PumpTells

LEMMA PumpFailsIs ==
  ASSUME PlayerInv, PumpFails
  PROVE  PlayerInv' /\ Tells(world, world')
<1> DEFINE sigs == <<Signal("failed")>>
<1>1. Post(sigs) /\ pump' = [pump EXCEPT !.told = @ \cup {"failed"}] /\ pump \in Pumps
  BY PumpTyped DEF PumpFails
<1>2. pump' \in Pumps /\ pump'.session = pump.session
  BY <1>1 DEF Pumps
<1>3. Saying(sigs)
  BY SaysIs DEF Sayings
<1>4. Counted
  BY CountedIs DEF PumpFails, Acts
<1> HIDE DEF sigs
<1> QED BY <1>1, <1>2, <1>3, <1>4, PumpTells

LEMMA PumpEndsIs ==
  ASSUME PlayerInv, NEW l \in Lanes, PumpEnds(l)
  PROVE  PlayerInv' /\ Tells(world, world')
<1> DEFINE flushed == l = "video" /\ pump.configured
           r == Signal("refilled")
           f == Signal(Finished[l])
           head == IF flushed /\ pump.hold = "short" THEN <<r>> ELSE <<>>
           sigs == head \o <<f>>
<1>1. /\ Post(sigs) /\ pump \in Pumps
      /\ pump' = [pump EXCEPT !.ended = @ \cup {l}, !.hold = IF flushed THEN "flushed" ELSE @]
  BY PumpTyped DEF PumpEnds
<1>2. pump' \in Pumps /\ pump'.session = pump.session
  <2> HIDE DEF flushed
  <2> QED BY <1>1 DEF Pumps
<1>3. Saying(<<r>>) /\ Saying(<<f>>)
  BY SaysIs, LanesSay DEF Sayings
<1>4. Saying(head)
  BY <1>3, SayingNone
<1> HIDE DEF head
<1>5. Saying(sigs)
  BY <1>3, <1>4, SayingBoth
<1>7. Counted
  BY CountedIs DEF PumpEnds
<1> HIDE DEF sigs
<1> QED BY <1>1, <1>2, <1>5, <1>7, PumpTells

LEMMA PumpIs ==
  ASSUME PlayerInv, PumpWorks \/ PumpMay
  PROVE  PlayerInv' /\ Tells(world, world')
BY PumpOpenedIs, PumpReadyIs, PumpFillsIs, PumpFlushesIs, PumpLoadsIs, PumpRunsShortIs,
   PumpFailsIs, PumpEndsIs DEF PumpWorks, PumpMay

\* From w to v the preroll is over.
Prerolls(w, v) ==
  /\ v.player = w.player /\ v.mail = w.mail /\ v.pump = w.pump
  /\ v.pipe.built = w.pipe.built /\ v.pipe.session = w.pipe.session /\ ~v.pipe.fresh

LEMMA PrerollIs ==
  ASSUME PlayerInv, Preroll
  PROVE  PlayerInv' /\ Prerolls(world, world')
<1> DEFINE n == used["play"]
           p == [pipe EXCEPT !.at = pipe.want, !.fresh = FALSE]
           b == Append(bus, "asyncdone")
                  \o (IF pipe.want = "playing" THEN <<"playing">> ELSE <<>>)
           v == [world EXCEPT !.pipe = p, !.bus = b]
<1>1. /\ Base(world, n) /\ Rested(world) /\ pipe \in Pipes /\ bus \in Seq(Messages)
  BY WorldBase, WorldParts, WorldIs DEF Base
<1>2. /\ pipe.at = "prerolling" /\ pipe' = p /\ bus' = b
      /\ UNCHANGED <<player, pump, mail, policy, words, used>>
  BY DEF Preroll
<1>3. pipe.built /\ pipe.built = TRUE
  BY <1>1, <1>2, WorldIs DEF Base, Piped, Pipes
<1>4. /\ p \in Pipes /\ p.built = TRUE /\ p.session = pipe.session /\ ~p.fresh
  BY <1>1, <1>3 DEF Pipes
<1>5. b \in Seq(Messages)
  <2> DEFINE c == Append(bus, "asyncdone")
             d == IF pipe.want = "playing" THEN <<"playing">> ELSE <<>>
  <2>1. c \in Seq(Messages)
    BY <1>1 DEF Messages
  <2>2. d \in Seq(Messages)
    <3>1. <<"playing">> \in Seq(Messages)
      BY DEF Messages
    <3>2. <<>> \in Seq(Messages)
      OBVIOUS
    <3> QED BY <3>1, <3>2
  <2> HIDE DEF c, d
  <2>3. c \o d \in Seq(Messages)
    BY <2>1, <2>2, ConcatProperties
  <2> QED BY <2>3 DEF c, d
<1> HIDE DEF p, b
<1>6. /\ v \in Worlds /\ v.player = player /\ v.pipe = p /\ v.bus = b
      /\ v.mail = mail /\ v.pump = pump /\ v.policy = policy
  BY <1>1, <1>4, <1>5, WorldIs DEF Base, Worlds
<1> HIDE DEF v
<1>7. world' = v
  <2>1. world'.player = player /\ world'.pipe = p /\ world'.bus = b
        /\ world'.mail = mail /\ world'.pump = pump /\ world'.policy = policy
        /\ world' = [player |-> world'.player, pipe |-> world'.pipe, bus |-> world'.bus,
                     pump |-> world'.pump, mail |-> world'.mail, policy |-> world'.policy]
    BY <1>2 DEF world
  <2> QED BY <1>6, <2>1, WorldParts
<1>8. Base(v, n) /\ Rested(v)
  BY <1>1, <1>3, <1>4, <1>6, WorldIs DEF Base, Owes, Piped, Dated, Begun, Rested
<1>9. Prerolls(world, v)
  BY <1>3, <1>4, <1>6, WorldIs DEF Prerolls
<1>10. PlayerInv'
  BY <1>2, <1>7, <1>8, Kept
<1> QED BY <1>7, <1>9, <1>10

LEMMA PipeSaysIs ==
  ASSUME PlayerInv, Counted, NEW msg \in {"eos", "error", "draining", "drained"}, PipeSays(msg)
  PROVE  PlayerInv' /\ Goes(world, world')
<1> DEFINE n == used["play"]
           b == Append(bus, msg)
           v == [world EXCEPT !.bus = b]
<1>1. /\ Base(world, n) /\ Rested(world) /\ bus \in Seq(Messages)
  BY WorldBase, WorldParts, WorldIs DEF Base
<1>2. /\ pipe.at # "ready" /\ bus' = b /\ UNCHANGED <<player, pipe, pump, mail, policy, words>>
  BY DEF PipeSays
<1>3. /\ b \in Seq(Messages)
      /\ \A i \in DOMAIN b : (i \in DOMAIN bus /\ b[i] = bus[i]) \/ b[i] = msg
  BY <1>1 DEF Messages
<1>4. pipe.built
  BY <1>1, <1>2, WorldIs DEF Base, Piped
<1> HIDE DEF b
<1>5. /\ v \in Worlds /\ v.player = player /\ v.pipe = pipe /\ v.bus = b
      /\ v.mail = mail /\ v.pump = pump /\ v.policy = policy
  BY <1>1, <1>3, WorldIs DEF Base, Worlds
<1>6. world' = v
  BY <1>2 DEF world
<1> HIDE DEF v
<1>7. Base(v, n) /\ Rested(v)
  BY <1>1, <1>3, <1>4, <1>5, WorldIs DEF Base, Owes, Piped, Dated, Begun, Rested
<1>8. Goes(world, v)
  BY <1>5, WorldIs DEF Goes, Moves, Posts
<1>9. words' \in Seq(Answers)
  BY <1>2 DEF PlayerInv
<1> QED BY <1>6, <1>7, <1>8, <1>9, Went

LEMMA LoseGlContextIs ==
  ASSUME PlayerInv, LoseGlContext
  PROVE  PlayerInv' /\ Goes(world, world')
<1> DEFINE n == used["play"]
           e == Letter("glLost", pipe.session)
           m == Append(mail, e)
           v == [world EXCEPT !.mail = m]
<1>1. /\ Base(world, n) /\ Rested(world) /\ mail \in Seq(Letters) /\ pipe \in Pipes
  BY WorldBase, WorldParts, WorldIs DEF Base
<1>2. /\ pipe.built /\ mail' = m /\ UNCHANGED <<player, pipe, bus, pump, policy, words>>
  BY DEF LoseGlContext
<1>3. e \in Letters /\ e.session = pipe.session
  BY <1>1 DEF Letter, Letters, Pipes
<1> HIDE DEF e
<1>4. /\ m \in Seq(Letters)
      /\ \A i \in DOMAIN m : (i \in DOMAIN mail /\ m[i] = mail[i]) \/ m[i] = e
  BY <1>1, <1>3
<1> HIDE DEF m
<1>5. /\ v \in Worlds /\ v.player = player /\ v.pipe = pipe /\ v.bus = bus
      /\ v.mail = m /\ v.pump = pump /\ v.policy = policy
  BY <1>1, <1>4, WorldIs DEF Base, Worlds
<1>6. world' = v
  BY <1>2 DEF world
<1> HIDE DEF v
<1>7. Dated(v)
  BY <1>1, <1>3, <1>4, <1>5, WorldIs DEF Base, Dated
<1>8. Base(v, n) /\ Rested(v)
  BY <1>1, <1>5, <1>7, WorldIs DEF Base, Owes, Piped, Begun, Rested
<1>9. Goes(world, v)
  BY <1>2, <1>3, <1>4, <1>5, WorldIs DEF Goes, Moves, Posts
<1>10. Counted /\ words' \in Seq(Answers)
  BY <1>2, CountedIs DEF PlayerInv, LoseGlContext, Acts
<1> QED BY <1>6, <1>8, <1>9, <1>10, Went

LEMMA PipeMayIs ==
  ASSUME PlayerInv, PipeMay
  PROVE  PlayerInv' /\ Goes(world, world')
<1>1. CASE PipeEnds
  BY <1>1, CountedIs, PipeSaysIs DEF PipeEnds
<1>2. CASE PipeFails
  BY <1>2, CountedIs, PipeSaysIs DEF PipeFails, Acts
<1>3. CASE LoseGlContext
  BY <1>3, LoseGlContextIs
<1>4. ASSUME NEW m \in {"draining", "drained"}, PipeBuffers(m)
      PROVE  PlayerInv' /\ Goes(world, world')
  BY <1>4, CountedIs, PipeSaysIs DEF PipeBuffers, Acts
<1> QED BY <1>1, <1>2, <1>3, <1>4 DEF PipeMay

-----------------------------------------------------------------------------
(* The types                                                               *)

LEMMA PlayerInitInv ==
  ASSUME Init
  PROVE  PlayerInv
<1>1. <<>> \in Seq(Messages) /\ <<>> \in Seq(Letters) /\ <<>> \in Seq(Answers)
  OBVIOUS
<1>2. player \in Players
  BY PlaysAre, PlayerAssumption DEF Init, Players, States, Phases, NoPlay
<1>3. pipe \in Pipes
  BY PlaysAre, PlayerAssumption DEF Init, Pipes, NoPipe
<1>4. pump \in Pumps
  BY PlaysAre, PlayerAssumption DEF Init, Pumps, ClosedPump
<1>5. policy \in Policies
  BY DEF Init, Policies
<1>6. world \in Worlds
  BY <1>1, <1>2, <1>3, <1>4, <1>5 DEF Init, world, Worlds
<1>7. used \in [Acts -> Nat] /\ used["play"] = 0
  BY DEF Init, Acts
<1>8. /\ player.pending = NoPlay /\ player.session = 0
      /\ pipe.session = 0 /\ pump.session = 0 /\ ~pipe.built /\ ~pipe.fresh
      /\ pipe.at = "ready" /\ bus = <<>> /\ mail = <<>>
  BY DEF Init, NoPipe, ClosedPump
<1>9. Base(world, 0) /\ Rested(world)
  BY <1>6, <1>8, WorldIs DEF Base, Owes, Piped, Dated, Begun, Rested
<1> QED BY <1>1, <1>7, <1>9, PlaysAre DEF PlayerInv, Init

LEMMA PlayerStutters ==
  ASSUME PlayerInv, UNCHANGED vars
  PROVE  PlayerInv' /\ world' = world
BY DEF vars, PlayerInv, world

LEMMA FromPumpInv ==
  ASSUME PlayerInv, FromPump \/ FromPipe \/ FromAppSrc \/ OnPosition
  PROVE  PlayerInv'
<1>1. CASE FromPump
  BY <1>1, OnPumpVideoOpenedIs, OnPumpAudioOpenedIs, OnDemuxingIs, OnEsReadyIs,
     OnWindowLoadingIs, OnPumpFailedIs, OnPrebufferShortIs, OnPrebufferFullIs,
     OnProgressIs, OnPumpFinishedIs DEF FromPump
<1>2. CASE FromPipe
  BY <1>2, OnStartedIs, OnPrerolledIs, OnPipelineFinishedIs, OnPipelineErrorIs,
     OnBufferingIs DEF FromPipe
<1>3. CASE FromAppSrc
  BY <1>3, OnGlContextLostIs, OnSeekRequestedIs DEF FromAppSrc
<1> QED BY <1>1, <1>2, <1>3, OnPositionIs

LEMMA PlayerNextInv ==
  ASSUME PlayerInv, [Next]_vars
  PROVE  PlayerInv'
<1>1. CASE FromPolicy
  BY <1>1, OnGrantedIs, OnLostIs, OnDeniedIs, OnReleasedByManagerIs DEF FromPolicy
<1>2. CASE User
  BY <1>2, UserPlayIs, UserStopIs, UserPauseIs, UserResumeIs, UserSeekIs DEF User
<1>3. CASE Manager \/ PumpWorks \/ PumpMay \/ Preroll \/ PipeMay
  BY <1>3, ManagerIs, PumpIs, PrerollIs, PipeMayIs
<1>4. CASE UNCHANGED vars
  BY <1>4, PlayerStutters
<1> QED BY <1>1, <1>2, <1>3, <1>4, FromPumpInv DEF Next

LEMMA PlayerAlways == Spec => []PlayerInv
<1>1. Init => PlayerInv
  BY PlayerInitInv
<1>2. PlayerInv /\ [Next]_vars => PlayerInv'
  BY PlayerNextInv
<1> QED BY <1>1, <1>2, PTL DEF Spec

\* Every variable has its type, in every playback, and only a busy player has
\* put off a switch of quality (streamplayer.cpp 180-189, 566-575).
THEOREM PlayerTyped == Spec => []TypeOK
<1>1. PlayerInv => TypeOK
  <2> SUFFICES ASSUME PlayerInv PROVE TypeOK
    OBVIOUS
  <2>1. /\ player \in Players /\ pipe \in Pipes /\ pump \in Pumps /\ policy \in Policies
        /\ bus \in Seq(Messages) /\ mail \in Seq(Letters) /\ words \in Seq(Answers)
        /\ used \in [Acts -> Nat]
    BY WorldBase, WorldParts, WorldIs DEF Base, PlayerInv
  <2>2. player.pending # NoPlay => player.state \in {"Loading", "Buffering", "Paused"}
    BY WorldIs DEF PlayerInv, Base, Owes
  <2>3. /\ \A i \in DOMAIN bus : bus[i] \in Messages
        /\ \A i \in DOMAIN mail : mail[i] \in Letters
        /\ \A i \in DOMAIN words : words[i] \in Answers
    BY <2>1
  <2> QED BY <2>1, <2>2, <2>3 DEF TypeOK, Messages, Policies, Answers
<1> QED BY <1>1, PlayerAlways, PTL

-----------------------------------------------------------------------------
(* What revives a stopped player                                           *)

LEMMA RestMoves ==
  ASSUME PlayerInv, player.state = "Stopped"
  PROVE  /\ Goes(world, world') => ~Revived
         /\ Tells(world, world') => ~Revived
         /\ Prerolls(world, world') => ~Revived
         /\ Over(world, world') => ~Revived
         /\ player.state \in Quiet /\ player.state \notin Active
<1>1. world'.player = player'
  BY DEF world
<1>2. player.pending = NoPlay
  BY WorldIs DEF PlayerInv, Base, Owes
<1> QED BY <1>1, <1>2, WorldIs DEF Goes, Moves, Tells, Prerolls, Over, Revived, Quiet, Active

LEMMA RevivedStep ==
  ASSUME PlayerInv, [Next]_vars, Revived
  PROVE  Revivals
<1> SUFFICES ASSUME ~Revivals PROVE FALSE
  OBVIOUS
<1>0. player.state = "Stopped"
  BY DEF Revived
<1>1. CASE FromPump
  <2>1. ~(OnPumpVideoOpened /\ ~player.dual)
    BY DEF Revivals
  <2> QED BY <1>0, <1>1, <2>1, RestMoves, OnPumpVideoOpenedIs, OnPumpAudioOpenedIs,
             OnDemuxingIs, OnEsReadyIs, OnWindowLoadingIs, OnPumpFailedIs,
             OnPrebufferShortIs, OnPrebufferFullIs, OnProgressIs, OnPumpFinishedIs
          DEF FromPump
<1>2. CASE FromPipe
  BY <1>0, <1>2, RestMoves, OnStartedIs, OnPrerolledIs, OnPipelineFinishedIs,
     OnPipelineErrorIs, OnBufferingIs DEF FromPipe
<1>3. CASE FromAppSrc
  BY <1>0, <1>3, RestMoves, OnGlContextLostIs, OnSeekRequestedIs DEF FromAppSrc
<1>4. CASE FromPolicy
  <2>1. ~OnLost
    BY DEF Revivals
  <2> QED BY <1>0, <1>4, <2>1, RestMoves, OnGrantedIs, OnDeniedIs, OnReleasedByManagerIs
          DEF FromPolicy
<1>5. CASE OnPosition
  BY <1>0, <1>5, OnPositionIs
<1>6. CASE User
  <2>1. ~(\E kind \in Kinds : UserPlay(kind))
    BY DEF Revivals
  <2>2. ASSUME NEW t \in Targets, UserSeek(t)
        PROVE  FALSE
    <3>1. player.dual
      BY <2>2 DEF Revivals
    <3> QED BY <1>0, <2>2, <3>1, RestMoves, UserSeekIs
  <2> QED BY <1>0, <1>6, <2>1, <2>2, RestMoves, UserStopIs, UserPauseIs, UserResumeIs
          DEF User
<1>7. CASE Manager \/ PumpWorks \/ PumpMay \/ Preroll \/ PipeMay
  BY <1>0, <1>7, RestMoves, ManagerIs, PumpIs, PrerollIs, PipeMayIs
<1>8. CASE UNCHANGED vars
  BY <1>8 DEF vars, Revived
<1> QED BY <1>1, <1>2, <1>3, <1>4, <1>5, <1>6, <1>7, <1>8 DEF Next

\* Nothing that is still on its way when a player stops revives it, but a loss of
\* the policy and the opening of a single stream's bytes; the page may play, and
\* seek in a single stream (streamplayer.cpp 268, 295, 445, 488, 539, 566).
THEOREM StopRevived == Spec => StopSticks
<1>1. PlayerInv /\ [Next]_vars => [Revived => Revivals]_vars
  BY RevivedStep
<1> QED BY <1>1, PlayerAlways, PTL DEF Spec, StopSticks

-----------------------------------------------------------------------------
(* A step, by what it leaves of the pipeline                               *)

MovingStep ==
  /\ Moves(world, world')
  /\ \/ world'.player.state = "Buffering" \/ ~pipe.fresh
     \/ player.state \in {"Playing", "Paused"} \/ OnLost \/ OnBuffering("drained")

PlayingStep ==
  \E kind \in Kinds :
    /\ UserPlay(kind)
    /\ \/ ~MidPreroll(world) /\ Begins(world, world', kind)
       \/ /\ MidPreroll(world) /\ Notes(world, world')
          /\ world'.player.state = player.state /\ world'.player.pending = kind

OpeningStep ==
  \/ /\ mail # <<>> /\ Head(mail).sig \in {"videoOpened", "esReady"}
     /\ Opens(world, world', Head(mail).session)
  \/ /\ mail # <<>> /\ Head(mail).sig = "glLost" /\ Opens(world, world', pipe.session)
  \/ /\ player.seekable /\ ~player.dual /\ (\E t \in Targets : UserSeek(t))
     /\ Opens(world, world', pipe.session)

LEMMA PumpSteps ==
  ASSUME PlayerInv, FromPump \/ FromPipe \/ FromAppSrc \/ OnPosition
  PROVE  \/ Goes(world, world') \/ MovingStep \/ Over(world, world') \/ OpeningStep
<1>1. CASE FromPump
  <2>1. CASE OnPumpVideoOpened
    BY <2>1, OnPumpVideoOpenedIs DEF OnPumpVideoOpened, Got, OpeningStep
  <2>2. CASE OnEsReady
    BY <2>2, OnEsReadyIs DEF OnEsReady, Got, OpeningStep
  <2>3. CASE OnPrebufferShort
    BY <2>3, OnPrebufferShortIs DEF MovingStep
  <2> QED BY <1>1, <2>1, <2>2, <2>3, OnPumpAudioOpenedIs, OnDemuxingIs,
             OnWindowLoadingIs, OnPumpFailedIs, OnPrebufferFullIs, OnProgressIs,
             OnPumpFinishedIs DEF FromPump
<1>2. CASE FromPipe
  <2>1. CASE OnStarted
    BY <2>1, OnStartedIs DEF MovingStep
  <2>2. CASE OnPrerolled
    BY <2>2, OnPrerolledIs DEF MovingStep
  <2>3. ASSUME NEW m \in {"draining", "drained"}, OnBuffering(m)
        PROVE  Goes(world, world') \/ MovingStep \/ Over(world, world')
    BY <2>3, OnBufferingIs DEF MovingStep
  <2> QED BY <1>2, <2>1, <2>2, <2>3, OnPipelineFinishedIs, OnPipelineErrorIs DEF FromPipe
<1>3. CASE FromAppSrc
  <2>1. CASE OnGlContextLost
    BY <2>1, OnGlContextLostIs DEF OnGlContextLost, Got, OpeningStep
  <2> QED BY <1>3, <2>1, OnSeekRequestedIs DEF FromAppSrc
<1>4. CASE OnPosition
  BY <1>4, OnPositionIs DEF MovingStep
<1> QED BY <1>1, <1>2, <1>3, <1>4

LEMMA PlayerSteps ==
  ASSUME PlayerInv, [Next]_vars
  PROVE  \/ Goes(world, world') \/ MovingStep \/ Over(world, world')
         \/ OpeningStep \/ PlayingStep
         \/ Tells(world, world') \/ Prerolls(world, world')
<1>1. CASE FromPolicy
  <2>1. CASE OnGranted
    BY <2>1, OnGrantedIs DEF MovingStep
  <2>2. CASE OnLost
    BY <2>2, OnLostIs DEF MovingStep
  <2> QED BY <1>1, <2>1, <2>2, OnDeniedIs, OnReleasedByManagerIs DEF FromPolicy
<1>2. CASE User
  <2>1. ASSUME NEW kind \in Kinds, UserPlay(kind)
        PROVE  PlayingStep
    BY <2>1, UserPlayIs DEF PlayingStep
  <2>2. CASE UserPause
    BY <2>2, UserPauseIs DEF MovingStep
  <2>3. CASE UserResume
    BY <2>3, UserResumeIs DEF MovingStep
  <2>4. ASSUME NEW t \in Targets, UserSeek(t)
        PROVE  Goes(world, world') \/ MovingStep \/ OpeningStep
    BY <2>4, UserSeekIs DEF MovingStep, OpeningStep
  <2> QED BY <1>2, <2>1, <2>2, <2>3, <2>4, UserStopIs DEF User
<1>3. CASE Manager \/ PumpWorks \/ PumpMay \/ Preroll \/ PipeMay
  BY <1>3, ManagerIs, PumpIs, PrerollIs, PipeMayIs
<1>4. CASE UNCHANGED vars
  BY <1>4, PlayerStutters, GoesSelf
<1> QED BY <1>1, <1>2, <1>3, <1>4, PumpSteps DEF Next

LEMMA NextWorldIs ==
  /\ world'.player = player' /\ world'.pipe = pipe' /\ world'.bus = bus'
  /\ world'.pump = pump' /\ world'.mail = mail' /\ world'.policy = policy'
BY DEF world

-----------------------------------------------------------------------------
(* The first preroll                                                       *)

\* While a pipeline is in its first preroll the page shows that it loads.
FirstPreroll == pipe.fresh => player.state \in {"Loading", "Buffering"}

NothingEndsPreroll == pipe.fresh => ~OnLost /\ ~OnBuffering("drained")

LEMMA FirstPrerollStep ==
  ASSUME PlayerInv, FirstPreroll, [Next]_vars, [NothingEndsPreroll]_vars
  PROVE  FirstPreroll'
<1>0. PlayerInv'
  BY PlayerNextInv
<1>1. CASE Goes(world, world')
  BY <1>1, WorldIs, NextWorldIs DEF Goes, Moves, FirstPreroll
<1>2. CASE MovingStep
  <2>1. CASE UNCHANGED vars
    BY <2>1 DEF vars, FirstPreroll
  <2>2. CASE NothingEndsPreroll
    BY <1>2, <2>2, WorldIs, NextWorldIs DEF MovingStep, Moves, FirstPreroll, NothingEndsPreroll
  <2> QED BY <2>1, <2>2
<1>3. CASE Over(world, world') \/ Prerolls(world, world')
  <2>1. ~pipe'.built \/ ~pipe'.fresh
    BY <1>3, NextWorldIs DEF Over, Prerolls
  <2>2. ~pipe'.fresh
    BY <1>0, <2>1, WorldIs, NextWorldIs DEF PlayerInv, Base, Piped
  <2> QED BY <2>2 DEF FirstPreroll
<1>4. CASE OpeningStep
  BY <1>4, NextWorldIs DEF OpeningStep, Opens, FirstPreroll
<1>5. CASE PlayingStep
  BY <1>5, WorldIs, NextWorldIs DEF PlayingStep, Begins, Notes, FirstPreroll
<1>6. CASE Tells(world, world')
  BY <1>6, WorldIs, NextWorldIs DEF Tells, FirstPreroll
<1> QED BY <1>1, <1>2, <1>3, <1>4, <1>5, <1>6, PlayerSteps

LEMMA SparesStep ==
  ASSUME PlayerInv, FirstPreroll, [Next]_vars, \E kind \in Kinds : UserPlay(kind), pipe.fresh
  PROVE  pipe'.built /\ pipe'.fresh
<1>1. PICK kind \in Kinds : UserPlay(kind)
  OBVIOUS
<1>2. MidPreroll(world)
  BY WorldIs DEF FirstPreroll, MidPreroll
<1>3. Notes(world, world')
  BY <1>1, <1>2, UserPlayIs
<1>4. pipe' = pipe
  BY <1>3, WorldIs, NextWorldIs DEF Notes
<1>5. pipe.built
  BY WorldIs DEF PlayerInv, Base, Piped
<1> QED BY <1>4, <1>5

\* A switch of quality spares a pipeline in its first preroll (180-182), as long
\* as no loss of the policy and no full queue ends that preroll on the page:
\* setState() makes the switch then, whatever the pipeline is doing.
THEOREM SwitchSpares == Spec /\ [][NothingEndsPreroll]_vars => SwitchSparesPreroll
<1>1. Init => FirstPreroll
  BY DEF Init, NoPipe, FirstPreroll
<1>2. PlayerInv /\ FirstPreroll /\ [Next]_vars /\ [NothingEndsPreroll]_vars => FirstPreroll'
  BY FirstPrerollStep
<1>3. PlayerInv /\ FirstPreroll /\ [Next]_vars
        => [(\E kind \in Kinds : UserPlay(kind)) /\ pipe.at = "prerolling" /\ pipe.fresh
              => pipe'.built /\ pipe'.fresh]_vars
  BY SparesStep
<1>4. Spec /\ [][NothingEndsPreroll]_vars => []FirstPreroll
  BY <1>1, <1>2, PlayerAlways, PTL DEF Spec
<1> QED BY <1>3, <1>4, PlayerAlways, PTL DEF Spec, SwitchSparesPreroll

-----------------------------------------------------------------------------
(* The pipeline's own stream                                               *)

\* A pipeline that stands has the session of the player, and so it has when the
\* loss of its scene is still unread.
Owned ==
  /\ pipe.built => pipe.session = player.session
  /\ \A i \in DOMAIN mail : mail[i].sig = "glLost" /\ mail[i].session = player.session
                              => pipe.session = player.session

\* No letter that builds a pipeline is read after its playback was left, and no
\* seek rebuilds a pipeline of the playback before.
Current ==
  mail # <<>> /\ Head(mail).sig \in {"videoOpened", "esReady", "glLost"}
    => Head(mail).session = player.session
SeeksOpened ==
  (\E t \in Targets : UserSeek(t)) => player.dual \/ pipe.session = player.session

LEMMA OwnedPosts ==
  ASSUME PlayerInv, Owned, Posts(world, world'), pipe'.session = pipe.session,
         player'.session = player.session
  PROVE  \A i \in DOMAIN mail' :
           mail'[i].sig = "glLost" /\ mail'[i].session = player'.session
             => pipe'.session = player'.session
BY WorldIs, NextWorldIs DEF Owned, Posts

LEMMA OwnedStep ==
  ASSUME PlayerInv, Owned, Current, [Next]_vars, [SeeksOpened]_vars
  PROVE  Owned'
<1>0. PlayerInv' /\ Base(world, used["play"])
  BY PlayerNextInv DEF PlayerInv
<1>1. CASE Goes(world, world') \/ MovingStep
  <2>1. Moves(world, world')
    BY <1>1 DEF Goes, MovingStep
  <2>2. /\ player'.session = player.session /\ pipe'.session = pipe.session
        /\ pipe'.built = pipe.built /\ Posts(world, world')
    BY <2>1, WorldIs, NextWorldIs DEF Moves
  <2> QED BY <2>2, OwnedPosts DEF Owned
<1>2. CASE Over(world, world')
  <2>1. /\ ~pipe'.built /\ pipe'.session = pipe.session /\ Posts(world, world')
        /\ \/ player'.session = player.session
           \/ player'.session = player.session + 1
    BY <1>2, WorldIs, NextWorldIs DEF Over
  <2>2. CASE player'.session = player.session
    BY <2>1, <2>2, OwnedPosts DEF Owned
  <2>3. CASE player'.session = player.session + 1
    <3>1. /\ pipe.session <= player.session /\ player.session \in Nat
          /\ pipe.session \in Nat
          /\ \A i \in DOMAIN mail : mail[i].session <= player.session
      BY <1>0, WorldParts, WorldIs, PlaysAre DEF Base, Dated, Players, Pipes
    <3>2. \A i \in DOMAIN mail' : mail'[i].session <= player.session
      BY <2>1, <3>1, WorldIs, NextWorldIs DEF Posts
    <3> QED BY <2>1, <2>3, <3>1, <3>2 DEF Owned
  <2> QED BY <2>1, <2>2, <2>3
<1>3. CASE OpeningStep
  <2>1. PICK s \in {player.session} : Opens(world, world', s)
    <3>1. CASE mail # <<>> /\ Head(mail).sig \in {"videoOpened", "esReady"}
               /\ Opens(world, world', Head(mail).session)
      BY <3>1 DEF Current
    <3>2. CASE mail # <<>> /\ Head(mail).sig = "glLost" /\ Opens(world, world', pipe.session)
      <4>1. Head(mail) = mail[1] /\ 1 \in DOMAIN mail
        BY <1>0, <3>2, WorldParts, WorldIs DEF Base
      <4> QED BY <3>2, <4>1 DEF Current, Owned
    <3>3. CASE player.seekable /\ ~player.dual /\ (\E t \in Targets : UserSeek(t))
               /\ Opens(world, world', pipe.session)
      <4>1. CASE UNCHANGED vars
        <5>1. \A t \in Targets : ~UserSeek(t)
          <6> SUFFICES ASSUME NEW t \in Targets, UserSeek(t) PROVE FALSE
            OBVIOUS
          <6>1. used' = used /\ used \in [Acts -> Nat] /\ "seek" \in Acts
                /\ used' = [used EXCEPT !["seek"] = @ + 1]
            BY <4>1 DEF vars, PlayerInv, UserSeek, Spend, Acts
          <6> QED BY <6>1
        <5> QED BY <3>3, <5>1
      <4>2. CASE SeeksOpened
        BY <3>3, <4>2 DEF SeeksOpened
      <4> QED BY <4>1, <4>2
    <3> QED BY <1>3, <3>1, <3>2, <3>3 DEF OpeningStep
  <2>2. pipe'.session = player'.session
    BY <2>1, WorldIs, NextWorldIs DEF Opens
  <2> QED BY <2>2 DEF Owned
<1>4. CASE PlayingStep
  <2>1. \/ \E kind \in Kinds : Begins(world, world', kind)
        \/ Notes(world, world')
    BY <1>4 DEF PlayingStep
  <2>2. CASE Notes(world, world')
    BY <2>2, WorldIs, NextWorldIs DEF Notes, Owned
  <2>3. ASSUME NEW kind \in Kinds, Begins(world, world', kind)
        PROVE  Owned'
    <3>1. /\ pipe.session <= player.session /\ player.session \in Nat
          /\ \A i \in DOMAIN mail : mail[i].session <= player.session
      BY <1>0, WorldParts, WorldIs, PlaysAre DEF Base, Dated, Players
    <3> QED BY <2>3, <3>1, WorldIs, NextWorldIs DEF Begins, Owned
  <2> QED BY <2>1, <2>2, <2>3
<1>5. CASE Tells(world, world')
  BY <1>5, WorldIs, NextWorldIs DEF Tells, Owned
<1>6. CASE Prerolls(world, world')
  BY <1>6, WorldIs, NextWorldIs DEF Prerolls, Owned
<1> QED BY <1>1, <1>2, <1>3, <1>4, <1>5, <1>6, PlayerSteps

\* The pipeline is of the stream being played, as long as no signal that builds
\* one is read after its stream was left (295) and no single stream is sought
\* before its first bytes are open, on the configuration of the stream before.
THEOREM OwnsItsPipeline ==
  Spec /\ []Current /\ [][SeeksOpened]_vars => []OwnPipeline
<1>1. Init => Owned
  BY DEF Init, NoPipe, Owned
<1>2. PlayerInv /\ Owned /\ Current /\ [Next]_vars /\ [SeeksOpened]_vars => Owned'
  BY OwnedStep
<1>3. Owned => OwnPipeline
  BY DEF Owned, OwnPipeline
<1> QED BY <1>1, <1>2, <1>3, PlayerAlways, PTL DEF Spec

-----------------------------------------------------------------------------
(* Streams of two lanes                                                    *)

\* Before the first playback there is nothing to read and nothing to seek in.
DualOnly ==
  /\ player.pending \in {NoPlay, "dual"}
  /\ player.session # 0 => player.dual
  /\ player.session = 0 => ~pipe.built /\ ~player.seekable /\ mail = <<>>

LEMMA StillEmpty ==
  ASSUME PlayerInv, PlayerInv', ~pipe.built, mail = <<>>, Posts(world, world')
  PROVE  mail' = <<>>
<1>1. mail' \in Seq(Letters)
  <2>1. world' \in Worlds
    BY DEF PlayerInv, Base
  <2> QED BY <2>1, WorldParts, NextWorldIs
<1>2. \A i \in DOMAIN mail' : FALSE
  BY WorldIs, NextWorldIs DEF Posts
<1>3. Len(mail') \in Nat /\ DOMAIN mail' = 1..Len(mail')
  BY <1>1
<1>4. Len(mail') = 0
  <2>1. 1 \notin DOMAIN mail'
    BY <1>2
  <2> QED BY <1>3, <2>1
<1> QED BY <1>1, <1>4, EmptySeq

LEMMA DualOnlyStep ==
  ASSUME "single" \notin Kinds, PlayerInv, DualOnly, [Next]_vars
  PROVE  DualOnly'
<1>0. /\ PlayerInv' /\ \A kind \in Kinds : kind = "dual"
      /\ player.session \in Nat /\ pump.session <= player.session /\ pump.session \in Nat
  BY PlayerNextInv, WorldBase, WorldParts, WorldIs, PlaysAre, PlayerAssumption
     DEF Base, Dated, Players, Pumps
<1>1. CASE Goes(world, world') \/ MovingStep
  <2>1. Moves(world, world')
    BY <1>1 DEF Goes, MovingStep
  <2> QED BY <1>0, <2>1, StillEmpty, WorldIs, NextWorldIs DEF Moves, DualOnly
<1>2. CASE Over(world, world')
  <2>1. player'.pending # NoPlay => player'.state \in {"Loading", "Buffering", "Paused"}
    BY <1>0, NextWorldIs DEF PlayerInv, Base, Owes
  <2>2. player'.seekable = player.seekable /\ ~pipe'.built /\ Posts(world, world')
    BY <1>2, WorldIs, NextWorldIs DEF Over
  <2>3. CASE /\ player'.session = player.session /\ player'.dual = player.dual
             /\ player'.state \in {"Stopped", "Error"}
    BY <1>0, <2>1, <2>2, <2>3, StillEmpty DEF DualOnly
  <2>4. CASE /\ player.pending # NoPlay /\ player'.session = player.session + 1
             /\ player'.pending = NoPlay /\ player'.dual = (player.pending = "dual")
    <3>1. player.pending = "dual"
      BY <2>4 DEF DualOnly
    <3>2. player'.dual
      BY <2>4, <3>1, Zenon
    <3>3. player'.session # 0
      BY <1>0, <2>4
    <3> QED BY <2>4, <3>2, <3>3 DEF DualOnly
  <2> QED BY <1>2, <2>3, <2>4, WorldIs, NextWorldIs DEF Over
<1>3. CASE OpeningStep
  <2>1. player.session # 0
    BY <1>3 DEF OpeningStep, DualOnly
  <2> QED BY <1>3, <2>1, WorldIs, NextWorldIs DEF OpeningStep, Opens, DualOnly
<1>4. CASE PlayingStep
  <2>1. PICK kind \in Kinds :
          \/ Begins(world, world', kind)
          \/ Notes(world, world') /\ world'.player.pending = kind
    BY <1>4 DEF PlayingStep
  <2>2. CASE Begins(world, world', kind)
    <3>1. /\ player'.pending = NoPlay /\ player'.dual = (kind = "dual")
          /\ player'.session = player.session + 1
      BY <2>2, WorldIs, NextWorldIs DEF Begins
    <3>2. kind = "dual"
      BY <1>0
    <3>3. player'.dual
      BY <3>1, <3>2, Zenon
    <3>4. player'.session # 0
      BY <1>0, <3>1
    <3> QED BY <3>1, <3>3, <3>4 DEF DualOnly
  <2>3. CASE Notes(world, world') /\ world'.player.pending = kind
    BY <1>0, <2>3, WorldIs, NextWorldIs DEF Notes, DualOnly
  <2> QED BY <2>1, <2>2, <2>3
<1>5. CASE Tells(world, world')
  BY <1>0, <1>5, WorldIs, NextWorldIs DEF Tells, DualOnly
<1>6. CASE Prerolls(world, world')
  BY <1>6, WorldIs, NextWorldIs DEF Prerolls, DualOnly
<1> QED BY <1>1, <1>2, <1>3, <1>4, <1>5, <1>6, PlayerSteps

\* Where every stream has two lanes, no signal of the pump or the pipeline still
\* on its way revives a stopped player: only the page does, or a loss of the policy.
THEOREM StaysStoppedDual ==
  ASSUME "single" \notin Kinds
  PROVE  Spec => StaysStopped
<1>1. Init => DualOnly
  BY DEF Init, NoPipe, NoPlay, DualOnly
<1>2. PlayerInv /\ DualOnly /\ [Next]_vars => DualOnly'
  BY DualOnlyStep
<1>3. PlayerInv /\ DualOnly /\ [Next]_vars
        => [Revived => OnLost \/ \E kind \in Kinds : UserPlay(kind)]_vars
  <2> SUFFICES ASSUME PlayerInv, DualOnly, [Next]_vars, Revived
               PROVE  OnLost \/ \E kind \in Kinds : UserPlay(kind)
    OBVIOUS
  <2>1. Revivals
    BY RevivedStep
  <2>2. ~(~player.dual /\ (OnPumpVideoOpened \/ \E t \in Targets : UserSeek(t)))
    BY DEF DualOnly, OnPumpVideoOpened, Got, UserSeek
  <2> QED BY <2>1, <2>2 DEF Revivals
<1> QED BY <1>1, <1>2, <1>3, PlayerAlways, PTL DEF Spec, StaysStopped
=============================================================================
