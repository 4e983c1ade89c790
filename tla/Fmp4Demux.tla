----------------------------- MODULE Fmp4Demux ------------------------------
(***************************************************************************)
(* media::Fmp4Demuxer (core/media/fmp4demux.cpp): the incremental demuxer  *)
(* of one fragmented MP4 file.  Bytes come in pieces of any length;        *)
(* feed() buffers them, cuts the samples the last moof described once      *)
(* their bytes are in, and walks the next top-level box.                   *)
(*                                                                         *)
(* A position is a number of 8-byte units, the size of a short box header. *)
(* A file is the sequence of its top-level boxes: what a box says is in    *)
(* the file, what the demuxer has of it is in the variables.  A sample     *)
(* lasts one tick of decode time.  One pass of feed()'s loop is a step.    *)
(***************************************************************************)
EXTENDS Integers, Sequences, FiniteSets, SequencesExt

CONSTANTS
  Files,      \* the files a server may have, see FileSet
  MaxSample,  \* the 32 MiB bound on a sample's size
  NoTime,     \* a traf without a tfdt
  NoOffset,   \* a trun without a data offset
  MaxSeeks    \* bound on reanchor() in one life

Types == {"moov", "moof", "sidx", "mdat", "free", "junk"}

\* What a moof holds: one traf, with its runs of samples.
Trafs == [ours : BOOLEAN, time : Nat \cup {NoTime},
          runs : Seq([offset : Int \cup {NoOffset}, sizes : Seq(Nat)])]
\* What a sidx holds: the start of the index and its references.
Indexes == [time : Nat, first : Nat,
            refs : Seq([size : Nat, dur : Nat, nested : BOOLEAN])]

ASSUME FilesAssumption ==
  \A f \in Files : \A b \in DOMAIN f :
    /\ f[b].type \in Types /\ f[b].hdr \in {1, 2} /\ f[b].size \in Nat
    /\ f[b].type = "moof" => f[b].traf \in Trafs
    /\ f[b].type = "sidx" => f[b].index \in Indexes
ASSUME DemuxBounds == MaxSample \in Nat /\ MaxSeeks \in Nat
ASSUME NothingAssumption == NoTime \notin Nat /\ NoOffset \notin Int

VARIABLES
  file,      \* the file being played
  bufOff,    \* m_bufOff
  have,      \* m_bufOff + m_buf.size(): where the bytes that arrived end
  walk,      \* m_walk
  pending,   \* m_pending
  samples,   \* m_samples
  header,    \* m_headerReady
  failed,    \* m_failed
  nextDts, needTfdt,
  sidx,      \* m_sidx
  feeding,   \* feed() is on the stack
  taken,     \* what takeSamples() handed over since the last anchor
  anchor, seeks   \* that anchor, and how many there were

demuxVars == <<file, bufOff, have, walk, pending, samples, header, failed, nextDts,
               needTfdt, sidx, feeding, taken, anchor, seeks>>

-----------------------------------------------------------------------------
(* The layout of a file *)

StartsOf[f \in Files] ==
  [b \in 1..Len(f) + 1 |-> FoldLeft(LAMBDA n, box : n + box.size, 0, SubSeq(f, 1, b - 1))]
Start(f, b) == StartsOf[f][b]
End(f, b) == Start(f, b + 1)
FileEnd(f) == End(f, Len(f))

\* The box whose header the walk stands on, and whether its header is in.
AtBox == {b \in DOMAIN file : Start(file, b) = walk}
Box == CHOOSE b \in AtBox : TRUE
HeaderIn == AtBox # {} /\ walk + 1 <= have /\ walk + file[Box].hdr <= have
\* The containment check reads the size of a 64-bit header only when it is in.
DataAhead == HeaderIn /\ file[Box].type = "mdat" /\ file[Box].size >= file[Box].hdr

-----------------------------------------------------------------------------
(* parseMoof, parseSidx *)

\* Where the data of run r starts: after the run before it unless it says.
RunOffset(moof, runs) ==
  LET offset[r \in 1..Len(runs)] ==
        IF runs[r].offset # NoOffset THEN moof + runs[r].offset
        ELSE offset[r - 1] + FoldLeft(+, 0, runs[r - 1].sizes)
  IN offset

Cuts(moof, runs) ==
  FlattenSeq([r \in 1..Len(runs) |->
    [k \in DOMAIN runs[r].sizes |->
      [off  |-> RunOffset(moof, runs)[r] + FoldLeft(+, 0, SubSeq(runs[r].sizes, 1, k - 1)),
       size |-> runs[r].sizes[k]]]])

\* The samples of a moof, timed from dts on.
Timed(cuts, dts) ==
  [i \in DOMAIN cuts |-> [off |-> cuts[i].off, size |-> cuts[i].size, dts |-> dts + i - 1]]

WellFormed(traf) ==
  /\ traf.ours
  /\ traf.runs # <<>> => traf.runs[1].offset # NoOffset
  /\ \A r \in DOMAIN traf.runs : \A k \in DOMAIN traf.runs[r].sizes :
       traf.runs[r].sizes[k] \in 1..MaxSample

\* parseMoof() returns true: a fragment after a seek must time itself.
Parses(traf) == WellFormed(traf) /\ ~(needTfdt /\ traf.time = NoTime)

BaseDts(traf) == IF traf.time = NoTime THEN nextDts ELSE traf.time

\* Offsets in a sidx count from its own end.
IndexAnchor(b) == End(file, b)

\* parseSidx(): time and offset of every subsegment; nothing of a nested one.
Subsegments(b) ==
  LET index == file[b].index
      before(i) == SubSeq(index.refs, 1, i - 1)
  IN IF \E i \in DOMAIN index.refs : index.refs[i].nested THEN <<>>
     ELSE [i \in DOMAIN index.refs |->
            [time   |-> FoldLeft(LAMBDA n, r : n + r.dur, index.time, before(i)),
             offset |-> FoldLeft(LAMBDA n, r : n + r.size, IndexAnchor(b) + index.first,
                                 before(i))]]

-----------------------------------------------------------------------------
(* The methods *)

\* Bytes before keep are forgotten, never bytes that did not arrive.
Kept(w, p) ==
  LET needed == IF p # <<>> /\ p[1].off < w THEN p[1].off ELSE w
  IN IF needed > have THEN have ELSE needed

\* Mutant: a trim that counts on bytes still to come.
Trim_ToWalk(w, p) == bufOff' = IF w > bufOff THEN w ELSE bufOff

Trim(w, p) == bufOff' = IF Kept(w, p) > bufOff THEN Kept(w, p) ELSE bufOff

Fail == /\ failed' = TRUE /\ feeding' = FALSE
        /\ UNCHANGED <<bufOff, walk, pending, samples, header, nextDts, needTfdt, sidx>>

\* feed() of the next n units of the file.
Feed(n) ==
  /\ ~feeding /\ ~failed
  /\ have + n <= FileEnd(file)
  /\ have' = have + n /\ feeding' = TRUE
  /\ UNCHANGED <<file, bufOff, walk, pending, samples, header, failed, nextDts,
                 needTfdt, sidx, taken, anchor, seeks>>

Outside(s) ==
  DataAhead /\ \/ s.off - walk < file[Box].hdr
               \/ s.off + s.size > walk + file[Box].size

\* Mutant: no containment check.
Misplaced_Anywhere(s) == s.off < bufOff

\* The first pending sample is behind the buffer, or not in the mdat that follows.
Misplaced(s) == s.off < bufOff \/ Outside(s)

\* Step 1 of the loop: the first pending sample, its bytes in or not.
Slice ==
  /\ feeding /\ pending # <<>>
  /\ IF Misplaced(pending[1]) THEN Fail
     ELSE /\ IF pending[1].off + pending[1].size <= have
             THEN /\ samples' = Append(samples, pending[1]) /\ pending' = Tail(pending)
                  /\ UNCHANGED <<bufOff, feeding>>
             ELSE /\ Trim(walk, pending) /\ feeding' = FALSE
                  /\ UNCHANGED <<samples, pending>>
          /\ UNCHANGED <<walk, header, failed, nextDts, needTfdt, sidx>>
  /\ UNCHANGED <<file, have, taken, anchor, seeks>>

\* A moov, a moof and a sidx are parsed whole, every other box is stepped over.
NeedsMore(b) == file[b].type \in {"moov", "moof", "sidx"} /\ End(file, b) > have

\* The header is not in yet, or the box is not: feed() returns for more.
Await ==
  /\ feeding /\ pending = <<>>
  /\ HeaderIn => file[Box].size # 0 /\ NeedsMore(Box) /\ file[Box].type # "junk"
  /\ Trim(walk, <<>>) /\ feeding' = FALSE
  /\ UNCHANGED <<file, have, walk, pending, samples, header, failed, nextDts,
                 needTfdt, sidx, taken, anchor, seeks>>

Refuse ==
  /\ feeding /\ pending = <<>> /\ HeaderIn
  /\ \/ file[Box].size = 0 \/ file[Box].type = "junk"
     \/ /\ file[Box].type = "moof" /\ ~NeedsMore(Box) /\ ~Parses(file[Box].traf)
  /\ Fail
  /\ UNCHANGED <<file, have, taken, anchor, seeks>>

ReadMoof(b) ==
  LET cuts == Timed(Cuts(Start(file, b), file[b].traf.runs), BaseDts(file[b].traf))
  IN /\ Parses(file[b].traf)
     /\ pending' = cuts /\ needTfdt' = FALSE
     /\ nextDts' = BaseDts(file[b].traf) + Len(cuts)
     /\ UNCHANGED <<header, sidx>>

\* Step 2: the next top-level box.
Walk ==
  /\ feeding /\ pending = <<>> /\ HeaderIn
  /\ file[Box].size # 0 /\ file[Box].type # "junk" /\ ~NeedsMore(Box)
  /\ CASE file[Box].type = "moov" -> /\ header' = TRUE
                                     /\ UNCHANGED <<pending, nextDts, needTfdt, sidx>>
       [] file[Box].type = "moof" -> ReadMoof(Box)
       [] file[Box].type = "sidx" -> /\ sidx' = IF Subsegments(Box) = <<>> THEN sidx
                                                ELSE Subsegments(Box)
                                     /\ UNCHANGED <<pending, nextDts, needTfdt, header>>
       [] OTHER -> UNCHANGED <<pending, nextDts, needTfdt, header, sidx>>
  /\ walk' = End(file, Box)
  /\ Trim(walk', pending')
  /\ UNCHANGED <<file, have, samples, failed, feeding, taken, anchor, seeks>>

\* takeSamples()
Take ==
  /\ ~feeding /\ samples # <<>>
  /\ taken' = taken \o samples /\ samples' = <<>>
  /\ UNCHANGED <<file, bufOff, have, walk, pending, header, failed, nextDts, needTfdt,
                 sidx, feeding, anchor, seeks>>

\* seekOffsetForNs(): the last subsegment that starts at or before the time.
SeekEntry(time) ==
  LET early == {i \in DOMAIN sidx : sidx[i].time <= time}
  IN IF early = {} THEN 1 ELSE CHOOSE i \in early : \A j \in early : j <= i

\* Mutant: a seek that trusts the clock before it.
NeedsTfdt_Kept == needTfdt' = needTfdt

NeedsTfdt == needTfdt' = TRUE

\* reanchor() at the subsegment of a time; the next bytes fed start there.
Seek(time) ==
  /\ ~feeding /\ sidx # <<>> /\ seeks < MaxSeeks
  /\ LET offset == sidx[SeekEntry(time)].offset
     IN bufOff' = offset /\ walk' = offset /\ have' = offset /\ anchor' = offset
  /\ pending' = <<>> /\ samples' = <<>> /\ taken' = <<>> /\ NeedsTfdt
  /\ seeks' = seeks + 1
  /\ UNCHANGED <<file, header, failed, nextDts, sidx, feeding>>

Times == UNION {{s.time : s \in ToSet(Subsegments(b))} :
                  b \in {b \in DOMAIN file : file[b].type = "sidx"}}

\* reset(), and the file of the next life.
ResetTo(f) ==
  /\ file' = f /\ bufOff' = 0 /\ have' = 0 /\ walk' = 0
  /\ pending' = <<>> /\ samples' = <<>> /\ header' = FALSE /\ failed' = FALSE
  /\ nextDts' = 0 /\ needTfdt' = FALSE /\ sidx' = <<>> /\ feeding' = FALSE
  /\ taken' = <<>> /\ anchor' = 0 /\ seeks' = 0

DemuxInit ==
  /\ file \in Files /\ bufOff = 0 /\ have = 0 /\ walk = 0
  /\ pending = <<>> /\ samples = <<>> /\ header = FALSE /\ failed = FALSE
  /\ nextDts = 0 /\ needTfdt = FALSE /\ sidx = <<>> /\ feeding = FALSE
  /\ taken = <<>> /\ anchor = 0 /\ seeks = 0

DemuxSteps == Slice \/ Await \/ Refuse \/ Walk \/ Take

-----------------------------------------------------------------------------
(* What a file promises, read as a whole and without an order of arrival:  *)
(* the events of the walk from an anchor.  An event gives a sample, breaks *)
(* the stream, or just lets the walk on; it happens once the file is in up *)
(* to `need'.                                                              *)

Fragments(f) == {b \in DOMAIN f : f[b].type = "moof"}
Count(f, b) == FoldLeft(LAMBDA n, run : n + Len(run.sizes), 0, f[b].traf.runs)

\* The decode time of fragment b: its own, or where the one before it ended.
DecodeTime(f) ==
  LET at[b \in 0..Len(f)] ==      \* the time after box b
        IF b = 0 THEN 0
        ELSE IF b \notin Fragments(f) THEN at[b - 1]
        ELSE (IF f[b].traf.time = NoTime THEN at[b - 1] ELSE f[b].traf.time) + Count(f, b)
  IN [b \in Fragments(f) |-> at[b] - Count(f, b)]

Nothing == [off |-> 0, size |-> 0, dts |-> 0]
Event(need, sample, breaks) == [need |-> need, sample |-> sample, breaks |-> breaks]

InItsData(f, b, s) ==
  b < Len(f) /\ f[b + 1].type = "mdat" /\ f[b + 1].size # 0 =>
    s.off >= End(f, b) + f[b + 1].hdr /\ s.off + s.size <= End(f, b + 1)

SampleEvents(f, b) ==
  LET all == Timed(Cuts(Start(f, b), f[b].traf.runs), DecodeTime(f)[b])
  IN [i \in DOMAIN all |->
       IF InItsData(f, b, all[i]) THEN Event(all[i].off + all[i].size, all[i], FALSE)
       ELSE Event(End(f, b) + f[b + 1].hdr, Nothing, TRUE)]

\* first is the first fragment after a seek, 0 from the start of a file.
BoxEvents(f, b, first) ==
  IF f[b].size = 0 \/ f[b].type = "junk" THEN <<Event(Start(f, b) + f[b].hdr, Nothing, TRUE)>>
  ELSE CASE f[b].type = "moof" ->
              IF ~WellFormed(f[b].traf) \/ (b = first /\ f[b].traf.time = NoTime)
              THEN <<Event(End(f, b), Nothing, TRUE)>>
              ELSE <<Event(End(f, b), Nothing, FALSE)>> \o SampleEvents(f, b)
         [] f[b].type \in {"moov", "sidx"} -> <<Event(End(f, b), Nothing, FALSE)>>
         [] OTHER -> <<Event(Start(f, b) + f[b].hdr, Nothing, FALSE)>>

EventsFrom(f, from) ==
  LET first == IF from = 0 THEN 0
               ELSE CHOOSE b \in Fragments(f) :
                      /\ Start(f, b) >= from
                      /\ \A c \in Fragments(f) : Start(f, c) >= from => b <= c
  IN FlattenSeq([b \in DOMAIN f |-> IF Start(f, b) < from THEN <<>> ELSE BoxEvents(f, b, first)])

\* Offsets a walk can start at: the file's start and its fragments.
Anchors(f) == {0} \cup {Start(f, b) : b \in Fragments(f)}
Events == [f \in Files |-> [from \in Anchors(f) |-> EventsFrom(f, from)]]

\* How many events have happened once the file is in up to `in'.
Happened(events, in) ==
  LET late == {i \in DOMAIN events : events[i].need > in \/ (i > 1 /\ events[i - 1].breaks)}
  IN IF late = {} THEN Len(events) ELSE (CHOOSE i \in late : \A j \in late : i <= j) - 1

Given(events) ==
  LET good == SelectSeq(events, LAMBDA e : e.sample # Nothing)
  IN [i \in DOMAIN good |-> good[i].sample]
Broken(events) == \E i \in DOMAIN events : events[i].breaks

=============================================================================
