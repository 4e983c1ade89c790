----------------------------- MODULE ByteSource -----------------------------
(***************************************************************************)
(* media::ProgressiveSource (core/media/bytesource.cpp): range windows of  *)
(* one file, fetched ahead of the consumer.  A source is a record, and the *)
(* operators below are what its methods do to it; MediaPump holds one per  *)
(* lane and runs the signals they emit.                                    *)
(*                                                                         *)
(* Bytes are counted in units.  A window is named by the url it came from  *)
(* and by its place in the file; the url is the number of the session that *)
(* opened it, and 0 is the empty url of a closed source.                   *)
(***************************************************************************)
EXTENDS Naturals, Sequences

CONSTANTS
  Window,      \* m_plan.windowBytes()
  ReadAhead,   \* m_plan.readAheadWindows()
  NoReply      \* m_reply = 0

Slots == {"probe", "window"}   \* onProbeFinished, onWindowFinished
Windows(urls, size) == [url : urls, from : 0..size, n : 1..Window]
Replies(urls, size) == [url : urls, from : 0..size, slot : Slots]

Sources(urls, size) ==
  [url     : urls \cup {0},                        \* m_url
   ranged  : BOOLEAN,                              \* m_total >= 0, m_seekable
   offset  : 0..size,                              \* m_fetchOffset
   eof     : BOOLEAN,
   waiting : BOOLEAN,
   ready   : Seq(Windows(urls, size)),
   reply   : Replies(urls, size) \cup {NoReply},
   stray   : SUBSET Slots]   \* replies m_reply forgot, by the slot they run

NewSource == [url |-> 0, ranged |-> FALSE, offset |-> 0, eof |-> FALSE,
              waiting |-> FALSE, ready |-> <<>>, reply |-> NoReply, stray |-> {}]

\* close(): the reply is disconnected and aborted; offset and eof stay.
Close(s) == [s EXCEPT !.url = 0, !.ready = <<>>, !.reply = NoReply, !.waiting = FALSE]

\* issueWindow(): m_reply is overwritten; a reply it held stays connected.
Issue(s, slot) ==
  [s EXCEPT !.reply = [url |-> s.url, from |-> s.offset, slot |-> slot],
            !.stray = @ \cup (IF s.reply = NoReply THEN {} ELSE {s.reply.slot})]

Open(s, url) ==
  Issue([s EXCEPT !.url = url, !.offset = 0, !.eof = FALSE,
                  !.waiting = FALSE, !.ready = <<>>], "probe")

TopUp_OffByOne(s, size) ==
  IF s.url = 0 \/ s.reply # NoReply \/ s.eof THEN s
  ELSE IF s.ranged /\ s.offset + 1 >= size THEN [s EXCEPT !.eof = TRUE]
  ELSE IF Len(s.ready) >= ReadAhead THEN s
  ELSE Issue(s, "window")

\* topUp(): at most one prefetch, none past the end or the read-ahead target.
TopUp(s, size) ==
  IF s.url = 0 \/ s.reply # NoReply \/ s.eof THEN s
  ELSE IF s.ranged /\ s.offset >= size THEN [s EXCEPT !.eof = TRUE]
  ELSE IF Len(s.ready) >= ReadAhead THEN s
  ELSE Issue(s, "window")

Wait_NoTopUp(s, size) == [s EXCEPT !.waiting = TRUE]

\* requestData() with nothing ready and the end not reached.
Wait(s, size) == TopUp([s EXCEPT !.waiting = TRUE], size)

\* seek(): a close() that keeps the url.
Seek(s, offset) ==
  IF s.ranged THEN [Close(s) EXCEPT !.url = s.url, !.offset = offset, !.eof = FALSE]
  ELSE s

\* The window a reply brings when the server answers n units.
Brought(s, n) == [url |-> s.reply.url, from |-> s.reply.from, n |-> n]

\* The server's answer to a range: a full window, or what is left of the file.
Answered(s, size) == IF s.offset + Window <= size THEN Window ELSE size - s.offset

\* onProbeFinished() up to opened(): the first window seeds the queue.
Probed(s, n, ranged) ==
  [s EXCEPT !.reply = NoReply, !.ranged = ranged, !.offset = @ + n,
            !.eof = @ \/ n = 0,
            !.ready = IF n = 0 THEN @ ELSE Append(@, Brought(s, n))]

Landed_WholeWindow(s, n) ==
  [s EXCEPT !.reply = NoReply, !.offset = @ + Window, !.eof = @ \/ n = 0,
            !.waiting = FALSE,
            !.ready = IF n = 0 \/ s.waiting THEN @ ELSE Append(@, Brought(s, n))]

\* onWindowFinished() up to the delivery: a blocked consumer takes the window.
Landed(s, n) ==
  [s EXCEPT !.reply = NoReply, !.offset = @ + n, !.eof = @ \/ n = 0,
            !.waiting = FALSE,
            !.ready = IF n = 0 \/ s.waiting THEN @ ELSE Append(@, Brought(s, n))]

=============================================================================
