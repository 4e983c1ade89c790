----------------------------- MODULE CurlReplies -----------------------------
(***************************************************************************)
(* The network stack of one thread: a CurlNetworkAccessManager, its        *)
(* CurlEngine (one libcurl multi handle driven by the thread's Qt event    *)
(* loop) and the CurlNetworkReply objects of its requests.                 *)
(*                                                                         *)
(* The thread's control is a stack of frames.  "turn" is one turn of the   *)
(* event loop; "drive" is curl_multi_socket_action, in which libcurl calls *)
(* back with headers and bodies and ends transfers; "check" is the loop of *)
(* checkCompletions; "slot" is whoever is connected to finished(), which   *)
(* is emitted synchronously: that code may create, abort or release        *)
(* replies while the frames below it are still running.  libcurl itself is *)
(* external: what its multi handle holds (multi, messages) changes only as *)
(* its documented calls do.                                                *)
(***************************************************************************)
EXTENDS Naturals, Sequences, SequencesExt

CONSTANTS
  Replies,    \* the requests that may be made
  BodySize,   \* reply -> pieces of body its server has for it
  MaxBody     \* s_maxBodyBytes, in pieces

ASSUME BodyAssumption == MaxBody \in Nat /\ BodySize \in [Replies -> Nat]
ASSUME RepliesAssumption == IsFiniteSet(Replies)

VARIABLES
  life,       \* reply -> "unborn" | "alive" | "doomed" (deleteLater) | "dead"
  inMulti,    \* replies whose m_inMulti is set
  finished,   \* replies whose m_finished is set
  listened,   \* replies whose owner is connected to finished()
  heard,      \* reply -> the finished() signals its owner received (to 2)
  outcome,    \* reply -> "none" | "ok" | "error"
  buffer,     \* reply -> pieces in m_buffer
  failing,    \* replies whose onInitFailed() timer is set
  multi,      \* handles the CURLM holds                             (libcurl)
  messages,   \* its CURLMSG_DONE, in no order it documents           (libcurl)
  timer,      \* m_timer is running
  kick,       \* a singleShot(0) to onTimeout() is set
  engine,     \* the engine lives
  leaked,     \* handles the CURLM still held when it was cleaned up
  stack       \* frames of the thread, the innermost last

replyVars == <<life, inMulti, finished, listened, heard, outcome, buffer, failing>>
engineVars == <<multi, messages, timer, kick, engine, leaked>>
curlVars == <<replyVars, engineVars, stack>>

Frames == {"turn", "drive", "check", "posted", "slot"}

TypeOK ==
  /\ life \in [Replies -> {"unborn", "alive", "doomed", "dead"}]
  /\ inMulti \subseteq Replies /\ finished \subseteq Replies
  /\ listened \subseteq Replies /\ failing \subseteq Replies
  /\ heard \in [Replies -> 0..2]
  /\ outcome \in [Replies -> {"none", "ok", "error"}]
  /\ buffer \in [Replies -> 0..MaxBody]
  /\ multi \subseteq Replies /\ leaked \subseteq Replies
  /\ messages \subseteq [reply : Replies, code : {"ok", "error"}]
  /\ timer \in BOOLEAN /\ kick \in BOOLEAN /\ engine \in BOOLEAN
  /\ stack \in Seq(Frames)

CurlInit ==
  /\ life = [r \in Replies |-> "unborn"]
  /\ inMulti = {} /\ finished = {} /\ listened = {} /\ failing = {}
  /\ heard = [r \in Replies |-> 0]
  /\ outcome = [r \in Replies |-> "none"]
  /\ buffer = [r \in Replies |-> 0]
  /\ multi = {} /\ messages = {} /\ leaked = {}
  /\ timer = FALSE /\ kick = FALSE /\ engine = TRUE
  /\ stack = <<>>

----------------------------------------------------------------------------
Exists(r) == life[r] \in {"alive", "doomed"}
In(frame) == stack # <<>> /\ Last(stack) = frame
Waiting == stack = <<>>                          \* the thread is in its poll
Returned == Front(stack)
Becomes(frame) == stack' = Append(Front(stack), frame)

\* The replies one of whose CURLMSG_DONE waits to be read.
Ended == {m.reply : m \in messages}
MessagesWithout(R) == {m \in messages : m.reply \notin R}

\* CurlEngine::remove: the handle leaves the multi, its message with it.
RemoveHandles(R) == /\ multi' = multi \ R
                    /\ messages' = MessagesWithout(R)

\* emit finished(): the owner's slot, if it is still connected, runs at once,
\* on top of the frames in fs.
Emit(r, fs) ==
  IF r \in listened
  THEN /\ heard' = [heard EXCEPT ![r] = IF @ < 2 THEN @ + 1 ELSE @]
       /\ stack' = Append(fs, "slot")
  ELSE /\ UNCHANGED heard
       /\ stack' = fs

----------------------------------------------------------------------------
\* CurlEngine::add: the multi takes the handle (which asks for the timer) and
\* the first drive is put off to the next turn.
Added(r) == /\ multi' = multi \union {r}
            /\ kick' = TRUE
            /\ timer' = TRUE

\* Mutant of Create: a failed start is reported there and then.
Create_FailsAtOnce(r) ==
  /\ life[r] = "unborn" /\ engine
  /\ life' = [life EXCEPT ![r] = "alive"]
  /\ listened' = listened \union {r}
  /\ \/ Added(r) /\ inMulti' = inMulti \union {r} /\ UNCHANGED <<finished, outcome>>
     \/ /\ finished' = finished \union {r}
        /\ outcome' = [outcome EXCEPT ![r] = "error"]
        /\ UNCHANGED <<multi, kick, timer, inMulti>>
  /\ UNCHANGED <<failing, heard, buffer, messages, engine, leaked>>

\* CurlNetworkAccessManager::createRequest and the reply's constructor.  The
\* easy handle may not be had, or the multi may refuse it: the failure is then
\* reported by a timer.  The caller connects finished() when it has the reply.
Create(r) ==
  /\ life[r] = "unborn" /\ engine
  /\ life' = [life EXCEPT ![r] = "alive"]
  /\ listened' = listened \union {r}
  /\ \/ Added(r) /\ inMulti' = inMulti \union {r} /\ UNCHANGED failing
     \/ failing' = failing \union {r} /\ UNCHANGED <<multi, kick, timer, inMulti>>
  /\ UNCHANGED <<finished, heard, outcome, buffer, messages, engine, leaked>>

\* Mutant of OnCurlDone: a reply that finished may finish again.
OnCurlDone_Again(r, code, fs) ==
  /\ inMulti' = inMulti \ {r}
  /\ finished' = finished \union {r}
  /\ outcome' = [outcome EXCEPT ![r] = code]
  /\ Emit(r, fs)

\* CurlNetworkReply::onCurlDone, on top of the frames in fs.
OnCurlDone(r, code, fs) ==
  IF r \in finished
  THEN /\ stack' = fs
       /\ UNCHANGED <<inMulti, finished, outcome, heard>>
  ELSE /\ inMulti' = inMulti \ {r}
       /\ finished' = finished \union {r}
       /\ outcome' = [outcome EXCEPT ![r] = code]
       /\ Emit(r, fs)

\* Mutant of AbortFrom: the handle stays in the multi.
AbortFrom_KeepsHandle(r, fs) ==
  IF r \in finished
  THEN /\ stack' = fs
       /\ UNCHANGED <<inMulti, finished, outcome, heard, multi, messages>>
  ELSE /\ UNCHANGED <<multi, messages>>
       /\ inMulti' = inMulti \ {r}
       /\ finished' = finished \union {r}
       /\ outcome' = [outcome EXCEPT ![r] = "error"]
       /\ Emit(r, fs)

\* CurlNetworkReply::abort, on top of the frames in fs.
AbortFrom(r, fs) ==
  IF r \in finished
  THEN /\ stack' = fs
       /\ UNCHANGED <<inMulti, finished, outcome, heard, multi, messages>>
  ELSE /\ IF r \in inMulti /\ engine THEN RemoveHandles({r})
                                     ELSE UNCHANGED <<multi, messages>>
       /\ inMulti' = inMulti \ {r}
       /\ finished' = finished \union {r}
       /\ outcome' = [outcome EXCEPT ![r] = "error"]
       /\ Emit(r, fs)

\* The owner aborts and waits to hear of it (Http::abort, Http::onDeadline).
Abort(r, fs) ==
  /\ life[r] = "alive" /\ r \in listened
  /\ AbortFrom(r, fs)
  /\ UNCHANGED <<life, listened, buffer, failing, timer, kick, engine, leaked>>

\* The owner disconnects, aborts and releases (ByteSource::close and the like).
Drop(r) ==
  /\ life[r] = "alive" /\ r \in listened
  /\ listened' = listened \ {r}
  /\ life' = [life EXCEPT ![r] = "doomed"]
  /\ IF r \in finished
     THEN UNCHANGED <<inMulti, finished, outcome, multi, messages>>
     ELSE /\ IF r \in inMulti /\ engine THEN RemoveHandles({r})
                                        ELSE UNCHANGED <<multi, messages>>
          /\ inMulti' = inMulti \ {r}
          /\ finished' = finished \union {r}
          /\ outcome' = [outcome EXCEPT ![r] = "error"]
  /\ UNCHANGED <<heard, buffer, failing, timer, kick, engine, leaked, stack>>

\* deleteLater() on a reply that was heard.
Release(r) ==
  /\ life[r] = "alive" /\ heard[r] > 0
  /\ life' = [life EXCEPT ![r] = "doomed"]
  /\ UNCHANGED <<inMulti, finished, listened, heard, outcome, buffer, failing,
                 engineVars, stack>>

\* ~CurlNetworkReply of the replies in R, with the engine alive.
Destroyed(R) ==
  /\ life' = [r \in Replies |-> IF r \in R THEN "dead" ELSE life[r]]
  /\ RemoveHandles(inMulti \cap R)
  /\ inMulti' = inMulti \ R
  /\ failing' = failing \ R

----------------------------------------------------------------------------
\* A turn of the loop that begins with the engine: its timer, the kick of a new
\* request, or a socket some transfer waits on.
Drives == stack' = <<"turn", "drive">>

OnTimer == /\ Waiting /\ engine /\ timer
           /\ timer' = FALSE
           /\ Drives
           /\ UNCHANGED <<replyVars, multi, messages, kick, engine, leaked>>

OnKick == /\ Waiting /\ engine /\ kick
          /\ kick' = FALSE
          /\ Drives
          /\ UNCHANGED <<replyVars, multi, messages, timer, engine, leaked>>

OnSocket == /\ Waiting /\ engine /\ multi # {}
            /\ Drives
            /\ UNCHANGED <<replyVars, engineVars>>

\* libcurl ends a transfer: its code waits to be read.
Ends(r, code) ==
  /\ In("drive") /\ r \in multi \ Ended
  /\ messages' = messages \union {[reply |-> r, code |-> code]}

\* Mutants of Receive: what exceeds the cap is taken, or is dropped in silence.
Receive_NoCap(r) ==
  /\ In("drive") /\ r \in multi \ Ended /\ buffer[r] < BodySize[r]
  /\ buffer' = [buffer EXCEPT ![r] = @ + 1]
  /\ UNCHANGED <<life, inMulti, finished, listened, heard, outcome, failing,
                 engineVars, stack>>

Receive_Truncates(r) ==
  /\ In("drive") /\ r \in multi \ Ended /\ buffer[r] < BodySize[r]
  /\ \/ /\ buffer[r] < MaxBody
        /\ buffer' = [buffer EXCEPT ![r] = @ + 1]
        /\ UNCHANGED messages
     \/ /\ buffer[r] >= MaxBody
        /\ Ends(r, "ok")
        /\ UNCHANGED buffer
  /\ UNCHANGED <<life, inMulti, finished, listened, heard, outcome, failing,
                 multi, timer, kick, engine, leaked, stack>>

\* A piece of body reaches writeCb; past the cap appendBody refuses it, and
\* libcurl ends the transfer with CURLE_WRITE_ERROR.
Receive(r) ==
  /\ In("drive") /\ r \in multi \ Ended /\ buffer[r] < BodySize[r]
  /\ \/ /\ buffer[r] < MaxBody
        /\ buffer' = [buffer EXCEPT ![r] = @ + 1]
        /\ UNCHANGED messages
     \/ /\ buffer[r] >= MaxBody
        /\ Ends(r, "error")
        /\ UNCHANGED buffer
  /\ UNCHANGED <<life, inMulti, finished, listened, heard, outcome, failing,
                 multi, timer, kick, engine, leaked, stack>>

\* The whole body came.
Complete(r) == /\ buffer[r] = BodySize[r]
               /\ Ends(r, "ok")
               /\ UNCHANGED <<replyVars, multi, timer, kick, engine, leaked, stack>>

\* The connection fails, or the transfer's ceiling (CURLOPT_TIMEOUT_MS) is up.
Fail(r) == /\ Ends(r, "error")
           /\ UNCHANGED <<replyVars, multi, timer, kick, engine, leaked, stack>>

\* socket_action returns, having set the timer (timerCb) for what it still
\* carries, and socketAction goes on to checkCompletions.
Driven == /\ In("drive")
          /\ timer' = (multi \ Ended # {})
          /\ Becomes("check")
          /\ UNCHANGED <<replyVars, multi, messages, kick, engine, leaked>>

\* One round of checkCompletions: curl_multi_info_read hands out some message.
Completion ==
  /\ In("check")
  /\ \E m \in messages : /\ messages' = messages \ {m}
                         /\ multi' = multi \ {m.reply}
                         /\ OnCurlDone(m.reply, m.code, stack)
  /\ UNCHANGED <<life, listened, buffer, failing, timer, kick, engine, leaked>>

Checked == /\ In("check") /\ messages = {}
           /\ stack' = Returned
           /\ UNCHANGED <<replyVars, engineVars>>

\* The timer of a reply that could not be started.
OnInitFailed(r) ==
  /\ Waiting /\ r \in failing
  /\ failing' = failing \ {r}
  /\ OnCurlDone(r, "error", <<"turn">>)
  /\ UNCHANGED <<life, listened, buffer, engineVars>>

\* The deferred delete of a released reply.
Reap(r) == /\ Waiting /\ life[r] = "doomed"
           /\ Destroyed({r})
           /\ UNCHANGED <<finished, listened, heard, outcome, buffer,
                          timer, kick, engine, leaked, stack>>

\* A slot on finished() asks for more, drops another reply, or lets its own go.
InSlot == /\ In("slot")
          /\ \E r \in Replies : \/ Create(r) /\ UNCHANGED stack
                                \/ Abort(r, stack)
                                \/ Drop(r)
                                \/ Release(r)

SlotReturns == /\ In("slot")
               /\ stack' = Returned
               /\ UNCHANGED <<replyVars, engineVars>>

\* The owner's deadline timer aborts what it still waits for (Http::onDeadline).
OnDeadline(r) == Waiting /\ heard[r] = 0 /\ Abort(r, <<"turn">>)

\* Mutant of NamDies: the members go first, the replies with the base class.
NamDies_EngineFirst ==
  /\ engine
  /\ LET R == {r \in Replies : Exists(r)} IN
       /\ life' = [r \in Replies |-> IF r \in R THEN "dead" ELSE life[r]]
       /\ inMulti' = inMulti \ R
       /\ failing' = failing \ R
  /\ leaked' = multi
  /\ engine' = FALSE /\ multi' = {} /\ messages' = {}
  /\ timer' = FALSE /\ kick' = FALSE
  /\ UNCHANGED <<finished, listened, heard, outcome, buffer>>

\* ~CurlNetworkAccessManager: the replies die while the engine still lives, then
\* the engine goes and cleans its multi up.
NamDies ==
  /\ engine
  /\ LET R == {r \in Replies : Exists(r)} IN
       /\ life' = [r \in Replies |-> IF r \in R THEN "dead" ELSE life[r]]
       /\ leaked' = multi \ (inMulti \cap R)
       /\ inMulti' = inMulti \ R
       /\ failing' = failing \ R
  /\ engine' = FALSE /\ multi' = {} /\ messages' = {}
  /\ timer' = FALSE /\ kick' = FALSE
  /\ UNCHANGED <<finished, listened, heard, outcome, buffer>>

Transfer == \E r \in Replies : Receive(r) \/ Complete(r) \/ Fail(r)

CurlNext == \/ OnTimer \/ OnKick \/ OnSocket
            \/ Transfer \/ Driven \/ Completion \/ Checked
            \/ InSlot \/ SlotReturns
            \/ \E r \in Replies : OnInitFailed(r) \/ Reap(r) \/ OnDeadline(r)

----------------------------------------------------------------------------
\* What libcurl holds is what the replies think it holds, and nothing it holds
\* or has to report belongs to a reply that is gone: a queued completion never
\* reaches a dead reply, and the multi is empty when it is cleaned up.
NoDangling ==
  /\ multi = inMulti
  /\ \A r \in multi : Exists(r) /\ r \notin finished
  /\ Ended \subseteq multi
  /\ leaked = {}

\* A reply reported without an error has all of its body, however the transfer
\* ended and whatever was aborted around it; and what was cut off by the cap is
\* an error.
WholeOrError ==
  \A r \in Replies :
    /\ outcome[r] = "ok" => buffer[r] = BodySize[r]
    /\ heard[r] > 0 => outcome[r] # "none"
=============================================================================
