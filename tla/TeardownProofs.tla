---------------------------- MODULE TeardownProofs ----------------------------
(***************************************************************************)
(* Theorems about a network stack (CurlReplies) and its teardown, for any  *)
(* finite number of replies, any sizes and any number of closures.         *)
(*                                                                         *)
(* StackInv is why libcurl and the reply objects never disagree: what is   *)
(* finished is out of the multi with its message, an aborted failing start *)
(* cannot finish again, and a reply that still has an owner to tell is     *)
(* alive.  HostInv is why nothing follows the deletion of the transport:   *)
(* it is the last closure anybody posts.                                   *)
(***************************************************************************)
EXTENDS Teardown, SequenceTheorems, FiniteSetTheorems, TLAPS

USE BodyAssumption, RepliesAssumption, StacksAssumption

\* One reply: who may still finish it, and what its end has told.
ReplyOK(r) ==
  /\ life[r] = "unborn" => /\ r \notin finished /\ r \notin listened
                           /\ r \notin failing /\ heard[r] = 0
  /\ r \in failing => Exists(r) /\ r \notin inMulti
  /\ r \notin finished <=> outcome[r] = "none"
  /\ r \notin finished => heard[r] = 0
  /\ outcome[r] = "ok" => buffer[r] = BodySize[r]
  /\ life[r] = "doomed" /\ r \in listened => heard[r] > 0
  /\ heard[r] < 2

\* libcurl's messages: one for a transfer, and "ok" when the body is whole.
MessagesOK ==
  /\ \A m, n \in messages : m.reply = n.reply => m = n
  /\ \A m \in messages : m.code = "ok" => buffer[m.reply] = BodySize[m.reply]

StackInv ==
  /\ NoDangling
  /\ MessagesOK
  /\ ~engine => multi = {}
  /\ \A r \in Replies : ReplyOK(r)

\* The stages of main() up to the posting of the transport's deletion.
Before == {"constructing", "exec", "returned", "media joined", "viewer gone"}

\* The worker has frames only while its loop is up; the deletion of the
\* transport is the last closure of the queue, and afterwards there is none.
HostInv ==
  /\ loop # "up" => stack = <<>>
  /\ main = "constructing" <=> loop = "none"
  /\ main = "constructing" => \A r \in Replies : life[r] = "unborn"
  /\ main \in Before => engine /\ \A i \in DOMAIN queue : queue[i].op # "delete"
  /\ \A i \in DOMAIN queue : queue[i].op = "delete" => i = Len(queue)
  /\ ~engine => queue = <<>>
  /\ main \in {"joined", "cleaned"} => loop = "ended"
  /\ main \notin {"constructing", "exec", "returned"} => "media" \notin busy
  /\ main \notin {"constructing", "exec", "returned", "media joined"} => "images" \notin busy
  /\ ~misuse

TeardownInv == HostTypeOK /\ StackInv /\ HostInv

-----------------------------------------------------------------------------
(* Lemmas about frames and closures                                        *)

\* A frame returns: the others stay.
LEMMA FrontType ==
  ASSUME NEW S, NEW s \in Seq(S), s # <<>>
  PROVE  Front(s) \in Seq(S)
<1>1. Len(s) \in Nat \ {0}
  BY EmptySeq, LenProperties
<1>2. \A i \in 1..(Len(s) - 1) : s[i] \in S
  BY <1>1, ElementOfSeq
<1>3. Front(s) = [i \in 1..(Len(s) - 1) |-> s[i]]
  BY <1>1 DEF Front
<1> QED
  BY <1>1, <1>2, <1>3

\* One closure per reply of a finite set.
LEMMA EachType ==
  ASSUME NEW R \in SUBSET Replies, NEW op \in {"request", "abort"}
  PROVE  /\ Each(op, R) \in Seq(Closures)
         /\ \A i \in DOMAIN Each(op, R) : Each(op, R)[i].op = op
<1>1. IsFiniteSet(R)
  BY FS_Subset
<1>2. PICK f : f \in Bijection(1..Cardinality(R), R)
  BY <1>1, FS_CardinalityType DEF ExistsBijection
<1>3. Cardinality(R) \in Nat
  BY <1>1, FS_CardinalityType
<1>4. f \in [1..Cardinality(R) -> R] /\ IsInjective(f)
  BY <1>2 DEF Bijection, Injection, IsInjective
<1>5. SetToSeq(R) \in [1..Cardinality(R) -> R]
  BY <1>4 DEF SetToSeq
<1>6. Len(SetToSeq(R)) = Cardinality(R)
  BY <1>3, <1>5
<1>7. \A i \in 1..Cardinality(R) : [op |-> op, reply |-> SetToSeq(R)[i]] \in Closures
  BY <1>5 DEF Closures
<1> QED
  BY <1>3, <1>6, <1>7 DEF Each

-----------------------------------------------------------------------------
(* The network stack: types                                                *)

LEMMA EmitType ==
  ASSUME TypeOK, NEW r \in Replies, NEW fs \in Seq(Frames), Emit(r, fs)
  PROVE  heard' \in [Replies -> 0..2] /\ stack' \in Seq(Frames)
<1>1. Append(fs, "slot") \in Seq(Frames)
  BY AppendProperties DEF Frames
<1>2. CASE r \in listened
  <2> DEFINE n == IF heard[r] < 2 THEN heard[r] + 1 ELSE heard[r]
  <2>1. n \in 0..2 /\ heard' = [heard EXCEPT ![r] = n]
    BY <1>2 DEF Emit, TypeOK
  <2> HIDE DEF n
  <2> QED
    BY <1>1, <1>2, <2>1 DEF Emit, TypeOK
<1>3. CASE r \notin listened
  BY <1>3 DEF Emit, TypeOK
<1> QED
  BY <1>2, <1>3

LEMMA DoneType ==
  ASSUME TypeOK, NEW r \in Replies, NEW code \in {"ok", "error"}, NEW fs \in Seq(Frames),
         OnCurlDone(r, code, fs)
  PROVE  /\ inMulti' \subseteq Replies /\ finished' \subseteq Replies
         /\ heard' \in [Replies -> 0..2] /\ stack' \in Seq(Frames)
         /\ outcome' \in [Replies -> {"none", "ok", "error"}]
  BY EmitType DEF OnCurlDone, TypeOK

LEMMA AbortType ==
  ASSUME TypeOK, NEW r \in Replies, NEW fs \in Seq(Frames), Abort(r, fs)
  PROVE  TypeOK'
<1>1. /\ inMulti' \subseteq Replies /\ finished' \subseteq Replies
      /\ heard' \in [Replies -> 0..2] /\ stack' \in Seq(Frames)
      /\ outcome' \in [Replies -> {"none", "ok", "error"}]
      /\ multi' \subseteq Replies /\ messages' \subseteq messages
  BY EmitType DEF Abort, AbortFrom, RemoveHandles, MessagesWithout, TypeOK
<1> QED
  BY <1>1 DEF Abort, TypeOK

LEMMA CreateType ==
  ASSUME TypeOK, NEW r \in Replies, Create(r), UNCHANGED stack
  PROVE  TypeOK'
  BY DEF Create, Added, TypeOK

LEMMA DestroyedType ==
  ASSUME TypeOK, NEW R \in SUBSET Replies, Destroyed(R), stack' \in Seq(Frames),
         UNCHANGED <<finished, listened, heard, outcome, buffer, timer, kick, engine, leaked>>
  PROVE  TypeOK'
  BY DEF Destroyed, RemoveHandles, MessagesWithout, TypeOK

LEMMA NamDiesType ==
  ASSUME TypeOK, NamDies, UNCHANGED stack
  PROVE  TypeOK'
<1>1. \A r \in Replies : life'[r] \in {"unborn", "alive", "doomed", "dead"}
  BY DEF NamDies, TypeOK
<1>2. life' \in [Replies -> {"unborn", "alive", "doomed", "dead"}]
  BY <1>1 DEF NamDies
<1> QED
  BY <1>2 DEF NamDies, TypeOK

\* Every step of the network stack keeps the types of its state.
LEMMA CurlType == TypeOK /\ CurlNext => TypeOK'
<1> SUFFICES ASSUME TypeOK, CurlNext PROVE TypeOK'
  OBVIOUS
<1>1. <<"turn", "drive">> \in Seq(Frames) /\ <<"turn">> \in Seq(Frames)
      /\ <<"turn", "slot">> \in Seq(Frames)
  BY DEF Frames
<1>2. stack # <<>> => Front(stack) \in Seq(Frames)
  BY FrontType DEF TypeOK
<1>3. CASE OnTimer \/ OnKick \/ OnSocket
  BY <1>1, <1>3 DEF OnTimer, OnKick, OnSocket, Drives, TypeOK, replyVars, engineVars
<1>4. ASSUME NEW r \in Replies, Receive(r) PROVE TypeOK'
  <2>1. buffer' \in [Replies -> 0..MaxBody]
    <3>1. buffer' = buffer \/ (buffer[r] < MaxBody /\ buffer' = [buffer EXCEPT ![r] = @ + 1])
      BY <1>4 DEF Receive
    <3>2. buffer[r] < MaxBody => buffer[r] + 1 \in 0..MaxBody
      BY DEF TypeOK
    <3> QED
      BY <3>1, <3>2 DEF TypeOK
  <2>2. messages' \subseteq [reply : Replies, code : {"ok", "error"}]
    BY <1>4 DEF Receive, Ends, TypeOK
  <2> QED
    BY <1>4, <2>1, <2>2 DEF Receive, TypeOK
<1>5. ASSUME NEW r \in Replies, Complete(r) \/ Fail(r) PROVE TypeOK'
  BY <1>5 DEF Complete, Fail, Ends, replyVars, TypeOK
<1>6. CASE Driven
  <2>1. stack' \in Seq(Frames)
    BY <1>2, <1>6, AppendProperties DEF Driven, In, Becomes, Frames
  <2> QED
    BY <1>6, <2>1 DEF Driven, replyVars, TypeOK
<1>7. CASE Completion
  <2>1. PICK m \in messages : /\ messages' = messages \ {m} /\ multi' = multi \ {m.reply}
                              /\ OnCurlDone(m.reply, m.code, stack)
    BY <1>7 DEF Completion
  <2>2. m.reply \in Replies /\ m.code \in {"ok", "error"} /\ stack \in Seq(Frames)
    BY DEF TypeOK
  <2>3. /\ inMulti' \subseteq Replies /\ finished' \subseteq Replies
        /\ heard' \in [Replies -> 0..2] /\ stack' \in Seq(Frames)
        /\ outcome' \in [Replies -> {"none", "ok", "error"}]
    BY ONLY <2>1, <2>2, DoneType, TypeOK
  <2> QED
    BY <1>7, <2>1, <2>3 DEF Completion, TypeOK
<1>8. CASE Checked \/ SlotReturns
  BY <1>2, <1>8 DEF Checked, SlotReturns, In, Returned, replyVars, engineVars, TypeOK
<1>9. ASSUME NEW r \in Replies, Create(r), UNCHANGED stack PROVE TypeOK'
  BY <1>9, CreateType
<1>10. ASSUME NEW r \in Replies, Abort(r, stack) PROVE TypeOK'
  BY <1>10, AbortType DEF TypeOK
<1>11. ASSUME NEW r \in Replies, Drop(r) PROVE TypeOK'
  BY <1>11 DEF Drop, RemoveHandles, MessagesWithout, TypeOK
<1>12. ASSUME NEW r \in Replies, Release(r) PROVE TypeOK'
  BY <1>12 DEF Release, engineVars, TypeOK
<1>13. ASSUME NEW r \in Replies, OnInitFailed(r) PROVE TypeOK'
  <2>1. /\ inMulti' \subseteq Replies /\ finished' \subseteq Replies
        /\ heard' \in [Replies -> 0..2] /\ stack' \in Seq(Frames)
        /\ outcome' \in [Replies -> {"none", "ok", "error"}]
    BY <1>1, <1>13, DoneType DEF OnInitFailed
  <2> QED
    BY <1>13, <2>1 DEF OnInitFailed, engineVars, TypeOK
<1>14. ASSUME NEW r \in Replies, Reap(r) PROVE TypeOK'
  BY <1>14, DestroyedType DEF Reap, TypeOK
<1>15. ASSUME NEW r \in Replies, OnDeadline(r) PROVE TypeOK'
  BY <1>1, <1>15, AbortType DEF OnDeadline
<1> QED
  BY <1>3, <1>4, <1>5, <1>6, <1>7, <1>8, <1>9, <1>10, <1>11, <1>12, <1>13, <1>14, <1>15
     DEF CurlNext, Transfer, InSlot

-----------------------------------------------------------------------------
(* The network stack: replies, handles and messages agree                  *)

\* A reply ends, by completion, by a failed start, by abort() or by its owner
\* letting it go: handle, message and mark go together.
LEMMA EndKeeps ==
  ASSUME TypeOK, StackInv, NEW r \in Replies, NEW code \in {"ok", "error"},
         r \notin finished, Exists(r), code = "ok" => buffer[r] = BodySize[r],
         inMulti' = inMulti \ {r}, multi' = multi \ {r},
         messages' = {m \in messages : m.reply # r},
         finished' = finished \cup {r}, outcome' = [outcome EXCEPT ![r] = code],
         UNCHANGED <<buffer, engine, leaked>>, failing' \subseteq failing,
         \/ /\ UNCHANGED <<life, listened>>
            /\ heard' = IF r \in listened THEN [heard EXCEPT ![r] = 1] ELSE heard
         \/ /\ life' = [life EXCEPT ![r] = "doomed"] /\ listened' = listened \ {r}
            /\ UNCHANGED heard
  PROVE  StackInv'
<1> USE DEF StackInv
<1>1. heard[r] = 0 /\ outcome[r] = "none"
  BY DEF ReplyOK
<1>2. NoDangling'
  BY DEF NoDangling, Ended, Exists, TypeOK
<1>3. MessagesOK' /\ (~engine' => multi' = {})
  BY DEF MessagesOK
<1>4. ASSUME NEW q \in Replies PROVE ReplyOK(q)'
  <2>1. CASE q = r
    BY <1>1, <2>1 DEF ReplyOK, Exists, TypeOK
  <2>2. CASE q # r
    BY <2>2 DEF ReplyOK, Exists, TypeOK
  <2> QED
    BY <2>1, <2>2
<1> QED
  BY <1>2, <1>3, <1>4

\* finished() is heard once: Emit on a reply that has not finished yet.
LEMMA EmitOnce ==
  ASSUME TypeOK, StackInv, NEW r \in Replies, r \notin finished, NEW fs, Emit(r, fs)
  PROVE  heard' = IF r \in listened THEN [heard EXCEPT ![r] = 1] ELSE heard
<1>1. heard[r] = 0
  BY DEF StackInv, ReplyOK
<1> QED
  BY <1>1 DEF Emit, TypeOK

\* What holds no message of a reply loses none to its removal.
LEMMA Unsaid ==
  ASSUME TypeOK, StackInv, NEW r \in Replies, r \notin inMulti
  PROVE  multi \ {r} = multi /\ messages = {m \in messages : m.reply # r}
  BY DEF StackInv, NoDangling, Ended

LEMMA AbortKeeps ==
  ASSUME TypeOK, StackInv, NEW r \in Replies, NEW fs, Abort(r, fs)
  PROVE  StackInv'
<1> USE DEF Abort, AbortFrom
<1>1. CASE r \in finished
  <2>1. UNCHANGED <<life, inMulti, finished, listened, heard, outcome, buffer, failing,
                    multi, messages, engine, leaked>>
    BY <1>1
  <2> QED
    BY <2>1 DEF StackInv, NoDangling, MessagesOK, ReplyOK, Ended, Exists
<1>2. CASE r \notin finished
  <2>1. Exists(r)
    BY DEF Exists
  <2>2. multi' = multi \ {r} /\ messages' = {m \in messages : m.reply # r}
    <3>1. CASE r \in inMulti /\ engine
      BY <1>2, <3>1 DEF RemoveHandles, MessagesWithout
    <3>2. CASE ~(r \in inMulti /\ engine)
      <4>1. r \notin inMulti
        BY <3>2 DEF StackInv, NoDangling
      <4> QED
        BY <1>2, <3>2, <4>1, Unsaid
    <3> QED
      BY <3>1, <3>2
  <2>3. heard' = IF r \in listened THEN [heard EXCEPT ![r] = 1] ELSE heard
    BY <1>2, EmitOnce
  <2> QED
    BY <1>2, <2>1, <2>2, <2>3, EndKeeps
<1> QED
  BY <1>1, <1>2

LEMMA DropKeeps ==
  ASSUME TypeOK, StackInv, NEW r \in Replies, Drop(r)
  PROVE  StackInv'
<1> USE DEF Drop
<1>1. CASE r \in finished
  <2>1. /\ UNCHANGED <<inMulti, finished, heard, outcome, buffer, failing,
                       multi, messages, engine, leaked>>
        /\ life' = [life EXCEPT ![r] = "doomed"] /\ listened' = listened \ {r}
        /\ life[r] = "alive"
    BY <1>1
  <2> QED
    BY <2>1 DEF StackInv, NoDangling, MessagesOK, ReplyOK, Ended, Exists, TypeOK
<1>2. CASE r \notin finished
  <2>1. Exists(r)
    BY DEF Exists
  <2>2. multi' = multi \ {r} /\ messages' = {m \in messages : m.reply # r}
    <3>1. CASE r \in inMulti /\ engine
      BY <1>2, <3>1 DEF RemoveHandles, MessagesWithout
    <3>2. CASE ~(r \in inMulti /\ engine)
      <4>1. r \notin inMulti
        BY <3>2 DEF StackInv, NoDangling
      <4> QED
        BY <1>2, <3>2, <4>1, Unsaid
    <3> QED
      BY <3>1, <3>2
  <2> QED
    BY <1>2, <2>1, <2>2, EndKeeps
<1> QED
  BY <1>1, <1>2

\* A new request: the reply had no past.
LEMMA CreateKeeps ==
  ASSUME TypeOK, StackInv, NEW r \in Replies, Create(r)
  PROVE  StackInv'
<1> USE DEF StackInv
<1>1. life[r] = "unborn" /\ r \notin finished /\ r \notin inMulti /\ r \notin failing
      /\ heard[r] = 0 /\ engine
  BY DEF Create, NoDangling, ReplyOK, Exists
<1>2. \/ multi' = multi \cup {r} /\ inMulti' = inMulti \cup {r} /\ failing' = failing
      \/ failing' = failing \cup {r} /\ UNCHANGED <<multi, inMulti>>
  BY DEF Create, Added
<1>3. /\ life' = [life EXCEPT ![r] = "alive"] /\ listened' = listened \cup {r}
      /\ UNCHANGED <<finished, heard, outcome, buffer, messages, engine, leaked>>
  BY DEF Create
<1>4. NoDangling' /\ MessagesOK' /\ (~engine' => multi' = {})
  <2>1. MessagesOK' /\ (~engine' => multi' = {})
    BY <1>1, <1>3 DEF MessagesOK
  <2>2. multi' = inMulti' /\ Ended' \subseteq multi' /\ leaked' = {}
    BY <1>2, <1>3 DEF NoDangling, Ended
  <2>3. \A q \in multi' : Exists(q)' /\ q \notin finished'
    BY <1>1, <1>2, <1>3 DEF NoDangling, Exists, TypeOK
  <2> QED
    BY <2>1, <2>2, <2>3 DEF NoDangling
<1>5. ASSUME NEW q \in Replies PROVE ReplyOK(q)'
  <2>1. CASE q = r
    BY <1>1, <1>2, <1>3, <2>1 DEF ReplyOK, Exists, TypeOK
  <2>2. CASE q # r
    BY <1>2, <1>3, <2>2 DEF ReplyOK, Exists, TypeOK
  <2> QED
    BY <2>1, <2>2
<1> QED
  BY <1>4, <1>5

\* ~CurlNetworkReply takes the handle out of the multi before it is gone.
LEMMA DestroyedKeeps ==
  ASSUME TypeOK, StackInv, NEW R \in SUBSET Replies, Destroyed(R),
         \A r \in R : life[r] = "doomed",
         UNCHANGED <<finished, listened, heard, outcome, buffer, engine, leaked>>
  PROVE  StackInv'
<1> USE DEF StackInv
<1>1. /\ life' = [r \in Replies |-> IF r \in R THEN "dead" ELSE life[r]]
      /\ multi' = multi \ R /\ inMulti' = inMulti \ R /\ failing' = failing \ R
      /\ messages' = {m \in messages : m.reply \notin R}
  BY DEF Destroyed, RemoveHandles, MessagesWithout, NoDangling, Ended
<1>2. NoDangling' /\ MessagesOK' /\ (~engine' => multi' = {})
  BY <1>1 DEF NoDangling, MessagesOK, Ended, Exists, TypeOK
<1>3. ASSUME NEW q \in Replies PROVE ReplyOK(q)'
  BY <1>1 DEF ReplyOK, Exists, TypeOK
<1> QED
  BY <1>2, <1>3

\* ~CurlNetworkAccessManager: the replies die first, so nothing is left in the
\* multi when the engine cleans it up.
LEMMA NamDiesKeeps ==
  ASSUME TypeOK, StackInv, NamDies
  PROVE  StackInv'
<1> USE DEF StackInv
<1> DEFINE R == {r \in Replies : Exists(r)}
<1>1. /\ life' = [r \in Replies |-> IF r \in R THEN "dead" ELSE life[r]]
      /\ leaked' = multi \ (inMulti \cap R) /\ inMulti' = inMulti \ R /\ failing' = failing \ R
      /\ multi' = {} /\ messages' = {}
      /\ UNCHANGED <<finished, listened, heard, outcome, buffer>>
  BY DEF NamDies
<1>2. multi \subseteq R /\ inMulti \subseteq R /\ failing \subseteq R
  BY DEF NoDangling, TypeOK, ReplyOK
<1>3. \A r \in R : life[r] # "unborn"
  BY DEF Exists
<1> HIDE DEF R
<1>4. NoDangling' /\ MessagesOK' /\ (~engine' => multi' = {})
  BY <1>1, <1>2 DEF NoDangling, MessagesOK, Ended
<1>5. ASSUME NEW q \in Replies PROVE ReplyOK(q)'
  BY <1>1, <1>2, <1>3 DEF ReplyOK, TypeOK
<1> QED
  BY <1>4, <1>5

LEMMA StackUnchanged ==
  ASSUME StackInv, UNCHANGED <<replyVars, multi, messages, engine, leaked>>
  PROVE  StackInv'
  BY DEF StackInv, NoDangling, MessagesOK, ReplyOK, Ended, Exists, replyVars

\* Every step of the network stack keeps the three in agreement.
LEMMA CurlKeeps == TypeOK /\ StackInv /\ CurlNext => StackInv'
<1> SUFFICES ASSUME TypeOK, StackInv, CurlNext PROVE StackInv'
  OBVIOUS
<1>1. CASE OnTimer \/ OnKick \/ OnSocket \/ Driven \/ Checked \/ SlotReturns
  <2>1. UNCHANGED <<replyVars, multi, messages, engine, leaked>>
    BY <1>1 DEF OnTimer, OnKick, OnSocket, Driven, Checked, SlotReturns, engineVars
  <2> QED
    BY <2>1, StackUnchanged
<1>2. ASSUME NEW r \in Replies, Receive(r) \/ Complete(r) \/ Fail(r)
      PROVE  StackInv'
  <2>1. PICK code \in {"ok", "error"} :
          /\ r \in multi \ Ended
          /\ \/ messages' = messages
             \/ messages' = messages \cup {[reply |-> r, code |-> code]}
          /\ buffer' = buffer \/ (messages' = messages /\ buffer' = [buffer EXCEPT ![r] = @ + 1])
          /\ (code = "ok" => buffer[r] = BodySize[r] /\ UNCHANGED buffer)
    BY <1>2 DEF Receive, Complete, Fail, Ends, replyVars
  <2>2. UNCHANGED <<life, inMulti, finished, listened, heard, outcome, failing, multi,
                    engine, leaked>>
    BY <1>2 DEF Receive, Complete, Fail, replyVars, engineVars
  <2>3. r \notin finished /\ outcome[r] = "none" /\ \A m \in messages : m.reply # r
    BY <2>1 DEF StackInv, NoDangling, ReplyOK, Ended
  <2>4. \A q \in Replies \ {r} : buffer'[q] = buffer[q]
    BY <2>1 DEF TypeOK
  <2> DEFINE new == [reply |-> r, code |-> code]
  <2>5. new.reply = r /\ new.code = code /\ (messages' = messages \/ messages' = messages \cup {new})
    BY <2>1
  <2> HIDE DEF new
  <2>6. MessagesOK'
    <3>1. \A m, n \in messages' : m.reply = n.reply => m = n
      BY <2>3, <2>5 DEF StackInv, MessagesOK
    <3>2. \A m \in messages : m.reply \in Replies \ {r}
      BY <2>3 DEF TypeOK
    <3>3. \A m \in messages' : m.code = "ok" => buffer'[m.reply] = BodySize[m.reply]
      BY <2>1, <2>4, <2>5, <3>2 DEF StackInv, MessagesOK
    <3> QED
      BY <3>1, <3>3 DEF MessagesOK
  <2>7. NoDangling' /\ (~engine' => multi' = {})
    BY <2>1, <2>2, <2>5 DEF StackInv, NoDangling, Ended, Exists
  <2>8. ASSUME NEW q \in Replies PROVE ReplyOK(q)'
    BY <2>2, <2>3, <2>4 DEF StackInv, ReplyOK, Exists
  <2> QED
    BY <2>6, <2>7, <2>8 DEF StackInv
<1>3. CASE Completion
  <2>1. PICK m \in messages : /\ messages' = messages \ {m} /\ multi' = multi \ {m.reply}
                              /\ OnCurlDone(m.reply, m.code, stack)
    BY <1>3 DEF Completion
  <2> DEFINE r == m.reply
  <2>2. r \in Replies /\ m.code \in {"ok", "error"} /\ r \notin finished /\ Exists(r)
        /\ (m.code = "ok" => buffer[r] = BodySize[r])
    BY DEF TypeOK, StackInv, NoDangling, MessagesOK, Ended
  <2>3. messages' = {n \in messages : n.reply # r}
    BY <2>1 DEF StackInv, MessagesOK
  <2>4. heard' = IF r \in listened THEN [heard EXCEPT ![r] = 1] ELSE heard
    BY <2>1, <2>2, EmitOnce DEF OnCurlDone
  <2>5. UNCHANGED <<life, listened, buffer, failing, engine, leaked>>
    BY <1>3 DEF Completion
  <2>6. /\ inMulti' = inMulti \ {r} /\ finished' = finished \cup {r}
        /\ outcome' = [outcome EXCEPT ![r] = m.code]
    BY <2>1, <2>2 DEF OnCurlDone
  <2> HIDE DEF r
  <2> QED
    BY <2>1, <2>2, <2>3, <2>4, <2>5, <2>6, EndKeeps DEF r
<1>4. ASSUME NEW r \in Replies, Create(r) PROVE StackInv'
  BY <1>4, CreateKeeps
<1>5. ASSUME NEW r \in Replies, NEW fs, Abort(r, fs) PROVE StackInv'
  BY <1>5, AbortKeeps
<1>6. ASSUME NEW r \in Replies, Drop(r) PROVE StackInv'
  BY <1>6, DropKeeps
<1>7. ASSUME NEW r \in Replies, Release(r) PROVE StackInv'
  <2>1. life[r] = "alive" /\ heard[r] > 0 /\ life' = [life EXCEPT ![r] = "doomed"]
        /\ UNCHANGED <<inMulti, finished, listened, heard, outcome, buffer, failing,
                       multi, messages, engine, leaked>>
    BY <1>7 DEF Release, engineVars
  <2>2. NoDangling' /\ MessagesOK' /\ (~engine' => multi' = {})
    BY <2>1 DEF StackInv, NoDangling, MessagesOK, Ended, Exists, TypeOK
  <2>3. ASSUME NEW q \in Replies PROVE ReplyOK(q)'
    BY <2>1 DEF StackInv, ReplyOK, Exists, TypeOK
  <2> QED
    BY <2>2, <2>3 DEF StackInv
<1>8. ASSUME NEW r \in Replies, OnInitFailed(r) PROVE StackInv'
  <2>1. /\ r \in failing /\ failing' = failing \ {r} /\ OnCurlDone(r, "error", <<"turn">>)
        /\ UNCHANGED <<life, listened, buffer, multi, messages, engine, leaked>>
    BY <1>8 DEF OnInitFailed, engineVars
  <2>2. Exists(r) /\ r \notin inMulti
    BY <2>1 DEF StackInv, ReplyOK
  <2>3. CASE r \in finished
    <3>1. UNCHANGED <<inMulti, finished, outcome, heard>>
      BY <2>1, <2>3 DEF OnCurlDone
    <3> QED
      BY <2>1, <3>1 DEF StackInv, NoDangling, MessagesOK, ReplyOK, Ended, Exists
  <2>4. CASE r \notin finished
    <3>1. multi' = multi \ {r} /\ messages' = {m \in messages : m.reply # r}
      BY <2>1, <2>2, Unsaid
    <3>2. heard' = IF r \in listened THEN [heard EXCEPT ![r] = 1] ELSE heard
      BY <2>1, <2>4, EmitOnce DEF OnCurlDone
    <3>3. /\ inMulti' = inMulti \ {r} /\ finished' = finished \cup {r}
          /\ outcome' = [outcome EXCEPT ![r] = "error"]
      BY <2>1, <2>4 DEF OnCurlDone
    <3> QED
      BY <2>1, <2>2, <2>4, <3>1, <3>2, <3>3, EndKeeps
  <2> QED
    BY <2>3, <2>4
<1>9. ASSUME NEW r \in Replies, Reap(r) PROVE StackInv'
  BY <1>9, DestroyedKeeps DEF Reap
<1> QED
  BY <1>1, <1>2, <1>3, <1>4, <1>5, <1>6, <1>7, <1>8, <1>9
     DEF CurlNext, Transfer, InSlot, OnDeadline

-----------------------------------------------------------------------------
(* The worker and main()                                                   *)

LEMMA TeardownInit == Init => TeardownInv
<1> SUFFICES ASSUME Init PROVE TeardownInv
  OBVIOUS
<1>0. <<>> \in Seq(Frames) /\ <<>> \in Seq(Closures)
  BY EmptySeq
<1>1. TypeOK
  <2>1. 0 \in 0..2 /\ 0 \in 0..MaxBody
    OBVIOUS
  <2>2. /\ life \in [Replies -> {"unborn", "alive", "doomed", "dead"}]
        /\ outcome \in [Replies -> {"none", "ok", "error"}]
        /\ heard \in [Replies -> 0..2] /\ buffer \in [Replies -> 0..MaxBody]
    BY <2>1 DEF Init, CurlInit
  <2>3. /\ inMulti = {} /\ finished = {} /\ listened = {} /\ failing = {} /\ multi = {}
        /\ messages = {} /\ leaked = {} /\ timer = FALSE /\ kick = FALSE /\ engine = TRUE
        /\ stack = <<>>
    BY DEF Init, CurlInit
  <2> QED
    BY <1>0, <2>2, <2>3 DEF TypeOK
<1>2. HostTypeOK
  <2>1. posts = 0 /\ 0 \in 0..MaxPosts
    BY DEF Init
  <2> QED
    BY <1>0, <1>1, <2>1 DEF Init, HostTypeOK, Phases
<1>3. StackInv
  BY DEF Init, CurlInit, StackInv, NoDangling, MessagesOK, ReplyOK, Ended, Exists
<1>4. HostInv
  BY DEF Init, CurlInit, HostInv, Before
<1> QED
  BY <1>2, <1>3, <1>4 DEF TeardownInv

\* WorkerHost::invoke puts closures behind those that are queued.
LEMMA InvokeQueue ==
  ASSUME queue \in Seq(Closures), NEW cs \in Seq(Closures), Invoke(cs)
  PROVE  /\ queue' \in Seq(Closures)
         /\ \A i \in DOMAIN queue' :
              \/ i \in DOMAIN queue /\ queue'[i] = queue[i]
              \/ \E k \in DOMAIN cs : queue'[i] = cs[k] /\ i = Len(queue) + k
         /\ queue' = queue \/ Len(queue') = Len(queue) + Len(cs)
<1>1. CASE queue' = queue
  BY <1>1
<1>2. CASE queue' = queue \o cs
  <2>1. /\ Len(queue) \in Nat /\ DOMAIN queue = 1..Len(queue)
        /\ Len(cs) \in Nat /\ DOMAIN cs = 1..Len(cs)
    BY LenProperties
  <2>2. /\ queue' \in Seq(Closures) /\ Len(queue') = Len(queue) + Len(cs)
        /\ DOMAIN queue' = 1..(Len(queue) + Len(cs))
        /\ \A i \in 1..(Len(queue) + Len(cs)) :
             queue'[i] = IF i <= Len(queue) THEN queue[i] ELSE cs[i - Len(queue)]
    BY <1>2, ConcatProperties, LenProperties
  <2>3. ASSUME NEW i \in DOMAIN queue'
        PROVE  \/ i \in DOMAIN queue /\ queue'[i] = queue[i]
               \/ \E k \in DOMAIN cs : queue'[i] = cs[k] /\ i = Len(queue) + k
    <3>1. CASE i <= Len(queue)
      BY <2>1, <2>2, <3>1
    <3>2. CASE ~(i <= Len(queue))
      <4>1. i - Len(queue) \in DOMAIN cs /\ i = Len(queue) + (i - Len(queue))
        BY <2>1, <2>2, <3>2
      <4> QED
        BY <2>2, <3>2, <4>1
    <3> QED
      BY <3>1, <3>2
  <2> QED
    BY <2>2, <2>3
<1> QED
  BY <1>1, <1>2 DEF Invoke

\* A closure that is run leaves the others in their order.
LEMMA RunQueue ==
  ASSUME queue \in Seq(Closures), queue # <<>>, queue' = Tail(queue)
  PROVE  /\ queue' \in Seq(Closures) /\ Head(queue) \in Closures
         /\ Len(queue) \in Nat \ {0} /\ Len(queue') = Len(queue) - 1
         /\ Head(queue) = queue[1] /\ 1 \in DOMAIN queue
         /\ \A i \in DOMAIN queue' : i + 1 \in DOMAIN queue /\ queue'[i] = queue[i + 1]
                                     /\ i \in Nat
  BY EmptySeq, HeadTailProperties, LenProperties

\* Posting closures that are not the deletion, while main() has not got to it.
LEMMA PostKeeps ==
  ASSUME HostTypeOK, HostInv, NEW cs \in Seq(Closures), Invoke(cs), main \in Before,
         \A i \in DOMAIN cs : cs[i].op # "delete"
  PROVE  queue' \in Seq(Closures) /\ \A i \in DOMAIN queue' : queue'[i].op # "delete"
<1>1. queue \in Seq(Closures) /\ \A i \in DOMAIN queue : queue[i].op # "delete"
  BY DEF HostTypeOK, HostInv
<1>2. /\ queue' \in Seq(Closures)
      /\ \A i \in DOMAIN queue' :
           \/ i \in DOMAIN queue /\ queue'[i] = queue[i]
           \/ \E k \in DOMAIN cs : queue'[i] = cs[k] /\ i = Len(queue) + k
  BY <1>1, InvokeQueue
<1>3. ASSUME NEW i \in DOMAIN queue' PROVE queue'[i].op # "delete"
  <2>1. CASE i \in DOMAIN queue /\ queue'[i] = queue[i]
    BY <1>1, <2>1
  <2>2. CASE \E k \in DOMAIN cs : queue'[i] = cs[k]
    BY <2>2
  <2> QED
    BY <1>2, <2>1, <2>2
<1> QED
  BY <1>2, <1>3

LEMMA GuiKeeps ==
  ASSUME TeardownInv, Gui
  PROVE  TeardownInv'
<1> USE DEF TeardownInv
<1>1. UNCHANGED curlVars
  BY DEF Gui, Start, Post, Cancel, ExecReturns, ShutdownMediaThread, ViewerGone, Shutdown,
         Quit, Joined, GlobalCleanup
<1>2. TypeOK' /\ StackInv' /\ engine' = engine /\ stack' = stack /\ life' = life
  <2>1. UNCHANGED <<replyVars, multi, messages, engine, leaked, timer, kick, stack>>
    BY <1>1 DEF curlVars, engineVars
  <2>2. TypeOK'
    BY <2>1 DEF HostTypeOK, TypeOK, replyVars
  <2> QED
    BY <2>1, <2>2, StackUnchanged DEF replyVars
<1>3. CASE Start
  BY <1>2, <1>3 DEF Start, HostTypeOK, HostInv, Phases, Before
<1>4. CASE Post
  <2>1. main = "exec" /\ main' = main /\ posts' \in 0..MaxPosts
        /\ UNCHANGED <<host, loop, exit, busy, misuse>>
    BY <1>4 DEF Post, HostTypeOK
  <2>2. PICK cs \in Seq(Closures) : Invoke(cs) /\ \A i \in DOMAIN cs : cs[i].op # "delete"
    <3>1. CASE \E R \in SUBSET Replies : Invoke(Each("request", R))
      BY <3>1, EachType
    <3>2. CASE Invoke(<<[op |-> "bearer"]>>)
      <4> DEFINE e == [op |-> "bearer"]
      <4>1. e \in Closures /\ e.op = "bearer"
        BY DEF Closures
      <4> HIDE DEF e
      <4>2. <<e>> \in Seq(Closures) /\ \A i \in DOMAIN <<e>> : <<e>>[i].op # "delete"
        BY <4>1
      <4> QED
        BY <3>2, <4>2 DEF e
    <3> QED
      BY <1>4, <3>1, <3>2 DEF Post
  <2>3. queue' \in Seq(Closures) /\ \A i \in DOMAIN queue' : queue'[i].op # "delete"
    BY <2>1, <2>2, PostKeeps DEF Before
  <2>4. jobs' \subseteq Replies
    BY <1>4 DEF Post, HostTypeOK
  <2> QED
    BY <1>2, <2>1, <2>3, <2>4 DEF HostTypeOK, HostInv, Before
<1>5. CASE Cancel
  <2>1. main \in {"exec", "media joined"} /\ main' = main /\ jobs' = {}
        /\ UNCHANGED <<host, posts, loop, exit, busy, misuse>>
    BY <1>5 DEF Cancel
  <2>2. /\ Each("abort", jobs) \in Seq(Closures) /\ Invoke(Each("abort", jobs))
        /\ \A i \in DOMAIN Each("abort", jobs) : Each("abort", jobs)[i].op # "delete"
    <3>1. jobs \in SUBSET Replies
      BY DEF HostTypeOK
    <3> QED
      BY <1>5, <3>1, EachType DEF Cancel
  <2>3. queue' \in Seq(Closures) /\ \A i \in DOMAIN queue' : queue'[i].op # "delete"
    BY <2>1, <2>2, PostKeeps DEF Before
  <2> QED
    BY <1>2, <2>1, <2>3 DEF HostTypeOK, HostInv, Before
<1>6. CASE ExecReturns
  BY <1>2, <1>6 DEF ExecReturns, Stage, hostVars, HostTypeOK, HostInv, Phases, Before
<1>7. CASE ShutdownMediaThread
  BY <1>2, <1>7 DEF ShutdownMediaThread, Stage, hostVars, HostTypeOK, HostInv, Phases, Before
<1>8. CASE ViewerGone
  BY <1>2, <1>8 DEF ViewerGone, Stage, hostVars, HostTypeOK, HostInv, Phases, Before
<1>9. CASE Shutdown
  <2> DEFINE cs == <<[op |-> "delete"]>>
  <2>1. main = "viewer gone" /\ main' = "shutting down" /\ Invoke(cs)
        /\ UNCHANGED <<host, posts, jobs, loop, exit, busy, misuse>>
    BY <1>9 DEF Shutdown, Stage
  <2>2. cs \in Seq(Closures) /\ Len(cs) = 1
    <3>1. [op |-> "delete"] \in Closures
      BY DEF Closures
    <3> QED
      BY <3>1
  <2>3. \A i \in DOMAIN queue : queue[i].op # "delete" /\ engine
    BY <2>1 DEF HostInv, Before
  <2>4. engine /\ queue \in Seq(Closures)
    BY <2>1 DEF HostInv, HostTypeOK, Before
  <2>5. queue' \in Seq(Closures)
        /\ \A i \in DOMAIN queue' : queue'[i].op = "delete" => i = Len(queue')
    <3>1. DOMAIN cs = {1}
      OBVIOUS
    <3> HIDE DEF cs
    <3>2. /\ queue' \in Seq(Closures)
          /\ \A i \in DOMAIN queue' :
               \/ i \in DOMAIN queue /\ queue'[i] = queue[i]
               \/ \E k \in DOMAIN cs : queue'[i] = cs[k] /\ i = Len(queue) + k
          /\ queue' = queue \/ Len(queue') = Len(queue) + Len(cs)
      BY ONLY <2>1, <2>2, <2>4, InvokeQueue
    <3> QED
      BY <2>2, <2>3, <3>1, <3>2
  <2> QED
    BY <1>2, <2>1, <2>4, <2>5 DEF HostTypeOK, HostInv, Phases, Before
<1>10. CASE Quit
  BY <1>2, <1>10 DEF Quit, Stage, HostTypeOK, HostInv, Phases, Before
<1>11. CASE Joined
  BY <1>2, <1>11 DEF Joined, Stage, HostTypeOK, HostInv, Phases, Before
<1>12. CASE GlobalCleanup
  BY <1>2, <1>12 DEF GlobalCleanup, Stage, hostVars, HostTypeOK, HostInv, Phases, Before
<1> QED
  BY <1>3, <1>4, <1>5, <1>6, <1>7, <1>8, <1>9, <1>10, <1>11, <1>12 DEF Gui

\* A step of the network stack neither kills the engine nor revives a thread.
LEMMA NetworkKeeps ==
  ASSUME TeardownInv, Network
  PROVE  TeardownInv'
<1> USE DEF TeardownInv
<1>1. TypeOK' /\ StackInv'
  BY CurlType, CurlKeeps DEF Network, HostTypeOK
<1>2. engine' = engine
  BY DEF Network, CurlNext, OnTimer, OnKick, OnSocket, Transfer, Receive, Complete, Fail,
         Driven, Completion, Checked, InSlot, SlotReturns, Create, Abort, Drop, Release,
         OnInitFailed, Reap, OnDeadline, engineVars
<1>3. loop = "up" /\ UNCHANGED <<main, hostVars, busy, misuse>>
  BY DEF Network
<1> QED
  BY <1>1, <1>2, <1>3 DEF HostTypeOK, HostInv, hostVars

\* The loop leaves: the deferred deletes are carried out.
LEMMA LeavesKeeps ==
  ASSUME TeardownInv, Leaves, loop = "up",
         UNCHANGED <<main, host, queue, posts, jobs, exit, busy, misuse>>
  PROVE  TeardownInv'
<1> USE DEF TeardownInv
<1> DEFINE R == {r \in Replies : life[r] = "doomed"}
<1>1. /\ loop' = "ended" /\ stack' = <<>> /\ Destroyed(R)
      /\ UNCHANGED <<finished, listened, heard, outcome, buffer, timer, kick, engine, leaked>>
  BY DEF Leaves
<1>2. TypeOK' /\ StackInv'
  <2>1. R \in SUBSET Replies /\ stack' \in Seq(Frames) /\ TypeOK
        /\ \A r \in R : life[r] = "doomed"
    BY <1>1 DEF HostTypeOK
  <2> HIDE DEF R
  <2> QED
    BY <1>1, <2>1, DestroyedType, DestroyedKeeps
<1> QED
  BY <1>1, <1>2 DEF HostTypeOK, HostInv

LEMMA RunClosureKeeps ==
  ASSUME TeardownInv, RunClosure
  PROVE  TeardownInv'
<1> USE DEF TeardownInv
<1> DEFINE c == Head(queue)
<1>1. /\ queue # <<>> /\ queue' = Tail(queue) /\ stack # <<>>
      /\ misuse' = (misuse \/ ~engine)
      /\ UNCHANGED <<main, host, posts, jobs, loop, exit, busy>>
  BY DEF RunClosure, In
<1>2. /\ queue' \in Seq(Closures) /\ c \in Closures
      /\ Len(queue) \in Nat \ {0} /\ Len(queue') = Len(queue) - 1
      /\ c = queue[1] /\ 1 \in DOMAIN queue
      /\ \A i \in DOMAIN queue' : i + 1 \in DOMAIN queue /\ queue'[i] = queue[i + 1]
                                  /\ i \in Nat
  BY <1>1, RunQueue DEF HostTypeOK
<1>3. loop = "up" /\ engine /\ misuse' = FALSE /\ TypeOK
  BY <1>1 DEF HostInv, HostTypeOK
<1>4. \/ c.op = "delete" /\ NamDies /\ UNCHANGED stack
      \/ c.op = "request" /\ Create(c.reply) /\ UNCHANGED stack
      \/ c.op = "abort" /\ Abort(c.reply, stack)
      \/ UNCHANGED curlVars
  BY DEF RunClosure
<1>5. c.op \in {"request", "abort"} => c.reply \in Replies
  BY <1>2 DEF Closures
<1> HIDE DEF c
<1>6. TypeOK' /\ StackInv'
  <2>1. UNCHANGED curlVars => TypeOK' /\ StackInv'
    <3>1. UNCHANGED curlVars =>
            UNCHANGED <<replyVars, multi, messages, engine, leaked, timer, kick, stack>>
      BY DEF curlVars, engineVars
    <3>2. UNCHANGED curlVars => TypeOK'
      BY <1>3, <3>1 DEF TypeOK, replyVars
    <3> QED
      BY <3>1, <3>2, StackUnchanged
  <2>2. stack \in Seq(Frames)
    BY <1>3 DEF TypeOK
  <2> QED
    BY <1>3, <1>4, <1>5, <2>1, <2>2, NamDiesType, NamDiesKeeps, CreateType, CreateKeeps,
       AbortType, AbortKeeps
<1>7. engine' = engine \/ (c.op = "delete" /\ engine' = FALSE)
  BY <1>4 DEF NamDies, Create, Abort, curlVars, engineVars
<1>8. c.op = "delete" => queue' = <<>> /\ main \notin Before
  <2>1. ASSUME c.op = "delete" PROVE Len(queue) = 1 /\ main \notin Before
    BY <1>2, <2>1 DEF HostInv
  <2>2. ASSUME c.op = "delete" PROVE queue' = <<>>
    <3>1. Len(queue) = 1
      BY <2>1, <2>2
    <3>2. Len(queue') = 0
      BY ONLY <1>2, <3>1
    <3> QED
      BY ONLY <1>2, <3>2, EmptySeq
  <2> QED
    BY <2>1, <2>2
<1>9. ASSUME NEW i \in DOMAIN queue', queue'[i].op = "delete" PROVE i = Len(queue')
  <2>1. i + 1 \in DOMAIN queue /\ queue[i + 1].op = "delete" /\ i \in Nat
    BY <1>2, <1>9
  <2>2. i + 1 = Len(queue)
    BY <2>1 DEF HostInv
  <2> QED
    BY <1>2, <2>1, <2>2
<1>10. main \in Before => \A i \in DOMAIN queue' : queue'[i].op # "delete"
  BY <1>2 DEF HostInv
<1>11. HostInv'
  <2>1. main # "constructing"
    BY <1>3 DEF HostInv
  <2>2. main' \in Before => engine'
    BY <1>1, <1>3, <1>7, <1>8
  <2>3. ~engine' => queue' = <<>>
    BY <1>3, <1>7, <1>8
  <2> QED
    BY <1>1, <1>3, <1>9, <1>10, <2>1, <2>2, <2>3 DEF HostInv
<1> QED
  BY <1>1, <1>2, <1>3, <1>6, <1>11 DEF HostTypeOK

LEMMA TeardownStep == TeardownInv /\ [Next]_vars => TeardownInv'
<1> SUFFICES ASSUME TeardownInv, [Next]_vars PROVE TeardownInv'
  OBVIOUS
<1> USE DEF TeardownInv
<1>1. CASE Gui
  BY <1>1, GuiKeeps
<1>2. CASE Network
  BY <1>2, NetworkKeeps
<1>3. CASE RunClosure
  BY <1>3, RunClosureKeeps
<1>4. CASE TakePosted \/ PostedDone \/ (TurnEnds /\ ~exit)
  <2>1. /\ loop = "up" /\ UNCHANGED <<replyVars, engineVars, main, hostVars, busy, misuse>>
        /\ \/ stack' \in {<<"turn", "posted">>, <<>>}
           \/ stack # <<>> /\ stack' = Front(stack)
    <3>1. stack # <<>> => loop = "up"
      BY DEF HostInv
    <3>2. CASE TakePosted
      BY <3>2 DEF TakePosted
    <3>3. CASE PostedDone
      BY <3>1, <3>3 DEF PostedDone, In, Returned
    <3>4. CASE TurnEnds /\ ~exit
      BY <3>1, <3>4 DEF TurnEnds, In, hostVars
    <3> QED
      BY <1>4, <3>2, <3>3, <3>4
  <2>2. stack' \in Seq(Frames)
    <3>1. <<"turn", "posted">> \in Seq(Frames) /\ <<>> \in Seq(Frames)
      BY DEF Frames
    <3>2. stack \in Seq(Frames)
      BY DEF HostTypeOK, TypeOK
    <3> QED
      BY <2>1, <3>1, <3>2, FrontType
  <2>3. TypeOK' /\ StackInv' /\ engine' = engine /\ life' = life
    BY <2>1, <2>2, StackUnchanged DEF HostTypeOK, TypeOK, replyVars, engineVars
  <2> QED
    BY <2>1, <2>3 DEF HostTypeOK, HostInv, hostVars
<1>5. CASE WokenToLeave \/ (TurnEnds /\ exit)
  <2>1. /\ loop = "up" /\ Leaves
        /\ UNCHANGED <<main, host, queue, posts, jobs, exit, busy, misuse>>
    BY <1>5 DEF WokenToLeave, TurnEnds, In, HostInv
  <2> QED
    BY <2>1, LeavesKeeps
<1>6. CASE UNCHANGED vars
  <2>1. UNCHANGED <<replyVars, multi, messages, engine, leaked, timer, kick, stack,
                    main, hostVars, busy, misuse>>
    BY <1>6 DEF vars, curlVars, engineVars
  <2>2. TypeOK' /\ StackInv' /\ life' = life
    BY <2>1, StackUnchanged DEF HostTypeOK, TypeOK, replyVars
  <2> QED
    BY <2>1, <2>2 DEF HostTypeOK, HostInv, hostVars
<1> QED
  BY <1>1, <1>2, <1>3, <1>4, <1>5, <1>6 DEF Next, Worker

\* The network stack and the host keep their types, whatever is asked of them,
\* however large the bodies are (CurlNetworkReply, CurlEngine, WorkerHost).
THEOREM StackTypes == Spec => []HostTypeOK
<1>1. TeardownInv => HostTypeOK
  BY DEF TeardownInv
<1> QED
  BY TeardownInit, TeardownStep, <1>1, PTL DEF Spec

\* libcurl never holds, and never reports on, a handle whose reply has finished
\* or is gone; its multi is empty when it is cleaned up (CurlEngine::add, remove,
\* checkCompletions, ~CurlNetworkReply, ~CurlNetworkAccessManager).
THEOREM NothingDangles == Spec => []NoDangling
<1>1. TeardownInv => NoDangling
  BY DEF TeardownInv, StackInv
<1> QED
  BY TeardownInit, TeardownStep, <1>1, PTL DEF Spec

\* A reply that is reported without an error has all of its body, for any body
\* size and any cap (appendBody, onCurlDone, abort).
THEOREM AnswersWhole == Spec => []WholeOrError
<1>1. TeardownInv => WholeOrError
  <2> SUFFICES ASSUME TeardownInv, NEW r \in Replies
               PROVE  /\ outcome[r] = "ok" => buffer[r] = BodySize[r]
                      /\ heard[r] > 0 => outcome[r] # "none"
    BY DEF WholeOrError
  <2> QED
    BY DEF TeardownInv, StackInv, ReplyOK
<1> QED
  BY TeardownInit, TeardownStep, <1>1, PTL DEF Spec

\* No closure runs on a transport that was deleted, and when libcurl's global
\* state goes neither the worker nor any stack main() takes down is still in it
\* (Innertube::shutdown, WorkerHost::stop, main).
THEOREM TakenDownInOrder == Spec => []OrderlyTeardown
<1>1. TeardownInv => OrderlyTeardown
  <2> SUFFICES ASSUME TeardownInv PROVE OrderlyTeardown
    OBVIOUS
  <2>1. ~misuse
    BY DEF TeardownInv, HostInv
  <2>2. ASSUME main = "cleaned" PROVE loop = "ended" /\ stack = <<>>
    BY <2>2 DEF TeardownInv, HostInv
  <2>3. ASSUME main = "cleaned" PROVE busy \subseteq {"captions"}
    BY <2>3 DEF TeardownInv, HostInv, HostTypeOK, OtherStacks
  <2> QED
    BY <2>1, <2>2, <2>3 DEF OrderlyTeardown
<1> QED
  BY TeardownInit, TeardownStep, <1>1, PTL DEF Spec

-----------------------------------------------------------------------------
(* The promise of a reply                                                  *)

\* One reply moves along its promise.
LEMMA OneMoves ==
  ASSUME NEW r \in Replies, \A q \in Replies \ {r} : Status'[q] = Status[q],
         \/ Status'[r] = Status[r]
         \/ Status[r] = "unasked" /\ Status'[r] = "open"
         \/ Status[r] = "open" /\ Status'[r] \in {"answered", "given up"}
  PROVE  [Promise!Next]_Status
<1> DEFINE s == Status
           t == Status'
<1>1. s = [q \in Replies |-> s[q]] /\ t = [q \in Replies |-> t[q]]
  BY DEF Status
<1> HIDE DEF s, t
<1>2. t = [s EXCEPT ![r] = t[r]]
  BY <1>1 DEF s, t
<1>3. CASE t[r] = s[r]
  BY <1>1, <1>2, <1>3 DEF s, t
<1>4. CASE s[r] = "unasked" /\ t[r] = "open"
  <2>1. Promise!Ask(r)
    BY <1>2, <1>4 DEF Promise!Ask, s, t
  <2> QED
    BY <2>1 DEF Promise!Next
<1>5. CASE s[r] = "open" /\ t[r] = "answered"
  <2>1. Promise!Answer(r)
    BY <1>2, <1>5 DEF Promise!Answer, s, t
  <2> QED
    BY <2>1 DEF Promise!Next
<1>6. CASE s[r] = "open" /\ t[r] = "given up"
  <2>1. t = [q \in Replies |-> IF q \in {r} THEN "given up" ELSE s[q]]
    BY <1>1, <1>2, <1>6
  <2>2. Promise!GiveUp({r})
    BY <1>6, <2>1 DEF Promise!GiveUp, s, t
  <2> QED
    BY <2>2 DEF Promise!Next
<1> QED
  BY <1>3, <1>4, <1>5, <1>6 DEF s, t

\* Any number of open replies are given up at once.
LEMMA ManyGivenUp ==
  ASSUME \A q \in Replies : \/ Status'[q] = Status[q]
                            \/ Status[q] = "open" /\ Status'[q] = "given up"
  PROVE  [Promise!Next]_Status
<1> DEFINE s == Status
           t == Status'
           R == {q \in Replies : s[q] = "open" /\ t[q] = "given up"}
<1>1. s = [q \in Replies |-> s[q]] /\ t = [q \in Replies |-> t[q]]
  BY DEF Status
<1>0. \A q \in Replies : t[q] = s[q] \/ (s[q] = "open" /\ t[q] = "given up")
  OBVIOUS
<1> HIDE DEF s, t
<1>2. t = [q \in Replies |-> IF q \in R THEN "given up" ELSE s[q]]
  BY <1>0, <1>1
<1>3. \A q \in R : s[q] = "open"
  OBVIOUS
<1> HIDE DEF R
<1>4. CASE R = {}
  BY <1>1, <1>2, <1>4 DEF s, t
<1>5. CASE R # {}
  <2>1. Promise!GiveUp(R)
    BY <1>2, <1>3 DEF Promise!GiveUp, s, t
  <2>2. R \in SUBSET Replies
    BY DEF R
  <2> QED
    BY <1>5, <2>1, <2>2 DEF Promise!Next
<1> QED
  BY <1>4, <1>5

LEMMA SameStatus ==
  ASSUME UNCHANGED <<life, listened, heard, loop>>
  PROVE  [Promise!Next]_Status
  BY DEF Status, StatusOf

\* finished(): what its owner hears, it was still waiting for.
LEMMA EndStatus ==
  ASSUME TeardownInv, loop = "up", UNCHANGED <<life, listened, loop>>,
         NEW r \in Replies, r \notin finished, Exists(r),
         heard' = IF r \in listened THEN [heard EXCEPT ![r] = 1] ELSE heard
  PROVE  [Promise!Next]_Status
<1>1. CASE r \notin listened
  BY <1>1, SameStatus
<1>2. CASE r \in listened
  <2>1. heard[r] = 0 /\ life[r] = "alive"
    BY <1>2 DEF TeardownInv, StackInv, ReplyOK, Exists
  <2>2. heard \in [Replies -> 0..2]
    BY DEF TeardownInv, HostTypeOK, TypeOK
  <2>3. Status[r] = "open" /\ Status'[r] = "answered"
    BY <1>2, <2>1, <2>2 DEF Status, StatusOf
  <2>4. \A q \in Replies \ {r} : Status'[q] = Status[q]
    BY <1>2, <2>2 DEF Status, StatusOf
  <2> QED
    BY <2>3, <2>4, OneMoves
<1> QED
  BY <1>1, <1>2

LEMMA AbortStatus ==
  ASSUME TeardownInv, loop = "up", UNCHANGED loop, NEW r \in Replies, NEW fs, Abort(r, fs)
  PROVE  [Promise!Next]_Status
<1>1. CASE r \in finished
  BY <1>1, SameStatus DEF Abort, AbortFrom
<1>2. CASE r \notin finished
  BY <1>2, EmitOnce, EndStatus DEF Abort, AbortFrom, Exists, TeardownInv, HostTypeOK
<1> QED
  BY <1>1, <1>2

LEMMA CreateStatus ==
  ASSUME TeardownInv, loop = "up", UNCHANGED loop, NEW r \in Replies, Create(r)
  PROVE  [Promise!Next]_Status
<1>1. /\ life[r] = "unborn" /\ life' = [life EXCEPT ![r] = "alive"]
      /\ listened' = listened \cup {r} /\ heard' = heard
  BY DEF Create
<1>2. heard[r] = 0 /\ life \in [Replies -> {"unborn", "alive", "doomed", "dead"}]
  BY <1>1 DEF TeardownInv, StackInv, ReplyOK, HostTypeOK, TypeOK
<1>3. Status[r] = "unasked" /\ Status'[r] = "open"
  BY <1>1, <1>2 DEF Status, StatusOf
<1>4. \A q \in Replies \ {r} : Status'[q] = Status[q]
  BY <1>1, <1>2 DEF Status, StatusOf
<1> QED
  BY <1>3, <1>4, OneMoves

LEMMA DropStatus ==
  ASSUME TeardownInv, loop = "up", UNCHANGED loop, NEW r \in Replies, Drop(r)
  PROVE  [Promise!Next]_Status
<1>1. /\ life[r] = "alive" /\ life' = [life EXCEPT ![r] = "doomed"] /\ r \in listened
      /\ listened' = listened \ {r} /\ heard' = heard
  BY DEF Drop
<1>2. heard[r] \in {0, 1} /\ life \in [Replies -> {"unborn", "alive", "doomed", "dead"}]
  BY DEF TeardownInv, StackInv, ReplyOK, HostTypeOK, TypeOK
<1>3. Status'[r] = Status[r] \/ (Status[r] = "open" /\ Status'[r] = "given up")
  BY <1>1, <1>2 DEF Status, StatusOf
<1>4. \A q \in Replies \ {r} : Status'[q] = Status[q]
  BY <1>1, <1>2 DEF Status, StatusOf
<1> QED
  BY <1>3, <1>4, OneMoves

\* The loop leaves, or the manager dies with its replies: what was open is given
\* up, and nothing that was settled changes.
LEMMA DeathStatus ==
  ASSUME TeardownInv, NEW R \in SUBSET Replies, UNCHANGED <<listened, heard>>,
         life' = [r \in Replies |-> IF r \in R THEN "dead" ELSE life[r]],
         \A r \in R : Exists(r), loop = "up", loop' \in {"up", "ended"}
  PROVE  [Promise!Next]_Status
<1>1. ASSUME NEW q \in Replies
      PROVE  Status'[q] = Status[q] \/ (Status[q] = "open" /\ Status'[q] = "given up")
  <2>1. heard[q] \in {0, 1}
    BY DEF TeardownInv, StackInv, ReplyOK, HostTypeOK, TypeOK
  <2>2. CASE q \in R
    BY <2>1, <2>2 DEF Status, StatusOf, Exists
  <2>3. CASE q \notin R
    BY <2>1, <2>3 DEF Status, StatusOf
  <2> QED
    BY <2>2, <2>3
<1> QED
  BY <1>1, ManyGivenUp

\* Every step of the thread, of main() and of libcurl is a step of each reply's
\* promise, or none.
LEMMA PromiseStep == TeardownInv /\ [Next]_vars => [Promise!Next]_Status
<1> SUFFICES ASSUME TeardownInv, [Next]_vars PROVE [Promise!Next]_Status
  OBVIOUS
<1>1. CASE Start
  <2>1. UNCHANGED <<life, listened, heard>> /\ \A r \in Replies : life[r] = "unborn"
    BY <1>1 DEF Start, curlVars, replyVars, TeardownInv, HostInv
  <2>2. Status' = Status
    BY <2>1 DEF Status, StatusOf
  <2> QED
    BY <2>2
<1>2. CASE Gui /\ ~Start
  BY <1>2, SameStatus DEF Gui, Post, Cancel, ExecReturns, ShutdownMediaThread, ViewerGone,
     Shutdown, Quit, Joined, GlobalCleanup, curlVars, replyVars, hostVars
<1>3. CASE Network
  <2>0. loop = "up" /\ UNCHANGED loop /\ CurlNext
    BY <1>3 DEF Network, hostVars
  <2>1. CASE UNCHANGED <<life, listened, heard>>
    BY <2>0, <2>1, SameStatus
  <2>2. CASE OnTimer \/ OnKick \/ OnSocket \/ Transfer \/ Driven \/ Checked \/ SlotReturns
    BY <2>1, <2>2 DEF OnTimer, OnKick, OnSocket, Transfer, Receive, Complete, Fail, Driven,
       Checked, SlotReturns, replyVars
  <2>3. ASSUME NEW r \in Replies, Create(r) PROVE [Promise!Next]_Status
    BY <2>0, <2>3, CreateStatus
  <2>4. ASSUME NEW r \in Replies, NEW fs, Abort(r, fs) PROVE [Promise!Next]_Status
    BY <2>0, <2>4, AbortStatus
  <2>5. ASSUME NEW r \in Replies, Drop(r) PROVE [Promise!Next]_Status
    BY <2>0, <2>5, DropStatus
  <2>6. ASSUME NEW r \in Replies, Release(r) PROVE [Promise!Next]_Status
    <3>1. /\ life' = [life EXCEPT ![r] = "doomed"] /\ heard[r] = 1
          /\ UNCHANGED <<listened, heard>>
      <4>1. heard[r] > 0 /\ heard[r] < 2 /\ heard[r] \in 0..2
        BY <2>6 DEF Release, TeardownInv, HostTypeOK, TypeOK, StackInv, ReplyOK
      <4> QED
        BY <2>6, <4>1 DEF Release
    <3>2. life \in [Replies -> {"unborn", "alive", "doomed", "dead"}]
      BY DEF TeardownInv, HostTypeOK, TypeOK
    <3>3. \A q \in Replies : Status'[q] = Status[q]
      BY <2>0, <3>1, <3>2 DEF Status, StatusOf
    <3> QED
      BY <3>3, ManyGivenUp
  <2>7. ASSUME NEW r \in Replies, Reap(r) PROVE [Promise!Next]_Status
    <3> DEFINE R == {r}
    <3>1. /\ R \in SUBSET Replies /\ UNCHANGED <<listened, heard>>
          /\ life' = [q \in Replies |-> IF q \in R THEN "dead" ELSE life[q]]
          /\ \A q \in R : Exists(q)
      BY <2>7 DEF Reap, Destroyed, Exists
    <3> HIDE DEF R
    <3> QED
      BY <2>0, <3>1, DeathStatus
  <2>8. ASSUME NEW r \in Replies, NEW code, NEW fs, OnCurlDone(r, code, fs), Exists(r),
               UNCHANGED <<life, listened>>
        PROVE  [Promise!Next]_Status
    <3>1. CASE r \in finished
      BY <2>1, <2>8, <3>1 DEF OnCurlDone
    <3>2. CASE r \notin finished
      BY <2>0, <2>8, <3>2, EmitOnce, EndStatus DEF OnCurlDone, TeardownInv, HostTypeOK
    <3> QED
      BY <3>1, <3>2
  <2>9. CASE Completion
    <3>1. PICK m \in messages : OnCurlDone(m.reply, m.code, stack)
      BY <2>9 DEF Completion
    <3>2. m.reply \in Replies /\ Exists(m.reply)
      BY DEF TeardownInv, HostTypeOK, TypeOK, StackInv, NoDangling, Ended
    <3> QED
      BY <2>8, <2>9, <3>1, <3>2 DEF Completion
  <2>10. ASSUME NEW r \in Replies, OnInitFailed(r) PROVE [Promise!Next]_Status
    <3>1. Exists(r)
      BY <2>10 DEF OnInitFailed, TeardownInv, StackInv, ReplyOK
    <3> QED
      BY <2>8, <2>10, <3>1 DEF OnInitFailed
  <2> QED
    BY <2>0, <2>2, <2>3, <2>4, <2>5, <2>6, <2>7, <2>9, <2>10 DEF CurlNext, InSlot, OnDeadline
<1>4. CASE RunClosure
  <2> DEFINE c == Head(queue)
  <2>1. loop = "up" /\ UNCHANGED loop /\ c \in Closures
    BY <1>4, RunQueue DEF RunClosure, In, TeardownInv, HostInv, HostTypeOK
  <2>2. \/ NamDies
        \/ c.op = "request" /\ Create(c.reply)
        \/ c.op = "abort" /\ Abort(c.reply, stack)
        \/ UNCHANGED curlVars
    BY <1>4 DEF RunClosure
  <2>3. c.op \in {"request", "abort"} => c.reply \in Replies
    BY <2>1 DEF Closures
  <2> HIDE DEF c
  <2>4. CASE NamDies
    <3> DEFINE R == {r \in Replies : Exists(r)}
    <3>1. /\ R \in SUBSET Replies /\ UNCHANGED <<listened, heard>>
          /\ life' = [q \in Replies |-> IF q \in R THEN "dead" ELSE life[q]]
          /\ \A q \in R : Exists(q)
      BY <2>4 DEF NamDies
    <3> HIDE DEF R
    <3> QED
      BY <2>1, <3>1, DeathStatus
  <2>5. CASE UNCHANGED curlVars
    BY <2>1, <2>5, SameStatus DEF curlVars, replyVars
  <2> QED
    BY <2>1, <2>2, <2>3, <2>4, <2>5, CreateStatus, AbortStatus
<1>5. CASE TakePosted \/ PostedDone \/ (TurnEnds /\ ~exit) \/ UNCHANGED vars
  BY <1>5, SameStatus DEF TakePosted, PostedDone, TurnEnds, vars, curlVars, replyVars, hostVars
<1>6. CASE WokenToLeave \/ (TurnEnds /\ exit)
  <2>1. loop = "up" /\ Leaves
    BY <1>6 DEF WokenToLeave, TurnEnds, In, TeardownInv, HostInv
  <2> DEFINE R == {r \in Replies : life[r] = "doomed"}
  <2>2. /\ R \in SUBSET Replies /\ UNCHANGED <<listened, heard>> /\ loop' = "ended"
        /\ life' = [q \in Replies |-> IF q \in R THEN "dead" ELSE life[q]]
        /\ \A q \in R : Exists(q)
    BY <2>1 DEF Leaves, Destroyed, Exists
  <2> HIDE DEF R
  <2> QED
    BY <2>1, <2>2, DeathStatus
<1> QED
  BY <1>1, <1>2, <1>3, <1>4, <1>5, <1>6 DEF Next, Worker

\* A reply is answered at most once, only while its owner waits for it, and is
\* given up only while it is open: the safety half of PromiseKept.
THEOREM PromiseSafety == Spec => Promise!SafeSpec
<1>1. Init => Promise!Init
  <2> SUFFICES ASSUME Init PROVE Status = [r \in Replies |-> "unasked"]
    BY DEF Promise!Init
  <2> QED
    BY DEF Init, CurlInit, Status, StatusOf
<1> QED
  BY <1>1, TeardownInit, TeardownStep, PromiseStep, PTL DEF Spec, Promise!SafeSpec

=============================================================================
