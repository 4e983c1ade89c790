-------------------------- MODULE TransportProofs --------------------------
(* Theorems about core::Http for any number of jobs, calls and requests.    *)
EXTENDS Transport, SequenceTheorems, FiniteSetTheorems,
        WellFoundedInduction, TLAPS

USE CallsAssumption, RequestsAssumption, BoundsAssumption, NothingAssumption

-----------------------------------------------------------------------------
(* Lemmas about the operators the transport is built from *)

\* Inserting into a QHash: the new key maps to the new value, the others keep
\* theirs.
LEMMA WithProperties ==
  ASSUME NEW f, NEW x, NEW v
  PROVE  /\ DOMAIN With(f, x, v) = DOMAIN f \cup {x}
         /\ With(f, x, v)[x] = v
         /\ \A y \in DOMAIN f : y # x => With(f, x, v)[y] = f[y]
  BY DEF With

\* Removing keys from a QHash leaves the other entries alone.
LEMMA WithoutProperties ==
  ASSUME NEW f, NEW S
  PROVE  /\ DOMAIN Without(f, S) = DOMAIN f \ S
         /\ \A y \in DOMAIN f \ S : Without(f, S)[y] = f[y]
  BY DEF Without

\* An inserted value of the right type keeps a map well typed.
LEMMA WithType ==
  ASSUME NEW f, NEW T, f \in [DOMAIN f -> T], NEW x, NEW v \in T
  PROVE  With(f, x, v) \in [DOMAIN With(f, x, v) -> T]
  BY DEF With

LEMMA WithoutType ==
  ASSUME NEW f, NEW T, f \in [DOMAIN f -> T], NEW S
  PROVE  Without(f, S) \in [DOMAIN Without(f, S) -> T]
  BY DEF Without

\* What a context and headers are built from the session.
LEMMA MemoTypes ==
  ASSUME NEW client, NEW s \in Sessions
  PROVE  ContextOf(client, s) \in Contexts /\ HeadersOf(client, s) \in Headers
  BY DEF ContextOf, HeadersOf, Sessions, Contexts, Headers

\* A set of naturals that is not empty has a least element: among the finite
\* initial segments 0..x of its elements, take a minimal one.
LEMMA LeastElement ==
  ASSUME NEW R \in SUBSET Nat, R # {}
  PROVE  \E x \in R : \A y \in R : x <= y
<1> DEFINE Segments == {0..x : x \in R}
<1>1. \A x \in R : 0..x \in FiniteSubsetsOf(Nat)
  BY FS_Interval DEF FiniteSubsetsOf
<1>2. PICK s \in Segments : \A t \in Segments : ~(<<t, s>> \in StrictSubsetOrdering(Nat))
  <2>1. Segments \subseteq FiniteSubsetsOf(Nat)
    <3> SUFFICES ASSUME NEW t \in Segments PROVE t \in FiniteSubsetsOf(Nat)
      OBVIOUS
    <3>1. PICK x \in R : t = 0..x
      OBVIOUS
    <3> QED
      BY <3>1, <1>1
  <2>2. Segments # {}
    <3>1. PICK x : x \in R
      OBVIOUS
    <3>2. 0..x \in Segments
      BY <3>1
    <3> QED
      BY <3>2
  <2> HIDE DEF Segments
  <2> QED
    BY <2>1, <2>2, FS_StrictSubsetOrderingWellFounded, WFMin
<1>3. PICK x \in R : s = 0..x
  BY <1>2
<1>4. \A y \in R : x <= y
  <2> SUFFICES ASSUME NEW y \in R, ~(x <= y) PROVE FALSE
    OBVIOUS
  <2>1. 0..y \subseteq 0..x /\ x \in 0..x /\ x \notin 0..y
    OBVIOUS
  <2>2. <<0..y, 0..x>> \in StrictSubsetOrdering(Nat)
    BY <2>1 DEF StrictSubsetOrdering
  <2> QED
    BY <2>2, <1>2, <1>3
<1> QED
  BY <1>4

\* armDeadline() finds a nearest deadline whenever something is in flight.
LEMMA NearestType ==
  ASSUME NEW R \in SUBSET Nat
  PROVE  /\ Nearest(R) \in Nat
         /\ R # {} => Nearest(R) \in R /\ \A q \in R : Nearest(R) <= q
  BY LeastElement DEF Nearest

-----------------------------------------------------------------------------
(* Type correctness and the coalescing index                               *)

IndexInv == TypeOK /\ InflightOK

LEMMA IndexInit == Init => IndexInv
  BY DEF Init, IndexInv, TypeOK, GuiType, MemoType, NetType, CacheType,
         HandlerType, InflightOK, Empty, Sessions

\* The GUI's steps touch neither the transport nor its handlers.
LEMMA GuiIndex == IndexInv /\ Gui => IndexInv'
<1> SUFFICES ASSUME IndexInv, Gui PROVE IndexInv'
  OBVIOUS
<1> USE DEF IndexInv, TypeOK
<1>1. UNCHANGED <<session, memoVars, netVars, cacheVars, hitVars, handlerVars>>
  BY DEF Gui, Submit, Cancel, ApplyBearer, ApplySettings, Change
<1>2. GuiType'
  <2>1. ASSUME NEW c \in Calls, Submit(c) PROVE GuiType'
    BY <2>1, AppendProperties DEF GuiType, Submit, Closures
  <2>2. ASSUME NEW j \in Jobs, Cancel(j) PROVE GuiType'
    BY <2>2, AppendProperties DEF GuiType, Cancel, Closures
  <2>3. ASSUME NEW b \in Bearers \cup {NoBearer}, ApplyBearer(b) PROVE GuiType'
    BY <2>3, AppendProperties DEF GuiType, ApplyBearer, Change, Closures
  <2>4. ASSUME NEW l \in Locales, ApplySettings(l) PROVE GuiType'
    BY <2>4, AppendProperties DEF GuiType, ApplySettings, Change, Closures
  <2> QED
    BY <2>1, <2>2, <2>3, <2>4 DEF Gui
<1>3. MemoType' /\ NetType' /\ CacheType' /\ HandlerType' /\ InflightOK'
  BY <1>1 DEF MemoType, NetType, CacheType, HandlerType, InflightOK, memoVars,
              netVars, cacheVars, hitVars, handlerVars
<1> QED
  BY <1>2, <1>3

\* A registered reply: the next number, waiting for the call that made it.
LEMMA RegisterNet ==
  ASSUME NetType, NEW c \in Calls, NEW k \in Keys \cup {NoKey},
         NEW h \in Headers, NEW w \in BOOLEAN, Register(c, k, h, w)
  PROVE  /\ lastReply' = lastReply + 1 /\ lastReply' \notin DOMAIN pending
         /\ lastReply' \in Nat /\ timer' \in Nat /\ clock' \in Nat
         /\ DOMAIN pending' = DOMAIN pending \cup {lastReply'}
         /\ DOMAIN pending' \subseteq 1..lastReply'
         /\ pending' \in [DOMAIN pending' -> Pendings]
         /\ pending'[lastReply'].cacheKey = k
         /\ \A r \in DOMAIN pending : pending'[r] = pending[r]
<1> DEFINE p == [waiters |-> {c}, cacheKey |-> k, headers |-> h,
                 timedOut |-> FALSE, wantVisitor |-> w]
           reply == lastReply + 1
<1>1. p \in Pendings
  BY DEF Pendings
<1>2. lastReply' = reply /\ pending' = With(pending, reply, p)
  BY DEF Register
<1>3. reply \notin DOMAIN pending /\ reply \in Nat
  BY DEF NetType
<1>4. p.cacheKey = k
  OBVIOUS
<1> HIDE DEF p
<1>5. DOMAIN pending' \subseteq 1..reply /\ DOMAIN pending' = DOMAIN pending \cup {reply}
  <2>1. DOMAIN pending' = DOMAIN pending \cup {reply}
    BY <1>2 DEF With
  <2> QED
    BY <2>1 DEF NetType
<1>6. pending'[reply] = p /\ \A r \in DOMAIN pending : pending'[r] = pending[r]
  <2> HIDE DEF reply
  <2> QED
    BY <1>2, <1>3 DEF With
<1>8. pending' \in [DOMAIN pending' -> Pendings]
  <2> HIDE DEF reply
  <2> QED
    BY <1>1, <1>2, WithType DEF NetType
<1>7. timer' \in Nat
  <2>1. DOMAIN pending' \in SUBSET Nat
    BY <1>5, <1>3
  <2>2. timer' = Nearest(DOMAIN pending')
    BY DEF Register
  <2> QED
    BY <2>1, <2>2, NearestType
<1> QED
  BY <1>2, <1>3, <1>4, <1>5, <1>6, <1>7, <1>8 DEF Register, NetType

\* Issuing a request, from a closure or from a continuation, keeps the memos
\* well typed and the index truthful.
LEMMA IssueIndex ==
  ASSUME IndexInv, NEW c \in Calls, Issue(c), UNCHANGED <<session, expired>>
  PROVE  MemoType' /\ NetType' /\ InflightOK' /\ hits' \subseteq Calls /\ zeroTimers' \in Nat
<1> USE DEF IndexInv, TypeOK
<1> DEFINE client == ClientOf[RequestOf[c]]
           key == KeyOf(c, ctxCache'[client])
<1>1. client \in Clients /\ HeadersOf(client, session) \in Headers
      /\ ContextOf(client, session) \in Contexts
  BY MemoTypes DEF MemoType
<1>2. CASE Get(c) \/ PostForm(c)
  <2>1. UNCHANGED <<inflight, memoVars, hitVars>>
    BY <1>2 DEF Get, PostForm
  <2>2. PICK h \in Headers, w \in BOOLEAN : Register(c, NoKey, h, w)
    <3>1. [bearer |-> NoBearer, visitor |-> FALSE] \in Headers
      BY DEF Headers
    <3>2. session.visitor \in BOOLEAN
      BY DEF MemoType, Sessions
    <3> QED
      BY <1>2, <3>1, <3>2 DEF Get, PostForm
  <2>3. NetType' /\ InflightOK'
    BY <2>1, <2>2, RegisterNet DEF NetType, InflightOK
  <2> QED
    BY <2>1, <2>3 DEF MemoType, HandlerType, memoVars, hitVars
<1>3. CASE Post(c)
  <2>1. ctxCache' = IF client \in DOMAIN ctxCache THEN ctxCache
                    ELSE With(ctxCache, client, ContextOf(client, session))
    BY <1>3 DEF Post
  <2>2. ctxCache' \in [DOMAIN ctxCache' -> Contexts] /\ DOMAIN ctxCache' \subseteq Clients
        /\ client \in DOMAIN ctxCache'
    <3>1. CASE client \in DOMAIN ctxCache
      BY <2>1, <3>1 DEF MemoType
    <3>2. CASE client \notin DOMAIN ctxCache
      BY <2>1, <3>2, <1>1 DEF MemoType, With
    <3> QED
      BY <3>1, <3>2
  <2>3. key \in Keys
    BY <2>2 DEF KeyOf, Keys
  <2>4. Coalesce(c, key) \/ CacheHit(c, key) \/ Miss(c, key)
    BY <1>3 DEF Post
  <2> HIDE DEF client, key
  <2>5. CASE Coalesce(c, key)
    <3> DEFINE r == inflight[key]
    <3>1. r \in DOMAIN pending
      BY <2>5 DEF Coalesce, NetType
    <3>2. pending' = [pending EXCEPT ![r].waiters = @ \cup {c}]
      BY <2>5 DEF Coalesce
    <3> HIDE DEF r
    <3>3. DOMAIN pending' = DOMAIN pending /\ pending' \in [DOMAIN pending -> Pendings]
          /\ \A q \in DOMAIN pending : pending'[q].cacheKey = pending[q].cacheKey
      BY <3>1, <3>2 DEF NetType, Pendings
    <3>4. UNCHANGED <<inflight, timer, lastReply, clock, hdrCache, hitVars>>
      BY <2>5 DEF Coalesce
    <3> QED
      BY <3>3, <3>4, <2>2 DEF NetType, MemoType, InflightOK, HandlerType, hitVars
  <2>6. CASE CacheHit(c, key)
    <3>1. UNCHANGED <<netVars, hdrCache>> /\ hits' \subseteq Calls /\ zeroTimers' \in Nat
      BY <2>6 DEF CacheHit, HandlerType
    <3> QED
      BY <3>1, <2>2 DEF NetType, MemoType, InflightOK, netVars
  <2>7. CASE Miss(c, key)
    <3>1. hdrCache' = IF client \in DOMAIN hdrCache THEN hdrCache
                      ELSE With(hdrCache, client, HeadersOf(client, session))
      BY <2>7 DEF Miss, client
    <3>2. hdrCache' \in [DOMAIN hdrCache' -> Headers] /\ DOMAIN hdrCache' \subseteq Clients
          /\ hdrCache'[client] \in Headers
      <4>1. CASE client \in DOMAIN hdrCache
        BY <3>1, <4>1 DEF MemoType
      <4>2. CASE client \notin DOMAIN hdrCache
        BY <3>1, <4>2, <1>1 DEF MemoType, With, client
      <4> QED
        BY <4>1, <4>2
    <3>3. PICK k \in {key, NoKey}, h \in Headers, w \in BOOLEAN : Register(c, k, h, w)
      <4>1. (~session.visitor) \in BOOLEAN
        OBVIOUS
      <4> QED
        BY <2>7, <3>2, <4>1 DEF Miss, client
    <3>4. inflight' = With(inflight, key, lastReply') /\ key \notin DOMAIN inflight
      BY <2>7 DEF Miss
    <3>5. NetType' /\ InflightOK'
      <4>1. /\ lastReply' = lastReply + 1 /\ lastReply' \notin DOMAIN pending
            /\ lastReply' \in Nat /\ timer' \in Nat /\ clock' \in Nat
            /\ DOMAIN pending' = DOMAIN pending \cup {lastReply'}
            /\ DOMAIN pending' \subseteq 1..lastReply'
            /\ pending' \in [DOMAIN pending' -> Pendings]
            /\ pending'[lastReply'].cacheKey = k
            /\ \A r \in DOMAIN pending : pending'[r] = pending[r]
        <5>1. k \in Keys \cup {NoKey} /\ NetType
          BY <3>3, <2>3
        <5>2. Register(c, k, h, w)
          BY <3>3
        <5>3. c \in Calls /\ h \in Headers /\ w \in BOOLEAN
          OBVIOUS
        <5> QED
          BY ONLY <5>1, <5>2, <5>3, RegisterNet
      <4>2. DOMAIN inflight' = DOMAIN inflight \cup {key} /\ inflight'[key] = lastReply'
            /\ \A l \in DOMAIN inflight : inflight'[l] = inflight[l]
        BY <3>4 DEF With
      <4>3. inflight' \in [DOMAIN inflight' -> DOMAIN pending']
        BY <3>4, <4>1 DEF With, NetType
      <4>4. NetType'
        BY <4>1, <4>2, <4>3, <2>3 DEF NetType
      <4>5. InflightOK'
        <5>1. \A l \in DOMAIN inflight : inflight[l] \in DOMAIN pending
          BY DEF NetType
        <5>2. \A l \in DOMAIN inflight' : pending'[inflight'[l]].cacheKey \in {l, NoKey}
          BY <4>1, <4>2, <5>1 DEF InflightOK
        <5>3. \A l, m \in DOMAIN inflight' : inflight'[l] = inflight'[m] => l = m
          BY <4>1, <4>2, <5>1 DEF InflightOK
        <5>4. \A r \in DOMAIN pending' :
                LET l == pending'[r].cacheKey
                IN l # NoKey => l \in DOMAIN inflight' /\ inflight'[l] = r
          BY <4>1, <4>2 DEF InflightOK
        <5> QED
          BY <4>3, <5>2, <5>3, <5>4 DEF InflightOK
      <4> QED
        BY <4>4, <4>5
    <3>6. UNCHANGED hitVars
      BY <2>7 DEF Miss
    <3> QED
      BY <3>2, <3>5, <3>6, <2>2 DEF MemoType, HandlerType, hitVars
  <2> QED
    BY <2>4, <2>5, <2>6, <2>7
<1> QED
  BY <1>2, <1>3 DEF Issue

\* The keys a finished reply takes out of the index are exactly the ones that
\* led to it.
LEMMA IndexEntriesOfReply ==
  ASSUME IndexInv, NEW r \in DOMAIN pending
  PROVE  IndexEntries(r, pending[r]) \cap DOMAIN inflight
           = {k \in DOMAIN inflight : inflight[k] = r}
  BY DEF IndexInv, TypeOK, NetType, InflightOK, IndexEntries

\* Storing a reply keeps the response cache well typed.
LEMMA StoreType ==
  ASSUME CacheType, NEW p \in Pendings, p.cacheKey \in Keys, Store(p)
  PROVE  CacheType'
<1> DEFINE k == p.cacheKey
           entry == [headers |-> p.headers, fresh |-> TRUE]
           order == IF k \in DOMAIN cache THEN cacheOrder ELSE Append(cacheOrder, k)
<1>1. entry \in Entries
  BY DEF Entries, Pendings
<1>2. order \in Seq(Keys)
  BY AppendProperties DEF CacheType
<1>3. /\ cacheOrder' = IF Evict(order) = {} THEN order ELSE Tail(order)
      /\ cache' = Without(With(cache, k, entry), Evict(order))
  BY DEF Store
<1> HIDE DEF entry, order
<1>4. cacheOrder' \in Seq(Keys)
  <2>1. CASE Evict(order) = {}
    BY <1>2, <1>3, <2>1
  <2>2. CASE Evict(order) # {}
    <3>1. order # <<>>
      BY <2>2, <1>2, EmptySeq DEF Evict
    <3>2. Tail(order) \in Seq(Keys)
      BY ONLY <1>2, <3>1, HeadTailProperties
    <3> QED
      BY <1>3, <2>2, <3>2
  <2> QED
    BY <2>1, <2>2
<1>5. cache' \in [DOMAIN cache' -> Entries] /\ DOMAIN cache' \subseteq Keys
  <2> DEFINE grown == With(cache, k, entry)
  <2>1. grown \in [DOMAIN grown -> Entries] /\ DOMAIN grown \subseteq Keys
    BY <1>1 DEF CacheType, With
  <2>2. cache' = Without(grown, Evict(order))
    BY <1>3
  <2> HIDE DEF grown
  <2> QED
    BY <2>1, <2>2 DEF Without
<1> QED
  BY <1>4, <1>5 DEF CacheType

\* onFinished() up to its delivery loop.
LEMMA FinishIndex ==
  ASSUME IndexInv, NEW r \in DOMAIN pending, NEW ok \in BOOLEAN, NEW v \in BOOLEAN,
         Finish(r, ok, v), expired' = expired \ {r},
         UNCHANGED <<guiVars, queue, timer, lastReply, clock, hitVars, callback, answers>>
  PROVE  IndexInv'
<1> USE DEF IndexInv, TypeOK
<1> DEFINE p == pending[r]
           adopt == ok /\ ~session.visitor /\ p.wantVisitor /\ v
<1>1. p \in Pendings /\ r \in Nat
  BY DEF NetType
<1>2. GuiType'
  BY DEF guiVars, GuiType
<1>3. MemoType'
  <2>1. /\ session' = [session EXCEPT !.visitor = @ \/ adopt]
        /\ ctxCache' = IF adopt THEN Empty ELSE ctxCache
        /\ hdrCache' = IF adopt THEN Empty ELSE hdrCache
    BY DEF Finish, Reap
  <2>2. session' \in Sessions
    <3> DEFINE b == session.visitor \/ adopt
    <3>1. b \in BOOLEAN /\ session' = [session EXCEPT !.visitor = b]
      BY <2>1
    <3> HIDE DEF b
    <3> QED
      BY <3>1 DEF MemoType, Sessions
  <2> HIDE DEF adopt
  <2>3. ctxCache' \in [DOMAIN ctxCache' -> Contexts] /\ DOMAIN ctxCache' \subseteq Clients
    <3>1. CASE adopt
      BY <2>1, <3>1 DEF Empty
    <3>2. CASE ~adopt
      BY <2>1, <3>2 DEF MemoType
    <3> QED
      BY <3>1, <3>2
  <2>4. hdrCache' \in [DOMAIN hdrCache' -> Headers] /\ DOMAIN hdrCache' \subseteq Clients
    <3>1. CASE adopt
      BY <2>1, <3>1 DEF Empty
    <3>2. CASE ~adopt
      BY <2>1, <3>2 DEF MemoType
    <3> QED
      BY <3>1, <3>2
  <2> QED
    BY <2>2, <2>3, <2>4 DEF MemoType
<1>4. CacheType'
  <2>1. CASE ok /\ p.cacheKey # NoKey
    <3>1. p.cacheKey \in Keys
      BY <1>1, <2>1 DEF Pendings
    <3>2. Store(p)
      BY <2>1 DEF Finish, Reap
    <3> HIDE DEF p
    <3> QED
      BY <1>1, <3>1, <3>2, StoreType
  <2>2. CASE ~(ok /\ p.cacheKey # NoKey)
    BY <2>2 DEF Finish, Reap, CacheType, cacheVars
  <2> QED
    BY <2>1, <2>2
<1>5. HandlerType'
  BY <1>1 DEF Finish, Reap, HandlerType, hitVars, Pendings
<1>6. /\ pending' = Without(pending, {r})
      /\ DOMAIN inflight' = {k \in DOMAIN inflight : inflight[k] # r}
      /\ \A k \in DOMAIN inflight' : inflight'[k] = inflight[k]
      /\ inflight' = [k \in DOMAIN inflight' |-> inflight[k]]
  <2>1. inflight' = Without(inflight, IndexEntries(r, p)) /\ pending' = Without(pending, {r})
    BY DEF Finish, Reap
  <2> QED
    BY <2>1, IndexEntriesOfReply DEF Without
<1>7. NetType'
  BY <1>6 DEF NetType, Without
<1>8. InflightOK'
  BY <1>6 DEF NetType, InflightOK, Without
<1> QED
  BY <1>2, <1>3, <1>4, <1>5, <1>7, <1>8

\* The closure at the head of the queue.
LEMMA HeadClosure ==
  ASSUME GuiType, queue # <<>>
  PROVE  Head(queue) \in Closures /\ Tail(queue) \in Seq(Closures)
  BY HeadTailProperties DEF GuiType

\* abort(job) leaves no index entry behind for a reply it reaps.
LEMMA AbortIndex == IndexInv /\ RunAbort => IndexInv'
<1> SUFFICES ASSUME IndexInv, RunAbort PROVE IndexInv'
  OBVIOUS
<1> USE DEF IndexInv, TypeOK
<1> DEFINE mine == {c \in Calls : JobOf[c] = Head(queue).job}
           left == [r \in DOMAIN pending |-> [pending[r] EXCEPT !.waiters = @ \ mine]]
           dead == Orphans(left)
<1>1. /\ pending' = Without(left, dead)
      /\ inflight' = Without(inflight, {k \in DOMAIN inflight : inflight[k] \in dead})
      /\ timer' = IF dead = {} THEN timer ELSE Nearest(DOMAIN pending')
      /\ hits' = hits \ mine
  BY DEF RunAbort, DropHits
<1>2. UNCHANGED <<guiVars, session, memoVars, lastReply, clock, cacheVars,
                  zeroTimers, handlerVars>> /\ queue' = Tail(queue) /\ Idle
  BY DEF RunAbort
<1>3. GuiType'
  BY <1>2, HeadClosure DEF RunAbort, GuiType, guiVars
<1>4. MemoType' /\ CacheType' /\ HandlerType'
  BY <1>1, <1>2 DEF MemoType, CacheType, HandlerType, memoVars, cacheVars, handlerVars
<1>5. /\ DOMAIN left = DOMAIN pending
      /\ \A r \in DOMAIN left : left[r] \in Pendings /\ left[r].cacheKey = pending[r].cacheKey
  <2> SUFFICES ASSUME NEW r \in DOMAIN pending
               PROVE  left[r] \in Pendings /\ left[r].cacheKey = pending[r].cacheKey
    OBVIOUS
  <2>1. pending[r] \in Pendings /\ left[r] = [pending[r] EXCEPT !.waiters = @ \ mine]
    BY DEF NetType
  <2> HIDE DEF left, mine
  <2> QED
    BY <2>1 DEF Pendings
<1> HIDE DEF left, dead, mine
<1>6. /\ DOMAIN pending' = DOMAIN pending \ dead
      /\ pending' \in [DOMAIN pending' -> Pendings]
      /\ \A r \in DOMAIN pending' : pending'[r].cacheKey = pending[r].cacheKey
  BY <1>1, <1>5 DEF Without
<1>7. /\ DOMAIN inflight' = {k \in DOMAIN inflight : inflight[k] \notin dead}
      /\ \A k \in DOMAIN inflight' : inflight'[k] = inflight[k]
      /\ inflight' = [k \in DOMAIN inflight' |-> inflight[k]]
  BY <1>1 DEF Without
<1>8. timer' \in Nat
  <2>1. DOMAIN pending' \in SUBSET Nat
    BY <1>6 DEF NetType
  <2>2. Nearest(DOMAIN pending') \in Nat
    BY ONLY <2>1, NearestType
  <2> QED
    BY <1>1, <2>2 DEF NetType
<1>9. NetType'
  <2>1. expired = {} /\ UNCHANGED <<expired, lastReply, clock>>
    BY <1>2 DEF Idle, handlerVars
  <2> QED
    BY <1>6, <1>7, <1>8, <2>1 DEF NetType
<1>10. InflightOK'
  BY <1>6, <1>7 DEF NetType, InflightOK
<1> QED
  BY <1>3, <1>4, <1>9, <1>10

\* A sweep only marks replies; it does not touch their keys.
LEMMA DeadlineIndex == IndexInv /\ OnDeadline => IndexInv'
<1> SUFFICES ASSUME IndexInv, OnDeadline PROVE IndexInv'
  OBVIOUS
<1> USE DEF IndexInv, TypeOK
<1> DEFINE overdue == {r \in DOMAIN pending : r <= clock /\ ~pending[r].timedOut}
<1>1. /\ pending' = [r \in DOMAIN pending |->
                       [pending[r] EXCEPT !.timedOut = @ \/ r \in overdue]]
      /\ expired' = overdue
      /\ timer' = IF overdue = {} THEN Nearest(DOMAIN pending) ELSE 0
  BY DEF OnDeadline
<1>2. overdue \subseteq DOMAIN pending
  OBVIOUS
<1> HIDE DEF overdue
<1>3. UNCHANGED <<guiVars, queue, session, memoVars, inflight, lastReply, clock,
                  cacheVars, hitVars, phase, batch, callback, answers>>
  BY DEF OnDeadline
<1>4. GuiType' /\ MemoType' /\ CacheType' /\ HandlerType'
  BY <1>3 DEF GuiType, MemoType, CacheType, HandlerType, guiVars, memoVars,
              cacheVars, hitVars
<1>5. /\ DOMAIN pending' = DOMAIN pending
      /\ \A r \in DOMAIN pending : pending'[r] \in Pendings
                                  /\ pending'[r].cacheKey = pending[r].cacheKey
  <2>1. DOMAIN pending' = DOMAIN pending
    BY <1>1
  <2> SUFFICES ASSUME NEW r \in DOMAIN pending
               PROVE  pending'[r] \in Pendings /\ pending'[r].cacheKey = pending[r].cacheKey
    BY <2>1
  <2> DEFINE late == pending[r].timedOut \/ r \in overdue
  <2>2. late \in BOOLEAN /\ pending'[r] = [pending[r] EXCEPT !.timedOut = late]
    BY <1>1
  <2>3. pending[r] \in Pendings
    BY DEF NetType
  <2> HIDE DEF late
  <2> QED
    BY <2>2, <2>3 DEF Pendings
<1>6. timer' \in Nat
  <2>1. DOMAIN pending \in SUBSET Nat
    BY DEF NetType
  <2>2. Nearest(DOMAIN pending) \in Nat
    BY ONLY <2>1, NearestType
  <2> QED
    BY <1>1, <2>2
<1>7. NetType'
  <2>1. pending' \in [DOMAIN pending' -> Pendings]
    BY <1>1, <1>5
  <2> QED
    BY <1>1, <1>2, <1>3, <1>5, <1>6, <2>1 DEF NetType
<1>8. InflightOK'
  BY <1>3, <1>5 DEF NetType, InflightOK
<1> QED
  BY <1>4, <1>7, <1>8

\* Every step keeps the types and the index.
LEMMA IndexStep == IndexInv /\ [Next]_vars => IndexInv'
<1> SUFFICES ASSUME IndexInv, [Next]_vars PROVE IndexInv'
  OBVIOUS
<1> USE DEF IndexInv, TypeOK
<1>1. CASE Gui
  BY <1>1, GuiIndex
<1>2. CASE RunRequest
  <2>1. PICK c \in Calls : Issue(c)
    BY <1>2, HeadClosure DEF RunRequest, Closures
  <2>2. UNCHANGED <<guiVars, session, cacheVars, handlerVars>> /\ queue' = Tail(queue)
    BY <1>2 DEF RunRequest
  <2>3. UNCHANGED <<session, expired>>
    BY <2>2 DEF handlerVars
  <2>4. MemoType' /\ NetType' /\ InflightOK' /\ hits' \subseteq Calls /\ zeroTimers' \in Nat
    BY ONLY <2>1, <2>3, IndexInv, IssueIndex
  <2>5. GuiType' /\ CacheType' /\ HandlerType'
    BY <1>2, <2>2, <2>4, HeadClosure DEF RunRequest, GuiType, CacheType, HandlerType,
       guiVars, cacheVars, handlerVars
  <2> QED
    BY <2>4, <2>5
<1>3. CASE RunAbort
  BY <1>3, AbortIndex
<1>4. CASE RunBearer \/ RunSettings
  <2>1. UNCHANGED <<guiVars, netVars, hitVars, handlerVars>> /\ queue' = Tail(queue)
        /\ ClearCache /\ queue # <<>>
    BY <1>4 DEF RunBearer, RunSettings
  <2>2. session' \in Sessions
    <3>1. Head(queue) \in Closures
      BY <2>1, HeadClosure
    <3> QED
      BY <1>4, <3>1 DEF RunBearer, RunSettings, MemoType, Sessions, Closures
  <2>3. MemoType' /\ CacheType'
    BY <2>1, <2>2 DEF ClearCache, MemoType, CacheType, Empty
  <2>4. GuiType' /\ NetType' /\ HandlerType' /\ InflightOK'
    BY <2>1, HeadClosure DEF GuiType, NetType, HandlerType, InflightOK, guiVars,
       netVars, hitVars, handlerVars
  <2> QED
    BY <2>3, <2>4
<1>5. ASSUME NEW r \in DOMAIN pending, NEW ok \in BOOLEAN, NEW v \in BOOLEAN,
             Answer(r, ok, v)
      PROVE  IndexInv'
  <2>1. expired' = expired \ {r}
    BY <1>5 DEF Answer, Idle
  <2> QED
    BY <1>5, <2>1, FinishIndex DEF Answer
<1>6. CASE OnDeadline
  BY <1>6, DeadlineIndex
<1>7. ASSUME NEW r \in expired, AbortExpired(r)
      PROVE  IndexInv'
  <2>1. r \in DOMAIN pending
    BY DEF NetType
  <2> QED
    BY <1>7, <2>1, FinishIndex DEF AbortExpired
<1>8. CASE OnDeliverCached
  BY <1>8, SMTT(20) DEF OnDeliverCached, TakeHits, GuiType, MemoType, NetType, CacheType,
     HandlerType, InflightOK, guiVars, memoVars, netVars, cacheVars
<1>9. ASSUME NEW c \in batch, Deliver(c)
      PROVE  IndexInv'
  <2>1. UNCHANGED <<guiVars, queue, session, memoVars, netVars, cacheVars,
                    hitVars, phase, expired>>
    BY <1>9 DEF Deliver
  <2>2. HandlerType'
    BY <1>9 DEF Deliver, HandlerType, hitVars
  <2> QED
    BY <2>1, <2>2 DEF GuiType, MemoType, NetType, CacheType, InflightOK, guiVars,
       memoVars, netVars, cacheVars
<1>10. ASSUME NEW c \in Calls, FollowUp(c)
       PROVE  IndexInv'
  <2>1. Issue(c) /\ UNCHANGED <<session, expired>>
    BY <1>10 DEF FollowUp, handlerVars
  <2>2. MemoType' /\ NetType' /\ InflightOK' /\ hits' \subseteq Calls /\ zeroTimers' \in Nat
    BY ONLY <2>1, IndexInv, IssueIndex, c \in Calls
  <2>3. GuiType' /\ CacheType' /\ HandlerType'
    BY <1>10, <2>2 DEF FollowUp, GuiType, CacheType, HandlerType, cacheVars, handlerVars
  <2> QED
    BY <2>2, <2>3
<1>11. CASE Return
  BY <1>11 DEF Return, GuiType, MemoType, NetType, CacheType, HandlerType,
     InflightOK, guiVars, memoVars, netVars, cacheVars, hitVars
<1>12. CASE EndHandler
  <2>1. timer' \in Nat
    <3>1. DOMAIN pending \in SUBSET Nat
      BY DEF NetType
    <3>2. Nearest(DOMAIN pending) \in Nat
      BY ONLY <3>1, NearestType
    <3> QED
      BY <1>12, <3>2 DEF EndHandler, Rearm, NetType
  <2> QED
    BY <1>12, <2>1 DEF EndHandler, GuiType, MemoType, NetType, CacheType, HandlerType,
       InflightOK, guiVars, memoVars, cacheVars, hitVars
<1>13. CASE DeadlinePasses
  BY <1>13, SMTT(20) DEF DeadlinePasses, GuiType, MemoType, NetType, CacheType, HandlerType,
     InflightOK, guiVars, memoVars, cacheVars, hitVars, handlerVars
<1>14. ASSUME NEW k \in DOMAIN cache, Expire(k)
       PROVE  IndexInv'
  <2>1. CacheType'
    BY <1>14 DEF Expire, CacheType, Entries
  <2> QED
    BY <1>14, <2>1 DEF Expire, GuiType, MemoType, NetType, HandlerType, InflightOK,
       guiVars, memoVars, netVars, hitVars, handlerVars
<1>15. CASE UNCHANGED vars
  BY <1>15 DEF vars, GuiType, MemoType, NetType, CacheType, HandlerType, InflightOK,
     guiVars, memoVars, netVars, cacheVars, hitVars, handlerVars
<1> QED
  BY <1>1, <1>2, <1>3, <1>4, <1>5, <1>6, <1>7, <1>8, <1>9, <1>10, <1>11, <1>12,
     <1>13, <1>14, <1>15 DEF Next, RunClosure, Handler

\* The transport's state is well typed, whatever the GUI, the network and the
\* continuations do (http.cpp, all handlers).
THEOREM TypeCorrect == Spec => []TypeOK
<1>1. IndexInv => TypeOK
  BY DEF IndexInv
<1> QED
  BY IndexInit, IndexStep, <1>1, PTL DEF Spec

\* m_inflightByKey always leads to a live reply that answers the same question,
\* and to every reply that will be cached (post, onFinished, abort).
THEOREM IndexTruthful == Spec => []InflightOK
<1>1. IndexInv => InflightOK
  BY DEF IndexInv
<1> QED
  BY IndexInit, IndexStep, <1>1, PTL DEF Spec

-----------------------------------------------------------------------------
(* The memoized context and headers                                        *)

\* A memo is filled from the session, and only when it is missing.
LEMMA IssueMemo ==
  ASSUME MemoOK, NEW c \in Calls, Issue(c), UNCHANGED session
  PROVE  MemoOK'
<1> DEFINE client == ClientOf[RequestOf[c]]
<1>1. CASE Get(c) \/ PostForm(c)
  BY <1>1 DEF Get, PostForm, memoVars, MemoOK
<1>2. CASE Post(c)
  <2>1. ctxCache' = IF client \in DOMAIN ctxCache THEN ctxCache
                    ELSE With(ctxCache, client, ContextOf(client, session))
    BY <1>2 DEF Post
  <2>2. \/ hdrCache' = hdrCache
        \/ hdrCache' = With(hdrCache, client, HeadersOf(client, session))
    BY <1>2 DEF Post, Coalesce, CacheHit, Miss
  <2> HIDE DEF client
  <2>3. \A cl \in DOMAIN ctxCache' : ctxCache'[cl] = ContextOf(cl, session)
    <3>1. CASE client \in DOMAIN ctxCache
      BY <2>1, <3>1 DEF MemoOK
    <3>2. CASE client \notin DOMAIN ctxCache
      BY <2>1, <3>2 DEF MemoOK, With
    <3> QED
      BY <3>1, <3>2
  <2>4. \A cl \in DOMAIN hdrCache' : hdrCache'[cl] = HeadersOf(cl, session)
    BY <2>2 DEF MemoOK, With
  <2> QED
    BY <2>3, <2>4 DEF MemoOK
<1> QED
  BY <1>1, <1>2 DEF Issue

\* Adopting the server's visitorData drops the memos; nothing else onFinished()
\* does changes the session.
LEMMA FinishMemo ==
  ASSUME MemoOK, MemoType, NEW r, NEW ok \in BOOLEAN, NEW v \in BOOLEAN, Finish(r, ok, v)
  PROVE  MemoOK'
<1> DEFINE adopt == ok /\ ~session.visitor /\ pending[r].wantVisitor /\ v
<1>1. /\ session' = [session EXCEPT !.visitor = @ \/ adopt]
      /\ ctxCache' = IF adopt THEN Empty ELSE ctxCache
      /\ hdrCache' = IF adopt THEN Empty ELSE hdrCache
  BY DEF Finish, Reap
<1> HIDE DEF adopt
<1>2. CASE adopt
  BY <1>1, <1>2 DEF MemoOK, Empty
<1>3. CASE ~adopt
  <2>1. session' = session
    <3>1. session.visitor \in BOOLEAN
      BY DEF MemoType, Sessions
    <3>2. (session.visitor \/ adopt) = session.visitor
      BY <1>3, <3>1
    <3>3. session' = [session EXCEPT !.visitor = session.visitor]
      BY <1>1, <3>2
    <3> QED
      BY <3>3 DEF MemoType, Sessions
  <2> QED
    BY <1>1, <1>3, <2>1 DEF MemoOK
<1> QED
  BY <1>2, <1>3

\* No request is built from a session that is no longer current (cachedContext,
\* cachedHeaders, invalidateSessionCaches and every place that calls them).
THEOREM MemoFresh == Spec => []MemoOK
<1>1. Init => MemoOK
  BY DEF Init, MemoOK, Empty
<1>2. TypeOK /\ MemoOK /\ [Next]_vars => MemoOK'
  <2> SUFFICES ASSUME TypeOK, MemoOK, [Next]_vars PROVE MemoOK'
    OBVIOUS
  <2>1. CASE UNCHANGED <<session, memoVars>>
    BY <2>1 DEF MemoOK, memoVars
  <2>2. CASE RunRequest
    <3>1. PICK c \in Calls : Issue(c)
      BY <2>2, HeadClosure DEF RunRequest, Closures, TypeOK
    <3>2. UNCHANGED session
      BY <2>2 DEF RunRequest
    <3> QED
      BY ONLY <3>1, <3>2, MemoOK, IssueMemo
  <2>3. ASSUME NEW c \in Calls, FollowUp(c) PROVE MemoOK'
    BY <2>3, IssueMemo DEF FollowUp
  <2>4. CASE RunBearer \/ RunSettings
    BY <2>4 DEF RunBearer, RunSettings, ClearCache, MemoOK, Empty
  <2>5. ASSUME NEW r, NEW ok \in BOOLEAN, NEW v \in BOOLEAN,
               Answer(r, ok, v) \/ AbortExpired(r)
        PROVE  MemoOK'
    BY <2>5, FinishMemo, ZenonT(30) DEF Answer, AbortExpired, TypeOK
  <2>6. Gui \/ RunAbort \/ OnDeadline \/ OnDeliverCached \/ Return \/ EndHandler
          \/ DeadlinePasses \/ (\E c \in batch : Deliver(c))
          \/ (\E k \in DOMAIN cache : Expire(k)) \/ UNCHANGED vars
        => UNCHANGED <<session, memoVars>>
    BY DEF Gui, Submit, Cancel, ApplyBearer, ApplySettings, Change, RunAbort,
           OnDeadline, OnDeliverCached, Return, EndHandler, DeadlinePasses,
           Deliver, Expire, vars
  <2> QED
    BY <2>1, <2>2, <2>3, <2>4, <2>5, <2>6, ZenonT(30) DEF Next, RunClosure, Handler
<1> QED
  BY <1>1, <1>2, TypeCorrect, PTL DEF Spec

-----------------------------------------------------------------------------
(* The deadline timer                                                      *)

\* Strengthening of TimerArmed: the timer is right except while an onFinished
\* delivery loop runs or a sweep has replies left to abort, and each of these
\* ends by re-arming it.
TimerInv == phase # "finishing" /\ expired = {} => timer = Nearest(DOMAIN pending)

LEMMA IssueTimer ==
  ASSUME NetType, TimerInv, NEW c \in Calls, Issue(c), UNCHANGED <<phase, expired>>
  PROVE  TimerInv'
<1>1. CASE timer' = Nearest(DOMAIN pending')
  BY <1>1 DEF TimerInv
<1>2. CASE \E key : Coalesce(c, key)
  BY <1>2 DEF Coalesce, TimerInv
<1>3. CASE \E key : CacheHit(c, key)
  BY <1>3 DEF CacheHit, TimerInv, netVars
<1>4. (\E key : Coalesce(c, key)) \/ (\E key : CacheHit(c, key))
      \/ timer' = Nearest(DOMAIN pending')
  BY DEF Issue, Post, Get, PostForm, Miss, Register
<1> QED
  BY <1>1, <1>2, <1>3, <1>4

\* Between handlers the shared timer is armed for the nearest deadline, and
\* stopped exactly when nothing is in flight (armDeadline and its callers).
THEOREM DeadlineArmed == Spec => []TimerArmed
<1>1. Init => TimerInv
  BY DEF Init, TimerInv, Nearest, Empty
<1>2. TypeOK /\ TimerInv /\ [Next]_vars => TimerInv'
  <2> SUFFICES ASSUME TypeOK, TimerInv, [Next]_vars PROVE TimerInv'
    OBVIOUS
  <2>1. CASE UNCHANGED <<phase, expired, timer, pending>>
    BY <2>1 DEF TimerInv
  <2>2. CASE RunRequest
    <3>1. PICK c \in Calls : Issue(c)
      BY <2>2, HeadClosure DEF RunRequest, Closures, TypeOK
    <3>2. UNCHANGED <<phase, expired>>
      BY <2>2 DEF RunRequest, handlerVars
    <3> QED
      BY ONLY <3>1, <3>2, TypeOK, TimerInv, IssueTimer DEF TypeOK
  <2>3. ASSUME NEW c \in Calls, FollowUp(c) PROVE TimerInv'
    BY <2>3, IssueTimer DEF FollowUp, handlerVars, TypeOK
  <2>4. CASE RunAbort
    <3> DEFINE mine == {c \in Calls : JobOf[c] = Head(queue).job}
               left == [r \in DOMAIN pending |-> [pending[r] EXCEPT !.waiters = @ \ mine]]
               dead == Orphans(left)
    <3>1. /\ pending' = Without(left, dead)
          /\ timer' = IF dead = {} THEN timer ELSE Nearest(DOMAIN pending')
          /\ UNCHANGED <<phase, expired>>
      BY <2>4 DEF RunAbort, handlerVars
    <3>2. DOMAIN left = DOMAIN pending
      OBVIOUS
    <3> HIDE DEF left, dead
    <3> QED
      BY <3>1, <3>2 DEF TimerInv, Without
  <2>5. ASSUME NEW r, NEW ok \in BOOLEAN, NEW v \in BOOLEAN,
               Answer(r, ok, v) \/ AbortExpired(r)
        PROVE  TimerInv'
    BY <2>5 DEF Answer, AbortExpired, Finish, Reap, TimerInv
  <2>6. CASE OnDeadline
    <3> DEFINE overdue == {r \in DOMAIN pending : r <= clock /\ ~pending[r].timedOut}
    <3>1. /\ DOMAIN pending' = DOMAIN pending
          /\ expired' = overdue
          /\ timer' = IF overdue = {} THEN Nearest(DOMAIN pending) ELSE 0
      BY <2>6 DEF OnDeadline
    <3> HIDE DEF overdue
    <3> QED
      BY <3>1 DEF TimerInv
  <2>7. CASE OnDeliverCached
    BY <2>7 DEF OnDeliverCached, Idle, TimerInv, netVars
  <2>8. CASE EndHandler
    BY <2>8 DEF EndHandler, Rearm, TimerInv, TypeOK, HandlerType
  <2>9. Gui \/ RunBearer \/ RunSettings \/ Return \/ DeadlinePasses
          \/ (\E c \in batch : Deliver(c)) \/ (\E k \in DOMAIN cache : Expire(k))
          \/ UNCHANGED vars
        => UNCHANGED <<phase, expired, timer, pending>>
    BY DEF Gui, Submit, Cancel, ApplyBearer, ApplySettings, Change, RunBearer,
           RunSettings, Return, DeadlinePasses, Deliver, Expire, vars, netVars,
           handlerVars
  <2> QED
    BY <2>1, <2>2, <2>3, <2>4, <2>5, <2>6, <2>7, <2>8, <2>9, ZenonT(30) DEF Next, RunClosure, Handler
<1>3. TimerInv => TimerArmed
  BY DEF TimerInv, TimerArmed, Idle
<1> QED
  BY <1>1, <1>2, <1>3, TypeCorrect, PTL DEF Spec

-----------------------------------------------------------------------------
(***************************************************************************)
(* What core::Http promises its callers: no call of a live job is lost     *)
(* (NoLostCall), and the transport implements RequestService: a            *)
(* continuation runs at most once, only for a call that was made, and      *)
(* never after its job was canceled.                                       *)
(*                                                                         *)
(* Both rest on one fact.  A call is a token that moves through the        *)
(* worker's queue, one reply's waiters or the delayed cache hits, and the  *)
(* batch of a delivery loop; it is never in two of these places and never  *)
(* comes back from its answer.                                             *)
(***************************************************************************)


Waiting(c) == WaitsOn(c) # {}

\* A call is somewhere only after it was issued.
Issued ==
  \A c \in Calls :
    c \notin issued => ~Queued(c) /\ ~Waiting(c) /\ c \notin hits
                       /\ c \notin batch /\ answers[c] = 0

\* It is in one place at most, and in that place once.
OnePlace ==
  \A c \in Calls :
    /\ Queued(c) => ~Waiting(c) /\ c \notin hits /\ c \notin batch /\ answers[c] = 0
    /\ Waiting(c) => c \notin hits /\ c \notin batch /\ answers[c] = 0
    /\ c \in hits => c \notin batch /\ answers[c] = 0
    /\ c \in batch => answers[c] = 0
    /\ answers[c] \in {0, 1}
    /\ \A r, q \in WaitsOn(c) : r = q

\* A closure is queued once, and an abort only after its job was canceled.
QueueOK ==
  /\ \A i, k \in DOMAIN queue :
       queue[i].op = "request" /\ queue[i] = queue[k] => i = k
  /\ \A i \in DOMAIN queue : queue[i].op = "abort" => queue[i].job \in canceled

\* onFinished() and onDeliverCached() start with nothing left to deliver.
BatchOK == phase = "idle" => batch = {}

ServiceInv == IndexInv /\ Issued /\ OnePlace /\ QueueOK /\ BatchOK /\ NoLostCall

-----------------------------------------------------------------------------
(* Lemmas about the queue and about issuing a request                       *)

\* Posting a closure adds its call to the queue and nothing else.
LEMMA AppendQueue ==
  ASSUME GuiType, QueueOK, NEW e \in Closures, queue' = Append(queue, e),
         e.op = "request" => ~Queued(e.call),
         canceled \subseteq canceled', e.op = "abort" => e.job \in canceled'
  PROVE  /\ QueueOK'
         /\ \A c \in Calls : Queued(c)' <=> Queued(c) \/ e = Requested(c)
<1> DEFINE n == Len(queue)
<1>1. /\ n \in Nat /\ DOMAIN queue = 1..n /\ DOMAIN queue' = 1..(n + 1)
      /\ queue'[n + 1] = e /\ \A i \in 1..n : queue'[i] = queue[i]
  BY AppendProperties, LenProperties DEF GuiType
<1>2. \A i \in 1..n : queue[i] \in Closures
  BY ElementOfSeq DEF GuiType
<1> HIDE DEF n
<1>3. \A c \in Calls : Queued(c)' <=> Queued(c) \/ e = Requested(c)
  BY <1>1 DEF Queued, Requested
<1>4. ASSUME NEW i \in DOMAIN queue, queue[i].op = "request"
      PROVE  queue[i] # e
  <2>1. queue[i] = Requested(queue[i].call)
    BY <1>1, <1>2, <1>4 DEF Closures, Requested
  <2> QED
    BY <1>4, <2>1 DEF Queued
<1>5. ASSUME NEW i \in DOMAIN queue', NEW k \in DOMAIN queue',
             queue'[i].op = "request", queue'[i] = queue'[k]
      PROVE  i = k
  BY <1>1, <1>4, <1>5 DEF QueueOK
<1>6. \A i \in DOMAIN queue' : queue'[i].op = "abort" => queue'[i].job \in canceled'
  BY <1>1 DEF QueueOK
<1> QED
  BY <1>3, <1>5, <1>6 DEF QueueOK

\* Running a closure takes its call out of the queue and nothing else.
LEMMA TailQueue ==
  ASSUME GuiType, QueueOK, queue # <<>>, queue' = Tail(queue), UNCHANGED canceled
  PROVE  /\ QueueOK'
         /\ \A c \in Calls : Queued(c)' <=> Queued(c) /\ Head(queue) # Requested(c)
<1> DEFINE n == Len(queue)
<1>1. /\ n \in Nat \ {0} /\ DOMAIN queue = 1..n /\ DOMAIN queue' = 1..(n - 1)
      /\ Head(queue) = queue[1] /\ \A i \in 1..(n - 1) : queue'[i] = queue[i + 1]
  BY EmptySeq, HeadTailProperties, LenProperties DEF GuiType
<1> HIDE DEF n
<1>2. QueueOK'
  <2>1. ASSUME NEW i \in DOMAIN queue', NEW k \in DOMAIN queue',
               queue'[i].op = "request", queue'[i] = queue'[k]
        PROVE  i = k
    <3>1. i + 1 \in DOMAIN queue /\ k + 1 \in DOMAIN queue
      BY <1>1
    <3>2. i + 1 = k + 1
      BY <1>1, <2>1, <3>1 DEF QueueOK
    <3> QED
      BY <1>1, <3>2
  <2>2. \A i \in DOMAIN queue' : queue'[i].op = "abort" => queue'[i].job \in canceled'
    BY <1>1 DEF QueueOK
  <2> QED
    BY <2>1, <2>2 DEF QueueOK
<1>3. ASSUME NEW c \in Calls
      PROVE  Queued(c)' <=> Queued(c) /\ Head(queue) # Requested(c)
  <2>1. ASSUME Queued(c)' PROVE Queued(c) /\ Head(queue) # Requested(c)
    <3>1. PICK i \in 1..(n - 1) : queue[i + 1] = Requested(c)
      BY <1>1, <2>1 DEF Queued, Requested
    <3>2. i + 1 \in DOMAIN queue /\ 1 \in DOMAIN queue /\ i + 1 # 1
      BY <1>1
    <3>3. queue[1] # Requested(c)
      BY <3>1, <3>2 DEF QueueOK, Requested
    <3> QED
      BY <1>1, <3>1, <3>2, <3>3 DEF Queued
  <2>2. ASSUME Queued(c), Head(queue) # Requested(c) PROVE Queued(c)'
    <3>1. PICK i \in 1..n : queue[i] = Requested(c)
      BY <1>1, <2>2 DEF Queued
    <3>2. i - 1 \in 1..(n - 1) /\ (i - 1) + 1 = i
      BY <1>1, <2>2, <3>1
    <3>3. queue'[i - 1] = Requested(c)
      BY <1>1, <3>1, <3>2
    <3> QED
      BY <1>1, <3>2, <3>3 DEF Queued, Requested
  <2> QED
    BY <2>1, <2>2
<1> QED
  BY <1>2, <1>3

\* post(), get() and postForm() put the call in exactly one place, on one reply
\* (its own or one that is already in flight) or among the cache hits, and
\* move no other call.
LEMMA IssuePlace ==
  ASSUME IndexInv, NEW c \in Calls, Issue(c), ~Waiting(c), c \notin hits
  PROVE  /\ \A d \in Calls \ {c} : WaitsOn(d)' = WaitsOn(d) /\ (d \in hits' <=> d \in hits)
         /\ \/ c \in hits' /\ WaitsOn(c)' = {}
            \/ c \notin hits' /\ \E r : WaitsOn(c)' = {r}
<1> USE DEF IndexInv, TypeOK
<1>1. \A r \in DOMAIN pending : pending[r] \in Pendings
  BY DEF NetType
<1>2. \A r \in DOMAIN pending : c \notin pending[r].waiters
  BY DEF Waiting, WaitsOn
<1>3. ASSUME NEW r, NEW k, NEW h, NEW w, r \notin DOMAIN pending,
             pending' = With(pending, r, [waiters |-> {c}, cacheKey |-> k, headers |-> h,
                                          timedOut |-> FALSE, wantVisitor |-> w]),
             UNCHANGED hits
      PROVE  /\ \A d \in Calls \ {c} : WaitsOn(d)' = WaitsOn(d) /\ (d \in hits' <=> d \in hits)
             /\ c \notin hits' /\ WaitsOn(c)' = {r}
  <2>1. /\ DOMAIN pending' = DOMAIN pending \cup {r}
        /\ pending'[r].waiters = {c}
        /\ \A q \in DOMAIN pending : pending'[q] = pending[q]
    <3> DEFINE p == [waiters |-> {c}, cacheKey |-> k, headers |-> h,
                     timedOut |-> FALSE, wantVisitor |-> w]
    <3>1. p.waiters = {c} /\ pending' = With(pending, r, p)
      BY <1>3
    <3> HIDE DEF p
    <3> QED
      BY <1>3, <3>1 DEF With
  <2>2. WaitsOn(c)' = {r}
    BY <1>2, <2>1 DEF WaitsOn
  <2>3. \A d \in Calls \ {c} : WaitsOn(d)' = WaitsOn(d)
    BY <1>3, <2>1 DEF WaitsOn
  <2> QED
    BY <1>3, <2>2, <2>3
<1>4. ASSUME NEW k, NEW h, NEW w, Register(c, k, h, w), UNCHANGED hitVars
      PROVE  /\ \A d \in Calls \ {c} : WaitsOn(d)' = WaitsOn(d) /\ (d \in hits' <=> d \in hits)
             /\ c \notin hits' /\ \E r : WaitsOn(c)' = {r}
  <2>1. lastReply + 1 \notin DOMAIN pending
    BY DEF NetType
  <2> QED
    BY <1>3, <1>4, <2>1 DEF Register, hitVars
<1>5. CASE Get(c) \/ PostForm(c)
  BY <1>4, <1>5 DEF Get, PostForm
<1>6. ASSUME NEW key, Coalesce(c, key)
      PROVE  /\ \A d \in Calls \ {c} : WaitsOn(d)' = WaitsOn(d) /\ (d \in hits' <=> d \in hits)
             /\ c \notin hits' /\ \E r : WaitsOn(c)' = {r}
  <2> DEFINE r == inflight[key]
  <2>1. r \in DOMAIN pending /\ UNCHANGED hits
    BY <1>6 DEF Coalesce, NetType, hitVars
  <2>2. pending' = [pending EXCEPT ![r].waiters = @ \cup {c}]
    BY <1>6 DEF Coalesce
  <2> HIDE DEF r
  <2>3. /\ DOMAIN pending' = DOMAIN pending
        /\ pending'[r].waiters = pending[r].waiters \cup {c}
        /\ \A q \in DOMAIN pending \ {r} : pending'[q] = pending[q]
    BY <1>1, <2>1, <2>2 DEF Pendings
  <2>4. WaitsOn(c)' = {r}
    BY <1>2, <2>1, <2>3 DEF WaitsOn
  <2>5. \A d \in Calls \ {c} : WaitsOn(d)' = WaitsOn(d)
    BY <2>1, <2>3 DEF WaitsOn
  <2> QED
    BY <2>1, <2>4, <2>5
<1>7. ASSUME NEW key, CacheHit(c, key)
      PROVE  /\ \A d \in Calls \ {c} : WaitsOn(d)' = WaitsOn(d) /\ (d \in hits' <=> d \in hits)
             /\ c \in hits' /\ WaitsOn(c)' = {}
  BY <1>7 DEF CacheHit, netVars, WaitsOn, Waiting
<1>8. ASSUME NEW key, Miss(c, key)
      PROVE  /\ \A d \in Calls \ {c} : WaitsOn(d)' = WaitsOn(d) /\ (d \in hits' <=> d \in hits)
             /\ c \notin hits' /\ \E r : WaitsOn(c)' = {r}
  BY <1>4, <1>8 DEF Miss
<1>9. CASE Post(c)
  BY <1>6, <1>7, <1>8, <1>9 DEF Post
<1> QED
  BY <1>5, <1>9 DEF Issue

-----------------------------------------------------------------------------
(* The invariant                                                           *)

LEMMA ServiceInit == Init => ServiceInv
<1> SUFFICES ASSUME Init PROVE ServiceInv
  OBVIOUS
<1>1. IndexInv
  BY IndexInit
<1>2. queue = <<>> /\ pending = Empty /\ hits = {} /\ batch = {} /\ issued = {}
      /\ answers = [c \in Calls |-> 0]
  BY DEF Init
<1> QED
  BY <1>1, <1>2 DEF ServiceInv, Issued, OnePlace, QueueOK, BatchOK, NoLostCall,
                    Queued, Waiting, WaitsOn, Empty

\* A step that moves no call and cancels nothing keeps all of it.
LEMMA StillPlace ==
  ASSUME ServiceInv, UNCHANGED <<canceled, issued, hits, phase, batch, answers>>, QueueOK',
         \A c \in Calls : (Queued(c)' <=> Queued(c)) /\ WaitsOn(c)' = WaitsOn(c)
  PROVE  Issued' /\ OnePlace' /\ QueueOK' /\ BatchOK' /\ NoLostCall'
<1> USE DEF ServiceInv
<1>1. Issued' /\ OnePlace' /\ BatchOK'
  BY DEF Issued, OnePlace, BatchOK, Waiting
<1>2. NoLostCall'
  BY DEF NoLostCall, Live, IndexInv, TypeOK, GuiType
<1> QED
  BY <1>1, <1>2

\* submit: the call enters the queue.  cancel: the calls of the job lose their
\* claim to an answer.  The session changes queue a closure that is no call.
LEMMA GuiPlace ==
  ASSUME ServiceInv, Gui
  PROVE  Issued' /\ OnePlace' /\ QueueOK' /\ BatchOK' /\ NoLostCall'
<1> USE DEF ServiceInv
<1>0. GuiType /\ UNCHANGED <<pending, hits, phase, batch, answers>>
  BY DEF IndexInv, TypeOK, Gui, Submit, Cancel, ApplyBearer, ApplySettings, Change,
         netVars, hitVars, handlerVars
<1>1. \A c \in Calls : WaitsOn(c)' = WaitsOn(c)
  BY <1>0 DEF WaitsOn
<1>2. ASSUME NEW c \in Calls, Submit(c)
      PROVE  Issued' /\ OnePlace' /\ QueueOK' /\ BatchOK' /\ NoLostCall'
  <2> DEFINE e == [op |-> "request", call |-> c]
  <2>1. e \in Closures /\ e.op = "request" /\ e.call = c /\ e = Requested(c)
        /\ \A d \in Calls : e = Requested(d) <=> d = c
    BY DEF Closures, Requested
  <2>2. c \notin issued /\ issued' = issued \cup {c} /\ queue' = Append(queue, e)
        /\ UNCHANGED canceled
    BY <1>2 DEF Submit
  <2>3. ~Queued(c) /\ ~Waiting(c) /\ c \notin hits /\ c \notin batch /\ answers[c] = 0
    BY <2>2 DEF Issued
  <2> HIDE DEF e
  <2>4. QueueOK' /\ \A d \in Calls : Queued(d)' <=> Queued(d) \/ d = c
    BY <1>0, <2>1, <2>2, <2>3, AppendQueue
  <2>5. Issued' /\ OnePlace' /\ BatchOK'
    BY <1>0, <1>1, <2>2, <2>3, <2>4 DEF Issued, OnePlace, BatchOK, Waiting
  <2>6. NoLostCall'
    BY <1>0, <1>1, <2>2, <2>4 DEF NoLostCall, Live, GuiType
  <2> QED
    BY <2>4, <2>5, <2>6
<1>3. ASSUME NEW e \in Closures, queue' = Append(queue, e), e.op # "request",
             UNCHANGED issued, canceled \subseteq canceled',
             e.op = "abort" => e.job \in canceled'
      PROVE  Issued' /\ OnePlace' /\ QueueOK' /\ BatchOK' /\ NoLostCall'
  <2>1. QueueOK' /\ \A d \in Calls : Queued(d)' <=> Queued(d)
    BY <1>0, <1>3, AppendQueue DEF Requested
  <2>2. Issued' /\ OnePlace' /\ BatchOK'
    BY <1>0, <1>1, <1>3, <2>1 DEF Issued, OnePlace, BatchOK, Waiting
  <2>3. NoLostCall'
    BY <1>0, <1>1, <1>3, <2>1 DEF NoLostCall, Live, GuiType
  <2> QED
    BY <2>1, <2>2, <2>3
<1>4. ASSUME NEW j \in Jobs, Cancel(j)
      PROVE  Issued' /\ OnePlace' /\ QueueOK' /\ BatchOK' /\ NoLostCall'
  <2> DEFINE e == [op |-> "abort", job |-> j]
  <2>1. e \in Closures /\ e.op = "abort" /\ e.job = j
    BY DEF Closures
  <2>2. queue' = Append(queue, e) /\ canceled' = canceled \cup {j} /\ UNCHANGED issued
    BY <1>4 DEF Cancel
  <2> HIDE DEF e
  <2> QED
    BY <1>3, <2>1, <2>2
<1>5. ASSUME NEW b \in Bearers \cup {NoBearer}, ApplyBearer(b)
      PROVE  Issued' /\ OnePlace' /\ QueueOK' /\ BatchOK' /\ NoLostCall'
  <2> DEFINE e == [op |-> "bearer", bearer |-> b]
  <2>1. e \in Closures /\ e.op = "bearer"
    BY DEF Closures
  <2>2. queue' = Append(queue, e) /\ UNCHANGED <<canceled, issued>>
    BY <1>5 DEF ApplyBearer, Change
  <2> HIDE DEF e
  <2> QED
    BY <1>3, <2>1, <2>2
<1>6. ASSUME NEW l \in Locales, ApplySettings(l)
      PROVE  Issued' /\ OnePlace' /\ QueueOK' /\ BatchOK' /\ NoLostCall'
  <2> DEFINE e == [op |-> "locale", locale |-> l]
  <2>1. e \in Closures /\ e.op = "locale"
    BY DEF Closures
  <2>2. queue' = Append(queue, e) /\ UNCHANGED <<canceled, issued>>
    BY <1>6 DEF ApplySettings, Change
  <2> HIDE DEF e
  <2> QED
    BY <1>3, <2>1, <2>2
<1> QED
  BY <1>2, <1>4, <1>5, <1>6 DEF Gui

\* An issued call that is nowhere else finds its one place on the transport.
LEMMA IssuedPlace ==
  ASSUME ServiceInv, NEW c \in Calls, Issue(c),
         ~Waiting(c), c \notin hits, c \notin batch, answers[c] = 0,
         issued' = issued \cup {c}, UNCHANGED <<canceled, phase, batch, answers>>,
         QueueOK', \A d \in Calls : Queued(d)' <=> Queued(d) /\ d # c
  PROVE  Issued' /\ OnePlace' /\ QueueOK' /\ BatchOK' /\ NoLostCall'
<1> USE DEF ServiceInv
<1>1. /\ \A d \in Calls \ {c} : WaitsOn(d)' = WaitsOn(d) /\ (d \in hits' <=> d \in hits)
      /\ \/ c \in hits' /\ WaitsOn(c)' = {}
         \/ c \notin hits' /\ \E r : WaitsOn(c)' = {r}
  BY IssuePlace
<1>2. OnePlace'
  <2> SUFFICES ASSUME NEW d \in Calls
               PROVE  /\ Queued(d)' => ~Waiting(d)' /\ d \notin hits' /\ d \notin batch'
                                       /\ answers'[d] = 0
                      /\ Waiting(d)' => d \notin hits' /\ d \notin batch' /\ answers'[d] = 0
                      /\ d \in hits' => d \notin batch' /\ answers'[d] = 0
                      /\ d \in batch' => answers'[d] = 0
                      /\ answers'[d] \in {0, 1}
                      /\ \A r, q \in WaitsOn(d)' : r = q
    BY DEF OnePlace
  <2>1. CASE d = c
    BY <1>1, <2>1 DEF Waiting
  <2>2. CASE d # c
    BY <1>1, <2>2 DEF OnePlace, Waiting
  <2> QED
    BY <2>1, <2>2
<1>3. Issued'
  BY <1>1 DEF Issued, Waiting
<1>4. BatchOK' /\ NoLostCall'
  BY <1>1 DEF BatchOK, NoLostCall, Live, IndexInv, TypeOK, GuiType
<1> QED
  BY <1>2, <1>3, <1>4

LEMMA RunRequestPlace ==
  ASSUME ServiceInv, RunRequest
  PROVE  Issued' /\ OnePlace' /\ QueueOK' /\ BatchOK' /\ NoLostCall'
<1> USE DEF ServiceInv
<1>1. GuiType /\ Idle /\ queue # <<>> /\ queue' = Tail(queue) /\ Head(queue).op = "request"
      /\ UNCHANGED <<canceled, issued, phase, batch, answers>>
  BY DEF RunRequest, IndexInv, TypeOK, guiVars, handlerVars
<1>2. PICK c \in Calls : Head(queue) = Requested(c)
  BY <1>1, HeadClosure DEF Closures, Requested
<1>3. Issue(c)
  BY <1>2 DEF RunRequest, Requested
<1>4. Queued(c)
  <2>1. 1 \in DOMAIN queue /\ queue[1] = Requested(c)
    BY <1>1, <1>2, EmptySeq, HeadTailProperties, LenProperties DEF GuiType
  <2> QED
    BY <2>1 DEF Queued
<1>5. c \in issued /\ ~Waiting(c) /\ c \notin hits /\ c \notin batch /\ answers[c] = 0
  BY <1>4 DEF Issued, OnePlace
<1>6. QueueOK' /\ \A d \in Calls : Queued(d)' <=> Queued(d) /\ d # c
  <2>1. \A d \in Calls : Requested(c) = Requested(d) <=> c = d
    BY DEF Requested
  <2> QED
    BY <1>1, <1>2, <2>1, TailQueue
<1> QED
  BY <1>1, <1>3, <1>5, <1>6, IssuedPlace

\* A continuation's next request goes straight to the transport.
LEMMA FollowUpPlace ==
  ASSUME ServiceInv, NEW c \in Calls, FollowUp(c)
  PROVE  Issued' /\ OnePlace' /\ QueueOK' /\ BatchOK' /\ NoLostCall'
<1> USE DEF ServiceInv
<1>1. c \notin issued /\ issued' = issued \cup {c} /\ Issue(c)
      /\ UNCHANGED <<canceled, queue, phase, batch, answers>>
  BY DEF FollowUp, handlerVars
<1>2. ~Queued(c) /\ ~Waiting(c) /\ c \notin hits /\ c \notin batch /\ answers[c] = 0
  BY <1>1 DEF Issued
<1>3. QueueOK' /\ \A d \in Calls : Queued(d)' <=> Queued(d) /\ d # c
  BY <1>1, <1>2 DEF QueueOK, Queued, Requested
<1> QED
  BY <1>1, <1>2, <1>3, IssuedPlace

\* abort(job) takes waiters and cache hits away, all of them of a canceled job.
LEMMA RunAbortPlace ==
  ASSUME ServiceInv, RunAbort
  PROVE  Issued' /\ OnePlace' /\ QueueOK' /\ BatchOK' /\ NoLostCall'
<1> USE DEF ServiceInv
<1> DEFINE mine == {c \in Calls : JobOf[c] = Head(queue).job}
           left == [r \in DOMAIN pending |-> [pending[r] EXCEPT !.waiters = @ \ mine]]
           dead == Orphans(left)
<1>1. GuiType /\ Idle /\ queue # <<>> /\ queue' = Tail(queue) /\ Head(queue).op = "abort"
      /\ UNCHANGED <<canceled, issued, phase, batch, answers>>
  BY DEF RunAbort, IndexInv, TypeOK, guiVars, handlerVars
<1>2. pending' = Without(left, dead) /\ hits' = hits \ mine
  BY DEF RunAbort, DropHits
<1>3. \A c \in mine : ~Live(c)
  <2>1. 1 \in DOMAIN queue /\ queue[1] = Head(queue)
    BY <1>1, EmptySeq, HeadTailProperties, LenProperties DEF GuiType
  <2> QED
    BY <1>1, <2>1 DEF QueueOK, Live
<1>4. /\ DOMAIN left = DOMAIN pending
      /\ \A r \in DOMAIN pending : left[r].waiters = pending[r].waiters \ mine
  <2>1. \A r \in DOMAIN pending : pending[r] \in Pendings
    BY DEF IndexInv, TypeOK, NetType
  <2> QED
    BY <2>1 DEF Pendings
<1> HIDE DEF left, mine
<1>5. \A c \in Calls \ mine : WaitsOn(c)' = WaitsOn(c)
  BY <1>2, <1>4 DEF WaitsOn, Without, Orphans
<1>6. \A c \in Calls : WaitsOn(c)' \subseteq WaitsOn(c)
  BY <1>2, <1>4 DEF WaitsOn, Without, Orphans
<1>7. QueueOK' /\ \A c \in Calls : Queued(c)' <=> Queued(c)
  <2>1. \A c \in Calls : Head(queue) # Requested(c)
    BY <1>1 DEF Requested
  <2> QED
    BY <1>1, <2>1, TailQueue
<1>8. OnePlace' /\ Issued' /\ BatchOK'
  BY <1>1, <1>2, <1>6, <1>7 DEF OnePlace, Issued, BatchOK, Waiting
<1>9. NoLostCall'
  BY <1>1, <1>2, <1>3, <1>5, <1>7 DEF NoLostCall, Live, GuiType
<1> QED
  BY <1>7, <1>8, <1>9

\* onFinished() moves the reply's waiters into its delivery batch.
LEMMA FinishPlace ==
  ASSUME ServiceInv, NEW r \in DOMAIN pending, NEW ok \in BOOLEAN, NEW v \in BOOLEAN,
         phase = "idle", Finish(r, ok, v), UNCHANGED <<guiVars, queue, hits, answers>>
  PROVE  Issued' /\ OnePlace' /\ QueueOK' /\ BatchOK' /\ NoLostCall'
<1> USE DEF ServiceInv
<1>1. pending' = Without(pending, {r}) /\ batch' = pending[r].waiters /\ phase' = "finishing"
  BY DEF Finish, Reap
<1>2. batch = {}
  BY DEF BatchOK
<1>3. \A c \in Calls : /\ c \in batch' <=> r \in WaitsOn(c)
                       /\ WaitsOn(c)' = WaitsOn(c) \ {r}
  BY <1>1 DEF WaitsOn, Without
<1>4. QueueOK' /\ BatchOK' /\ (\A c \in Calls : Queued(c)' <=> Queued(c))
      /\ UNCHANGED <<canceled, issued>>
  BY <1>1 DEF QueueOK, BatchOK, Queued, Requested, guiVars
<1>5. OnePlace'
  BY <1>3, <1>4 DEF OnePlace, Waiting
<1>6. Issued'
  BY <1>3, <1>4 DEF Issued, Waiting
<1>7. NoLostCall'
  BY <1>2, <1>3, <1>4 DEF NoLostCall, Live, IndexInv, TypeOK, GuiType
<1> QED
  BY <1>4, <1>5, <1>6, <1>7

\* The sweep marks replies and wakes nobody.
LEMMA DeadlinePlace ==
  ASSUME ServiceInv, OnDeadline
  PROVE  Issued' /\ OnePlace' /\ QueueOK' /\ BatchOK' /\ NoLostCall'
<1>1. UNCHANGED <<canceled, issued, queue, hits, phase, batch, answers>>
  BY DEF OnDeadline, guiVars, hitVars
<1>2. /\ DOMAIN pending' = DOMAIN pending
      /\ \A r \in DOMAIN pending : pending'[r].waiters = pending[r].waiters
  <2>1. \A r \in DOMAIN pending : pending[r] \in Pendings
    BY DEF ServiceInv, IndexInv, TypeOK, NetType
  <2> QED
    BY <2>1 DEF OnDeadline, Pendings
<1>3. \A c \in Calls : WaitsOn(c)' = WaitsOn(c)
  BY <1>2 DEF WaitsOn
<1>4. QueueOK' /\ \A c \in Calls : Queued(c)' <=> Queued(c)
  BY <1>1 DEF ServiceInv, QueueOK, Queued, Requested
<1> QED
  BY <1>1, <1>3, <1>4, StillPlace

\* The delayed cache hits become the batch of one delivery loop.
LEMMA DeliverCachedPlace ==
  ASSUME ServiceInv, OnDeliverCached
  PROVE  Issued' /\ OnePlace' /\ QueueOK' /\ BatchOK' /\ NoLostCall'
<1> USE DEF ServiceInv
<1>1. /\ batch' = hits /\ hits' = {} /\ phase' = "draining" /\ phase = "idle"
      /\ UNCHANGED <<canceled, issued, queue, pending, answers>>
  BY DEF OnDeliverCached, TakeHits, Idle, guiVars, netVars
<1>2. batch = {}
  BY <1>1 DEF BatchOK
<1>3. QueueOK' /\ BatchOK'
      /\ \A c \in Calls : (Queued(c)' <=> Queued(c)) /\ WaitsOn(c)' = WaitsOn(c)
  BY <1>1 DEF QueueOK, BatchOK, Queued, Requested, WaitsOn
<1>4. OnePlace' /\ Issued'
  BY <1>1, <1>3 DEF OnePlace, Issued, Waiting
<1>5. NoLostCall'
  BY <1>1, <1>2, <1>3 DEF NoLostCall, Live, IndexInv, TypeOK, GuiType
<1> QED
  BY <1>3, <1>4, <1>5

\* One turn of a delivery loop answers the call, or drops it if its job was
\* canceled.
LEMMA DeliverPlace ==
  ASSUME ServiceInv, NEW c \in batch, Deliver(c)
  PROVE  /\ Issued' /\ OnePlace' /\ QueueOK' /\ BatchOK' /\ NoLostCall'
         /\ c \in issued /\ answers[c] = 0
<1> USE DEF ServiceInv
<1>1. /\ batch' = batch \ {c} /\ phase # "idle"
      /\ answers' = IF Live(c) THEN [answers EXCEPT ![c] = @ + 1] ELSE answers
      /\ UNCHANGED <<canceled, issued, queue, pending, hits, phase>>
  BY DEF Deliver, guiVars, netVars, hitVars
<1>2. c \in Calls /\ answers \in [Calls -> Nat]
  BY DEF IndexInv, TypeOK, HandlerType
<1>3. c \in issued /\ answers[c] = 0 /\ ~Queued(c) /\ ~Waiting(c) /\ c \notin hits
  BY <1>2 DEF Issued, OnePlace
<1>4. QueueOK' /\ BatchOK'
      /\ \A d \in Calls : (Queued(d)' <=> Queued(d)) /\ WaitsOn(d)' = WaitsOn(d)
  BY <1>1 DEF QueueOK, BatchOK, Queued, Requested, WaitsOn
<1>5. /\ \A d \in Calls \ {c} : answers'[d] = answers[d]
      /\ answers'[c] = IF Live(c) THEN 1 ELSE 0
  BY <1>1, <1>2, <1>3
<1>6. OnePlace' /\ Issued'
  BY <1>1, <1>3, <1>4, <1>5 DEF OnePlace, Issued, Waiting
<1>7. NoLostCall'
  BY <1>1, <1>4, <1>5 DEF NoLostCall, Live, IndexInv, TypeOK, GuiType
<1> QED
  BY <1>3, <1>4, <1>6, <1>7

LEMMA ServiceStep == ServiceInv /\ [Next]_vars => ServiceInv'
<1> SUFFICES ASSUME ServiceInv, [Next]_vars
             PROVE  Issued' /\ OnePlace' /\ QueueOK' /\ BatchOK' /\ NoLostCall'
  BY IndexStep DEF ServiceInv
<1>1. CASE Gui
  BY <1>1, GuiPlace
<1>2. CASE RunRequest
  BY <1>2, RunRequestPlace
<1>3. CASE RunAbort
  BY <1>3, RunAbortPlace
<1>4. CASE RunBearer \/ RunSettings
  <2>1. /\ queue # <<>> /\ queue' = Tail(queue) /\ Head(queue).op # "request"
        /\ UNCHANGED <<canceled, issued, pending, hits, phase, batch, answers>>
    BY <1>4 DEF RunBearer, RunSettings, guiVars, netVars, hitVars, handlerVars
  <2>2. \A c \in Calls : WaitsOn(c)' = WaitsOn(c) /\ Head(queue) # Requested(c)
    BY <2>1 DEF WaitsOn, Requested
  <2>3. QueueOK' /\ \A c \in Calls : Queued(c)' <=> Queued(c)
    BY <2>1, <2>2, TailQueue DEF ServiceInv, IndexInv, TypeOK
  <2> QED
    BY <2>1, <2>2, <2>3, StillPlace
<1>5. ASSUME NEW r \in DOMAIN pending, NEW ok \in BOOLEAN, NEW v \in BOOLEAN,
             Answer(r, ok, v)
      PROVE  Issued' /\ OnePlace' /\ QueueOK' /\ BatchOK' /\ NoLostCall'
  BY <1>5, FinishPlace DEF Answer, Idle, hitVars
<1>6. CASE OnDeadline
  BY <1>6, DeadlinePlace
<1>7. ASSUME NEW r \in expired, AbortExpired(r)
      PROVE  Issued' /\ OnePlace' /\ QueueOK' /\ BatchOK' /\ NoLostCall'
  <2>1. r \in DOMAIN pending
    BY DEF ServiceInv, IndexInv, TypeOK, NetType
  <2> QED
    BY <1>7, <2>1, FinishPlace DEF AbortExpired, hitVars
<1>8. CASE OnDeliverCached
  BY <1>8, DeliverCachedPlace
<1>9. ASSUME NEW c \in batch, Deliver(c)
      PROVE  Issued' /\ OnePlace' /\ QueueOK' /\ BatchOK' /\ NoLostCall'
  BY <1>9, DeliverPlace
<1>10. ASSUME NEW c \in Calls, FollowUp(c)
       PROVE  Issued' /\ OnePlace' /\ QueueOK' /\ BatchOK' /\ NoLostCall'
  BY <1>10, FollowUpPlace
<1>11. CASE EndHandler
  <2>1. /\ batch = {} /\ phase' = "idle"
        /\ UNCHANGED <<canceled, issued, queue, pending, hits, batch, answers>>
    BY <1>11 DEF EndHandler, guiVars, hitVars
  <2>2. QueueOK' /\ BatchOK' /\ Issued' /\ OnePlace' /\ NoLostCall'
    BY <2>1 DEF ServiceInv, QueueOK, BatchOK, Issued, OnePlace, NoLostCall, Queued,
                Requested, Waiting, WaitsOn, Live
  <2> QED
    BY <2>2
<1>12. CASE Return \/ DeadlinePasses \/ (\E k \in DOMAIN cache : Expire(k)) \/ UNCHANGED vars
  <2>1. UNCHANGED <<canceled, issued, hits, phase, batch, answers, queue>>
        /\ UNCHANGED pending
    BY <1>12 DEF Return, DeadlinePasses, Expire, vars, guiVars, netVars, hitVars,
                 handlerVars
  <2>2. QueueOK' /\ \A c \in Calls : (Queued(c)' <=> Queued(c)) /\ WaitsOn(c)' = WaitsOn(c)
    BY <2>1 DEF ServiceInv, QueueOK, Queued, Requested, WaitsOn
  <2> QED
    BY <2>1, <2>2, StillPlace
<1> QED
  BY <1>1, <1>2, <1>3, <1>4, <1>5, <1>6, <1>7, <1>8, <1>9, <1>10, <1>11, <1>12
     DEF Next, RunClosure, Handler

\* The other half of "exactly once": whatever completions, timeouts, aborts of
\* other jobs and session changes come between, the request of a live job stays
\* queued, in flight or due for delivery until its continuation has run (http.h).
THEOREM NothingLost == Spec => []NoLostCall
<1>1. ServiceInv => NoLostCall
  BY DEF ServiceInv
<1> QED
  BY ServiceInit, ServiceStep, <1>1, PTL DEF Spec

-----------------------------------------------------------------------------
(* The refinement                                                          *)

\* Every step of the transport is a request, a cancel, an answer, or nothing
\* its callers can see.
LEMMA ServiceSimulation == ServiceInv /\ [Next]_vars => [Service!Next]_(Service!svars)
<1> SUFFICES ASSUME ServiceInv, [Next]_vars PROVE [Service!Next]_(Service!svars)
  OBVIOUS
<1> USE DEF Service!Next, Service!svars
<1>1. ASSUME NEW c \in Calls, Submit(c) \/ FollowUp(c)
      PROVE  Service!Request(c)
  BY <1>1 DEF Submit, FollowUp, Service!Request, handlerVars
<1>2. ASSUME NEW j \in Jobs, Cancel(j)
      PROVE  Service!Cancel(j)
  BY <1>2 DEF Cancel, Service!Cancel, handlerVars
<1>3. ASSUME NEW c \in batch, Deliver(c)
      PROVE  [Service!Next]_(Service!svars)
  <2>1. c \in Calls /\ c \in issued /\ answers[c] = 0
    BY <1>3, DeliverPlace DEF ServiceInv, IndexInv, TypeOK, HandlerType
  <2>2. CASE Live(c)
    <3>1. Service!Answer(c)
      BY <1>3, <2>1, <2>2 DEF Deliver, Live, Service!Answer, guiVars
    <3> QED
      BY <2>1, <3>1
  <2>3. CASE ~Live(c)
    BY <1>3, <2>3 DEF Deliver, guiVars
  <2> QED
    BY <2>2, <2>3
<1>4. CASE UNCHANGED <<issued, canceled, answers>>
  BY <1>4
<1>5. ASSUME NEW r, NEW ok, NEW v, Answer(r, ok, v) \/ AbortExpired(r)
      PROVE  UNCHANGED <<issued, canceled, answers>>
  BY <1>5 DEF Answer, AbortExpired, guiVars
<1>6. (\E b \in Bearers \cup {NoBearer} : ApplyBearer(b)) \/ (\E l \in Locales : ApplySettings(l))
        \/ RunClosure \/ OnDeadline \/ OnDeliverCached \/ Return \/ EndHandler
        \/ DeadlinePasses \/ (\E k \in DOMAIN cache : Expire(k)) \/ UNCHANGED vars
      => UNCHANGED <<issued, canceled, answers>>
  BY DEF ApplyBearer, ApplySettings, Change, RunClosure, RunRequest, RunAbort, RunBearer,
         RunSettings, OnDeadline, OnDeliverCached, Return, EndHandler, DeadlinePasses,
         Expire, vars, guiVars, handlerVars
<1> QED
  BY <1>1, <1>2, <1>3, <1>4, <1>5, <1>6 DEF Next, Gui, Handler

\* core::Http keeps the promise of RequestService, coalescing, cache, timeouts
\* and cancellation included: at most one answer, to a call that was made, of a
\* job that is not canceled.
THEOREM ImplementsService == Spec => ServiceSpec
<1>1. Init => Service!Init
  BY DEF Init, Service!Init
<1> QED
  BY <1>1, ServiceInit, ServiceStep, ServiceSimulation, PTL DEF Spec, ServiceSpec, Service!Spec

=============================================================================
