----------------------------- MODULE Transport -----------------------------
(***************************************************************************)
(* core::Http (core/core/http.cpp), the one transport every facade of the  *)
(* client goes through, with the GUI thread that feeds it closures through *)
(* WorkerHost and the network that answers it.                             *)
(*                                                                         *)
(* The transport runs on one worker thread.  A handler (a posted closure,  *)
(* the manager's finished() signal, a timer) runs to completion, but it    *)
(* calls continuations, and a continuation may post a follow-up request    *)
(* from inside the handler while the GUI thread cancels jobs.  So a        *)
(* handler that delivers is a sequence of steps guarded by `phase', and    *)
(* only the GUI thread interleaves with them.                              *)
(*                                                                         *)
(* A Call is one post()/get()/postForm() and its continuation (a Waiter).  *)
(***************************************************************************)
EXTENDS Naturals, Sequences, FiniteSets

CONSTANTS
  Calls,          \* waiters: one continuation each
  Jobs,           \* core::JobToken
  Requests,       \* request contents: endpoint and body
  Clients,        \* ClientId
  JobOf,          \* the job of each call
  RequestOf,      \* what each call asks
  ClientOf,       \* the client that carries a request
  KindOf,         \* "cached" (TTL > 0), "uncached" (TTL 0), "get", "form"
  OmitVisitor,    \* clients whose context carries no visitorData
  BearerClients,  \* clients whose headers carry the bearer
  Bearers,        \* OAuth bearers
  NoBearer,       \* the empty bearer: anonymous
  Locales,        \* values of Session::gl / hl
  MaxCache,       \* kMaxCacheEntries
  MaxChanges,     \* bound: session changes made by the GUI
  NoCall,         \* no continuation is running
  NoKey           \* the empty cacheKey of a Pending

Kinds == {"cached", "uncached", "get", "form"}

ASSUME CallsAssumption ==
  /\ JobOf \in [Calls -> Jobs]
  /\ RequestOf \in [Calls -> Requests]

ASSUME RequestsAssumption ==
  /\ ClientOf \in [Requests -> Clients]
  /\ KindOf \in [Requests -> Kinds]

ASSUME BoundsAssumption ==
  /\ IsFiniteSet(Calls)
  /\ MaxCache \in Nat \ {0}
  /\ MaxChanges \in Nat

VARIABLES
  \* GUI thread
  canceled,     \* jobs whose token is canceled
  issued,       \* calls whose request was queued or posted
  changes,      \* session changes made so far
  queue,        \* closures posted to the worker (WorkerHost::invoke)
  \* transport
  session,      \* m_session
  ctxCache,     \* m_ctxCache + m_ctxValid: contexts by client, valid ones only
  hdrCache,     \* m_hdrCache + m_hdrValid
  pending,      \* m_pending: by reply, replies numbered in the order of issue
  inflight,     \* m_inflightByKey
  cache,        \* m_cache
  cacheOrder,   \* m_cacheOrder
  hits,         \* m_cachedDeliveries
  zeroTimers,   \* singleShot(0) timers armed for onDeliverCached
  timer,        \* m_deadlineTimer: the reply it is armed for, 0 = stopped
  lastReply,    \* the replies created so far are 1..lastReply
  clock,        \* deadlines of the replies 1..clock have passed
  \* the handler the worker is in
  phase,        \* "idle", "finishing" (onFinished), "draining" (onDeliverCached)
  expired,      \* onDeadline: replies still to be aborted
  batch,        \* waiters the handler has still to look at
  callback,     \* the call whose continuation is running
  answers       \* how often each continuation was run

guiVars == <<canceled, issued, changes>>
memoVars == <<ctxCache, hdrCache>>
cacheVars == <<cache, cacheOrder>>
netVars == <<pending, inflight, timer, lastReply, clock>>
hitVars == <<hits, zeroTimers>>
handlerVars == <<phase, expired, batch, callback, answers>>
vars == <<guiVars, queue, session, memoVars, netVars, cacheVars, hitVars,
          handlerVars>>

-----------------------------------------------------------------------------
(* Data *)

Sessions == [bearer : Bearers \cup {NoBearer}, locale : Locales, visitor : BOOLEAN]
Contexts == [locale : Locales, visitor : BOOLEAN]
Headers == [bearer : Bearers \cup {NoBearer}, visitor : BOOLEAN]

\* The memoized context and headers describe the session they are built from.
ContextOf(client, s) ==
  [locale |-> s.locale, visitor |-> s.visitor /\ client \notin OmitVisitor]
HeadersOf(client, s) ==
  [bearer  |-> IF client \in BearerClients THEN s.bearer ELSE NoBearer,
   visitor |-> s.visitor /\ client \notin OmitVisitor]

\* md5(endpoint | client | payload), the payload including the context.
Keys == [request : Requests, context : Contexts]
KeyOf(c, context) == [request |-> RequestOf[c], context |-> context]

ASSUME NothingAssumption == NoCall \notin Calls /\ NoKey \notin Keys

Pendings == [waiters : SUBSET Calls, cacheKey : Keys \cup {NoKey},
             headers : Headers, timedOut : BOOLEAN, wantVisitor : BOOLEAN]
Entries == [headers : Headers, fresh : BOOLEAN]
Closures == [op : {"request"}, call : Calls] \cup [op : {"abort"}, job : Jobs]
            \cup [op : {"bearer"}, bearer : Bearers \cup {NoBearer}]
            \cup [op : {"locale"}, locale : Locales]

Without(f, S) == [x \in DOMAIN f \ S |-> f[x]]
With(f, x, v) == [y \in DOMAIN f \cup {x} |-> IF y = x THEN v ELSE f[y]]
Empty == [x \in {} |-> x]

\* armDeadline(): the nearest deadline; all requests wait equally long.
Nearest(replies) ==
  IF replies = {} THEN 0 ELSE CHOOSE r \in replies : \A q \in replies : r <= q

Live(c) == JobOf[c] \notin canceled
Idle == phase = "idle" /\ expired = {}
Running == callback # NoCall

-----------------------------------------------------------------------------
Init ==
  /\ canceled = {} /\ issued = {} /\ changes = 0 /\ queue = <<>>
  /\ session \in Sessions /\ session.bearer = NoBearer
  /\ ctxCache = Empty /\ hdrCache = Empty
  /\ pending = Empty /\ inflight = Empty
  /\ cache = Empty /\ cacheOrder = <<>>
  /\ hits = {} /\ zeroTimers = 0
  /\ timer = 0 /\ lastReply = 0 /\ clock = 0
  /\ phase = "idle" /\ expired = {} /\ batch = {} /\ callback = NoCall
  /\ answers = [c \in Calls |-> 0]

-----------------------------------------------------------------------------
(* GUI thread *)

\* A facade starts an operation: host->invoke([..]() { http->post(..) }).
Submit(c) ==
  /\ c \notin issued /\ Live(c)
  /\ issued' = issued \cup {c}
  /\ queue' = Append(queue, [op |-> "request", call |-> c])
  /\ UNCHANGED <<canceled, changes, session, memoVars, netVars, cacheVars,
                 hitVars, handlerVars>>

\* A facade's cancel(): the flag first, then the early reap on the worker.
Cancel(j) ==
  /\ j \notin canceled
  /\ canceled' = canceled \cup {j}
  /\ queue' = Append(queue, [op |-> "abort", job |-> j])
  /\ UNCHANGED <<issued, changes, session, memoVars, netVars, cacheVars,
                 hitVars, handlerVars>>

Change(closure) ==
  /\ changes < MaxChanges
  /\ changes' = changes + 1
  /\ queue' = Append(queue, closure)
  /\ UNCHANGED <<canceled, issued, session, memoVars, netVars, cacheVars,
                 hitVars, handlerVars>>

ApplyBearer(b) == Change([op |-> "bearer", bearer |-> b])
ApplySettings(l) == Change([op |-> "locale", locale |-> l])

-----------------------------------------------------------------------------
(* Transport: issuing a request (from a closure or from a continuation) *)

\* A new reply: the Pending is registered and the deadline timer re-armed.
Register(c, cacheKey, headers, wantVisitor) ==
  LET reply == lastReply + 1
  IN /\ lastReply' = reply
     /\ pending' = With(pending, reply,
                        [waiters |-> {c}, cacheKey |-> cacheKey,
                         headers |-> headers, timedOut |-> FALSE,
                         wantVisitor |-> wantVisitor])
     /\ timer' = Nearest(DOMAIN pending')
     /\ UNCHANGED clock

\* The three outcomes of post(), in the order the code tries them.
Coalesce(c, key) ==
  /\ key \in DOMAIN inflight
  /\ pending' = [pending EXCEPT ![inflight[key]].waiters = @ \cup {c}]
  /\ UNCHANGED <<inflight, timer, lastReply, clock, hdrCache, hitVars>>

Hit(key) ==
  /\ KindOf[key.request] = "cached"
  /\ key \in DOMAIN cache
  /\ cache[key].fresh

CacheHit(c, key) ==
  /\ key \notin DOMAIN inflight
  /\ Hit(key)
  /\ hits' = hits \cup {c}
  /\ zeroTimers' = zeroTimers + 1
  /\ UNCHANGED <<netVars, hdrCache>>

Miss(c, key) ==
  LET client == ClientOf[RequestOf[c]]
  IN /\ key \notin DOMAIN inflight
     /\ ~Hit(key)
     /\ hdrCache' = IF client \in DOMAIN hdrCache THEN hdrCache
                    ELSE With(hdrCache, client, HeadersOf(client, session))
     /\ Register(c, IF KindOf[RequestOf[c]] = "cached" THEN key ELSE NoKey,
                 hdrCache'[client], ~session.visitor)
     /\ inflight' = With(inflight, key, lastReply')
     /\ UNCHANGED hitVars

Post(c) ==
  LET client == ClientOf[RequestOf[c]]
  IN /\ KindOf[RequestOf[c]] \in {"cached", "uncached"}
     /\ ctxCache' = IF client \in DOMAIN ctxCache THEN ctxCache
                    ELSE With(ctxCache, client, ContextOf(client, session))
     /\ LET key == KeyOf(c, ctxCache'[client])
        IN Coalesce(c, key) \/ CacheHit(c, key) \/ Miss(c, key)

\* get() and postForm(): never coalesced, never cached.
Get(c) ==
  /\ KindOf[RequestOf[c]] = "get"
  /\ Register(c, NoKey, [bearer |-> NoBearer, visitor |-> FALSE], ~session.visitor)
  /\ UNCHANGED <<inflight, memoVars, hitVars>>

PostForm(c) ==
  /\ KindOf[RequestOf[c]] = "form"
  /\ Register(c, NoKey, [bearer |-> NoBearer, visitor |-> FALSE], FALSE)
  /\ UNCHANGED <<inflight, memoVars, hitVars>>

Issue(c) == Post(c) \/ Get(c) \/ PostForm(c)

-----------------------------------------------------------------------------
(* Transport: closures *)

RunRequest ==
  /\ Idle /\ queue # <<>> /\ Head(queue).op = "request"
  /\ queue' = Tail(queue)
  /\ Issue(Head(queue).call)
  /\ UNCHANGED <<guiVars, session, cacheVars, handlerVars>>

\* The replies abort(job) reaps: those it leaves without a waiter.
Orphans_AnyOfTheJob(left) == {r \in DOMAIN left : left[r].waiters # pending[r].waiters}
Orphans(left) == {r \in DOMAIN left : left[r].waiters = {}}

DropHits(mine) == hits' = hits \ mine

\* abort(job): its waiters go, and so does every reply left without a waiter.
\* Aborting a reply runs onFinished at once, which delivers to nobody.
RunAbort ==
  /\ Idle /\ queue # <<>> /\ Head(queue).op = "abort"
  /\ LET mine == {c \in Calls : JobOf[c] = Head(queue).job}
         left == [r \in DOMAIN pending |->
                    [pending[r] EXCEPT !.waiters = @ \ mine]]
         dead == Orphans(left)
     IN /\ pending' = Without(left, dead)
        /\ inflight' = Without(inflight,
                               {k \in DOMAIN inflight : inflight[k] \in dead})
        /\ timer' = IF dead = {} THEN timer ELSE Nearest(DOMAIN pending')
        /\ DropHits(mine)
  /\ queue' = Tail(queue)
  /\ UNCHANGED <<guiVars, session, memoVars, lastReply, clock, cacheVars,
                 zeroTimers, handlerVars>>

ClearCache_KeepMemos ==
  cache' = Empty /\ cacheOrder' = <<>> /\ UNCHANGED memoVars

\* clearCache(): the response cache and the memos; requests in flight stay.
ClearCache ==
  /\ cache' = Empty /\ cacheOrder' = <<>>
  /\ ctxCache' = Empty /\ hdrCache' = Empty

RunBearer ==
  /\ Idle /\ queue # <<>> /\ Head(queue).op = "bearer"
  /\ session' = [session EXCEPT !.bearer = Head(queue).bearer]
  /\ ClearCache
  /\ queue' = Tail(queue)
  /\ UNCHANGED <<guiVars, netVars, hitVars, handlerVars>>

RunSettings ==
  /\ Idle /\ queue # <<>> /\ Head(queue).op = "locale"
  /\ session' = [session EXCEPT !.locale = Head(queue).locale]
  /\ ClearCache
  /\ queue' = Tail(queue)
  /\ UNCHANGED <<guiVars, netVars, hitVars, handlerVars>>

-----------------------------------------------------------------------------
(* Transport: completion *)

\* The keys the FIFO bound pushes out.
Evict(order) == IF Len(order) > MaxCache THEN {Head(order)} ELSE {}

\* A successful cacheable reply is stored, oldest key evicted first.
Store(p) ==
  LET order == IF p.cacheKey \in DOMAIN cache THEN cacheOrder
               ELSE Append(cacheOrder, p.cacheKey)
      entry == [headers |-> p.headers, fresh |-> TRUE]
  IN /\ cache' = Without(With(cache, p.cacheKey, entry), Evict(order))
     /\ cacheOrder' = IF Evict(order) = {} THEN order ELSE Tail(order)

IndexEntries_CacheableOnly(r, p) == IF p.cacheKey # NoKey THEN {p.cacheKey} ELSE {}

IndexEntries_AnyContext(r, p) ==
  IF p.cacheKey # NoKey
  THEN {k \in DOMAIN inflight : k.request = p.cacheKey.request}
  ELSE {k \in DOMAIN inflight : inflight[k] = r}

\* The coalescing index entries a finished reply takes with it.
IndexEntries(r, p) ==
  IF p.cacheKey # NoKey THEN {p.cacheKey}
  ELSE {k \in DOMAIN inflight : inflight[k] = r}

Reap_KeepTimedOut(r) ==
  pending' = IF pending[r].timedOut THEN pending ELSE Without(pending, {r})
Reap(r) == pending' = Without(pending, {r})

\* onFinished() up to the delivery loop.  An error (an aborted or timed-out
\* reply included) is never stored and carries no visitorData.
Finish(r, ok, carriesVisitor) ==
  LET p == pending[r]
      adopt == ok /\ ~session.visitor /\ p.wantVisitor /\ carriesVisitor
  IN /\ Reap(r)
     /\ inflight' = Without(inflight, IndexEntries(r, p))
     /\ IF ok /\ p.cacheKey # NoKey THEN Store(p) ELSE UNCHANGED cacheVars
     /\ session' = [session EXCEPT !.visitor = @ \/ adopt]
     /\ ctxCache' = IF adopt THEN Empty ELSE ctxCache
     /\ hdrCache' = IF adopt THEN Empty ELSE hdrCache
     /\ batch' = p.waiters
     /\ phase' = "finishing"

\* The network answered a reply.
Answer(r, ok, carriesVisitor) ==
  /\ Idle /\ r \in DOMAIN pending
  /\ Finish(r, ok, carriesVisitor)
  /\ UNCHANGED <<guiVars, queue, timer, lastReply, clock, hitVars, expired,
                 callback, answers>>

\* onDeadline(): mark what is overdue, then abort it one reply at a time.
OnDeadline ==
  /\ Idle /\ timer # 0 /\ timer <= clock
  /\ LET overdue == {r \in DOMAIN pending : r <= clock /\ ~pending[r].timedOut}
     IN /\ pending' = [r \in DOMAIN pending |->
                         [pending[r] EXCEPT !.timedOut = @ \/ r \in overdue]]
        /\ expired' = overdue
        /\ timer' = IF overdue = {} THEN Nearest(DOMAIN pending) ELSE 0
  /\ UNCHANGED <<guiVars, queue, session, memoVars, inflight, lastReply, clock,
                 cacheVars, hitVars, phase, batch, callback, answers>>

AbortExpired(r) ==
  /\ phase = "idle" /\ r \in expired
  /\ expired' = expired \ {r}
  /\ Finish(r, FALSE, FALSE)
  /\ UNCHANGED <<guiVars, queue, timer, lastReply, clock, hitVars, callback,
                 answers>>

TakeHits == batch' = hits /\ hits' = {}

\* onDeliverCached(): the batch of cache hits is taken in one go.
OnDeliverCached ==
  /\ Idle /\ zeroTimers > 0
  /\ zeroTimers' = zeroTimers - 1
  /\ TakeHits
  /\ phase' = "draining"
  /\ UNCHANGED <<guiVars, queue, session, memoVars, netVars, cacheVars,
                 expired, callback, answers>>

\* One turn of the delivery loop: live(job) is read, then the continuation runs.
Deliver(c) ==
  /\ phase # "idle" /\ ~Running /\ c \in batch
  /\ batch' = batch \ {c}
  /\ IF Live(c)
     THEN /\ callback' = c
          /\ answers' = [answers EXCEPT ![c] = @ + 1]
     ELSE UNCHANGED <<callback, answers>>
  /\ UNCHANGED <<guiVars, queue, session, memoVars, netVars, cacheVars,
                 hitVars, phase, expired>>

\* The running continuation posts the next request of its chain.
FollowUp(c) ==
  /\ Running /\ c \notin issued /\ JobOf[c] = JobOf[callback]
  /\ issued' = issued \cup {c}
  /\ Issue(c)
  /\ UNCHANGED <<canceled, changes, queue, session, cacheVars, handlerVars>>

Return ==
  /\ Running
  /\ callback' = NoCall
  /\ UNCHANGED <<guiVars, queue, session, memoVars, netVars, cacheVars,
                 hitVars, phase, expired, batch, answers>>

Rearm_Never == timer' = timer
Rearm == timer' = IF phase = "finishing" THEN Nearest(DOMAIN pending) ELSE timer

\* The loop is over; onFinished ends by re-arming the deadline timer.
EndHandler ==
  /\ phase # "idle" /\ ~Running /\ batch = {}
  /\ phase' = "idle"
  /\ Rearm
  /\ UNCHANGED <<guiVars, queue, session, memoVars, pending, inflight,
                 lastReply, clock, cacheVars, hitVars, expired, batch,
                 callback, answers>>

-----------------------------------------------------------------------------
(* Time *)

DeadlinePasses ==
  /\ clock < lastReply
  /\ clock' = clock + 1
  /\ UNCHANGED <<guiVars, queue, session, memoVars, pending, inflight, timer,
                 lastReply, cacheVars, hitVars, handlerVars>>

Expire(k) ==
  /\ cache[k].fresh
  /\ cache' = [cache EXCEPT ![k].fresh = FALSE]
  /\ UNCHANGED <<guiVars, queue, session, memoVars, netVars, cacheOrder,
                 hitVars, handlerVars>>

-----------------------------------------------------------------------------
Gui ==
  \/ \E c \in Calls : Submit(c)
  \/ \E j \in Jobs : Cancel(j)
  \/ \E b \in Bearers \cup {NoBearer} : ApplyBearer(b)
  \/ \E l \in Locales : ApplySettings(l)

RunClosure == RunRequest \/ RunAbort \/ RunBearer \/ RunSettings

Handler ==
  \/ \E r \in expired : AbortExpired(r)
  \/ \E c \in batch : Deliver(c)
  \/ Return
  \/ EndHandler

Next ==
  \/ Gui
  \/ RunClosure
  \/ \E r \in DOMAIN pending, ok, carriesVisitor \in BOOLEAN :
       Answer(r, ok, carriesVisitor)
  \/ OnDeadline
  \/ OnDeliverCached
  \/ \E c \in Calls : FollowUp(c)
  \/ Handler
  \/ DeadlinePasses
  \/ \E k \in DOMAIN cache : Expire(k)

Spec == Init /\ [][Next]_vars

\* The worker's event loop runs what is queued or due; time passes.  The
\* network owes nothing: only the deadline makes an unanswered request end.
Fairness ==
  /\ WF_vars(RunClosure)
  /\ WF_vars(OnDeadline)
  /\ WF_vars(OnDeliverCached)
  /\ WF_vars(Handler)
  /\ WF_vars(DeadlinePasses)

FairSpec == Spec /\ Fairness

-----------------------------------------------------------------------------
(* Properties *)

GuiType ==
  /\ canceled \subseteq Jobs /\ issued \subseteq Calls /\ changes \in Nat
  /\ queue \in Seq(Closures)

MemoType ==
  /\ session \in Sessions
  /\ ctxCache \in [DOMAIN ctxCache -> Contexts] /\ DOMAIN ctxCache \subseteq Clients
  /\ hdrCache \in [DOMAIN hdrCache -> Headers] /\ DOMAIN hdrCache \subseteq Clients

NetType ==
  /\ timer \in Nat /\ lastReply \in Nat /\ clock \in Nat
  /\ pending \in [DOMAIN pending -> Pendings] /\ DOMAIN pending \subseteq 1..lastReply
  /\ inflight \in [DOMAIN inflight -> DOMAIN pending] /\ DOMAIN inflight \subseteq Keys
  /\ expired \subseteq DOMAIN pending

CacheType ==
  /\ cache \in [DOMAIN cache -> Entries] /\ DOMAIN cache \subseteq Keys
  /\ cacheOrder \in Seq(Keys)

HandlerType ==
  /\ hits \subseteq Calls /\ zeroTimers \in Nat
  /\ phase \in {"idle", "finishing", "draining"}
  /\ batch \subseteq Calls /\ callback \in Calls \cup {NoCall}
  /\ answers \in [Calls -> Nat]

\* Every variable has its type; the replies the coalescing index and the
\* deadline sweep refer to are in flight.
TypeOK == GuiType /\ MemoType /\ NetType /\ CacheType /\ HandlerType

Requested(c) == [op |-> "request", call |-> c]
Queued(c) == \E i \in DOMAIN queue : queue[i] = Requested(c)
WaitsOn(c) == {r \in DOMAIN pending : c \in pending[r].waiters}

\* "Callbacks are invoked EXACTLY once" (http.h), the safety half: whatever path
\* a request takes (coalesced, cached, timed out, finished), and however these
\* paths race with each other and with abort(), its continuation runs at most
\* once, and never after its job was canceled (RequestService).
Service == INSTANCE RequestService
ServiceSpec == Service!Spec

\* The other half as an invariant: the request of a live job is never dropped
\* by somebody else's abort(), completion or timeout; until its continuation
\* has run, the call is queued, waiting on a reply, or due for delivery.
NoLostCall ==
  \A c \in issued :
    Live(c) => \/ Queued(c) \/ WaitsOn(c) # {} \/ c \in hits
               \/ c \in batch \/ answers[c] = 1

\* m_inflightByKey never leads post() to a reply that is gone (m_pending[..]
\* would invent a Pending nothing completes) or answers another question; every
\* reply still to be cached is found under its key.
InflightOK ==
  /\ \A k \in DOMAIN inflight :
       /\ inflight[k] \in DOMAIN pending
       /\ pending[inflight[k]].cacheKey \in {k, NoKey}
  /\ \A k, l \in DOMAIN inflight : inflight[k] = inflight[l] => k = l
  /\ \A r \in DOMAIN pending :
       LET k == pending[r].cacheKey
       IN k # NoKey => k \in DOMAIN inflight /\ inflight[k] = r

\* No request is built from a session that is no longer current: the memoized
\* contexts and headers are those of the session, however bearer, locale and
\* the captured visitorData change between and during requests.
MemoOK ==
  /\ \A cl \in DOMAIN ctxCache : ctxCache[cl] = ContextOf(cl, session)
  /\ \A cl \in DOMAIN hdrCache : hdrCache[cl] = HeadersOf(cl, session)

\* Between handlers the one shared deadline timer is armed for the nearest
\* deadline, and is stopped exactly when nothing is in flight (armDeadline).
TimerArmed == Idle => timer = Nearest(DOMAIN pending)

\* Every request of a job that is not canceled gets its answer, even from a
\* network that never answers (the watchdog).
EveryCallAnswered ==
  \A c \in Calls : c \in issued ~> (answers[c] = 1 \/ ~Live(c))

(* What two comments of the code say, which the runs refute *)

\* "cached personalized payloads belong to the previous identity - drop them
\* all after seating the new bearer" (innertube.cpp): a payload that was fetched
\* with a bearer is in the response cache only while that bearer is seated.
NoForeignPayload ==
  \A k \in DOMAIN cache : cache[k].headers.bearer \in {NoBearer, session.bearer}

\* "0 = never cache: writes must always hit the network" (http.cpp): running
\* the post of an endpoint without a TTL starts a network request.
WritesHitTheNetwork ==
  [][(RunRequest /\ KindOf[RequestOf[Head(queue).call]] = "uncached")
     => lastReply' = lastReply + 1]_vars

=============================================================================
