------------------------------ MODULE Teardown ------------------------------
(***************************************************************************)
(* The worker thread from Innertube's constructor to the end of main():    *)
(* WorkerHost's hand-off of closures, the transport's network stack        *)
(* (CurlReplies) that they drive, and the order in which main() takes      *)
(* everything down - the media thread, the QML engine, the transport       *)
(* (Innertube::shutdown) and last libcurl itself.                          *)
(*                                                                         *)
(* The worker's event loop is Qt's, external: a turn dispatches what was   *)
(* ready when it began, either the posted closures or one source of the    *)
(* engine; the loop leaves at the end of a turn if exit() was called, or   *)
(* when it is woken from its poll with nothing posted.                     *)
(***************************************************************************)
EXTENDS CurlReplies

CONSTANTS
  Others,      \* the other network stacks: a subset of OtherStacks
  MaxPosts     \* bound: requests and changes the GUI may post

OtherStacks == {"media", "images", "captions"}

ASSUME StacksAssumption == Others \subseteq OtherStacks /\ MaxPosts \in Nat

VARIABLES
  main,        \* where main() is
  host,        \* WorkerHost: "new" | "started" | "stopped"
  queue,       \* closures posted to m_worker
  posts,       \* how many requests and changes the GUI posted (bound)
  jobs,        \* the requests of a job a facade still holds
  loop,        \* the worker's event loop: "none" | "up" | "ended"
  exit,        \* QThread::quit() was called
  busy,        \* the other stacks with a transfer in flight
  misuse       \* a closure used a transport that was already deleted

hostVars == <<host, queue, posts, jobs, loop, exit>>
vars == <<curlVars, main, hostVars, busy, misuse>>

Phases == {"constructing", "exec", "returned", "media joined", "viewer gone",
           "shutting down", "waiting", "joined", "cleaned"}

Closures == [op : {"request", "abort"}, reply : Replies]
            \union {[op |-> "bearer"], [op |-> "delete"]}

HostTypeOK ==
  /\ TypeOK
  /\ main \in Phases
  /\ host \in {"new", "started", "stopped"}
  /\ queue \in Seq(Closures)
  /\ posts \in 0..MaxPosts /\ jobs \subseteq Replies
  /\ loop \in {"none", "up", "ended"}
  /\ exit \in BOOLEAN /\ misuse \in BOOLEAN
  /\ busy \subseteq Others

Init ==
  /\ CurlInit
  /\ main = "constructing"
  /\ host = "new" /\ loop = "none" /\ exit = FALSE
  /\ queue = <<>> /\ posts = 0 /\ jobs = {}
  /\ busy = {} /\ misuse = FALSE

----------------------------------------------------------------------------
\* Innertube's constructor: the transport is moved to the worker's thread and
\* the thread is started; main() goes on to its event loop.
Start == /\ main = "constructing" /\ main' = "exec"
         /\ host' = "started" /\ loop' = "up"
         /\ UNCHANGED <<curlVars, queue, posts, jobs, exit, busy, misuse>>

\* WorkerHost::invoke on a host that was started.
Invoke(cs) == IF host = "stopped" THEN UNCHANGED queue
              ELSE queue' = queue \o cs

\* One closure per reply of R.
Each(op, R) == [i \in 1..Len(SetToSeq(R)) |->
                  [op |-> op, reply |-> SetToSeq(R)[i]]]

\* A facade loads (a page may ask for two things at once, under one job), or a
\* bearer or a setting changes.
Post ==
  /\ main = "exec" /\ posts < MaxPosts
  /\ posts' = posts + 1
  /\ \/ \E R \in SUBSET Replies : /\ R # {}
                                  /\ Invoke(Each("request", R))
                                  /\ jobs' = jobs \union R
     \/ Invoke(<<[op |-> "bearer"]>>) /\ UNCHANGED jobs
  /\ UNCHANGED <<curlVars, main, host, loop, exit, busy, misuse>>

\* A facade gives its job up: another load supersedes it, or the facade dies
\* with its page or, after exec(), with the QML engine.
Cancel ==
  /\ main \in {"exec", "media joined"} /\ jobs # {}
  /\ jobs' = {}
  /\ Invoke(Each("abort", jobs))
  /\ UNCHANGED <<curlVars, main, host, posts, loop, exit, busy, misuse>>

\* main() after exec(): each stage in its turn.
Stage(from, to) == main = from /\ main' = to

\* The user quits, whatever the other stacks are carrying by then.
ExecReturns == /\ Stage("exec", "returned")
               /\ busy' \in SUBSET Others
               /\ UNCHANGED <<curlVars, hostVars, misuse>>

\* StreamPlayer::shutdownMediaThread: the pump's fetches are aborted on their
\* thread, which is then joined.
ShutdownMediaThread == /\ Stage("returned", "media joined")
                       /\ busy' = busy \ {"media"}
                       /\ UNCHANGED <<curlVars, hostVars, misuse>>

\* The viewer's scope ends, and the QML engine's stacks with it.
ViewerGone == /\ Stage("media joined", "viewer gone")
              /\ busy' = busy \ {"images"}
              /\ UNCHANGED <<curlVars, hostVars, misuse>>

\* Mutant of Shutdown: the transport is deleted on the GUI thread, at once.
Shutdown_OnGui == /\ Stage("viewer gone", "shutting down")
                  /\ NamDies
                  /\ UNCHANGED <<stack, hostVars, busy, misuse>>

\* Innertube::shutdown: the deletion of the transport is posted to the worker,
Shutdown == /\ Stage("viewer gone", "shutting down")
            /\ Invoke(<<[op |-> "delete"]>>)
            /\ UNCHANGED <<curlVars, host, posts, jobs, loop, exit, busy, misuse>>

\* Mutant of Quit: the thread is waited for, but not told to quit.
Quit_Forgotten == /\ Stage("shutting down", "waiting")
                  /\ UNCHANGED <<curlVars, hostVars, busy, misuse>>

\* and WorkerHost::stop quits the thread
Quit == /\ Stage("shutting down", "waiting")
        /\ exit' = TRUE
        /\ UNCHANGED <<curlVars, host, queue, posts, jobs, loop, busy, misuse>>

\* Mutant of Joined: quit() without wait().
Joined_NoWait == /\ Stage("waiting", "joined")
                 /\ host' = "stopped"
                 /\ UNCHANGED <<curlVars, queue, posts, jobs, loop, exit, busy, misuse>>

\* and waits for it.
Joined == /\ Stage("waiting", "joined")
          /\ loop = "ended"
          /\ host' = "stopped"
          /\ UNCHANGED <<curlVars, queue, posts, jobs, loop, exit, busy, misuse>>

\* curl_global_cleanup().
GlobalCleanup == /\ Stage("joined", "cleaned")
                 /\ UNCHANGED <<curlVars, hostVars, busy, misuse>>

----------------------------------------------------------------------------
\* The worker's loop takes up what was posted,
TakePosted == /\ loop = "up" /\ Waiting /\ queue # <<>>
              /\ stack' = <<"turn", "posted">>
              /\ UNCHANGED <<replyVars, engineVars, main, hostVars, busy, misuse>>

\* and runs it in order (Dispatcher::event): a request is made, a job's request
\* is aborted, a bearer is seated, the transport is deleted.
RunClosure ==
  /\ In("posted") /\ queue # <<>>
  /\ queue' = Tail(queue)
  /\ LET c == Head(queue) IN
       /\ misuse' = (misuse \/ ~engine)
       /\ \/ c.op = "delete" /\ NamDies /\ UNCHANGED stack
          \/ c.op = "request" /\ Create(c.reply) /\ UNCHANGED stack
          \/ c.op = "abort" /\ Abort(c.reply, stack)
          \/ /\ \/ c.op = "bearer" \/ ~engine
                \/ c.op = "request" /\ life[c.reply] # "unborn"
                \/ c.op = "abort" /\ ~(life[c.reply] = "alive" /\ c.reply \in listened)
             /\ UNCHANGED curlVars
  /\ UNCHANGED <<main, host, posts, jobs, loop, exit, busy>>

PostedDone == /\ In("posted") /\ queue = <<>>
              /\ stack' = Returned
              /\ UNCHANGED <<replyVars, engineVars, main, hostVars, busy, misuse>>

\* What the thread does as it finishes: the deferred deletes are carried out.
Leaves == /\ loop' = "ended"
          /\ stack' = <<>>
          /\ Destroyed({r \in Replies : life[r] = "doomed"})
          /\ UNCHANGED <<finished, listened, heard, outcome, buffer,
                         timer, kick, engine, leaked>>

\* The end of a turn.
TurnEnds ==
  /\ In("turn")
  /\ \/ exit /\ Leaves
     \/ ~exit /\ stack' = <<>> /\ UNCHANGED <<replyVars, engineVars, loop>>
  /\ UNCHANGED <<main, host, queue, posts, jobs, exit, busy, misuse>>

\* quit() wakes the loop from its poll, with nothing to dispatch.
WokenToLeave ==
  /\ loop = "up" /\ Waiting /\ exit /\ queue = <<>>
  /\ Leaves
  /\ UNCHANGED <<main, host, queue, posts, jobs, exit, busy, misuse>>

\* The network stack's own steps, on the worker's thread.
Network == /\ loop = "up"
           /\ CurlNext
           /\ UNCHANGED <<main, hostVars, busy, misuse>>

Gui == \/ Start \/ Post \/ Cancel \/ ExecReturns \/ ShutdownMediaThread \/ ViewerGone
       \/ Shutdown \/ Quit \/ Joined \/ GlobalCleanup

Worker == \/ TakePosted \/ RunClosure \/ PostedDone \/ TurnEnds \/ WokenToLeave
          \/ Network

\* The process is over, or the user never quits.
Next == Gui \/ Worker

Spec == Init /\ [][Next]_vars

\* An event loop gets round to every source that stays ready, code that runs
\* returns, and libcurl ends every transfer it is driven through (the ceiling of
\* CURLOPT_TIMEOUT_MS).  main() goes on once exec() has returned; that it returns,
\* and what users and servers do, is not fair.
Running == Driven \/ Completion \/ Checked \/ SlotReturns
OnWorker(A) == loop = "up" /\ A /\ UNCHANGED <<main, hostVars, busy, misuse>>

FairSpec ==
  /\ Spec
  /\ WF_vars(\/ Start \/ ShutdownMediaThread \/ ViewerGone \/ Shutdown \/ Quit
             \/ Joined \/ GlobalCleanup)
  /\ WF_vars(RunClosure \/ PostedDone \/ TurnEnds \/ OnWorker(Running))
  /\ WF_vars(TakePosted \/ WokenToLeave)
  /\ WF_vars(OnWorker(OnTimer \/ \E r \in Replies : OnInitFailed(r)))
  /\ \A r \in Replies : SF_vars(OnWorker(Fail(r) \/ Complete(r)))

----------------------------------------------------------------------------
\* What the one who asked for a reply sees of it: it is open from the moment its
\* owner has it, answered by the finished() the owner hears, and given up when the
\* owner drops it or the thread that carries it leaves.
StatusOf(r) ==
  CASE heard[r] = 1 -> "answered"
    [] heard[r] = 2 -> "answered twice"
    [] heard[r] = 0 /\ life[r] = "unborn" -> "unasked"
    [] heard[r] = 0 /\ life[r] = "alive" /\ r \in listened /\ loop = "up" -> "open"
    [] OTHER -> "given up"

Status == [r \in Replies |-> StatusOf(r)]

\* Every reply is answered once, heard by its owner, unless it is given up:
\* across completion, failure, a start that fails, abort() from anywhere - a
\* slot on another's finished() included - and destruction
\* (curlnetworkreply.cpp:217-270, curlengine.cpp:37-50, 109-129).
Promise == INSTANCE ReplyPromise WITH status <- Status
PromiseKept == Promise!Spec

\* The teardown's order (innertube.cpp:60-73, main.cpp:264-286): no closure uses
\* the transport once it is deleted - not one posted before by a page that is
\* gone, nor one of a page the QML engine takes down - and when libcurl's global
\* state goes, neither the worker nor the media thread, nor an image reader,
\* is still in it.
OrderlyTeardown ==
  /\ ~misuse
  /\ main = "cleaned" => /\ loop = "ended" /\ stack = <<>>
                         /\ busy \subseteq {"captions"}

\* Once exec() has returned, main() gets to its end: the worker, whatever it was
\* carrying, leaves its loop and is joined (workerhost.cpp:50-59).
TeardownEnds == main = "returned" ~> main = "cleaned"

----------------------------------------------------------------------------
\* Two things the comments say that the code does not do.

\* "no curl handle survives" (main.cpp:282-284): the captions' stack is nobody's
\* child and is never deleted, and a fetch of it may be in flight.
NoHandleSurvives == main = "cleaned" => busy = {}

\* The deletion "runs before the event loop exits" (innertube.cpp:66-67): not if
\* it is posted, and the loop told to quit, in the middle of a turn.
DeleteRuns == loop = "ended" => ~engine
=============================================================================
