--------------------------- MODULE AccountManager ---------------------------
(***************************************************************************)
(* Signing in and out: AccountManager (the OAuth device-code flow, the     *)
(* session's bearer), the account record of SettingsStore, AccountDetails  *)
(* (the identity header) and what the sign-in sheet does with them.        *)
(*                                                                         *)
(* GUI handlers are atomic.  A request is a record in `calls' from its     *)
(* posting to the run of its delivery closure; answers come in any order.  *)
(* Closures that touch the transport's session go through `wire', the FIFO *)
(* of the worker thread.  A user stands for the refresh token, the access  *)
(* token and the profile that belong to them.                              *)
(***************************************************************************)
EXTENDS Naturals, Sequences, FiniteSets, FiniteSetsExt

CONSTANTS
  Users,      \* who may approve a device code
  Nobody,     \* no account, no bearer, no profile
  Denied,     \* a code refused by its user, expired or already used
  Stored,     \* the accounts settings.json may hold at the first launch
  MaxFlows,   \* bound: signIn() calls
  MaxPages,   \* bound: visits of the account page
  MaxLaunches,\* bound: starts of the program
  Expires     \* whether access tokens run out in this run

ASSUME AccountAssumption ==
  /\ Nobody \notin Users /\ Denied \notin Users \cup {Nobody}
  /\ Stored \subseteq Users \cup {Nobody} /\ Stored # {}
  /\ {MaxFlows, MaxPages, MaxLaunches} \subseteq Nat /\ Expires \in BOOLEAN

VARIABLES
  manager,  \* m_job, m_deviceCode, m_bearer and the single-shot timers armed
  dead,     \* canceled job tokens
  account,  \* the account record, in memory and in settings.json
  details,  \* AccountDetails: its job, the identity it shows
  sheet,    \* AuthorisationSheet: "closed" or its phase
  session,  \* the transport's bearer
  wire,     \* closures on their way to the worker thread
  calls,    \* requests in flight, and answers not yet delivered
  codes,    \* the server: who decided about each device code it issued
  accepted, \* the server: whose access token is good
  used      \* jobs, flows, loads, pages and launches so far

gui == <<manager, dead, account, details, sheet>>
vars == <<manager, dead, account, details, sheet, session, wire, calls, codes,
          accepted, used>>

People == Users \cup {Nobody}
Codes == 1..MaxFlows
NoCode == 0
Slots == 1..(3 * MaxFlows + MaxPages + 2)

Operations == {"code", "poll", "refresh", "profile"}
Waiting == "waiting"
Failed == "failed"
Pending == "authorization_pending"
Issued == "issued"      \* a device code: the call's own from here on
Calls == [slot : Slots, op : Operations, job : Nat, code : Codes \cup {NoCode},
          as : People, answer : Users \cup {Waiting, Failed, Pending, Issued}]

ASSUME AnswersAssumption == Users \cap {Waiting, Failed, Pending, Issued} = {}

SignedIn == account.owner # Nobody

Request(op, job, code, as) ==
  [slot |-> Min(Slots \ {c.slot : c \in calls}), op |-> op, job |-> job,
   code |-> code, as |-> as, answer |-> Waiting]

-----------------------------------------------------------------------------
\* AccountDetails::load(): cancelJob(), then fetchAccount on the worker.
Load(d) == [d EXCEPT !.job = @ + 1]
Fetch(d) == [op |-> "fetch", job |-> d.job, as |-> Nobody]
\* Innertube::applyBearer(): the value is read here, seated on the worker.
Seat(b) == [op |-> "bearer", job |-> 0, as |-> b]

\* A start of the program: restore() mints a bearer when a token is stored, the
\* main page asks for the identity.
Launched(record, n) ==
  /\ manager = [job |-> IF record.owner = Nobody THEN 0 ELSE n, code |-> NoCode,
                bearer |-> Nobody, timers |-> 0]
  /\ details = [job |-> n, header |-> record.profile]
  /\ sheet = "closed" /\ session = Nobody /\ accepted = {}
  /\ wire = <<Fetch([job |-> n])>>

Restored(record, n) ==
  IF record.owner = Nobody THEN {}
  ELSE {[slot |-> 1, op |-> "refresh", job |-> n, code |-> NoCode,
         as |-> record.owner, answer |-> Waiting]}

Init ==
  /\ \E u \in Stored : account = [owner |-> u, profile |-> u]
  /\ Launched(account, 1)
  /\ dead = {} /\ calls = Restored(account, 1)
  /\ codes = <<>>
  /\ used = [jobs |-> 1, flows |-> 0, loads |-> 1, pages |-> 0, launches |-> 1]

Restart ==
  /\ used.launches < MaxLaunches
  /\ UNCHANGED <<account, dead, codes, accepted>>
  /\ used' = [used EXCEPT !.jobs = @ + 1, !.loads = @ + 1, !.launches = @ + 1]
  /\ LET n == used.jobs + 1 IN
     /\ manager' = [job |-> IF SignedIn THEN n ELSE 0, code |-> NoCode,
                    bearer |-> Nobody, timers |-> 0]
     /\ details' = [job |-> used.loads + 1, header |-> account.profile]
     /\ calls' = Restored(account, n)
     /\ wire' = <<Fetch([job |-> used.loads + 1])>>
  /\ sheet' = "closed" /\ session' = Nobody

-----------------------------------------------------------------------------
(* The sheet and the account page.                                         *)
SignIn ==
  /\ used.flows < MaxFlows
  /\ used' = [used EXCEPT !.jobs = @ + 1, !.flows = @ + 1]
  /\ manager' = [manager EXCEPT !.job = used.jobs + 1]
  /\ calls' = calls \cup {Request("code", used.jobs + 1, NoCode, Nobody)}
  /\ sheet' = "request"
  /\ UNCHANGED <<dead, account, details, session, wire, codes, accepted>>

OpenSheet == sheet = "closed" /\ ~SignedIn /\ SignIn
TryAgain == sheet = "error" /\ SignIn

\* Mutant: cancel() that only forgets the code.
Cancel_KeepJob == manager' = [manager EXCEPT !.code = NoCode] /\ UNCHANGED dead

Cancel ==
  /\ dead' = dead \cup {manager.job}
  /\ manager' = [manager EXCEPT !.code = NoCode]

RejectSheet ==
  /\ sheet # "closed" /\ sheet' = "closed"
  /\ Cancel
  /\ UNCHANGED <<account, details, session, wire, calls, codes, accepted, used>>

SignOut ==
  /\ SignedIn
  /\ account' = [owner |-> Nobody, profile |-> Nobody]
  /\ manager' = [manager EXCEPT !.bearer = Nobody]
  /\ wire' = Append(wire, Seat(Nobody))
  /\ UNCHANGED <<dead, details, sheet, session, calls, codes, accepted, used>>

OpenPage ==
  /\ SignedIn /\ used.pages < MaxPages
  /\ used' = [used EXCEPT !.loads = @ + 1, !.pages = @ + 1]
  /\ details' = Load(details) /\ wire' = Append(wire, Fetch(details'))
  /\ UNCHANGED <<manager, dead, account, sheet, session, calls, codes, accepted>>

-----------------------------------------------------------------------------
(* The timers.                                                             *)
\* Mutant: A timer that is not single-shot.
Poll_Repeats ==
  /\ manager.timers > 0
  /\ manager' = [manager EXCEPT !.timers = IF manager.code = NoCode THEN @ - 1 ELSE @]
  /\ calls' = IF manager.code = NoCode \/ Cardinality(calls) > 4 THEN calls
              ELSE calls \cup {Request("poll", manager.job, manager.code, Nobody)}
  /\ UNCHANGED <<dead, account, details, sheet, session, wire, codes, accepted, used>>

Poll ==
  /\ manager.timers > 0
  /\ manager' = [manager EXCEPT !.timers = @ - 1]
  /\ calls' = IF manager.code = NoCode THEN calls
              ELSE calls \cup {Request("poll", manager.job, manager.code, Nobody)}
  /\ UNCHANGED <<dead, account, details, sheet, session, wire, codes, accepted, used>>

-----------------------------------------------------------------------------
(* The worker thread, the network and the server.                          *)
WorkerRuns ==
  /\ wire # <<>> /\ wire' = Tail(wire)
  /\ LET w == Head(wire) IN
     \/ /\ w.op = "bearer" /\ session' = w.as /\ UNCHANGED calls
     \/ /\ w.op = "fetch" /\ UNCHANGED session
        /\ calls' = calls \cup {Request("profile", w.job, NoCode, session)}
  /\ UNCHANGED <<gui, codes, accepted, used>>

\* What the server may say to a call, but for Failed: any call may fail.
Answers(c) ==
  CASE c.op = "code" -> {Issued}
    [] c.op = "poll" -> IF codes[c.code] = Nobody THEN {Pending}
                        ELSE {codes[c.code]} \cap Users
    [] c.op = "refresh" -> {c.as}
    [] c.op = "profile" -> {c.as} \cap accepted

Answer(n) ==
  \E c \in calls :
    /\ c.slot = n /\ c.answer = Waiting
    /\ \E a \in Answers(c) \cup {Failed} :
         /\ calls' = (calls \ {c}) \cup
              {[c EXCEPT !.answer = a, !.code = IF a = Issued THEN Len(codes) + 1 ELSE @]}
         /\ codes' = CASE a = Issued -> Append(codes, Nobody)
                       [] c.op = "poll" /\ a \in Users -> [codes EXCEPT ![c.code] = Denied]
                       [] OTHER -> codes
         /\ accepted' = IF c.op \in {"poll", "refresh"} THEN accepted \cup ({a} \cap Users)
                        ELSE accepted
    /\ UNCHANGED <<gui, session, wire, used>>

Decide ==
  \E k \in DOMAIN codes, who \in Users \cup {Denied} :
    /\ codes[k] = Nobody /\ codes' = [codes EXCEPT ![k] = who]
    /\ UNCHANGED <<gui, session, wire, calls, accepted, used>>

Expire ==
  /\ Expires /\ \E u \in accepted : accepted' = accepted \ {u}
  /\ UNCHANGED <<gui, session, wire, calls, codes, used>>

-----------------------------------------------------------------------------
(* Deliveries on the GUI thread.                                           *)
AuthFailed == sheet' = IF sheet = "closed" THEN sheet ELSE "error"

\* Mutant: A failed device-code request that tells nobody.
HandleDeviceCode_Silent(c) ==
  /\ \/ c.answer = Failed /\ UNCHANGED <<sheet, manager>>
     \/ /\ c.answer = Issued
        /\ sheet' = IF sheet = "closed" THEN sheet ELSE "wait"
        /\ manager' = [manager EXCEPT !.code = c.code, !.timers = @ + 1]
  /\ UNCHANGED <<account, details, wire, used>>

HandleDeviceCode(c) ==
  /\ \/ /\ c.answer = Failed /\ AuthFailed /\ UNCHANGED manager
     \/ /\ c.answer = Issued
        /\ sheet' = IF sheet = "closed" THEN sheet ELSE "wait"
        /\ manager' = [manager EXCEPT !.code = c.code, !.timers = @ + 1]
  /\ UNCHANGED <<account, details, wire, used>>

\* bearerChanged, then signedInChanged, which makes the main page load() the
\* identity, then authenticated, which closes the sheet.
Granted(u) ==
  /\ used' = [used EXCEPT !.loads = @ + 1]
  /\ account' = [owner |-> u, profile |-> Nobody]
  /\ manager' = [manager EXCEPT !.bearer = u, !.code = NoCode]
  /\ details' = Load(details)
  /\ wire' = wire \o <<Seat(u), Fetch(details')>>
  /\ sheet' = "closed"

\* Mutant: handleToken() that reads slow_down as the end of it, quietly.
HandleToken_NoReschedule(c) ==
  \/ /\ manager.code = NoCode \/ c.answer = Pending
     /\ UNCHANGED <<manager, account, details, sheet, wire, used>>
  \/ /\ manager.code # NoCode /\ c.answer \in Users
     /\ Granted(c.answer)
  \/ /\ manager.code # NoCode /\ c.answer = Failed
     /\ manager' = [manager EXCEPT !.code = NoCode] /\ AuthFailed
     /\ UNCHANGED <<account, details, wire, used>>

HandleToken(c) ==
  \/ /\ manager.code = NoCode
     /\ UNCHANGED <<manager, account, details, sheet, wire, used>>
  \/ /\ manager.code # NoCode /\ c.answer \in Users
     /\ Granted(c.answer)
  \/ /\ manager.code # NoCode /\ c.answer = Pending
     /\ manager' = [manager EXCEPT !.timers = @ + 1]
     /\ UNCHANGED <<account, details, sheet, wire, used>>
  \/ /\ manager.code # NoCode /\ c.answer = Failed
     /\ manager' = [manager EXCEPT !.code = NoCode] /\ AuthFailed
     /\ UNCHANGED <<account, details, wire, used>>

HandleRefresh(c) ==
  /\ \/ /\ c.answer \in Users
        /\ manager' = [manager EXCEPT !.bearer = c.answer]
        /\ wire' = Append(wire, Seat(c.answer))
     \/ /\ c.answer = Failed /\ UNCHANGED <<manager, wire>>
  /\ UNCHANGED <<account, details, sheet, used>>

\* updateActive() finds no record to write when nobody is signed in.
ApplyAccount(c) ==
  /\ IF c.answer = Failed THEN UNCHANGED <<account, details>>
     ELSE /\ details' = [details EXCEPT !.header = c.answer]
          /\ account' = IF SignedIn THEN [account EXCEPT !.profile = c.answer]
                        ELSE account
  /\ UNCHANGED <<manager, sheet, wire, used>>

\* Mutant: load() that leaves the request before alive.
Dropped_KeepProfile(c) == c.op # "profile" /\ c.job \in dead

Dropped(c) == IF c.op = "profile" THEN c.job # details.job ELSE c.job \in dead

Deliver(n) ==
  \E c \in calls :
    /\ c.slot = n /\ c.answer # Waiting /\ calls' = calls \ {c}
    /\ \/ Dropped(c) /\ UNCHANGED <<manager, account, details, sheet, wire, used>>
       \/ ~Dropped(c) /\ c.op = "code" /\ HandleDeviceCode(c)
       \/ ~Dropped(c) /\ c.op = "poll" /\ HandleToken(c)
       \/ ~Dropped(c) /\ c.op = "refresh" /\ HandleRefresh(c)
       \/ ~Dropped(c) /\ c.op = "profile" /\ ApplyAccount(c)
    /\ UNCHANGED <<dead, session, codes, accepted>>

-----------------------------------------------------------------------------
User == OpenSheet \/ TryAgain \/ RejectSheet \/ SignOut \/ OpenPage
Server == Decide \/ Expire \/ \E n \in Slots : Answer(n)
Next == \/ User \/ Restart \/ Server \/ Poll \/ WorkerRuns
        \/ \E n \in Slots : Deliver(n)

Spec == Init /\ [][Next]_vars

\* The threads run, the timers fire, every request ends (each carries the
\* transport's deadline).  Nobody has to press anything, or approve a code.
FairSpec ==
  /\ Spec /\ WF_vars(Poll) /\ WF_vars(WorkerRuns)
  /\ \A n \in Slots : WF_vars(Answer(n)) /\ WF_vars(Deliver(n))

-----------------------------------------------------------------------------
TypeOK ==
  /\ manager \in [job : Nat, code : Codes \cup {NoCode}, bearer : People, timers : 0..MaxFlows]
  /\ dead \subseteq 0..used.jobs
  /\ account \in [owner : People, profile : People]
  /\ details \in [job : 1..used.loads, header : People]
  /\ sheet \in {"closed", "request", "wait", "error"}
  /\ session \in People
  /\ wire \in Seq([op : {"fetch", "bearer"}, job : Nat, as : People])
  /\ calls \subseteq Calls
  /\ \A k \in DOMAIN codes : k \in Codes /\ codes[k] \in People \cup {Denied}
  /\ accepted \subseteq Users

LivePolls == {c \in calls : c.op = "poll" /\ c.job \notin dead}

\* Once the sheet is shut without an account, no answer still on its way may
\* sign anybody in: cancel() drops the token and the device code, and needs
\* both (accountmanager.cpp, cancel, and the guards of the deliveries).
NobodyBehindTheSheet ==
  [][sheet = "closed" /\ ~SignedIn => account'.owner = Nobody]_vars

\* The profile written into the account record belongs to the account, though
\* accounts_list is asked on the worker, with the bearer seated there by then,
\* and an answer for the account before may still be on its way
\* (innertube.cpp, applyBearer; accountdetails.cpp, load).
ProfileOfAccount == account.profile \in {Nobody, account.owner}

\* Asking for a code ends, in a code on the screen or in an error; and a code its
\* user has approved is acted upon: the flow ends, signed in or with an error,
\* and does not poll for ever (handleDeviceCode, handleToken).
SignInEnds ==
  /\ sheet = "request" ~> sheet # "request"
  /\ \A k \in Codes :
       manager.code = k /\ k \in DOMAIN codes /\ codes[k] \in Users ~> manager.code # k

-----------------------------------------------------------------------------
(* What comments and headers say and the code does not do.                 *)

\* "clear the session bearer too" (accountmanager.cpp:130): without an account
\* there is no bearer, and the bearer is the account's.
BearerOfAccount == manager.bearer \in {Nobody, account.owner}

\* "Default arms a single-shot QTimer at the server's interval"
\* (accountmanager.h): one poll per interval.
OnePollPerInterval == manager.timers + Cardinality(LivePolls) <= 1

\* "polls the token endpoint until the user authorizes" (accountmanager.h): a
\* flow ends by cancel() or by an answer about its own code.
EndsByItsOwnCode ==
  [][manager.code # NoCode /\ manager'.code = NoCode /\ used'.launches = used.launches =>
       \/ manager.job \in dead'
       \/ \E c \in calls \ calls' : c.op = "poll" /\ c.code = manager.code]_vars

\* "access tokens are minted on demand" (accountmanager.h): a signed-in user
\* whose access token is missing or has run out gets another.
MintedOnDemand ==
  SignedIn /\ manager.bearer \notin accepted ~> ~SignedIn \/ manager.bearer \in accepted

\* "The signed-in user's identity header" (accountdetails.h).
HeaderOfAccount == SignedIn => details.header \in {Nobody, account.owner}

=============================================================================
