--------------------------- MODULE AccountProofs ----------------------------
(***************************************************************************)
(* Proofs about AccountManager (core/innertube/accountmanager.cpp and      *)
(* accountdetails.cpp): nobody is signed in behind a closed sheet, and the *)
(* profile in the account record is the account's, unless the answer to a  *)
(* token refresh arrives for an account that is no longer signed in.       *)
(***************************************************************************)
EXTENDS AccountManager, FiniteSetTheorems, SequenceTheorems, WellFoundedInduction, TLAPS

-----------------------------------------------------------------------------
(* Types and bounds                                                        *)

\* Each flow asks for one code, which arms a timer, which posts a poll, which
\* may arm the timer again: one of these per flow.
Flow == {c \in calls : c.op \in {"code", "poll"}}
\* Codes asked for and not yet issued.
Unissued == {c \in calls : c.op = "code" /\ c.answer = Waiting}
\* Identity loads that wait for the worker.
Fetches == {i \in DOMAIN wire : wire[i].op = "fetch"}

UsedType ==
  used \in [jobs : Nat, flows : 0..MaxFlows, loads : Nat, pages : 0..MaxPages, launches : Nat]

BoundInv ==
  /\ UsedType /\ IsFiniteSet(calls) /\ codes \in Seq(People \cup {Denied})
  /\ Cardinality(Flow) + manager.timers <= used.flows
  /\ Cardinality(Unissued) + Len(codes) <= used.flows
  /\ Cardinality(calls) + manager.timers + Cardinality(Fetches) <= used.flows + used.pages + 2
  /\ manager.job <= used.jobs
  /\ \A c \in calls : c.op # "profile" => c.job <= used.jobs
  /\ \A c \in calls : c.op = "code" => c.answer \in {Waiting, Failed, Issued}
  /\ \A c \in calls : c.op = "refresh" => c.as \in Users
  /\ \A c \in calls : c.op = "profile" => c.answer \in Users \cup {Waiting, Failed}

AccountTypes == TypeOK /\ BoundInv

-----------------------------------------------------------------------------
(* The sheet                                                               *)

\* A device code is only remembered while the sheet shows it; and a request
\* for one that may still be delivered is of the flow the sheet waits for.
SheetInv ==
  /\ sheet # "wait" => manager.code = NoCode
  /\ \A c \in calls : c.op = "code" /\ c.job \notin dead =>
       sheet = "request" /\ c.job = manager.job /\ manager.job \notin dead
  /\ \A c, d \in calls : c.op = "code" /\ d.op = "code" /\ c.job \notin dead
                         /\ d.job \notin dead => c = d

-----------------------------------------------------------------------------
(* The profile                                                             *)

Own == {Nobody, account.owner}

\* From some place on in the worker's queue the bearer that is seated is the
\* account's, and the identity asked for last is asked from there on.
Clean(k) ==
  /\ IF k = 0 THEN session \in Own
     ELSE k \in DOMAIN wire /\ wire[k].op = "bearer" /\ wire[k].as \in Own
  /\ \A i \in DOMAIN wire :
       /\ i > k /\ wire[i].op = "bearer" => wire[i].as \in Own
       /\ i <= k /\ wire[i].op = "fetch" => wire[i].job < details.job

ProfileInv ==
  /\ ProfileOfAccount
  /\ \A i \in DOMAIN wire : wire[i].op = "fetch" => wire[i].job <= details.job
  /\ \A c \in calls : c.op = "profile" =>
       /\ c.job <= details.job
       /\ c.answer \in {c.as, Waiting, Failed}
       /\ c.job = details.job /\ SignedIn => c.as \in Own
  /\ \A c \in calls : c.op = "refresh" => c.answer \in {c.as, Waiting, Failed}
  /\ SignedIn => \E k \in 0..Len(wire) : Clean(k)

\* Whoever a token refresh is for is still signed in.
NoCrossing == \A c \in calls : c.op = "refresh" => c.as = account.owner

-----------------------------------------------------------------------------
(* Counting                                                                *)

LEMMA OneMore ==
  ASSUME NEW S, IsFiniteSet(S), NEW r, NEW T, T \subseteq S \cup {r}
  PROVE  IsFiniteSet(T) /\ Cardinality(T) \in Nat /\ Cardinality(T) <= Cardinality(S) + 1
<1>1. /\ IsFiniteSet(S \cup {r}) /\ Cardinality(S) \in Nat
      /\ Cardinality(S \cup {r}) <= Cardinality(S) + 1
  BY FS_AddElement, FS_CardinalityType
<1>2. T \in SUBSET (S \cup {r})
  OBVIOUS
<1>3. IsFiniteSet(T) /\ Cardinality(T) <= Cardinality(S \cup {r})
  BY <1>1, <1>2, FS_Subset
<1>4. Cardinality(T) \in Nat /\ Cardinality(S \cup {r}) \in Nat
  BY <1>1, <1>3, FS_CardinalityType
<1> QED BY <1>1, <1>3, <1>4

LEMMA OneLess ==
  ASSUME NEW S, IsFiniteSet(S), NEW r \in S, NEW T, T \subseteq S \ {r}
  PROVE  IsFiniteSet(T) /\ Cardinality(T) \in Nat /\ Cardinality(T) <= Cardinality(S) - 1
<1>1. /\ IsFiniteSet(S \ {r}) /\ Cardinality(S) \in Nat
      /\ Cardinality(S \ {r}) = Cardinality(S) - 1
  BY FS_RemoveElement, FS_CardinalityType
<1>2. T \in SUBSET (S \ {r})
  OBVIOUS
<1>3. IsFiniteSet(T) /\ Cardinality(T) <= Cardinality(S \ {r})
  BY <1>1, <1>2, FS_Subset
<1>4. Cardinality(T) \in Nat /\ Cardinality(S \ {r}) \in Nat
  BY <1>1, <1>3, FS_CardinalityType
<1> QED BY <1>1, <1>3, <1>4

LEMMA NoMore ==
  ASSUME NEW S, IsFiniteSet(S), NEW T, T \subseteq S
  PROVE  IsFiniteSet(T) /\ Cardinality(T) \in Nat /\ Cardinality(T) <= Cardinality(S)
<1>1. T \in SUBSET S
  OBVIOUS
<1>2. IsFiniteSet(T) /\ Cardinality(T) <= Cardinality(S)
  BY <1>1, FS_Subset
<1> QED BY <1>2, FS_CardinalityType

LEMMA Swapped ==
  ASSUME NEW S, IsFiniteSet(S), NEW c \in S, NEW r, NEW T, T \subseteq (S \ {c}) \cup {r}
  PROVE  IsFiniteSet(T) /\ Cardinality(T) \in Nat /\ Cardinality(T) <= Cardinality(S)
<1>1. /\ IsFiniteSet(S \ {c}) /\ Cardinality(S \ {c}) \in Nat /\ Cardinality(S) \in Nat
      /\ Cardinality(S \ {c}) <= Cardinality(S) - 1
  BY OneLess, FS_CardinalityType
<1>2. /\ IsFiniteSet(T) /\ Cardinality(T) \in Nat
      /\ Cardinality(T) <= Cardinality(S \ {c}) + 1
  BY <1>1, OneMore
<1> QED BY <1>1, <1>2

\* A set of numbers has a least one, which is the one Min gives.
LEMMA LeastNumber ==
  ASSUME NEW S, S \subseteq Nat, S # {}
  PROVE  Min(S) \in S
<1> DEFINE below == {1..x : x \in S}
<1>1. below \subseteq FiniteSubsetsOf(Nat) /\ below # {}
  <2>1. \A x \in S : IsFiniteSet(1..x) /\ 1..x \subseteq Nat
    BY FS_Interval
  <2> QED BY <2>1 DEF FiniteSubsetsOf
<1>2. IsWellFoundedOn(StrictSubsetOrdering(Nat), FiniteSubsetsOf(Nat))
  BY FS_StrictSubsetOrderingWellFounded
<1>3. PICK b \in below : \A a \in below : <<a, b>> \notin StrictSubsetOrdering(Nat)
  BY <1>1, <1>2, WFMin
<1>4. PICK x \in S : b = 1..x
  BY <1>3
<1>5. \A y \in S : x <= y
  <2>1. SUFFICES ASSUME NEW y \in S, y < x PROVE FALSE
    OBVIOUS
  <2>2. 1..y \in below /\ 1..y \subseteq 1..x /\ x \in 1..x /\ x \notin 1..y
    BY <2>1
  <2>3. <<1..y, b>> \in StrictSubsetOrdering(Nat)
    BY <1>4, <2>2 DEF StrictSubsetOrdering
  <2> QED BY <1>3, <2>2, <2>3
<1> QED BY <1>5 DEF Min

\* A slot is free as long as fewer requests are in flight than there are slots.
LEMMA FreeSlot ==
  ASSUME IsFiniteSet(calls), calls \subseteq Calls,
         Cardinality(calls) < 3 * MaxFlows + MaxPages + 2
  PROVE  Min(Slots \ {c.slot : c \in calls}) \in Slots
<1> DEFINE taken == {c.slot : c \in calls}
           slot == [c \in calls |-> c.slot]
<1>1. MaxFlows \in Nat /\ MaxPages \in Nat
  BY AccountAssumption
<1>2. slot \in Surjection(calls, taken)
  BY DEF Surjection
<1>3. IsFiniteSet(taken) /\ Cardinality(taken) <= Cardinality(calls)
  BY <1>2, FS_Surjection
<1>4. IsFiniteSet(Slots) /\ Cardinality(Slots) = 3 * MaxFlows + MaxPages + 2
  BY <1>1, FS_Interval DEF Slots
<1>5. Slots \ taken # {}
  <2>1. SUFFICES ASSUME Slots \subseteq taken PROVE FALSE
    OBVIOUS
  <2>2. Cardinality(Slots) <= Cardinality(taken)
    BY <1>3, <2>1, NoMore
  <2>3. Cardinality(taken) \in Nat /\ Cardinality(calls) \in Nat
    BY <1>3, FS_CardinalityType
  <2> QED BY <1>1, <1>3, <1>4, <2>2, <2>3
<1>6. Slots \ taken \subseteq Nat
  BY <1>1 DEF Slots
<1> QED BY <1>5, <1>6, LeastNumber

-----------------------------------------------------------------------------
(* The requests and the worker's queue                                     *)

Work == [op : {"fetch", "bearer"}, job : Nat, as : People]
FetchesOf(w) == {i \in DOMAIN w : w[i].op = "fetch"}

LEMMA Numbers ==
  ASSUME AccountTypes
  PROVE  /\ MaxFlows \in Nat /\ MaxPages \in Nat
         /\ used.flows \in Nat /\ used.flows <= MaxFlows
         /\ used.pages \in Nat /\ used.pages <= MaxPages
         /\ used.jobs \in Nat /\ used.loads \in Nat /\ used.launches \in Nat
         /\ manager.timers \in Nat /\ manager.job \in Nat /\ Len(codes) \in Nat
<1>1. MaxFlows \in Nat /\ MaxPages \in Nat
  BY AccountAssumption
<1>2. Len(codes) \in Nat
  BY LenProperties DEF AccountTypes, BoundInv
<1>3. used \in [jobs : Nat, flows : 0..MaxFlows, loads : Nat, pages : 0..MaxPages,
                launches : Nat]
  BY DEF AccountTypes, BoundInv, UsedType
<1>4. manager.timers \in Nat /\ manager.job \in Nat
  BY DEF AccountTypes, TypeOK
<1> QED BY <1>1, <1>2, <1>3, <1>4

LEMMA Sizes ==
  ASSUME AccountTypes
  PROVE  /\ IsFiniteSet(calls) /\ IsFiniteSet(Flow) /\ IsFiniteSet(Unissued)
         /\ IsFiniteSet(Fetches)
         /\ Cardinality(Flow) \in Nat /\ Cardinality(Unissued) \in Nat
         /\ Cardinality(Fetches) \in Nat /\ Cardinality(calls) \in Nat
         /\ wire \in Seq(Work) /\ calls \subseteq Calls
<1>2. IsFiniteSet(calls)
  BY DEF AccountTypes, BoundInv
<1>3. IsFiniteSet(Flow) /\ Cardinality(Flow) \in Nat
  BY <1>2, NoMore DEF Flow
<1>4. IsFiniteSet(Unissued) /\ Cardinality(Unissued) \in Nat
  BY <1>2, NoMore DEF Unissued
<1>5. wire \in Seq(Work) /\ calls \subseteq Calls
  BY DEF AccountTypes, TypeOK, Work
<1>6. IsFiniteSet(1..Len(wire)) /\ DOMAIN wire = 1..Len(wire)
  BY <1>5, FS_Interval, LenProperties
<1>7. IsFiniteSet(Fetches) /\ Cardinality(Fetches) \in Nat
  BY <1>6, NoMore DEF Fetches
<1>8. Cardinality(calls) \in Nat
  BY <1>2, FS_CardinalityType
<1> QED BY <1>2, <1>3, <1>4, <1>5, <1>7, <1>8

\* There is a slot for a request that takes the place of a flow that has not
\* begun, of a timer or of a fetch.
LEMMA Room ==
  ASSUME AccountTypes,
         used.flows < MaxFlows \/ manager.timers > 0 \/ Cardinality(Fetches) > 0
  PROVE  Cardinality(calls) < 3 * MaxFlows + MaxPages + 2
<1>1. Cardinality(calls) + manager.timers + Cardinality(Fetches)
        <= used.flows + used.pages + 2
  BY DEF AccountTypes, BoundInv
<1>2. Cardinality(calls) < MaxFlows + MaxPages + 2
  <2>1. /\ Cardinality(calls) \in Nat /\ manager.timers \in Nat /\ Cardinality(Fetches) \in Nat
        /\ used.flows \in Nat /\ used.pages \in Nat
        /\ used.flows <= MaxFlows /\ used.pages <= MaxPages
        /\ MaxFlows \in Nat /\ MaxPages \in Nat
    BY Numbers, Sizes
  <2> QED BY <1>1, <2>1
<1>3. MaxFlows + MaxPages + 2 <= 3 * MaxFlows + MaxPages + 2
  <2>1. MaxFlows \in Nat /\ MaxPages \in Nat
    BY AccountAssumption
  <2>2. 3 * MaxFlows = MaxFlows + MaxFlows + MaxFlows
    BY <2>1
  <2> DEFINE many == 3 * MaxFlows
  <2>3. many = MaxFlows + MaxFlows + MaxFlows
    BY <2>2
  <2> HIDE DEF many
  <2>4. MaxFlows + MaxPages + 2 <= many + MaxPages + 2
    BY <2>1, <2>3
  <2> QED BY <2>4 DEF many
<1>4. 3 * MaxFlows + MaxPages + 2 \in Nat /\ MaxFlows + MaxPages + 2 \in Nat
  BY AccountAssumption
<1> QED BY <1>2, <1>3, <1>4, Sizes

LEMMA RequestType ==
  ASSUME AccountTypes, Cardinality(calls) < 3 * MaxFlows + MaxPages + 2,
         NEW op \in Operations, NEW job \in Nat, NEW code \in Codes \cup {NoCode},
         NEW as \in People
  PROVE  /\ Request(op, job, code, as) \in Calls
         /\ Request(op, job, code, as).op = op /\ Request(op, job, code, as).job = job
         /\ Request(op, job, code, as).as = as
         /\ Request(op, job, code, as).answer = Waiting
<1> DEFINE slot == Min(Slots \ {c.slot : c \in calls})
<1>1. slot \in Slots
  BY FreeSlot, Sizes DEF AccountTypes, BoundInv
<1>2. Request(op, job, code, as) =
        [slot |-> slot, op |-> op, job |-> job, code |-> code, as |-> as, answer |-> Waiting]
  BY DEF Request
<1> HIDE DEF slot
<1>3. PICK r : r = Request(op, job, code, as)
  OBVIOUS
<1>4. r = [slot |-> slot, op |-> op, job |-> job, code |-> code, as |-> as,
           answer |-> Waiting]
  BY <1>2, <1>3
<1>5. /\ r \in Calls /\ r.op = op /\ r.job = job /\ r.as = as /\ r.answer = Waiting
  BY <1>1, <1>4 DEF Calls
<1> QED BY <1>3, <1>5

LEMMA CallFields ==
  ASSUME AccountTypes, NEW c \in calls
  PROVE  /\ c \in Calls /\ c.op \in Operations /\ c.job \in Nat /\ c.as \in People
         /\ c.code \in Codes \cup {NoCode}
         /\ c.answer \in Users \cup {Waiting, Failed, Pending, Issued}
BY DEF AccountTypes, TypeOK, Calls

LEMMA Posted ==
  ASSUME AccountTypes, NEW r, calls' = calls \cup {r}
  PROVE  /\ IsFiniteSet(calls') /\ Cardinality(calls') \in Nat
         /\ Cardinality(Flow') \in Nat /\ Cardinality(Unissued') \in Nat
         /\ Cardinality(calls') <= Cardinality(calls) + 1
         /\ Cardinality(Flow') <= Cardinality(Flow) + 1
         /\ Cardinality(Unissued') <= Cardinality(Unissued) + 1
         /\ r.op \notin {"code", "poll"} => Cardinality(Flow') <= Cardinality(Flow)
         /\ r.op # "code" => Cardinality(Unissued') <= Cardinality(Unissued)
<1>0. IsFiniteSet(calls) /\ IsFiniteSet(Flow) /\ IsFiniteSet(Unissued)
  BY Sizes
<1>1. /\ IsFiniteSet(calls') /\ Cardinality(calls') \in Nat
      /\ Cardinality(calls') <= Cardinality(calls) + 1
  BY <1>0, OneMore
<1>2. Flow' \subseteq Flow \cup {r} /\ (r.op \notin {"code", "poll"} => Flow' \subseteq Flow)
  BY DEF Flow
<1>3. Unissued' \subseteq Unissued \cup {r} /\ (r.op # "code" => Unissued' \subseteq Unissued)
  BY DEF Unissued
<1>4. Cardinality(Flow') \in Nat /\ Cardinality(Flow') <= Cardinality(Flow) + 1
  BY <1>0, <1>2, OneMore
<1>5. Cardinality(Unissued') \in Nat /\ Cardinality(Unissued') <= Cardinality(Unissued) + 1
  BY <1>0, <1>3, OneMore
<1>6. r.op \notin {"code", "poll"} => Cardinality(Flow') <= Cardinality(Flow)
  BY <1>0, <1>2, NoMore
<1>7. r.op # "code" => Cardinality(Unissued') <= Cardinality(Unissued)
  BY <1>0, <1>3, NoMore
<1> QED BY <1>1, <1>4, <1>5, <1>6, <1>7

LEMMA Done ==
  ASSUME AccountTypes, NEW c \in calls, calls' = calls \ {c}
  PROVE  /\ IsFiniteSet(calls') /\ Cardinality(calls') \in Nat
         /\ Cardinality(Flow') \in Nat /\ Cardinality(Unissued') \in Nat
         /\ Cardinality(calls') <= Cardinality(calls) - 1
         /\ Cardinality(Flow') <= Cardinality(Flow)
         /\ Cardinality(Unissued') <= Cardinality(Unissued)
         /\ c.op \in {"code", "poll"} => Cardinality(Flow') <= Cardinality(Flow) - 1
<1>0. IsFiniteSet(calls) /\ IsFiniteSet(Flow) /\ IsFiniteSet(Unissued)
  BY Sizes
<1>1. /\ IsFiniteSet(calls') /\ Cardinality(calls') \in Nat
      /\ Cardinality(calls') <= Cardinality(calls) - 1
  BY <1>0, OneLess
<1>2. Flow' \subseteq Flow /\ Flow' \subseteq Flow \ {c}
  BY DEF Flow
<1>3. Unissued' \subseteq Unissued
  BY DEF Unissued
<1>4. Cardinality(Flow') \in Nat /\ Cardinality(Flow') <= Cardinality(Flow)
  BY <1>0, <1>2, NoMore
<1>5. Cardinality(Unissued') \in Nat /\ Cardinality(Unissued') <= Cardinality(Unissued)
  BY <1>0, <1>3, NoMore
<1>6. ASSUME c.op \in {"code", "poll"}
      PROVE  Cardinality(Flow') <= Cardinality(Flow) - 1
  <2>1. c \in Flow
    BY <1>6 DEF Flow
  <2> QED BY <1>0, <1>2, <2>1, OneLess
<1> QED BY <1>1, <1>4, <1>5, <1>6

LEMMA Answering ==
  ASSUME AccountTypes, NEW c \in calls, NEW d, d.op = c.op,
         c.answer = Waiting, d.answer # Waiting, calls' = (calls \ {c}) \cup {d}
  PROVE  /\ IsFiniteSet(calls') /\ Cardinality(calls') \in Nat
         /\ Cardinality(Flow') \in Nat /\ Cardinality(Unissued') \in Nat
         /\ Cardinality(calls') <= Cardinality(calls)
         /\ Cardinality(Flow') <= Cardinality(Flow)
         /\ Cardinality(Unissued') <= Cardinality(Unissued)
         /\ c.op = "code" => Cardinality(Unissued') <= Cardinality(Unissued) - 1
<1>0. IsFiniteSet(calls) /\ IsFiniteSet(Flow) /\ IsFiniteSet(Unissued)
  BY Sizes
<1>1. /\ IsFiniteSet(calls') /\ Cardinality(calls') \in Nat
      /\ Cardinality(calls') <= Cardinality(calls)
  BY <1>0, Swapped
<1>2. Unissued' \subseteq Unissued /\ Unissued' \subseteq Unissued \ {c}
  BY DEF Unissued
<1>3. Cardinality(Unissued') \in Nat /\ Cardinality(Unissued') <= Cardinality(Unissued)
  BY <1>0, <1>2, NoMore
<1>4. ASSUME c.op = "code"
      PROVE  Cardinality(Unissued') <= Cardinality(Unissued) - 1
  <2>1. c \in Unissued
    BY <1>4 DEF Unissued
  <2> QED BY <1>0, <1>2, <2>1, OneLess
<1>5. Cardinality(Flow') \in Nat /\ Cardinality(Flow') <= Cardinality(Flow)
  <2>1. CASE c.op \in {"code", "poll"}
    <3>1. c \in Flow /\ Flow' \subseteq (Flow \ {c}) \cup {d}
      BY <2>1 DEF Flow
    <3> QED BY <1>0, <3>1, Swapped
  <2>2. CASE c.op \notin {"code", "poll"}
    <3>1. Flow' \subseteq Flow
      BY <2>2 DEF Flow
    <3> QED BY <1>0, <3>1, NoMore
  <2> QED BY <2>1, <2>2
<1> QED BY <1>1, <1>3, <1>4, <1>5

LEMMA SeatQueued ==
  ASSUME NEW w \in Seq(Work), NEW u \in People
  PROVE  /\ Append(w, Seat(u)) \in Seq(Work)
         /\ FetchesOf(Append(w, Seat(u))) = FetchesOf(w)
<1> DEFINE seat == Seat(u)
<1>1. seat \in Work /\ seat.op = "bearer"
  BY DEF Seat, Work
<1> HIDE DEF seat
<1>2. /\ Append(w, seat) \in Seq(Work) /\ Len(Append(w, seat)) = Len(w) + 1
      /\ \A i \in 1..Len(w) : Append(w, seat)[i] = w[i]
      /\ Append(w, seat)[Len(w) + 1] = seat
  BY <1>1, AppendProperties
<1>3. /\ Len(w) \in Nat /\ DOMAIN w = 1..Len(w)
      /\ DOMAIN Append(w, seat) = 1..Len(w) + 1
  BY <1>2, LenProperties
<1>4. FetchesOf(Append(w, seat)) = FetchesOf(w)
  BY <1>1, <1>2, <1>3 DEF FetchesOf
<1> QED BY <1>2, <1>4 DEF seat

LEMMA FetchQueued ==
  ASSUME NEW w \in Seq(Work), NEW d, d.job \in Nat
  PROVE  /\ Append(w, Fetch(d)) \in Seq(Work)
         /\ FetchesOf(Append(w, Fetch(d))) \subseteq FetchesOf(w) \cup {Len(w) + 1}
<1> DEFINE fetch == Fetch(d)
<1>1. fetch \in Work /\ fetch.op = "fetch"
  BY DEF Fetch, Work, People
<1> HIDE DEF fetch
<1>2. /\ Append(w, fetch) \in Seq(Work) /\ Len(Append(w, fetch)) = Len(w) + 1
      /\ \A i \in 1..Len(w) : Append(w, fetch)[i] = w[i]
  BY <1>1, AppendProperties
<1>3. /\ Len(w) \in Nat /\ DOMAIN w = 1..Len(w)
      /\ DOMAIN Append(w, fetch) = 1..Len(w) + 1
  BY <1>2, LenProperties
<1>4. FetchesOf(Append(w, fetch)) \subseteq FetchesOf(w) \cup {Len(w) + 1}
  BY <1>2, <1>3 DEF FetchesOf
<1> QED BY <1>2, <1>4 DEF fetch

\* What Granted() queues, one closure after the other.
LEMMA TwoQueued ==
  ASSUME NEW w \in Seq(Work), NEW x \in Work, NEW y \in Work
  PROVE  w \o <<x, y>> = Append(Append(w, x), y)
OBVIOUS

\* The worker takes the first closure.
LEMMA WireTail ==
  ASSUME NEW w \in Seq(Work), w # <<>>, IsFiniteSet(FetchesOf(w))
  PROVE  /\ Head(w) \in Work /\ Tail(w) \in Seq(Work)
         /\ Head(w) = w[1] /\ Len(w) \in Nat \ {0} /\ DOMAIN w = 1..Len(w)
         /\ DOMAIN Tail(w) = 1..Len(w) - 1
         /\ \A i \in 1..Len(w) - 1 : Tail(w)[i] = w[i + 1]
         /\ IsFiniteSet(FetchesOf(Tail(w))) /\ Cardinality(FetchesOf(Tail(w))) \in Nat
         /\ Cardinality(FetchesOf(Tail(w))) <= Cardinality(FetchesOf(w))
         /\ Head(w).op = "fetch" =>
              Cardinality(FetchesOf(Tail(w))) <= Cardinality(FetchesOf(w)) - 1
<1>1. /\ Head(w) \in Work /\ Tail(w) \in Seq(Work) /\ Head(w) = w[1]
      /\ Len(w) \in Nat \ {0} /\ DOMAIN w = 1..Len(w) /\ Len(Tail(w)) = Len(w) - 1
      /\ \A i \in 1..Len(w) - 1 : Tail(w)[i] = w[i + 1]
  BY HeadTailProperties, LenProperties, EmptySeq
<1>2. DOMAIN Tail(w) = 1..Len(w) - 1
  BY <1>1, LenProperties
<1> DEFINE rest == FetchesOf(w) \ {1}
           back == [i \in rest |-> i - 1]
<1>3. back \in Surjection(rest, FetchesOf(Tail(w)))
  <2>1. \A i \in rest : back[i] \in FetchesOf(Tail(w))
    BY <1>1, <1>2 DEF FetchesOf
  <2>2. \A j \in FetchesOf(Tail(w)) : j + 1 \in rest /\ back[j + 1] = j
    BY <1>1, <1>2 DEF FetchesOf
  <2> QED BY <2>1, <2>2 DEF Surjection
<1>4. /\ IsFiniteSet(rest) /\ Cardinality(rest) \in Nat
      /\ Cardinality(rest) <= Cardinality(FetchesOf(w))
      /\ Head(w).op = "fetch" => Cardinality(rest) <= Cardinality(FetchesOf(w)) - 1
  <2>1. /\ IsFiniteSet(rest) /\ Cardinality(rest) \in Nat
        /\ Cardinality(rest) <= Cardinality(FetchesOf(w))
    BY NoMore
  <2>2. ASSUME Head(w).op = "fetch"
        PROVE  Cardinality(rest) <= Cardinality(FetchesOf(w)) - 1
    <3>1. 1 \in FetchesOf(w)
      BY <1>1, <2>2 DEF FetchesOf
    <3> QED BY <3>1, OneLess
  <2> QED BY <2>1, <2>2
<1>5. /\ IsFiniteSet(FetchesOf(Tail(w)))
      /\ Cardinality(FetchesOf(Tail(w))) <= Cardinality(rest)
  BY <1>3, <1>4, FS_Surjection
<1>6. Cardinality(FetchesOf(Tail(w))) \in Nat
  BY <1>5, FS_CardinalityType
<1>7. Cardinality(FetchesOf(w)) \in Nat
  BY FS_CardinalityType
<1> QED BY <1>1, <1>2, <1>4, <1>5, <1>6, <1>7

-----------------------------------------------------------------------------
(* Every action keeps the types and the bounds                             *)

Managers == [job : Nat, code : Codes \cup {NoCode}, bearer : People, timers : 0..MaxFlows]
Records == [owner : People, profile : People]
Useds == [jobs : Nat, flows : 0..MaxFlows, loads : Nat, pages : 0..MaxPages, launches : Nat]

LEMMA TypesInit == Init => AccountTypes
<1> SUFFICES ASSUME Init PROVE AccountTypes
  OBVIOUS
<1>0. MaxFlows \in Nat /\ MaxPages \in Nat /\ Stored \subseteq People
  BY AccountAssumption DEF People
<1>1. PICK u \in Stored : account = [owner |-> u, profile |-> u]
  BY DEF Init
<1>2. account \in Records /\ account.owner \in People /\ account.profile \in People
  BY <1>0, <1>1 DEF Records
<1>3. manager \in Managers /\ manager.job \in {0, 1} /\ manager.timers = 0
  BY <1>0 DEF Init, Launched, Managers, People
<1>4. details \in [job : 1..1, header : People]
  BY <1>2 DEF Init, Launched
<1>5. /\ calls \subseteq Calls
      /\ \A c \in calls : c.op = "refresh" /\ c.job = 1 /\ c.as \in Users
  BY <1>0, <1>2 DEF Init, Restored, Calls, Slots, Operations, People
<1>6. used = [jobs |-> 1, flows |-> 0, loads |-> 1, pages |-> 0, launches |-> 1]
  BY DEF Init
<1>7. /\ used \in Useds /\ used.flows = 0 /\ used.pages = 0 /\ used.jobs = 1
      /\ used.loads = 1
  BY <1>0, <1>6 DEF Useds
<1>8. wire \in Seq(Work) /\ FetchesOf(wire) \subseteq {1}
  <2> DEFINE fetch == Fetch([job |-> 1])
  <2>1. fetch \in Work
    BY DEF Fetch, Work, People
  <2>2. wire = <<fetch>>
    BY DEF Init, Launched
  <2> HIDE DEF fetch
  <2> QED BY <2>1, <2>2 DEF FetchesOf
<1>9. IsFiniteSet(calls) /\ Cardinality(calls) \in Nat /\ Cardinality(calls) <= 1
  <2>1. \E x : calls \subseteq {x}
    BY DEF Init, Restored
  <2>2. \A x : IsFiniteSet({x}) /\ Cardinality({x}) = 1
    BY FS_Singleton
  <2> QED BY <2>1, <2>2, NoMore
<1>10. Cardinality(Fetches) \in Nat /\ Cardinality(Fetches) <= 1
  <2>1. IsFiniteSet({1}) /\ Cardinality({1}) = 1
    BY FS_Singleton
  <2> QED BY <1>8, <2>1, NoMore DEF Fetches, FetchesOf
<1>11. Flow = {} /\ Unissued = {} /\ Cardinality({}) = 0
  BY <1>5, FS_EmptySet DEF Flow, Unissued
<1>12. codes = <<>> /\ codes \in Seq(People \cup {Denied}) /\ Len(codes) = 0
       /\ DOMAIN codes = {} /\ dead = {} /\ session = Nobody /\ accepted = {}
       /\ sheet = "closed" /\ Nobody \in People
  BY DEF Init, Launched, People
<1>13. TypeOK
  BY <1>2, <1>3, <1>4, <1>5, <1>7, <1>8, <1>12 DEF TypeOK, Managers, Records, Work
<1>14. BoundInv
  BY <1>3, <1>5, <1>7, <1>9, <1>10, <1>11, <1>12 DEF BoundInv, UsedType, Useds
<1> QED BY <1>13, <1>14 DEF AccountTypes

LEMMA TypesRestart ==
  ASSUME AccountTypes, Restart
  PROVE  AccountTypes'
<1>0. /\ account' = account /\ dead' = dead /\ codes' = codes /\ accepted' = accepted
      /\ used' = [used EXCEPT !.jobs = @ + 1, !.loads = @ + 1, !.launches = @ + 1]
      /\ sheet' = "closed" /\ session' = Nobody
      /\ manager' = [job |-> IF SignedIn THEN used.jobs + 1 ELSE 0, code |-> NoCode,
                     bearer |-> Nobody, timers |-> 0]
      /\ details' = [job |-> used.loads + 1, header |-> account.profile]
      /\ calls' = Restored(account, used.jobs + 1)
      /\ wire' = <<Fetch([job |-> used.loads + 1])>>
  BY DEF Restart
<1>1. TypeOK /\ BoundInv
  BY DEF AccountTypes
<1>2. used \in Useds
  BY <1>1 DEF BoundInv, UsedType, Useds
<1>3. /\ used' \in Useds /\ used'.flows = used.flows /\ used'.pages = used.pages
      /\ used'.jobs = used.jobs + 1 /\ used'.loads = used.loads + 1
  <2>1. used' = [used EXCEPT !.jobs = @ + 1, !.loads = @ + 1, !.launches = @ + 1]
    BY <1>0
  <2> DEFINE j == used.jobs + 1  l == used.loads + 1  n == used.launches + 1
  <2>2. used' = [used EXCEPT !.jobs = j, !.loads = l, !.launches = n]
    BY <1>2, <2>1 DEF Useds
  <2>3. j \in Nat /\ l \in Nat /\ n \in Nat
    BY <1>2 DEF Useds
  <2> HIDE DEF j, l, n
  <2>4. /\ used' \in Useds /\ used'.flows = used.flows /\ used'.pages = used.pages
        /\ used'.jobs = j /\ used'.loads = l
    BY <1>2, <2>2, <2>3 DEF Useds
  <2> QED BY <2>4 DEF j, l
<1>4. manager' \in Managers /\ manager'.job <= used'.jobs /\ manager'.timers = 0
  BY <1>0, <1>3, Numbers DEF Managers, People
<1>5. details' \in [job : 1..used'.loads, header : People]
  <2>1. used'.loads \in Nat /\ used'.loads = used.loads + 1 /\ used.loads \in Nat
    BY <1>3, Numbers
  <2>2. account.profile \in People
    BY <1>1 DEF TypeOK
  <2>3. details' = [job |-> used'.loads, header |-> account.profile] /\ used'.loads >= 1
    BY <1>0, <2>1
  <2> QED BY <2>1, <2>2, <2>3
<1>6. /\ calls' \subseteq Calls
      /\ \A c \in calls' : c.op = "refresh" /\ c.job = used.jobs + 1 /\ c.as \in Users
  <2>1. used.jobs + 1 \in Nat /\ 1 \in Slots /\ account.owner \in People
    BY <1>1, Numbers, SMTT(20) DEF Slots, TypeOK
  <2> DEFINE j == used.jobs + 1
  <2>2. calls' = Restored(account, j) /\ j \in Nat
    BY <1>0, <2>1
  <2> HIDE DEF j
  <2>3. /\ calls' \subseteq Calls
        /\ \A c \in calls' : c.op = "refresh" /\ c.job = j /\ c.as \in Users
    BY <2>1, <2>2 DEF Restored, Calls, Operations, People
  <2> QED BY <2>3 DEF j
<1>7. wire' \in Seq(Work) /\ FetchesOf(wire') \subseteq {1}
  <2> DEFINE fetch == Fetch([job |-> used.loads + 1])
  <2>1. fetch \in Work
    BY Numbers DEF Fetch, Work, People
  <2>2. wire' = <<fetch>>
    BY <1>0
  <2> HIDE DEF fetch
  <2> QED BY <2>1, <2>2 DEF FetchesOf
<1>8. IsFiniteSet(calls') /\ Cardinality(calls') \in Nat /\ Cardinality(calls') <= 1
  <2>1. \E x : calls' \subseteq {x}
    BY <1>0 DEF Restored
  <2>2. \A x : IsFiniteSet({x}) /\ Cardinality({x}) = 1
    BY FS_Singleton
  <2> QED BY <2>1, <2>2, NoMore
<1>9. Cardinality(Fetches') \in Nat /\ Cardinality(Fetches') <= 1
  <2>1. IsFiniteSet({1}) /\ Cardinality({1}) = 1
    BY FS_Singleton
  <2> QED BY <1>7, <2>1, NoMore DEF Fetches, FetchesOf
<1>10. Flow' = {} /\ Unissued' = {} /\ Cardinality({}) = 0
  BY <1>6, FS_EmptySet DEF Flow, Unissued
<1>11. dead' \subseteq 0..used'.jobs
  <2>1. dead \subseteq 0..used.jobs
    BY <1>1 DEF TypeOK
  <2>2. used.jobs \in Nat
    BY Numbers
  <2> QED BY <1>0, <1>3, <2>1, <2>2
<1>12. TypeOK'
  BY <1>0, <1>1, <1>4, <1>5, <1>6, <1>7, <1>11 DEF TypeOK, Managers, Records, Work, People
<1>13. BoundInv'
  <2>1. Len(codes') <= used'.flows
    <3>1. Cardinality(Unissued) + Len(codes) <= used.flows
      BY <1>1 DEF BoundInv
    <3> QED BY <1>0, <1>3, <3>1, Numbers, Sizes, SMTT(20)
  <2>2. \A c \in calls' : c.job <= used'.jobs
    BY <1>3, <1>6, Numbers
  <2>3. used'.flows \in Nat /\ used'.pages \in Nat /\ Len(codes') \in Nat
    BY <1>0, <1>3, Numbers
  <2>4. /\ Cardinality(Flow') + manager'.timers <= used'.flows
        /\ Cardinality(Unissued') + Len(codes') <= used'.flows
        /\ Cardinality(calls') + manager'.timers + Cardinality(Fetches')
             <= used'.flows + used'.pages + 2
    BY <1>4, <1>8, <1>9, <1>10, <2>1, <2>3
  <2>5. codes' \in Seq(People \cup {Denied})
    BY <1>0, <1>1 DEF BoundInv
  <2> QED BY <1>3, <1>4, <1>6, <1>8, <2>2, <2>4, <2>5 DEF BoundInv, UsedType, Useds
<1> QED BY <1>12, <1>13 DEF AccountTypes

LEMMA TypesSignIn ==
  ASSUME AccountTypes, SignIn
  PROVE  AccountTypes'
<1>0. /\ used.flows < MaxFlows /\ sheet' = "request"
      /\ used' = [used EXCEPT !.jobs = @ + 1, !.flows = @ + 1]
      /\ manager' = [manager EXCEPT !.job = used.jobs + 1]
      /\ calls' = calls \cup {Request("code", used.jobs + 1, NoCode, Nobody)}
      /\ UNCHANGED <<dead, account, details, session, wire, codes, accepted>>
  BY DEF SignIn
<1>1. TypeOK /\ BoundInv
  BY DEF AccountTypes
<1>2. used \in Useds /\ manager \in Managers
  BY <1>1 DEF BoundInv, UsedType, Useds, TypeOK, Managers
<1>3. /\ used' \in Useds /\ used'.flows = used.flows + 1 /\ used'.pages = used.pages
      /\ used'.jobs = used.jobs + 1 /\ used'.loads = used.loads
  <2>1. used' = [used EXCEPT !.jobs = @ + 1, !.flows = @ + 1]
    BY <1>0
  <2>2. used.flows \in Nat /\ MaxFlows \in Nat /\ used.flows < MaxFlows
    BY <1>0, Numbers
  <2> DEFINE j == used.jobs + 1  f == used.flows + 1
  <2>3. used' = [used EXCEPT !.jobs = j, !.flows = f]
    BY <1>2, <2>1 DEF Useds
  <2>4. j \in Nat /\ f \in 0..MaxFlows
    BY <1>2, <2>2 DEF Useds
  <2> HIDE DEF j, f
  <2>5. /\ used' \in Useds /\ used'.flows = f /\ used'.pages = used.pages
        /\ used'.jobs = j /\ used'.loads = used.loads
    BY <1>2, <2>3, <2>4 DEF Useds
  <2> QED BY <2>5 DEF j, f
<1>4. manager' \in Managers /\ manager'.job = used.jobs + 1 /\ manager'.timers = manager.timers
  <2>1. manager' = [manager EXCEPT !.job = used.jobs + 1] /\ used.jobs \in Nat
    BY <1>0, Numbers
  <2> QED BY <1>2, <2>1 DEF Managers
<1>5. PICK r : r = Request("code", used.jobs + 1, NoCode, Nobody)
  OBVIOUS
<1>6. r \in Calls /\ r.op = "code" /\ r.job = used.jobs + 1 /\ r.answer = Waiting
  <2>1. Cardinality(calls) < 3 * MaxFlows + MaxPages + 2
    BY <1>0, Room
  <2>2. used.jobs + 1 \in Nat
    BY Numbers
  <2> QED BY <1>5, <2>1, <2>2, RequestType DEF Operations, People
<1>7. calls' = calls \cup {r}
  BY <1>0, <1>5
<1>8. Fetches' = Fetches
  BY <1>0 DEF Fetches
<1>9. dead' \subseteq 0..used'.jobs
  BY <1>0, <1>1, <1>3, Numbers DEF TypeOK
<1>10. TypeOK'
  BY <1>0, <1>1, <1>3, <1>4, <1>6, <1>7, <1>9 DEF TypeOK, Managers
<1>11. BoundInv'
  <2>1. \A c \in calls' : c.op # "profile" => c.job <= used'.jobs
    BY <1>1, <1>3, <1>6, <1>7, Numbers, CallFields, SMTT(20) DEF BoundInv
  <2>2. /\ \A c \in calls' : c.op = "code" => c.answer \in {Waiting, Failed, Issued}
        /\ \A c \in calls' : c.op = "refresh" => c.as \in Users
        /\ \A c \in calls' : c.op = "profile" => c.answer \in Users \cup {Waiting, Failed}
    BY <1>1, <1>6, <1>7 DEF BoundInv
  <2>3. /\ IsFiniteSet(calls') /\ Cardinality(calls') \in Nat
        /\ Cardinality(Flow') \in Nat /\ Cardinality(Unissued') \in Nat
        /\ Cardinality(calls') <= Cardinality(calls) + 1
        /\ Cardinality(Flow') <= Cardinality(Flow) + 1
        /\ Cardinality(Unissued') <= Cardinality(Unissued) + 1
    BY <1>7, Posted
  <2>4. /\ Cardinality(Flow') + manager'.timers <= used'.flows
        /\ Cardinality(Unissued') + Len(codes') <= used'.flows
        /\ Cardinality(calls') + manager'.timers + Cardinality(Fetches')
             <= used'.flows + used'.pages + 2
    <3>1. /\ Cardinality(Flow) + manager.timers <= used.flows
          /\ Cardinality(Unissued) + Len(codes) <= used.flows
          /\ Cardinality(calls) + manager.timers + Cardinality(Fetches)
               <= used.flows + used.pages + 2
      BY <1>1 DEF BoundInv
    <3>2. codes' = codes
      BY <1>0
    <3>3. /\ Cardinality(Flow) \in Nat /\ Cardinality(Unissued) \in Nat
          /\ Cardinality(calls) \in Nat /\ Cardinality(Fetches) \in Nat
          /\ manager.timers \in Nat /\ Len(codes) \in Nat
          /\ used.flows \in Nat /\ used.pages \in Nat
      BY Numbers, Sizes
    <3>a. /\ manager'.timers \in Nat /\ manager'.timers = manager.timers
          /\ used'.flows = used.flows + 1 /\ used'.pages = used.pages
          /\ used'.flows \in Nat /\ used'.pages \in Nat
      BY <1>3, <1>4, <3>3
    <3>4. Cardinality(Flow') + manager'.timers <= used'.flows
      <4>1. Cardinality(Flow) + manager.timers <= used.flows
        BY <3>1
      <4>2. Cardinality(Flow') \in Nat /\ Cardinality(Flow') <= Cardinality(Flow) + 1
        BY <2>3
      <4> QED BY <3>3, <3>a, <4>1, <4>2
    <3>5. Cardinality(Unissued') + Len(codes') <= used'.flows
      BY <2>3, <3>1, <3>2, <3>3, <3>a, SMTT(20)
    <3>6. Cardinality(calls') + manager'.timers + Cardinality(Fetches')
             <= used'.flows + used'.pages + 2
      <4>1. Cardinality(calls) + manager.timers + Cardinality(Fetches)
              <= used.flows + used.pages + 2
        BY <3>1
      <4>2. Cardinality(calls') \in Nat /\ Cardinality(calls') <= Cardinality(calls) + 1
        BY <2>3
      <4>3. /\ Cardinality(calls) \in Nat /\ Cardinality(Fetches) \in Nat
            /\ manager.timers \in Nat /\ used.flows \in Nat /\ used.pages \in Nat
        BY <3>3
      <4>4. /\ manager'.timers = manager.timers
            /\ used'.flows = used.flows + 1 /\ used'.pages = used.pages
        BY <3>a
      <4> QED BY <1>8, <4>1, <4>2, <4>3, <4>4
    <3> QED BY <3>4, <3>5, <3>6
  <2> QED BY <1>0, <1>1, <1>3, <1>4, <2>1, <2>2, <2>3, <2>4, Numbers, SMTT(20)
             DEF BoundInv, UsedType, Useds
<1> QED BY <1>10, <1>11 DEF AccountTypes

\* The three sums, and what they are of.
LEMMA Sums ==
  ASSUME AccountTypes
  PROVE  /\ Cardinality(Flow) + manager.timers <= used.flows
         /\ Cardinality(Unissued) + Len(codes) <= used.flows
         /\ Cardinality(calls) + manager.timers + Cardinality(Fetches)
              <= used.flows + used.pages + 2
BY DEF AccountTypes, BoundInv

\* No flow begins, no page is opened, and what one sum loses it gains elsewhere.
LEMMA SumsKept ==
  ASSUME AccountTypes, used'.flows = used.flows, used'.pages = used.pages,
         manager'.timers \in Nat, manager'.timers <= manager.timers, Len(codes') \in Nat,
         Cardinality(Flow') \in Nat, Cardinality(Flow') <= Cardinality(Flow),
         Cardinality(Unissued') \in Nat,
         Cardinality(Unissued') + Len(codes') <= Cardinality(Unissued) + Len(codes),
         Cardinality(calls') \in Nat, Cardinality(Fetches') \in Nat,
         Cardinality(calls') + Cardinality(Fetches') <= Cardinality(calls) + Cardinality(Fetches)
  PROVE  /\ Cardinality(Flow') + manager'.timers <= used'.flows
         /\ Cardinality(Unissued') + Len(codes') <= used'.flows
         /\ Cardinality(calls') + manager'.timers + Cardinality(Fetches')
              <= used'.flows + used'.pages + 2
<1> DEFINE c == Cardinality(calls)  f == Cardinality(Fetches)  t == manager.timers
           c1 == Cardinality(calls')  f1 == Cardinality(Fetches')  t1 == manager'.timers
           g == Cardinality(Flow)  u == Cardinality(Unissued)  k == Len(codes)
           g1 == Cardinality(Flow')  u1 == Cardinality(Unissued')  k1 == Len(codes')
           flows == used.flows  pages == used.pages
<1>1. /\ g + t <= flows /\ u + k <= flows /\ c + t + f <= flows + pages + 2
      /\ g \in Nat /\ t \in Nat /\ u \in Nat /\ k \in Nat /\ c \in Nat /\ f \in Nat
      /\ flows \in Nat /\ pages \in Nat
  BY Sums, Numbers, Sizes
<1>2. /\ t1 \in Nat /\ t1 <= t /\ g1 \in Nat /\ g1 <= g
      /\ u1 \in Nat /\ k1 \in Nat /\ u1 + k1 <= u + k
      /\ c1 \in Nat /\ f1 \in Nat /\ c1 + f1 <= c + f
  OBVIOUS
<1>3. used'.flows = flows /\ used'.pages = pages
  OBVIOUS
<1> HIDE DEF c, f, t, c1, f1, t1, g, u, k, g1, u1, k1, flows, pages
<1>4. g1 + t1 <= flows /\ u1 + k1 <= flows /\ c1 + t1 + f1 <= flows + pages + 2
  BY <1>1, <1>2
<1> QED BY <1>3, <1>4 DEF c1, f1, t1, g1, u1, k1

\* A flow passes its one place on: a request is posted for a timer (dt = -1) or
\* a timer is armed for an answered request (dt = 1).
LEMMA SumsPassed ==
  ASSUME AccountTypes, NEW dt \in {-1, 1}, manager'.timers = manager.timers + dt,
         manager'.timers \in Nat, codes' = codes, used' = used, wire' = wire,
         Cardinality(calls') \in Nat, Cardinality(calls') <= Cardinality(calls) - dt,
         Cardinality(Flow') \in Nat, Cardinality(Flow') <= Cardinality(Flow) - dt,
         Cardinality(Unissued') \in Nat, Cardinality(Unissued') <= Cardinality(Unissued)
  PROVE  /\ Cardinality(Flow') + manager'.timers <= used'.flows
         /\ Cardinality(Unissued') + Len(codes') <= used'.flows
         /\ Cardinality(calls') + manager'.timers + Cardinality(Fetches')
              <= used'.flows + used'.pages + 2
<1>1. Cardinality(Flow') + manager'.timers <= used'.flows
  <2>1. /\ Cardinality(Flow) + manager.timers <= used.flows
        /\ Cardinality(Flow) \in Nat /\ manager.timers \in Nat /\ used.flows \in Nat
    BY Sums, Numbers, Sizes
  <2> QED BY <2>1
<1>2. Cardinality(Unissued') + Len(codes') <= used'.flows
  <2>1. /\ Cardinality(Unissued) + Len(codes) <= used.flows
        /\ Cardinality(Unissued) \in Nat /\ Len(codes) \in Nat /\ used.flows \in Nat
    BY Sums, Numbers, Sizes
  <2> QED BY <2>1
<1>3. Cardinality(calls') + manager'.timers + Cardinality(Fetches')
        <= used'.flows + used'.pages + 2
  <2>1. /\ Cardinality(calls) + manager.timers + Cardinality(Fetches)
             <= used.flows + used.pages + 2
        /\ Cardinality(calls) \in Nat /\ manager.timers \in Nat
        /\ Cardinality(Fetches) \in Nat /\ used.flows \in Nat /\ used.pages \in Nat
    BY Sums, Numbers, Sizes
  <2>2. Fetches' = Fetches
    BY DEF Fetches
  <2> QED BY <2>1, <2>2
<1> QED BY <1>1, <1>2, <1>3

LEMMA TypesReject ==
  ASSUME AccountTypes, RejectSheet
  PROVE  AccountTypes'
<1>0. /\ dead' = dead \cup {manager.job} /\ manager' = [manager EXCEPT !.code = NoCode]
      /\ sheet' = "closed"
      /\ UNCHANGED <<account, details, session, wire, calls, codes, accepted, used>>
  BY DEF RejectSheet, Cancel
<1>1. TypeOK /\ BoundInv
  BY DEF AccountTypes
<1>2. manager \in Managers
  BY <1>1 DEF TypeOK, Managers
<1>3. /\ manager' \in Managers /\ manager'.timers = manager.timers
      /\ manager'.job = manager.job
  BY <1>0, <1>2 DEF Managers
<1>4. dead' \subseteq 0..used'.jobs
  <2>1. dead \subseteq 0..used.jobs /\ manager.job <= used.jobs
    BY <1>1 DEF TypeOK, BoundInv
  <2> QED BY <1>0, <2>1, Numbers
<1>5. TypeOK'
  BY <1>0, <1>1, <1>3, <1>4 DEF TypeOK, Managers
<1>6. BoundInv'
  BY <1>0, <1>1, <1>3 DEF BoundInv, UsedType, Flow, Unissued, Fetches
<1> QED BY <1>5, <1>6 DEF AccountTypes

LEMMA TypesSignOut ==
  ASSUME AccountTypes, SignOut
  PROVE  AccountTypes'
<1>0. /\ account' = [owner |-> Nobody, profile |-> Nobody]
      /\ manager' = [manager EXCEPT !.bearer = Nobody] /\ wire' = Append(wire, Seat(Nobody))
      /\ UNCHANGED <<dead, details, sheet, session, calls, codes, accepted, used>>
  BY DEF SignOut
<1>1. TypeOK /\ BoundInv
  BY DEF AccountTypes
<1>2. manager \in Managers
  BY <1>1 DEF TypeOK, Managers
<1>3. /\ manager' \in Managers /\ manager'.timers = manager.timers
      /\ manager'.job = manager.job
  BY <1>0, <1>2 DEF Managers, People
<1>4. wire' \in Seq(Work) /\ Fetches' = Fetches
  BY <1>0, SeatQueued, Sizes DEF Fetches, FetchesOf, People
<1>5. account' \in Records
  BY <1>0 DEF Records, People
<1>6. TypeOK'
  BY <1>0, <1>1, <1>3, <1>4, <1>5 DEF TypeOK, Managers, Work, Records
<1>7. BoundInv'
  BY <1>0, <1>1, <1>3, <1>4 DEF BoundInv, UsedType, Flow, Unissued
<1> QED BY <1>6, <1>7 DEF AccountTypes

LEMMA TypesOpenPage ==
  ASSUME AccountTypes, OpenPage
  PROVE  AccountTypes'
<1>0. /\ used.pages < MaxPages
      /\ used' = [used EXCEPT !.loads = @ + 1, !.pages = @ + 1]
      /\ details' = Load(details) /\ wire' = Append(wire, Fetch(details'))
      /\ UNCHANGED <<manager, dead, account, sheet, session, calls, codes, accepted>>
  BY DEF OpenPage
<1>1. TypeOK /\ BoundInv
  BY DEF AccountTypes
<1>2. used \in Useds
  BY <1>1 DEF BoundInv, UsedType, Useds
<1>3. /\ used' \in Useds /\ used'.flows = used.flows /\ used'.pages = used.pages + 1
      /\ used'.jobs = used.jobs /\ used'.loads = used.loads + 1
  <2>1. used' = [used EXCEPT !.loads = @ + 1, !.pages = @ + 1]
    BY <1>0
  <2> DEFINE l == used.loads + 1  p == used.pages + 1
  <2>2. used' = [used EXCEPT !.loads = l, !.pages = p]
    BY <1>2, <2>1 DEF Useds
  <2>3. l \in Nat /\ p \in 0..MaxPages
    BY <1>0, Numbers, SMTT(20)
  <2> HIDE DEF l, p
  <2>4. /\ used' \in Useds /\ used'.flows = used.flows /\ used'.pages = p
        /\ used'.jobs = used.jobs /\ used'.loads = l
    BY <1>2, <2>2, <2>3 DEF Useds
  <2> QED BY <2>4 DEF l, p
<1>4. details' \in [job : 1..used'.loads, header : People] /\ details'.job \in Nat
  <2> DEFINE j == details.job + 1
  <2>1. details \in [job : 1..used.loads, header : People] /\ used.loads \in Nat
    BY <1>1, Numbers DEF TypeOK
  <2>2. details' = [details EXCEPT !.job = j] /\ j \in 1..used'.loads /\ j \in Nat
    BY <1>0, <1>3, <2>1 DEF Load
  <2> HIDE DEF j
  <2> QED BY <2>1, <2>2
<1>5. /\ wire' \in Seq(Work) /\ Cardinality(Fetches') \in Nat
      /\ Cardinality(Fetches') <= Cardinality(Fetches) + 1
  <2>1. wire' \in Seq(Work) /\ FetchesOf(wire') \subseteq FetchesOf(wire) \cup {Len(wire) + 1}
    BY <1>0, <1>4, FetchQueued, Sizes
  <2>2. Fetches = FetchesOf(wire) /\ Fetches' = FetchesOf(wire')
    BY DEF Fetches, FetchesOf
  <2> QED BY <2>1, <2>2, OneMore, Sizes
<1>6. TypeOK'
  BY <1>0, <1>1, <1>3, <1>4, <1>5 DEF TypeOK, Work
<1>7. BoundInv'
  <2>1. Flow' = Flow /\ Unissued' = Unissued
    BY <1>0 DEF Flow, Unissued
  <2>2. Cardinality(calls') + manager'.timers + Cardinality(Fetches')
          <= used'.flows + used'.pages + 2
    <3>1. /\ Cardinality(calls) + manager.timers + Cardinality(Fetches)
               <= used.flows + used.pages + 2
          /\ Cardinality(calls) \in Nat /\ manager.timers \in Nat
          /\ Cardinality(Fetches) \in Nat /\ used.flows \in Nat /\ used.pages \in Nat
      BY Sums, Numbers, Sizes
    <3>2. /\ used'.flows = used.flows /\ used'.pages = used.pages + 1
          /\ manager' = manager /\ calls' = calls
      BY <1>0, <1>3
    <3>3. Cardinality(Fetches') \in Nat /\ Cardinality(Fetches') <= Cardinality(Fetches) + 1
      BY <1>5
    <3> QED BY <3>1, <3>2, <3>3
  <2> QED BY <1>0, <1>1, <1>3, <2>1, <2>2 DEF BoundInv, UsedType, Useds
<1> QED BY <1>6, <1>7 DEF AccountTypes

\* What a step must do to keep the bounds, once it posts no request of its own job.
LEMMA BoundsKept ==
  ASSUME AccountTypes, used' \in Useds, codes' \in Seq(People \cup {Denied}),
         IsFiniteSet(calls'), manager'.job = manager.job, used'.jobs = used.jobs,
         \A c \in calls' : c.op # "profile" => c.job <= used.jobs,
         \A c \in calls' : c.op = "code" => c.answer \in {Waiting, Failed, Issued},
         \A c \in calls' : c.op = "refresh" => c.as \in Users,
         \A c \in calls' : c.op = "profile" => c.answer \in Users \cup {Waiting, Failed},
         Cardinality(Flow') + manager'.timers <= used'.flows,
         Cardinality(Unissued') + Len(codes') <= used'.flows,
         Cardinality(calls') + manager'.timers + Cardinality(Fetches')
              <= used'.flows + used'.pages + 2
  PROVE  BoundInv'
<1>1. manager.job <= used.jobs
  BY DEF AccountTypes, BoundInv
<1>2. UsedType'
  BY DEF UsedType, Useds
<1> QED BY <1>1, <1>2 DEF BoundInv

LEMMA TypesPoll ==
  ASSUME AccountTypes, Poll
  PROVE  AccountTypes'
<1>0. /\ manager.timers > 0 /\ manager' = [manager EXCEPT !.timers = @ - 1]
      /\ calls' = IF manager.code = NoCode THEN calls
                  ELSE calls \cup {Request("poll", manager.job, manager.code, Nobody)}
      /\ UNCHANGED <<dead, account, details, sheet, session, wire, codes, accepted, used>>
  BY DEF Poll
<1>1. TypeOK /\ BoundInv
  BY DEF AccountTypes
<1>2. manager \in Managers /\ used \in Useds
  BY <1>1 DEF TypeOK, Managers, BoundInv, UsedType, Useds
<1>3. /\ manager' \in Managers /\ manager'.timers = manager.timers - 1
      /\ manager'.job = manager.job /\ manager'.timers \in Nat
  <2> DEFINE t == manager.timers - 1
  <2>1. manager' = [manager EXCEPT !.timers = t] /\ t \in 0..MaxFlows /\ t \in Nat
    BY <1>0, <1>2, Numbers DEF Managers
  <2> HIDE DEF t
  <2>2. manager' \in Managers /\ manager'.timers = t /\ manager'.job = manager.job
    BY <1>2, <2>1 DEF Managers
  <2> QED BY <2>1, <2>2 DEF t
<1>4. Fetches' = Fetches /\ wire' = wire /\ codes' = codes /\ used' = used
  BY <1>0 DEF Fetches
<1>5. CASE manager.code = NoCode
  <2>1. calls' = calls /\ Flow' = Flow /\ Unissued' = Unissued
    BY <1>0, <1>5 DEF Flow, Unissued
  <2>2. TypeOK'
    BY <1>0, <1>1, <1>3, <2>1 DEF TypeOK, Managers
  <2>3. /\ Cardinality(Flow') + manager'.timers <= used'.flows
        /\ Cardinality(Unissued') + Len(codes') <= used'.flows
        /\ Cardinality(calls') + manager'.timers + Cardinality(Fetches')
              <= used'.flows + used'.pages + 2
    <3>1. manager'.timers <= manager.timers
      BY <1>3, Numbers
    <3>2. /\ Cardinality(Flow') = Cardinality(Flow) /\ Cardinality(calls') = Cardinality(calls)
          /\ Cardinality(Unissued') = Cardinality(Unissued) /\ Len(codes') = Len(codes)
          /\ Cardinality(Fetches') = Cardinality(Fetches)
      BY <1>4, <2>1
    <3>3. /\ Cardinality(Flow') \in Nat /\ Cardinality(Unissued') \in Nat
          /\ Cardinality(calls') \in Nat /\ Cardinality(Fetches') \in Nat /\ Len(codes') \in Nat
      BY <1>4, <2>1, Numbers, Sizes
    <3>4. /\ Cardinality(Flow') <= Cardinality(Flow)
          /\ Cardinality(Unissued') + Len(codes') <= Cardinality(Unissued) + Len(codes)
          /\ Cardinality(calls') + Cardinality(Fetches')
               <= Cardinality(calls) + Cardinality(Fetches)
      BY <3>2, <3>3
    <3> QED BY <1>3, <1>4, <3>1, <3>3, <3>4, SumsKept
  <2>4. BoundInv'
    BY <1>1, <1>2, <1>3, <1>4, <2>1, <2>3, BoundsKept DEF BoundInv
  <2> QED BY <2>2, <2>4 DEF AccountTypes
<1>6. CASE manager.code # NoCode
  <2>1. PICK r : r = Request("poll", manager.job, manager.code, Nobody)
    OBVIOUS
  <2>2. /\ r \in Calls /\ r.op = "poll" /\ r.job = manager.job /\ r.answer = Waiting
    <3>1. Cardinality(calls) < 3 * MaxFlows + MaxPages + 2
      BY <1>0, Room
    <3>2. manager.job \in Nat /\ manager.code \in Codes \cup {NoCode}
      BY <1>2 DEF Managers
    <3> QED BY <2>1, <3>1, <3>2, RequestType DEF Operations, People
  <2>3. calls' = calls \cup {r}
    BY <1>0, <1>6, <2>1
  <2>4. TypeOK'
    BY <1>0, <1>1, <1>3, <2>2, <2>3 DEF TypeOK, Managers
  <2>5. /\ IsFiniteSet(calls') /\ Cardinality(calls') \in Nat
        /\ Cardinality(Flow') \in Nat /\ Cardinality(Unissued') \in Nat
        /\ Cardinality(calls') <= Cardinality(calls) + 1
        /\ Cardinality(Flow') <= Cardinality(Flow) + 1
        /\ Cardinality(Unissued') <= Cardinality(Unissued)
    BY <2>2, <2>3, Posted
  <2>6. /\ Cardinality(Flow') + manager'.timers <= used'.flows
        /\ Cardinality(Unissued') + Len(codes') <= used'.flows
        /\ Cardinality(calls') + manager'.timers + Cardinality(Fetches')
              <= used'.flows + used'.pages + 2
    <3> DEFINE dt == -1
    <3>1. /\ dt \in {-1, 1} /\ manager'.timers = manager.timers + dt
          /\ Cardinality(calls') <= Cardinality(calls) - dt
          /\ Cardinality(Flow') <= Cardinality(Flow) - dt
      <4>1. dt \in {-1, 1}
        OBVIOUS
      <4>2. manager'.timers = manager.timers + dt
        BY <1>3, Numbers
      <4>3. Cardinality(calls) \in Nat /\ Cardinality(Flow) \in Nat
        BY Sizes
      <4>4. Cardinality(calls') <= Cardinality(calls) - dt
        BY <2>5, <4>3
      <4>5. Cardinality(Flow') <= Cardinality(Flow) - dt
        BY <2>5, <4>3
      <4> QED BY <4>1, <4>2, <4>4, <4>5
    <3> HIDE DEF dt
    <3> QED BY <1>3, <1>4, <2>5, <3>1, SumsPassed
  <2>7. /\ \A c \in calls' : c.op # "profile" => c.job <= used.jobs
        /\ \A c \in calls' : c.op = "code" => c.answer \in {Waiting, Failed, Issued}
        /\ \A c \in calls' : c.op = "refresh" => c.as \in Users
        /\ \A c \in calls' : c.op = "profile" => c.answer \in Users \cup {Waiting, Failed}
    BY <1>1, <2>2, <2>3 DEF BoundInv
  <2>8. BoundInv'
    BY <1>1, <1>2, <1>3, <1>4, <2>5, <2>6, <2>7, BoundsKept DEF BoundInv
  <2> QED BY <2>4, <2>8 DEF AccountTypes
<1> QED BY <1>5, <1>6

LEMMA TypesWorker ==
  ASSUME AccountTypes, WorkerRuns
  PROVE  AccountTypes'
<1>0. /\ wire # <<>> /\ wire' = Tail(wire)
      /\ \/ /\ Head(wire).op = "bearer" /\ session' = Head(wire).as /\ calls' = calls
         \/ /\ Head(wire).op = "fetch" /\ session' = session
            /\ calls' = calls \cup {Request("profile", Head(wire).job, NoCode, session)}
      /\ UNCHANGED <<manager, dead, account, details, sheet, codes, accepted, used>>
  BY DEF WorkerRuns, gui
<1>1. TypeOK /\ BoundInv
  BY DEF AccountTypes
<1>2. used \in Useds /\ Fetches = FetchesOf(wire) /\ Fetches' = FetchesOf(wire')
  BY <1>1 DEF BoundInv, UsedType, Useds, Fetches, FetchesOf
<1>3. /\ Head(wire) \in Work /\ wire' \in Seq(Work)
      /\ Cardinality(Fetches') \in Nat /\ Cardinality(Fetches') <= Cardinality(Fetches)
      /\ Head(wire).op = "fetch" => Cardinality(Fetches') <= Cardinality(Fetches) - 1
      /\ Head(wire).op = "fetch" => Cardinality(Fetches) > 0
  <2>1. /\ Head(wire) \in Work /\ wire' \in Seq(Work)
        /\ Cardinality(Fetches') \in Nat /\ Cardinality(Fetches') <= Cardinality(Fetches)
        /\ Head(wire).op = "fetch" => Cardinality(Fetches') <= Cardinality(Fetches) - 1
    BY <1>0, <1>2, WireTail, Sizes
  <2> QED BY <2>1, Sizes
<1>4. /\ manager'.timers \in Nat /\ manager'.timers <= manager.timers
      /\ Len(codes') \in Nat /\ Len(codes') = Len(codes) /\ codes' = codes /\ used' = used
      /\ manager' = manager
  BY <1>0, Numbers
<1>5. CASE Head(wire).op = "bearer"
  <2>1. calls' = calls /\ Flow' = Flow /\ Unissued' = Unissued /\ session' \in People
    BY <1>0, <1>3, <1>5 DEF Flow, Unissued, Work
  <2>2. TypeOK'
    BY <1>0, <1>1, <1>3, <2>1 DEF TypeOK, Work
  <2>3. /\ Cardinality(Flow') + manager'.timers <= used'.flows
        /\ Cardinality(Unissued') + Len(codes') <= used'.flows
        /\ Cardinality(calls') + manager'.timers + Cardinality(Fetches')
              <= used'.flows + used'.pages + 2
    <3>1. /\ Cardinality(Flow') = Cardinality(Flow) /\ Cardinality(calls') = Cardinality(calls)
          /\ Cardinality(Unissued') = Cardinality(Unissued)
      BY <2>1
    <3>2. Cardinality(calls') + Cardinality(Fetches')
            <= Cardinality(calls) + Cardinality(Fetches)
      BY <1>3, <3>1, Sizes
    <3> QED BY <1>3, <1>4, <3>1, <3>2, SumsKept, Numbers, Sizes, SMTT(20)
  <2>4. BoundInv'
    BY <1>1, <1>2, <1>4, <2>1, <2>3, BoundsKept DEF BoundInv
  <2> QED BY <2>2, <2>4 DEF AccountTypes
<1>6. CASE Head(wire).op = "fetch"
  <2>1. PICK r : r = Request("profile", Head(wire).job, NoCode, session)
    OBVIOUS
  <2>2. r \in Calls /\ r.op = "profile" /\ r.answer = Waiting
    <3>1. Cardinality(calls) < 3 * MaxFlows + MaxPages + 2
      BY <1>3, <1>6, Room
    <3>2. Head(wire).job \in Nat /\ session \in People /\ NoCode \in Codes \cup {NoCode}
      BY <1>1, <1>3 DEF Work, TypeOK
    <3> QED BY <2>1, <3>1, <3>2, RequestType DEF Operations
  <2>3. calls' = calls \cup {r}
    BY <1>0, <1>6, <2>1
  <2>4. TypeOK'
    BY <1>0, <1>1, <1>3, <1>6, <2>2, <2>3 DEF TypeOK, Work
  <2>5. /\ IsFiniteSet(calls') /\ Cardinality(calls') \in Nat
        /\ Cardinality(Flow') \in Nat /\ Cardinality(Unissued') \in Nat
        /\ Cardinality(calls') <= Cardinality(calls) + 1
        /\ Cardinality(Flow') <= Cardinality(Flow)
        /\ Cardinality(Unissued') <= Cardinality(Unissued)
    BY <2>2, <2>3, Posted
  <2>6. /\ Cardinality(Flow') + manager'.timers <= used'.flows
        /\ Cardinality(Unissued') + Len(codes') <= used'.flows
        /\ Cardinality(calls') + manager'.timers + Cardinality(Fetches')
              <= used'.flows + used'.pages + 2
    <3>1. Cardinality(calls') + Cardinality(Fetches')
            <= Cardinality(calls) + Cardinality(Fetches)
      BY <1>3, <1>6, <2>5, Sizes
    <3>2. Cardinality(Unissued') + Len(codes') <= Cardinality(Unissued) + Len(codes)
      BY <1>4, <2>5, Sizes
    <3> QED BY <1>3, <1>4, <2>5, <3>1, <3>2, SumsKept
  <2>7. /\ \A c \in calls' : c.op # "profile" => c.job <= used.jobs
        /\ \A c \in calls' : c.op = "code" => c.answer \in {Waiting, Failed, Issued}
        /\ \A c \in calls' : c.op = "refresh" => c.as \in Users
        /\ \A c \in calls' : c.op = "profile" => c.answer \in Users \cup {Waiting, Failed}
    BY <1>1, <2>2, <2>3 DEF BoundInv
  <2>8. BoundInv'
    BY <1>1, <1>2, <1>4, <2>5, <2>6, <2>7, BoundsKept DEF BoundInv
  <2> QED BY <2>4, <2>8 DEF AccountTypes
<1> QED BY <1>0, <1>5, <1>6

Verdicts == People \cup {Denied}

\* A code's verdict is replaced in its place.
LEMMA CodeDecided ==
  ASSUME NEW s \in Seq(Verdicts), NEW k, NEW v \in Verdicts
  PROVE  /\ [s EXCEPT ![k] = v] \in Seq(Verdicts)
         /\ Len([s EXCEPT ![k] = v]) = Len(s)
<1>1. s \in [1..Len(s) -> Verdicts] /\ Len(s) \in Nat
  BY LenProperties
<1> DEFINE t == [s EXCEPT ![k] = v]
<1>2. t \in [1..Len(s) -> Verdicts]
  BY <1>1
<1> HIDE DEF t
<1>3. t \in Seq(Verdicts) /\ Len(t) = Len(s)
  BY <1>1, <1>2, IsASeq, LenProperties
<1> QED BY <1>3 DEF t

LEMMA CodeNumbers ==
  ASSUME NEW s \in Seq(Verdicts), Len(s) <= MaxFlows
  PROVE  \A k \in DOMAIN s : k \in Codes /\ s[k] \in Verdicts
<1>1. Len(s) \in Nat /\ DOMAIN s = 1..Len(s) /\ MaxFlows \in Nat
  BY LenProperties, AccountAssumption
<1>2. \A k \in 1..Len(s) : s[k] \in Verdicts
  BY ElementOfSeq
<1> QED BY <1>1, <1>2 DEF Codes

\* The request as it is once the server has answered.
Answered(c, a) ==
  [c EXCEPT !.answer = a, !.code = IF a = Issued THEN Len(codes) + 1 ELSE @]

LEMMA AnswerTypes ==
  ASSUME AccountTypes, NEW c \in calls, c.answer = Waiting, NEW a \in Answers(c) \cup {Failed}
  PROVE  /\ a \in Users \cup {Failed, Pending, Issued} /\ a # Waiting
         /\ a = Issued <=> (c.op = "code" /\ a # Failed)
         /\ a = Issued => Len(codes) + 1 \in Codes
         /\ c.op = "refresh" => a \in {c.as, Failed}
         /\ c.op = "profile" => a \in {c.as, Failed}
         /\ c.op = "profile" => a \in Users \cup {Failed}
<1>1. Users \cap {Waiting, Failed, Pending, Issued} = {}
  BY AnswersAssumption
<1>2. c.op \in {"code", "poll", "refresh", "profile"} /\ c.as \in People
  BY CallFields DEF Operations
<1>3. Pending # Issued /\ Pending # Waiting /\ Issued # Waiting /\ Failed # Issued
      /\ Failed # Waiting
  BY DEF Pending, Issued, Waiting, Failed
<1>4. CASE a = Failed
  BY <1>3, <1>4
<1>5. CASE c.op = "code" /\ a # Failed
  <2>1. a = Issued
    BY <1>5 DEF Answers
  <2>2. c \in Unissued
    BY <1>5 DEF Unissued
  <2>3. Cardinality(Unissued) >= 1 /\ Cardinality(Unissued) \in Nat
    <3>1. {} \subseteq Unissued \ {c} /\ IsFiniteSet(Unissued)
      BY Sizes
    <3>2. Cardinality({}) \in Nat /\ Cardinality({}) <= Cardinality(Unissued) - 1
      BY <2>2, <3>1, OneLess
    <3> QED BY <3>2, Sizes
  <2>4. Len(codes) + 1 <= MaxFlows
    BY <2>3, Sums, Numbers
  <2> QED BY <1>3, <1>5, <2>1, <2>4, Numbers DEF Codes
<1>6. CASE c.op = "poll" /\ a # Failed
  <2>1. a \in Users \cup {Pending}
    BY <1>6 DEF Answers
  <2> QED BY <1>1, <1>3, <1>6, <2>1
<1>7. CASE c.op = "refresh" /\ a # Failed
  <2>1. a = c.as
    BY <1>7 DEF Answers
  <2>2. a \in Users
    BY <1>7, <2>1 DEF AccountTypes, BoundInv
  <2> QED BY <1>1, <1>3, <1>7, <2>1, <2>2
<1>8. CASE c.op = "profile" /\ a # Failed
  <2>1. a = c.as /\ a \in accepted /\ accepted \subseteq Users
    BY <1>8 DEF Answers, AccountTypes, TypeOK
  <2> QED BY <1>1, <1>3, <1>8, <2>1
<1> QED BY <1>2, <1>4, <1>5, <1>6, <1>7, <1>8

\* The answer a for the request c, and what the server's records become.
Replied(c, a) ==
  /\ c.answer = Waiting
  /\ calls' = (calls \ {c}) \cup {Answered(c, a)}
  /\ codes' = IF a = Issued THEN Append(codes, Nobody)
              ELSE IF c.op = "poll" /\ a \in Users
                   THEN [codes EXCEPT ![c.code] = Denied] ELSE codes
  /\ accepted' = IF c.op \in {"poll", "refresh"} THEN accepted \cup ({a} \cap Users)
                 ELSE accepted
  /\ UNCHANGED <<manager, dead, account, details, sheet, session, wire, used>>

LEMMA AnswerStep ==
  ASSUME AccountTypes, NEW n \in Slots, Answer(n)
  PROVE  \E c \in calls : \E a \in Answers(c) \cup {Failed} : Replied(c, a)
<1>1. PICK c \in calls :
        /\ c.answer = Waiting
        /\ \E a \in Answers(c) \cup {Failed} :
             /\ calls' = (calls \ {c}) \cup {Answered(c, a)}
             /\ codes' = CASE a = Issued -> Append(codes, Nobody)
                           [] c.op = "poll" /\ a \in Users -> [codes EXCEPT ![c.code] = Denied]
                           [] OTHER -> codes
             /\ accepted' = IF c.op \in {"poll", "refresh"} THEN accepted \cup ({a} \cap Users)
                            ELSE accepted
        /\ UNCHANGED <<gui, session, wire, used>>
  BY DEF Answer, Answered
<1>2. PICK a \in Answers(c) \cup {Failed} :
        /\ calls' = (calls \ {c}) \cup {Answered(c, a)}
        /\ codes' = CASE a = Issued -> Append(codes, Nobody)
                      [] c.op = "poll" /\ a \in Users -> [codes EXCEPT ![c.code] = Denied]
                      [] OTHER -> codes
        /\ accepted' = IF c.op \in {"poll", "refresh"} THEN accepted \cup ({a} \cap Users)
                       ELSE accepted
  BY <1>1
<1>3. Issued \notin Users
  BY AnswersAssumption
<1>4. codes' = IF a = Issued THEN Append(codes, Nobody)
               ELSE IF c.op = "poll" /\ a \in Users
                    THEN [codes EXCEPT ![c.code] = Denied] ELSE codes
  BY <1>2, <1>3
<1> QED BY <1>1, <1>2, <1>4 DEF Replied, gui

LEMMA AnsweredFields ==
  ASSUME AccountTypes, NEW c \in calls, c.answer = Waiting, NEW a \in Answers(c) \cup {Failed}
  PROVE  /\ Answered(c, a) \in Calls /\ Answered(c, a).answer = a
         /\ Answered(c, a).op = c.op /\ Answered(c, a).job = c.job
         /\ Answered(c, a).as = c.as
<1>1. c \in Calls
  BY CallFields
<1> DEFINE k == IF a = Issued THEN Len(codes) + 1 ELSE c.code
<1>2. k \in Codes \cup {NoCode} /\ a \in Users \cup {Waiting, Failed, Pending, Issued}
  BY AnswerTypes, CallFields
<1>3. Answered(c, a) = [c EXCEPT !.answer = a, !.code = k]
  BY <1>1 DEF Answered, Calls
<1> HIDE DEF k
<1>4. PICK d : d = Answered(c, a)
  OBVIOUS
<1>5. d \in Calls /\ d.answer = a /\ d.op = c.op /\ d.job = c.job /\ d.as = c.as
  BY <1>1, <1>2, <1>3, <1>4 DEF Calls
<1> QED BY <1>4, <1>5

LEMMA TypesAnswer ==
  ASSUME AccountTypes, NEW n \in Slots, Answer(n)
  PROVE  AccountTypes'
<1>a. PICK c \in calls : \E a \in Answers(c) \cup {Failed} : Replied(c, a)
  BY AnswerStep
<1>b. PICK a \in Answers(c) \cup {Failed} : Replied(c, a)
  BY <1>a
<1>0. /\ c.answer = Waiting
      /\ calls' = (calls \ {c}) \cup {Answered(c, a)}
      /\ codes' = IF a = Issued THEN Append(codes, Nobody)
                  ELSE IF c.op = "poll" /\ a \in Users
                       THEN [codes EXCEPT ![c.code] = Denied] ELSE codes
      /\ accepted' = IF c.op \in {"poll", "refresh"} THEN accepted \cup ({a} \cap Users)
                     ELSE accepted
      /\ UNCHANGED <<manager, dead, account, details, sheet, session, wire, used>>
  BY <1>b DEF Replied
<1>1. TypeOK /\ BoundInv
  BY DEF AccountTypes
<1>2. PICK d : d = Answered(c, a)
  OBVIOUS
<1>3. /\ d \in Calls /\ d.answer = a /\ d.op = c.op /\ d.job = c.job /\ d.as = c.as
      /\ calls' = (calls \ {c}) \cup {d}
  BY <1>0, <1>2, AnsweredFields
<1>4. /\ a # Waiting /\ (a = Issued <=> (c.op = "code" /\ a # Failed))
      /\ c.op = "profile" => a \in Users \cup {Failed}
  BY <1>0, AnswerTypes
<1>5. /\ IsFiniteSet(calls') /\ Cardinality(calls') \in Nat
      /\ Cardinality(Flow') \in Nat /\ Cardinality(Unissued') \in Nat
      /\ Cardinality(calls') <= Cardinality(calls)
      /\ Cardinality(Flow') <= Cardinality(Flow)
      /\ Cardinality(Unissued') <= Cardinality(Unissued)
      /\ c.op = "code" => Cardinality(Unissued') <= Cardinality(Unissued) - 1
  BY <1>0, <1>3, <1>4, Answering
<1>6. codes \in Seq(Verdicts) /\ Nobody \in Verdicts /\ Denied \in Verdicts
  BY <1>1 DEF BoundInv, Verdicts, People
<1>7. /\ codes' \in Seq(Verdicts) /\ Len(codes') \in Nat
      /\ Cardinality(Unissued') + Len(codes') <= Cardinality(Unissued) + Len(codes)
  <2>0. Len(codes) \in Nat /\ Cardinality(Unissued) \in Nat
    BY Numbers, Sizes
  <2>1. CASE a = Issued
    <3>1. codes' = Append(codes, Nobody)
      BY <1>0, <2>1
    <3>2. codes' \in Seq(Verdicts) /\ Len(codes') = Len(codes) + 1
      BY <1>6, <3>1, AppendProperties
    <3>3. Cardinality(Unissued') <= Cardinality(Unissued) - 1
      BY <1>4, <1>5, <2>1
    <3> QED BY <1>5, <2>0, <3>2, <3>3
  <2>2. CASE a # Issued
    <3>1. codes' \in Seq(Verdicts) /\ Len(codes') = Len(codes)
      BY <1>0, <1>6, <2>2, CodeDecided
    <3> QED BY <1>5, <2>0, <3>1
  <2> QED BY <2>1, <2>2
<1>8. Fetches' = Fetches /\ used \in Useds
  BY <1>0, <1>1 DEF Fetches, BoundInv, UsedType, Useds
<1>9. /\ Cardinality(Flow') + manager'.timers <= used'.flows
      /\ Cardinality(Unissued') + Len(codes') <= used'.flows
      /\ Cardinality(calls') + manager'.timers + Cardinality(Fetches')
            <= used'.flows + used'.pages + 2
  <2>1. /\ Cardinality(Fetches') = Cardinality(Fetches) /\ Cardinality(Fetches) \in Nat
        /\ Cardinality(calls) \in Nat
    BY <1>8, Sizes
  <2>2. Cardinality(calls') + Cardinality(Fetches')
          <= Cardinality(calls) + Cardinality(Fetches)
    BY <1>5, <2>1
  <2>3. manager'.timers \in Nat /\ manager'.timers <= manager.timers /\ used' = used
    BY <1>0, Numbers
  <2> QED BY <1>5, <1>7, <2>1, <2>2, <2>3, SumsKept
<1>10. /\ \A e \in calls' : e.op # "profile" => e.job <= used.jobs
       /\ \A e \in calls' : e.op = "code" => e.answer \in {Waiting, Failed, Issued}
       /\ \A e \in calls' : e.op = "refresh" => e.as \in Users
       /\ \A e \in calls' : e.op = "profile" => e.answer \in Users \cup {Waiting, Failed}
  BY <1>1, <1>3, <1>4 DEF BoundInv
<1>11. BoundInv'
  BY <1>0, <1>5, <1>7, <1>8, <1>9, <1>10, BoundsKept DEF Verdicts
<1>12. \A k \in DOMAIN codes' : k \in Codes /\ codes'[k] \in Verdicts
  <2>1. Cardinality(Unissued') + Len(codes') <= used.flows
    BY <1>0, <1>9
  <2>2. used.flows <= MaxFlows /\ used.flows \in Nat /\ MaxFlows \in Nat
    BY Numbers
  <2>3. Len(codes') <= MaxFlows
    BY <1>5, <1>7, <2>1, <2>2
  <2> QED BY <1>7, <2>3, CodeNumbers
<1>13. TypeOK'
  BY <1>0, <1>1, <1>3, <1>12 DEF TypeOK, Verdicts
<1> QED BY <1>11, <1>13 DEF AccountTypes

LEMMA TypesDecide ==
  ASSUME AccountTypes, Decide
  PROVE  AccountTypes'
<1>0. PICK k \in DOMAIN codes, who \in Users \cup {Denied} :
        /\ codes' = [codes EXCEPT ![k] = who]
        /\ UNCHANGED <<manager, dead, account, details, sheet, session, wire, calls, accepted,
                       used>>
  BY DEF Decide, gui
<1>1. TypeOK /\ BoundInv
  BY DEF AccountTypes
<1>2. codes \in Seq(Verdicts) /\ who \in Verdicts
  BY <1>1 DEF BoundInv, Verdicts, People
<1>3. codes' \in Seq(Verdicts) /\ Len(codes') = Len(codes)
  BY <1>0, <1>2, CodeDecided
<1>4. \A j \in DOMAIN codes' : j \in Codes /\ codes'[j] \in Verdicts
  <2>1. Len(codes) <= MaxFlows
    <3>1. Cardinality(Unissued) + Len(codes) <= used.flows /\ used.flows <= MaxFlows
      BY Sums, Numbers
    <3>2. /\ Cardinality(Unissued) \in Nat /\ Len(codes) \in Nat
          /\ used.flows \in Nat /\ MaxFlows \in Nat
      BY Numbers, Sizes
    <3> QED BY <3>1, <3>2
  <2> QED BY <1>3, <2>1, CodeNumbers
<1>5. TypeOK'
  BY <1>0, <1>1, <1>4 DEF TypeOK, Verdicts
<1>6. BoundInv'
  BY <1>0, <1>1, <1>3 DEF BoundInv, UsedType, Flow, Unissued, Fetches, Verdicts
<1> QED BY <1>5, <1>6 DEF AccountTypes

LEMMA TypesExpire ==
  ASSUME AccountTypes, Expire
  PROVE  AccountTypes'
<1>0. /\ accepted' \subseteq accepted
      /\ UNCHANGED <<manager, dead, account, details, sheet, session, wire, calls, codes, used>>
  BY DEF Expire, gui
<1>1. TypeOK /\ BoundInv
  BY DEF AccountTypes
<1>2. TypeOK'
  BY <1>0, <1>1 DEF TypeOK
<1>3. BoundInv'
  BY <1>0, <1>1 DEF BoundInv, UsedType, Flow, Unissued, Fetches
<1> QED BY <1>2, <1>3 DEF AccountTypes

-----------------------------------------------------------------------------
(* Deliveries keep the types and the bounds                                *)

Delivered(c) ==
  /\ c.answer # Waiting /\ calls' = calls \ {c}
  /\ UNCHANGED <<dead, session, codes, accepted>>

LEMMA DeliverStep ==
  ASSUME NEW n \in Slots, Deliver(n)
  PROVE  \E c \in calls :
           /\ Delivered(c)
           /\ \/ UNCHANGED <<manager, account, details, sheet, wire, used>>
              \/ ~Dropped(c) /\ c.op = "code" /\ HandleDeviceCode(c)
              \/ ~Dropped(c) /\ c.op = "poll" /\ HandleToken(c)
              \/ ~Dropped(c) /\ c.op = "refresh" /\ HandleRefresh(c)
              \/ ~Dropped(c) /\ c.op = "profile" /\ ApplyAccount(c)
BY DEF Deliver, Delivered

\* A delivery frees the place of its request; at most one fetch takes it, or the
\* timer of the flow it was for.
LEMMA DeliveredBounds ==
  ASSUME AccountTypes, NEW c \in calls, Delivered(c), used' \in Useds,
         used'.flows = used.flows, used'.pages = used.pages, used'.jobs = used.jobs,
         manager'.job = manager.job, manager'.timers \in Nat,
         Cardinality(Fetches') \in Nat,
         \/ /\ manager'.timers = manager.timers
            /\ Cardinality(Fetches') <= Cardinality(Fetches) + 1
         \/ /\ manager'.timers = manager.timers + 1 /\ c.op \in {"code", "poll"}
            /\ used' = used /\ wire' = wire
  PROVE  BoundInv'
<1>1. BoundInv /\ calls' = calls \ {c} /\ codes' = codes
  BY DEF AccountTypes, Delivered
<1>2. /\ IsFiniteSet(calls') /\ Cardinality(calls') \in Nat
      /\ Cardinality(Flow') \in Nat /\ Cardinality(Unissued') \in Nat
      /\ Cardinality(calls') <= Cardinality(calls) - 1
      /\ Cardinality(Flow') <= Cardinality(Flow)
      /\ Cardinality(Unissued') <= Cardinality(Unissued)
      /\ c.op \in {"code", "poll"} => Cardinality(Flow') <= Cardinality(Flow) - 1
  BY <1>1, Done
<1>3. /\ Cardinality(Flow') + manager'.timers <= used'.flows
      /\ Cardinality(Unissued') + Len(codes') <= used'.flows
      /\ Cardinality(calls') + manager'.timers + Cardinality(Fetches')
            <= used'.flows + used'.pages + 2
  <2>1. CASE /\ manager'.timers = manager.timers
             /\ Cardinality(Fetches') <= Cardinality(Fetches) + 1
    <3>1. Cardinality(calls') + Cardinality(Fetches')
            <= Cardinality(calls) + Cardinality(Fetches)
      BY <1>2, <2>1, Sizes
    <3>2. /\ Len(codes') \in Nat
          /\ Cardinality(Unissued') + Len(codes') <= Cardinality(Unissued) + Len(codes)
      BY <1>1, <1>2, Numbers, Sizes
    <3>3. manager'.timers <= manager.timers
      BY <2>1, Numbers
    <3> QED BY <1>2, <3>1, <3>2, <3>3, SumsKept
  <2>2. CASE /\ manager'.timers = manager.timers + 1 /\ c.op \in {"code", "poll"}
             /\ used' = used /\ wire' = wire
    <3> DEFINE dt == 1
    <3>1. dt \in {-1, 1}
      OBVIOUS
    <3>2. /\ manager'.timers = manager.timers + dt
          /\ Cardinality(calls') <= Cardinality(calls) - dt
          /\ Cardinality(Flow') <= Cardinality(Flow) - dt
      BY <1>2, <2>2
    <3> HIDE DEF dt
    <3> QED BY <1>1, <1>2, <2>2, <3>1, <3>2, SumsPassed
  <2> QED BY <2>1, <2>2
<1>4. /\ \A e \in calls' : e.op # "profile" => e.job <= used.jobs
      /\ \A e \in calls' : e.op = "code" => e.answer \in {Waiting, Failed, Issued}
      /\ \A e \in calls' : e.op = "refresh" => e.as \in Users
      /\ \A e \in calls' : e.op = "profile" => e.answer \in Users \cup {Waiting, Failed}
  BY <1>1 DEF BoundInv
<1>5. codes' \in Seq(People \cup {Denied})
  BY <1>1 DEF BoundInv
<1> QED BY <1>2, <1>3, <1>4, <1>5, BoundsKept

LEMMA TypesDropped ==
  ASSUME AccountTypes, NEW c \in calls, Delivered(c),
         UNCHANGED <<manager, account, details, sheet, wire, used>>
  PROVE  AccountTypes'
<1>1. TypeOK /\ BoundInv
  BY DEF AccountTypes
<1>2. TypeOK'
  BY <1>1 DEF TypeOK, Delivered
<1>3. BoundInv'
  <2>1. used \in Useds /\ Fetches' = Fetches
    BY <1>1 DEF BoundInv, UsedType, Useds, Fetches
  <2>2. Cardinality(Fetches') <= Cardinality(Fetches) + 1 /\ Cardinality(Fetches') \in Nat
    BY <2>1, Sizes
  <2>3. manager'.timers = manager.timers /\ manager'.timers \in Nat
    BY Numbers
  <2> QED BY <2>1, <2>2, <2>3, DeliveredBounds
<1> QED BY <1>2, <1>3 DEF AccountTypes

\* A timer armed: what the code's own answer and an unfinished poll do.
LEMMA TimerArmed ==
  ASSUME AccountTypes, NEW c \in calls, Delivered(c), c.op \in {"code", "poll"},
         NEW k \in Codes \cup {NoCode},
         manager' = [manager EXCEPT !.code = k, !.timers = @ + 1],
         sheet' \in {"closed", "request", "wait", "error"},
         UNCHANGED <<account, details, wire, used>>
  PROVE  AccountTypes'
<1>1. TypeOK /\ BoundInv
  BY DEF AccountTypes
<1>2. manager \in Managers /\ used \in Useds /\ Fetches' = Fetches
  BY <1>1 DEF TypeOK, Managers, BoundInv, UsedType, Useds, Fetches
<1>3. /\ manager'.timers = manager.timers + 1 /\ manager'.job = manager.job
      /\ manager'.timers \in Nat
      /\ (manager'.timers <= MaxFlows => manager' \in Managers)
  <2> DEFINE t == manager.timers + 1
  <2>1. manager' = [manager EXCEPT !.code = k, !.timers = t] /\ t \in Nat
    BY <1>2, Numbers DEF Managers
  <2> HIDE DEF t
  <2>2. manager'.timers = t /\ manager'.job = manager.job
    BY <1>2, <2>1 DEF Managers
  <2>3. ASSUME t <= MaxFlows PROVE manager' \in Managers
    <3>1. t \in 0..MaxFlows
      BY <2>1, <2>3, Numbers
    <3> QED BY <1>2, <2>1, <3>1 DEF Managers
  <2> QED BY <2>1, <2>2, <2>3 DEF t
<1>4. Cardinality(Fetches') \in Nat
  BY <1>2, Sizes
<1>5. BoundInv'
  BY <1>2, <1>3, <1>4, DeliveredBounds
<1>6. manager' \in Managers
  <2>1. /\ Cardinality(Flow') + manager'.timers <= used'.flows /\ used' = used
        /\ used.flows \in Nat /\ used.flows <= MaxFlows /\ MaxFlows \in Nat
    BY <1>5, Numbers DEF BoundInv
  <2>2. Cardinality(Flow') \in Nat
    BY Done DEF Delivered
  <2>3. manager'.timers <= MaxFlows
    BY <1>3, <2>1, <2>2
  <2> QED BY <1>3, <2>3
<1>7. TypeOK'
  BY <1>1, <1>6 DEF TypeOK, Managers, Delivered
<1> QED BY <1>5, <1>7 DEF AccountTypes

\* Nothing is armed and nothing queued for the session but a bearer.
LEMMA Concluded ==
  ASSUME AccountTypes, NEW c \in calls, Delivered(c),
         manager' \in Managers, manager'.job = manager.job, manager'.timers = manager.timers,
         sheet' \in {"closed", "request", "wait", "error"},
         account' \in Records, details' \in [job : 1..used.loads, header : People],
         \/ wire' = wire
         \/ \E u \in People : wire' = Append(wire, Seat(u)),
         used' = used
  PROVE  AccountTypes'
<1>1. TypeOK /\ BoundInv
  BY DEF AccountTypes
<1>2. used \in Useds /\ used' = used
  BY <1>1 DEF BoundInv, UsedType, Useds
<1>3. wire' \in Seq(Work) /\ Fetches' = Fetches
  <2>1. wire' \in Seq(Work) /\ FetchesOf(wire') = FetchesOf(wire)
    BY SeatQueued, Sizes
  <2> QED BY <2>1 DEF Fetches, FetchesOf
<1>4. Cardinality(Fetches') <= Cardinality(Fetches) + 1 /\ Cardinality(Fetches') \in Nat
  BY <1>3, Sizes
<1>5. manager'.timers \in Nat
  BY Numbers
<1>6. BoundInv'
  BY <1>2, <1>4, <1>5, DeliveredBounds
<1>7. TypeOK'
  BY <1>1, <1>3 DEF TypeOK, Managers, Records, Work, Delivered
<1> QED BY <1>6, <1>7 DEF AccountTypes

\* The user has approved: the account, its bearer and its identity.
LEMMA TypesGranted ==
  ASSUME AccountTypes, NEW c \in calls, Delivered(c), NEW u \in Users, Granted(u)
  PROVE  AccountTypes'
<1>0. /\ used' = [used EXCEPT !.loads = @ + 1]
      /\ account' = [owner |-> u, profile |-> Nobody]
      /\ manager' = [manager EXCEPT !.bearer = u, !.code = NoCode]
      /\ details' = Load(details)
      /\ wire' = wire \o <<Seat(u), Fetch(details')>>
      /\ sheet' = "closed"
  BY DEF Granted
<1>1. TypeOK /\ BoundInv
  BY DEF AccountTypes
<1>2. manager \in Managers /\ used \in Useds /\ u \in People
  BY <1>1 DEF TypeOK, Managers, BoundInv, UsedType, Useds, People
<1>3. /\ manager' \in Managers /\ manager'.timers = manager.timers
      /\ manager'.job = manager.job
  BY <1>0, <1>2 DEF Managers
<1>4. /\ used' \in Useds /\ used'.flows = used.flows /\ used'.pages = used.pages
      /\ used'.jobs = used.jobs /\ used'.loads = used.loads + 1
  <2> DEFINE l == used.loads + 1
  <2>1. used' = [used EXCEPT !.loads = l] /\ l \in Nat
    BY <1>0, <1>2, Numbers, SMTT(20)
  <2> HIDE DEF l
  <2>2. /\ used' \in Useds /\ used'.flows = used.flows /\ used'.pages = used.pages
        /\ used'.jobs = used.jobs /\ used'.loads = l
    BY <1>2, <2>1 DEF Useds
  <2> QED BY <2>2 DEF l
<1>5. details' \in [job : 1..used'.loads, header : People] /\ details'.job \in Nat
  <2> DEFINE j == details.job + 1
  <2>1. details \in [job : 1..used.loads, header : People] /\ used.loads \in Nat
    BY <1>1, Numbers DEF TypeOK
  <2>2. details' = [details EXCEPT !.job = j] /\ j \in 1..used'.loads /\ j \in Nat
    BY <1>0, <1>4, <2>1 DEF Load
  <2> HIDE DEF j
  <2> QED BY <2>1, <2>2
<1>6. /\ wire' \in Seq(Work) /\ Cardinality(Fetches') \in Nat
      /\ Cardinality(Fetches') <= Cardinality(Fetches) + 1
  <2>1. PICK w : w = Append(wire, Seat(u))
    OBVIOUS
  <2>2. w \in Seq(Work) /\ FetchesOf(w) = FetchesOf(wire)
    BY <1>2, <2>1, SeatQueued, Sizes
  <2>3. wire' = Append(w, Fetch(details'))
    <3>1. Seat(u) \in Work /\ Fetch(details') \in Work
      BY <1>2, <1>5 DEF Seat, Fetch, Work, People
    <3> QED BY <1>0, <2>1, <3>1, TwoQueued, Sizes
  <2>4. wire' \in Seq(Work) /\ FetchesOf(wire') \subseteq FetchesOf(w) \cup {Len(w) + 1}
    BY <1>5, <2>2, <2>3, FetchQueued
  <2>5. Fetches = FetchesOf(w) /\ Fetches' = FetchesOf(wire')
    BY <2>2 DEF Fetches, FetchesOf
  <2> QED BY <2>4, <2>5, OneMore, Sizes
<1>7. BoundInv'
  <2>1. manager'.timers \in Nat
    BY <1>3, Numbers
  <2> QED BY <1>3, <1>4, <1>6, <2>1, DeliveredBounds
<1>8. TypeOK'
  <2>1. account' \in Records
    BY <1>0, <1>2 DEF Records, People
  <2>2. dead' \subseteq 0..used'.jobs
    BY <1>1, <1>4 DEF TypeOK, Delivered
  <2> QED BY <1>0, <1>1, <1>3, <1>5, <1>6, <2>1, <2>2
          DEF TypeOK, Managers, Records, Work, Delivered
<1> QED BY <1>7, <1>8 DEF AccountTypes

LEMMA TypesDeliver ==
  ASSUME AccountTypes, NEW n \in Slots, Deliver(n)
  PROVE  AccountTypes'
<1>1. PICK c \in calls :
        /\ Delivered(c)
        /\ \/ UNCHANGED <<manager, account, details, sheet, wire, used>>
           \/ ~Dropped(c) /\ c.op = "code" /\ HandleDeviceCode(c)
           \/ ~Dropped(c) /\ c.op = "poll" /\ HandleToken(c)
           \/ ~Dropped(c) /\ c.op = "refresh" /\ HandleRefresh(c)
           \/ ~Dropped(c) /\ c.op = "profile" /\ ApplyAccount(c)
  BY DeliverStep
<1>2. TypeOK /\ BoundInv
  BY DEF AccountTypes
<1>3. /\ manager \in Managers /\ account \in Records
      /\ details \in [job : 1..used.loads, header : People]
      /\ sheet \in {"closed", "request", "wait", "error"}
      /\ c.code \in Codes \cup {NoCode}
  BY <1>2, CallFields DEF TypeOK, Managers, Records
<1>4. CASE UNCHANGED <<manager, account, details, sheet, wire, used>>
  BY <1>1, <1>4, TypesDropped
<1>5. CASE c.op = "code" /\ HandleDeviceCode(c)
  <2>1. UNCHANGED <<account, details, wire, used>>
        /\ sheet' \in {"closed", "request", "wait", "error"}
    BY <1>3, <1>5 DEF HandleDeviceCode, AuthFailed
  <2>2. CASE c.answer = Failed /\ manager' = manager
    BY <1>1, <1>3, <2>1, <2>2, Concluded
  <2>3. CASE manager' = [manager EXCEPT !.code = c.code, !.timers = @ + 1]
    BY <1>1, <1>3, <1>5, <2>1, <2>3, TimerArmed
  <2> QED BY <1>5, <2>2, <2>3 DEF HandleDeviceCode
<1>6. CASE c.op = "poll" /\ HandleToken(c)
  <2>1. CASE UNCHANGED <<manager, account, details, sheet, wire, used>>
    BY <1>1, <2>1, TypesDropped
  <2>2. CASE c.answer \in Users /\ Granted(c.answer)
    BY <1>1, <2>2, TypesGranted
  <2>3. CASE /\ manager' = [manager EXCEPT !.timers = @ + 1]
             /\ UNCHANGED <<account, details, sheet, wire, used>>
    <3>1. manager' = [manager EXCEPT !.code = manager.code, !.timers = @ + 1]
      BY <1>3, <2>3 DEF Managers
    <3>2. manager.code \in Codes \cup {NoCode}
      BY <1>3 DEF Managers
    <3> QED BY <1>1, <1>3, <1>6, <2>3, <3>1, <3>2, TimerArmed
  <2>4. CASE /\ manager' = [manager EXCEPT !.code = NoCode] /\ AuthFailed
             /\ UNCHANGED <<account, details, wire, used>>
    <3>1. /\ manager' \in Managers /\ manager'.job = manager.job
          /\ manager'.timers = manager.timers
      BY <1>3, <2>4 DEF Managers
    <3>2. sheet' \in {"closed", "request", "wait", "error"}
      BY <1>3, <2>4 DEF AuthFailed
    <3> QED BY <1>1, <1>3, <2>4, <3>1, <3>2, Concluded
  <2> QED BY <1>6, <2>1, <2>2, <2>3, <2>4 DEF HandleToken
<1>7. CASE c.op = "refresh" /\ HandleRefresh(c)
  <2>1. UNCHANGED <<account, details, sheet, used>>
    BY <1>7 DEF HandleRefresh
  <2>2. CASE /\ c.answer \in Users
             /\ manager' = [manager EXCEPT !.bearer = c.answer]
             /\ wire' = Append(wire, Seat(c.answer))
    <3>1. c.answer \in People
      BY <2>2 DEF People
    <3>2. /\ manager' \in Managers /\ manager'.job = manager.job
          /\ manager'.timers = manager.timers
      BY <1>3, <2>2, <3>1 DEF Managers
    <3> QED BY <1>1, <1>3, <2>1, <2>2, <3>1, <3>2, Concluded
  <2>3. CASE UNCHANGED <<manager, wire>>
    BY <1>1, <1>3, <2>1, <2>3, Concluded
  <2> QED BY <1>7, <2>2, <2>3 DEF HandleRefresh
<1>8. CASE c.op = "profile" /\ ApplyAccount(c)
  <2>1. UNCHANGED <<manager, sheet, wire, used>>
    BY <1>8 DEF ApplyAccount
  <2>2. account' \in Records /\ details' \in [job : 1..used.loads, header : People]
    <3>1. CASE c.answer = Failed
      BY <1>3, <1>8, <3>1 DEF ApplyAccount
    <3>2. CASE c.answer # Failed
      <4>1. c.answer \in Users /\ c.answer \in People
        BY <1>1, <1>2, <1>8, <3>2 DEF BoundInv, Delivered, People
      <4>2. /\ details' = [details EXCEPT !.header = c.answer]
            /\ account' = [account EXCEPT !.profile = c.answer] \/ account' = account
        BY <1>8, <3>2 DEF ApplyAccount
      <4> QED BY <1>3, <4>1, <4>2 DEF Records
    <3> QED BY <3>1, <3>2
  <2> QED BY <1>1, <1>3, <2>1, <2>2, Concluded
<1> QED BY <1>1, <1>4, <1>5, <1>6, <1>7, <1>8

LEMMA TypesNext ==
  ASSUME AccountTypes, Next
  PROVE  AccountTypes'
<1>1. CASE OpenSheet \/ TryAgain
  BY <1>1, TypesSignIn DEF OpenSheet, TryAgain
<1>2. CASE RejectSheet
  BY <1>2, TypesReject
<1>3. CASE SignOut
  BY <1>3, TypesSignOut
<1>4. CASE OpenPage
  BY <1>4, TypesOpenPage
<1>5. CASE Restart
  BY <1>5, TypesRestart
<1>6. CASE Decide \/ Expire
  BY <1>6, TypesDecide, TypesExpire
<1>7. CASE \E n \in Slots : Answer(n)
  BY <1>7, TypesAnswer
<1>8. CASE Poll
  BY <1>8, TypesPoll
<1>9. CASE WorkerRuns
  BY <1>9, TypesWorker
<1>10. CASE \E n \in Slots : Deliver(n)
  BY <1>10, TypesDeliver
<1> QED BY <1>1, <1>2, <1>3, <1>4, <1>5, <1>6, <1>7, <1>8, <1>9, <1>10
        DEF Next, User, Server

LEMMA TypesUnchanged ==
  ASSUME AccountTypes, UNCHANGED vars
  PROVE  AccountTypes'
<1>1. TypeOK'
  BY DEF AccountTypes, TypeOK, vars
<1>2. BoundInv'
  BY DEF AccountTypes, BoundInv, UsedType, Flow, Unissued, Fetches, vars
<1> QED BY <1>1, <1>2 DEF AccountTypes

\* Every variable keeps its type, and the bounds its own limits: however the
\* requests, the timers and the worker's queue interleave, the requests and the armed
\* timers of sign-ins are never more than the sign-ins begun (accountmanager.cpp,
\* signIn, poll, handleDeviceCode, handleToken), so a polling timer that fires always
\* finds room for its request.
THEOREM AccountTyped == Spec => []TypeOK
<1>1. Init => AccountTypes
  BY TypesInit
<1>2. AccountTypes /\ [Next]_vars => AccountTypes'
  BY TypesNext, TypesUnchanged
<1>3. AccountTypes => TypeOK
  BY DEF AccountTypes
<1> QED BY <1>1, <1>2, <1>3, PTL DEF Spec

-----------------------------------------------------------------------------
(* Every action keeps the sheet and the flow together                      *)

\* Nothing about the flow changes, and no code is asked for.
LEMMA SheetFrame ==
  ASSUME SheetInv, sheet' = sheet, manager'.code = manager.code,
         manager'.job = manager.job, dead' = dead,
         \A c \in calls' : c.op = "code" => c \in calls
  PROVE  SheetInv'
BY DEF SheetInv

\* A code is asked for, if at all, by the sheet that shows "request".
LEMMA SheetSignIn ==
  ASSUME AccountTypes, SheetInv, SignIn, sheet \in {"closed", "error"}
  PROVE  SheetInv'
<1>1. PICK r : r = Request("code", used.jobs + 1, NoCode, Nobody)
  OBVIOUS
<1>2. /\ used.flows < MaxFlows /\ sheet' = "request" /\ calls' = calls \cup {r}
      /\ manager' = [manager EXCEPT !.job = used.jobs + 1] /\ dead' = dead
  BY <1>1 DEF SignIn
<1>3. r.op = "code" /\ r.job = used.jobs + 1
  <2>1. Cardinality(calls) < 3 * MaxFlows + MaxPages + 2
    BY <1>2, Room
  <2>2. used.jobs + 1 \in Nat
    BY Numbers
  <2> QED BY <1>1, <2>1, <2>2, RequestType DEF Operations, People
<1>4. manager'.job = used.jobs + 1 /\ manager'.code = NoCode
  <2>1. manager \in Managers /\ manager.code = NoCode
    BY DEF AccountTypes, TypeOK, Managers, SheetInv
  <2> QED BY <1>2, <2>1 DEF Managers
<1>5. used.jobs + 1 \notin dead
  <2>1. dead \subseteq 0..used.jobs /\ used.jobs \in Nat
    BY Numbers DEF AccountTypes, TypeOK
  <2> QED BY <2>1
<1>6. \A c \in calls : c.op = "code" => c.job \in dead
  BY DEF SheetInv
<1> QED BY <1>2, <1>3, <1>4, <1>5, <1>6 DEF SheetInv

LEMMA SheetReject ==
  ASSUME AccountTypes, SheetInv, RejectSheet
  PROVE  SheetInv'
<1>1. /\ dead' = dead \cup {manager.job} /\ manager' = [manager EXCEPT !.code = NoCode]
      /\ calls' = calls
  BY DEF RejectSheet, Cancel
<1>2. manager'.code = NoCode
  BY <1>1 DEF AccountTypes, TypeOK
<1>3. \A c \in calls' : c.op = "code" => c.job \in dead'
  BY <1>1 DEF SheetInv
<1> QED BY <1>2, <1>3 DEF SheetInv

LEMMA SheetPoll ==
  ASSUME AccountTypes, SheetInv, Poll
  PROVE  SheetInv'
<1>1. /\ manager' = [manager EXCEPT !.timers = @ - 1] /\ sheet' = sheet /\ dead' = dead
      /\ calls' = IF manager.code = NoCode THEN calls
                  ELSE calls \cup {Request("poll", manager.job, manager.code, Nobody)}
      /\ manager.timers > 0
  BY DEF Poll
<1>2. manager \in Managers
  BY DEF AccountTypes, TypeOK, Managers
<1>3. manager'.code = manager.code /\ manager'.job = manager.job
  BY <1>1, <1>2 DEF Managers
<1>4. Request("poll", manager.job, manager.code, Nobody).op = "poll"
  <2>1. Cardinality(calls) < 3 * MaxFlows + MaxPages + 2
    BY <1>1, Room
  <2>2. manager.job \in Nat /\ manager.code \in Codes \cup {NoCode}
    BY <1>2 DEF Managers
  <2> QED BY <2>1, <2>2, RequestType DEF Operations, People
<1>5. \A c \in calls' : c.op = "code" => c \in calls
  BY <1>1, <1>4
<1> QED BY <1>1, <1>3, <1>5, SheetFrame

LEMMA WorkerPosts ==
  ASSUME AccountTypes, WorkerRuns
  PROVE  \/ /\ Head(wire).op = "bearer" /\ session' = Head(wire).as /\ calls' = calls
         \/ /\ Head(wire).op = "fetch" /\ session' = session
            /\ \E r \in Calls : /\ calls' = calls \cup {r}
                                /\ r.op = "profile" /\ r.job = Head(wire).job
                                /\ r.as = session /\ r.answer = Waiting
<1>0. /\ wire # <<>>
      /\ \/ /\ Head(wire).op = "bearer" /\ session' = Head(wire).as /\ calls' = calls
         \/ /\ Head(wire).op = "fetch" /\ session' = session
            /\ calls' = calls \cup {Request("profile", Head(wire).job, NoCode, session)}
  BY DEF WorkerRuns
<1>1. ASSUME Head(wire).op = "fetch"
      PROVE  \E r \in Calls : /\ r = Request("profile", Head(wire).job, NoCode, session)
                              /\ r.op = "profile" /\ r.job = Head(wire).job
                              /\ r.as = session /\ r.answer = Waiting
  <2>1. Fetches = FetchesOf(wire)
    BY DEF Fetches, FetchesOf
  <2>2. /\ Head(wire) \in Work
        /\ Cardinality(FetchesOf(Tail(wire))) \in Nat
        /\ Cardinality(FetchesOf(Tail(wire))) <= Cardinality(Fetches) - 1
    BY <1>0, <1>1, <2>1, WireTail, Sizes
  <2>3. Cardinality(Fetches) > 0
    BY <2>2, Sizes
  <2>4. Cardinality(calls) < 3 * MaxFlows + MaxPages + 2
    BY <2>3, Room
  <2>5. Head(wire).job \in Nat /\ session \in People /\ NoCode \in Codes \cup {NoCode}
    BY <2>2 DEF Work, AccountTypes, TypeOK
  <2>6. PICK r : r = Request("profile", Head(wire).job, NoCode, session)
    OBVIOUS
  <2>7. /\ r \in Calls /\ r.op = "profile" /\ r.job = Head(wire).job /\ r.as = session
        /\ r.answer = Waiting
    BY <2>4, <2>5, <2>6, RequestType DEF Operations
  <2> QED BY <2>6, <2>7
<1> QED BY <1>0, <1>1

LEMMA SheetAnswer ==
  ASSUME AccountTypes, SheetInv, NEW n \in Slots, Answer(n)
  PROVE  SheetInv'
<1>1. PICK c \in calls : \E a \in Answers(c) \cup {Failed} : Replied(c, a)
  BY AnswerStep
<1>2. PICK a \in Answers(c) \cup {Failed} : Replied(c, a)
  BY <1>1
<1>3. PICK d : d = Answered(c, a)
  OBVIOUS
<1>4. /\ calls' = (calls \ {c}) \cup {d} /\ d.op = c.op /\ d.job = c.job
      /\ UNCHANGED <<manager, dead, sheet>>
  BY <1>2, <1>3, AnsweredFields DEF Replied
<1>5. \A e \in calls' : e.op = "code" /\ e.job \notin dead' =>
        sheet' = "request" /\ e.job = manager'.job /\ manager'.job \notin dead'
  BY <1>4 DEF SheetInv
<1>6. \A e, f \in calls' : e.op = "code" /\ f.op = "code" /\ e.job \notin dead'
                           /\ f.job \notin dead' => e = f
  BY <1>4 DEF SheetInv
<1> QED BY <1>4, <1>5, <1>6 DEF SheetInv

\* The device code is answered while the sheet still waits for it, for it alone.
LEMMA SheetDeviceCode ==
  ASSUME AccountTypes, SheetInv, NEW c \in calls, Delivered(c), ~Dropped(c), c.op = "code",
         HandleDeviceCode(c)
  PROVE  SheetInv'
<1>1. /\ sheet = "request" /\ manager.code = NoCode
      /\ \A d \in calls' : d.op = "code" => d.job \in dead'
  BY DEF SheetInv, Dropped, Delivered
<1>2. \/ sheet' = "error" /\ manager' = manager
      \/ sheet' = "wait"
  BY <1>1 DEF HandleDeviceCode, AuthFailed
<1> QED BY <1>1, <1>2 DEF SheetInv

\* A poll that finds its code remembered is answered while the sheet shows it.
LEMMA SheetToken ==
  ASSUME AccountTypes, SheetInv, NEW c \in calls, Delivered(c), c.op = "poll", HandleToken(c)
  PROVE  SheetInv'
<1>1. manager \in Managers /\ calls' = calls \ {c} /\ dead' = dead
  BY DEF AccountTypes, TypeOK, Managers, Delivered
<1>2. CASE manager.code = NoCode
  <2>1. UNCHANGED <<manager, sheet>>
    BY <1>2 DEF HandleToken
  <2> QED BY <1>1, <2>1, SheetFrame
<1>3. CASE manager.code # NoCode
  <2>1. sheet = "wait" /\ \A d \in calls' : d.op = "code" => d.job \in dead'
    BY <1>1, <1>3 DEF SheetInv
  <2>2. \/ manager'.code = NoCode
        \/ sheet' = "wait"
    BY <1>1, <1>3, <2>1 DEF HandleToken, Granted, Managers
  <2> QED BY <2>1, <2>2 DEF SheetInv
<1> QED BY <1>2, <1>3

LEMMA SheetDeliver ==
  ASSUME AccountTypes, SheetInv, NEW n \in Slots, Deliver(n)
  PROVE  SheetInv'
<1>1. PICK c \in calls :
        /\ Delivered(c)
        /\ \/ UNCHANGED <<manager, account, details, sheet, wire, used>>
           \/ ~Dropped(c) /\ c.op = "code" /\ HandleDeviceCode(c)
           \/ ~Dropped(c) /\ c.op = "poll" /\ HandleToken(c)
           \/ ~Dropped(c) /\ c.op = "refresh" /\ HandleRefresh(c)
           \/ ~Dropped(c) /\ c.op = "profile" /\ ApplyAccount(c)
  BY DeliverStep
<1>2. dead' = dead /\ \A d \in calls' : d \in calls
  BY <1>1 DEF Delivered
<1>3. CASE UNCHANGED <<manager, account, details, sheet, wire, used>>
  BY <1>2, <1>3, SheetFrame
<1>4. CASE ~Dropped(c) /\ c.op = "code" /\ HandleDeviceCode(c)
  BY <1>1, <1>4, SheetDeviceCode
<1>5. CASE c.op = "poll" /\ HandleToken(c)
  BY <1>1, <1>5, SheetToken
<1>6. CASE HandleRefresh(c)
  <2>1. sheet' = sheet /\ (manager' = manager \/ manager' = [manager EXCEPT !.bearer = c.answer])
    BY <1>6 DEF HandleRefresh
  <2>2. manager'.code = manager.code /\ manager'.job = manager.job
    BY <2>1 DEF AccountTypes, TypeOK
  <2> QED BY <1>2, <2>1, <2>2, SheetFrame
<1>7. CASE ApplyAccount(c)
  BY <1>2, <1>7, SheetFrame DEF ApplyAccount
<1> QED BY <1>1, <1>3, <1>4, <1>5, <1>6, <1>7

LEMMA SheetInit == Init => SheetInv
BY DEF Init, Launched, Restored, SheetInv

LEMMA SheetNext ==
  ASSUME AccountTypes, SheetInv, [Next]_vars
  PROVE  SheetInv'
<1>1. CASE OpenSheet \/ TryAgain
  BY <1>1, SheetSignIn DEF OpenSheet, TryAgain
<1>2. CASE RejectSheet
  BY <1>2, SheetReject
<1>3. CASE SignOut
  <2>1. manager' = [manager EXCEPT !.bearer = Nobody] /\ UNCHANGED <<dead, sheet, calls>>
    BY <1>3 DEF SignOut
  <2>2. manager'.code = manager.code /\ manager'.job = manager.job
    BY <2>1 DEF AccountTypes, TypeOK
  <2> QED BY <2>1, <2>2, SheetFrame
<1>4. CASE OpenPage
  BY <1>4, SheetFrame DEF OpenPage
<1>5. CASE Restart
  BY <1>5 DEF Restart, Restored, SheetInv
<1>6. CASE Decide \/ Expire
  BY <1>6, SheetFrame DEF Decide, Expire, gui
<1>7. CASE \E n \in Slots : Answer(n)
  BY <1>7, SheetAnswer
<1>8. CASE Poll
  BY <1>8, SheetPoll
<1>9. CASE WorkerRuns
  <2>1. \A c \in calls' : c.op = "code" => c \in calls
    BY <1>9, WorkerPosts
  <2>2. UNCHANGED <<manager, dead, sheet>>
    BY <1>9 DEF WorkerRuns, gui
  <2> QED BY <2>1, <2>2, SheetFrame
<1>10. CASE \E n \in Slots : Deliver(n)
  BY <1>10, SheetDeliver
<1>11. CASE UNCHANGED vars
  BY <1>11, SheetFrame DEF vars
<1> QED BY <1>1, <1>2, <1>3, <1>4, <1>5, <1>6, <1>7, <1>8, <1>9, <1>10, <1>11
        DEF Next, User, Server

\* The one step that makes an account is a granted poll, and it finds a code.
LEMMA OwnerStep ==
  ASSUME AccountTypes, SheetInv, [Next]_vars, sheet = "closed", ~SignedIn
  PROVE  account'.owner = Nobody
<1>1. account.owner = Nobody /\ manager.code = NoCode
  BY DEF SignedIn, SheetInv
<1>2. CASE \E n \in Slots : Deliver(n)
  <2>1. PICK n \in Slots : Deliver(n)
    BY <1>2
  <2>2. PICK c \in calls :
          \/ UNCHANGED <<manager, account, details, sheet, wire, used>>
          \/ HandleDeviceCode(c)
          \/ HandleToken(c)
          \/ HandleRefresh(c)
          \/ ApplyAccount(c)
    BY <2>1, DeliverStep
  <2>3. account' = account
    BY <1>1, <2>2 DEF HandleDeviceCode, HandleToken, HandleRefresh, ApplyAccount, SignedIn
  <2> QED BY <1>1, <2>3
<1>3. CASE User
  BY <1>1, <1>3 DEF User, OpenSheet, TryAgain, SignIn, RejectSheet, SignOut, OpenPage
<1>4. CASE Restart \/ Server \/ Poll \/ WorkerRuns \/ UNCHANGED vars
  BY <1>1, <1>4 DEF Restart, Server, Decide, Expire, Answer, Poll, WorkerRuns, gui, vars
<1> QED BY <1>2, <1>3, <1>4 DEF Next

\* Once the sheet is shut without an account, nothing still under way signs
\* anybody in, whatever the order in which the server, the timers and the answers
\* come: the token is dead and the code forgotten, and a code that was never shown
\* cannot be polled (accountmanager.cpp, cancel, handleDeviceCode, handleToken).
THEOREM NoLateSignIn == Spec => NobodyBehindTheSheet
<1>1. Init => AccountTypes /\ SheetInv
  BY TypesInit, SheetInit
<1>2. AccountTypes /\ SheetInv /\ [Next]_vars => (AccountTypes /\ SheetInv)'
  BY TypesNext, TypesUnchanged, SheetNext
<1>3. AccountTypes /\ SheetInv /\ [Next]_vars
        => [sheet = "closed" /\ ~SignedIn => account'.owner = Nobody]_vars
  BY OwnerStep
<1> QED BY <1>1, <1>2, <1>3, PTL DEF Spec, NobodyBehindTheSheet

-----------------------------------------------------------------------------
(* Every action keeps the profile and the account together                 *)

\* What the requests in flight may still bring in.
CallsInv ==
  /\ \A c \in calls : c.op = "profile" =>
       /\ c.job <= details.job
       /\ c.answer \in {c.as, Waiting, Failed}
       /\ c.job = details.job /\ SignedIn => c.as \in Own
  /\ \A c \in calls : c.op = "refresh" => c.answer \in {c.as, Waiting, Failed}

\* What the worker's queue may still bring in.
WireInv ==
  /\ \A i \in DOMAIN wire : wire[i].op = "fetch" => wire[i].job <= details.job
  /\ SignedIn => \E k \in 0..Len(wire) : Clean(k)

LEMMA ProfileParts == ProfileInv <=> ProfileOfAccount /\ CallsInv /\ WireInv
BY DEF ProfileInv, CallsInv, WireInv

\* The queue and what it is measured against do not change.
LEMMA WireFrame ==
  ASSUME WireInv, wire' = wire, session' = session, account'.owner = account.owner,
         details'.job = details.job
  PROVE  WireInv'
BY DEF WireInv, Clean, Own, SignedIn

\* No identity and no token is asked for, none is answered.
LEMMA CallsFrame ==
  ASSUME CallsInv, account'.owner = account.owner, details'.job = details.job,
         \A c \in calls' : c.op \in {"profile", "refresh"} => c \in calls
  PROVE  CallsInv'
BY DEF CallsInv, Own, SignedIn

LEMMA ProfileFrame ==
  ASSUME ProfileInv, account' = account, details' = details, wire' = wire,
         session' = session,
         \A c \in calls' : c.op \in {"profile", "refresh"} => c \in calls
  PROVE  ProfileInv'
<1>1. ProfileOfAccount /\ CallsInv /\ WireInv
  BY ProfileParts
<1>2. ProfileOfAccount'
  BY <1>1 DEF ProfileOfAccount
<1>3. CallsInv' /\ WireInv'
  BY <1>1, CallsFrame, WireFrame
<1> QED BY <1>2, <1>3 DEF ProfileInv, CallsInv, WireInv

\* A load makes every identity asked for before an old one.
LEMMA CallsAreOld ==
  ASSUME AccountTypes, CallsInv, details'.job = details.job + 1,
         \A c \in calls' : c \in calls
  PROVE  CallsInv'
<1>1. details.job \in Nat /\ \A c \in calls : c.job \in Nat
  BY Numbers, CallFields DEF AccountTypes, TypeOK
<1>2. \A c \in calls' : c.op = "profile" => c.job <= details.job /\ c.job # details'.job
                                            /\ c.job <= details'.job
  BY <1>1 DEF CallsInv
<1> QED BY <1>2 DEF CallsInv

\* The entries of a queue with one more at its end.
LEMMA Queued ==
  ASSUME NEW w \in Seq(Work), NEW x \in Work
  PROVE  /\ Append(w, x) \in Seq(Work) /\ Len(w) \in Nat
         /\ DOMAIN w = 1..Len(w) /\ DOMAIN Append(w, x) = 1..Len(w) + 1
         /\ Len(Append(w, x)) = Len(w) + 1
         /\ \A i \in 1..Len(w) : Append(w, x)[i] = w[i]
         /\ Append(w, x)[Len(w) + 1] = x
BY AppendProperties, LenProperties

LEMMA ProfileInit == Init => ProfileInv
<1> SUFFICES ASSUME Init PROVE ProfileInv
  OBVIOUS
<1>1. account.profile = account.owner
  BY DEF Init
<1>2. session = Nobody /\ wire = <<Fetch([job |-> 1])>> /\ details.job = 1
  BY DEF Init, Launched
<1>3. \A c \in calls : c.op = "refresh" /\ c.answer = Waiting
  BY DEF Init, Restored
<1>4. CallsInv
  BY <1>3 DEF CallsInv
<1>5. WireInv
  <2>1. DOMAIN wire = {1} /\ Len(wire) = 1 /\ wire[1].op = "fetch" /\ wire[1].job = 1
    BY <1>2 DEF Fetch
  <2>2. Clean(0)
    BY <1>2, <2>1 DEF Clean, Own
  <2> QED BY <1>2, <2>1, <2>2 DEF WireInv
<1> QED BY <1>1, <1>4, <1>5, ProfileParts DEF ProfileOfAccount

LEMMA ProfileRestart ==
  ASSUME AccountTypes, ProfileInv, Restart
  PROVE  ProfileInv'
<1>1. /\ account' = account /\ session' = Nobody
      /\ wire' = <<Fetch([job |-> used.loads + 1])>> /\ details'.job = used.loads + 1
      /\ calls' = Restored(account, used.jobs + 1)
  BY DEF Restart
<1>2. ProfileOfAccount'
  BY <1>1 DEF ProfileInv, ProfileOfAccount
<1>3. CallsInv'
  BY <1>1 DEF CallsInv, Restored
<1>4. WireInv'
  <2>1. PICK l : l = used.loads + 1
    OBVIOUS
  <2>2. l \in Nat
    BY <2>1, Numbers
  <2>3. /\ DOMAIN wire' = {1} /\ Len(wire') = 1 /\ wire'[1].op = "fetch"
        /\ wire'[1].job = l /\ details'.job = l
    BY <1>1, <2>1 DEF Fetch
  <2>4. Clean(0)'
    BY <1>1, <2>3 DEF Clean, Own
  <2>5. (0 \in 0..Len(wire))' /\ l <= l
    BY <2>2, <2>3
  <2> QED BY <2>3, <2>4, <2>5 DEF WireInv
<1> QED BY <1>2, <1>3, <1>4 DEF ProfileInv, CallsInv, WireInv

LEMMA ProfileSignOut ==
  ASSUME AccountTypes, ProfileInv, SignOut
  PROVE  ProfileInv'
<1>1. /\ account' = [owner |-> Nobody, profile |-> Nobody]
      /\ wire' = Append(wire, Seat(Nobody)) /\ details' = details /\ calls' = calls
  BY DEF SignOut
<1>2. ~SignedIn' /\ ProfileOfAccount'
  BY <1>1 DEF SignedIn, ProfileOfAccount
<1>3. CallsInv'
  BY <1>1, <1>2, ProfileParts DEF CallsInv
<1>4. WireInv'
  <2>1. PICK x : x = Seat(Nobody)
    OBVIOUS
  <2>2. x \in Work /\ x.op = "bearer"
    BY <2>1 DEF Seat, Work, People
  <2>3. /\ DOMAIN wire = 1..Len(wire) /\ DOMAIN wire' = 1..Len(wire) + 1 /\ Len(wire) \in Nat
        /\ \A i \in 1..Len(wire) : wire'[i] = wire[i]
        /\ wire'[Len(wire) + 1] = x
    BY <1>1, <2>1, <2>2, Queued, Sizes
  <2>4. \A i \in DOMAIN wire' : wire'[i].op = "fetch" => wire'[i].job <= details'.job
    BY <1>1, <2>2, <2>3, ProfileParts DEF WireInv
  <2> QED BY <1>2, <2>4 DEF WireInv
<1> QED BY <1>2, <1>3, <1>4 DEF ProfileInv, CallsInv, WireInv

LEMMA ProfileOpenPage ==
  ASSUME AccountTypes, ProfileInv, OpenPage
  PROVE  ProfileInv'
<1>1. /\ details' = Load(details) /\ wire' = Append(wire, Fetch(details'))
      /\ account' = account /\ session' = session /\ calls' = calls
  BY DEF OpenPage
<1>2. details.job \in Nat /\ details'.job = details.job + 1
  <2>1. details \in [job : 1..used.loads, header : People] /\ used.loads \in Nat
    BY Numbers DEF AccountTypes, TypeOK
  <2>2. details' = [details EXCEPT !.job = @ + 1]
    BY <1>1 DEF Load
  <2> QED BY <2>1, <2>2
<1>3. ProfileOfAccount' /\ CallsInv'
  BY <1>1, <1>2, ProfileParts, CallsAreOld DEF ProfileOfAccount
<1>4. WireInv'
  <2>1. PICK x : x = Fetch(details')
    OBVIOUS
  <2>2. x \in Work /\ x.op = "fetch" /\ x.job = details'.job
    BY <1>2, <2>1 DEF Fetch, Work, People
  <2>3. /\ DOMAIN wire = 1..Len(wire) /\ DOMAIN wire' = 1..Len(wire) + 1 /\ Len(wire) \in Nat
        /\ Len(wire') = Len(wire) + 1
        /\ \A i \in 1..Len(wire) : wire'[i] = wire[i] /\ wire[i].job \in Nat
        /\ wire'[Len(wire) + 1] = x
    <3>1. \A i \in 1..Len(wire) : wire[i] \in Work
      BY Sizes, ElementOfSeq
    <3> QED BY <1>1, <2>1, <2>2, <3>1, Queued, Sizes DEF Work
  <2>4. \A i \in DOMAIN wire' : wire'[i].op = "fetch" => wire'[i].job <= details'.job
    BY <1>2, <2>2, <2>3, ProfileParts DEF WireInv
  <2>5. ASSUME NEW k \in 0..Len(wire), Clean(k)
        PROVE  Clean(k)' /\ k \in 0..Len(wire')
    <3>1. Own' = Own
      BY <1>1 DEF Own
    <3>2. IF k = 0 THEN session' \in Own'
          ELSE k \in DOMAIN wire' /\ wire'[k].op = "bearer" /\ wire'[k].as \in Own'
      BY <1>1, <2>3, <2>5, <3>1 DEF Clean
    <3>3. ASSUME NEW i \in DOMAIN wire'
          PROVE  /\ i > k /\ wire'[i].op = "bearer" => wire'[i].as \in Own'
                 /\ i <= k /\ wire'[i].op = "fetch" => wire'[i].job < details'.job
      <4>1. CASE i = Len(wire) + 1
        BY <2>2, <2>3, <2>5, <4>1
      <4>2. CASE i \in 1..Len(wire)
        BY <1>2, <2>3, <2>5, <3>1, <4>2 DEF Clean
      <4> QED BY <2>3, <4>1, <4>2
    <3> QED BY <2>3, <3>2, <3>3 DEF Clean
  <2>6. SignedIn' => \E k \in 0..Len(wire') : Clean(k)'
    BY <1>1, <2>5, ProfileParts DEF WireInv, SignedIn
  <2> QED BY <2>4, <2>6 DEF WireInv
<1> QED BY <1>3, <1>4 DEF ProfileInv, CallsInv, WireInv

LEMMA ProfileSignIn ==
  ASSUME AccountTypes, ProfileInv, SignIn
  PROVE  ProfileInv'
<1>1. PICK r : r = Request("code", used.jobs + 1, NoCode, Nobody)
  OBVIOUS
<1>2. /\ used.flows < MaxFlows /\ calls' = calls \cup {r}
      /\ UNCHANGED <<account, details, wire, session>>
  BY <1>1 DEF SignIn
<1>3. r.op = "code"
  <2>1. Cardinality(calls) < 3 * MaxFlows + MaxPages + 2
    BY <1>2, Room
  <2>2. used.jobs + 1 \in Nat
    BY Numbers
  <2> QED BY <1>1, <2>1, <2>2, RequestType DEF Operations, People
<1> QED BY <1>2, <1>3, ProfileFrame

LEMMA ProfilePoll ==
  ASSUME AccountTypes, ProfileInv, Poll
  PROVE  ProfileInv'
<1>1. /\ UNCHANGED <<account, details, wire, session>> /\ manager.timers > 0
      /\ calls' = IF manager.code = NoCode THEN calls
                  ELSE calls \cup {Request("poll", manager.job, manager.code, Nobody)}
  BY DEF Poll
<1>2. Request("poll", manager.job, manager.code, Nobody).op = "poll"
  <2>1. Cardinality(calls) < 3 * MaxFlows + MaxPages + 2
    BY <1>1, Room
  <2>2. manager.job \in Nat /\ manager.code \in Codes \cup {NoCode}
    BY DEF AccountTypes, TypeOK
  <2> QED BY <2>1, <2>2, RequestType DEF Operations, People
<1>3. \A c \in calls' : c.op \in {"profile", "refresh"} => c \in calls
  BY <1>1, <1>2
<1> QED BY <1>1, <1>3, ProfileFrame

\* The worker takes a closure: what was clean from place k on is clean from the
\* place before, and an identity asked for at the head is asked with the
\* account's bearer unless it is an old one.
LEMMA ProfileWorker ==
  ASSUME AccountTypes, ProfileInv, WorkerRuns
  PROVE  ProfileInv'
<1>1. /\ wire # <<>> /\ wire' = Tail(wire) /\ UNCHANGED <<account, details>>
  BY DEF WorkerRuns, gui
<1>2. /\ Head(wire) \in Work /\ Head(wire) = wire[1] /\ Len(wire) \in Nat \ {0}
      /\ DOMAIN wire = 1..Len(wire) /\ DOMAIN wire' = 1..Len(wire) - 1
      /\ Len(wire') = Len(wire) - 1
      /\ \A i \in 1..Len(wire) - 1 : wire'[i] = wire[i + 1]
  <2>1. Fetches = FetchesOf(wire)
    BY DEF Fetches, FetchesOf
  <2>2. /\ Head(wire) \in Work /\ wire' \in Seq(Work) /\ Head(wire) = wire[1]
        /\ Len(wire) \in Nat \ {0}
        /\ DOMAIN wire = 1..Len(wire) /\ DOMAIN wire' = 1..Len(wire) - 1
        /\ \A i \in 1..Len(wire) - 1 : wire'[i] = wire[i + 1]
    BY <1>1, <2>1, WireTail, Sizes
  <2>3. Len(wire') = Len(wire) - 1
    BY <1>1, <2>2, HeadTailProperties, Sizes
  <2> QED BY <2>2, <2>3
<1>3. Own' = Own /\ SignedIn' = SignedIn
  BY <1>1 DEF Own, SignedIn
<1>4. \/ /\ Head(wire).op = "bearer" /\ session' = Head(wire).as /\ calls' = calls
      \/ /\ Head(wire).op = "fetch" /\ session' = session
         /\ \E r \in Calls : /\ calls' = calls \cup {r}
                             /\ r.op = "profile" /\ r.job = Head(wire).job
                             /\ r.as = session /\ r.answer = Waiting
  BY WorkerPosts
<1>5. ProfileOfAccount'
  BY <1>1, ProfileParts DEF ProfileOfAccount
<1>6. ASSUME NEW k \in 0..Len(wire), Clean(k)
      PROVE  /\ \E j \in 0..Len(wire') : Clean(j)'
             /\ Head(wire).op = "fetch" /\ Head(wire).job = details.job => session \in Own
  <2>1. /\ IF k = 0 THEN session \in Own
           ELSE k \in DOMAIN wire /\ wire[k].op = "bearer" /\ wire[k].as \in Own
        /\ \A i \in DOMAIN wire :
             /\ i > k /\ wire[i].op = "bearer" => wire[i].as \in Own
             /\ i <= k /\ wire[i].op = "fetch" => wire[i].job < details.job
    BY <1>6 DEF Clean
  <2>2. 1 \in DOMAIN wire /\ details.job \in Nat
    BY <1>2 DEF AccountTypes, TypeOK
  <2>3. ASSUME Head(wire).op = "fetch", Head(wire).job = details.job
        PROVE  session \in Own
    <3>1. ~(1 <= k)
      BY <1>2, <2>1, <2>2, <2>3
    <3> QED BY <2>1, <3>1
  <2>4. CASE k = 0
    <3>1. session' \in Own
      BY <1>2, <1>4, <2>1, <2>2, <2>4
    <3>2. ASSUME NEW i \in DOMAIN wire', wire'[i].op = "bearer" PROVE wire'[i].as \in Own'
      <4>1. i + 1 \in DOMAIN wire /\ wire'[i] = wire[i + 1] /\ i + 1 > k
        BY <1>2, <2>4
      <4> QED BY <1>3, <2>1, <3>2, <4>1
    <3>3. Clean(0)'
      BY <1>2, <1>3, <3>1, <3>2 DEF Clean
    <3> QED BY <1>2, <2>3, <3>3
  <2>5. CASE k = 1
    <3>1. session' \in Own
      BY <1>2, <1>4, <2>1, <2>5
    <3>2. \A i \in DOMAIN wire' : wire'[i].op = "bearer" => wire'[i].as \in Own'
      BY <1>2, <1>3, <2>1, <2>5
    <3>3. Clean(0)'
      BY <1>2, <1>3, <3>1, <3>2 DEF Clean
    <3> QED BY <1>2, <2>3, <3>3
  <2>6. CASE k > 1
    <3>1. PICK j : j = k - 1
      OBVIOUS
    <3>2. j \in 1..Len(wire') /\ j + 1 = k
      BY <1>2, <2>6, <3>1
    <3>3. j \in DOMAIN wire' /\ wire'[j].op = "bearer" /\ wire'[j].as \in Own'
      BY <1>2, <1>3, <2>1, <2>6, <3>2, SMTT(20)
    <3>4. ASSUME NEW i \in DOMAIN wire'
          PROVE  /\ i > j /\ wire'[i].op = "bearer" => wire'[i].as \in Own'
                 /\ i <= j /\ wire'[i].op = "fetch" => wire'[i].job < details'.job
      <4>1. /\ i + 1 \in DOMAIN wire /\ wire'[i] = wire[i + 1]
            /\ (i > j => i + 1 > k) /\ (i <= j => i + 1 <= k)
        BY <1>2, <3>2
      <4> QED BY <1>1, <1>3, <2>1, <4>1
    <3>5. Clean(j)'
      BY <3>2, <3>3, <3>4 DEF Clean
    <3> QED BY <2>3, <3>2, <3>5
  <2> QED BY <2>4, <2>5, <2>6
<1>7. CallsInv'
  <2>1. CASE calls' = calls
    BY <1>1, <2>1, ProfileParts, CallsFrame
  <2>2. ASSUME NEW r \in Calls, calls' = calls \cup {r}, r.op = "profile",
               r.job = Head(wire).job, r.as = session, r.answer = Waiting,
               Head(wire).op = "fetch"
        PROVE  CallsInv'
    <3>1. r.job <= details.job
      BY <1>2, <2>2, ProfileParts DEF WireInv
    <3>2. r.job = details.job /\ SignedIn => session \in Own
      BY <1>6, <2>2, ProfileParts DEF WireInv
    <3> QED BY <1>1, <1>3, <2>2, <3>1, <3>2, ProfileParts DEF CallsInv
  <2> QED BY <1>4, <2>1, <2>2
<1>8. WireInv'
  <2>1. \A i \in DOMAIN wire' : wire'[i].op = "fetch" => wire'[i].job <= details'.job
    BY <1>1, <1>2, ProfileParts DEF WireInv
  <2>2. SignedIn' => \E k \in 0..Len(wire') : Clean(k)'
    BY <1>3, <1>6, ProfileParts DEF WireInv
  <2> QED BY <2>1, <2>2 DEF WireInv
<1> QED BY <1>5, <1>7, <1>8 DEF ProfileInv, CallsInv, WireInv

LEMMA ProfileAnswer ==
  ASSUME AccountTypes, ProfileInv, NEW n \in Slots, Answer(n)
  PROVE  ProfileInv'
<1>1. PICK c \in calls : \E a \in Answers(c) \cup {Failed} : Replied(c, a)
  BY AnswerStep
<1>2. PICK a \in Answers(c) \cup {Failed} : Replied(c, a)
  BY <1>1
<1>3. PICK d : d = Answered(c, a)
  OBVIOUS
<1>4. /\ calls' = (calls \ {c}) \cup {d} /\ d.op = c.op /\ d.job = c.job /\ d.as = c.as
      /\ d.answer = a /\ c.answer = Waiting
      /\ UNCHANGED <<account, details, wire, session>>
  BY <1>2, <1>3, AnsweredFields DEF Replied
<1>5. c.op \in {"profile", "refresh"} => a \in {c.as, Failed}
  BY <1>4, AnswerTypes
<1>6. ProfileOfAccount' /\ WireInv'
  BY <1>4, ProfileParts, WireFrame DEF ProfileOfAccount
<1>7. CallsInv'
  <2>1. Own' = Own /\ SignedIn' = SignedIn /\ details'.job = details.job
    BY <1>4 DEF Own, SignedIn
  <2> QED BY <1>4, <1>5, <2>1, ProfileParts DEF CallsInv
<1> QED BY <1>6, <1>7 DEF ProfileInv, CallsInv, WireInv

\* The bearer of the new account is seated behind everything under way, and its
\* identity is asked for behind the bearer.
LEMMA ProfileGranted ==
  ASSUME AccountTypes, ProfileInv, NEW c \in calls, Delivered(c), NEW u \in Users, Granted(u)
  PROVE  ProfileInv'
<1>1. /\ account' = [owner |-> u, profile |-> Nobody] /\ details' = Load(details)
      /\ wire' = wire \o <<Seat(u), Fetch(details')>> /\ calls' = calls \ {c}
  BY DEF Granted, Delivered
<1>2. details.job \in Nat /\ details'.job = details.job + 1
  <2>1. details \in [job : 1..used.loads, header : People] /\ used.loads \in Nat
    BY Numbers DEF AccountTypes, TypeOK
  <2>2. details' = [details EXCEPT !.job = @ + 1]
    BY <1>1 DEF Load
  <2> QED BY <2>1, <2>2
<1>3. ProfileOfAccount' /\ CallsInv'
  BY <1>1, <1>2, ProfileParts, CallsAreOld DEF ProfileOfAccount
<1>4. WireInv'
  <2>1. PICK x, y : x = Seat(u) /\ y = Fetch(details')
    OBVIOUS
  <2>2. /\ x \in Work /\ x.op = "bearer" /\ x.as = u
        /\ y \in Work /\ y.op = "fetch" /\ y.job = details'.job
    BY <1>2, <2>1 DEF Seat, Fetch, Work, People
  <2>3. PICK w : w = Append(wire, x)
    OBVIOUS
  <2>4. /\ DOMAIN wire = 1..Len(wire) /\ DOMAIN w = 1..Len(wire) + 1
        /\ Len(wire) \in Nat /\ Len(w) = Len(wire) + 1 /\ w \in Seq(Work)
        /\ \A i \in 1..Len(wire) : w[i] = wire[i]
        /\ w[Len(wire) + 1] = x
    BY <2>2, <2>3, Queued, Sizes
  <2>5. wire' = Append(w, y)
    BY <1>1, <2>1, <2>2, <2>3, TwoQueued, Sizes
  <2>6. /\ DOMAIN wire' = 1..Len(w) + 1 /\ Len(wire') = Len(w) + 1
        /\ \A i \in 1..Len(w) : wire'[i] = w[i]
        /\ wire'[Len(w) + 1] = y
    BY <2>2, <2>4, <2>5, Queued
  <2>7. PICK n : n = Len(wire)
    OBVIOUS
  <2>8. /\ n \in Nat /\ DOMAIN wire = 1..n /\ DOMAIN wire' = 1..n + 2 /\ Len(wire') = n + 2
        /\ \A i \in 1..n : wire'[i] = wire[i]
        /\ wire'[n + 1] = x /\ wire'[n + 2] = y
    BY <2>4, <2>6, <2>7
  <2>9. \A i \in 1..n : wire[i].op = "fetch" =>
          wire[i].job <= details.job /\ wire[i].job < details'.job
                                     /\ wire[i].job <= details'.job
    <3>1. \A i \in 1..n : wire[i].job \in Nat
      <4>1. \A i \in 1..n : wire[i] \in Work
        BY <2>7, Sizes, ElementOfSeq
      <4> QED BY <4>1 DEF Work
    <3>2. \A i \in 1..n : wire[i].op = "fetch" => wire[i].job <= details.job
      BY <2>8, ProfileParts DEF WireInv
    <3> QED BY <1>2, <3>1, <3>2
  <2>10. ASSUME NEW i \in DOMAIN wire', wire'[i].op = "fetch"
         PROVE  wire'[i].job <= details'.job /\ (i <= n + 1 => wire'[i].job < details'.job)
    <3>1. CASE i \in 1..n
      BY <2>8, <2>9, <2>10, <3>1
    <3>2. CASE i = n + 1
      BY <2>2, <2>8, <2>10, <3>2
    <3>3. CASE i = n + 2
      BY <1>2, <2>2, <2>8, <3>3
    <3> QED BY <2>8, <3>1, <3>2, <3>3
  <2>11. Clean(n + 1)'
    <3>1. u \in Own'
      BY <1>1 DEF Own
    <3>2. n + 1 \in DOMAIN wire' /\ wire'[n + 1].op = "bearer" /\ wire'[n + 1].as \in Own'
      BY <2>2, <2>8, <3>1
    <3>3. \A i \in DOMAIN wire' : i > n + 1 => wire'[i].op # "bearer"
      BY <2>2, <2>8
    <3>4. PICK k : k = n + 1
      OBVIOUS
    <3>5. /\ k # 0 /\ k \in DOMAIN wire' /\ wire'[k].op = "bearer" /\ wire'[k].as \in Own'
          /\ \A i \in DOMAIN wire' :
               /\ i > k /\ wire'[i].op = "bearer" => wire'[i].as \in Own'
               /\ i <= k /\ wire'[i].op = "fetch" => wire'[i].job < details'.job
      BY <2>8, <2>10, <3>2, <3>3, <3>4
    <3>6. Clean(k)'
      BY <3>5 DEF Clean
    <3> QED BY <2>7, <3>4, <3>6
  <2>12. n + 1 \in 0..Len(wire')
    BY <2>8
  <2>13. \A i \in DOMAIN wire' : wire'[i].op = "fetch" => wire'[i].job <= details'.job
    BY <2>10
  <2>14. \E k \in 0..Len(wire') : Clean(k)'
    BY <2>11, <2>12
  <2> QED BY <2>13, <2>14 DEF WireInv
<1> QED BY <1>3, <1>4 DEF ProfileInv, CallsInv, WireInv

\* A refreshed token is of whoever it was asked for: its bearer may be seated
\* behind the others as long as they are signed in.
LEMMA ProfileRefresh ==
  ASSUME AccountTypes, ProfileInv, NoCrossing, NEW c \in calls, Delivered(c),
         c.op = "refresh", HandleRefresh(c)
  PROVE  ProfileInv'
<1>1. calls' = calls \ {c} /\ session' = session /\ account' = account /\ details' = details
      /\ c.answer # Waiting
  BY DEF Delivered, HandleRefresh
<1>2. CASE wire' = wire
  BY <1>1, <1>2, ProfileFrame
<1>3. CASE c.answer \in Users /\ wire' = Append(wire, Seat(c.answer))
  <2>1. c.answer \in Own /\ c.answer \in People
    <3>1. c.answer \in {c.as, Waiting, Failed} /\ c.as = account.owner
      BY ProfileParts DEF CallsInv, NoCrossing
    <3>2. c.answer # Failed
      BY <1>3, AnswersAssumption
    <3> QED BY <1>1, <1>3, <3>1, <3>2 DEF Own, People
  <2>2. PICK x : x = Seat(c.answer)
    OBVIOUS
  <2>3. x \in Work /\ x.op = "bearer" /\ x.as = c.answer
    BY <2>1, <2>2 DEF Seat, Work
  <2>4. PICK n : n = Len(wire)
    OBVIOUS
  <2>5. /\ n \in Nat /\ DOMAIN wire = 1..n /\ DOMAIN wire' = 1..n + 1 /\ Len(wire') = n + 1
        /\ \A i \in 1..n : wire'[i] = wire[i]
        /\ wire'[n + 1] = x
    BY <1>3, <2>2, <2>3, <2>4, Queued, Sizes
  <2>6. Own' = Own /\ SignedIn' = SignedIn
    BY <1>1 DEF Own, SignedIn
  <2>7. \A i \in DOMAIN wire' : wire'[i].op = "fetch" => wire'[i].job <= details'.job
    BY <1>1, <2>3, <2>5, ProfileParts DEF WireInv
  <2>8. ASSUME NEW k \in 0..n, Clean(k)
        PROVE  Clean(k)' /\ k \in 0..Len(wire')
    <3>1. IF k = 0 THEN session' \in Own'
          ELSE k \in DOMAIN wire' /\ wire'[k].op = "bearer" /\ wire'[k].as \in Own'
      BY <1>1, <2>5, <2>6, <2>8 DEF Clean
    <3>2. ASSUME NEW i \in DOMAIN wire'
          PROVE  /\ i > k /\ wire'[i].op = "bearer" => wire'[i].as \in Own'
                 /\ i <= k /\ wire'[i].op = "fetch" => wire'[i].job < details'.job
      <4>1. CASE i = n + 1
        BY <2>1, <2>3, <2>5, <2>6, <2>8, <4>1
      <4>2. CASE i \in 1..n
        BY <1>1, <2>5, <2>6, <2>8, <4>2 DEF Clean
      <4> QED BY <2>5, <4>1, <4>2
    <3> QED BY <2>5, <3>1, <3>2 DEF Clean
  <2>9. SignedIn' => \E k \in 0..Len(wire') : Clean(k)'
    BY <2>4, <2>6, <2>8, ProfileParts DEF WireInv
  <2>10. ProfileOfAccount' /\ CallsInv'
    BY <1>1, ProfileParts, CallsFrame DEF ProfileOfAccount
  <2> QED BY <2>7, <2>9, <2>10 DEF ProfileInv, CallsInv, WireInv
<1> QED BY <1>2, <1>3 DEF HandleRefresh

\* The identity asked for last is the account's, and no other is applied.
LEMMA ProfileApply ==
  ASSUME AccountTypes, ProfileInv, NEW c \in calls, Delivered(c), ~Dropped(c),
         c.op = "profile", ApplyAccount(c)
  PROVE  ProfileInv'
<1>1. calls' = calls \ {c} /\ session' = session /\ wire' = wire /\ c.job = details.job
      /\ c.answer # Waiting
  BY DEF Delivered, ApplyAccount, Dropped
<1>2. CASE c.answer = Failed
  BY <1>1, <1>2, ProfileFrame DEF ApplyAccount
<1>3. CASE c.answer # Failed
  <2>1. /\ details' = [details EXCEPT !.header = c.answer]
        /\ account' = IF SignedIn THEN [account EXCEPT !.profile = c.answer] ELSE account
    BY <1>3 DEF ApplyAccount
  <2>2. details'.job = details.job /\ account'.owner = account.owner
    BY <2>1 DEF AccountTypes, TypeOK
  <2>3. SignedIn => c.answer \in Own
    BY <1>1, <1>3, ProfileParts DEF CallsInv
  <2>4. ProfileOfAccount'
    <3>1. account \in Records /\ ProfileOfAccount
      BY ProfileParts DEF AccountTypes, TypeOK, Records
    <3> QED BY <2>1, <2>2, <2>3, <3>1 DEF ProfileOfAccount, Own, Records
  <2>5. CallsInv' /\ WireInv'
    BY <1>1, <2>2, ProfileParts, CallsFrame, WireFrame
  <2> QED BY <2>4, <2>5 DEF ProfileInv, CallsInv, WireInv
<1> QED BY <1>2, <1>3

LEMMA ProfileDeliver ==
  ASSUME AccountTypes, ProfileInv, NoCrossing, NEW n \in Slots, Deliver(n)
  PROVE  ProfileInv'
<1>1. PICK c \in calls :
        /\ Delivered(c)
        /\ \/ UNCHANGED <<manager, account, details, sheet, wire, used>>
           \/ ~Dropped(c) /\ c.op = "code" /\ HandleDeviceCode(c)
           \/ ~Dropped(c) /\ c.op = "poll" /\ HandleToken(c)
           \/ ~Dropped(c) /\ c.op = "refresh" /\ HandleRefresh(c)
           \/ ~Dropped(c) /\ c.op = "profile" /\ ApplyAccount(c)
  BY DeliverStep
<1>2. session' = session /\ \A d \in calls' : d \in calls
  BY <1>1 DEF Delivered
<1>3. CASE UNCHANGED <<account, details, wire>>
  BY <1>2, <1>3, ProfileFrame
<1>4. CASE c.op = "poll" /\ HandleToken(c)
  <2>1. \/ UNCHANGED <<account, details, wire>>
        \/ c.answer \in Users /\ Granted(c.answer)
    BY <1>4 DEF HandleToken
  <2> QED BY <1>1, <1>3, <2>1, ProfileGranted
<1>5. CASE c.op = "refresh" /\ HandleRefresh(c)
  BY <1>1, <1>5, ProfileRefresh
<1>6. CASE ~Dropped(c) /\ c.op = "profile" /\ ApplyAccount(c)
  BY <1>1, <1>6, ProfileApply
<1> QED BY <1>1, <1>3, <1>4, <1>5, <1>6 DEF HandleDeviceCode

LEMMA ProfileNext ==
  ASSUME AccountTypes, ProfileInv, NoCrossing, [Next]_vars
  PROVE  ProfileInv'
<1>1. CASE OpenSheet \/ TryAgain
  BY <1>1, ProfileSignIn DEF OpenSheet, TryAgain
<1>2. CASE RejectSheet
  BY <1>2, ProfileFrame DEF RejectSheet
<1>3. CASE SignOut
  BY <1>3, ProfileSignOut
<1>4. CASE OpenPage
  BY <1>4, ProfileOpenPage
<1>5. CASE Restart
  BY <1>5, ProfileRestart
<1>6. CASE Decide \/ Expire
  BY <1>6, ProfileFrame DEF Decide, Expire, gui
<1>7. CASE \E n \in Slots : Answer(n)
  BY <1>7, ProfileAnswer
<1>8. CASE Poll
  BY <1>8, ProfilePoll
<1>9. CASE WorkerRuns
  BY <1>9, ProfileWorker
<1>10. CASE \E n \in Slots : Deliver(n)
  BY <1>10, ProfileDeliver
<1>11. CASE UNCHANGED vars
  BY <1>11, ProfileFrame DEF vars
<1> QED BY <1>1, <1>2, <1>3, <1>4, <1>5, <1>6, <1>7, <1>8, <1>9, <1>10, <1>11
        DEF Next, User, Server

\* The profile written into the account record is the account's, though the
\* identity is asked for with whatever bearer the worker has seated by then, as
\* long as no token refresh is under way for somebody who has signed out
\* (accountmanager.cpp, handleRefresh, which checks no such thing; innertube.cpp,
\* applyBearer; accountdetails.cpp, load).
THEOREM ProfileOwned == Spec /\ []NoCrossing => []ProfileOfAccount
<1>1. Init => AccountTypes /\ ProfileInv
  BY TypesInit, ProfileInit
<1>2. AccountTypes /\ ProfileInv /\ NoCrossing /\ [Next]_vars => (AccountTypes /\ ProfileInv)'
  BY TypesNext, TypesUnchanged, ProfileNext
<1>3. ProfileInv => ProfileOfAccount
  BY DEF ProfileInv
<1> QED BY <1>1, <1>2, <1>3, PTL DEF Spec

=============================================================================
