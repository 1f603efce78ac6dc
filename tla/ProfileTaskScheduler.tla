------------------------ MODULE ProfileTaskScheduler ------------------------
(***************************************************************************)
(* The in-process admission control every delegated execution path of a    *)
(* Profile goes through (packages/core/src/profile-task-scheduler.ts): a    *)
(* bounded queue per owner, a ring of the owners that wait, and a           *)
(* concurrency limit that shrinks on overload and recovers step by step.   *)
(*                                                                         *)
(* A work item is submitted with run(), waits in its owner's queue, runs,   *)
(* settles (the promise of its caller is resolved or rejected) and, one     *)
(* microtask later, gives its slot back.  Between the last two steps the    *)
(* code of any caller may run.                                             *)
(***************************************************************************)
EXTENDS Integers, Sequences, FiniteSets, Queues

CONSTANTS
  Owner,                  \* conversations (owner keys) that submit work
  Work,                   \* work items; an item may be submitted again once done
  OwnerOf,                \* the owner key each item is submitted under
  MaxConcurrent,          \* hard limit on running items
  IncreaseAfterSuccesses, \* successes in a row that raise a reduced limit
  MaxQueued,              \* limit on queued items, all owners together
  MaxQueuedPerOwner,      \* limit on queued items of one owner
  Adaptive,               \* does the limit react to overload at all?
  NoOwner                 \* lastOwner before anything was started

ASSUME SchedulerAssumption ==
  /\ IsFiniteSet(Work) /\ OwnerOf \in [Work -> Owner]
  /\ {MaxConcurrent, IncreaseAfterSuccesses, MaxQueued, MaxQueuedPerOwner}
       \subseteq Nat \ {0}
  /\ MaxQueuedPerOwner <= MaxQueued
  /\ Adaptive \in BOOLEAN
  /\ NoOwner \notin Owner

VARIABLES
  status,               \* per item: idle, queued, running or settled
  queue,                \* per owner: its waiting items, oldest first
  owners,               \* the ring of owners that have waiting items
  lastOwner,            \* owner of the item that was started last
  running,              \* slots in use
  currentConcurrent,    \* the adaptive limit
  consecutiveSuccesses  \* successes counted towards the next increase

vars == <<status, queue, owners, lastOwner, running, currentConcurrent,
          consecutiveSuccesses>>

Status == {"idle", "queued", "running", "settled"}

Init ==
  /\ status = [w \in Work |-> "idle"]
  /\ queue = [o \in Owner |-> <<>>]
  /\ owners = <<>>
  /\ lastOwner = NoOwner
  /\ running = 0
  /\ currentConcurrent = MaxConcurrent
  /\ consecutiveSuccesses = 0

Queued == {w \in Work : status[w] = "queued"}

-----------------------------------------------------------------------------
(* What pump() picks: the first waiting item of the owner after lastOwner.  *)

\* Position of o in ring s, 0 when it is not there: indexOf(o) + 1.
IndexIn(s, o) == IF \E i \in DOMAIN s : s[i] = o
                 THEN CHOOSE i \in DOMAIN s : s[i] = o ELSE 0

Without(s, x) == Staying(s, Owner \ {x})

\* Mutant: the ring is always read from its start.
FirstOwner(ring, last) == ring[1]

\* next(): an owner leaves the ring with its last item, so the owner found
\* first always has one.
NextOwner(ring, last) == ring[(IndexIn(ring, last) % Len(ring)) + 1]

\* The scheduler's data while pump() runs: s is a record of the fields it
\* changes.
StartOne(s) ==
  LET o == NextOwner(s.owners, s.lastOwner)
      rest == Tail(s.queue[o])
  IN [status    |-> [s.status EXCEPT ![Head(s.queue[o])] = "running"],
      queue     |-> [s.queue EXCEPT ![o] = rest],
      owners    |-> IF rest = <<>> THEN Without(s.owners, o) ELSE s.owners,
      lastOwner |-> o,
      running   |-> s.running + 1]

CanStart(s) == s.running < currentConcurrent /\ s.owners # <<>>

\* pump(): start items until the limit is reached or nothing waits.  The
\* result is in a set of one, so that TLC evaluates every round once.
Pump(s) ==
  LET after[n \in 0 .. Cardinality(Work)] ==
        IF n = 0 THEN {s}
        ELSE {IF CanStart(t) THEN StartOne(t) ELSE t : t \in after[n - 1]}
  IN after[Cardinality(Work)]

PumpFrom(st, q, ring, r) ==
  \E s \in Pump([status |-> st, queue |-> q, owners |-> ring,
                 lastOwner |-> lastOwner, running |-> r]) :
    /\ status' = s.status
    /\ queue' = s.queue
    /\ owners' = s.owners
    /\ lastOwner' = s.lastOwner
    /\ running' = s.running

-----------------------------------------------------------------------------
(* Operations.                                                             *)

HasRoom(o) ==
  /\ Cardinality(Queued) < MaxQueued
  /\ Len(queue[o]) < MaxQueuedPerOwner

\* run(): a full queue rejects (no state change), else the item is queued
\* behind its owner's items and the queues are pumped.
Submit(w) ==
  LET o == OwnerOf[w] IN
  /\ status[w] = "idle"
  /\ HasRoom(o)
  /\ PumpFrom([status EXCEPT ![w] = "queued"],
              [queue EXCEPT ![o] = Append(@, w)],
              IF queue[o] = <<>> THEN Append(owners, o) ELSE owners,
              running)
  /\ UNCHANGED <<currentConcurrent, consecutiveSuccesses>>

\* remove(): the items of S leave the queues, and their owners the ring when
\* nothing of theirs waits any more.  Nothing is pumped.
Remove(S) ==
  /\ status' = [w \in Work |-> IF w \in S THEN "idle" ELSE status[w]]
  /\ queue' = [o \in Owner |-> Staying(queue[o], Work \ S)]
  /\ owners' = Staying(owners, {o \in Owner : queue'[o] # <<>>})
  /\ UNCHANGED <<lastOwner, running, currentConcurrent, consecutiveSuccesses>>

\* The abort listener of a queued item.
Abort(w) == status[w] = "queued" /\ Remove({w})

\* recordSuccess(): counts only while the limit is reduced.
RecordSuccess ==
  IF ~Adaptive \/ currentConcurrent >= MaxConcurrent
  THEN UNCHANGED <<currentConcurrent, consecutiveSuccesses>>
  ELSE IF consecutiveSuccesses + 1 < IncreaseAfterSuccesses
  THEN /\ consecutiveSuccesses' = consecutiveSuccesses + 1
       /\ UNCHANGED currentConcurrent
  ELSE /\ currentConcurrent' = currentConcurrent + 1
       /\ consecutiveSuccesses' = 0

\* Mutant of RecordFailure: the floor of one slot is missing.
HalveToZero(overload) ==
  /\ consecutiveSuccesses' = 0
  /\ currentConcurrent' =
       IF Adaptive /\ overload THEN currentConcurrent \div 2 ELSE currentConcurrent

\* recordFailure(): an overload failure halves the limit, never below 1.
RecordFailure(overload) ==
  /\ consecutiveSuccesses' = 0
  /\ currentConcurrent' =
       IF Adaptive /\ overload /\ currentConcurrent > 1
       THEN currentConcurrent \div 2 ELSE currentConcurrent

\* The work's promise settles: the outcome is recorded and the caller's
\* promise settled.  The slot is still held.
Ends(w) ==
  /\ status[w] = "running"
  /\ status' = [status EXCEPT ![w] = "settled"]
  /\ UNCHANGED <<queue, owners, lastOwner, running>>

Settle(w) ==
  /\ Ends(w)
  /\ RecordSuccess \/ \E overload \in BOOLEAN : RecordFailure(overload)

\* Mutant of Release: the freed slot is not offered to the waiting items.
ReleaseWithoutPump(w) ==
  /\ status[w] = "settled"
  /\ status' = [status EXCEPT ![w] = "idle"]
  /\ running' = running - 1
  /\ UNCHANGED <<queue, owners, lastOwner, currentConcurrent,
                 consecutiveSuccesses>>

\* .finally(): the slot is given back and the queues are pumped.
Release(w) ==
  /\ status[w] = "settled"
  /\ PumpFrom([status EXCEPT ![w] = "idle"], queue, owners, running - 1)
  /\ UNCHANGED <<currentConcurrent, consecutiveSuccesses>>

Next == \E w \in Work : Submit(w) \/ Abort(w) \/ Settle(w) \/ Release(w)

\* Every admitted work ends (they run under a timeout) and a microtask that is
\* due runs.  Nobody has to submit or to abort anything.
Fairness == \A w \in Work : WF_vars(Settle(w)) /\ WF_vars(Release(w))

Spec == Init /\ [][Next]_vars
FairSpec == Spec /\ Fairness

-----------------------------------------------------------------------------
\* Types, and the adaptive limit staying within 1 .. MaxConcurrent.
TypeOK ==
  /\ status \in [Work -> Status]
  /\ queue \in [Owner -> Seq(Work)]
  /\ owners \in Seq(Owner)
  /\ lastOwner \in Owner \cup {NoOwner}
  /\ running \in Nat
  /\ currentConcurrent \in 1 .. MaxConcurrent
  /\ consecutiveSuccesses \in 0 .. IncreaseAfterSuccesses - 1

\* Work conservation: an item never waits while a slot it may use is free.  The
\* limit is only ever raised by a settling item whose slot is then released, so
\* the pump of that release is the one that may use the raised limit.
NoIdleSlot ==
  (Queued # {} /\ \A w \in Work : status[w] # "settled")
     => running >= currentConcurrent

\* "ProfileTaskScheduler gives the next free slot to another waiting
\* conversation": a conversation that was served last is not served again by a
\* step that leaves another conversation, waiting before the step, unserved.
Started(w) == status[w] # "running" /\ status'[w] = "running"
ServesAnother ==
  [][\A w \in Work :
       (Started(w) /\ OwnerOf[w] = lastOwner)
         => \A o \in Owner \ {lastOwner} : queue[o] # <<>> =>
              \E v \in Work : Started(v) /\ OwnerOf[v] # lastOwner]_vars
=============================================================================
