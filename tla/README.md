# Verification of BeeMax

TLA+ models of the parts of BeeMax where processes, crashes and leases meet,
the TLC configurations that check them and the TLAPS proofs about them. BeeMax
is a personal agent: a gateway process receives messages from chat channels and
runs turns of a language model that calls tools, delegates work to sub-agents
and carries out Task Plans. What must survive a crash is kept in SQLite files
that the gateway, command-line turns and operator commands of one Profile share.

    tlc -workers 2 -config ToolEffects.cfg MCToolEffects    # one run
    tlapm ToolEffectsProofs.tla                             # one proof

`PROJECT.json` lists the runs, the lines of code that every definition stands
for, the mutants that show that each property can fail, the hazards and the
theorems.

## 1. Inventory

| Component | State | Operations | Interacts with |
|---|---|---|---|
| **Task Ledger** (`packages/memory/src/store.ts`) | tables of Tasks, Task Runs, Plans, execution claims, verification claims | one SQLite transaction each: transition, recordRun, transitionRun, settleTaskRunAndTask, claims, cancellation, reconciliation, corrections, retries, verdicts | every executor, recovery, commands |
| **Task execution** (`core/src/task-graph.ts`, `task-plan-runtime.ts`) | the loop over a Plan, a set of running workers, an abort signal, two heartbeats | run, executeTask, start, startClaimed, shutdown | ledger, scheduler, Effect authority |
| **Recovery** (`core/src/task-recovery.ts`, `task-recovery-service.ts`) | none of its own | the periodic cycle: reconcile, reverify, correct, resume; the user's cancel, pause, resume, retry | ledger, execution |
| **Effect authority** (`core/src/tool-effect.ts`) | Effect records and replay identities in SQLite, a map of calls in progress | begin, finish, interruptTask, reconcile, close, orphan recovery, pruning | tools, reconciliation of Runs |
| **Profile task scheduler** (`core/src/profile-task-scheduler.ts`) | a queue per owner, a ring of owners, slots, a concurrency limit | run, abort, settlement, release | sub-agents, Plans |
| **Sub-Agent manager** (`core/src/task-manager.ts`) | delegations, queue, timers, waiters | spawn, wait, cancel, dispose | scheduler, execution |
| **Completion Outbox** (`objective-runtime.ts`, `objective-completion-delivery.ts`, store) | one row per accepted Objective: claim, attempts, receipt | settle, claim, send, record receipt, acknowledge, fail, defer, block | channels, dispatcher, ledger |
| **Schedules** (`packages/automation/src/store.ts`, `core/src/automation-runtime.ts`) | Schedules, occurrences, deliveries, with claims | claimDue, renew, complete, deliver, retry, enable, remove | agent runtime, channels |
| **Interaction admission** (`gateway/src/core/dispatcher.ts`, `core/src/interaction-input-queue.ts`) | deduplication map, one admission chain per conversation, a queue in a locked file | admit, queue, claim, acknowledge, release, recover | channels, agent runtime |
| Session coordination (`core/src/session-coordinator.ts`) | one lock per conversation, a bounded pool of sessions | run, prune, reset, dispose | agent runtime |
| **Process and channel locks** (`apps/cli/src/process-lock.ts`) | lock files with owner tokens | acquire, reclaim, release | gateway start |
| Agent runtime, work contracts, capabilities, approval, initiative, memory and learning, artifacts, channels, tools, command line, vendored agent | see `PROJECT.json` | | |

The components in bold are modelled. They meet in a few places: a conversation's
input becomes a turn; a turn works on an Objective, spawns delegations or starts a
Plan; delegations and Plans run in slots of the scheduler and record what they do
in the ledger; tools that they call go through the Effect authority; an accepted
result goes to the Completion Outbox and from there to a channel; a Schedule
opens turns on its own.

What is hard in this code:

* **Leases without fences on the writer.** Executors hold a claim on a Plan and a
  lease on each Run; both expire by the clock. A process that slept wakes up
  next to its successor, with rows in its hand that it read earlier.
* **One operation, several transactions.** `executeTask()` marks a Task, records
  a Run, stores a candidate, settles; a crash, a cancellation or a takeover can
  come between any two.
* **An uncertain outside world.** A tool call that failed, timed out or died with
  its process may have mutated something, or may still do it later.
* **Ids that come back.** Recovery decides by process id whether a holder is alive.
* **Queues with limits** and fairness among conversations, under aborts.
* **At-least-once delivery** towards channels with exactly-once settlement inside.

Correctness, per component: an outcome is final; only the holder of a live lease
succeeds; a result passed its verification; dependencies come first; cancelled
work stays cancelled; every Plan ends (execution and recovery). A mutation is
never duplicated and the record of it is never false (Effects). No slot is idle
while work waits, no conversation starves (scheduler). What is reported of a
delegation is what the ledger keeps (Sub-Agent manager). One result of an
Objective is offered, and it succeeds only after a message with it (outbox). An
occurrence is executed under one claim at a time, a bounded number of times, and
has at most one accepted result (Schedules). An input that was admitted is not
lost and no turn is started over another (admission). One turn at a time per
conversation (sessions). One gateway per Profile (locks).

## 2. Modules

| Module | Models |
|---|---|
| `TaskLedger` | the rows of one Plan and every transaction on them |
| `TaskExecution` | hosts and workers that execute the Plan, recovery, commands, crashes; EXTENDS `TaskLedger` |
| `MCTaskExecution` | its instances |
| `TaskExecutionProofs`, `TaskOutcomeProofs` | its theorems: on rows and Runs, and on who executes and what comes of it; the second EXTENDS the first |
| `ToolEffects` | the Effect authority and the world behind the tools |
| `MCToolEffects`, `ToolEffectsProofs` | its instances, its theorems |
| `Queues`, `QueueProofs` | a queue without some of its items, for the two modules that have queues; its lemmas |
| `ProfileTaskScheduler` | the scheduler |
| `SubagentManager` | delegations in the slots of the scheduler; EXTENDS `ProfileTaskScheduler` |
| `MCSubagentManager`, `SubagentManagerProofs` | its instance, its theorems and those of the scheduler |
| `ResultDelivery` | abstract specification: what the outbox promises of one Objective |
| `ObjectiveCompletion` | turns, Plan synthesis, late verification, presentation and the outbox workers; implements `ResultDelivery` |
| `MCObjectiveCompletion`, `ObjectiveCompletionProofs` | its instances, its theorems and the refinement |
| `AutomationSchedule` | a Schedule, its occurrences, executions, Objectives and deliveries |
| `MCAutomationSchedule` | its instance |
| `AutomationScheduleProofs` | its theorems |
| `ConversationInput` | the messages of one conversation, the queue file and the turns |
| `MCConversationInput`, `ConversationInputProofs` | its instance, its theorems |
| `ProcessLock`, `MCProcessLock` | the lock files of the Profile, their reclaim and release; its instance |

Definitions named as a *mutant* of the one that follows are plausible mistakes.
They are not part of the specification; `PROJECT.json` says which property each
of them breaks.

### TaskLedger

A row of `tasks` is a record with status, verification outcome, stored candidate,
number of corrective attempts, route and result; `runs`, `plan`, `claim` and
`objective` are the other tables, restricted to one Plan below at most one
Objective. An operator that primes variables is one SQLite transaction, and its
conditions are the `WHERE` clauses: `MayTransition` is the guard of
`transition()`, `RunMay` the success fence of `transitionRun()`, `MaySettle` that
of `settleTaskRunAndTask()`, `MayClaim` the conditions under which a claim row is
replaced. The Plan status follows the three different synchronisations of the
code (`PlanTo`, `PlanFromTasks`, `PlanAfterVerification`).

Abstractions: time is what the SQL compares, a lease is live or not; an output is
the Run that produced it; text, evidence and artifacts are left out; one Task has
at most `Routes[t]` routes. Rows read with `LIMIT 100` are all rows. The history
of prior Plans, checkpoints and the direct Objective without a Plan are left out.
A retry time is always due.

### TaskExecution

A *host* is one invocation of `runClaimed()`, `startClaimed()` or, for a
delegation, of `TaskGraph.run()` without a claim. Its mode says which; `scanning`
says that the loop of `run()` will read the ledger next, `aborted` is its signal.
A *worker* is `executeTask()` for one Task; its `pc` is the last transaction it
finished:

    picked -> marked -> executing -> verifying -> settled
                            |           |-> rejected -> requeued -> marked ...
                            +-----------+-> catching -> closing

Each action is the code from one `await` or transaction to the next, so TLC
interleaves hosts between any two of them, and `Crash` may come there as well.
Timers (`LoseClaim`, `LoseLease`) fire only while the event loop is free, which
`Suspended` says. `ExpireLease` and `ExpireClaim` let a lease run out when nobody
renews it or, with `Suspends`, at any time. `Recover`, `Reverify`, `Correct` and
`Reconcile` are the parts of the recovery cycle; `Cancel`, `CancelRoot`, `Pause`,
`Resume`, `Retry` and `Abort` are what users and shutdowns do.

`RefuseRun` deserves a remark: `recordRun()` throws for a Task whose Objective was
cancelled, the exception leaves `TaskGraph.run()`, and other workers of the same
loop go on with nobody waiting for them. They do so in the model.

Mutations of the outside world by an executor are one bit per Run (`mutated`).
`ToolEffects` shows why recovery may rely on that bit: `ReplayNeverRepeats`.

### ToolEffects

`effect` and `identity` are the two SQLite tables, `active` the per-process map of
calls in progress, `up` and `usedPid` the processes. Beside the record stands the
world: an Effect that began is `outstanding` until its mutation takes place
(`Apply`) or cannot take place any more (`Fizzle`), which may be after the call
returned an error, after its process died, and after the operator looked.

Two things are assumed of the environment and stated as operators: `Honest`, that
a tool which reports a local success, or presents a proof its provider is trusted
for, did mutate; and `OperatorIsRight`, that the operator who reconciles an
unknown Effect found out the truth. Without them no record could be true.

`Start` is the constructor: it recovers orphans and prunes old Effects. With
`PidReuse` a new process may get an id used before, and unrelated programs may
have the ids of dead holders. The import of older file formats is left out, and
the `planned` status, which exists only inside one transaction.

### ProfileTaskScheduler

`Submit` is `run()`: it refuses work beyond the limits, queues it and pumps.
`Settle` is the settlement of the caller's promise and the adaptation of the
limit, `Release` the `finally` that frees the slot and pumps again; they are two
actions because the caller's continuation runs in between. `Abort` removes queued
work. The queue of an owner is a sequence and the ring of owners another, with the
position kept as the last owner served, as in the code.

### SubagentManager

The module EXTENDS the scheduler, so that delegations and the other work of the
Profile compete for the same slots, and every step that starts work
(`Submit`, `Release`) says which delegations it starts (`StartsRuns`). A `task`
is the manager's record: its status, the reason it was asked to stop, and where
its run is: `submitted` to the scheduler, `rejected` by it, `executing`, `over`
(the graph has ended, the slot is still held) or `gone`. A `row` is the status of
the Task in the ledger. `TaskGraph.run()` is its outcome here (`GraphEnds`);
`OthersMove` and `Revive` are what recovery and the commands do to the same Task,
which `TaskExecution` models: `OthersMove` while it is active, `Revive` once it has
failed, when the user retries its Plan (`prepareTaskPlanRetry`), a correction is due
(`prepareTaskCorrections`), or a verdict that was unavailable arrives. The manager
hears of none of them; a Task it will never read again is not followed further. `Dispose` and `Disposed` are the two halves of the
shutdown, before and after it has awaited the runs.

Left out: waiters and the retention of ended records, which read only; runs
without a ledger or verifier, which the gateway does not use; a ledger that
throws. The reason to stop is forgotten when a run ends, where it is not read
again.

### ObjectiveCompletion

One Objective, from the answer of a turn to the receipt of the channel. `objective`,
`run`, `plan` and `row` are the rows of `tasks`, `task_runs`, the Plan and
`objective_completions`; `last` is the Run that succeeded last, which the ledger
finds by time. A *turn* is named by its Task Run, and a correction goes on as the
turn of the new Run. A *worker* is the delivery service of one process and the
token of its latest claim. `sent` is what the channel accepted: a receipt is an
index of it, so a receipt names a message and what it said.

An action is what a handler does between two awaits. `Answer`, `Accept`, `Reject`,
`Correct`, `Unavailable`, `Throw` and `Lose` are the turn (`agent-runtime.ts`,
`objective-runtime.ts`). `Origins` says which turns may create the Objective, and a
turn of a Schedule is of kind `automation`: when it throws, a second catch
(`agent-runtime.ts:1914-1919`) gives the Objective back (`GiveBack`), pending and
without its candidate, or cancelled if the caller's signal was aborted. The gateway
passes no signal to an automation turn today (`gateway.ts:65-77`); the cancellation
is there because the runtime supports it. The next turn makes a pending Objective
active again (733). `Reconcile` and `Reverify...` are the recovery service,
`DeliverPlan`, `Synthesize`, `Synthesized` the notice of a Plan's outcome,
`Present`, `PublishPresented` and `Acknowledge` the interactive delivery by the
dispatcher, and `Claim`, `Send`, `Record`, `Publish`, `Complete`, `Fail`, `Defer`
the worker of `objective-completion-delivery.ts`. `Settle`, `Enqueued`, `Deliver`
and `Settles` are the transactions of the store they share.

A service claims a batch and handles it row by row; with one Objective a batch is
one row, and what the rest of a batch does to a lease is that the claim may be
taken over at any time (`Claim` takes a due row that is `delivering`). Retry delays
are `Due`. Text, evidence and conversation addresses are left out.

### AutomationSchedule

One row of `automation_jobs` (`job`), its occurrences by nominal due time, the
deliveries of a reminder, and the Objectives an agent Schedule creates, one per
execution (`<<time, attempt>>`). A *worker* is one execution promise of
`AutomationScheduler`; its name is the claim token. `live` says whose claim has
not expired: an execution whose lease was lost goes on until its next use of the
token. An agent execution goes through `claimed` (the claim), `opened` (its
Objective is created) or `reopened` (it found that of an earlier execution),
`entered` (it holds the session), `turn` (the Objective is bound to the occurrence)
and `accepted`, `answered`, or `thrown` and `failed`; a reminder goes straight from
claimed to its outcome. One execution at a time is in the session. A turn that throws
fails the Objective it created, and gives one that it found back to pending, or
cancels it (`GiveBack`).
`Update`, `RunNow`, `Pause`, `Resume` and `Remove` are the owner's commands, taken
whenever the code accepts them; `Crash` loses the process with all executions and the batch.

The clock is the number of ticks up to `Last`, and cadence, delay and grace are
small numbers of ticks. Cron expressions are a period: what matters is that the
next run lies after now. The retention of old rows and the delivery target are
left out, and so are automation turns that hand their Objective to a Task Plan. `DeliverObjective` stands for `ObjectiveCompletion`.

### ConversationInput

One conversation of one gateway process. An *actor* is the handler of a message
(`Dispatcher.dispatch()` and what it calls) or the recovery at start. Its `pc` is
where it awaits: `waiting` at the admission gate, `busy` or `free` (the phase it read),
`offer`, `start`, `planning` (the turn is reserved, the phase says so, and the model is
asked for its status), `starting` (`turn.started` has been applied, which writes the
phase a second time, and the turn waits for the session), `running`, `finished` or
`aborted`, `settling`,
`present` or `fail`, `draining` when it comes back to the gate for the next queued
input, and `giveback` when it finds there that it may not start it; `id` and `token`
are the input it has in hand and its claim on it. `store` is the queue file, `phase`,
`native`, `primary` and `held` the state of `InteractionEventAdapter`, `gate` the
promise chain that admits one handler at a time, `session` the turn that holds the
session lock. Inputs that an earlier process left in the file may be there in any
order (`Orders`). `cancel` is a /stop, one at a time: it aborts the turn that holds the
session (`Stop`), publishes `turn.cancelled` if there was a session and no turn has
done so (`Stopped`), and clears the queue (`Cleared`); `requested` and `published` are
the two flags it shares with the turn, which publishes nothing when it fails after
them and forgets them when it settles.

`disturbed` is history. A turn is live from its reservation until its end is
published. It counts as disturbed from the moment /stop has written the phase, or
another turn has started beside it.

Every step ends where the code awaits, so that a phase that was read may be stale
when it is used. Left out: media, steering and control commands other than `/stop`,
approvals and the phases they write, the deduplicator and the ingress capacity, the queue's own lock file and
size limits, a presentation that fails to start, and a lease that lapses while its
input is being worked on (a lease is renewed and outlives the turn's timeout).

### ProcessLock

A *process* is one acquisition with its token. Every access to the file system is
awaited in the code and is one action: `Open`, `Write`, `ReadOwner`, `Judge`, the
mutex (`MakeMutex`, `SignMutex`, `Blocked`, `RemoveMutex`), `Check`, `Rename`,
`Unlock`, and `Release` and `Remove` for the release. A file is named by the process
that created it, so that a write through the open handle goes to the file that was
created even if it has been moved away. The age limits of a minute are taken to be
met by processes that are alive, so only what a dead one left behind is too old.

## 3. Runs

| Run | Configuration | Instance | States | Properties |
|---|---|---|---|---|
| `delegations` | `SubagentManager.cfg` | 2 conversations: three items that come back for ever, two delegations; 2 slots, queue of 3, 2 of one conversation, 1 open delegation each | 354,217 | `ManagerTypeOK` `NoIdleSlot` `ReportMatchesLedger` `ServesAnother` `DelegationsEnd` |
| `effects` | `ToolEffects.cfg` | 3 Effects, 3 processes, 4 kinds of call | 219,643 | `TypeOK` `AtMostOnce` `RecordIsTrue` `ReplayNeverRepeats` `CompensatesCommitted` `StartRecoversOrphans` |
| `execution` | `TaskExecution.cfg` | 1 mutating Task with criteria, 2 hosts, 3 Runs, crashes | 25,305 | `TypeOK` `OneExecutor` `ResultWasAccepted` `ReplayIsSafe` |
| `execution_commands` | `TaskExecutionCommands.cfg` | 2 dependent Tasks, the first with criteria and 2 routes, below an Objective, 2 hosts, 3 Runs, cancel, abort, pause, retry | 703,824 | `PlanSuccess` `CancelledPlanIsQuiet` `ObjectiveStopsSuccess` |
| `execution_chain` | `TaskExecutionChain.cfg` | 2 dependent Tasks, claimed or delegated, 2 hosts, 2 Runs, crashes, suspensions, retry | 647,333 | `DependenciesFirst` `OutcomeIsFinal` `LostRunNeverSucceeds` |
| `execution_fair` | `TaskExecutionFair.cfg` | 2 dependent Tasks with criteria, 4 Runs, fairness, no crashes | 20,883 | `PlanSettles` |
| `completion` | `ObjectiveCompletion.cfg` | turns of users, Plans, the initiative and Schedules; 2 Runs, 2 results, 1 worker, 1 attempt, 1 correction, 1 fault | 1,511,267 | `TypeOK` `AcceptedIsQueued` `SucceededWasDelivered` `PublishedWasSent` `DeliversOneResult` |
| `completion_fair` | `ObjectiveCompletionFair.cfg` | 1 Run, 1 result, 2 workers, 2 attempts, 1 fault, fairness | 329,414 | `TakenOverClaimIsQuiet` `DeliverySettles` |
| `schedules` | `AutomationSchedule.cfg` | all kinds, policies and works, 2 executions, 5 ticks, 2 attempts, 1 command, 1 fault, fairness | 100,161 | `TypeOK` `OneExecution` `AttemptsBounded` `SuccessWasAccepted` `OneAcceptedObjective` `OutcomesAreFenced` `OccurrencesEnd` `DeliveriesEnd` |
| `conversation` | `ConversationInput.cfg` | 2 messages and 1 left over, queue of 2, 1 crash, failure or /stop, fairness | 508,032 | `InputTypeOK` `NoTurnIsOverrun` `HandlersFinish` |
| `conversation_kept` | `ConversationInputKept.cfg` | the same | | refutes `AdmittedIsKept` |
| `lock` | `ProcessLock.cfg` | 3 processes, at most 1 dies | | refutes `MutualExclusion` |

Between them the passing runs take every action of the modules they check. `DeliversOneResult`
is the refinement: every behaviour of `ObjectiveCompletion`, seen through the
outbox's row, the messages and the Objective's outcome, is one of `ResultDelivery`.

**Why the bounds are enough.** For `TaskExecution`, two hosts suffice for what the
claim is about: an executor and its successor. A third host would only repeat the
second, because a host value is reused for a fresh holder once it is idle. Two or
three Runs allow an attempt, a correction, and a recovered attempt of the same Task;
when the Run ids are used up no further attempt starts, which bounds the state
space, and the safety properties hold of every prefix. Two dependent Tasks let the
outcome of one change between the scan and the start of the other. Larger instances
were explored for `TaskExecution` beyond five million states without a violation
but do not finish in minutes.

Three Effects allow two that share a key and an inverse of one of them; three
processes a holder, its successor and one more.

In `delegations`, three items of one conversation that come back for ever are what
could starve the other: one may wait while two run. The limit of one open
delegation binds with two; three items of one conversation against two places in its
queue let the scheduler reject one, and both limits of the queue can be met. The two
delegations are alike, so `FirstDelegation` lets one of them be spawned first.

In `execution_commands`, two dependent Tasks are what a cancelled Plan needs for one
of them to be revived: the first fails or is rejected while the other waits for it,
the Plan is cancelled between them, and a correction or a retry follows. Three Runs
are an attempt, a correction of it on the other route, and the second Task. Users pause
the Plan while there are at most two Runs (`PausedEarly`); without that the run is twice
as large and holds as well.

In `completion`, two Runs with two results let a correction, a retried Plan or a
second turn produce another result than the one queued. An Objective with a Plan is
explored without the turns of Schedules (`Explored`); with them the run is twice as large
and holds as well. One worker is enough there:
what two workers do to each other is the question of `completion_fair`, which has
one result. Both together are too many states. One fault is one crash, stall, lost
lease or repeated notice at any point; the theorems (section 4) hold for any number.

In `schedules`, five ticks at a period of two are three occurrences, of which one
can be retried, misfire and be overtaken by the next. The constraint `Explored` lets
the owner's commands and the delivery of answers meet reminders only, because they act
on the rows of the Schedule and the delivery and not on Objectives, and agent
executions one kind of Schedule under one policy, and reminders that kind under the
other; `FirstWorker` lets the first of two executions that
are alike claim. The theorems have none of these restrictions. With two commands the safety properties hold too (the
theorems say so); `OccurrencesEnd` does not, because a run-now followed by a resume
stops the whole scheduler (section 5).

In `conversation`, two messages are one whose turn runs and one that meets it, and
the input left over gives recovery something to do beside them; a queue of two is
full with one more. The messages are alike, so `FirstMessage` lets one of them arrive
first. One trouble at any point is a crash, a failed turn, an answer
that cannot be shown, or /stop.

`PidReuse` is `FALSE` in the run; the theorems hold for both values, except
`OrphansRecovered`, which assumes that process ids are not reused.

**Fairness.** `ManagerFairness` asks that runs of delegations end and are settled
(executors and verifiers are under timeouts), that other work settles and that
freed slots are released (`finally` runs); nobody need submit, cancel or time out.
`TaskExecution`'s `FairSpec` asks that hosts and workers proceed (executors and
verifiers have timeouts), that leases nobody renews run out, that the recovery timer
keeps doing its cycle, that a paused Plan is resumed, and strongly that the recovery
service gets to reverify and does not meet an unavailable verifier for ever. There
are no crashes in that run: after a crash the code may in fact forget a Task
(section 5). `ObjectiveCompletion`'s asks that retry times come, that every service
polls (its interval), and that a delivery that began ends, well or badly (the send
and the publication return or throw). `AutomationSchedule`'s asks that the clock
goes on, that the timer claims and skips what is due, that executions and the
delivery interval go on, and that the leases of dead executions run out.
`ConversationInput`'s asks that every handler, turn and recovery takes the steps that
stay possible (promises settle, runs end), and that a /stop that began goes on.
Messages, users, faults, crashes and lapses are assumed nowhere.

**Deadlock** is checked for `delegations`, whose other work comes back for ever.
Elsewhere a settled Plan, a delivered result, a clock at its end or a conversation
without messages stops.

**Where a property is claimed, and where not.**

* `PlanSettles` is claimed with `Admitted = Budget`. The code gives the first
  execution fewer corrections than recovery, and then `Correct` is enabled between
  two steps that the code makes in one tick, which would be a loop of the model.
* `PlanSuccess` is claimed without suspensions and without delegations: there
  `run()` derives the Plan outcome from rows it read earlier. Recovery may repeat
  every Task there (section 5 says why).
* `ReplayIsSafe` is claimed with one route: with two routes and crashes one Task
  can have two expired Runs, and the first one read decides for both.
* `ObjectiveStopsSuccess` is claimed without crashes: after one, the automatic
  correction described in section 5 (`store.ts:2540`) lets a cancelled Objective's
  Task go on.
* `CancelledPlanIsQuiet` says what a cancelled Plan leaves, for every Plan and every
  command, and so has two exceptions. A Task that failed may become pending again, by a
  correction or a retry, which do not look at the Plan; and a recovery that is told to
  stop leaves a Task it may not repeat pending (section 5).
* `OneExecutor` is claimed for Plans started under a claim; a delegation has none.
* `DeliverySettles` lets a result be overtaken by a later turn or a cancellation:
  the code does not deliver what is no longer current.
* `OccurrencesEnd` ends with a Schedule that was stopped, and with the model's clock.
* `ReportMatchesLedger` excepts a Task that recovery executed while its delegation
  still waited for a slot, one that was revived after its delegation was reported, and
  the time after the shutdown. That a delegation reported as completed succeeded has
  none of the first two exceptions.
* `AcceptedIsQueued` speaks of an Objective that has an accepted candidate. An
  automation turn that throws takes the candidate back and leaves the verdict
  (section 5).
* `SuccessWasAccepted` says that the Objective's result is in the outbox and was not
  rejected or replaced. That it is still accepted does not hold: a late execution may
  give the Objective back or cancel it (section 5).
* `NoTurnIsOverrun` excepts live turns that were disturbed: after /stop, and beside a
  turn of the recovery, which does not look at the phase, a message does start a turn
  over one that has not ended (section 5).
* `DelegationsEnd` excepts a run that is over without a verdict: its delegation stays
  running in the manager (section 5).
* Plans consist of Tasks that recovery may repeat, as production code creates them;
  for a Plan with other Tasks too, recovery ends with those still pending.

## 4. Proofs

TLC checks these properties on the instances above; TLAPS proves them for all
values of the constants that satisfy the modules' assumptions.

| Theorem | Module | States |
|---|---|---|
| `TypeCorrect` | `TaskExecutionProofs` | `TypeOK` |
| `OutcomesAreFinal` | `TaskExecutionProofs` | `OutcomeIsFinal` |
| `LostRunsNeverSucceed` | `TaskExecutionProofs` | `LostRunNeverSucceeds` |
| `DependenciesAlwaysFirst` | `TaskExecutionProofs` | `DependenciesFirst` |
| `OneExecutorAlways` | `TaskOutcomeProofs` | `OneExecutor` |
| `ReplaysAreSafe` | `TaskOutcomeProofs` | `ReplayIsSafe` |
| `ResultsWereAccepted` | `TaskOutcomeProofs` | `ResultWasAccepted` |
| `SuccessfulPlans` | `TaskOutcomeProofs` | `PlanSuccess` |
| `CancelledPlansAreQuiet` | `TaskOutcomeProofs` | `CancelledPlanIsQuiet` |
| `TypeCorrect` | `ToolEffectsProofs` | `TypeOK` |
| `NeverDuplicated` | `ToolEffectsProofs` | `AtMostOnce` |
| `RecordIsAlwaysTrue` | `ToolEffectsProofs` | `RecordIsTrue` |
| `NeverReplayed` | `ToolEffectsProofs` | `ReplayNeverRepeats` |
| `InverseOfCommitted` | `ToolEffectsProofs` | `CompensatesCommitted` |
| `OutcomeIsFinal` | `ToolEffectsProofs` | a settled Effect stays settled (proved only, no run checks it) |
| `OrphansRecovered` | `ToolEffectsProofs` | `StartRecoversOrphans`, if process ids are not reused |
| `Implements` | `ObjectiveCompletionProofs` | `DeliversOneResult`: `ObjectiveCompletion` implements `ResultDelivery` |
| `TypeCorrect` | `ObjectiveCompletionProofs` | `TypeOK` |
| `AcceptedResultIsQueued` | `ObjectiveCompletionProofs` | `AcceptedIsQueued` |
| `SuccessWasDelivered` | `ObjectiveCompletionProofs` | `SucceededWasDelivered` |
| `PublicationWasSent` | `ObjectiveCompletionProofs` | `PublishedWasSent` |
| `ClaimsAreExclusive` | `ObjectiveCompletionProofs` | `TakenOverClaimIsQuiet` |
| `TypeCorrect` | `AutomationScheduleProofs` | `TypeOK` |
| `OneExecutionAtATime` | `AutomationScheduleProofs` | `OneExecution` |
| `AttemptsAreBounded` | `AutomationScheduleProofs` | `AttemptsBounded` |
| `LostClaimsAreFenced` | `AutomationScheduleProofs` | `OutcomesAreFenced` |
| `OneAcceptedResult` | `AutomationScheduleProofs` | `OneAcceptedObjective` |
| `SuccessIsAccepted` | `AutomationScheduleProofs` | `SuccessWasAccepted` |
| `ManagerTypeCorrect` | `SubagentManagerProofs` | `ManagerTypeOK` |
| `NoSlotIsIdle` | `SubagentManagerProofs` | `NoIdleSlot`, of the scheduler with delegations in it |
| `ConversationsTakeTurns` | `SubagentManagerProofs` | `ServesAnother`, likewise |
| `ReportsAreTrue` | `SubagentManagerProofs` | `ReportMatchesLedger` |
| `SlotsAreBounded` | `SubagentManagerProofs` | held slots never exceed the limit (proved only) |
| `InputTypeCorrect` | `ConversationInputProofs` | `InputTypeOK` |
| `TurnsAreNotOverrun` | `ConversationInputProofs` | `NoTurnIsOverrun` |

**TaskExecutionProofs.** The invariant has four parts: the types of the ledger,
the types of hosts and workers together with what a worker's step says about its
Run, that a Task for which a Run was recorded met its dependencies, and the
remaining state. `DependenciesFirst` alone is not inductive: a worker that has
picked a Task but not yet recorded its Run must be known to have seen its
dependencies succeed, and that they still do follows from the finality of
outcomes. So each transaction is first shown to be *sound*: it keeps the types,
keeps the rows of succeeded and cancelled Tasks, lets no lost Run succeed, and
records no Run. Then each action is shown *right*: its transaction is sound, and
it keeps the rest of the invariant. Finality and the success fence are thereby
proved for arbitrary hosts, crashes, suspensions, delegations and commands,
including those where the runs restrict other properties.

**TaskOutcomeProofs.** What a Plan comes to depends on who works on it, so these
theorems have hypotheses: without them the code does not keep the property, or not
the invariant that its proof rests on. `Exclusive` excludes suspensions and delegations: a process that
sleeps past its leases, and a delegation, work beside the holder of the claim. Then
`Claimed` says that while the Objective runs whoever does anything holds the claim,
and `Attended` that every worker belongs to an invocation that is still there. The
second is lost when `run()` throws beside other workers (`RefuseRun`), so the theorems
assume one worker at a time, one Task, or that nothing happens for which a Run could
be refused (`Undisturbed`: one route, no cancellation, no retry).

| Theorem | Assumes besides `Exclusive` | Because |
|---|---|---|
| `OneExecutorAlways` | one worker at a time, or `Undisturbed` | see above |
| `ReplaysAreSafe` | `Undisturbed` | with a second route, or after a retry, a Task can have two expired Runs |
| `ResultsWereAccepted` | the same as `OneExecutorAlways`; the Objective is not cancelled | the cancellation deletes the claim while its holder goes on, so `Claimed` no longer keeps verifiers apart |
| `SuccessfulPlans` | every Task may be repeated; nobody cancels or aborts, or `Undisturbed` | the Plan outcome is computed from rows read earlier (section 5) |

`CancelledPlansAreQuiet` assumes none of this, not even `Exclusive`: it holds for every
Plan, of any number of Tasks, with delegations, suspensions, crashes and every command.

`Supervised` is the invariant behind `ReplaysAreSafe`: a running Task without a
candidate has at most one Run that has not ended, and whoever executes it holds that
Run.

**ToolEffectsProofs.** `AtMostOnce` is not inductive. The invariant adds that
identity rows point to records with that identity (`RowsAreRight`), that an Effect
which is executing, unknown or committed holds every identity it has
(`LiveHoldsIdentities`), that the record tells the truth (`RecordIsTrue`), and that
an Effect never begun, or pruned although it had an identity, neither happened nor
can (`GoneIsHarmless`). Two Effects that are the same mutation would then hold one
identity row. `OrphansRecovered` also needs that a running holder still awaits its
Effect (`HolderAwaits`). For `InverseOfCommitted` the Effect that an
inverse action undoes stays committed, or is pruned, for good
(`CompensationsStand`). The theorems use the two assumptions on tools and operator,
which are guards of the model.

**ObjectiveCompletionProofs.** `IInv` adds three things to what the runs check. What
a row remembers: its Run succeeded with its result, and stays so (`RowIsRight`).
Where receipts come from: each names a message with the row's result
(`ReceiptsAreRight`). Who may write one: a turn or worker that has sent holds the
receipt of a message, so whichever of them settles the Objective, in whatever order,
does so with a receipt (`SendersHaveReceipts`, `DeliveredIsFinal`). A verdict that
outlives its candidate, which an automation turn leaves behind, is covered: what is
shown of an accepted Objective is shown while it has one. The refinement
then follows step by step: a step of the code offers a result, sends one message,
ends the Objective, or changes nothing that `ResultDelivery` sees.

**AutomationScheduleProofs.** `ClaimInv` ties the token of the Schedule to the one
occurrence that is open, and says that an occurrence nobody works for any more has
an attempt to spare: a crash or a lost lease pays for the attempt it cuts short.
That is why the bound on the attempts grows with the faults and with nothing else,
although `claimDue()` reclaims without a look at the attempts. `OutboxInv` is the
same argument for deliveries.

In the second half, `BoundInv`: every Objective a turn ever worked for is
that of its occurrence, so there is one, although executions that lost their claim
go on and every execution may create an Objective. `ResultInv`: the numbers of the
attempts keep the Objectives of two executions apart, and once the holder of an
occurrence has its verdict no earlier turn of that occurrence goes on, so that no
verdict comes after the one it read. An earlier execution may only have thrown, and
what it then does to the Objective takes no result out of the outbox (`InOutbox`).

**SubagentManagerProofs.** First the scheduler. `Sound` binds its sequences and its
counter to the states of the items: a queue has each waiting item of its owner once,
the ring each owner with a queue once, and the counter is the number of slots that
are held. The pump is a recursive function; `Pumped` says what any number of its
rounds leaves, and an induction over the rounds (`PumpIs`) shows it of the result:
nothing more can be started, the limit is kept, and another owner that waits was
served first. Then the manager: where the run of a delegation is says whether it was
reported already, only a run is asked to stop, and a Task is in the ledger before its
run is submitted (`RunIsRight`). That delegations execute in the slots they hold, and
that a shutdown, which removes many items at once, keeps the promises of the
scheduler, needs both parts (`Linked`).

**QueueProofs** has what both queues need: what appending and removing do to the
entries of a sequence, which of them `Staying` keeps and in which order, and induction
over the natural numbers as a statement about sets, because the library's takes an
operator, which the provers cannot instantiate.

**ConversationInputProofs.** A handler reads the phase at the gate, awaits, and
starts its turn, while turns and /stop write the phase; `NoTurnIsOverrun` says which
turns may be live by then. There are two invariants. The first is about the gate: its
chain holds exactly the handlers that wait or are inside, each once, and whoever is
inside is its head (`GateIsRight`); a turn holds the session only while it runs
(`SessionRuns`). The second, `TurnsAreRight`, ties the phase to the turns: a live turn
that nothing disturbed is the only one, and the phase is busy (`UndisturbedIsBusy`), so
a handler that finds it quiet inside the gate meets none, and meets none when it starts,
because whoever else starts a turn would be inside as well (`QuietIsFree`). Both hold
for any number of messages, limits, crashes and /stop.

**Model-checked only** is what needs fairness, which the prover cannot treat:
`PlanSettles`, `HandlersFinish`, `DelegationsEnd`, `DeliverySettles`,
`OccurrencesEnd` and `DeliveriesEnd`. Of the safety properties, `ObjectiveStopsSuccess` is model-checked only: an
invariant for it is known under hypotheses that production Plans do not meet (one Task,
no retry). What holds without them is proved: `LostRunsNeverSucceed` says that no
Run succeeds below a cancelled Objective, and `OutcomesAreFinal` that a cancelled Task
stays cancelled. Every other safety property of the passing runs is the subject of a
theorem. For the properties of `TaskExecution` in the table above, the runs and the
theorems meet but neither contains the other: `execution` and `execution_commands` have
two hosts, few Runs and one or two Tasks, and the theorems have any number of each under
their hypotheses.

## 5. What the code does differently from what it says

Two disagreements are checked by runs that exhibit them.

* `lock`: a process that found the lock reads its owner just after the release. The
  file is missing, so the owner is the empty text and `oldEmptyLock()` answers that
  it is stale (`process-lock.ts:71`). Under the mutex the empty text of a missing or
  just created file equals that owner, and the process moves away whatever is at the
  path (`process-lock.ts:46-47`): the lock another process has just created. Both
  hold it, and nobody died. `apps/cli/test/channel-lock.test.mjs:9` says that the
  lock "prevents duplicate Profile gateways and releases cleanly".
* `conversation_kept`: a message that has to wait behind a queued input is taken out
  of the native inputs, but stays a primary one; when the queued input's turn does
  not complete, the message is acknowledged with it (`interaction-runtime.ts:263`)
  and nobody executes it, although it was durably reserved before its admission was
  acknowledged (`interaction-runtime.ts:337`).

The following were met while modelling. They are behaviour of the models, unless a
remark says that they were only read, but no run is about them. The properties of
section 3 are stated so that they hold beside them.

*Execution and recovery*

* A host that slept past the expiry of its claim cancels, in the catch block of
  `executeTask()` (`task-graph.ts:259`), the Task of its successor; compare
  `memory/test/store.test.mjs:2086`.
* `prepareTaskCorrections()` (`store.ts:2540`) revives a rejected Task below a
  cancelled Objective; compare `store.test.mjs:685`. It does the same in a cancelled
  Plan, and a retry does too: a failed Task of a cancelled Plan becomes pending.
* A recovery that is told to stop cancels the waiting Tasks it may repeat and leaves
  the others pending in a Plan that it marks cancelled (`task-graph.ts:90,93-97,133`).
* `run()` of a recovery looks only at Tasks that may be repeated. When it returns it
  marks the Plan succeeded although another Task is still pending
  (`task-graph.ts:90,133,138`).
* When the signal is aborted, `run()` cancels the Tasks that wait and computes the
  Plan outcome from the rows it read before (`task-graph.ts:93-97,133`).
* A Plan whose last Task ends during a pause is not settled on resume.
* A verdict of a reverification is applied to the candidate stored when it arrives,
  not the one that was read (`task-recovery.ts:132`, `store.ts:2519`).
* After a crash during a Corrective Attempt the rejected candidate is taken for one
  that awaits verification (`store.ts:2450`).
* A crash between marking a Task running and recording its Run leaves a Task that
  reconciliation, which starts from Runs, never finds (`task-graph.ts:164`).
* A retry of a cancelled Plan makes its failed Tasks pending, and no claim can be
  taken on a cancelled Plan (`store.ts:2829`).
* Recovery takes a holder of an Effect whose process id was reused, or is its own,
  for alive, and the Effect stays executing (`tool-effect.ts:313`; compare
  `tool-effect.test.mjs:139`). This is why `OrphansRecovered` has an assumption.

*Delegations*

* A delegation has no claim, so recovery may execute the same Task beside it
  (`task-manager.ts:322`).
* A delegation whose verdict is unavailable, or whose Task recovery took, stays
  running in the manager for ever and counts against the limit of its conversation
  (`task-manager.ts:331`); cancelling it has no effect, since its run is over.
* A delegation reported as failed whose Plan the user retries (`/tasks retry`, allowed
  because delegated Tasks may be repeated, `profile-work-runtime.ts:127`), whose
  correction is due, or whose verdict arrives late becomes pending or succeeded in the
  ledger (`store.ts:2829`), and the manager still says failed.
* A verified delegation that timed out is reported as cancelled.
* The end of the shutdown cancels, in the ledger too, delegations that await a verdict
  (`task-manager.ts:232`).
* The work of a delegation never throws, so the adaptive limit never sees an overload.
* A queued delegation that recovery has executed is reported cancelled on a cancel.

*Completion*

* An Objective is failed by an earlier turn after its result was accepted
  (`agent-runtime.ts:1855`); the outbox does not deliver a result that is not current.
* A verdict is applied to a candidate that a later turn stored.
* An automation turn that throws on an Objective whose result was accepted makes it
  pending and clears the candidate, but not the verdict (`agent-runtime.ts:1914-1919`,
  `store.ts:2038,2042`). Its row in the outbox can then not be settled, not even when a
  later turn has made the Objective active again, and no other result can be queued,
  because the row belongs to another Run: the result is never delivered.
* A message may be sent for an Objective cancelled meanwhile: at least one message,
  and no success.

*Schedules*

* Run-now and then an update or resume leaves `manual_resume_at` behind
  (`automation/src/store.ts:372`): the Schedule returns to an occurrence that exists,
  the insert (`store.ts:301`) violates its unique key in every tick, and `claimDue()`
  throws for every Schedule. `CanInsert` is that insert.
* A pause during an execution is undone by `complete()`.
* Run-now while an occurrence waits for its retry adds an execution off the cadence.
* Under the policy `skip`, an occurrence that was retrying or crashed is executed at
  the next cadence, however late.
* An agent execution that throws after creating its Objective fails it
  (`agent-runtime.ts:1855`), and every retry of the occurrence is refused (482).
* A crash between the creation of an Objective and its binding leaves it running, and
  so does a session that cannot be entered or a preparation that fails.
* An execution whose claim was taken over goes on, and when it throws, it gives the
  Objective of the occurrence back to pending (or would cancel it), also after its
  successor's answer was accepted and the occurrence has succeeded. The result then
  stays in the outbox as above.
* A retry of an occurrence whose Objective was accepted may demote it to unavailable.
* A reverification between the end of the turn and `isVerified` lets one answer be
  sent twice, once from each outbox.

*Conversations*

* A recovered or drained input whose answer is being presented is executed a second
  time by a new message: `peekQueuedInput()` returns the claimed head with its token.
  The acknowledgement then throws and strands the inputs behind it.
* `turn.queued` published after the end of the turn sets the phase to queued without
  a turn: the conversation waits until /stop or a restart.
* Native inputs handed to a following turn are acknowledged by the earlier one.
* Recovery does not look at the phase before it starts a turn, and the end of one of
  two turns sets the phase although the other goes on; a message may then start a third.
* /stop publishes the end of a turn that has not ended: a message that follows starts a
  turn over one that is still planning, waits for the session or is being aborted.
  `turn.started` of the former writes the phase again, late
  (`interaction-runtime.ts:225`).
* A turn that was still planning when /stop published its end, and that then fails,
  publishes nothing (`interaction-runtime.ts:244-249`): the phase stays running without
  a turn until the next /stop or restart.
* A failed turn leaves the queue until the next message or restart; after a crash
  the input in execution stays claimed until its lease lapses.
* An actor that drains may release the claim of another; /stop does not stop an input
  that an actor already has in hand.
* The rollback of the deduplicator (`dispatcher.ts:122`) may execute again an input
  that is already queued (only read).

*Locks and sessions*

* Two processes that both find the mutex directory of a dead one may both enter: the
  second removes the first's fresh mutex (`process-lock.ts:37`). The same happens
  after a mutex that was just left, which `staleReclaimMutex()` takes for stale too
  (79). So the lock of a dead owner would not exclude even without the disagreement
  above.
* The lock of the input queue (`interaction-input-queue.ts:184`) is reclaimed without
  a second lock, so a process may unlink the lock of a successor (only read).
* Sessions created at the same time all prune before any of them is in the pool, which
  may exceed its limit; a session just obtained is not busy yet, and another
  conversation's prune may dispose it (`session-coordinator.ts:171`, only read).

## 6. Not modelled, and the plan

Language-model turns, work contracts, ranking, memory, artifacts, channels, tools
and the command line are sequential, or are input and output; `PROJECT.json`
gives the reason for each. What remains is planned in this order.

1. The pool of sessions: its limit, creations in progress, and disposal of a session
   that was just obtained. `ConversationInput` has the lock of one conversation only.
2. The deduplicator and the ingress capacity in front of `ConversationInput`, and the
   lock file of its queue, as an instance of `ProcessLock` without the mutex.
3. Several Objectives in one batch of the outbox, and several Schedules in one tick:
   the failing insert of section 5 stops all of them.
4. The triggers of the initiative runtime, whose claims are like those of the outbox.
5. An abstract specification of a Task's outcome that `TaskExecution` implements, and
   its composition with `SubagentManager` in place of `OthersMove` and `Revive`.
6. `AdmittedIsKept` and `MutualExclusion` checked in models with the missing guards,
   and then proved.

The hazards in `PROJECT.json` that carry no property belong to items 1 to 3.
