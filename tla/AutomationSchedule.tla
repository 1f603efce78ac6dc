------------------------- MODULE AutomationSchedule -------------------------
(***************************************************************************)
(* A Schedule, the occurrences it materializes, the workers of the process *)
(* that execute them under leases, the Objectives an agent Schedule works   *)
(* for, and the outbox its reminders are sent from                          *)
(* (packages/automation/src/store.ts, packages/core/src/automation-         *)
(* runtime.ts, and the executor in apps/cli/src/gateway.ts).                *)
(*                                                                         *)
(* A worker is one execution promise of AutomationScheduler; its name is    *)
(* the claim token.  It keeps one claim until it settles, so a name is      *)
(* never the token of two claims that can both still be used.               *)
(***************************************************************************)
EXTENDS Integers, FiniteSets, FiniteSetsExt

CONSTANTS
  Worker,          \* executions that may run at once
  None,            \* NULL
  Kinds,           \* schedule kinds in use: at, every, cron
  Policies,        \* misfire policies in use: skip, run_once
  Works,           \* payloads in use: reminder, agent
  Last,            \* bound: the clock stops here
  Period,          \* the cadence
  Delay,           \* delay before a failed occurrence is retried
  Grace,           \* how late a skip Schedule may still start
  MaxAttempts,     \* executions of one occurrence
  MaxDeliveries,   \* attempts to send one reminder (10 in the code)
  MaxCommands,     \* bound: commands of the owner
  MaxFaults        \* bound: crashes, lost leases, deferrals

Time == 0 .. Last
Attempts == 1 .. MaxAttempts + MaxFaults

\* Every execution of an occurrence may create one Objective.
Objective == Time \X Attempts

ASSUME ScheduleAssumption ==
  /\ Kinds \subseteq {"at", "every", "cron"}
  /\ Policies \subseteq {"skip", "run_once"}
  /\ Works \subseteq {"reminder", "agent"}
  /\ {Period, Delay, MaxAttempts, MaxDeliveries} \subseteq Nat \ {0}
  /\ {Last, Grace, MaxCommands, MaxFaults} \subseteq Nat
  /\ None \notin Worker /\ None \notin Objective

VARIABLES
  now,        \* the clock
  job,        \* the row of automation_jobs
  occ,        \* the rows of automation_occurrences, by nominal due time
  live,       \* workers whose claim has not expired
  worker,     \* what each execution is doing
  objective,  \* the Objectives in the Task Ledger
  delivery,   \* the rows of automation_deliveries, by occurrence
  unexpired,  \* deliveries whose claim has not expired
  batch,      \* claimed deliveries the delivery worker still has to handle
  commands,   \* counter of the owner's commands
  faults      \* counter of faults

schedule == <<job, occ, live, worker, objective>>
outbox == <<delivery, unexpired, batch>>
vars == <<now, schedule, outbox, commands, faults>>

Final == {"succeeded", "failed", "skipped"}
Open == {t \in Time : occ[t].status \in {"claimed", "retrying"}}
Idle == [pc |-> "idle", at |-> None, attempt |-> 0, objective |-> None]

NoOccurrence ==
  [status |-> "absent", attempts |-> 0, token |-> None, objective |-> None]
NoDelivery == [status |-> "absent", attempts |-> 0]

\* computeNextRun(): a one-shot is the duration form, cron a fixed raster.
NextRun(kind, t) ==
  IF kind = "cron" THEN ((t \div Period) + 1) * Period ELSE t + Period

\* create(): deleteAfterRun defaults to TRUE for a one-shot.
Init ==
  /\ now = 0
  /\ job \in [kind : Kinds, policy : Policies, work : Works, once : BOOLEAN,
              enabled : {TRUE}, archived : {FALSE}, removed : {FALSE},
              next : {NextRun("every", 0)}, manual : {None}, token : {None}]
  /\ job.once <=> job.kind = "at"
  /\ occ = [t \in Time |-> NoOccurrence]
  /\ live = {}
  /\ worker = [w \in Worker |-> Idle]
  /\ objective = [o \in Objective |-> [status |-> "absent", queued |-> FALSE]]
  /\ delivery = [t \in Time |-> NoDelivery]
  /\ unexpired = {} /\ batch = {}
  /\ commands = 0 /\ faults = 0

-----------------------------------------------------------------------------
(* Commands of the owner.                                                  *)

Visible == ~job.removed /\ ~job.archived

Command ==
  /\ commands < MaxCommands
  /\ commands' = commands + 1
  /\ UNCHANGED <<now, outbox, faults>>

\* update() of the trigger: refused while an execution holds the Schedule.
\* The time a manual run returns to is left as it is.
Update(kind, policy) ==
  /\ Command /\ Visible
  /\ job.token = None
  /\ job' = [job EXCEPT !.kind = kind, !.policy = policy,
                        !.next = NextRun(kind, now)]
  /\ UNCHANGED <<occ, live, worker, objective>>

\* runNow(): the clock is in milliseconds, so no occurrence has or is due to
\* have exactly this time.
RunNow ==
  /\ Command /\ Visible
  /\ job.enabled /\ job.token = None /\ job.manual = None
  /\ occ[now].status = "absent" /\ job.next # now
  /\ job' = [job EXCEPT !.next = now,
                        !.manual = IF job.kind = "at" THEN None ELSE job.next]
  /\ UNCHANGED <<occ, live, worker, objective>>

\* setEnabled(): allowed while an execution holds the Schedule.
Pause ==
  /\ Command /\ Visible
  /\ job' = [job EXCEPT !.enabled = FALSE]
  /\ UNCHANGED <<occ, live, worker, objective>>

Resume ==
  /\ Command /\ Visible
  /\ job' = [job EXCEPT !.enabled = TRUE, !.next = NextRun(job.kind, now)]
  /\ UNCHANGED <<occ, live, worker, objective>>

\* remove(): the Schedule, its occurrences and its deliveries are deleted.
Remove ==
  /\ commands < MaxCommands
  /\ commands' = commands + 1
  /\ ~job.removed
  /\ job' = [job EXCEPT !.removed = TRUE, !.enabled = FALSE, !.token = None]
  /\ occ' = [t \in Time |-> NoOccurrence]
  /\ delivery' = [t \in Time |-> NoDelivery]
  /\ UNCHANGED <<now, live, worker, objective, unexpired, batch, faults>>

-----------------------------------------------------------------------------
(* claimDue().                                                             *)

Due ==
  /\ job.enabled
  /\ job.next <= now
  /\ job.token = None \/ job.token \notin live

Misfired == job.policy = "skip" /\ now - job.next > Grace

SkipMisfire ==
  /\ Due /\ Misfired
  /\ occ' = IF occ[job.next].status = "absent"
            THEN [occ EXCEPT ![job.next].status = "skipped"] ELSE occ
  /\ job' = [job EXCEPT !.enabled = job.kind # "at",
                        !.next = IF job.kind # "at"
                                 THEN NextRun(job.kind, now) ELSE job.next,
                        !.token = None]
  /\ UNCHANGED <<now, live, worker, objective, outbox, commands, faults>>

\* Mutant: an occurrence whose worker died is not taken up again.
ReclaimableRetrying == {t \in Open : occ[t].status = "retrying"}

\* Occurrences that are executed again before a new one is materialized.
Reclaimable ==
  {t \in Open : occ[t].status = "retrying" \/ occ[t].token \notin live}

\* The occurrence a claim executes.  A new one must not exist: the insert
\* would break UNIQUE(schedule_id, nominal_due_at) and undo the transaction.
Claimed ==
  IF Reclaimable # {} THEN Max(Reclaimable) ELSE job.next
CanInsert ==
  Reclaimable # {} \/ occ[job.next].status = "absent"

Claim(w) ==
  LET t == Claimed IN
  /\ Due /\ ~Misfired /\ CanInsert
  /\ worker[w] = Idle /\ w \notin live
  /\ job' = [job EXCEPT !.token = w]
  /\ occ' = [occ EXCEPT ![t].status = "claimed", ![t].token = w,
                        ![t].attempts = @ + 1]
  /\ live' = live \cup {w}
  /\ worker' = [worker EXCEPT ![w] =
       [pc |-> "claimed", at |-> t, attempt |-> occ[t].attempts + 1,
        objective |-> occ[t].objective]]
  /\ UNCHANGED <<now, objective, outbox, commands, faults>>

-----------------------------------------------------------------------------
(* The lease of a claim, on the Schedule and on its occurrence.            *)

Busy(w) == worker[w].pc # "idle"

\* The heartbeat of a worker does not come in time (a suspended machine), or
\* the worker is gone.
ExpireClaim(w) ==
  /\ w \in live
  /\ live' = live \ {w}
  /\ IF Busy(w) THEN faults < MaxFaults /\ faults' = faults + 1
                ELSE UNCHANGED faults
  /\ UNCHANGED <<now, job, occ, worker, objective, outbox, commands>>

\* renewClaim(): asks for the token only, not for an unexpired lease.
Renew(w) ==
  /\ Busy(w) /\ w \notin live
  /\ job.token = w
  /\ live' = live \cup {w}
  /\ UNCHANGED <<now, job, occ, worker, objective, outbox, commands, faults>>

-----------------------------------------------------------------------------
(* The execution of an agent occurrence, over the Objective it works for.   *)

Goes(w, pc) == worker' = [worker EXCEPT ![w].pc = pc]

\* Rows that are pending or running: given back, without a candidate, with an
\* unverified one, with an accepted one.
Unfinished == {"pending", "active", "retained", "accepted"}

\* The Objective an execution creates, when the occurrence has none.
Own(w) == <<worker[w].at, worker[w].attempt>>

\* The turn that created an Objective fails it when it throws.
FailsCreated(w) ==
  LET o == worker[w].objective IN
  IF o = Own(w) /\ objective[o].status \in Unfinished
  THEN objective' = [objective EXCEPT ![o].status = "failed"]
  ELSE UNCHANGED objective

\* An occurrence that already has an Objective works for that one, which must
\* not have ended; the first execution creates it.
Begin(w) ==
  LET o == worker[w].objective IN
  /\ worker[w].pc = "claimed" /\ job.work = "agent"
  /\ IF o # None
     THEN /\ Goes(w, IF objective[o].status = "pending" THEN "reopened"
                     ELSE IF objective[o].status \in Unfinished
                     THEN "opened" ELSE "failed")
          /\ UNCHANGED objective
     ELSE /\ objective' = [objective EXCEPT ![Own(w)].status = "active"]
          /\ worker' = [worker EXCEPT ![w].pc = "opened",
                                      ![w].objective = Own(w)]
  /\ UNCHANGED <<now, job, occ, live, outbox, commands, faults>>

\* The turn has the session of the Schedule.  An Objective that was pending
\* when the execution began runs again; one that has ended takes no Run.
Enter(w) ==
  LET o == worker[w].objective IN
  /\ worker[w].pc \in {"opened", "reopened"}
  /\ \A v \in Worker : worker[v].pc \notin {"entered", "turn"}
  /\ Goes(w, IF objective[o].status \in Unfinished THEN "entered" ELSE "thrown")
  /\ objective' = IF worker[w].pc = "reopened" /\ objective[o].status = "pending"
                  THEN [objective EXCEPT ![o].status = "active"] ELSE objective
  /\ UNCHANGED <<now, job, occ, live, outbox, commands, faults>>

\* Mutant: any execution of the occurrence may bind its Objective.
MayBindAny(w) == TRUE

\* bindClaimExecution().
MayBind(w) == occ[worker[w].at].token = w /\ w \in live

Bind(w) ==
  /\ worker[w].pc = "entered"
  /\ IF MayBind(w)
     THEN /\ occ' = [occ EXCEPT ![worker[w].at].objective = worker[w].objective]
          /\ Goes(w, "turn")
          /\ UNCHANGED objective
     ELSE /\ Goes(w, "thrown") /\ FailsCreated(w) /\ UNCHANGED occ
  /\ UNCHANGED <<now, job, live, outbox, commands, faults>>

\* The turn ends with a verdict on its answer, and may still throw after it.
\* An Objective whose result is in the Completion Outbox, or that has ended,
\* is not accepted a second time.
Verdict(w, status) ==
  LET o == worker[w].objective IN
  /\ worker[w].pc = "turn"
  /\ status = "accepted" => objective[o].status \in Unfinished /\ ~objective[o].queued
  /\ \/ Goes(w, IF status = "accepted" THEN "accepted" ELSE "answered")
     \/ Goes(w, "thrown")
  /\ objective' =
       IF objective[o].status \in Unfinished
       THEN [objective EXCEPT ![o].status = status,
                              ![o].queued = @ \/ status = "accepted"]
       ELSE objective
  /\ UNCHANGED <<now, job, occ, live, outbox, commands, faults>>

\* The turn throws, or is aborted: the claim was lost, the gateway stops.  A
\* session or a preparation that fails does not reach the code that fails a
\* created Objective.
Throw(w) ==
  /\ worker[w].pc \in {"opened", "reopened", "entered", "turn"}
  /\ Goes(w, "thrown")
  /\ \/ worker[w].pc \in {"entered", "turn"} /\ FailsCreated(w)
     \/ worker[w].pc # "turn" /\ UNCHANGED objective
  /\ UNCHANGED <<now, job, occ, live, outbox, commands, faults>>

\* When the session is free again, a turn that threw gives the Objective of an
\* earlier execution back: it is pending, without its candidate, or cancelled
\* where the caller's signal says so.
GiveBack(w, status) ==
  LET o == worker[w].objective IN
  /\ worker[w].pc = "thrown" /\ Goes(w, "failed")
  /\ objective' = IF o # Own(w) /\ objective[o].status \in Unfinished
                  THEN [objective EXCEPT ![o].status = status] ELSE objective
  /\ UNCHANGED <<now, job, occ, live, outbox, commands, faults>>

\* The recovery service verifies what a turn left unverified.
Reverify(o, status) ==
  /\ objective[o].status = "retained" /\ ~objective[o].queued
  /\ objective' = [objective EXCEPT ![o] =
                     [status |-> status, queued |-> status = "accepted"]]
  /\ UNCHANGED <<now, job, occ, live, worker, outbox, commands, faults>>

\* The Completion Outbox delivers the result: the Objective has succeeded.
DeliverObjective(o) ==
  /\ objective[o].status = "accepted"
  /\ objective' = [objective EXCEPT ![o].status = "delivered"]
  /\ UNCHANGED <<now, job, occ, live, worker, outbox, commands, faults>>

-----------------------------------------------------------------------------
(* complete().                                                             *)

\* Mutant: the claim is not compared.
HoldsAny(w) == occ[worker[w].at].status = "claimed"
Holds(w) == job.token = w /\ occ[worker[w].at].token = w

\* Mutant: an answer counts, whatever the verdict on it was.
VerifiedAny(w) ==
  \/ worker[w].pc = "claimed" /\ job.work = "reminder"
  \/ worker[w].pc \in {"accepted", "answered"}

Verified(w) ==
  \/ worker[w].pc = "claimed" /\ job.work = "reminder"
  \/ /\ worker[w].pc \in {"accepted", "answered"}
     /\ objective[worker[w].objective].status \in {"accepted", "delivered"}

\* Where a recurring Schedule goes on after an occurrence.
Following ==
  IF job.kind = "at" THEN job.next
  ELSE IF job.manual # None THEN job.manual ELSE NextRun(job.kind, now)

Released == [job EXCEPT !.token = None]

AfterSuccess ==
  IF job.kind = "at" /\ job.once
  THEN [Released EXCEPT !.enabled = FALSE, !.archived = TRUE]
  ELSE [Released EXCEPT !.enabled = job.kind # "at", !.next = Following,
                        !.manual = None]

\* Mutant: the last attempt is retried like the others.
ExhaustedLate(t) == occ[t].attempts > MaxAttempts
Exhausted(t) == occ[t].attempts >= MaxAttempts

AfterError(t) ==
  IF Exhausted(t)
  THEN [Released EXCEPT !.enabled = job.kind # "at", !.next = Following,
                        !.manual = None]
  ELSE [Released EXCEPT !.enabled = TRUE, !.next = now + Delay]

Ends(w) ==
  /\ live' = live \ {w}
  /\ worker' = [worker EXCEPT ![w] = Idle]

\* The executor asserts the claim, which renews it, and settles in the same
\* turn of the event loop.  The answer is queued for delivery, unless the turn
\* itself has put it into the Completion Outbox.
Succeed(w) ==
  LET t == worker[w].at IN
  /\ Verified(w) /\ Holds(w)
  /\ occ' = [occ EXCEPT ![t].status = "succeeded", ![t].token = None,
                        ![t].objective = worker[w].objective]
  /\ delivery' =
       IF worker[w].pc # "accepted" /\ delivery[t].status = "absent"
       THEN [delivery EXCEPT ![t].status = "queued"] ELSE delivery
  /\ job' = AfterSuccess
  /\ Ends(w)
  /\ UNCHANGED <<now, objective, unexpired, batch, commands, faults>>

\* An error, or a claim that was lost, in which case nothing is written.
Fail(w) ==
  LET t == worker[w].at IN
  /\ \/ worker[w].pc = "failed"
     \/ /\ \/ worker[w].pc \in {"accepted", "answered"}
           \/ worker[w].pc = "claimed" /\ job.work = "reminder"
        /\ ~(Verified(w) /\ Holds(w))
  /\ IF Holds(w) /\ w \in live
     THEN /\ occ' = [occ EXCEPT ![t].token = None, ![t].status =
                       IF Exhausted(t) THEN "failed" ELSE "retrying"]
          /\ job' = AfterError(t)
     ELSE UNCHANGED <<occ, job>>
  /\ Ends(w)
  /\ UNCHANGED <<now, objective, outbox, commands, faults>>

-----------------------------------------------------------------------------
(* AutomationDeliveryWorker.runOnce(): one batch at a time, in one process.  *)

\* Mutant: a delivery whose claim expired is left alone.
DeliverableQueued(t) == delivery[t].status = "queued"
Deliverable(t) ==
  \/ delivery[t].status = "queued"
  \/ delivery[t].status = "delivering" /\ t \notin unexpired

ClaimDeliveries(ts) ==
  /\ batch = {} /\ ts # {}
  /\ \A t \in ts : Deliverable(t)
  /\ delivery' = [t \in Time |->
       IF t \in ts THEN [status |-> "delivering",
                         attempts |-> delivery[t].attempts + 1]
                   ELSE delivery[t]]
  /\ unexpired' = unexpired \cup ts
  /\ batch' = ts
  /\ UNCHANGED <<now, schedule, commands, faults>>

\* A batch may outlast the claims of its last items.
ExpireDelivery(t) ==
  /\ t \in unexpired
  /\ unexpired' = unexpired \ {t}
  /\ IF t \in batch THEN faults < MaxFaults /\ faults' = faults + 1
                    ELSE UNCHANGED faults
  /\ UNCHANGED <<now, schedule, delivery, batch, commands>>

MayRecord(t) == delivery[t].status = "delivering" /\ t \in unexpired

Records(t, row) ==
  /\ t \in batch /\ batch' = batch \ {t}
  /\ unexpired' = unexpired \ {t}
  /\ delivery' = IF MayRecord(t) THEN [delivery EXCEPT ![t] = row] ELSE delivery
  /\ UNCHANGED <<now, schedule, commands>>

\* sendText() returned: the delivery is complete, if its claim still holds.
\* Otherwise the failure that is recorded instead changes nothing.
Delivered(t) ==
  /\ Records(t, [delivery[t] EXCEPT !.status = "delivered"])
  /\ UNCHANGED faults

\* Mutant: a delivery is tried for ever.
AbandonedNever(t) == FALSE
Abandoned(t) == delivery[t].attempts >= MaxDeliveries

\* sendText() threw, before or after the channel had the message.
DeliveryFails(t) ==
  /\ Records(t, [delivery[t] EXCEPT !.status =
                   IF Abandoned(t) THEN "abandoned" ELSE "queued"])
  /\ UNCHANGED faults

\* DeliveryDeferredError: the attempt is not counted.
Defer(t) ==
  /\ faults < MaxFaults /\ faults' = faults + 1
  /\ Records(t, [status |-> "queued", attempts |-> Max({0, delivery[t].attempts - 1})])

-----------------------------------------------------------------------------

\* The process dies: its workers and its batch are gone, their claims stay.
Crash ==
  /\ faults < MaxFaults /\ faults' = faults + 1
  /\ batch # {} \/ \E w \in Worker : Busy(w)
  /\ worker' = [w \in Worker |-> Idle]
  /\ batch' = {}
  /\ UNCHANGED <<now, job, occ, live, objective, delivery, unexpired, commands>>

Tick ==
  /\ now < Last /\ now' = now + 1
  /\ UNCHANGED <<schedule, outbox, commands, faults>>

Step(w) ==
  \/ Begin(w) \/ Enter(w) \/ Bind(w)
  \/ \E status \in {"accepted", "retained", "failed"} : Verdict(w, status)
  \/ Throw(w)
  \/ \E status \in {"pending", "cancelled"} : GiveBack(w, status)
  \/ Succeed(w) \/ Fail(w)

Deliver ==
  \/ \E ts \in SUBSET Time : ClaimDeliveries(ts)
  \/ \E t \in Time : Delivered(t) \/ DeliveryFails(t) \/ Defer(t)

Next ==
  \/ \E kind \in Kinds, policy \in Policies : Update(kind, policy)
  \/ RunNow \/ Pause \/ Resume \/ Remove
  \/ SkipMisfire
  \/ \E w \in Worker : Claim(w) \/ ExpireClaim(w) \/ Renew(w) \/ Step(w)
  \/ \E o \in Objective :
       \/ \E status \in {"accepted", "failed"} : Reverify(o, status)
       \/ DeliverObjective(o)
  \/ Deliver
  \/ \E t \in Time : ExpireDelivery(t)
  \/ Crash \/ Tick

Spec == Init /\ [][Next]_vars

\* The scheduler's timer, the delivery worker's interval and every execution
\* go on, the clock too, and a dead lease expires.
FairSpec ==
  /\ Spec
  /\ WF_vars(Tick) /\ WF_vars(SkipMisfire) /\ WF_vars(Deliver)
  /\ WF_vars(\E w \in Worker : Claim(w))
  /\ \A w \in Worker : WF_vars(Step(w))
  /\ WF_vars(\E w \in Worker : ~Busy(w) /\ ExpireClaim(w))
  /\ WF_vars(\E t \in Time \ batch : ExpireDelivery(t))

-----------------------------------------------------------------------------
(* Properties.                                                             *)

JobType ==
  [kind : Kinds, policy : Policies, work : Works, once : BOOLEAN,
   enabled : BOOLEAN, archived : BOOLEAN, removed : BOOLEAN,
   next : Nat, manual : Nat \cup {None}, token : Worker \cup {None}]

OccurrenceType ==
  [status : {"absent", "claimed", "retrying"} \cup Final,
   attempts : 0 .. MaxAttempts + MaxFaults,
   token : Worker \cup {None}, objective : Objective \cup {None}]

WorkerType ==
  [pc : {"idle", "claimed", "opened", "reopened", "entered", "turn", "accepted",
         "answered", "thrown", "failed"},
   at : Time \cup {None}, attempt : {0} \cup Attempts,
   objective : Objective \cup {None}]

ObjectiveType ==
  [status : {"absent", "delivered", "failed", "cancelled"} \cup Unfinished,
   queued : BOOLEAN]

DeliveryType ==
  [status : {"absent", "queued", "delivering", "delivered", "abandoned"},
   attempts : 0 .. MaxDeliveries + MaxFaults]

\* Types; an occurrence, and a delivery, is attempted at most as often as
\* allowed, and once more for each time it was interrupted.
TypeOK ==
  /\ now \in Time
  /\ job \in JobType
  /\ occ \in [Time -> OccurrenceType]
  /\ live \subseteq Worker
  /\ worker \in [Worker -> WorkerType]
  /\ objective \in [Objective -> ObjectiveType]
  /\ delivery \in [Time -> DeliveryType]
  /\ unexpired \subseteq Time /\ batch \subseteq Time
  /\ commands \in 0 .. MaxCommands /\ faults \in 0 .. MaxFaults

\* A Schedule executes one occurrence at a time: at most one is claimed or
\* waits for a retry, and the token of the Schedule is that of its occurrence
\* (renewClaim() throws "Automation occurrence claim is missing" otherwise).
OneExecution ==
  /\ \A t, u \in Open : t = u
  /\ job.token # None => \E t \in Open : occ[t].token = job.token

\* The finite attempt budget: only executions that were cut short by a crash
\* or a lost lease come on top of maxAttempts.
AttemptsBounded ==
  \A t \in Time : occ[t].attempts <= MaxAttempts + faults

\* An agent occurrence succeeds only with an Objective whose accepted result is
\* in the Completion Outbox, and no verdict rejects or replaces that result
\* afterwards.  An execution that had lost its claim may still give the
\* Objective back, or cancel it.
InOutbox(o) ==
  objective[o].queued /\ objective[o].status \notin {"absent", "retained", "failed"}

SuccessWasAccepted ==
  job.work = "agent" => \A t \in Time : occ[t].status = "succeeded" =>
    occ[t].objective # None /\ InOutbox(occ[t].objective)

\* However often an occurrence is executed, one Objective of it is accepted
\* at most, so that its owner gets one result.
OneAcceptedObjective ==
  \A o, p \in Objective :
    o[1] = p[1] /\ objective[o].queued /\ objective[p].queued => o = p

\* What an occurrence came to is final, and a worker that lost its claim
\* changes neither the Schedule nor an occurrence nor a delivery.
OutcomesAreFenced ==
  [][/\ \A t \in Time : occ[t].status \in Final =>
          job'.removed \/ occ'[t].status = occ[t].status
     /\ \A w \in Worker :
          worker'[w] # worker[w] /\ worker[w].pc # "idle" /\ job.token # w
            => UNCHANGED <<job, occ, delivery>>]_vars

\* Every occurrence that was started ends, unless the owner stops the
\* Schedule or the clock of the model does.
OccurrencesEnd ==
  \A t \in Time :
    occ[t].status \in {"claimed", "retrying"} ~>
      occ[t].status \in Final \/ ~job.enabled \/ job.next > Last

\* Every delivery ends: sent and recorded, or given up after its attempts.
DeliveriesEnd ==
  \A t \in Time :
    delivery[t].status = "queued" ~>
      delivery[t].status \in {"delivered", "abandoned", "absent"}
=============================================================================
