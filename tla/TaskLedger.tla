------------------------------ MODULE TaskLedger ------------------------------
(***************************************************************************)
(* The Task Ledger of a Profile (packages/memory/src/store.ts), restricted  *)
(* to one Task Plan: its Tasks, their Task Runs, the Plan itself, the       *)
(* execution claim on it and the Objective above it.  Every operator that   *)
(* primes a variable is one SQLite transaction; who calls them, and when,   *)
(* is the subject of TaskExecution.                                        *)
(*                                                                         *)
(* Time is abstracted to what the SQL compares: a lease is live until it is *)
(* expired.  An output is abstracted to the Run that produced it, so cand   *)
(* and result are Runs.  verification_feedback is set together with the     *)
(* outcome "rejected" and is not kept apart from it.                        *)
(***************************************************************************)
EXTENDS Integers, FiniteSets

CONSTANTS
  Task,      \* the Tasks of the Plan
  Run,       \* Task Run ids; each is used at most once
  Host,      \* holder ids of execution claims
  Depends,   \* pairs <<t, u>>: Task t depends on Task u
  Criteria,  \* Tasks with Acceptance Criteria
  Safe,      \* Tasks with safe_retry, an idempotency key and a scope
  Routes,    \* per Task: how many routes it may try
  Budget,    \* corrective attempts that recovery and retries allow
  Rooted,    \* does the Plan hang below an Objective?
  None

ASSUME PlanAssumption ==
  /\ Depends \subseteq Task \X Task
  /\ Criteria \subseteq Task /\ Safe \subseteq Task
  /\ Routes \in [Task -> Nat \ {0}]
  /\ Budget \in 0 .. 2
  /\ Rooted \in BOOLEAN
ASSUME NoneAssumption == None \notin Run /\ None \notin Host

VARIABLES
  tasks,     \* the tasks table
  runs,      \* the task_runs table
  plan,      \* the row of task_plans
  claim,     \* the row of task_plan_execution_claims; holder None: no row
  objective  \* status of the Objective above the Plan

ledger == <<tasks, runs, plan, claim, objective>>

Live == {"pending", "running"}
Terminal == {"succeeded", "failed", "cancelled"}
Verification == {"none", "pending", "accepted", "rejected", "unavailable"}

TaskRow == [status : Live \cup Terminal, verif : Verification,
            cand : Run \cup {None}, attempts : 0 .. 2, route : Nat,
            result : Run \cup {None}]
RunRow == [status : {"absent", "running"} \cup Terminal,
           task : Task \cup {None}, live : BOOLEAN, cancelRequested : BOOLEAN,
           mutated : BOOLEAN]
PlanRow == [status : Live \cup Terminal, paused : BOOLEAN]
ClaimRow == [holder : Host \cup {None}, live : BOOLEAN]

LedgerTypeOK ==
  /\ tasks \in [Task -> TaskRow]
  /\ \A t \in Task : tasks[t].route < Routes[t]
  /\ runs \in [Run -> RunRow]
  /\ plan \in PlanRow
  /\ claim \in ClaimRow
  /\ objective \in {"running", "cancelled"}

AbsentRun == [status |-> "absent", task |-> None, live |-> FALSE,
              cancelRequested |-> FALSE, mutated |-> FALSE]
NoClaim == [holder |-> None, live |-> FALSE]

Fresh(t) == IF t \in Criteria THEN "pending" ELSE "none"

\* recordPlan() of a Plan whose Tasks have not started.
LedgerInit ==
  /\ tasks = [t \in Task |-> [status |-> "pending", verif |-> Fresh(t),
                              cand |-> None, attempts |-> 0, route |-> 0,
                              result |-> None]]
  /\ runs = [r \in Run |-> AbsentRun]
  /\ plan = [status |-> "pending", paused |-> FALSE]
  /\ claim = NoClaim
  /\ objective = "running"

-----------------------------------------------------------------------------
(* Tasks.                                                                  *)

Prerequisites(t) == {u \in Task : <<t, u>> \in Depends}

\* Mutant of MayTransition: an outcome may be overwritten.
MayTransitionEnded(t, to) ==
  IF to = "pending" THEN tasks[t].status = "running" ELSE TRUE

\* The WHERE clause of transition().
MayTransition(t, to) ==
  IF to = "pending" THEN tasks[t].status = "running"
  ELSE tasks[t].status \in Live

\* A row moved to a status other than succeeded.
Moved(row, to, verif, cand, attempts) ==
  [status |-> to, verif |-> verif, cand |-> cand, attempts |-> attempts,
   route |-> row.route,
   result |-> IF to \in Live THEN None ELSE row.result]

\* Failed or cancelled, with everything else kept.
Ended(row, to) == Moved(row, to, row.verif, row.cand, row.attempts)

Transition(t, to, verif, cand, attempts) ==
  /\ tasks' = IF MayTransition(t, to)
              THEN [tasks EXCEPT
                     ![t] = Moved(tasks[t], to, verif, cand, attempts)]
              ELSE tasks
  /\ UNCHANGED <<runs, plan, claim, objective>>

\* Mutant of HasNextRoute: one route too many.
HasNextRoutePast(t) == tasks[t].status = "running" /\ tasks[t].route + 1 <= Routes[t]

\* advanceTaskRoute(): the Task starts over on its next route.
HasNextRoute(t) == tasks[t].status = "running" /\ tasks[t].route + 1 < Routes[t]

AdvanceTaskRoute(t) ==
  /\ tasks' = [tasks EXCEPT
       ![t] = [status |-> "pending", verif |-> Fresh(t), cand |-> None,
               attempts |-> 0, route |-> tasks[t].route + 1, result |-> None]]
  /\ UNCHANGED <<runs, plan, claim, objective>>

-----------------------------------------------------------------------------
(* Task Runs.                                                              *)

\* The Task and its Objective are active: no ancestor is terminal.
LineageActive(t) == tasks[t].status \in Live /\ objective = "running"

Held(r) == /\ runs[r].status = "running"
           /\ runs[r].live
           /\ ~runs[r].cancelRequested

\* renewTaskRunLease() succeeds.
Renewable(r) == Held(r) /\ LineageActive(runs[r].task)

RecordRun(r, t) ==
  /\ runs' = [runs EXCEPT
       ![r] = [status |-> "running", task |-> t, live |-> TRUE,
               cancelRequested |-> FALSE, mutated |-> FALSE]]
  /\ UNCHANGED <<tasks, plan, claim, objective>>

\* The WHERE clause of transitionRun() with its success fence.
RunMay(r, to) ==
  /\ runs[r].status = "running"
  /\ to = "succeeded" =>
       /\ Held(r)
       /\ tasks[runs[r].task].status \in {"running", "succeeded"}
       /\ objective = "running"

TransitionRun(r, to) ==
  /\ runs' = IF RunMay(r, to) THEN [runs EXCEPT ![r].status = to] ELSE runs
  /\ UNCHANGED <<tasks, plan, claim, objective>>

\* Mutant of MaySettle: settlement looks at the Run only.
MaySettleUnfenced(r, t) == runs[r].status = "running"

\* settleTaskRunAndTask(): Run and Task succeed together or not at all.
MaySettle(r, t) ==
  Held(r) /\ tasks[t].status = "running" /\ objective = "running"

Succeeded(row, verif, output) ==
  [status |-> "succeeded", verif |-> verif, cand |-> None,
   attempts |-> row.attempts, route |-> row.route, result |-> output]

SettleTaskRunAndTask(r, t) ==
  /\ runs' = [runs EXCEPT ![r].status = "succeeded"]
  /\ tasks' = [tasks EXCEPT
       ![t] = Succeeded(tasks[t], IF t \in Criteria THEN "accepted" ELSE "none", r)]
  /\ UNCHANGED <<plan, claim, objective>>

-----------------------------------------------------------------------------
(* The Plan.                                                               *)

Some(rows, s) == \E t \in Task : rows[t].status = s

\* transitionPlan(): only a Plan that is not terminal moves.
PlanTo(to) == IF plan.status \in Live THEN [plan EXCEPT !.status = to] ELSE plan

\* syncTaskPlan(); reopen: may a running Plan become pending again?
SyncedPlan(to, reopen) ==
  IF to = "pending"
  THEN IF \/ plan.status \in {"pending", "failed"}
          \/ reopen /\ plan.status = "running"
       THEN [plan EXCEPT !.status = "pending"] ELSE plan
  ELSE PlanTo(to)

\* The Plan status that syncTaskPlanFromTasks() derives from the Tasks.
Aggregate(rows) ==
  CASE Some(rows, "failed") -> "failed"
    [] ~Some(rows, "failed") /\ Some(rows, "running") -> "running"
    [] ~Some(rows, "failed") /\ ~Some(rows, "running")
         /\ Some(rows, "pending") -> "pending"
    [] ~Some(rows, "failed") /\ ~Some(rows, "running")
         /\ ~Some(rows, "pending") /\ Some(rows, "cancelled") -> "cancelled"
    [] OTHER -> "succeeded"

PlanFromTasks(rows) ==
  SyncedPlan(Aggregate(rows), Aggregate(rows) = "pending")

\* Mutant of PlanAfterVerification: a running Plan is left alone.
PlanAfterFailure(rows) ==
  IF plan.status = "failed" THEN [plan EXCEPT !.status = Aggregate(rows)] ELSE plan

\* syncTaskPlanAfterCandidateVerification() also corrects a failed Plan.
PlanAfterVerification(rows) ==
  IF plan.status \in {"running", "failed"}
  THEN [plan EXCEPT !.status = Aggregate(rows)] ELSE plan

PauseTaskPlan ==
  /\ plan.status \in Live /\ ~plan.paused
  /\ plan' = [plan EXCEPT !.paused = TRUE]
  /\ UNCHANGED <<tasks, runs, claim, objective>>

ResumeTaskPlan ==
  /\ plan.paused
  /\ plan' = [plan EXCEPT !.paused = FALSE]
  /\ UNCHANGED <<tasks, runs, claim, objective>>

-----------------------------------------------------------------------------
(* The execution claim.                                                    *)

\* Mutant of MayClaim: an unexpired claim is taken over.
MayClaimHeld(h) == plan.status \in {"pending", "running", "failed"}

\* claimTaskPlanExecution() with a holder id that was never used before.
MayClaim(h) ==
  /\ plan.status \in {"pending", "running", "failed"}
  /\ claim.holder = None \/ ~claim.live

HoldsClaim(h) == claim.holder = h /\ claim.live

ClaimOf(h) == [holder |-> h, live |-> TRUE]

\* releaseTaskPlanExecution() deletes the row only if h still holds it.
Released(h) == IF claim.holder = h THEN NoClaim ELSE claim

-----------------------------------------------------------------------------
(* Transactions over the whole Plan.                                       *)

\* Mutant of EndActive: Tasks that wait are forgotten.
EndRunning(to) ==
  [t \in Task |-> IF tasks[t].status = "running" THEN Ended(tasks[t], to)
                  ELSE tasks[t]]

\* Rows that end together: cancelTaskPlan(), failTaskPlan().
EndActive(to) ==
  [t \in Task |-> IF tasks[t].status \in Live THEN Ended(tasks[t], to)
                  ELSE tasks[t]]

EndRuns(to) ==
  [r \in Run |-> IF /\ runs[r].status = "running"
                    /\ tasks[runs[r].task].status \in Live
                 THEN [runs[r] EXCEPT !.status = to] ELSE runs[r]]

CancelTaskPlan ==
  /\ \E t \in Task : tasks[t].status \in Live
  /\ tasks' = EndActive("cancelled")
  /\ runs' = EndRuns("cancelled")
  /\ plan' = PlanTo("cancelled")
  /\ UNCHANGED <<claim, objective>>

\* cancelObjective(): its Runs are asked to stop, its Tasks are cancelled.
CancelObjective ==
  LET linked == \E t \in Task : tasks[t].status \in Live
      rows == EndActive("cancelled")
  IN /\ Rooted /\ objective = "running"
     /\ objective' = "cancelled"
     /\ tasks' = rows
     /\ runs' = [r \in Run |->
          IF runs[r].status = "running"
          THEN [runs[r] EXCEPT !.cancelRequested = TRUE] ELSE runs[r]]
     /\ plan' = IF linked THEN PlanFromTasks(rows) ELSE plan
     /\ claim' = IF linked THEN NoClaim ELSE claim

\* What reconcileExpiredTaskRuns() makes of Task t whose Run r expired.
AwaitsVerdict(t) ==
  t \in Criteria /\ tasks[t].cand # None
    /\ tasks[t].verif \in {"pending", "unavailable"}

\* Mutant of MayReplay: the Effect authority is not asked.
MayReplayAnyway(t, r) == t \in Safe

MayReplay(t, r) == t \in Safe /\ ~runs[r].mutated

Reconciled(t, r) ==
  CASE tasks[t].status # "running" -> tasks[t]
    [] tasks[t].status = "running" /\ AwaitsVerdict(t) ->
         Moved(tasks[t], "running", "unavailable", tasks[t].cand, tasks[t].attempts)
    [] tasks[t].status = "running" /\ ~AwaitsVerdict(t) /\ MayReplay(t, r) ->
         Moved(tasks[t], "pending", tasks[t].verif, None, tasks[t].attempts)
    [] OTHER -> Ended(tasks[t], "failed")

Expired == {r \in Run : runs[r].status = "running" /\ ~runs[r].live}
Interrupted == {t \in Task : \E r \in Expired : runs[r].task = t}

\* reconcileExpiredTaskRuns(): of several expired Runs of one Task, the one
\* that is read first decides.
ReconcileExpiredTaskRuns ==
  /\ Expired # {}
  /\ \E first \in [Interrupted -> Expired] :
       /\ \A t \in Interrupted : runs[first[t]].task = t
       /\ LET rows == [t \in Task |-> IF t \in Interrupted
                                      THEN Reconciled(t, first[t]) ELSE tasks[t]]
          IN tasks' = rows /\ plan' = PlanFromTasks(rows)
  /\ runs' = [r \in Run |-> IF r \in Expired
                            THEN [runs[r] EXCEPT !.status = "failed"] ELSE runs[r]]
  /\ UNCHANGED <<claim, objective>>

\* prepareTaskCorrections() looks at the Tasks only, not at their Plan.
Correctable(t) ==
  /\ tasks[t].status = "failed" /\ tasks[t].verif = "rejected"
  /\ tasks[t].cand # None /\ tasks[t].attempts < Budget /\ t \in Safe

PrepareTaskCorrections ==
  /\ \E t \in Task : Correctable(t)
  /\ tasks' = [t \in Task |-> IF Correctable(t) THEN Ended(tasks[t], "pending")
                              ELSE tasks[t]]
  /\ plan' = SyncedPlan("pending", TRUE)
  /\ UNCHANGED <<runs, claim, objective>>

\* prepareTaskPlanRetry(): the user asks for another try.
Retryable(t) ==
  /\ tasks[t].status = "failed" /\ tasks[t].verif # "unavailable"
  /\ tasks[t].verif = "rejected" => tasks[t].attempts < Budget
  /\ t \in Safe

PrepareTaskPlanRetry ==
  /\ \E t \in Task : Retryable(t)
  /\ tasks' = [t \in Task |->
       IF Retryable(t)
       THEN Moved(tasks[t], "pending", tasks[t].verif,
                  IF tasks[t].verif = "rejected" THEN tasks[t].cand ELSE None,
                  tasks[t].attempts)
       ELSE tasks[t]]
  /\ plan' = SyncedPlan("pending", FALSE)
  /\ UNCHANGED <<runs, claim, objective>>

\* verificationCandidates(), resolveCandidateVerification().
Reverifiable(t) ==
  /\ tasks[t].status \in {"running", "failed"}
  /\ tasks[t].verif = "unavailable" /\ tasks[t].cand # None /\ t \in Criteria

\* Mutant of Judged: the candidate is published whatever the verdict.
JudgedAccepted(t, ok) == Succeeded(tasks[t], "accepted", tasks[t].cand)

\* The row the verdict on the stored candidate leaves.
Judged(t, ok) ==
  IF ok THEN Succeeded(tasks[t], "accepted", tasks[t].cand)
  ELSE Moved(tasks[t], "failed", "rejected", tasks[t].cand, tasks[t].attempts)

ResolveCandidateVerification(t, ok) ==
  /\ IF Reverifiable(t)
     THEN LET rows == [tasks EXCEPT ![t] = Judged(t, ok)]
          IN tasks' = rows /\ plan' = PlanAfterVerification(rows)
     ELSE UNCHANGED <<tasks, plan>>
  /\ UNCHANGED <<runs, claim, objective>>

\* recoveryCandidates() is not empty.
Recoverable(t) == tasks[t].status = "pending" /\ t \in Safe
=============================================================================
