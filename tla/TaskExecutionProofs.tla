------------------------- MODULE TaskExecutionProofs -------------------------
(***************************************************************************)
(* Proofs about TaskExecution, for any Tasks and dependencies, any number   *)
(* of hosts and Runs, with crashes, suspensions and commands.               *)
(*                                                                         *)
(* The argument has two halves.  The first is about the ledger alone: every *)
(* transaction is safe, whoever calls it and whenever (Sound).  The second  *)
(* is about the executors: whatever a worker is doing, the Tasks its own    *)
(* Task depends on have succeeded, and its attempt is within its budget     *)
(* (Executors).  DependenciesFirst needs both: a Task is picked after its   *)
(* prerequisites succeeded, and that they succeeded is final.               *)
(***************************************************************************)
EXTENDS TaskExecution, TLAPS

Statuses == Live \cup Terminal

\* An outcome that is final stays.
Kept == \A t \in Task : tasks[t].status \in {"succeeded", "cancelled"}
                          => tasks'[t] = tasks[t]

\* A Run without its lease does not become succeeded.
Fenced == \A r \in Run : runs[r].status = "running" /\ ~Held(r)
                           => runs'[r].status # "succeeded"

\* Nothing is started.
SameRuns == \A r \in Run : /\ runs'[r].task = runs[r].task
                           /\ runs'[r].status = "absent" <=> runs[r].status = "absent"

Sound == LedgerTypeOK' /\ Kept /\ Fenced /\ SameRuns

-----------------------------------------------------------------------------
(* The transactions of the ledger.                                         *)

\* A transaction that writes Tasks, and no Run.
LEMMA TasksSound ==
  ASSUME LedgerTypeOK, tasks' \in [Task -> TaskRow],
         \A t \in Task : tasks'[t].route < Routes[t], Kept, UNCHANGED runs,
         plan' \in PlanRow, claim' \in ClaimRow, objective' \in {"running", "cancelled"}
  PROVE  Sound
BY DEF LedgerTypeOK, Sound, Kept, Fenced, SameRuns, Held

\* Moved and Ended return Task rows and keep the route.
LEMMA MovedRow ==
  ASSUME NEW row \in TaskRow, NEW to \in Statuses, NEW verif \in Verification,
         NEW cand \in Run \cup {None}, NEW attempts \in 0 .. 2
  PROVE  /\ Moved(row, to, verif, cand, attempts) \in TaskRow
         /\ Moved(row, to, verif, cand, attempts).route = row.route
BY DEF Moved, TaskRow, Statuses, Live, Terminal

\* The same for Ended.
LEMMA EndedRow ==
  ASSUME NEW row \in TaskRow, NEW to \in Statuses
  PROVE  Ended(row, to) \in TaskRow /\ Ended(row, to).route = row.route
BY MovedRow DEF Ended, TaskRow

\* transition() of a Task.
LEMMA TransitionSound ==
  ASSUME LedgerTypeOK, NEW t \in Task, NEW to \in Statuses,
         NEW verif \in Verification, NEW cand \in Run \cup {None},
         NEW attempts \in 0 .. 2, Transition(t, to, verif, cand, attempts)
  PROVE  Sound
<1> DEFINE new == Moved(tasks[t], to, verif, cand, attempts)
<1>1. new \in TaskRow /\ new.route = tasks[t].route
  BY MovedRow DEF LedgerTypeOK
<1>2. tasks' = tasks \/ (tasks[t].status \in Live /\ tasks' = [tasks EXCEPT ![t] = new])
  BY DEF Transition, MayTransition, Live
<1> HIDE DEF new
<1>3. tasks' \in [Task -> TaskRow] /\ (\A u \in Task : tasks'[u].route < Routes[u]) /\ Kept
  BY <1>1, <1>2 DEF LedgerTypeOK, Kept, Live
<1> QED
  BY <1>3, TasksSound DEF Transition, LedgerTypeOK

\* advanceTaskRoute().
LEMMA AdvanceSound ==
  ASSUME LedgerTypeOK, PlanAssumption, NEW t \in Task, HasNextRoute(t),
         AdvanceTaskRoute(t)
  PROVE  Sound
<1> DEFINE new == [status |-> "pending", verif |-> Fresh(t), cand |-> None,
                   attempts |-> 0, route |-> tasks[t].route + 1, result |-> None]
<1>1. tasks[t].route \in Nat
  BY DEF LedgerTypeOK, TaskRow
<1>2. new \in TaskRow /\ new.route < Routes[t]
  BY <1>1 DEF HasNextRoute, TaskRow, Live, Verification, Fresh
<1>3. tasks' = [tasks EXCEPT ![t] = new] /\ tasks[t].status = "running"
  BY DEF AdvanceTaskRoute, HasNextRoute
<1> HIDE DEF new
<1>4. tasks' \in [Task -> TaskRow] /\ (\A u \in Task : tasks'[u].route < Routes[u]) /\ Kept
  BY <1>2, <1>3 DEF LedgerTypeOK, Kept
<1> QED
  BY <1>4, TasksSound DEF AdvanceTaskRoute, LedgerTypeOK

\* The operators on the row of the Plan return such rows.
LEMMA PlanToRow ==
  ASSUME plan \in PlanRow, NEW to \in Statuses
  PROVE  PlanTo(to) \in PlanRow
BY DEF PlanTo, PlanRow, Statuses, Live, Terminal

\* The same for syncTaskPlan().
LEMMA SyncedPlanRow ==
  ASSUME plan \in PlanRow, NEW to \in Statuses, NEW reopen
  PROVE  SyncedPlan(to, reopen) \in PlanRow
BY PlanToRow DEF SyncedPlan, PlanRow, Statuses, Live, Terminal

\* A status derived from the Tasks is a status.
LEMMA AggregateStatus ==
  ASSUME NEW rows
  PROVE  Aggregate(rows) \in Statuses
BY DEF Aggregate, Statuses, Live, Terminal

\* The Plan that updatePlanOutcome() leaves.
LEMMA OutcomePlanRow ==
  ASSUME plan \in PlanRow, NEW rows
  PROVE  OutcomePlan(rows) \in PlanRow
<1>1. Outcome(rows) \in Statuses
  BY DEF Outcome, Statuses, Live, Terminal
<1> QED
  BY <1>1, PlanToRow DEF OutcomePlan

\* The claim that releaseTaskPlanExecution() leaves.
LEMMA ReleasedRow ==
  ASSUME claim \in ClaimRow, NEW h
  PROVE  Released(h) \in ClaimRow
BY DEF Released, ClaimRow, NoClaim

\* The rows that end together, and the Runs that end with them.
LEMMA EndActiveRows ==
  ASSUME LedgerTypeOK, NEW to \in Statuses, tasks' = EndActive(to)
  PROVE  /\ tasks' \in [Task -> TaskRow]
         /\ \A t \in Task : tasks'[t].route < Routes[t]
         /\ Kept
<1>1. \A t \in Task : Ended(tasks[t], to) \in TaskRow
                      /\ Ended(tasks[t], to).route = tasks[t].route
  BY EndedRow DEF LedgerTypeOK
<1> QED
  BY <1>1 DEF EndActive, LedgerTypeOK, Kept, Live

\* The Runs that end with the rows of a Plan.
LEMMA EndRunsRows ==
  ASSUME LedgerTypeOK, NEW to \in {"failed", "cancelled"}, runs' = EndRuns(to)
  PROVE  runs' \in [Run -> RunRow] /\ Fenced /\ SameRuns
<1>1. \A r \in Run : runs'[r] = runs[r] \/ (runs[r].status = "running"
                       /\ runs'[r] = [runs[r] EXCEPT !.status = to])
  BY DEF EndRuns
<1>2. \A r \in Run : runs[r] \in RunRow
  BY DEF LedgerTypeOK
<1>3. ASSUME NEW r \in Run PROVE [runs[r] EXCEPT !.status = to] \in RunRow
  BY <1>2 DEF RunRow, Terminal
<1>4. Fenced /\ SameRuns
  BY <1>1, <1>2 DEF Fenced, SameRuns, RunRow, Held
<1> QED
  BY <1>1, <1>2, <1>3, <1>4 DEF EndRuns

\* Cancellation, and failure of a whole Plan.
LEMMA EndPlanSound ==
  ASSUME LedgerTypeOK, NEW to \in {"failed", "cancelled"},
         tasks' = EndActive(to), runs' = EndRuns(to), plan' = PlanTo(to),
         claim' \in ClaimRow, UNCHANGED objective
  PROVE  Sound
<1>1. plan' \in PlanRow
  BY PlanToRow DEF LedgerTypeOK, Statuses, Terminal
<1> QED
  BY <1>1, EndActiveRows, EndRunsRows
  DEF Sound, LedgerTypeOK, Statuses, Terminal

\* cancelObjective().
LEMMA CancelObjectiveSound ==
  ASSUME LedgerTypeOK, CancelObjective
  PROVE  Sound
<1>1. tasks' = EndActive("cancelled") /\ objective' = "cancelled"
  BY DEF CancelObjective
<1>2. /\ tasks' \in [Task -> TaskRow]
      /\ \A t \in Task : tasks'[t].route < Routes[t]
      /\ Kept
  BY <1>1, EndActiveRows DEF Statuses, Terminal
<1>3. plan' \in PlanRow
  <2>1. \A rows : PlanFromTasks(rows) \in PlanRow
    BY AggregateStatus, SyncedPlanRow DEF PlanFromTasks, LedgerTypeOK
  <2> QED
    BY <2>1 DEF CancelObjective, LedgerTypeOK
<1>4. claim' \in ClaimRow
  BY DEF CancelObjective, LedgerTypeOK, NoClaim, ClaimRow
<1>5. ASSUME NEW r \in Run
      PROVE  /\ runs'[r] \in RunRow
             /\ runs'[r].status = runs[r].status
             /\ runs'[r].task = runs[r].task
  <2>1. runs[r] \in RunRow
    BY DEF LedgerTypeOK
  <2>2. runs'[r] = runs[r] \/ runs'[r] = [runs[r] EXCEPT !.cancelRequested = TRUE]
    BY DEF CancelObjective
  <2> QED
    BY <2>1, <2>2 DEF RunRow
<1>6. runs' \in [Run -> RunRow]
  BY <1>5 DEF CancelObjective
<1>7. Fenced /\ SameRuns
  BY <1>5 DEF Fenced, SameRuns
<1> QED
  BY <1>1, <1>2, <1>3, <1>4, <1>6, <1>7 DEF Sound, LedgerTypeOK

\* A transaction that only writes one Run, without starting it.
LEMMA RunSound ==
  ASSUME LedgerTypeOK, NEW r \in Run, NEW row \in RunRow,
         row.task = runs[r].task, row.status = "absent" <=> runs[r].status = "absent",
         row.status = "succeeded" => Held(r) \/ runs[r].status = "succeeded",
         runs' = [runs EXCEPT ![r] = row],
         UNCHANGED <<tasks, plan, claim, objective>>
  PROVE  Sound
<1>1. runs' \in [Run -> RunRow] /\ Fenced /\ SameRuns
  BY DEF LedgerTypeOK, Fenced, SameRuns
<1> QED
  BY <1>1 DEF Sound, LedgerTypeOK, Kept

\* transitionRun().
LEMMA TransitionRunSound ==
  ASSUME LedgerTypeOK, NEW r \in Run, NEW to \in Terminal, TransitionRun(r, to)
  PROVE  Sound
<1> DEFINE row == [runs[r] EXCEPT !.status = to]
<1>1. runs[r] \in RunRow
  BY DEF LedgerTypeOK
<1>2. row \in RunRow /\ row.task = runs[r].task /\ row.status = to
  BY <1>1 DEF RunRow
<1>3. CASE RunMay(r, to)
  <2>1. runs' = [runs EXCEPT ![r] = row] /\ UNCHANGED <<tasks, plan, claim, objective>>
    BY <1>3 DEF TransitionRun
  <2>2. runs[r].status = "running" /\ (to = "succeeded" => Held(r)) /\ to # "absent"
    BY <1>3 DEF RunMay, Terminal
  <2> HIDE DEF row
  <2> QED
    BY <1>2, <2>1, <2>2, RunSound
<1>4. CASE ~RunMay(r, to)
  BY <1>4 DEF TransitionRun, Sound, LedgerTypeOK, Kept, Fenced, SameRuns, Held
<1> QED
  BY <1>3, <1>4

\* settleTaskRunAndTask().
LEMMA SettleSound ==
  ASSUME LedgerTypeOK, NEW r \in Run, NEW t \in Task, MaySettle(r, t),
         SettleTaskRunAndTask(r, t)
  PROVE  Sound
<1> DEFINE verif == IF t \in Criteria THEN "accepted" ELSE "none"
           new == Succeeded(tasks[t], verif, r)
           row == [runs[r] EXCEPT !.status = "succeeded"]
<1>1. tasks[t] \in TaskRow /\ tasks[t].status = "running" /\ tasks[t].route < Routes[t]
      /\ runs[r] \in RunRow /\ runs[r].status = "running" /\ Held(r)
  BY DEF LedgerTypeOK, MaySettle, Held
<1>2. new \in TaskRow /\ new.route < Routes[t]
  BY <1>1 DEF Succeeded, TaskRow, Terminal, Verification
<1>3. row \in RunRow /\ row.task = runs[r].task /\ row.status = "succeeded"
  BY <1>1 DEF RunRow, Terminal
<1>4. tasks' = [tasks EXCEPT ![t] = new] /\ runs' = [runs EXCEPT ![r] = row]
  BY DEF SettleTaskRunAndTask
<1> HIDE DEF new, row
<1>5. tasks' \in [Task -> TaskRow] /\ (\A u \in Task : tasks'[u].route < Routes[u]) /\ Kept
  BY <1>1, <1>2, <1>4 DEF LedgerTypeOK, Kept
<1>6. runs' \in [Run -> RunRow] /\ SameRuns
  BY <1>1, <1>3, <1>4 DEF LedgerTypeOK, SameRuns
<1>7. Fenced
  BY <1>1, <1>4 DEF Fenced, LedgerTypeOK
<1> QED
  BY <1>5, <1>6, <1>7 DEF Sound, LedgerTypeOK, SettleTaskRunAndTask

\* Tasks change to rows that are right, and no final outcome changes.
LEMMA RowsSound ==
  ASSUME LedgerTypeOK, NEW rows, tasks' = [t \in Task |-> rows[t]],
         \A t \in Task : /\ rows[t] \in TaskRow
                         /\ rows[t].route = tasks[t].route
                         /\ rows[t] # tasks[t] => tasks[t].status \in Live \cup {"failed"},
         UNCHANGED <<runs, claim, objective>>, plan' \in PlanRow
  PROVE  Sound
<1>1. tasks' \in [Task -> TaskRow] /\ (\A u \in Task : tasks'[u].route < Routes[u]) /\ Kept
  BY DEF LedgerTypeOK, Kept, Live
<1> QED
  BY <1>1, TasksSound DEF LedgerTypeOK

\* What a reconciliation makes of one Task.
LEMMA ReconciledRow ==
  ASSUME LedgerTypeOK, NEW t \in Task, NEW r \in Run
  PROVE  /\ Reconciled(t, r) \in TaskRow
         /\ Reconciled(t, r).route = tasks[t].route
         /\ tasks[t].status # "running" => Reconciled(t, r) = tasks[t]
<1>1. tasks[t] \in TaskRow
  BY DEF LedgerTypeOK
<1> DEFINE waits == Moved(tasks[t], "running", "unavailable", tasks[t].cand, tasks[t].attempts)
           again == Moved(tasks[t], "pending", tasks[t].verif, None, tasks[t].attempts)
           fails == Ended(tasks[t], "failed")
<1>2. waits \in TaskRow /\ waits.route = tasks[t].route
  <2>1. "unavailable" \in Verification /\ tasks[t].cand \in Run \cup {None}
        /\ tasks[t].attempts \in 0 .. 2 /\ "running" \in Statuses
    BY <1>1 DEF TaskRow, Verification, Statuses, Live
  <2> QED BY <1>1, <2>1, MovedRow
<1>3. again \in TaskRow /\ again.route = tasks[t].route
  <2>1. tasks[t].verif \in Verification /\ None \in Run \cup {None}
        /\ tasks[t].attempts \in 0 .. 2 /\ "pending" \in Statuses
    BY <1>1 DEF TaskRow, Statuses, Live
  <2> QED BY <1>1, <2>1, MovedRow
<1>4. fails \in TaskRow /\ fails.route = tasks[t].route
  BY <1>1, EndedRow DEF Statuses, Terminal
<1>5. Reconciled(t, r) \in {tasks[t], waits, again, fails}
      /\ (tasks[t].status # "running" => Reconciled(t, r) = tasks[t])
  BY DEF Reconciled
<1> HIDE DEF waits, again, fails
<1> QED
  BY <1>1, <1>2, <1>3, <1>4, <1>5

\* reconcileExpiredTaskRuns().
LEMMA ReconcileSound ==
  ASSUME LedgerTypeOK, ReconcileExpiredTaskRuns
  PROVE  Sound
<1>1. PICK first \in [Interrupted -> Expired] :
        LET rows == [t \in Task |-> IF t \in Interrupted
                                    THEN Reconciled(t, first[t]) ELSE tasks[t]]
        IN tasks' = rows /\ plan' = PlanFromTasks(rows)
  BY DEF ReconcileExpiredTaskRuns
<1>2. \A t \in Interrupted : first[t] \in Run
  BY DEF Expired
<1> DEFINE rows == [t \in Task |-> IF t \in Interrupted
                                   THEN Reconciled(t, first[t]) ELSE tasks[t]]
<1>3. ASSUME NEW t \in Task
      PROVE  /\ rows[t] \in TaskRow /\ rows[t].route = tasks[t].route
             /\ tasks[t].status # "running" => rows[t] = tasks[t]
  BY <1>2, ReconciledRow DEF LedgerTypeOK
<1>4. tasks' = [t \in Task |-> rows[t]] /\ plan' = PlanFromTasks(rows)
  BY <1>1
<1> HIDE DEF rows
<1>5. tasks' \in [Task -> TaskRow] /\ (\A u \in Task : tasks'[u].route < Routes[u]) /\ Kept
  BY <1>3, <1>4 DEF LedgerTypeOK, Kept
<1>6. plan' \in PlanRow
  BY <1>4, AggregateStatus, SyncedPlanRow DEF PlanFromTasks, LedgerTypeOK
<1>7. ASSUME NEW r \in Run
      PROVE  /\ runs'[r] \in RunRow /\ runs'[r].task = runs[r].task
             /\ \/ runs'[r].status = runs[r].status
                \/ runs[r].status = "running" /\ runs'[r].status = "failed"
  <2>1. runs[r] \in RunRow
    BY DEF LedgerTypeOK
  <2>2. \/ runs'[r] = runs[r]
        \/ runs[r].status = "running" /\ runs'[r] = [runs[r] EXCEPT !.status = "failed"]
    BY DEF ReconcileExpiredTaskRuns, Expired
  <2> QED
    BY <2>1, <2>2 DEF RunRow, Terminal
<1>8. runs' \in [Run -> RunRow] /\ Fenced /\ SameRuns
  <2>1. runs' \in [Run -> RunRow]
    BY <1>7 DEF ReconcileExpiredTaskRuns
  <2> QED BY <1>7, <2>1 DEF Fenced, SameRuns
<1> QED
  BY <1>5, <1>6, <1>8 DEF Sound, LedgerTypeOK, ReconcileExpiredTaskRuns

\* prepareTaskCorrections().
LEMMA CorrectionsSound ==
  ASSUME LedgerTypeOK, PrepareTaskCorrections
  PROVE  Sound
<1> DEFINE rows == [t \in Task |-> IF Correctable(t) THEN Ended(tasks[t], "pending")
                                   ELSE tasks[t]]
<1>1. \A t \in Task : /\ rows[t] \in TaskRow
                      /\ rows[t].route = tasks[t].route
                      /\ rows[t] # tasks[t] => tasks[t].status = "failed"
  BY EndedRow DEF LedgerTypeOK, Correctable, Statuses, Live
<1>2. tasks' = [t \in Task |-> rows[t]] /\ UNCHANGED <<runs, claim, objective>>
  BY DEF PrepareTaskCorrections
<1>3. plan' \in PlanRow
  BY SyncedPlanRow DEF PrepareTaskCorrections, LedgerTypeOK, Statuses, Live
<1> HIDE DEF rows
<1> QED
  BY <1>1, <1>2, <1>3, RowsSound

\* prepareTaskPlanRetry().
LEMMA RetrySound ==
  ASSUME LedgerTypeOK, PrepareTaskPlanRetry
  PROVE  Sound
<1> DEFINE cand(t) == IF tasks[t].verif = "rejected" THEN tasks[t].cand ELSE None
           again(t) == Moved(tasks[t], "pending", tasks[t].verif, cand(t), tasks[t].attempts)
           rows == [t \in Task |-> IF Retryable(t) THEN again(t) ELSE tasks[t]]
<1>1. ASSUME NEW t \in Task
      PROVE  again(t) \in TaskRow /\ again(t).route = tasks[t].route
  <2>1. tasks[t] \in TaskRow
    BY DEF LedgerTypeOK
  <2>2. /\ tasks[t].verif \in Verification /\ tasks[t].attempts \in 0 .. 2
        /\ cand(t) \in Run \cup {None} /\ "pending" \in Statuses
    BY <2>1 DEF TaskRow, Statuses, Live
  <2> HIDE DEF cand
  <2> QED BY <2>1, <2>2, MovedRow
<1>2. tasks' = [t \in Task |-> rows[t]] /\ UNCHANGED <<runs, claim, objective>>
  BY DEF PrepareTaskPlanRetry
<1>3. plan' \in PlanRow
  BY SyncedPlanRow DEF PrepareTaskPlanRetry, LedgerTypeOK, Statuses, Live
<1> HIDE DEF again
<1>4. \A t \in Task : /\ rows[t] \in TaskRow
                      /\ rows[t].route = tasks[t].route
                      /\ rows[t] # tasks[t] => tasks[t].status = "failed"
  BY <1>1 DEF LedgerTypeOK, Retryable
<1> HIDE DEF rows
<1> QED
  BY <1>2, <1>3, <1>4, RowsSound

\* resolveCandidateVerification().
LEMMA ResolveSound ==
  ASSUME LedgerTypeOK, NEW t \in Task, NEW ok \in BOOLEAN,
         ResolveCandidateVerification(t, ok)
  PROVE  Sound
<1>1. CASE ~Reverifiable(t)
  BY <1>1 DEF ResolveCandidateVerification, Sound, LedgerTypeOK, Kept, Fenced, SameRuns, Held
<1>2. CASE Reverifiable(t)
  <2>1. tasks[t] \in TaskRow /\ tasks[t].status \in {"running", "failed"}
    BY <1>2 DEF LedgerTypeOK, Reverifiable
  <2>2. Judged(t, ok) \in TaskRow /\ Judged(t, ok).route = tasks[t].route
    BY <2>1 DEF Judged, Succeeded, Moved, TaskRow, Live, Terminal, Verification
  <2> DEFINE rows == [tasks EXCEPT ![t] = Judged(t, ok)]
  <2>3. \A u \in Task : /\ rows[u] \in TaskRow
                        /\ rows[u].route = tasks[u].route
                        /\ rows[u] # tasks[u] => tasks[u].status \in Live \cup {"failed"}
    BY <2>1, <2>2 DEF LedgerTypeOK, Live
  <2>4. tasks' = [u \in Task |-> rows[u]] /\ plan' = PlanAfterVerification(rows)
        /\ UNCHANGED <<runs, claim, objective>>
    BY <1>2 DEF ResolveCandidateVerification, LedgerTypeOK
  <2> HIDE DEF rows
  <2>5. plan' \in PlanRow
    BY <2>4, AggregateStatus DEF PlanAfterVerification, LedgerTypeOK, PlanRow, Statuses
  <2> QED
    BY <2>3, <2>4, <2>5, RowsSound
<1> QED
  BY <1>1, <1>2

-----------------------------------------------------------------------------
(* The executors.                                                          *)

\* Where a worker has a Run, and where it has an attempt within its budget.
WithRun == {"executing", "verifying", "rejected", "catching", "closing", "reverifying"}
Attempting == {"requeued", "marked", "executing", "verifying", "rejected",
               "catching", "closing"}

RightWorker(w) ==
  /\ w.pc \in WithRun => w.run \in Run
  /\ w.pc = "picked" => w.attempt >= 1
  /\ w.pc \in Attempting => w.attempt \in 1 .. w.budget + 1

\* A worker that executes its Task does so after the prerequisites succeeded.
Executors ==
  /\ host \in [Host -> HostState]
  /\ worker \in [Host -> [Task -> WorkerState]]
  /\ \A h \in Host, t \in Task :
       /\ RightWorker(worker[h][t])
       /\ worker[h][t].pc \notin {"idle", "reverifying"} => DependenciesMet(t)

RunsMet ==
  \A r \in Run : runs[r].status # "absent" =>
    runs[r].task \in Task /\ DependenciesMet(runs[r].task)

Rest ==
  /\ toStart \subseteq {"create", "delegate", "resume", "retry"}
  /\ accepted \subseteq Run
  /\ asked \in BOOLEAN

IInv == LedgerTypeOK /\ Executors /\ RunsMet /\ Rest

\* Success is final, so prerequisites that are met stay met.
LEMMA MetStays ==
  ASSUME Kept, NEW t \in Task, DependenciesMet(t)
  PROVE  DependenciesMet(t)'
BY DEF Kept, DependenciesMet, Prerequisites

\* A sound transaction keeps RunsMet.
LEMMA RunsMetStays ==
  ASSUME RunsMet, Sound
  PROVE  RunsMet'
<1> SUFFICES ASSUME NEW r \in Run, runs'[r].status # "absent"
             PROVE  runs'[r].task \in Task /\ DependenciesMet(runs[r].task)'
                    /\ runs'[r].task = runs[r].task
  BY DEF RunsMet, DependenciesMet, Prerequisites
<1>1. runs[r].status # "absent" /\ runs'[r].task = runs[r].task
  BY DEF Sound, SameRuns
<1>2. runs[r].task \in Task /\ DependenciesMet(runs[r].task)
  BY <1>1 DEF RunsMet
<1> QED
  BY <1>1, <1>2 DEF Sound, Kept, DependenciesMet, Prerequisites

\* No worker moves.
LEMMA HostsMove ==
  ASSUME Executors, Kept, UNCHANGED worker, host' \in [Host -> HostState]
  PROVE  Executors'
<1>1. ASSUME NEW h \in Host, NEW t \in Task, worker'[h][t].pc \notin {"idle", "reverifying"}
      PROVE  DependenciesMet(t)'
  BY <1>1, MetStays DEF Executors
<1> QED
  BY <1>1 DEF Executors, RightWorker

\* One worker moves.
LEMMA WorkerMoves ==
  ASSUME Executors, Kept, NEW h \in Host, NEW t \in Task, NEW w \in WorkerState,
         RightWorker(w),
         w.pc \notin {"idle", "reverifying"} => DependenciesMet(t),
         worker' = [worker EXCEPT ![h][t] = w], host' \in [Host -> HostState]
  PROVE  Executors'
<1>1. worker' \in [Host -> [Task -> WorkerState]]
  BY DEF Executors
<1>2. ASSUME NEW g \in Host, NEW u \in Task
      PROVE  worker'[g][u] = IF g = h /\ u = t THEN w ELSE worker[g][u]
  BY DEF Executors
<1>3. ASSUME NEW g \in Host, NEW u \in Task
      PROVE  RightWorker(worker'[g][u])
  BY <1>2 DEF Executors, RightWorker
<1>4. ASSUME NEW g \in Host, NEW u \in Task, worker'[g][u].pc \notin {"idle", "reverifying"}
      PROVE  DependenciesMet(u)'
  BY <1>2, <1>4, MetStays DEF Executors
<1> QED
  BY <1>1, <1>3, <1>4 DEF Executors, RightWorker

\* A worker goes on.
LEMMA GoesRight ==
  ASSUME Executors, Kept, NEW h \in Host, NEW t \in Task, NEW w \in WorkerState,
         RightWorker(w), DependenciesMet(t), Goes(h, t, w)
  PROVE  Executors'
BY WorkerMoves DEF Goes, Executors

\* Idle hosts and workers.
LEMMA IdleRight == IdleWorker \in WorkerState /\ RightWorker(IdleWorker) /\ IdleHost \in HostState
BY DEF IdleWorker, WorkerState, RightWorker, WithRun, Attempting, Pc, Terminal, IdleHost, HostState

\* executeTask() returns.
LEMMA ReturnsRight ==
  ASSUME Executors, Kept, NEW h \in Host, NEW t \in Task, Returns(h, t)
  PROVE  Executors'
<1> DEFINE scans == host[h].mode \in Graph
<1>0. scans \in BOOLEAN
  OBVIOUS
<1> HIDE DEF scans
<1>1. [host[h] EXCEPT !.scanning = scans] \in HostState
  BY <1>0 DEF Executors, HostState
<1>2. host' \in [Host -> HostState]
  BY <1>1 DEF Returns, Executors, scans
<1> QED
  BY <1>2, IdleRight, WorkerMoves DEF Returns, IdleWorker

\* A step is right if it leaves the ledger sound and the executors right.
LEMMA StepRight ==
  ASSUME IInv, Sound, Executors', Rest'
  PROVE  IInv'
BY RunsMetStays DEF IInv, Sound

-----------------------------------------------------------------------------
(* The actions of the hosts.                                               *)

\* Transactions that leave Tasks and Runs alone.
LEMMA PlanSound ==
  ASSUME LedgerTypeOK, UNCHANGED <<tasks, runs>>, plan' \in PlanRow,
         claim' \in ClaimRow, UNCHANGED objective
  PROVE  Sound
BY TasksSound DEF LedgerTypeOK, Kept

\* Steps without a transaction.
LEMMA LedgerUnchanged ==
  ASSUME LedgerTypeOK, UNCHANGED ledger
  PROVE  Sound
BY PlanSound DEF ledger, LedgerTypeOK

\* A host begins an invocation.
LEMMA StartsHost ==
  ASSUME Executors, NEW h \in Host, NEW mode \in Graph \cup Claiming, Starts(h, mode)
  PROVE  host' \in [Host -> HostState]
<1> DEFINE scans == mode \in Graph
<1>1. scans \in BOOLEAN
  OBVIOUS
<1> HIDE DEF scans
<1>2. [mode |-> mode, scanning |-> scans, aborted |-> FALSE] \in HostState
  BY <1>1 DEF HostState
<1> QED
  BY <1>2 DEF Starts, Executors, scans

\* What an action of a host or a user leaves right.
Right == Sound /\ Executors' /\ Rest'

\* What is right preserves the invariant.
LEMMA RightStep ==
  ASSUME IInv, Right
  PROVE  IInv' /\ Kept /\ Fenced
BY StepRight DEF Right, Sound

\* Execute leaves the ledger sound and the executors right.
LEMMA ExecuteRight == ASSUME IInv, NEW h \in Host, Execute(h) PROVE Right
<1>1. plan' \in PlanRow /\ claim' \in ClaimRow
  BY PlanToRow DEF Execute, IInv, LedgerTypeOK, Statuses, Live, ClaimOf, ClaimRow
<1>2. Sound
  BY <1>1, PlanSound DEF Execute, IInv
<1>3. host' \in [Host -> HostState]
  BY StartsHost DEF Execute, IInv, Claiming
<1>4. Executors'
  BY <1>2, <1>3, HostsMove DEF Execute, IInv, Sound
<1>5. Rest'
  BY DEF Execute, Takes, IInv, Rest, history
<1> QED
  BY <1>2, <1>4, <1>5 DEF Right

\* Refused leaves the ledger sound and the executors right.
LEMMA RefusedRight == ASSUME IInv, NEW h \in Host, Refused(h) PROVE Right
<1>1. Sound
  BY LedgerUnchanged DEF Refused, IInv
<1>2. Executors'
  BY <1>1, HostsMove DEF Refused, IInv, Sound, Executors
<1>3. Rest'
  BY DEF Refused, Takes, IInv, Rest, history
<1> QED
  BY <1>1, <1>2, <1>3 DEF Right

\* Delegate leaves the ledger sound and the executors right.
LEMMA DelegateRight == ASSUME IInv, NEW h \in Host, Delegate(h) PROVE Right
<1>1. plan' \in PlanRow
  BY PlanToRow DEF Delegate, IInv, LedgerTypeOK, Statuses, Live
<1>2. Sound
  BY <1>1, PlanSound DEF Delegate, IInv, LedgerTypeOK
<1>3. host' \in [Host -> HostState]
  BY StartsHost DEF Delegate, IInv, Graph
<1>4. Executors'
  BY <1>2, <1>3, HostsMove DEF Delegate, IInv, Sound
<1>5. Rest'
  BY DEF Delegate, Takes, IInv, Rest, history
<1> QED
  BY <1>2, <1>4, <1>5 DEF Right

\* Recover leaves the ledger sound and the executors right.
LEMMA RecoverRight == ASSUME IInv, NEW h \in Host, Recover(h) PROVE Right
<1>1. plan' \in PlanRow /\ claim' \in ClaimRow
  BY PlanToRow DEF Recover, IInv, LedgerTypeOK, Statuses, Live, ClaimOf, ClaimRow
<1>2. Sound
  BY <1>1, PlanSound DEF Recover, IInv
<1>3. host' \in [Host -> HostState]
  BY StartsHost DEF Recover, IInv, Claiming
<1>4. Executors'
  BY <1>2, <1>3, HostsMove DEF Recover, IInv, Sound
<1>5. Rest'
  BY DEF Recover, Takes, IInv, Rest, history
<1> QED
  BY <1>2, <1>4, <1>5 DEF Right

\* Reverify leaves the ledger sound and the executors right.
LEMMA ReverifyRight == ASSUME IInv, NEW h \in Host, Reverify(h) PROVE Right
<1> DEFINE judges(t) == [IdleWorker EXCEPT !.pc = "reverifying", !.run = tasks[t].cand]
<1>1. Sound
  BY PlanSound DEF Reverify, IInv, LedgerTypeOK, ClaimOf, ClaimRow
<1>2. host' \in [Host -> HostState]
  BY StartsHost DEF Reverify, IInv, Claiming
<1>3. ASSUME NEW t \in Task, Reverifiable(t)
      PROVE  judges(t) \in WorkerState /\ RightWorker(judges(t)) /\ judges(t).pc = "reverifying"
  <2>1. tasks[t].cand \in Run
    BY <1>3 DEF IInv, LedgerTypeOK, TaskRow, Reverifiable
  <2>2. judges(t) \in WorkerState
    BY <2>1, IdleRight DEF WorkerState, Pc
  <2>3. judges(t).pc = "reverifying" /\ judges(t).run = tasks[t].cand
    BY DEF IdleWorker
  <2> HIDE DEF judges
  <2> QED
    BY <2>1, <2>2, <2>3 DEF RightWorker, Attempting
<1> DEFINE row == [t \in Task |-> IF Reverifiable(t) THEN judges(t) ELSE IdleWorker]
<1>4. \A t \in Task : /\ row[t] \in WorkerState /\ RightWorker(row[t])
                      /\ row[t].pc \in {"idle", "reverifying"}
  BY <1>3, IdleRight DEF IdleWorker
<1>5. worker' = [worker EXCEPT ![h] = row]
  BY DEF Reverify
<1>6. row \in [Task -> WorkerState]
  BY <1>4
<1> HIDE DEF row
<1>7. worker' \in [Host -> [Task -> WorkerState]]
  BY <1>5, <1>6 DEF IInv, Executors
<1>8. \A g \in Host, t \in Task :
        worker'[g][t] = IF g = h THEN row[t] ELSE worker[g][t]
  BY <1>5 DEF IInv, Executors
<1>9. \A g \in Host, t \in Task : RightWorker(worker'[g][t])
  BY <1>4, <1>8 DEF IInv, Executors
<1>10. ASSUME NEW g \in Host, NEW t \in Task, worker'[g][t].pc \notin {"idle", "reverifying"}
       PROVE  DependenciesMet(t)'
  BY <1>1, <1>4, <1>8, <1>10, MetStays DEF IInv, Executors, Sound
<1>11. Executors'
  BY <1>2, <1>7, <1>9, <1>10 DEF Executors, RightWorker
<1>12. Rest'
  BY DEF Reverify, IInv, Rest, history
<1> QED
  BY <1>1, <1>11, <1>12 DEF Right

\* The states a running host changes to.
LEMMA HostRow ==
  ASSUME Executors, NEW h \in Host
  PROVE  /\ [host[h] EXCEPT !.scanning = FALSE] \in HostState
         /\ [host[h] EXCEPT !.aborted = TRUE] \in HostState
         /\ [mode |-> "idle", scanning |-> FALSE, aborted |-> host[h].aborted] \in HostState
BY DEF Executors, HostState

\* Await leaves the ledger sound and the executors right.
LEMMA AwaitRight == ASSUME IInv, NEW h \in Host, Await(h) PROVE Right
<1>1. Sound
  BY LedgerUnchanged DEF Await, IInv
<1>2. host' \in [Host -> HostState]
  BY HostRow DEF Await, IInv, Executors
<1>3. Executors'
  BY <1>1, <1>2, HostsMove DEF Await, IInv, Sound
<1>4. Rest'
  BY DEF Await, IInv, Rest, history
<1> QED
  BY <1>1, <1>3, <1>4 DEF Right

\* CancelWaiting leaves the ledger sound and the executors right.
LEMMA CancelWaitingRight == ASSUME IInv, NEW h \in Host, CancelWaiting(h) PROVE Right
<1> DEFINE rows == [t \in Task |-> IF t \in Waiting(h) THEN Ended(tasks[t], "cancelled")
                                   ELSE tasks[t]]
<1>1. \A t \in Task : /\ rows[t] \in TaskRow
                      /\ rows[t].route = tasks[t].route
                      /\ rows[t] # tasks[t] => tasks[t].status = "pending"
  BY EndedRow DEF IInv, LedgerTypeOK, Waiting, Statuses, Terminal
<1>2. tasks' = rows /\ UNCHANGED <<runs, objective>>
  BY DEF CancelWaiting
<1> HIDE DEF rows
<1>3. tasks' \in [Task -> TaskRow] /\ (\A u \in Task : tasks'[u].route < Routes[u]) /\ Kept
  <2>1. rows \in [Task -> TaskRow]
    BY <1>1 DEF rows
  <2> QED
    BY <1>1, <1>2, <2>1 DEF IInv, LedgerTypeOK, Kept
<1>4. plan' \in PlanRow /\ claim' \in ClaimRow
  BY OutcomePlanRow, ReleasedRow DEF CancelWaiting, IInv, LedgerTypeOK
<1>5. Sound
  BY <1>2, <1>3, <1>4, TasksSound DEF IInv, LedgerTypeOK
<1>6. host' \in [Host -> HostState]
  BY HostRow, IdleRight DEF CancelWaiting, IInv, Executors
<1>7. Executors'
  BY <1>5, <1>6, HostsMove DEF CancelWaiting, IInv, Sound
<1>8. Rest'
  BY DEF CancelWaiting, IInv, Rest, history
<1> QED
  BY <1>5, <1>7, <1>8 DEF Right

\* Finish leaves the ledger sound and the executors right.
LEMMA FinishRight == ASSUME IInv, NEW h \in Host, Finish(h) PROVE Right
<1>1. plan' \in PlanRow /\ claim' \in ClaimRow
  BY OutcomePlanRow, ReleasedRow DEF Finish, IInv, LedgerTypeOK
<1>2. Sound
  BY <1>1, PlanSound DEF Finish, IInv
<1>3. host' \in [Host -> HostState]
  BY IdleRight DEF Finish, IInv, Executors
<1>4. Executors'
  BY <1>2, <1>3, HostsMove DEF Finish, IInv, Sound
<1>5. Rest'
  BY DEF Finish, IInv, Rest, history
<1> QED
  BY <1>2, <1>4, <1>5 DEF Right

\* EndReverify leaves the ledger sound and the executors right.
LEMMA EndReverifyRight == ASSUME IInv, NEW h \in Host, EndReverify(h) PROVE Right
<1>1. Sound
  BY ReleasedRow, PlanSound DEF EndReverify, IInv, LedgerTypeOK
<1>2. host' \in [Host -> HostState]
  BY IdleRight DEF EndReverify, IInv, Executors
<1>3. Executors'
  BY <1>1, <1>2, HostsMove DEF EndReverify, IInv, Sound
<1>4. Rest'
  BY DEF EndReverify, IInv, Rest, history
<1> QED
  BY <1>1, <1>3, <1>4 DEF Right

\* Abort leaves the ledger sound and the executors right.
LEMMA AbortRight == ASSUME IInv, NEW h \in Host, Abort(h) PROVE Right
<1>1. Sound
  BY LedgerUnchanged DEF Abort, IInv
<1>2. host' \in [Host -> HostState]
  BY HostRow DEF Abort, IInv, Executors
<1>3. Executors'
  BY <1>1, <1>2, HostsMove DEF Abort, IInv, Sound
<1>4. Rest'
  BY DEF Abort, IInv, Rest
<1> QED
  BY <1>1, <1>3, <1>4 DEF Right

\* LoseClaim leaves the ledger sound and the executors right.
LEMMA LoseClaimRight == ASSUME IInv, NEW h \in Host, LoseClaim(h) PROVE Right
<1>1. Sound
  BY LedgerUnchanged DEF LoseClaim, IInv
<1>2. host' \in [Host -> HostState]
  BY HostRow DEF LoseClaim, IInv, Executors
<1>3. Executors'
  BY <1>1, <1>2, HostsMove DEF LoseClaim, IInv, Sound
<1>4. Rest'
  BY DEF LoseClaim, IInv, Rest, history
<1> QED
  BY <1>1, <1>3, <1>4 DEF Right

\* Crash leaves the ledger sound and the executors right.
LEMMA CrashRight == ASSUME IInv, NEW h \in Host, Crash(h) PROVE Right
<1>1. Sound
  BY LedgerUnchanged DEF Crash, IInv
<1>2. host' \in [Host -> HostState]
  BY IdleRight DEF Crash, IInv, Executors
<1>3. worker' \in [Host -> [Task -> WorkerState]]
  BY IdleRight DEF Crash, IInv, Executors
<1>4. \A g \in Host, t \in Task : worker'[g][t] \in {worker[g][t], IdleWorker}
  BY DEF Crash, IInv, Executors
<1>5. \A g \in Host, t \in Task : RightWorker(worker'[g][t])
  BY <1>4, IdleRight DEF IInv, Executors
<1>6. ASSUME NEW g \in Host, NEW t \in Task, worker'[g][t].pc \notin {"idle", "reverifying"}
      PROVE  DependenciesMet(t)'
  BY <1>1, <1>4, <1>6, MetStays DEF IInv, Executors, Sound, IdleWorker
<1>7. Executors'
  BY <1>2, <1>3, <1>5, <1>6 DEF Executors, RightWorker
<1>8. Rest'
  BY DEF Crash, IInv, Rest, history
<1> QED
  BY <1>1, <1>7, <1>8 DEF Right

-----------------------------------------------------------------------------
(* Leases, the recovery service and the users.                             *)

\* ExpireLease leaves the ledger sound and the executors right.
LEMMA ExpireLeaseRight == ASSUME IInv, NEW r \in Run, ExpireLease(r) PROVE Right
<1> DEFINE row == [runs[r] EXCEPT !.live = FALSE]
<1>1. row \in RunRow /\ row.task = runs[r].task /\ row.status = runs[r].status
  BY DEF IInv, LedgerTypeOK, RunRow
<1>2. runs' = [runs EXCEPT ![r] = row] /\ UNCHANGED <<tasks, plan, claim, objective>>
  BY DEF ExpireLease
<1> HIDE DEF row
<1>3. Sound
  BY <1>1, <1>2, RunSound DEF IInv
<1>4. Executors'
  BY <1>3, HostsMove DEF ExpireLease, IInv, Sound, Executors
<1>5. Rest'
  BY DEF ExpireLease, IInv, Rest, history
<1> QED
  BY <1>3, <1>4, <1>5 DEF Right

\* ExpireClaim leaves the ledger sound and the executors right.
LEMMA ExpireClaimRight == ASSUME IInv, ExpireClaim PROVE Right
<1>1. Sound
  BY PlanSound DEF ExpireClaim, IInv, LedgerTypeOK, ClaimRow
<1>2. Executors'
  BY <1>1, HostsMove DEF ExpireClaim, IInv, Sound, Executors
<1>3. Rest'
  BY DEF ExpireClaim, IInv, Rest, history
<1> QED
  BY <1>1, <1>2, <1>3 DEF Right

\* Cancel leaves the ledger sound and the executors right.
LEMMA CancelRight ==
  ASSUME IInv, NEW here \in SUBSET Host, Cancel(here)
  PROVE  Right
<1>1. Sound
  <2>1. CASE \E t \in Task : tasks[t].status \in Live
    BY <2>1, EndPlanSound DEF Cancel, CancelTaskPlan, IInv, LedgerTypeOK
  <2>2. CASE ~\E t \in Task : tasks[t].status \in Live
    BY <2>2, LedgerUnchanged DEF Cancel, IInv
  <2> QED
    BY <2>1, <2>2
<1>2. host' \in [Host -> HostState]
  BY HostRow DEF Cancel, IInv, Executors
<1>3. Executors'
  BY <1>1, <1>2, HostsMove DEF Cancel, IInv, Sound
<1>4. Rest'
  BY DEF Cancel, IInv, Rest
<1> QED
  BY <1>1, <1>3, <1>4 DEF Right

\* CancelRoot leaves the ledger sound and the executors right.
LEMMA CancelRootRight == ASSUME IInv, CancelRoot PROVE Right
<1>1. Sound
  BY CancelObjectiveSound DEF CancelRoot, IInv
<1>2. Executors'
  BY <1>1, HostsMove DEF CancelRoot, IInv, Sound, Executors
<1>3. Rest'
  BY DEF CancelRoot, IInv, Rest
<1> QED
  BY <1>1, <1>2, <1>3 DEF Right

\* Pause leaves the ledger sound and the executors right.
LEMMA PauseRight == ASSUME IInv, Pause PROVE Right
<1>1. Sound
  BY PlanSound DEF Pause, PauseTaskPlan, IInv, LedgerTypeOK, PlanRow
<1>2. Executors'
  BY <1>1, HostsMove DEF Pause, Outside, IInv, Sound, Executors
<1>3. Rest'
  BY DEF Pause, Outside, IInv, Rest, history
<1> QED
  BY <1>1, <1>2, <1>3 DEF Right

\* Resume leaves the ledger sound and the executors right.
LEMMA ResumeRight == ASSUME IInv, Resume PROVE Right
<1>1. Sound
  BY PlanSound DEF Resume, ResumeTaskPlan, IInv, LedgerTypeOK, PlanRow
<1>2. Executors'
  BY <1>1, HostsMove DEF Resume, IInv, Sound, Executors
<1>3. Rest'
  BY DEF Resume, IInv, Rest, history
<1> QED
  BY <1>1, <1>2, <1>3 DEF Right

\* Retry leaves the ledger sound and the executors right.
LEMMA RetryRight == ASSUME IInv, Retry PROVE Right
<1>1. Sound
  BY RetrySound DEF Retry, IInv
<1>2. Executors'
  BY <1>1, HostsMove DEF Retry, IInv, Sound, Executors
<1>3. Rest'
  BY DEF Retry, IInv, Rest, history
<1> QED
  BY <1>1, <1>2, <1>3 DEF Right

\* Correct leaves the ledger sound and the executors right.
LEMMA CorrectRight == ASSUME IInv, Correct PROVE Right
<1>1. Sound
  BY CorrectionsSound DEF Correct, IInv
<1>2. Executors'
  BY <1>1, HostsMove DEF Correct, Outside, IInv, Sound, Executors
<1>3. Rest'
  BY DEF Correct, Outside, IInv, Rest, history
<1> QED
  BY <1>1, <1>2, <1>3 DEF Right

\* Reconcile leaves the ledger sound and the executors right.
LEMMA ReconcileRight == ASSUME IInv, Reconcile PROVE Right
<1>1. Sound
  BY ReconcileSound DEF Reconcile, IInv
<1>2. Executors'
  BY <1>1, HostsMove DEF Reconcile, Outside, IInv, Sound, Executors
<1>3. Rest'
  BY DEF Reconcile, Outside, IInv, Rest, history
<1> QED
  BY <1>1, <1>2, <1>3 DEF Right

-----------------------------------------------------------------------------
(* The actions of the workers.                                             *)

\* What the invariant says of one worker.
LEMMA WorkerRow ==
  ASSUME Executors, NEW h \in Host, NEW t \in Task
  PROVE  /\ worker[h][t] \in WorkerState
         /\ RightWorker(worker[h][t])
         /\ worker[h][t].pc \notin {"idle", "reverifying"} => DependenciesMet(t)
BY DEF Executors

\* Corrective attempts fit into the row of the Task.
LEMMA CorrectionsBound ==
  ASSUME Executors, NEW h \in Host, NEW t \in Task, worker[h][t].pc \in Attempting
  PROVE  Corrections(h, t) \in 0 .. 2
BY WorkerRow DEF Corrections, RightWorker, WorkerState

\* The verification a Task starts with.
LEMMA FreshVerification == \A t \in Task : Fresh(t) \in Verification
BY DEF Fresh, Verification

\* FailDependent leaves the ledger sound and the executors right.
LEMMA FailDependentRight ==
  ASSUME IInv, NEW h \in Host, NEW t \in Task, FailDependent(h, t)
  PROVE  Right
<1>1. Sound
  <2>1. tasks[t] \in TaskRow
    BY DEF IInv, LedgerTypeOK
  <2>2. tasks[t].verif \in Verification /\ tasks[t].cand \in Run \cup {None}
        /\ tasks[t].attempts \in 0 .. 2 /\ "failed" \in Statuses
    BY <2>1 DEF TaskRow, Statuses, Terminal
  <2> QED
    BY <2>2, TransitionSound DEF FailDependent, IInv
<1>2. Executors'
  BY <1>1, HostsMove DEF FailDependent, IInv, Sound, Executors
<1>3. Rest'
  BY DEF FailDependent, IInv, Rest, history
<1> QED
  BY <1>1, <1>2, <1>3 DEF Right

\* A worker that was just picked.
LEMMA PickedWorker ==
  ASSUME NEW n \in 0 .. 4, NEW b \in 0 .. 2
  PROVE  LET w == [IdleWorker EXCEPT !.pc = "picked", !.attempt = n, !.budget = b]
         IN w \in WorkerState /\ w.pc = "picked" /\ w.attempt = n
<1> DEFINE w == [IdleWorker EXCEPT !.pc = "picked", !.attempt = n, !.budget = b]
<1>1. w \in WorkerState
  BY IdleRight DEF WorkerState, Pc
<1>2. w.pc = "picked" /\ w.attempt = n
  BY DEF IdleWorker
<1> QED
  BY <1>1, <1>2

\* Pick leaves the ledger sound and the executors right.
LEMMA PickRight ==
  ASSUME IInv, NEW h \in Host, NEW t \in Task, Pick(h, t)
  PROVE  Right
<1>1. Sound
  BY LedgerUnchanged DEF Pick, IInv
<1> DEFINE w == [IdleWorker EXCEPT !.pc = "picked", !.attempt = FirstAttempt(t),
                                   !.budget = BudgetOf(h)]
<1>2. FirstAttempt(t) \in 0 .. 4 /\ FirstAttempt(t) >= 1 /\ BudgetOf(h) \in 0 .. 2
  <2>1. tasks[t].attempts \in 0 .. 2
    BY DEF IInv, LedgerTypeOK, TaskRow
  <2> QED
    BY <2>1, PlanAssumption, ExecutionAssumption DEF FirstAttempt, BudgetOf
<1>3. w \in WorkerState /\ w.pc = "picked" /\ w.attempt = FirstAttempt(t)
  BY <1>2, PickedWorker
<1>4. Goes(h, t, w) /\ DependenciesMet(t)
  BY DEF Pick, Ready
<1> HIDE DEF w
<1>5. RightWorker(w)
  BY <1>2, <1>3 DEF RightWorker, WithRun, Attempting
<1>6. Executors'
  BY <1>1, <1>3, <1>4, <1>5, GoesRight DEF IInv, Sound
<1>7. Rest'
  BY DEF Pick, IInv, Rest, history
<1> QED
  BY <1>1, <1>6, <1>7 DEF Right

\* A worker that changes its place only.
LEMMA ToRow ==
  ASSUME NEW w \in WorkerState, NEW pc \in Pc
  PROVE  /\ To(w, pc) \in WorkerState
         /\ To(w, pc).pc = pc /\ To(w, pc).run = w.run
         /\ To(w, pc).attempt = w.attempt /\ To(w, pc).budget = w.budget
BY DEF To, WorkerState

\* A worker goes on with the same Run and attempt.
LEMMA GoesTo ==
  ASSUME Executors, Kept, NEW h \in Host, NEW t \in Task, NEW pc \in Pc,
         worker[h][t].pc \notin {"idle", "reverifying"},
         pc \in WithRun => worker[h][t].run \in Run,
         worker[h][t].attempt \in 1 .. worker[h][t].budget + 1,
         Goes(h, t, To(worker[h][t], pc))
  PROVE  Executors'
<1>1. To(worker[h][t], pc) \in WorkerState /\ DependenciesMet(t)
  BY WorkerRow, ToRow
<1>2. RightWorker(To(worker[h][t], pc))
  BY WorkerRow, ToRow DEF RightWorker, WorkerState
<1> QED
  BY <1>1, <1>2, GoesRight

\* MarkRunning leaves the ledger sound and the executors right.
LEMMA MarkRunningRight ==
  ASSUME IInv, NEW h \in Host, NEW t \in Task, MarkRunning(h, t)
  PROVE  Right
<1> DEFINE w == worker[h][t]
           again == At(h, t, "requeued")
           exhausted == w.attempt > w.budget + 1
           to == IF exhausted THEN "failed" ELSE "running"
           verif == IF exhausted THEN "rejected" ELSE Fresh(t)
           attempts == IF again THEN Corrections(h, t) ELSE tasks[t].attempts
<1>1. w \in WorkerState /\ RightWorker(w) /\ w.pc \in {"picked", "requeued"}
  BY WorkerRow DEF MarkRunning, IInv
<1>2. attempts \in 0 .. 2
  BY <1>1, CorrectionsBound DEF IInv, LedgerTypeOK, TaskRow, At, Attempting
<1>3. to \in Statuses /\ verif \in Verification /\ tasks[t].cand \in Run \cup {None}
  BY FreshVerification DEF IInv, LedgerTypeOK, TaskRow, Statuses, Live, Terminal, Verification
<1>4. Transition(t, to, verif, tasks[t].cand, attempts)
  BY DEF MarkRunning
<1>5. \/ ~exhausted /\ Goes(h, t, To(w, "marked"))
      \/ Returns(h, t)
  BY DEF MarkRunning
<1>6. Sound
  <2> HIDE DEF to, verif, attempts
  <2> QED
    BY <1>2, <1>3, <1>4, TransitionSound DEF IInv
<1>7. Executors'
  <2>1. CASE ~exhausted /\ Goes(h, t, To(w, "marked"))
    <3>1. w.attempt \in 1 .. w.budget + 1
      BY <1>1, <2>1 DEF RightWorker, WorkerState, Attempting
    <3> QED
      BY <1>1, <1>6, <2>1, <3>1, GoesTo DEF IInv, Sound, Pc, WithRun
  <2>2. CASE Returns(h, t)
    BY <1>6, <2>2, ReturnsRight DEF IInv, Sound
  <2> QED
    BY <1>5, <2>1, <2>2
<1>8. Rest'
  BY DEF MarkRunning, IInv, Rest, history
<1> QED
  BY <1>6, <1>7, <1>8 DEF Right

\* The one step that starts a Run.
LEMMA StartRunRight ==
  ASSUME IInv, NEW h \in Host, NEW t \in Task, NEW r \in Run, StartRun(h, t, r)
  PROVE  IInv' /\ Kept /\ Fenced
<1> DEFINE row == [status |-> "running", task |-> t, live |-> TRUE,
                   cancelRequested |-> FALSE, mutated |-> FALSE]
           w == [worker[h][t] EXCEPT !.pc = "executing", !.run = r]
<1>1. row \in RunRow
  BY DEF RunRow
<1>2. runs' = [runs EXCEPT ![r] = row] /\ UNCHANGED <<tasks, plan, claim, objective>>
      /\ runs[r].status = "absent"
  BY DEF StartRun, RecordRun
<1>3. LedgerTypeOK' /\ Kept
  BY <1>1, <1>2 DEF IInv, LedgerTypeOK, Kept
<1>4. Fenced
  BY <1>2 DEF IInv, LedgerTypeOK, Fenced
<1>5. worker[h][t] \in WorkerState /\ worker[h][t].pc = "marked"
      /\ RightWorker(worker[h][t]) /\ DependenciesMet(t)
  BY WorkerRow DEF StartRun, IInv, At
<1>6. w \in WorkerState /\ w.pc = "executing" /\ w.run = r
      /\ w.attempt = worker[h][t].attempt /\ w.budget = worker[h][t].budget
  BY <1>5 DEF WorkerState, Pc
<1>7. Goes(h, t, w)
  BY DEF StartRun
<1> HIDE DEF w
<1>8. RightWorker(w)
  BY <1>5, <1>6 DEF RightWorker, Attempting
<1>9. Executors'
  BY <1>3, <1>5, <1>6, <1>7, <1>8, GoesRight DEF IInv
<1>10. RunsMet'
  <2> SUFFICES ASSUME NEW s \in Run, runs'[s].status # "absent"
               PROVE  runs'[s].task \in Task /\ DependenciesMet(runs'[s].task)
    BY <1>2 DEF RunsMet, DependenciesMet, Prerequisites
  <2>1. CASE s = r
    BY <1>2, <1>5, <2>1 DEF IInv, LedgerTypeOK
  <2>2. CASE s # r
    BY <1>2, <2>2 DEF IInv, LedgerTypeOK, RunsMet
  <2> QED
    BY <2>1, <2>2
<1>11. Rest'
  BY DEF StartRun, IInv, Rest, history
<1> QED
  BY <1>3, <1>4, <1>9, <1>10, <1>11 DEF IInv

\* RefuseRun leaves the ledger sound and the executors right.
LEMMA RefuseRunRight ==
  ASSUME IInv, NEW h \in Host, NEW t \in Task, RefuseRun(h, t)
  PROVE  Right
<1>1. claim' \in ClaimRow /\ UNCHANGED objective
  BY ReleasedRow DEF RefuseRun, IInv, LedgerTypeOK
<1>2. \/ tasks' = EndActive("failed") /\ runs' = EndRuns("failed") /\ plan' = PlanTo("failed")
      \/ UNCHANGED <<tasks, runs, plan>>
  BY DEF RefuseRun
<1>3. Sound
  BY <1>1, <1>2, EndPlanSound, PlanSound DEF IInv, LedgerTypeOK
<1>4. host' \in [Host -> HostState]
  BY HostRow DEF RefuseRun, IInv, Executors
<1>5. worker' = [worker EXCEPT ![h][t] = IdleWorker]
  BY DEF RefuseRun
<1>6. Executors'
  BY <1>3, <1>4, <1>5, IdleRight, WorkerMoves DEF IInv, Sound, IdleWorker
<1>7. Rest'
  BY DEF RefuseRun, IInv, Rest, history
<1> QED
  BY <1>3, <1>6, <1>7 DEF Right

\* Mutate leaves the ledger sound and the executors right.
LEMMA MutateRight ==
  ASSUME IInv, NEW h \in Host, NEW t \in Task, Mutate(h, t)
  PROVE  Right
<1> DEFINE r == worker[h][t].run
           row == [runs[r] EXCEPT !.mutated = TRUE]
<1>1. r \in Run
  BY WorkerRow DEF Mutate, At, IInv, RightWorker, WithRun
<1>2. runs' = [runs EXCEPT ![r] = row] /\ UNCHANGED <<tasks, plan, claim, objective>>
  BY DEF Mutate
<1> HIDE DEF r
<1>3. row \in RunRow /\ row.task = runs[r].task /\ row.status = runs[r].status
  BY <1>1 DEF IInv, LedgerTypeOK, RunRow
<1> HIDE DEF row
<1>4. Sound
  BY <1>1, <1>2, <1>3, RunSound DEF IInv
<1>5. Executors'
  BY <1>4, HostsMove DEF Mutate, IInv, Sound, Executors
<1>6. Rest'
  BY DEF Mutate, IInv, Rest, history
<1> QED
  BY <1>4, <1>5, <1>6 DEF Right

\* The executor or the verifier failed.
LEMMA CatchesRight ==
  ASSUME Executors, Kept, NEW h \in Host, NEW t \in Task, NEW unavailable \in BOOLEAN,
         worker[h][t].pc \in {"executing", "verifying"}, Catches(h, t, unavailable)
  PROVE  Executors'
<1> DEFINE old == worker[h][t]
           w == [old EXCEPT !.pc = "catching",
                            !.end = IF unavailable THEN "succeeded" ELSE "failed"]
<1>1. old \in WorkerState /\ RightWorker(old) /\ DependenciesMet(t)
  BY WorkerRow
<1>2. w \in WorkerState /\ w.pc = "catching" /\ w.run = old.run
      /\ w.attempt = old.attempt /\ w.budget = old.budget
  BY <1>1 DEF WorkerState, Pc, Terminal
<1>3. Goes(h, t, w)
  BY DEF Catches
<1> HIDE DEF w
<1>4. RightWorker(w)
  BY <1>1, <1>2 DEF RightWorker, WithRun, Attempting
<1> QED
  BY <1>1, <1>2, <1>3, <1>4, GoesRight

\* The settlement and its failure.
LEMMA SettlesRight ==
  ASSUME IInv, NEW h \in Host, NEW t \in Task,
         worker[h][t].pc \in {"executing", "verifying"}, Settles(h, t)
  PROVE  Sound /\ Executors'
<1>1. worker[h][t].run \in Run
  BY WorkerRow DEF IInv, RightWorker, WithRun
<1>2. CASE MaySettle(worker[h][t].run, t)
  <2>1. SettleTaskRunAndTask(worker[h][t].run, t) /\ Returns(h, t)
    BY <1>2 DEF Settles
  <2>2. Sound
    BY <1>1, <1>2, <2>1, SettleSound DEF IInv
  <2> QED
    BY <2>1, <2>2, ReturnsRight DEF IInv, Sound
<1>3. CASE ~MaySettle(worker[h][t].run, t)
  <2>1. UNCHANGED ledger /\ Catches(h, t, FALSE)
    BY <1>3 DEF Settles
  <2>2. Sound
    BY <2>1, LedgerUnchanged DEF IInv
  <2> QED
    BY <2>1, <2>2, CatchesRight DEF IInv, Sound
<1> QED
  BY <1>2, <1>3

\* Answer leaves the ledger sound and the executors right.
LEMMA AnswerRight ==
  ASSUME IInv, NEW h \in Host, NEW t \in Task, Answer(h, t)
  PROVE  Right
<1>1. worker[h][t].pc = "executing" /\ worker[h][t] \in WorkerState
      /\ RightWorker(worker[h][t])
  BY WorkerRow DEF Answer, At, IInv
<1>2. Rest'
  BY DEF Answer, IInv, Rest, history
<1>3. CASE Aborted(h, t)
  <2>1. UNCHANGED ledger /\ Catches(h, t, FALSE)
    BY <1>3 DEF Answer
  <2>2. Sound
    BY <2>1, LedgerUnchanged DEF IInv
  <2> QED
    BY <1>1, <1>2, <2>1, <2>2, CatchesRight DEF IInv, Sound, Right
<1>4. CASE ~Aborted(h, t) /\ t \notin Criteria
  BY <1>1, <1>2, <1>4, SettlesRight DEF Answer, Right
<1>5. CASE ~Aborted(h, t) /\ t \in Criteria
  <2>1. Transition(t, "running", "pending", worker[h][t].run, Corrections(h, t))
    BY <1>5 DEF Answer
  <2>2. Corrections(h, t) \in 0 .. 2 /\ worker[h][t].run \in Run
    BY <1>1, CorrectionsBound DEF IInv, RightWorker, WithRun, Attempting
  <2>3. Sound
    BY <2>1, <2>2, TransitionSound DEF IInv, Statuses, Live, Verification
  <2>4. Goes(h, t, To(worker[h][t], "verifying")) \/ Returns(h, t)
    BY <1>5 DEF Answer
  <2>5. Executors'
    BY <1>1, <2>2, <2>3, <2>4, GoesTo, ReturnsRight
    DEF IInv, Sound, RightWorker, WithRun, Attempting, Pc
  <2> QED
    BY <1>2, <2>3, <2>5 DEF Right
<1> QED
  BY <1>3, <1>4, <1>5

\* Throw leaves the ledger sound and the executors right.
LEMMA ThrowRight ==
  ASSUME IInv, NEW h \in Host, NEW t \in Task, Throw(h, t)
  PROVE  Right
<1> DEFINE unavailable == At(h, t, "verifying") /\ ~Aborted(h, t)
<1>1. Sound
  BY LedgerUnchanged DEF Throw, IInv
<1>2. unavailable \in BOOLEAN
  OBVIOUS
<1>3. Catches(h, t, unavailable) /\ worker[h][t].pc \in {"executing", "verifying"}
  BY DEF Throw
<1> HIDE DEF unavailable
<1>4. Executors'
  BY <1>1, <1>2, <1>3, CatchesRight DEF IInv, Sound
<1>5. Rest'
  BY DEF Throw, IInv, Rest, history
<1> QED
  BY <1>1, <1>4, <1>5 DEF Right

\* Accept leaves the ledger sound and the executors right.
LEMMA AcceptRight ==
  ASSUME IInv, NEW h \in Host, NEW t \in Task, Accept(h, t)
  PROVE  Right
<1>1. worker[h][t].pc = "verifying" /\ worker[h][t].run \in Run
  BY WorkerRow DEF Accept, At, IInv, RightWorker, WithRun
<1>2. Rest'
  BY <1>1 DEF Accept, IInv, Rest
<1>3. CASE Aborted(h, t)
  <2>1. UNCHANGED ledger /\ Catches(h, t, FALSE)
    BY <1>3 DEF Accept
  <2>2. Sound
    BY <2>1, LedgerUnchanged DEF IInv
  <2> QED
    BY <1>1, <1>2, <2>1, <2>2, CatchesRight DEF IInv, Sound, Right
<1>4. CASE ~Aborted(h, t)
  BY <1>1, <1>2, <1>4, SettlesRight DEF Accept, Right
<1> QED
  BY <1>3, <1>4

\* Reject leaves the ledger sound and the executors right.
LEMMA RejectRight ==
  ASSUME IInv, NEW h \in Host, NEW t \in Task, Reject(h, t)
  PROVE  Right
<1>1. worker[h][t].pc = "verifying" /\ RightWorker(worker[h][t])
  BY WorkerRow DEF Reject, At, IInv
<1>2. worker[h][t].run \in Run
  BY <1>1 DEF RightWorker, WithRun
<1>3. Sound
  BY <1>2, TransitionRunSound DEF Reject, IInv, Terminal
<1>4. Goes(h, t, To(worker[h][t], "rejected")) \/ Returns(h, t)
  BY DEF Reject
<1>5. Executors'
  BY <1>1, <1>2, <1>3, <1>4, GoesTo, ReturnsRight
  DEF IInv, Sound, RightWorker, Attempting, Pc
<1>6. Rest'
  BY DEF Reject, IInv, Rest, history
<1> QED
  BY <1>3, <1>5, <1>6 DEF Right

\* Requeue leaves the ledger sound and the executors right.
LEMMA RequeueRight ==
  ASSUME IInv, NEW h \in Host, NEW t \in Task, Requeue(h, t)
  PROVE  Right
<1> DEFINE old == worker[h][t]
           w == [old EXCEPT !.pc = "requeued", !.run = None, !.attempt = old.attempt + 1]
<1>1. old.pc = "rejected" /\ old \in WorkerState /\ RightWorker(old) /\ DependenciesMet(t)
  BY WorkerRow DEF Requeue, At, IInv
<1>2. old.run \in Run /\ Corrections(h, t) \in 0 .. 2 /\ old.attempt \in 1 .. old.budget + 1
  BY <1>1, CorrectionsBound DEF IInv, RightWorker, WithRun, Attempting
<1>3. {"pending", "failed"} \subseteq Statuses /\ "rejected" \in Verification
  BY DEF Statuses, Live, Terminal, Verification
<1>4. Rest'
  BY DEF Requeue, IInv, Rest, history
<1>5. CASE old.attempt <= old.budget
  <2>1. Transition(t, "pending", "rejected", old.run, Corrections(h, t))
        /\ (Goes(h, t, w) \/ Returns(h, t))
    BY <1>5 DEF Requeue
  <2>2. Sound
    BY <1>2, <1>3, <2>1, TransitionSound DEF IInv
  <2>3. old.attempt + 1 \in 0 .. 4 /\ old.budget \in 0 .. 2
    BY <1>1, <1>2, <1>5 DEF WorkerState
  <2>4. w \in WorkerState /\ w.pc = "requeued" /\ w.attempt = old.attempt + 1
        /\ w.budget = old.budget
    BY <1>1, <2>3 DEF WorkerState, Pc
  <2> HIDE DEF w
  <2>5. RightWorker(w)
    BY <1>2, <1>5, <2>3, <2>4 DEF RightWorker, WithRun
  <2>6. Executors'
    BY <1>1, <2>1, <2>2, <2>4, <2>5, GoesRight, ReturnsRight DEF IInv, Sound
  <2> QED
    BY <1>4, <2>2, <2>6 DEF Right
<1>6. CASE ~(old.attempt <= old.budget)
  <2>1. Returns(h, t)
    BY <1>6 DEF Requeue
  <2>2. \/ HasNextRoute(t) /\ AdvanceTaskRoute(t)
        \/ Transition(t, "failed", "rejected", old.run, Corrections(h, t))
    BY <1>6 DEF Requeue
  <2>3. Sound
    BY <1>2, <1>3, <2>2, AdvanceSound, TransitionSound, PlanAssumption DEF IInv
  <2> QED
    BY <1>4, <2>1, <2>3, ReturnsRight DEF IInv, Sound, Right
<1> QED
  BY <1>5, <1>6

\* Catch leaves the ledger sound and the executors right.
LEMMA CatchRight ==
  ASSUME IInv, NEW h \in Host, NEW t \in Task, Catch(h, t)
  PROVE  Right
<1> DEFINE w == worker[h][t]
           to == IF host[h].aborted THEN "cancelled" ELSE "failed"
           closing(end) == [w EXCEPT !.pc = "closing", !.end = end]
           attempts == IF t \in Criteria THEN Corrections(h, t) ELSE tasks[t].attempts
<1>1. w.pc = "catching" /\ w \in WorkerState /\ RightWorker(w) /\ DependenciesMet(t)
  BY WorkerRow DEF Catch, At, IInv
<1>2. w.run \in Run /\ attempts \in 0 .. 2
  BY <1>1, CorrectionsBound DEF IInv, LedgerTypeOK, TaskRow, RightWorker, WithRun, Attempting
<1>3. /\ tasks[t].verif \in Verification /\ tasks[t].cand \in Run \cup {None}
      /\ to \in {"failed", "cancelled"} /\ "unavailable" \in Verification
      /\ {"running", "failed", "cancelled"} \subseteq Statuses
  BY DEF IInv, LedgerTypeOK, TaskRow, Verification, Statuses, Live, Terminal
<1>4. /\ \/ HasNextRoute(t) /\ AdvanceTaskRoute(t)
         \/ Transition(t, "running", "unavailable", w.run, attempts)
         \/ Transition(t, to, tasks[t].verif, tasks[t].cand, attempts)
      /\ \E end \in Terminal : Goes(h, t, closing(end))
  BY <1>3 DEF Catch, Terminal
<1> HIDE DEF to, attempts
<1>5. Sound
  BY <1>2, <1>3, <1>4, AdvanceSound, TransitionSound, PlanAssumption DEF IInv
<1>6. PICK end \in Terminal : Goes(h, t, closing(end))
  BY <1>4
<1>7. closing(end) \in WorkerState /\ closing(end).pc = "closing"
      /\ closing(end).run = w.run /\ closing(end).attempt = w.attempt
      /\ closing(end).budget = w.budget
  BY <1>1 DEF WorkerState, Pc
<1> HIDE DEF closing
<1>8. RightWorker(closing(end))
  BY <1>1, <1>7 DEF RightWorker, WithRun, Attempting
<1>9. Executors'
  BY <1>1, <1>5, <1>6, <1>7, <1>8, GoesRight DEF IInv, Sound
<1>10. Rest'
  BY DEF Catch, IInv, Rest, history
<1> QED
  BY <1>5, <1>9, <1>10 DEF Right

\* CloseRun leaves the ledger sound and the executors right.
LEMMA CloseRunRight ==
  ASSUME IInv, NEW h \in Host, NEW t \in Task, CloseRun(h, t)
  PROVE  Right
<1>1. worker[h][t].run \in Run /\ worker[h][t].end \in Terminal
  BY WorkerRow DEF CloseRun, At, IInv, RightWorker, WithRun, WorkerState
<1>2. Sound
  BY <1>1, TransitionRunSound DEF CloseRun, IInv
<1>3. Executors'
  BY <1>2, ReturnsRight DEF CloseRun, IInv, Sound
<1>4. Rest'
  BY DEF CloseRun, IInv, Rest, history
<1> QED
  BY <1>2, <1>3, <1>4 DEF Right

\* Judge leaves the ledger sound and the executors right.
LEMMA JudgeRight ==
  ASSUME IInv, NEW h \in Host, NEW t \in Task, NEW ok \in BOOLEAN, Judge(h, t, ok)
  PROVE  Right
<1>1. worker[h][t].run \in Run
  BY WorkerRow DEF Judge, At, IInv, RightWorker, WithRun
<1>2. UNCHANGED ledger \/ ResolveCandidateVerification(t, ok)
  BY DEF Judge
<1>3. Sound
  BY <1>2, LedgerUnchanged, ResolveSound DEF IInv
<1>4. Executors'
  BY <1>3, ReturnsRight DEF Judge, IInv, Sound
<1>5. Rest'
  BY <1>1 DEF Judge, IInv, Rest
<1> QED
  BY <1>3, <1>4, <1>5 DEF Right

\* StillUnavailable leaves the ledger sound and the executors right.
LEMMA StillUnavailableRight ==
  ASSUME IInv, NEW h \in Host, NEW t \in Task, StillUnavailable(h, t)
  PROVE  Right
<1>1. Sound
  BY LedgerUnchanged DEF StillUnavailable, IInv
<1>2. Executors'
  BY <1>1, ReturnsRight DEF StillUnavailable, IInv, Sound
<1>3. Rest'
  BY DEF StillUnavailable, IInv, Rest, history
<1> QED
  BY <1>1, <1>2, <1>3 DEF Right

\* LoseLease leaves the ledger sound and the executors right.
LEMMA LoseLeaseRight ==
  ASSUME IInv, NEW h \in Host, NEW t \in Task, LoseLease(h, t)
  PROVE  Right
<1> DEFINE old == worker[h][t]
           w == [old EXCEPT !.aborted = TRUE]
<1>1. Sound
  BY LedgerUnchanged DEF LoseLease, IInv
<1>2. old \in WorkerState /\ RightWorker(old) /\ old.pc \in {"executing", "verifying"}
      /\ DependenciesMet(t)
  BY WorkerRow DEF LoseLease, IInv
<1>3. w \in WorkerState /\ w.pc = old.pc /\ w.run = old.run
      /\ w.attempt = old.attempt /\ w.budget = old.budget
  BY <1>2 DEF WorkerState
<1>4. worker' = [worker EXCEPT ![h][t] = w] /\ UNCHANGED host
  BY DEF LoseLease
<1> HIDE DEF w
<1>5. RightWorker(w)
  BY <1>2, <1>3 DEF RightWorker
<1>6. Executors'
  BY <1>1, <1>2, <1>3, <1>4, <1>5, WorkerMoves DEF IInv, Sound, Executors
<1>7. Rest'
  BY DEF LoseLease, IInv, Rest, history
<1> QED
  BY <1>1, <1>6, <1>7 DEF Right

-----------------------------------------------------------------------------
(* The theorems.                                                           *)

\* The invariant holds when the Plan has been created.
LEMMA InitRight == Init => IInv
<1> SUFFICES ASSUME Init PROVE IInv
  OBVIOUS
<1>1. LedgerTypeOK
  <2>1. tasks \in [Task -> TaskRow] /\ \A t \in Task : tasks[t].route < Routes[t]
    BY PlanAssumption, FreshVerification
    DEF Init, LedgerInit, TaskRow, Live, Terminal, Verification
  <2>2. runs \in [Run -> RunRow]
    BY DEF Init, LedgerInit, AbsentRun, RunRow
  <2> QED
    BY <2>1, <2>2
    DEF Init, LedgerInit, LedgerTypeOK, PlanRow, NoClaim, ClaimRow, Live
<1>2. Executors
  BY IdleRight DEF Init, Executors, IdleWorker
<1>3. RunsMet
  BY DEF Init, LedgerInit, RunsMet, AbsentRun
<1>4. Rest
  BY ExecutionAssumption DEF Init, Rest
<1> QED
  BY <1>1, <1>2, <1>3, <1>4 DEF IInv

\* Every step keeps the invariant and what is final, and respects the fence.
LEMMA NextRight ==
  ASSUME IInv, Next
  PROVE  IInv' /\ Kept /\ Fenced
<1>1. ASSUME NEW h \in Host, HostStep(h)
      PROVE  Right
  <2>1. CASE Execute(h)
    BY <2>1, ExecuteRight
  <2>2. CASE Refused(h)
    BY <2>2, RefusedRight
  <2>3. CASE Delegate(h)
    BY <2>3, DelegateRight
  <2>4. CASE Recover(h)
    BY <2>4, RecoverRight
  <2>5. CASE Reverify(h)
    BY <2>5, ReverifyRight
  <2>6. CASE Await(h)
    BY <2>6, AwaitRight
  <2>7. CASE CancelWaiting(h)
    BY <2>7, CancelWaitingRight
  <2>8. CASE Finish(h)
    BY <2>8, FinishRight
  <2>9. CASE EndReverify(h)
    BY <2>9, EndReverifyRight
  <2>10. CASE Abort(h)
    BY <2>10, AbortRight
  <2>11. CASE LoseClaim(h)
    BY <2>11, LoseClaimRight
  <2>12. CASE Crash(h)
    BY <2>12, CrashRight
  <2> QED
    BY <1>1, <2>1, <2>2, <2>3, <2>4, <2>5, <2>6, <2>7, <2>8, <2>9, <2>10,
       <2>11, <2>12 DEF HostStep
<1>2. ASSUME NEW h \in Host, NEW t \in Task, WorkerStep(h, t)
      PROVE  Right \/ \E r \in Run : StartRun(h, t, r)
  <2>1. CASE FailDependent(h, t)
    BY <2>1, FailDependentRight
  <2>2. CASE Pick(h, t)
    BY <2>2, PickRight
  <2>3. CASE MarkRunning(h, t)
    BY <2>3, MarkRunningRight
  <2>4. CASE RefuseRun(h, t)
    BY <2>4, RefuseRunRight
  <2>5. CASE Mutate(h, t)
    BY <2>5, MutateRight
  <2>6. CASE Answer(h, t)
    BY <2>6, AnswerRight
  <2>7. CASE Throw(h, t)
    BY <2>7, ThrowRight
  <2>8. CASE Accept(h, t)
    BY <2>8, AcceptRight
  <2>9. CASE Reject(h, t)
    BY <2>9, RejectRight
  <2>10. CASE Requeue(h, t)
    BY <2>10, RequeueRight
  <2>11. CASE Catch(h, t)
    BY <2>11, CatchRight
  <2>12. CASE CloseRun(h, t)
    BY <2>12, CloseRunRight
  <2>13. CASE \E ok \in BOOLEAN : Judge(h, t, ok)
    BY <2>13, JudgeRight
  <2>14. CASE StillUnavailable(h, t)
    BY <2>14, StillUnavailableRight
  <2>15. CASE LoseLease(h, t)
    BY <2>15, LoseLeaseRight
  <2> QED
    BY <1>2, <2>1, <2>2, <2>3, <2>4, <2>5, <2>6, <2>7, <2>8, <2>9, <2>10,
       <2>11, <2>12, <2>13, <2>14, <2>15 DEF WorkerStep
<1>3. CASE \E h \in Host, t \in Task, r \in Run : StartRun(h, t, r)
  BY <1>3, StartRunRight
<1>4. CASE ~\E h \in Host, t \in Task, r \in Run : StartRun(h, t, r)
  <2>1. Right
    <3>1. CASE \E h \in Host : HostStep(h) \/ \E t \in Task : WorkerStep(h, t)
      BY <1>1, <1>2, <1>4, <3>1
    <3>2. CASE \E r \in Run : ExpireLease(r)
      BY <3>2, ExpireLeaseRight
    <3>3. CASE ExpireClaim
      BY <3>3, ExpireClaimRight
    <3>4. CASE \E here \in {{}} \cup {{h} : h \in Host} : Cancel(here)
      <4>1. PICK here \in SUBSET Host : Cancel(here)
        BY <3>4
      <4> QED
        BY <4>1, CancelRight
    <3>5. CASE CancelRoot \/ Pause \/ Resume \/ Retry \/ Correct \/ Reconcile
      BY <3>5, CancelRootRight, PauseRight, ResumeRight, RetryRight, CorrectRight,
         ReconcileRight
    <3> QED
      BY <3>1, <3>2, <3>3, <3>4, <3>5 DEF Next
  <2> QED
    BY <2>1, RightStep
<1> QED
  BY <1>3, <1>4

\* A step that changes nothing.
LEMMA StutterRight ==
  ASSUME IInv, UNCHANGED vars
  PROVE  IInv' /\ Kept /\ Fenced
<1>1. Sound
  BY PlanSound DEF vars, IInv, LedgerTypeOK
<1>2. Executors'
  BY <1>1, HostsMove DEF vars, IInv, Sound, Executors
<1>3. Rest'
  BY DEF vars, IInv, Rest
<1> QED
  BY <1>1, <1>2, <1>3, RightStep DEF Right

\* The inductive invariant.
LEMMA Invariant == Spec => []IInv
<1>1. Init => IInv
  BY InitRight
<1>2. IInv /\ [Next]_vars => IInv'
  BY NextRight, StutterRight
<1> QED
  BY <1>1, <1>2, PTL DEF Spec

\* Whatever executors, recovery and users do in which order, the rows of the
\* ledger, the claim and the executors' own state keep their types; attempts
\* and routes stay within their bounds.
THEOREM TypeCorrect == Spec => []TypeOK
<1>1. IInv => TypeOK
  BY DEF IInv, Executors, Rest, TypeOK
<1> QED
  BY <1>1, Invariant, PTL

\* A Task that succeeded or was cancelled keeps its row for ever, for any number
\* of hosts, crashed, suspended or half way through their work.
THEOREM OutcomesAreFinal == Spec => OutcomeIsFinal
<1>1. IInv /\ [Next]_vars => [\A t \in Task : tasks[t].status \in {"succeeded", "cancelled"}
                                => tasks'[t] = tasks[t]]_vars
  BY NextRight, StutterRight DEF Kept
<1> QED
  BY <1>1, Invariant, PTL DEF Spec, OutcomeIsFinal

\* A Run that lost its lease, or whose Objective was cancelled, never succeeds.
THEOREM LostRunsNeverSucceed == Spec => LostRunNeverSucceeds
<1>1. IInv /\ [Next]_vars => [\A r \in Run : runs[r].status = "running" /\ ~Held(r)
                                => runs'[r].status # "succeeded"]_vars
  BY NextRight, StutterRight DEF Fenced
<1> QED
  BY <1>1, Invariant, PTL DEF Spec, LostRunNeverSucceeds

\* No Run of a Task is ever started before all the Tasks it depends on have
\* succeeded, for any dependencies, also between hosts that take over from each
\* other with stale views of the Plan.
THEOREM DependenciesAlwaysFirst == Spec => []DependenciesFirst
<1>1. IInv => DependenciesFirst
  BY DEF IInv, RunsMet, DependenciesFirst, DependenciesMet
<1> QED
  BY <1>1, Invariant, PTL
=============================================================================
