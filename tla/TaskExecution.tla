---------------------------- MODULE TaskExecution ----------------------------
(***************************************************************************)
(* The executors of one Task Plan over the shared ledger:                   *)
(*  - TaskGraph.run() and executeTask() (packages/core/src/task-graph.ts),  *)
(*  - the execution claim around them (task-plan-runtime.ts),               *)
(*  - recovery, corrections and reverification (task-recovery.ts,           *)
(*    task-recovery-service.ts), and the user's commands.                   *)
(*                                                                         *)
(* A host is one invocation of runClaimed(), startClaimed() or, for a       *)
(* delegation, of TaskGraph.run() without a claim; it has one worker per    *)
(* Task it executes.  Hosts may be in different processes, so the steps of  *)
(* two hosts interleave between any two transactions and a crash may come   *)
(* between any two.  A host value stands for a fresh holder id each time.   *)
(***************************************************************************)
EXTENDS TaskLedger

CONSTANTS
  Concurrency,  \* Tasks one host runs at the same time
  Admitted,     \* corrective attempts of the first execution, which planning
                \* may hold below the Budget of recovery
  Created,      \* how the Plan may be created: to be started under a claim, or
                \* as a delegation, which runs without one
  Crashes,      \* may processes crash?
  Suspends,     \* may a process sleep past the expiry of its leases?
  Mutating,     \* Tasks whose executor may change the outside world
  Commands      \* what users do: a subset of Command

Command == {"cancel", "abort", "pause", "retry"}

ASSUME ExecutionAssumption ==
  /\ Commands \subseteq Command
  /\ Concurrency \in Nat \ {0}
  /\ Admitted \in 0 .. 2
  /\ Created \subseteq {"create", "delegate"}
  /\ {Crashes, Suspends} \subseteq BOOLEAN
  /\ Mutating \subseteq Task

VARIABLES
  host,      \* per host: what it does, and the state of its signal
  worker,    \* per host and Task: executeTask() or a reverification
  toStart,   \* requests to run the Plan: created, delegated, resumed or retried
  accepted,  \* history: outputs a verifier accepted
  asked      \* history: somebody asked for the work to be cancelled

vars == <<tasks, runs, plan, claim, objective, host, worker, toStart,
          accepted, asked>>

Graph == {"execute", "recover", "delegate"}  \* modes that run TaskGraph.run()
Claiming == {"execute", "recover", "verify"} \* modes that hold a claim

Pc == {"idle", "picked", "marked", "executing", "verifying", "rejected",
       "requeued", "catching", "closing", "reverifying"}

HostState == [mode : Graph \cup Claiming \cup {"idle"}, scanning : BOOLEAN,
              aborted : BOOLEAN]

\* attempt counts from 1; end is the status the Run gets when it is closed,
\* succeeded if only its verification was unavailable.
WorkerState == [pc : Pc, run : Run \cup {None}, attempt : 0 .. 4,
                budget : 0 .. 2, aborted : BOOLEAN, end : Terminal]

IdleHost == [mode |-> "idle", scanning |-> FALSE, aborted |-> FALSE]
IdleWorker == [pc |-> "idle", run |-> None, attempt |-> 0, budget |-> 0,
               aborted |-> FALSE, end |-> "failed"]

TypeOK ==
  /\ LedgerTypeOK
  /\ host \in [Host -> HostState]
  /\ worker \in [Host -> [Task -> WorkerState]]
  /\ toStart \subseteq {"create", "delegate", "resume", "retry"}
  /\ accepted \subseteq Run
  /\ asked \in BOOLEAN

Init ==
  /\ LedgerInit
  /\ host = [h \in Host |-> IdleHost]
  /\ worker = [h \in Host |-> [t \in Task |-> IdleWorker]]
  /\ \E request \in Created : toStart = {request}
  /\ accepted = {}
  /\ asked = FALSE

history == <<accepted, asked>>

Busy(h) == {t \in Task : worker[h][t].pc # "idle"}
At(h, t, pc) == worker[h][t].pc = pc

\* The worker goes on with some fields changed.
Goes(h, t, w) == worker' = [worker EXCEPT ![h][t] = w] /\ UNCHANGED host

\* executeTask() returns; TaskGraph.run() looks at the ledger again.
Returns(h, t) ==
  /\ worker' = [worker EXCEPT ![h][t] = IdleWorker]
  /\ host' = [host EXCEPT
       ![h] = [host[h] EXCEPT !.scanning = host[h].mode \in Graph]]

To(w, pc) == [w EXCEPT !.pc = pc]

-----------------------------------------------------------------------------
(* Hosts start.                                                            *)

\* No step of an earlier invocation is left.
Unused(h) == host[h].mode = "idle" /\ Busy(h) = {} /\ claim.holder # h

Starts(h, mode) ==
  host' = [host EXCEPT
    ![h] = [mode |-> mode, scanning |-> mode \in Graph, aborted |-> FALSE]]

Takes(request) == request \in toStart /\ toStart' = toStart \ {request}

\* startClaimed() after createPlan() or a resume, up to the first await.
Execute(h) ==
  /\ Unused(h) /\ MayClaim(h)
  /\ Takes("create") \/ Takes("resume")
  /\ claim' = ClaimOf(h)
  /\ plan' = PlanTo("running")
  /\ Starts(h, "execute")
  /\ UNCHANGED <<tasks, runs, objective, worker, history>>

\* The claim is refused, or TaskRecoveryRunner finds nothing to resume: then
\* nobody asks again.
Refused(h) ==
  /\ Unused(h)
  /\ \/ ~MayClaim(h) /\ Takes("create")
     \/ /\ ~MayClaim(h) \/ ~\E t \in Task : Recoverable(t)
        /\ Takes("resume") \/ Takes("retry")
  /\ UNCHANGED <<ledger, host, worker, history>>

\* SubagentManager runs the Plan of a delegation without a claim.
Delegate(h) ==
  /\ Takes("delegate") /\ Unused(h)
  /\ plan' = PlanTo("running")
  /\ Starts(h, "delegate")
  /\ UNCHANGED <<tasks, runs, claim, objective, worker, history>>

\* A cycle of the recovery service prepares the corrections and leaves a paused
\* Plan alone.  It comes between createPlan() and startClaimed(), which follow
\* each other in one tick, only if their process sleeps or dies there.
CycleMayRecover ==
  /\ ~plan.paused /\ ~\E t \in Task : Correctable(t)
  /\ "create" \in toStart => Crashes \/ Suspends

\* TaskRecoveryRunner: a pending Task may be resumed, so its Plan is.  The
\* user's resume and retry come here without a cycle.
Recover(h) ==
  /\ Unused(h) /\ MayClaim(h)
  /\ \/ CycleMayRecover /\ UNCHANGED toStart
     \/ Takes("resume")
     \/ Takes("retry")
  /\ \E t \in Task : Recoverable(t)
  /\ claim' = ClaimOf(h)
  /\ plan' = PlanTo("running")
  /\ Starts(h, "recover")
  /\ UNCHANGED <<tasks, runs, objective, worker, history>>

\* reverify(), reverifyDue(): the candidates are read once, then judged.
Reverify(h) ==
  /\ Unused(h) /\ MayClaim(h)
  /\ \E t \in Task : Reverifiable(t)
  /\ claim' = ClaimOf(h)
  /\ Starts(h, "verify")
  /\ worker' = [worker EXCEPT
       ![h] = [t \in Task |->
         IF Reverifiable(t)
         THEN [IdleWorker EXCEPT !.pc = "reverifying", !.run = tasks[t].cand]
         ELSE IdleWorker]]
  /\ UNCHANGED <<tasks, runs, plan, objective, toStart, history>>

-----------------------------------------------------------------------------
(* TaskGraph.run(): one iteration of its loop.                             *)

CanExecute(h, t) == host[h].mode = "recover" => t \in Safe

Waiting(h) == {t \in Task : tasks[t].status = "pending" /\ CanExecute(h, t)}

DependencyFailed(t) ==
  \E u \in Prerequisites(t) : tasks[u].status \in {"failed", "cancelled"}

\* Mutant of DependenciesMet: a Task waits only until the others have started.
DependenciesStarted(t) == \A u \in Prerequisites(t) : tasks[u].status # "pending"

DependenciesMet(t) == \A u \in Prerequisites(t) : tasks[u].status = "succeeded"

Ready(h) == {t \in Waiting(h) \ Busy(h) : DependenciesMet(t)}

MayPick(h) == ~plan.paused /\ Cardinality(Busy(h)) < Concurrency

\* The loop gets past its check of a paused Plan.
Iterates(h) ==
  /\ host[h].mode \in Graph /\ host[h].scanning
  /\ ~(plan.paused /\ Busy(h) = {})

FailDependent(h, t) ==
  /\ Iterates(h) /\ ~host[h].aborted
  /\ t \in Waiting(h) /\ DependencyFailed(t)
  /\ Transition(t, "failed", tasks[t].verif, tasks[t].cand, tasks[t].attempts)
  /\ UNCHANGED <<host, worker, toStart, history>>

\* A Task whose rejected output was kept resumes with its next attempt.
FirstAttempt(t) ==
  IF tasks[t].verif = "rejected" /\ tasks[t].cand # None
  THEN tasks[t].attempts + 2 ELSE 1

BudgetOf(h) == IF host[h].mode = "recover" THEN Budget ELSE Admitted

Pick(h, t) ==
  /\ Iterates(h) /\ ~host[h].aborted /\ MayPick(h)
  /\ \A u \in Waiting(h) : ~DependencyFailed(u)
  /\ t \in Ready(h)
  /\ Goes(h, t, [IdleWorker EXCEPT !.pc = "picked", !.attempt = FirstAttempt(t),
                                   !.budget = BudgetOf(h)])
  /\ UNCHANGED <<ledger, toStart, history>>

\* Nothing more can be started: the loop waits for one of its workers.
Await(h) ==
  /\ Iterates(h) /\ ~host[h].aborted /\ Busy(h) # {}
  /\ \A u \in Waiting(h) : ~DependencyFailed(u)
  /\ MayPick(h) => Ready(h) = {}
  /\ host' = [host EXCEPT ![h] = [host[h] EXCEPT !.scanning = FALSE]]
  /\ UNCHANGED <<ledger, worker, toStart, history>>

\* Mutant of Outcome: cancelled Tasks are ignored.
OutcomeUnlessFailed(rows) ==
  IF Some(rows, "failed") THEN "failed" ELSE "succeeded"

\* updatePlanOutcome() without a forced status.
Outcome(rows) ==
  CASE Some(rows, "failed") -> "failed"
    [] ~Some(rows, "failed") /\ Some(rows, "cancelled") -> "cancelled"
    [] OTHER -> "succeeded"

OutcomePlan(rows) ==
  IF Some(rows, "running") THEN plan ELSE PlanTo(Outcome(rows))

\* The signal is aborted: Tasks that did not start are cancelled.  The Plan
\* outcome is computed from the rows read before that.
CancelWaiting(h) ==
  /\ Iterates(h) /\ host[h].aborted
  /\ tasks' = [t \in Task |-> IF t \in Waiting(h) THEN Ended(tasks[t], "cancelled")
                              ELSE tasks[t]]
  /\ IF Busy(h) # {}
     THEN /\ host' = [host EXCEPT ![h] = [host[h] EXCEPT !.scanning = FALSE]]
          /\ UNCHANGED <<plan, claim>>
     ELSE /\ host' = [host EXCEPT ![h] = IdleHost]
          /\ plan' = OutcomePlan(tasks)
          /\ claim' = Released(h)
  /\ UNCHANGED <<runs, objective, worker, toStart, history>>

\* TaskGraph.run() returns and its claim is released.
Finish(h) ==
  /\ host[h].mode \in Graph /\ host[h].scanning /\ Busy(h) = {}
  /\ \/ plan.paused /\ UNCHANGED plan
     \/ /\ ~plan.paused /\ ~host[h].aborted
        /\ \A u \in Waiting(h) : ~DependencyFailed(u)
        /\ Ready(h) = {}
        /\ plan' = IF Waiting(h) # {} THEN plan ELSE OutcomePlan(tasks)
  /\ claim' = Released(h)
  /\ host' = [host EXCEPT ![h] = IdleHost]
  /\ UNCHANGED <<tasks, runs, objective, worker, toStart, history>>

-----------------------------------------------------------------------------
(* executeTask(): every action is the code up to and including one          *)
(* transaction.                                                             *)

\* executionSignal: the host's signal or the loss of the Run's lease.
Aborted(h, t) == host[h].aborted \/ worker[h][t].aborted

\* Corrective attempts are counted from the second attempt on.
Corrections(h, t) == worker[h][t].attempt - 1

MarkRunning(h, t) ==
  /\ worker[h][t].pc \in {"picked", "requeued"}
  /\ LET again == At(h, t, "requeued")
         exhausted == worker[h][t].attempt > worker[h][t].budget + 1
         to == IF exhausted THEN "failed" ELSE "running"
         verif == IF exhausted THEN "rejected" ELSE Fresh(t)
         attempts == IF again THEN Corrections(h, t) ELSE tasks[t].attempts
     IN /\ Transition(t, to, verif, tasks[t].cand, attempts)
        /\ IF MayTransition(t, to) /\ ~exhausted
           THEN Goes(h, t, To(worker[h][t], "marked"))
           ELSE Returns(h, t)
  /\ UNCHANGED <<toStart, history>>

\* recordRun() of a fresh Run id.
StartRun(h, t, r) ==
  /\ At(h, t, "marked") /\ LineageActive(t)
  /\ runs[r].status = "absent"
  /\ RecordRun(r, t)
  /\ Goes(h, t, [worker[h][t] EXCEPT !.pc = "executing", !.run = r])
  /\ UNCHANGED <<toStart, history>>

\* recordRun() throws, and so does TaskGraph.run(): other workers are left
\* to themselves.  The host of a claimed start fails its Plan first.
RefuseRun(h, t) ==
  LET fails == host[h].mode = "execute" /\ HoldsClaim(h)
                 /\ \E u \in Task : tasks[u].status \in Live
  IN /\ At(h, t, "marked") /\ ~LineageActive(t)
     /\ tasks' = IF fails THEN EndActive("failed") ELSE tasks
     /\ runs' = IF fails THEN EndRuns("failed") ELSE runs
     /\ plan' = IF fails THEN PlanTo("failed") ELSE plan
     /\ claim' = Released(h)
     /\ worker' = [worker EXCEPT ![h][t] = IdleWorker]
     /\ host' = [host EXCEPT
          ![h] = [mode |-> "idle", scanning |-> FALSE, aborted |-> host[h].aborted]]
     /\ UNCHANGED <<objective, toStart, history>>

\* The executor uses a mutating tool.
Mutate(h, t) ==
  /\ At(h, t, "executing") /\ t \in Mutating
  /\ ~runs[worker[h][t].run].mutated
  /\ runs' = [runs EXCEPT ![worker[h][t].run].mutated = TRUE]
  /\ UNCHANGED <<tasks, plan, claim, objective, host, worker, toStart, history>>

Catches(h, t, unavailable) ==
  Goes(h, t, [worker[h][t] EXCEPT !.pc = "catching",
                !.end = IF unavailable THEN "succeeded" ELSE "failed"])

\* The settlement, or the error it throws when it is rejected.
Settles(h, t) ==
  IF MaySettle(worker[h][t].run, t)
  THEN SettleTaskRunAndTask(worker[h][t].run, t) /\ Returns(h, t)
  ELSE UNCHANGED ledger /\ Catches(h, t, FALSE)

\* The executor answers; a Task with criteria keeps its output as candidate.
Answer(h, t) ==
  /\ At(h, t, "executing")
  /\ IF Aborted(h, t) THEN UNCHANGED ledger /\ Catches(h, t, FALSE)
     ELSE IF t \notin Criteria THEN Settles(h, t)
     ELSE /\ Transition(t, "running", "pending", worker[h][t].run, Corrections(h, t))
          /\ IF MayTransition(t, "running")
             THEN Goes(h, t, To(worker[h][t], "verifying"))
             ELSE Returns(h, t)
  /\ UNCHANGED <<toStart, history>>

\* The executor or the verifier throws; without an abort, a verifier that
\* throws or is missing makes the verification unavailable.
Throw(h, t) ==
  /\ worker[h][t].pc \in {"executing", "verifying"}
  /\ Catches(h, t, At(h, t, "verifying") /\ ~Aborted(h, t))
  /\ UNCHANGED <<ledger, toStart, history>>

Accept(h, t) ==
  /\ At(h, t, "verifying")
  /\ accepted' = accepted \cup {worker[h][t].run}
  /\ IF Aborted(h, t) THEN UNCHANGED ledger /\ Catches(h, t, FALSE)
     ELSE Settles(h, t)
  /\ UNCHANGED <<toStart, asked>>

Reject(h, t) ==
  /\ At(h, t, "verifying") /\ ~Aborted(h, t)
  /\ TransitionRun(worker[h][t].run, "failed")
  /\ IF RunMay(worker[h][t].run, "failed")
     THEN Goes(h, t, To(worker[h][t], "rejected")) ELSE Returns(h, t)
  /\ UNCHANGED <<toStart, history>>

\* After a rejection: the next attempt, the next route, or failure.
Requeue(h, t) ==
  /\ At(h, t, "rejected")
  /\ IF worker[h][t].attempt <= worker[h][t].budget
     THEN /\ Transition(t, "pending", "rejected", worker[h][t].run, Corrections(h, t))
          /\ IF MayTransition(t, "pending")
             THEN Goes(h, t, [worker[h][t] EXCEPT
                    !.pc = "requeued", !.run = None, !.attempt = worker[h][t].attempt + 1])
             ELSE Returns(h, t)
     ELSE /\ IF HasNextRoute(t) THEN AdvanceTaskRoute(t)
             ELSE Transition(t, "failed", "rejected", worker[h][t].run, Corrections(h, t))
          /\ Returns(h, t)
  /\ UNCHANGED <<toStart, history>>

\* The catch block, up to its write to the Task.
Catch(h, t) ==
  LET w == worker[h][t]
      unavailable == w.end = "succeeded"
      to == IF host[h].aborted THEN "cancelled" ELSE "failed"
      closing(end) == Goes(h, t, [w EXCEPT !.pc = "closing", !.end = end])
      attempts == IF t \in Criteria THEN Corrections(h, t) ELSE tasks[t].attempts
  IN /\ At(h, t, "catching")
     /\ IF ~unavailable /\ ~Aborted(h, t) /\ HasNextRoute(t)
        THEN AdvanceTaskRoute(t) /\ closing("failed")
        ELSE IF unavailable /\ to = "failed"
        THEN /\ Transition(t, "running", "unavailable", w.run, attempts)
             /\ closing("succeeded")
        ELSE /\ Transition(t, to, tasks[t].verif, tasks[t].cand, attempts)
             /\ closing(to)
     /\ UNCHANGED <<toStart, history>>

CloseRun(h, t) ==
  /\ At(h, t, "closing")
  /\ TransitionRun(worker[h][t].run, worker[h][t].end)
  /\ Returns(h, t)
  /\ UNCHANGED <<toStart, history>>

-----------------------------------------------------------------------------
(* Reverification under a claim.                                           *)

\* The verdict on the candidate that was read, or none.  An aborted signal
\* ends the loop over the candidates.
Judge(h, t, ok) ==
  /\ At(h, t, "reverifying")
  /\ accepted' = IF ok THEN accepted \cup {worker[h][t].run} ELSE accepted
  /\ IF Aborted(h, t) THEN UNCHANGED ledger
     ELSE ResolveCandidateVerification(t, ok)
  /\ Returns(h, t)
  /\ UNCHANGED <<toStart, asked>>

StillUnavailable(h, t) ==
  /\ At(h, t, "reverifying")
  /\ Returns(h, t)
  /\ UNCHANGED <<ledger, toStart, history>>

EndReverify(h) ==
  /\ host[h].mode = "verify" /\ Busy(h) = {}
  /\ claim' = Released(h)
  /\ host' = [host EXCEPT ![h] = IdleHost]
  /\ UNCHANGED <<tasks, runs, plan, objective, worker, toStart, history>>

-----------------------------------------------------------------------------
(* Signals, leases and crashes.                                            *)

\* Timers and commands run only while every worker awaits something.
Suspended(h) ==
  /\ ~host[h].scanning
  /\ \A t \in Busy(h) : worker[h][t].pc \in {"executing", "verifying", "reverifying"}

\* The process of the host shuts down, or its parent turn is stopped.
Abort(h) ==
  /\ "abort" \in Commands
  /\ host[h].mode # "idle" /\ Suspended(h) /\ ~host[h].aborted
  /\ host' = [host EXCEPT ![h] = [host[h] EXCEPT !.aborted = TRUE]]
  /\ asked' = TRUE
  /\ UNCHANGED <<ledger, worker, toStart, accepted>>

\* The heartbeat of the claim finds it lost.
LoseClaim(h) ==
  /\ host[h].mode \in Claiming /\ Suspended(h) /\ ~host[h].aborted
  /\ ~HoldsClaim(h)
  /\ host' = [host EXCEPT ![h] = [host[h] EXCEPT !.aborted = TRUE]]
  /\ UNCHANGED <<ledger, worker, toStart, history>>

\* The heartbeat of the Run finds that its lease cannot be renewed.
LoseLease(h, t) ==
  /\ worker[h][t].pc \in {"executing", "verifying"}
  /\ ~worker[h][t].aborted /\ ~Renewable(worker[h][t].run)
  /\ worker' = [worker EXCEPT ![h] = [worker[h] EXCEPT
       ![t] = [worker[h][t] EXCEPT !.aborted = TRUE]]]
  /\ UNCHANGED <<ledger, host, toStart, history>>

\* A lease runs out when nobody renews it: its process is gone, its worker
\* has returned, or the process sleeps.
Renews(h, t, r) ==
  /\ worker[h][t].run = r /\ ~worker[h][t].aborted
  /\ worker[h][t].pc \in {"executing", "verifying", "rejected", "catching", "closing"}

ExpireLease(r) ==
  /\ runs[r].status = "running" /\ runs[r].live
  /\ \/ Suspends
     \/ ~Renewable(r)
     \/ ~\E h \in Host, t \in Task : Renews(h, t, r)
  /\ runs' = [runs EXCEPT ![r].live = FALSE]
  /\ UNCHANGED <<tasks, plan, claim, objective, host, worker, toStart, history>>

ExpireClaim ==
  /\ claim.live
  /\ Suspends \/ host[claim.holder].mode \notin Claiming
  /\ claim' = [claim EXCEPT !.live = FALSE]
  /\ UNCHANGED <<tasks, runs, plan, objective, host, worker, toStart, history>>

Crash(h) ==
  /\ Crashes /\ (host[h].mode # "idle" \/ Busy(h) # {})
  /\ host' = [host EXCEPT ![h] = IdleHost]
  /\ worker' = [worker EXCEPT ![h] = [t \in Task |-> IdleWorker]]
  /\ UNCHANGED <<ledger, toStart, history>>

-----------------------------------------------------------------------------
(* The user and the recovery service.                                      *)

Outside == UNCHANGED <<host, worker, toStart, history>>

\* TaskRecoveryRunner.cancel(): the host that executes the Plan in the same
\* process, if there is one, is aborted, then the Plan is cancelled.
Cancel(here) ==
  /\ "cancel" \in Commands
  /\ \A h \in here : host[h].mode \in Claiming /\ Suspended(h)
  /\ host' = [h \in Host |-> IF h \in here THEN [host[h] EXCEPT !.aborted = TRUE]
                             ELSE host[h]]
  /\ IF \E t \in Task : tasks[t].status \in Live THEN CancelTaskPlan
     ELSE here # {} /\ UNCHANGED ledger
  /\ asked' = TRUE
  /\ UNCHANGED <<worker, toStart, accepted>>

CancelRoot ==
  /\ "cancel" \in Commands
  /\ CancelObjective
  /\ asked' = TRUE
  /\ UNCHANGED <<host, worker, toStart, accepted>>

Pause == "pause" \in Commands /\ PauseTaskPlan /\ Outside

Resume ==
  /\ ResumeTaskPlan
  /\ toStart' = toStart \cup {"resume"}
  /\ UNCHANGED <<host, worker, history>>

Retry ==
  /\ "retry" \in Commands /\ PrepareTaskPlanRetry
  /\ toStart' = toStart \cup {"retry"}
  /\ UNCHANGED <<host, worker, history>>
Correct == PrepareTaskCorrections /\ Outside
Reconcile == ReconcileExpiredTaskRuns /\ Outside

-----------------------------------------------------------------------------
HostStep(h) ==
  \/ Execute(h) \/ Refused(h) \/ Delegate(h) \/ Recover(h) \/ Reverify(h)
  \/ Await(h) \/ CancelWaiting(h) \/ Finish(h) \/ EndReverify(h)
  \/ Abort(h) \/ LoseClaim(h) \/ Crash(h)

WorkerStep(h, t) ==
  \/ FailDependent(h, t) \/ Pick(h, t) \/ MarkRunning(h, t)
  \/ \E r \in Run : StartRun(h, t, r)
  \/ RefuseRun(h, t) \/ Mutate(h, t) \/ Answer(h, t) \/ Throw(h, t)
  \/ Accept(h, t) \/ Reject(h, t) \/ Requeue(h, t)
  \/ Catch(h, t) \/ CloseRun(h, t)
  \/ \E ok \in BOOLEAN : Judge(h, t, ok)
  \/ StillUnavailable(h, t) \/ LoseLease(h, t)

Next ==
  \/ \E h \in Host : HostStep(h) \/ \E t \in Task : WorkerStep(h, t)
  \/ \E r \in Run : ExpireLease(r)
  \/ ExpireClaim
  \/ \E here \in {{}} \cup {{h} : h \in Host} : Cancel(here)
  \/ CancelRoot \/ Pause \/ Resume \/ Retry \/ Correct \/ Reconcile

Spec == Init /\ [][Next]_vars

-----------------------------------------------------------------------------
(* Fairness.  Every host goes on, executors and verifiers answer (both have *)
(* timeouts), the recovery service repeats its cycle, which begins with the  *)
(* reverification, and its verifier does not stay unavailable.  Nothing is  *)
(* assumed of users, except that they resume what they paused, and of       *)
(* failures.                                                                *)

Proceeds(h) ==
  \/ Execute(h) \/ Refused(h) \/ Delegate(h) \/ Recover(h) \/ Reverify(h)
  \/ Await(h) \/ CancelWaiting(h) \/ Finish(h) \/ EndReverify(h)

Works(h, t) ==
  \/ FailDependent(h, t) \/ Pick(h, t) \/ MarkRunning(h, t)
  \/ \E r \in Run : StartRun(h, t, r)
  \/ RefuseRun(h, t) \/ Answer(h, t) \/ Accept(h, t) \/ Reject(h, t)
  \/ Requeue(h, t) \/ Catch(h, t) \/ CloseRun(h, t)
  \/ \E ok \in BOOLEAN : Judge(h, t, ok)
  \/ StillUnavailable(h, t)

Reverifies == \E h \in Host : Reverify(h)
Verdict == \E h \in Host, t \in Task, ok \in BOOLEAN : Judge(h, t, ok)

FairSpec ==
  /\ Spec
  /\ \A h \in Host : WF_vars(Proceeds(h))
  /\ \A h \in Host, t \in Task : WF_vars(Works(h, t))
  /\ \A r \in Run : WF_vars(ExpireLease(r))
  /\ WF_vars(ExpireClaim) /\ WF_vars(Correct) /\ WF_vars(Reconcile)
  /\ WF_vars(Resume)
  /\ SF_vars(Reverifies) /\ SF_vars(Verdict)

-----------------------------------------------------------------------------
(* Safety.                                                                 *)

\* transition() never replaces an outcome: the row of a Task that succeeded or
\* was cancelled stays as it is, whatever executors that started earlier, a
\* reconciliation or a late verdict still write.
OutcomeIsFinal ==
  [][\A t \in Task : tasks[t].status \in {"succeeded", "cancelled"}
       => tasks'[t] = tasks[t]]_vars

\* The success fence: a Run that lost its lease, or was asked to stop by the
\* cancellation of its Objective, never succeeds.
LostRunNeverSucceeds ==
  [][\A r \in Run : runs[r].status = "running" /\ ~Held(r)
       => runs'[r].status # "succeeded"]_vars

\* A Task runs only after every Task it depends on succeeded, also when hosts
\* take over from each other and outcomes change between scan and start.
DependenciesFirst ==
  \A r \in Run : runs[r].status # "absent" =>
    \A u \in Prerequisites(runs[r].task) : tasks[u].status = "succeeded"

\* The result of a Task with Acceptance Criteria is an output that a verifier
\* accepted, through settlement and through reverification.
ResultWasAccepted ==
  \A t \in Criteria : tasks[t].status = "succeeded" => tasks[t].result \in accepted

\* updatePlanOutcome() and the plan synchronisations: a Plan succeeded only if
\* every Task in it did.
PlanSuccess ==
  plan.status = "succeeded" => \A t \in Task : tasks[t].status = "succeeded"

Executing(h, t) == worker[h][t].pc \in {"executing", "verifying"}

\* The claim: no two hosts execute one Task at the same time.
OneExecutor ==
  \A h, g \in Host, t \in Task : Executing(h, t) /\ Executing(g, t) => h = g

\* cancelTaskPlan() and the outcomes derived from the rows, against executors
\* that are half way: when a Plan becomes cancelled, none of its Tasks is
\* pending or running any more, except one that a recovery may not execute and
\* leaves pending when it is told to stop; and afterwards nothing but a
\* correction or a retry, which do not look at the Plan, revives a Task.
CancelledPlanIsQuiet ==
  [][plan'.status = "cancelled" =>
       \A t \in Task : tasks'[t].status \in Live =>
         IF plan.status = "cancelled"
         THEN \/ tasks[t].status \in Live
              \/ tasks[t].status = "failed" /\ tasks'[t].status = "pending"
         ELSE t \notin Safe /\ tasks[t].status = "pending"]_vars

\* reconcileExpiredTaskRuns() never schedules a Task again because of a Run
\* that may have changed the outside world.
ReplayIsSafe ==
  [][\A r \in Expired :
       /\ runs'[r].status = "failed"
       /\ tasks[runs[r].task].status = "running"
       /\ tasks'[runs[r].task].status = "pending"
       => ~runs[r].mutated]_vars

\* cancelObjective(): once the Objective is cancelled no Task below it
\* succeeds any more, neither by settlement nor by a late verdict.
ObjectiveStopsSuccess ==
  [][\A t \in Task : objective = "cancelled" /\ tasks[t].status # "succeeded"
       => tasks'[t].status # "succeeded"]_vars

-----------------------------------------------------------------------------
(* Liveness.                                                               *)

\* Without crashes and suspensions a Plan that was created ends: no wake-up of
\* the loop in run() is lost, no Task is left behind by a correction, a next
\* route, a failed dependency or an unavailable verifier.
Settled == plan.status \in Terminal /\ \A t \in Task : tasks[t].status \in Terminal

PlanSettles == <>[]Settled
=============================================================================
