-------------------------- MODULE TaskOutcomeProofs --------------------------
(***************************************************************************)
(* Proofs about what a Task Plan comes to: who executes its Tasks, which     *)
(* results it keeps, what a recovery repeats and which status it gets.      *)
(*                                                                         *)
(* They rest on the invariant of TaskExecutionProofs and on the claim: as    *)
(* long as the Objective runs, whoever does something with the Plan holds   *)
(* its claim (Claimed), and whoever executes a Task belongs to an           *)
(* invocation that is still there (Attended).  Both are lost when processes *)
(* sleep past their leases, and a delegation has no claim, so the theorems  *)
(* assume Exclusive.  Attended is also lost when run() throws beside other  *)
(* workers (RefuseRun); the theorems assume one worker at a time, or that   *)
(* nothing happens for which a Run could be refused (Undisturbed).          *)
(***************************************************************************)
EXTENDS TaskExecutionProofs, FiniteSetTheorems

Exclusive == ~Suspends /\ "delegate" \notin Created

\* Nobody cancels the Plan or retries its failed Tasks, and a Task has one
\* route.  Crashes, recovery, corrections, pauses and aborts remain.
Undisturbed ==
  /\ \A t \in Task : Routes[t] = 1
  /\ "cancel" \notin Commands /\ "retry" \notin Commands

Claimed ==
  /\ "delegate" \notin toStart
  /\ \A h \in Host : host[h].mode # "idle" =>
       /\ host[h].mode \in Claiming
       /\ HoldsClaim(h) \/ objective = "cancelled"

Attended ==
  \A h \in Host, t \in Task : worker[h][t].pc # "idle" =>
    /\ host[h].mode # "idle"
    /\ worker[h][t].pc = "reverifying" <=> host[h].mode = "verify"
    /\ Concurrency = 1 /\ host[h].mode # "verify" =>
         \A u \in Task : worker[h][u].pc # "idle" => u = t

-----------------------------------------------------------------------------
(* What a step changes for the others.                                     *)

\* Worker t of host h acts, and nobody else does.
Steady(h, t) ==
  /\ UNCHANGED <<claim, objective, toStart>>
  /\ \A g \in Host : host'[g].mode = host[g].mode /\ host'[g].aborted = host[g].aborted
  /\ \A g \in Host, u \in Task : g # h \/ u # t => worker'[g][u] = worker[g][u]
  /\ worker'[h][t].pc # "idle" =>
       /\ worker[h][t].pc # "idle"
       /\ worker'[h][t].pc = "reverifying" <=> worker[h][t].pc = "reverifying"

\* A worker that goes on.
LEMMA GoesOn ==
  ASSUME Executors, NEW h \in Host, NEW t \in Task, NEW w, Goes(h, t, w)
  PROVE  /\ UNCHANGED host
         /\ worker'[h][t] = w
         /\ \A g \in Host, u \in Task : g # h \/ u # t => worker'[g][u] = worker[g][u]
BY DEF Goes, Executors

\* A worker that returns.
LEMMA ReturnsIdle ==
  ASSUME Executors, NEW h \in Host, NEW t \in Task, Returns(h, t)
  PROVE  /\ \A g \in Host : host'[g].mode = host[g].mode /\ host'[g].aborted = host[g].aborted
         /\ worker'[h][t] = IdleWorker
         /\ \A g \in Host, u \in Task : g # h \/ u # t => worker'[g][u] = worker[g][u]
<1> DEFINE row == [host[h] EXCEPT !.scanning = host[h].mode \in Graph]
<1>1. host[h] \in HostState /\ host' = [host EXCEPT ![h] = row]
  BY DEF Returns, Executors
<1>2. row.mode = host[h].mode /\ row.aborted = host[h].aborted
  BY <1>1 DEF HostState
<1> HIDE DEF row
<1>3. \A g \in Host : host'[g].mode = host[g].mode /\ host'[g].aborted = host[g].aborted
  BY <1>1, <1>2 DEF Executors
<1> QED
  BY <1>3 DEF Returns, Executors

\* The steps of workers that go on and return.
LEMMA GoesSteady ==
  ASSUME Executors, NEW h \in Host, NEW t \in Task, NEW w, Goes(h, t, w),
         worker[h][t].pc \notin {"idle", "reverifying"}, w.pc # "reverifying",
         UNCHANGED <<claim, objective, toStart>>
  PROVE  Steady(h, t)
BY GoesOn DEF Steady

\* The same for Returns.
LEMMA ReturnsSteady ==
  ASSUME Executors, NEW h \in Host, NEW t \in Task, Returns(h, t),
         UNCHANGED <<claim, objective, toStart>>
  PROVE  Steady(h, t)
BY ReturnsIdle DEF Steady, IdleWorker

\* The same for Catches.
LEMMA CatchesSteady ==
  ASSUME Executors, NEW h \in Host, NEW t \in Task, NEW unavailable,
         Catches(h, t, unavailable), worker[h][t].pc \in {"executing", "verifying"},
         UNCHANGED <<claim, objective, toStart>>
  PROVE  Steady(h, t)
<1> DEFINE w == [worker[h][t] EXCEPT !.pc = "catching",
                   !.end = IF unavailable THEN "succeeded" ELSE "failed"]
<1>1. worker[h][t] \in WorkerState
  BY DEF Executors
<1>2. w.pc = "catching" /\ Goes(h, t, w)
  BY <1>1 DEF Catches, WorkerState
<1> HIDE DEF w
<1> QED
  BY <1>2, GoesSteady

\* A worker that goes on to another place.
LEMMA ToSteady ==
  ASSUME Executors, NEW h \in Host, NEW t \in Task, NEW pc \in Pc \ {"reverifying"},
         Goes(h, t, To(worker[h][t], pc)),
         worker[h][t].pc \notin {"idle", "reverifying"},
         UNCHANGED <<claim, objective, toStart>>
  PROVE  Steady(h, t)
<1>1. To(worker[h][t], pc).pc = pc
  BY WorkerRow, ToRow
<1> QED
  BY <1>1, GoesSteady

\* Every step of a worker, but for those that pick a Task or are refused.
LEMMA WorkerSteady ==
  ASSUME IInv, NEW h \in Host, NEW t \in Task, WorkerStep(h, t),
         ~Pick(h, t), ~RefuseRun(h, t)
  PROVE  Steady(h, t)
<1>1. Executors
  BY DEF IInv
<1>2. CASE FailDependent(h, t)
  BY <1>2 DEF FailDependent, Transition, Steady
<1>3. CASE MarkRunning(h, t)
  <2>1. worker[h][t].pc \in {"picked", "requeued"} /\ UNCHANGED <<claim, objective, toStart>>
        /\ (Goes(h, t, To(worker[h][t], "marked")) \/ Returns(h, t))
    BY <1>3 DEF MarkRunning, Transition
  <2> QED
    BY <1>1, <2>1, ToSteady, ReturnsSteady DEF Pc
<1>4. ASSUME NEW r \in Run, StartRun(h, t, r) PROVE Steady(h, t)
  <2> DEFINE w == [worker[h][t] EXCEPT !.pc = "executing", !.run = r]
  <2>1. w.pc = "executing"
    BY <1>1, WorkerRow DEF WorkerState
  <2>2. worker[h][t].pc = "marked" /\ UNCHANGED <<claim, objective, toStart>>
        /\ Goes(h, t, w)
    BY <1>4 DEF StartRun, RecordRun, At
  <2> HIDE DEF w
  <2> QED
    BY <1>1, <2>1, <2>2, GoesSteady
<1>5. CASE Mutate(h, t)
  BY <1>5 DEF Mutate, Steady
<1>6. ASSUME worker[h][t].pc \in {"executing", "verifying"}, Settles(h, t), UNCHANGED toStart
      PROVE  Steady(h, t)
  <2>1. UNCHANGED <<claim, objective, toStart>> /\ (Returns(h, t) \/ Catches(h, t, FALSE))
    BY <1>6 DEF Settles, SettleTaskRunAndTask, ledger
  <2> QED
    BY <1>1, <1>6, <2>1, ReturnsSteady, CatchesSteady
<1>7. CASE Answer(h, t)
  <2>1. worker[h][t].pc = "executing" /\ UNCHANGED toStart
    BY <1>7 DEF Answer, At
  <2>2. CASE Aborted(h, t)
    BY <1>1, <1>7, <2>1, <2>2, CatchesSteady DEF Answer, ledger
  <2>3. CASE ~Aborted(h, t) /\ t \notin Criteria
    BY <1>6, <1>7, <2>1, <2>3 DEF Answer
  <2>4. CASE ~Aborted(h, t) /\ t \in Criteria
    <3>1. UNCHANGED <<claim, objective, toStart>>
          /\ (Goes(h, t, To(worker[h][t], "verifying")) \/ Returns(h, t))
      BY <1>7, <2>1, <2>4 DEF Answer, Transition
    <3> QED
      BY <1>1, <2>1, <3>1, ToSteady, ReturnsSteady DEF Pc
  <2> QED
    BY <2>2, <2>3, <2>4
<1>8. CASE Throw(h, t)
  <2> DEFINE unavailable == At(h, t, "verifying") /\ ~Aborted(h, t)
  <2>1. worker[h][t].pc \in {"executing", "verifying"} /\ UNCHANGED <<claim, objective, toStart>>
        /\ Catches(h, t, unavailable)
    BY <1>8 DEF Throw, ledger
  <2> HIDE DEF unavailable
  <2> QED
    BY <1>1, <2>1, CatchesSteady
<1>9. CASE Accept(h, t)
  BY <1>1, <1>6, <1>9, CatchesSteady DEF Accept, At, ledger
<1>10. CASE Reject(h, t)
  <2>1. worker[h][t].pc = "verifying" /\ UNCHANGED <<claim, objective, toStart>>
        /\ (Goes(h, t, To(worker[h][t], "rejected")) \/ Returns(h, t))
    BY <1>10 DEF Reject, TransitionRun, At
  <2> QED
    BY <1>1, <2>1, ToSteady, ReturnsSteady DEF Pc
<1>11. CASE Requeue(h, t)
  <2> DEFINE w == [worker[h][t] EXCEPT !.pc = "requeued", !.run = None,
                                       !.attempt = worker[h][t].attempt + 1]
  <2>1. w.pc = "requeued"
    BY <1>1, WorkerRow DEF WorkerState
  <2>2. worker[h][t].pc = "rejected" /\ UNCHANGED <<claim, objective, toStart>>
        /\ (Goes(h, t, w) \/ Returns(h, t))
    BY <1>11 DEF Requeue, Transition, AdvanceTaskRoute, At
  <2> HIDE DEF w
  <2> QED
    BY <1>1, <2>1, <2>2, GoesSteady, ReturnsSteady
<1>12. CASE Catch(h, t)
  <2>1. ASSUME NEW end PROVE [worker[h][t] EXCEPT !.pc = "closing", !.end = end].pc = "closing"
    BY <1>1, WorkerRow DEF WorkerState
  <2>2. worker[h][t].pc = "catching" /\ UNCHANGED <<claim, objective, toStart>>
    BY <1>12 DEF Catch, Transition, AdvanceTaskRoute, At
  <2> DEFINE closing(end) == [worker[h][t] EXCEPT !.pc = "closing", !.end = end]
  <2>3. \E end : Goes(h, t, closing(end))
    <3> HIDE DEF closing
    <3>1. \E end \in {"failed", "succeeded", IF host[h].aborted THEN "cancelled" ELSE "failed"} :
            Goes(h, t, closing(end))
      BY <1>12, Zenon DEF Catch, closing
    <3> QED
      BY <3>1
  <2> QED
    BY <1>1, <2>1, <2>2, <2>3, GoesSteady
<1>13. CASE CloseRun(h, t)
  BY <1>1, <1>13, ReturnsSteady DEF CloseRun, TransitionRun
<1>14. ASSUME NEW ok \in BOOLEAN, Judge(h, t, ok) PROVE Steady(h, t)
  BY <1>1, <1>14, ReturnsSteady DEF Judge, ResolveCandidateVerification, ledger
<1>15. CASE StillUnavailable(h, t)
  BY <1>1, <1>15, ReturnsSteady DEF StillUnavailable, ledger
<1>16. CASE LoseLease(h, t)
  <2> DEFINE w == [worker[h][t] EXCEPT !.aborted = TRUE]
  <2>1. w.pc = worker[h][t].pc
    BY <1>1, WorkerRow DEF WorkerState
  <2>2. worker[h][t].pc \in {"executing", "verifying"} /\ UNCHANGED <<claim, objective, toStart>>
        /\ Goes(h, t, w)
    BY <1>1, <1>16 DEF LoseLease, Goes, ledger
  <2> HIDE DEF w
  <2> QED
    BY <1>1, <2>1, <2>2, GoesSteady
<1> QED
  BY <1>2, <1>3, <1>4, <1>5, <1>7, <1>8, <1>9, <1>10, <1>11, <1>12, <1>13, <1>14,
     <1>15, <1>16 DEF WorkerStep

-----------------------------------------------------------------------------
(* The claim.                                                              *)

\* While the Objective runs, at most one invocation works on the Plan.
LEMMA OneClaimant ==
  ASSUME Claimed, objective = "running", NEW h \in Host, NEW g \in Host,
         host[h].mode # "idle", host[g].mode # "idle"
  PROVE  h = g
BY DEF Claimed, HoldsClaim

\* Nobody starts, and the claim stays.
LEMMA ClaimStays ==
  ASSUME Claimed, UNCHANGED <<claim, objective>>, "delegate" \notin toStart',
         \A g \in Host : host'[g].mode \in {host[g].mode, "idle"}
  PROVE  Claimed'
BY DEF Claimed, HoldsClaim

\* An invocation starts under a new claim.
LEMMA ClaimStarts ==
  ASSUME Executors, Claimed, NEW h \in Host, NEW mode \in Claiming, Starts(h, mode),
         MayClaim(h), claim' = ClaimOf(h), UNCHANGED objective, "delegate" \notin toStart'
  PROVE  Claimed'
<1>1. \A g \in Host : ~HoldsClaim(g)
  BY NoneAssumption DEF MayClaim, HoldsClaim
<1>2. host'[h].mode = mode /\ \A g \in Host : g # h => host'[g] = host[g]
  BY DEF Starts, Executors
<1>3. HoldsClaim(h)'
  BY DEF ClaimOf, HoldsClaim
<1> QED
  BY <1>1, <1>2, <1>3 DEF Claimed

\* An invocation ends and releases its claim.
LEMMA ClaimEnds ==
  ASSUME Claimed, NEW h \in Host, claim' = Released(h), UNCHANGED objective,
         UNCHANGED toStart, host'[h].mode = "idle",
         \A g \in Host : g # h => host'[g].mode = host[g].mode
  PROVE  Claimed'
BY DEF Claimed, HoldsClaim, Released

\* A host that waits, or is told to stop, is still there.
LEMMA SameModes ==
  ASSUME Executors, NEW h \in Host, NEW row,
         row \in {[host[h] EXCEPT !.scanning = FALSE], [host[h] EXCEPT !.aborted = TRUE]},
         host' = [host EXCEPT ![h] = row]
  PROVE  \A g \in Host : host'[g].mode = host[g].mode
<1>1. host[h] \in HostState
  BY DEF Executors
<1>2. row.mode = host[h].mode
  BY <1>1 DEF HostState
<1> QED
  BY <1>2 DEF Executors

\* Every step keeps the claim with the invocation that works on the Plan.
LEMMA ClaimedStep ==
  ASSUME IInv, Exclusive, Claimed, Next
  PROVE  Claimed'
<1>1. Executors
  BY DEF IInv
<1>2. ASSUME NEW h \in Host, HostStep(h) PROVE Claimed'
  <2>1. CASE Execute(h)
    BY <1>1, <2>1, ClaimStarts DEF Execute, Takes, Claimed, Claiming
  <2>2. CASE Refused(h)
    BY <2>2, ClaimStays DEF Refused, Takes, Claimed, ledger
  <2>3. CASE Delegate(h)
    BY <2>3 DEF Delegate, Takes, Claimed
  <2>4. CASE Recover(h)
    BY <1>1, <2>4, ClaimStarts DEF Recover, Takes, Claimed, Claiming
  <2>5. CASE Reverify(h)
    <3>1. Starts(h, "verify") /\ MayClaim(h) /\ claim' = ClaimOf(h)
      BY <2>5, Zenon DEF Reverify
    <3>2. objective' = objective /\ toStart' = toStart
      BY <2>5, Zenon DEF Reverify
    <3> QED
      BY <1>1, <3>1, <3>2, ClaimStarts DEF Claimed, Claiming
  <2>6. CASE Await(h)
    <3>1. \A g \in Host : host'[g].mode = host[g].mode
      BY <1>1, <2>6, SameModes DEF Await
    <3> QED
      BY <2>6, <3>1, ClaimStays DEF Await, Claimed, ledger
  <2>7. CASE CancelWaiting(h)
    <3>1. CASE Busy(h) # {}
      <4>1. \A g \in Host : host'[g].mode = host[g].mode
        BY <1>1, <2>7, <3>1, SameModes DEF CancelWaiting
      <4> QED
        BY <2>7, <3>1, <4>1, ClaimStays DEF CancelWaiting, Claimed
    <3>2. CASE Busy(h) = {}
      BY <1>1, <2>7, <3>2, ClaimEnds DEF CancelWaiting, Executors, IdleHost
    <3> QED
      BY <3>1, <3>2
  <2>8. CASE Finish(h)
    BY <1>1, <2>8, ClaimEnds DEF Finish, Executors, IdleHost
  <2>9. CASE EndReverify(h)
    BY <1>1, <2>9, ClaimEnds DEF EndReverify, Executors, IdleHost
  <2>10. CASE Abort(h) \/ LoseClaim(h)
    <3>1. \A g \in Host : host'[g].mode = host[g].mode
      BY <1>1, <2>10, SameModes DEF Abort, LoseClaim
    <3> QED
      BY <2>10, <3>1, ClaimStays DEF Abort, LoseClaim, Claimed, ledger
  <2>11. CASE Crash(h)
    BY <1>1, <2>11, ClaimStays DEF Crash, Claimed, Executors, IdleHost, ledger
  <2> QED
    BY <1>2, <2>1, <2>2, <2>3, <2>4, <2>5, <2>6, <2>7, <2>8, <2>9, <2>10, <2>11
    DEF HostStep
<1>3. ASSUME NEW h \in Host, NEW t \in Task, WorkerStep(h, t) PROVE Claimed'
  <2>1. CASE Pick(h, t)
    BY <2>1, ClaimStays DEF Pick, Goes, Claimed, ledger
  <2>2. CASE RefuseRun(h, t)
    BY <1>1, <2>2, ClaimEnds DEF RefuseRun, Executors
  <2>3. CASE Steady(h, t)
    BY <2>3, ClaimStays DEF Steady, Claimed
  <2> QED
    BY <1>3, <2>1, <2>2, <2>3, WorkerSteady
<1>4. CASE \E r \in Run : ExpireLease(r)
  BY <1>4, ClaimStays DEF ExpireLease, Claimed
<1>5. CASE ExpireClaim
  BY <1>5 DEF ExpireClaim, Exclusive, Claimed, HoldsClaim
<1>6. CASE \E here \in {{}} \cup {{h} : h \in Host} : Cancel(here)
  <2>1. PICK here : Cancel(here)
    BY <1>6
  <2>2. \A g \in Host : host'[g].mode = host[g].mode
    BY <1>1, <2>1 DEF Cancel, Executors, HostState
  <2>3. UNCHANGED <<claim, objective, toStart>>
    BY <2>1 DEF Cancel, CancelTaskPlan, ledger
  <2> QED
    BY <2>2, <2>3, ClaimStays DEF Claimed
<1>7. CASE CancelRoot
  BY <1>7 DEF CancelRoot, CancelObjective, Claimed
<1>8. CASE Pause \/ Resume \/ Retry \/ Correct \/ Reconcile
  BY <1>8, ClaimStays
  DEF Pause, Resume, Retry, Correct, Reconcile, Outside, Claimed, PauseTaskPlan,
      ResumeTaskPlan, PrepareTaskPlanRetry, PrepareTaskCorrections, ReconcileExpiredTaskRuns
<1> QED
  BY <1>2, <1>3, <1>4, <1>5, <1>6, <1>7, <1>8 DEF Next

-----------------------------------------------------------------------------
(* The workers and their hosts.                                            *)

\* A host whose run() throws leaves no other worker behind.
NobodyLeft ==
  \A h \in Host, t, u \in Task : RefuseRun(h, t) /\ u # t => worker[h][u].pc = "idle"

\* No worker moves, and a host with workers keeps its mode.
LEMMA AttendedStays ==
  ASSUME Attended, UNCHANGED worker,
         \A g \in Host : host'[g].mode = host[g].mode \/ \A u \in Task : worker[g][u].pc = "idle"
  PROVE  Attended'
BY DEF Attended

\* The workers that a reverification begins with.
LEMMA ReverifyWorkers ==
  ASSUME Executors, NEW h \in Host, Reverify(h)
  PROVE  /\ \A g \in Host, t \in Task : g # h => worker'[g][t] = worker[g][t]
         /\ \A t \in Task :
              \/ worker'[h][t] = IdleWorker
              \/ /\ worker'[h][t].pc = "reverifying" /\ worker'[h][t].run = tasks[t].cand
                 /\ ~worker'[h][t].aborted
         /\ host'[h].mode = "verify" /\ \A g \in Host : g # h => host'[g] = host[g]
<1> DEFINE judges(t) == [IdleWorker EXCEPT !.pc = "reverifying", !.run = tasks[t].cand]
           row == [t \in Task |-> IF Reverifiable(t) THEN judges(t) ELSE IdleWorker]
<1>1. worker' = [worker EXCEPT ![h] = row] /\ Starts(h, "verify")
  BY Zenon DEF Reverify
<1>2. \A t \in Task :
        \/ row[t] = IdleWorker
        \/ row[t].pc = "reverifying" /\ row[t].run = tasks[t].cand /\ ~row[t].aborted
  BY DEF IdleWorker
<1> HIDE DEF row
<1>3. \A g \in Host, t \in Task : worker'[g][t] = IF g = h THEN row[t] ELSE worker[g][t]
  BY <1>1 DEF Executors
<1>4. host'[h].mode = "verify" /\ \A g \in Host : g # h => host'[g] = host[g]
  BY <1>1 DEF Starts, Executors
<1> QED
  BY <1>2, <1>3, <1>4

\* One worker at a time: whoever picks a Task has none yet.
LEMMA NoneBusy ==
  ASSUME Attended, NEW h \in Host, NEW t \in Task, Pick(h, t), Concurrency = 1,
         host[h].mode # "verify"
  PROVE  \A u \in Task : worker[h][u].pc = "idle"
<1> SUFFICES ASSUME NEW u \in Task, worker[h][u].pc # "idle" PROVE FALSE
  OBVIOUS
<1>1. Busy(h) = {u}
  BY DEF Attended, Busy
<1>2. Cardinality(Busy(h)) = 1
  BY <1>1, FS_Singleton
<1> QED
  BY <1>2 DEF Pick, MayPick

\* A worker that was picked.
LEMMA PickedPc ==
  ASSUME Executors, NEW h \in Host, NEW t \in Task, Pick(h, t)
  PROVE  /\ UNCHANGED <<host, tasks, runs, plan, claim, objective, toStart>>
         /\ worker'[h][t].pc = "picked" /\ host[h].mode \in Graph
         /\ tasks[t].status = "pending" /\ worker[h][t].pc = "idle"
         /\ \A g \in Host, u \in Task : g # h \/ u # t => worker'[g][u] = worker[g][u]
<1> DEFINE w == [IdleWorker EXCEPT !.pc = "picked", !.attempt = FirstAttempt(t),
                                   !.budget = BudgetOf(h)]
<1>1. w.pc = "picked"
  BY DEF IdleWorker
<1>2. Goes(h, t, w) /\ UNCHANGED <<host, tasks, runs, plan, claim, objective, toStart>>
  BY DEF Pick, ledger, Goes
<1> HIDE DEF w
<1>3. host[h].mode \in Graph /\ tasks[t].status = "pending" /\ worker[h][t].pc = "idle"
  BY DEF Pick, Iterates, Ready, Waiting, Busy
<1> QED
  BY <1>1, <1>2, <1>3, GoesOn

\* Workers and hosts that were interrupted by a crash.
LEMMA CrashedWorkers ==
  ASSUME Executors, NEW h \in Host, Crash(h)
  PROVE  /\ \A t \in Task : worker'[h][t] = IdleWorker
         /\ \A g \in Host, t \in Task : g # h => worker'[g][t] = worker[g][t]
         /\ \A g \in Host : g # h => host'[g] = host[g]
         /\ host'[h] = IdleHost
BY DEF Crash, Executors

\* A worker whose Run is refused ends, and so does its host.
LEMMA RefusedWorkers ==
  ASSUME Executors, NEW h \in Host, NEW t \in Task, RefuseRun(h, t)
  PROVE  /\ worker'[h][t] = IdleWorker
         /\ \A g \in Host, u \in Task : g # h \/ u # t => worker'[g][u] = worker[g][u]
         /\ \A g \in Host : g # h => host'[g] = host[g]
         /\ host'[h].mode = "idle" /\ host'[h].aborted = host[h].aborted
<1>1. /\ worker' = [worker EXCEPT ![h][t] = IdleWorker]
      /\ host' = [host EXCEPT
           ![h] = [mode |-> "idle", scanning |-> FALSE, aborted |-> host[h].aborted]]
  BY DEF RefuseRun
<1> QED
  BY <1>1 DEF Executors

\* Every step keeps the workers with their hosts.
LEMMA AttendedStep ==
  ASSUME IInv, Attended, NobodyLeft, Next
  PROVE  Attended'
<1>1. Executors
  BY DEF IInv
<1>2. ASSUME NEW h \in Host, HostStep(h) PROVE Attended'
  <2>1. ASSUME Busy(h) = {}, UNCHANGED worker, \A g \in Host : g # h => host'[g] = host[g]
        PROVE  Attended'
    BY <2>1, AttendedStays DEF Busy
  <2>2. CASE Execute(h)
    BY <1>1, <2>1, <2>2 DEF Execute, Unused, Starts, Executors
  <2>3. CASE Refused(h)
    BY <2>3, AttendedStays DEF Refused
  <2>4. CASE Delegate(h)
    BY <1>1, <2>1, <2>4 DEF Delegate, Unused, Starts, Executors
  <2>5. CASE Recover(h)
    BY <1>1, <2>1, <2>5 DEF Recover, Unused, Starts, Executors
  <2>6. CASE Reverify(h)
    BY <1>1, <2>6, ReverifyWorkers DEF Attended, IdleWorker
  <2>7. CASE Await(h)
    BY <1>1, <2>7, SameModes, AttendedStays DEF Await
  <2>8. CASE CancelWaiting(h)
    <3>1. CASE Busy(h) # {}
      BY <1>1, <2>8, <3>1, SameModes, AttendedStays DEF CancelWaiting
    <3>2. CASE Busy(h) = {}
      BY <1>1, <2>1, <2>8, <3>2 DEF CancelWaiting, Executors
    <3> QED
      BY <3>1, <3>2
  <2>9. CASE Finish(h)
    BY <1>1, <2>1, <2>9 DEF Finish, Executors
  <2>10. CASE EndReverify(h)
    BY <1>1, <2>1, <2>10 DEF EndReverify, Executors
  <2>11. CASE Abort(h) \/ LoseClaim(h)
    BY <1>1, <2>11, SameModes, AttendedStays DEF Abort, LoseClaim
  <2>12. CASE Crash(h)
    BY <1>1, <2>12, CrashedWorkers DEF Attended, IdleWorker
  <2> QED
    BY <1>2, <2>2, <2>3, <2>4, <2>5, <2>6, <2>7, <2>8, <2>9, <2>10, <2>11, <2>12
    DEF HostStep
<1>3. ASSUME NEW h \in Host, NEW t \in Task, WorkerStep(h, t) PROVE Attended'
  <2>1. CASE Pick(h, t)
    <3>1. Concurrency = 1 => \A u \in Task : worker[h][u].pc = "idle"
      BY <1>1, <2>1, NoneBusy, PickedPc DEF Graph
    <3> QED
      BY <1>1, <2>1, <3>1, PickedPc DEF Attended, Graph
  <2>2. CASE RefuseRun(h, t)
    BY <1>1, <2>2, RefusedWorkers DEF Attended, NobodyLeft, IdleWorker
  <2>3. CASE Steady(h, t)
    BY <2>3 DEF Steady, Attended
  <2> QED
    BY <1>3, <2>1, <2>2, <2>3, WorkerSteady
<1>4. CASE \E r \in Run : ExpireLease(r)
  BY <1>4, AttendedStays DEF ExpireLease
<1>5. CASE ExpireClaim
  BY <1>5, AttendedStays DEF ExpireClaim
<1>6. CASE \E here \in {{}} \cup {{h} : h \in Host} : Cancel(here)
  <2>1. PICK here : Cancel(here)
    BY <1>6
  <2>2. \A g \in Host : host'[g].mode = host[g].mode
    BY <1>1, <2>1 DEF Cancel, Executors, HostState
  <2> QED
    BY <2>1, <2>2, AttendedStays DEF Cancel
<1>7. CASE CancelRoot \/ Pause \/ Resume \/ Retry \/ Correct \/ Reconcile
  BY <1>7, AttendedStays
  DEF CancelRoot, Pause, Resume, Retry, Correct, Reconcile, Outside
<1> QED
  BY <1>2, <1>3, <1>4, <1>5, <1>6, <1>7 DEF Next

\* One worker at a time leaves nobody behind.
LEMMA AloneLeavesNobody ==
  ASSUME Attended, Concurrency = 1
  PROVE  NobodyLeft
BY DEF Attended, NobodyLeft, RefuseRun, At

-----------------------------------------------------------------------------
(* One executor of a Task.                                                 *)

\* A host changes Tasks only when it cancels those that wait.
LEMMA HostLedger ==
  ASSUME NEW h \in Host, HostStep(h)
  PROVE  /\ UNCHANGED <<runs, objective, accepted>>
         /\ \/ UNCHANGED tasks
            \/ /\ CancelWaiting(h)
               /\ tasks' = [t \in Task |-> IF t \in Waiting(h) THEN Ended(tasks[t], "cancelled")
                                           ELSE tasks[t]]
<1>1. CASE Execute(h) \/ Refused(h) \/ Delegate(h) \/ Recover(h) \/ Reverify(h)
  BY <1>1, Zenon DEF Execute, Refused, Delegate, Recover, Reverify, ledger, history
<1>2. CASE Await(h) \/ Finish(h) \/ EndReverify(h) \/ Abort(h) \/ LoseClaim(h) \/ Crash(h)
  BY <1>2, Zenon DEF Await, Finish, EndReverify, Abort, LoseClaim, Crash, ledger, history
<1>3. CASE CancelWaiting(h)
  BY <1>3, Zenon DEF CancelWaiting, history
<1> QED
  BY <1>1, <1>2, <1>3 DEF HostStep

\* A host begins a reverification with the stored candidates, loses its workers
\* in a crash, or leaves them alone.
LEMMA HostWorkers ==
  ASSUME Executors, NEW h \in Host, HostStep(h), NEW g \in Host, NEW t \in Task
  PROVE  \/ worker'[g][t] = worker[g][t]
         \/ worker'[g][t] = IdleWorker
         \/ /\ worker'[g][t].pc = "reverifying" /\ worker'[g][t].run = tasks[t].cand
            /\ ~worker'[g][t].aborted /\ UNCHANGED tasks
<1>1. CASE Execute(h) \/ Refused(h) \/ Delegate(h) \/ Recover(h)
  BY <1>1, Zenon DEF Execute, Refused, Delegate, Recover
<1>2. CASE Await(h) \/ Finish(h) \/ EndReverify(h) \/ Abort(h) \/ LoseClaim(h)
  BY <1>2, Zenon DEF Await, Finish, EndReverify, Abort, LoseClaim
<1>3. CASE CancelWaiting(h)
  BY <1>3, Zenon DEF CancelWaiting
<1>4. CASE Reverify(h)
  <2>1. UNCHANGED tasks
    BY <1>4, Zenon DEF Reverify
  <2> QED
    BY <1>4, <2>1, ReverifyWorkers
<1>5. CASE Crash(h)
  BY <1>5, CrashedWorkers
<1> QED
  BY <1>1, <1>2, <1>3, <1>4, <1>5 DEF HostStep

\* The other steps of leases, users and recovery leave the workers alone.
LEMMA OutsideWorkers ==
  ASSUME Next, ~\E h \in Host : HostStep(h), ~\E h \in Host, t \in Task : WorkerStep(h, t)
  PROVE  UNCHANGED <<worker, accepted>>
<1>1. CASE \E r \in Run : ExpireLease(r)
  BY <1>1 DEF ExpireLease, history
<1>2. CASE ExpireClaim
  BY <1>2 DEF ExpireClaim, history
<1>3. CASE \E here \in {{}} \cup {{h} : h \in Host} : Cancel(here)
  BY <1>3, Zenon DEF Cancel
<1>4. CASE CancelRoot \/ Pause \/ Resume \/ Retry \/ Correct \/ Reconcile
  BY <1>4 DEF CancelRoot, Pause, Resume, Retry, Correct, Reconcile, Outside, history
<1> QED
  BY <1>1, <1>2, <1>3, <1>4 DEF Next

\* A worker begins to execute only by recording a Run.
LEMMA BeginsToExecute ==
  ASSUME IInv, NEW h \in Host, NEW t \in Task, WorkerStep(h, t),
         Executing(h, t)', ~Executing(h, t)
  PROVE  \E r \in Run : StartRun(h, t, r)
<1>1. Executors /\ worker'[h][t].pc \in {"executing", "verifying"}
      /\ worker[h][t].pc \notin {"executing", "verifying"}
  BY DEF IInv, Executing
<1>2. ~Returns(h, t)
  BY <1>1, ReturnsIdle DEF IdleWorker
<1>3. \A pc \in Pc : Goes(h, t, To(worker[h][t], pc)) => pc \in {"executing", "verifying"}
  BY <1>1, WorkerRow, ToRow, GoesOn
<1>4. ~FailDependent(h, t) /\ ~Mutate(h, t) /\ ~StillUnavailable(h, t)
  BY <1>1, <1>2 DEF FailDependent, Mutate, StillUnavailable
<1>5. ~Pick(h, t)
  BY <1>1, PickedPc
<1>6. ~MarkRunning(h, t)
  <2>1. MarkRunning(h, t) => Goes(h, t, To(worker[h][t], "marked")) \/ Returns(h, t)
    BY Zenon DEF MarkRunning
  <2> QED
    BY <1>2, <1>3, <2>1 DEF Pc
<1>7. ~RefuseRun(h, t)
  BY <1>1, RefusedWorkers DEF IdleWorker
<1>8. ~Answer(h, t) /\ ~Throw(h, t) /\ ~Accept(h, t) /\ ~Reject(h, t)
  BY <1>1 DEF Answer, Throw, Accept, Reject, At
<1>9. ~Requeue(h, t)
  <2> DEFINE w == [worker[h][t] EXCEPT !.pc = "requeued", !.run = None,
                                       !.attempt = worker[h][t].attempt + 1]
  <2>1. w.pc = "requeued"
    BY <1>1, WorkerRow DEF WorkerState
  <2>2. Requeue(h, t) => Goes(h, t, w) \/ Returns(h, t)
    BY DEF Requeue
  <2> HIDE DEF w
  <2> QED
    BY <1>1, <1>2, <2>1, <2>2, GoesOn
<1>10. ~Catch(h, t)
  <2> DEFINE closing(end) == [worker[h][t] EXCEPT !.pc = "closing", !.end = end]
  <2>1. \A end : closing(end).pc = "closing"
    BY <1>1, WorkerRow DEF WorkerState
  <2> HIDE DEF closing
  <2>2. Catch(h, t) => \E end \in {"failed", "succeeded",
                                   IF host[h].aborted THEN "cancelled" ELSE "failed"} :
                         Goes(h, t, closing(end))
    BY Zenon DEF Catch, closing
  <2> QED
    BY <1>1, <2>1, <2>2, GoesOn
<1>11. ~CloseRun(h, t) /\ \A ok \in BOOLEAN : ~Judge(h, t, ok)
  BY <1>2 DEF CloseRun, Judge
<1>12. ~LoseLease(h, t)
  BY <1>1 DEF LoseLease
<1> QED
  BY <1>4, <1>5, <1>6, <1>7, <1>8, <1>9, <1>10, <1>11, <1>12 DEF WorkerStep

\* No step lets a second host execute a Task.
LEMMA OneExecutorStep ==
  ASSUME IInv, Claimed, Attended, OneExecutor, Next
  PROVE  OneExecutor'
<1>1. Executors
  BY DEF IInv
<1>2. ASSUME NEW h \in Host, HostStep(h) PROVE OneExecutor'
  <2>1. \A g \in Host, t \in Task : Executing(g, t)' => Executing(g, t)
    BY <1>1, <1>2, HostWorkers DEF Executing, IdleWorker
  <2> QED
    BY <2>1 DEF OneExecutor
<1>3. ASSUME NEW h \in Host, NEW t \in Task, WorkerStep(h, t) PROVE OneExecutor'
  <2>1. \A g \in Host, u \in Task : g # h \/ u # t => worker'[g][u] = worker[g][u]
    BY <1>1, <1>3, WorkerSteady, PickedPc, RefusedWorkers DEF Steady
  <2>2. CASE Executing(h, t)' => Executing(h, t)
    <3>1. \A g \in Host, u \in Task : Executing(g, u)' => Executing(g, u)
      BY <2>1, <2>2 DEF Executing
    <3> QED
      BY <3>1 DEF OneExecutor
  <2>3. CASE Executing(h, t)' /\ ~Executing(h, t)
    <3>0. PICK r \in Run : StartRun(h, t, r)
      BY <1>3, <2>3, BeginsToExecute
    <3>1. worker[h][t].pc = "marked" /\ objective = "running"
      BY <3>0, Zenon DEF StartRun, At, LineageActive
    <3>2. \A g \in Host : Executing(g, t) => g = h
      BY <3>1, OneClaimant DEF Attended, Executing
    <3> QED
      BY <2>1, <3>2 DEF OneExecutor, Executing
  <2> QED
    BY <2>2, <2>3
<1>4. CASE (~\E h \in Host : HostStep(h)) /\ ~\E h \in Host, t \in Task : WorkerStep(h, t)
  BY <1>4, OutsideWorkers DEF OneExecutor, Executing
<1> QED
  BY <1>2, <1>3, <1>4

-----------------------------------------------------------------------------
(* Nothing is repeated.  While nobody cancels or retries, a Task that is to  *)
(* start over has no Run that still runs, unless it keeps a candidate; and a *)
(* Task that is executed has its Run, with its lease.                        *)

RunsOf(t) == {r \in Run : runs[r].status = "running" /\ runs[r].task = t}

TaskGuarded(t) ==
  /\ tasks[t].cand # None => t \in Criteria
  /\ t \in Criteria /\ tasks[t].status = "running"
       => tasks[t].verif \in {"pending", "unavailable"}
  /\ tasks[t].status \in Live /\ tasks[t].cand = None =>
       /\ \A r, s \in RunsOf(t) : r = s
       /\ tasks[t].status = "pending" => RunsOf(t) = {}

WorkerGuarded(h, t) ==
  LET w == worker[h][t]
  IN /\ ~w.aborted
     /\ \/ w.pc \in {"verifying", "rejected", "requeued"}
        \/ w.pc = "catching" /\ w.end = "succeeded"
        => t \in Criteria
     /\ w.pc \in {"picked", "requeued"} => tasks[t].status # "running" \/ tasks[t].cand # None
     /\ w.pc = "marked" =>
          tasks[t].status = "running" /\ (tasks[t].cand # None \/ RunsOf(t) = {})
     /\ w.pc \in {"executing", "verifying", "catching"} =>
          tasks[t].status = "running" /\ Held(w.run)
     /\ w.pc \in {"executing", "verifying", "rejected", "catching", "closing"} =>
          runs[w.run].status # "absent" /\ runs[w.run].task = t

Supervised ==
  /\ objective = "running"
  /\ \A t \in Task : TaskGuarded(t)
  /\ \A h \in Host, t \in Task : WorkerGuarded(h, t)

\* Only this Task and its Runs change.
Local(t) ==
  /\ \A u \in Task \ {t} : tasks'[u] = tasks[u]
  /\ \A r \in Run : \/ runs'[r] = runs[r]
                    \/ /\ runs'[r].task = t
                       /\ runs[r].status = "absent" \/ runs[r].task = t

\* The step of a worker is judged by its own Task.
LEMMA LocalStep ==
  ASSUME IInv, Claimed, Attended, Supervised, NEW h \in Host, NEW t \in Task,
         Local(t), UNCHANGED objective, host[h].mode # "idle",
         \A g \in Host, u \in Task : g # h \/ u # t => worker'[g][u] = worker[g][u],
         TaskGuarded(t)', WorkerGuarded(h, t)'
  PROVE  Supervised'
<1>1. ASSUME NEW u \in Task, u # t
      PROVE  RunsOf(u)' = RunsOf(u) /\ tasks'[u] = tasks[u]
  BY <1>1 DEF Local, RunsOf
<1>2. ASSUME NEW u \in Task PROVE TaskGuarded(u)'
  <2>1. CASE u = t
    BY <2>1
  <2>2. CASE u # t
    BY <1>1, <2>2 DEF TaskGuarded, Supervised
  <2> QED
    BY <2>1, <2>2
<1>3. ASSUME NEW g \in Host, NEW u \in Task PROVE WorkerGuarded(g, u)'
  <2>1. CASE g = h /\ u = t
    BY <2>1
  <2>2. CASE g # h /\ u = t
    <3>1. worker[g][u].pc = "idle" /\ ~worker[g][u].aborted /\ worker'[g][u] = worker[g][u]
      BY <2>2, OneClaimant DEF Attended, Supervised, WorkerGuarded
    <3> QED
      BY <3>1 DEF WorkerGuarded
  <2>3. CASE u # t
    <3>1. worker'[g][u] = worker[g][u] /\ WorkerGuarded(g, u)
      BY <2>3 DEF Supervised
    <3>2. RunsOf(u)' = RunsOf(u) /\ tasks'[u] = tasks[u]
      BY <1>1, <2>3
    <3>3. worker[g][u].pc \in {"executing", "verifying", "rejected", "catching", "closing"}
            => runs'[worker[g][u].run] = runs[worker[g][u].run]
      <4> SUFFICES ASSUME worker[g][u].pc \in
                     {"executing", "verifying", "rejected", "catching", "closing"}
                   PROVE  runs'[worker[g][u].run] = runs[worker[g][u].run]
        OBVIOUS
      <4>1. worker[g][u].run \in Run
        BY WorkerRow DEF IInv, RightWorker, WithRun
      <4> QED
        BY <2>3, <3>1, <4>1 DEF Local, WorkerGuarded
    <3> QED
      BY <3>1, <3>2, <3>3 DEF WorkerGuarded, Held
  <2> QED
    BY <2>1, <2>2, <2>3
<1> QED
  BY <1>2, <1>3 DEF Supervised

\* A Task whose row and Runs stay.
LEMMA TaskStays ==
  ASSUME NEW t \in Task, TaskGuarded(t), UNCHANGED runs, tasks'[t] = tasks[t]
  PROVE  TaskGuarded(t)'
BY DEF TaskGuarded, RunsOf

\* An idle worker.
LEMMA IdleGuarded ==
  ASSUME NEW h \in Host, NEW t \in Task, worker'[h][t] = IdleWorker
  PROVE  WorkerGuarded(h, t)'
BY DEF WorkerGuarded, IdleWorker

\* transition() writes one row.
LEMMA TransitionRow ==
  ASSUME LedgerTypeOK, NEW t \in Task, NEW to, NEW verif, NEW cand, NEW attempts,
         Transition(t, to, verif, cand, attempts)
  PROVE  /\ UNCHANGED <<runs, plan, claim, objective>>
         /\ Local(t)
         /\ ~MayTransition(t, to) => UNCHANGED tasks
         /\ MayTransition(t, to) =>
              /\ tasks'[t].status = to /\ tasks'[t].verif = verif /\ tasks'[t].cand = cand
              /\ tasks[t].status \in Live
BY DEF Transition, Moved, LedgerTypeOK, Local, MayTransition, Live

\* transitionRun() writes one Run.
LEMMA TransitionRunRow ==
  ASSUME LedgerTypeOK, NEW t \in Task, NEW r \in Run, NEW to \in Terminal,
         runs[r].task = t, TransitionRun(r, to)
  PROVE  /\ UNCHANGED <<tasks, plan, claim, objective>>
         /\ Local(t)
         /\ RunsOf(t)' \subseteq RunsOf(t)
         /\ runs'[r].task = t
         /\ runs'[r].status = "absent" => runs[r].status = "absent"
<1>1. runs[r] \in RunRow
  BY DEF LedgerTypeOK
<1>2. /\ UNCHANGED <<tasks, plan, claim, objective>>
      /\ runs' = runs \/ runs' = [runs EXCEPT ![r].status = to]
  BY DEF TransitionRun
<1>3. CASE runs' = runs
  BY <1>2, <1>3 DEF Local, RunsOf
<1>4. CASE runs' = [runs EXCEPT ![r].status = to]
  <2>1. runs'[r].status = to /\ runs'[r].task = t /\ to # "absent" /\ to # "running"
    BY <1>1, <1>4 DEF LedgerTypeOK, RunRow, Terminal
  <2>2. \A s \in Run : s # r => runs'[s] = runs[s]
    BY <1>4 DEF LedgerTypeOK
  <2> QED
    BY <1>2, <2>1, <2>2 DEF Local, RunsOf
<1> QED
  BY <1>2, <1>3, <1>4

\* What a step of worker t leaves guarded.
Guarded(h, t) ==
  Local(t) /\ UNCHANGED objective /\ TaskGuarded(t)' /\ WorkerGuarded(h, t)'

\* A Task that keeps its row, and no Run of which begins.
LEMMA FewerRuns ==
  ASSUME NEW t \in Task, TaskGuarded(t), tasks'[t] = tasks[t], RunsOf(t)' \subseteq RunsOf(t)
  PROVE  TaskGuarded(t)'
BY DEF TaskGuarded

\* A row that keeps no Run from being started.
LEMMA NewRow ==
  ASSUME NEW t \in Task, UNCHANGED runs,
         tasks'[t].cand # None => t \in Criteria,
         t \in Criteria /\ tasks'[t].status = "running"
           => tasks'[t].verif \in {"pending", "unavailable"},
         tasks'[t].status \in Live => tasks'[t].cand # None
  PROVE  TaskGuarded(t)'
BY DEF TaskGuarded

\* A Task has one route.
LEMMA NoNextRoute ==
  ASSUME IInv, Undisturbed, NEW t \in Task
  PROVE  ~HasNextRoute(t)
<1>1. tasks[t].route \in Nat /\ Routes[t] = 1
  BY DEF IInv, LedgerTypeOK, TaskRow, Undisturbed
<1> QED
  BY <1>1 DEF HasNextRoute

\* FailDependent leaves its Task guarded.
LEMMA FailDependentGuarded ==
  ASSUME IInv, Supervised, NEW h \in Host, NEW t \in Task, FailDependent(h, t)
  PROVE  Guarded(h, t)
<1>1. /\ tasks[t].status = "pending"
      /\ Transition(t, "failed", tasks[t].verif, tasks[t].cand, tasks[t].attempts)
      /\ UNCHANGED worker
  BY DEF FailDependent, Waiting
<1>2. /\ UNCHANGED <<runs, objective>> /\ Local(t)
      /\ tasks'[t].status = "failed" /\ tasks'[t].cand = tasks[t].cand
  BY <1>1, TransitionRow DEF IInv, MayTransition, Live
<1>3. TaskGuarded(t) /\ WorkerGuarded(h, t)
  BY DEF Supervised
<1>4. TaskGuarded(t)'
  BY <1>2, <1>3, NewRow DEF TaskGuarded, Live
<1>5. WorkerGuarded(h, t)'
  BY <1>1, <1>2, <1>3 DEF WorkerGuarded
<1> QED
  BY <1>2, <1>4, <1>5 DEF Guarded

\* Pick leaves its Task guarded.
LEMMA PickGuarded ==
  ASSUME IInv, Supervised, NEW h \in Host, NEW t \in Task, Pick(h, t)
  PROVE  Guarded(h, t)
<1>1. /\ UNCHANGED <<tasks, runs, objective>> /\ tasks[t].status = "pending"
      /\ worker'[h][t].pc = "picked"
  BY PickedPc DEF IInv
<1>2. ~worker'[h][t].aborted
  <2> DEFINE w == [IdleWorker EXCEPT !.pc = "picked", !.attempt = FirstAttempt(t),
                                     !.budget = BudgetOf(h)]
  <2>1. ~w.aborted
    BY DEF IdleWorker
  <2>2. Goes(h, t, w)
    BY DEF Pick
  <2> HIDE DEF w
  <2> QED
    BY <2>1, <2>2, GoesOn DEF IInv
<1>3. TaskGuarded(t)'
  BY <1>1, TaskStays DEF Supervised
<1>4. WorkerGuarded(h, t)'
  BY <1>1, <1>2 DEF WorkerGuarded
<1> QED
  BY <1>1, <1>3, <1>4 DEF Guarded, Local

\* MarkRunning leaves its Task guarded: no Run of it still runs, or its
\* candidate is kept.
LEMMA MarkRunningGuarded ==
  ASSUME IInv, Supervised, NEW h \in Host, NEW t \in Task, MarkRunning(h, t)
  PROVE  Guarded(h, t)
<1> DEFINE old == worker[h][t]
           exhausted == old.attempt > old.budget + 1
           to == IF exhausted THEN "failed" ELSE "running"
           verif == IF exhausted THEN "rejected" ELSE Fresh(t)
           attempts == IF At(h, t, "requeued") THEN Corrections(h, t) ELSE tasks[t].attempts
<1>1. /\ old.pc \in {"picked", "requeued"}
      /\ Transition(t, to, verif, tasks[t].cand, attempts)
      /\ IF MayTransition(t, to) /\ ~exhausted
         THEN Goes(h, t, To(old, "marked")) ELSE Returns(h, t)
  BY DEF MarkRunning
<1>2. TaskGuarded(t) /\ WorkerGuarded(h, t) /\ old \in WorkerState /\ Executors
  BY WorkerRow DEF Supervised, IInv
<1> HIDE DEF attempts
<1>3. UNCHANGED <<runs, objective>> /\ Local(t)
  BY <1>1, TransitionRow DEF IInv
<1>4. CASE MayTransition(t, to) /\ ~exhausted
  <2>1. /\ tasks'[t].status = "running" /\ tasks'[t].verif = Fresh(t)
        /\ tasks'[t].cand = tasks[t].cand /\ tasks[t].status \in Live
    BY <1>1, <1>4, TransitionRow DEF IInv
  <2>2. worker'[h][t].pc = "marked" /\ worker'[h][t].aborted = old.aborted
    BY <1>1, <1>2, <1>4, GoesOn DEF To, WorkerState
  <2>3. tasks[t].cand # None \/ RunsOf(t) = {}
    BY <1>1, <1>2, <2>1 DEF WorkerGuarded, TaskGuarded, Live
  <2>4. RunsOf(t)' = RunsOf(t)
    BY <1>3 DEF RunsOf
  <2>5. TaskGuarded(t)'
    BY <1>2, <2>1, <2>3, <2>4 DEF TaskGuarded, Fresh
  <2>6. WorkerGuarded(h, t)'
    BY <1>2, <2>1, <2>2, <2>3, <2>4 DEF WorkerGuarded
  <2> QED
    BY <1>3, <2>5, <2>6 DEF Guarded
<1>5. CASE ~(MayTransition(t, to) /\ ~exhausted)
  <2>1. WorkerGuarded(h, t)'
    BY <1>1, <1>2, <1>5, ReturnsIdle, IdleGuarded
  <2>2. CASE MayTransition(t, to)
    <3>1. tasks'[t].status = "failed" /\ tasks'[t].cand = tasks[t].cand
      BY <1>1, <1>5, <2>2, TransitionRow DEF IInv
    <3> QED
      BY <1>2, <1>3, <2>1, <3>1, NewRow DEF Guarded, TaskGuarded, Live
  <2>3. CASE ~MayTransition(t, to)
    <3>1. UNCHANGED tasks
      BY <1>1, <2>3, TransitionRow DEF IInv
    <3> QED
      BY <1>2, <1>3, <2>1, <3>1, TaskStays DEF Guarded
  <2> QED
    BY <2>2, <2>3
<1> QED
  BY <1>4, <1>5

\* StartRun leaves its Task guarded: its Run is the only one, or the candidate
\* is kept.
LEMMA StartRunGuarded ==
  ASSUME IInv, Supervised, NEW h \in Host, NEW t \in Task, NEW r \in Run, StartRun(h, t, r)
  PROVE  Guarded(h, t)
<1> DEFINE w == [worker[h][t] EXCEPT !.pc = "executing", !.run = r]
           row == [status |-> "running", task |-> t, live |-> TRUE,
                   cancelRequested |-> FALSE, mutated |-> FALSE]
<1>1. /\ worker[h][t].pc = "marked" /\ runs[r].status = "absent"
      /\ runs' = [runs EXCEPT ![r] = row] /\ UNCHANGED <<tasks, objective>>
      /\ Goes(h, t, w)
  BY DEF StartRun, RecordRun, At
<1>2. TaskGuarded(t) /\ WorkerGuarded(h, t) /\ worker[h][t] \in WorkerState /\ Executors
      /\ runs \in [Run -> RunRow]
  BY WorkerRow DEF Supervised, IInv, LedgerTypeOK
<1>3. w.pc = "executing" /\ w.run = r /\ ~w.aborted
  BY <1>1, <1>2 DEF WorkerState, WorkerGuarded
<1> HIDE DEF w
<1>4. worker'[h][t] = w
  BY <1>1, <1>2, GoesOn
<1>5. runs'[r] = row /\ \A s \in Run : s # r => runs'[s] = runs[s]
  BY <1>1, <1>2
<1>6. RunsOf(t)' = RunsOf(t) \cup {r}
  BY <1>1, <1>5 DEF RunsOf
<1>7. tasks[t].status = "running" /\ (tasks[t].cand # None \/ RunsOf(t) = {})
  BY <1>1, <1>2 DEF WorkerGuarded
<1>8. TaskGuarded(t)'
  BY <1>1, <1>2, <1>6, <1>7 DEF TaskGuarded
<1>9. WorkerGuarded(h, t)'
  BY <1>1, <1>3, <1>4, <1>5, <1>7 DEF WorkerGuarded, Held
<1>10. Local(t)
  BY <1>1, <1>5 DEF Local
<1> QED
  BY <1>1, <1>8, <1>9, <1>10 DEF Guarded

\* No Run is refused.
LEMMA NeverRefused ==
  ASSUME Supervised, NEW h \in Host, NEW t \in Task
  PROVE  ~RefuseRun(h, t)
<1>1. WorkerGuarded(h, t) /\ objective = "running"
  BY DEF Supervised
<1>2. worker[h][t].pc = "marked" => LineageActive(t)
  BY <1>1 DEF WorkerGuarded, LineageActive, Live
<1> QED
  BY <1>2, Zenon DEF RefuseRun, At

\* Mutate leaves its Task guarded.
LEMMA MutateGuarded ==
  ASSUME IInv, Supervised, NEW h \in Host, NEW t \in Task, Mutate(h, t)
  PROVE  Guarded(h, t)
<1> DEFINE r == worker[h][t].run
           row == [runs[r] EXCEPT !.mutated = TRUE]
<1>1. /\ worker[h][t].pc = "executing" /\ UNCHANGED <<tasks, objective, worker>>
      /\ runs' = [runs EXCEPT ![r] = row]
  BY DEF Mutate, At
<1>2. r \in Run /\ runs[r] \in RunRow /\ runs \in [Run -> RunRow]
  BY <1>1, WorkerRow DEF IInv, RightWorker, WithRun, LedgerTypeOK
<1> HIDE DEF r
<1>3. /\ row.status = runs[r].status /\ row.task = runs[r].task /\ row.live = runs[r].live
      /\ row.cancelRequested = runs[r].cancelRequested
  BY <1>2 DEF RunRow
<1> HIDE DEF row
<1>4. /\ runs'[r] = row /\ \A s \in Run : s # r => runs'[s] = runs[s]
  BY <1>1, <1>2
<1>5. TaskGuarded(t) /\ WorkerGuarded(h, t)
  BY DEF Supervised
<1>6. RunsOf(t)' = RunsOf(t)
  BY <1>3, <1>4 DEF RunsOf
<1>7. TaskGuarded(t)'
  BY <1>1, <1>5, <1>6 DEF TaskGuarded
<1>8. runs[r].task = t /\ Held(r) /\ tasks[t].status = "running"
  BY <1>1, <1>5 DEF WorkerGuarded, r
<1>9. /\ runs'[r].status = "running" /\ runs'[r].live /\ ~runs'[r].cancelRequested
      /\ runs'[r].task = t
  BY <1>3, <1>4, <1>8 DEF Held
<1>10. WorkerGuarded(h, t)'
  BY <1>1, <1>5, <1>8, <1>9 DEF WorkerGuarded, Held, r
<1>11. Local(t)
  BY <1>1, <1>4, <1>8, <1>9 DEF Local
<1> QED
  BY <1>1, <1>7, <1>10, <1>11 DEF Guarded

\* The executor or the verifier failed: its worker still has its Run.
LEMMA CatchesGuarded ==
  ASSUME IInv, Supervised, NEW h \in Host, NEW t \in Task, NEW unavailable \in BOOLEAN,
         worker[h][t].pc \in {"executing", "verifying"},
         unavailable => worker[h][t].pc = "verifying",
         Catches(h, t, unavailable), UNCHANGED <<tasks, runs, objective>>
  PROVE  Guarded(h, t)
<1> DEFINE w == [worker[h][t] EXCEPT !.pc = "catching",
                   !.end = IF unavailable THEN "succeeded" ELSE "failed"]
<1>1. /\ TaskGuarded(t) /\ WorkerGuarded(h, t) /\ worker[h][t] \in WorkerState /\ Executors
  BY WorkerRow DEF Supervised, IInv
<1>2. /\ w.pc = "catching" /\ w.run = worker[h][t].run /\ w.aborted = worker[h][t].aborted
      /\ w.end = "succeeded" => unavailable
  BY <1>1 DEF WorkerState
<1>3. Goes(h, t, w)
  BY DEF Catches
<1> HIDE DEF w
<1>4. worker'[h][t] = w
  BY <1>1, <1>3, GoesOn
<1>5. TaskGuarded(t)'
  BY <1>1, TaskStays
<1>6. WorkerGuarded(h, t)'
  BY <1>1, <1>2, <1>4 DEF WorkerGuarded, Held
<1> QED
  BY <1>5, <1>6 DEF Guarded, Local

\* A settlement is not refused: Task and Run succeed.
LEMMA SettlesGuarded ==
  ASSUME IInv, Supervised, NEW h \in Host, NEW t \in Task,
         worker[h][t].pc \in {"executing", "verifying"}, Settles(h, t)
  PROVE  Guarded(h, t) /\ tasks'[t].status = "succeeded"
<1> DEFINE r == worker[h][t].run
           new == Succeeded(tasks[t], IF t \in Criteria THEN "accepted" ELSE "none", r)
           row == [runs[r] EXCEPT !.status = "succeeded"]
<1>1. /\ TaskGuarded(t) /\ WorkerGuarded(h, t) /\ Executors /\ objective = "running"
      /\ tasks \in [Task -> TaskRow] /\ runs \in [Run -> RunRow]
  BY DEF Supervised, IInv, LedgerTypeOK
<1>2. r \in Run /\ runs[r] \in RunRow
  BY <1>1, WorkerRow DEF RightWorker, WithRun
<1>3. MaySettle(r, t) /\ runs[r].task = t
  BY <1>1 DEF WorkerGuarded, MaySettle
<1>4. SettleTaskRunAndTask(r, t) /\ Returns(h, t)
  BY <1>3 DEF Settles
<1>5. runs' = [runs EXCEPT ![r] = row] /\ tasks' = [tasks EXCEPT ![t] = new]
      /\ UNCHANGED objective
  BY <1>4 DEF SettleTaskRunAndTask
<1>6. new.status = "succeeded" /\ new.cand = None
  BY DEF Succeeded
<1> HIDE DEF r, new
<1>7. row.status = "succeeded" /\ row.task = t
  BY <1>2, <1>3 DEF RunRow
<1> HIDE DEF row
<1>8. /\ tasks'[t] = new /\ \A u \in Task \ {t} : tasks'[u] = tasks[u]
      /\ runs'[r] = row /\ \A s \in Run : s # r => runs'[s] = runs[s]
  BY <1>1, <1>2, <1>5
<1>9. TaskGuarded(t)'
  BY <1>6, <1>8 DEF TaskGuarded, Live
<1>10. WorkerGuarded(h, t)'
  BY <1>1, <1>4, ReturnsIdle, IdleGuarded
<1>11. Local(t)
  BY <1>3, <1>7, <1>8 DEF Local
<1> QED
  BY <1>5, <1>6, <1>8, <1>9, <1>10, <1>11 DEF Guarded

\* Answer leaves its Task guarded: its output becomes the candidate.
LEMMA AnswerGuarded ==
  ASSUME IInv, Supervised, NEW h \in Host, NEW t \in Task, Answer(h, t)
  PROVE  Guarded(h, t)
<1>1. worker[h][t].pc = "executing"
  BY DEF Answer, At
<1>2. CASE Aborted(h, t)
  BY <1>1, <1>2, CatchesGuarded DEF Answer, ledger
<1>3. CASE ~Aborted(h, t) /\ t \notin Criteria
  BY <1>1, <1>3, SettlesGuarded DEF Answer
<1>4. CASE ~Aborted(h, t) /\ t \in Criteria
  <2>1. /\ TaskGuarded(t) /\ WorkerGuarded(h, t) /\ worker[h][t] \in WorkerState /\ Executors
        /\ worker[h][t].run \in Run
    BY <1>1, WorkerRow DEF Supervised, IInv, RightWorker, WithRun
  <2>2. MayTransition(t, "running")
    BY <1>1, <2>1 DEF WorkerGuarded, MayTransition, Live
  <2>3. /\ Transition(t, "running", "pending", worker[h][t].run, Corrections(h, t))
        /\ Goes(h, t, To(worker[h][t], "verifying"))
    BY <1>4, <2>2 DEF Answer
  <2>4. /\ UNCHANGED <<runs, objective>> /\ Local(t)
        /\ tasks'[t].status = "running" /\ tasks'[t].verif = "pending"
        /\ tasks'[t].cand = worker[h][t].run
    BY <2>2, <2>3, TransitionRow DEF IInv
  <2>5. worker'[h][t].pc = "verifying" /\ worker'[h][t].run = worker[h][t].run
        /\ worker'[h][t].aborted = worker[h][t].aborted
    BY <2>1, <2>3, GoesOn DEF To, WorkerState
  <2>6. TaskGuarded(t)'
    BY <1>4, <2>1, <2>4, NewRow, NoneAssumption
  <2>7. WorkerGuarded(h, t)'
    BY <1>1, <1>4, <2>1, <2>4, <2>5 DEF WorkerGuarded, Held
  <2> QED
    BY <2>4, <2>6, <2>7 DEF Guarded
<1> QED
  BY <1>2, <1>3, <1>4

\* Throw leaves its Task guarded.
LEMMA ThrowGuarded ==
  ASSUME IInv, Supervised, NEW h \in Host, NEW t \in Task, Throw(h, t)
  PROVE  Guarded(h, t)
<1> DEFINE unavailable == At(h, t, "verifying") /\ ~Aborted(h, t)
<1>1. /\ worker[h][t].pc \in {"executing", "verifying"}
      /\ Catches(h, t, unavailable) /\ UNCHANGED <<tasks, runs, objective>>
  BY DEF Throw, ledger
<1>2. unavailable \in BOOLEAN /\ (unavailable => worker[h][t].pc = "verifying")
  BY DEF At
<1> HIDE DEF unavailable
<1> QED
  BY <1>1, <1>2, CatchesGuarded

\* Accept leaves its Task guarded.
LEMMA AcceptGuarded ==
  ASSUME IInv, Supervised, NEW h \in Host, NEW t \in Task, Accept(h, t)
  PROVE  Guarded(h, t)
BY CatchesGuarded, SettlesGuarded DEF Accept, At, ledger

\* Reject leaves its Task guarded: its Run ends.
LEMMA RejectGuarded ==
  ASSUME IInv, Supervised, NEW h \in Host, NEW t \in Task, Reject(h, t)
  PROVE  Guarded(h, t)
<1> DEFINE r == worker[h][t].run
<1>1. /\ worker[h][t].pc = "verifying" /\ TransitionRun(r, "failed")
      /\ Goes(h, t, To(worker[h][t], "rejected")) \/ Returns(h, t)
  BY DEF Reject, At
<1>2. /\ TaskGuarded(t) /\ WorkerGuarded(h, t) /\ worker[h][t] \in WorkerState /\ Executors
      /\ r \in Run
  BY <1>1, WorkerRow DEF Supervised, IInv, RightWorker, WithRun
<1>3. runs[r].task = t /\ runs[r].status # "absent"
  BY <1>1, <1>2 DEF WorkerGuarded
<1> HIDE DEF r
<1>4. /\ UNCHANGED <<tasks, objective>> /\ Local(t) /\ RunsOf(t)' \subseteq RunsOf(t)
      /\ runs'[r].task = t /\ runs'[r].status # "absent"
  BY <1>1, <1>2, <1>3, TransitionRunRow DEF IInv, Terminal
<1>5. TaskGuarded(t)'
  BY <1>2, <1>4, FewerRuns
<1>6. WorkerGuarded(h, t)'
  <2>1. CASE Goes(h, t, To(worker[h][t], "rejected"))
    <3>1. worker'[h][t].pc = "rejected" /\ worker'[h][t].run = r
          /\ worker'[h][t].aborted = worker[h][t].aborted
      BY <1>2, <2>1, GoesOn DEF To, WorkerState, r
    <3> QED
      BY <1>1, <1>2, <1>4, <3>1 DEF WorkerGuarded
  <2>2. CASE Returns(h, t)
    BY <1>2, <2>2, ReturnsIdle, IdleGuarded
  <2> QED
    BY <1>1, <2>1, <2>2
<1> QED
  BY <1>4, <1>5, <1>6 DEF Guarded

\* Requeue leaves its Task guarded: the rejected output is kept.
LEMMA RequeueGuarded ==
  ASSUME IInv, Undisturbed, Supervised, NEW h \in Host, NEW t \in Task, Requeue(h, t)
  PROVE  Guarded(h, t)
<1> DEFINE old == worker[h][t]
           w == [old EXCEPT !.pc = "requeued", !.run = None, !.attempt = old.attempt + 1]
<1>1. /\ TaskGuarded(t) /\ WorkerGuarded(h, t) /\ old \in WorkerState /\ Executors
      /\ old.pc = "rejected" /\ old.run \in Run
  BY WorkerRow DEF Supervised, IInv, Requeue, At, RightWorker, WithRun
<1>2. t \in Criteria /\ ~old.aborted
  BY <1>1 DEF WorkerGuarded
<1>3. w.pc = "requeued" /\ ~w.aborted
  BY <1>1, <1>2 DEF WorkerState
<1>4. \E to \in {"pending", "failed"} :
        /\ Transition(t, to, "rejected", old.run, Corrections(h, t))
        /\ \/ to = "pending" /\ MayTransition(t, to) /\ Goes(h, t, w)
           \/ Returns(h, t)
  BY NoNextRoute DEF Requeue
<1>5. PICK to \in {"pending", "failed"} :
        /\ Transition(t, to, "rejected", old.run, Corrections(h, t))
        /\ \/ to = "pending" /\ MayTransition(t, to) /\ Goes(h, t, w)
           \/ Returns(h, t)
  BY <1>4
<1> HIDE DEF w
<1>6. /\ UNCHANGED <<runs, objective>> /\ Local(t)
      /\ ~MayTransition(t, to) => UNCHANGED tasks
      /\ MayTransition(t, to) => tasks'[t].status = to /\ tasks'[t].cand = old.run
  BY <1>5, TransitionRow DEF IInv
<1>7. TaskGuarded(t)'
  <2>1. CASE MayTransition(t, to)
    BY <1>1, <1>2, <1>5, <1>6, <2>1, NewRow, NoneAssumption
  <2>2. CASE ~MayTransition(t, to)
    BY <1>1, <1>6, <2>2, TaskStays
  <2> QED
    BY <2>1, <2>2
<1>8. WorkerGuarded(h, t)'
  <2>1. CASE to = "pending" /\ MayTransition(t, to) /\ Goes(h, t, w)
    <3>1. worker'[h][t] = w
      BY <1>1, <2>1, GoesOn
    <3> QED
      BY <1>2, <1>3, <1>6, <2>1, <3>1 DEF WorkerGuarded
  <2>2. CASE Returns(h, t)
    BY <1>1, <2>2, ReturnsIdle, IdleGuarded
  <2> QED
    BY <1>5, <2>1, <2>2
<1> QED
  BY <1>6, <1>7, <1>8 DEF Guarded

\* Catch leaves its Task guarded, and ends it unless its verdict is missing.
LEMMA CatchGuarded ==
  ASSUME IInv, Undisturbed, Supervised, NEW h \in Host, NEW t \in Task, Catch(h, t)
  PROVE  /\ Guarded(h, t)
         /\ host[h].aborted => tasks'[t].status = "cancelled"
<1> DEFINE old == worker[h][t]
           to == IF host[h].aborted THEN "cancelled" ELSE "failed"
           closing(end) == [old EXCEPT !.pc = "closing", !.end = end]
           attempts == IF t \in Criteria THEN Corrections(h, t) ELSE tasks[t].attempts
<1>1. /\ TaskGuarded(t) /\ WorkerGuarded(h, t) /\ old \in WorkerState /\ Executors
      /\ old.pc = "catching" /\ old.run \in Run
  BY WorkerRow DEF Supervised, IInv, Catch, At, RightWorker, WithRun
<1>2. /\ ~old.aborted /\ tasks[t].status = "running"
      /\ runs[old.run].task = t /\ runs[old.run].status # "absent"
      /\ old.end = "succeeded" => t \in Criteria
  BY <1>1 DEF WorkerGuarded
<1>3. PICK end : Goes(h, t, closing(end))
  <2> HIDE DEF closing
  <2>1. \E end \in {"failed", "succeeded", to} : Goes(h, t, closing(end))
    BY Zenon DEF Catch, closing
  <2> QED
    BY <2>1
<1>4. \/ /\ old.end = "succeeded" /\ ~host[h].aborted
         /\ Transition(t, "running", "unavailable", old.run, attempts)
      \/ Transition(t, to, tasks[t].verif, tasks[t].cand, attempts)
  BY NoNextRoute DEF Catch
<1> HIDE DEF attempts
<1>6. /\ closing(end).pc = "closing" /\ closing(end).run = old.run
      /\ closing(end).aborted = old.aborted
  BY <1>1 DEF WorkerState
<1> HIDE DEF closing
<1>7. worker'[h][t] = closing(end)
  BY <1>1, <1>3, GoesOn
<1>8. UNCHANGED <<runs, objective>> /\ Local(t)
  BY <1>4, TransitionRow DEF IInv
<1>9. WorkerGuarded(h, t)'
  BY <1>2, <1>6, <1>7, <1>8 DEF WorkerGuarded
<1>10. TaskGuarded(t)' /\ (host[h].aborted => tasks'[t].status = "cancelled")
  <2>1. CASE /\ old.end = "succeeded" /\ ~host[h].aborted
             /\ Transition(t, "running", "unavailable", old.run, attempts)
    <3>1. tasks'[t].status = "running" /\ tasks'[t].verif = "unavailable"
          /\ tasks'[t].cand = old.run
      BY <1>2, <2>1, TransitionRow DEF IInv, MayTransition, Live
    <3> QED
      BY <1>1, <1>2, <1>8, <2>1, <3>1, NewRow, NoneAssumption
  <2>2. CASE Transition(t, to, tasks[t].verif, tasks[t].cand, attempts)
    <3>1. tasks'[t].status = to /\ tasks'[t].cand = tasks[t].cand
      BY <1>2, <2>2, TransitionRow DEF IInv, MayTransition, Live
    <3> QED
      BY <1>1, <1>8, <3>1, NewRow DEF TaskGuarded, Live
  <2> QED
    BY <1>4, <2>1, <2>2
<1> QED
  BY <1>8, <1>9, <1>10 DEF Guarded

\* CloseRun leaves its Task guarded.
LEMMA CloseRunGuarded ==
  ASSUME IInv, Supervised, NEW h \in Host, NEW t \in Task, CloseRun(h, t)
  PROVE  Guarded(h, t) /\ UNCHANGED tasks
<1>1. /\ worker[h][t].pc = "closing" /\ Returns(h, t)
      /\ TransitionRun(worker[h][t].run, worker[h][t].end)
  BY DEF CloseRun, At
<1>2. /\ TaskGuarded(t) /\ WorkerGuarded(h, t) /\ Executors
      /\ worker[h][t].run \in Run /\ worker[h][t].end \in Terminal
  BY <1>1, WorkerRow DEF Supervised, IInv, RightWorker, WithRun, WorkerState
<1>3. runs[worker[h][t].run].task = t
  BY <1>1, <1>2 DEF WorkerGuarded
<1>4. UNCHANGED <<tasks, objective>> /\ Local(t) /\ RunsOf(t)' \subseteq RunsOf(t)
  BY <1>1, <1>2, <1>3, TransitionRunRow DEF IInv
<1> QED
  BY <1>1, <1>2, <1>4, FewerRuns, ReturnsIdle, IdleGuarded DEF Guarded

\* Judge leaves its Task guarded.
LEMMA JudgeGuarded ==
  ASSUME IInv, Supervised, NEW h \in Host, NEW t \in Task, NEW ok \in BOOLEAN, Judge(h, t, ok)
  PROVE  Guarded(h, t)
<1>1. /\ TaskGuarded(t) /\ WorkerGuarded(h, t) /\ Executors /\ tasks \in [Task -> TaskRow]
      /\ Returns(h, t) /\ (UNCHANGED ledger \/ ResolveCandidateVerification(t, ok))
  BY DEF Supervised, IInv, Judge, LedgerTypeOK
<1>2. WorkerGuarded(h, t)'
  BY <1>1, ReturnsIdle, IdleGuarded
<1>3. \/ UNCHANGED <<tasks, runs, objective>>
      \/ Reverifiable(t) /\ tasks' = [tasks EXCEPT ![t] = Judged(t, ok)]
           /\ UNCHANGED <<runs, objective>>
  BY <1>1 DEF ledger, ResolveCandidateVerification
<1>4. CASE UNCHANGED <<tasks, runs, objective>>
  BY <1>1, <1>2, <1>4, TaskStays DEF Guarded, Local
<1>5. CASE Reverifiable(t) /\ tasks' = [tasks EXCEPT ![t] = Judged(t, ok)]
             /\ UNCHANGED <<runs, objective>>
  <2>1. t \in Criteria /\ Judged(t, ok).status \in {"succeeded", "failed"}
    BY <1>5 DEF Reverifiable, Judged, Succeeded, Moved
  <2>2. tasks'[t] = Judged(t, ok) /\ \A u \in Task \ {t} : tasks'[u] = tasks[u]
    BY <1>1, <1>5
  <2>3. TaskGuarded(t)'
    BY <1>5, <2>1, <2>2, NewRow DEF Live
  <2> QED
    BY <1>2, <1>5, <2>2, <2>3 DEF Guarded, Local
<1> QED
  BY <1>3, <1>4, <1>5

\* A lease is never lost.
LEMMA NeverLosesLease ==
  ASSUME Supervised, NEW h \in Host, NEW t \in Task
  PROVE  ~LoseLease(h, t)
<1>1. WorkerGuarded(h, t) /\ objective = "running"
  BY DEF Supervised
<1>2. worker[h][t].pc \in {"executing", "verifying"} => Renewable(worker[h][t].run)
  BY <1>1 DEF WorkerGuarded, Renewable, LineageActive, Live
<1> QED
  BY <1>2 DEF LoseLease

\* Tasks change that nobody executes, and the others keep their guards.
LEMMA RowsGuarded ==
  ASSUME Supervised, UNCHANGED <<runs, objective>>,
         \A t \in Task :
           \/ tasks'[t] = tasks[t]
           \/ /\ tasks[t].status # "running" /\ tasks'[t].status # "running"
              /\ tasks'[t].cand = tasks[t].cand
              /\ tasks'[t].status \in Live => tasks'[t].cand # None,
         \A g \in Host, t \in Task :
           \/ worker'[g][t] = worker[g][t]
           \/ worker'[g][t] = IdleWorker
           \/ worker'[g][t].pc = "reverifying" /\ ~worker'[g][t].aborted
  PROVE  Supervised'
<1>1. ASSUME NEW t \in Task PROVE TaskGuarded(t)' /\ RunsOf(t)' = RunsOf(t)
  <2>1. TaskGuarded(t) /\ RunsOf(t)' = RunsOf(t)
    BY DEF Supervised, RunsOf
  <2>2. CASE tasks'[t] = tasks[t]
    BY <2>1, <2>2, TaskStays
  <2>3. CASE tasks'[t] # tasks[t]
    <3>1. /\ tasks[t].status # "running" /\ tasks'[t].status # "running"
          /\ tasks'[t].cand = tasks[t].cand
          /\ tasks'[t].status \in Live => tasks'[t].cand # None
      BY <2>3
    <3> QED
      BY <2>1, <3>1, NewRow DEF TaskGuarded
  <2> QED
    BY <2>1, <2>2, <2>3
<1>2. ASSUME NEW g \in Host, NEW t \in Task PROVE WorkerGuarded(g, t)'
  <2>1. CASE worker'[g][t] = worker[g][t]
    <3>1. WorkerGuarded(g, t)
      BY DEF Supervised
    <3>2. CASE tasks'[t] = tasks[t]
      BY <1>1, <2>1, <3>1, <3>2 DEF WorkerGuarded, Held
    <3>3. CASE tasks[t].status # "running" /\ tasks'[t].status # "running"
      BY <2>1, <3>1, <3>3 DEF WorkerGuarded
    <3> QED
      BY <3>2, <3>3
  <2>2. CASE worker'[g][t] = IdleWorker
    BY <2>2, IdleGuarded
  <2>3. CASE worker'[g][t].pc = "reverifying" /\ ~worker'[g][t].aborted
    BY <2>3 DEF WorkerGuarded
  <2> QED
    BY <2>1, <2>2, <2>3
<1> QED
  BY <1>1, <1>2 DEF Supervised

\* What hosts do keeps the guards.
LEMMA HostsSupervised ==
  ASSUME IInv, Supervised, NEW h \in Host, HostStep(h)
  PROVE  Supervised'
<1>1. UNCHANGED <<runs, objective>>
  BY HostLedger
<1>2. ASSUME NEW t \in Task
      PROVE  \/ tasks'[t] = tasks[t]
             \/ /\ tasks[t].status # "running" /\ tasks'[t].status = "cancelled"
                /\ tasks'[t].cand = tasks[t].cand
  <2>1. CASE UNCHANGED tasks
    BY <2>1
  <2>2. CASE tasks' = [u \in Task |-> IF u \in Waiting(h) THEN Ended(tasks[u], "cancelled")
                                      ELSE tasks[u]]
    BY <2>2 DEF Ended, Moved, Waiting
  <2> QED
    BY <2>1, <2>2, HostLedger
<1>3. ASSUME NEW g \in Host, NEW t \in Task
      PROVE  \/ worker'[g][t] = worker[g][t]
             \/ worker'[g][t] = IdleWorker
             \/ worker'[g][t].pc = "reverifying" /\ ~worker'[g][t].aborted
  BY HostWorkers DEF IInv
<1> QED
  BY <1>1, <1>2, <1>3, RowsGuarded DEF Live

\* The lease of a Run that is executed does not run out.
LEMMA ExpireLeaseSupervised ==
  ASSUME IInv, Exclusive, Supervised, NEW e \in Run, ExpireLease(e)
  PROVE  Supervised'
<1> DEFINE row == [runs[e] EXCEPT !.live = FALSE]
<1>1. runs' = [runs EXCEPT ![e] = row] /\ UNCHANGED <<tasks, objective, worker>>
  BY DEF ExpireLease
<1>2. runs \in [Run -> RunRow] /\ runs[e] \in RunRow
  BY DEF IInv, LedgerTypeOK
<1>3. row.status = runs[e].status /\ row.task = runs[e].task
  BY <1>2 DEF RunRow
<1> HIDE DEF row
<1>4. runs'[e] = row /\ \A r \in Run : r # e => runs'[r] = runs[r]
  BY <1>1, <1>2
<1>5. \A r \in Run : runs'[r].status = runs[r].status /\ runs'[r].task = runs[r].task
  BY <1>3, <1>4
<1>6. ASSUME NEW t \in Task PROVE TaskGuarded(t)' /\ RunsOf(t)' = RunsOf(t)
  <2>1. RunsOf(t)' = RunsOf(t)
    BY <1>5 DEF RunsOf
  <2> QED
    BY <1>1, <2>1, FewerRuns DEF Supervised
<1>7. ASSUME NEW g \in Host, NEW t \in Task PROVE WorkerGuarded(g, t)'
  <2> DEFINE w == worker[g][t]
  <2>1. WorkerGuarded(g, t) /\ objective = "running" /\ worker'[g][t] = w
    BY <1>1 DEF Supervised
  <2>2. w.pc \in WithRun => w.run \in Run
    BY WorkerRow DEF IInv, RightWorker
  <2>3. ASSUME w.pc \in {"executing", "verifying", "catching"} PROVE w.run # e
    <3>1. Held(w.run) /\ runs[w.run].task = t /\ tasks[t].status = "running" /\ ~w.aborted
      BY <2>1, <2>3 DEF WorkerGuarded
    <3>2. Renewable(w.run)
      BY <2>1, <3>1 DEF Renewable, LineageActive, Live
    <3>3. Renews(g, t, w.run)
      BY <2>3, <3>1 DEF Renews
    <3>4. ~Suspends /\ (Suspends \/ ~Renewable(e) \/ ~\E h \in Host, u \in Task : Renews(h, u, e))
      BY DEF ExpireLease, Exclusive
    <3> QED
      BY <3>2, <3>3, <3>4
  <2>4. w.pc \in {"executing", "verifying", "catching"} => runs'[w.run] = runs[w.run]
    BY <1>4, <2>2, <2>3 DEF WithRun
  <2>5. w.pc \in {"executing", "verifying", "rejected", "catching", "closing"} =>
          runs'[w.run].status = runs[w.run].status /\ runs'[w.run].task = runs[w.run].task
    BY <1>5, <2>2 DEF WithRun
  <2> HIDE DEF w
  <2>6. RunsOf(t)' = RunsOf(t) /\ tasks'[t] = tasks[t]
    BY <1>1, <1>6
  <2> QED
    BY <2>1, <2>4, <2>5, <2>6 DEF WorkerGuarded, Held, w
<1> QED
  BY <1>1, <1>6, <1>7 DEF Supervised

\* A correction begins with the rejected output it has to correct.
LEMMA CorrectSupervised ==
  ASSUME IInv, Supervised, Correct
  PROVE  Supervised'
<1>1. /\ tasks' = [t \in Task |-> IF Correctable(t) THEN Ended(tasks[t], "pending")
                                  ELSE tasks[t]]
      /\ UNCHANGED <<runs, objective, worker>>
  BY DEF Correct, PrepareTaskCorrections, Outside
<1>2. ASSUME NEW t \in Task
      PROVE  \/ tasks'[t] = tasks[t]
             \/ /\ tasks[t].status # "running" /\ tasks'[t].status # "running"
                /\ tasks'[t].cand = tasks[t].cand /\ tasks'[t].cand # None
  BY <1>1 DEF Correctable, Ended, Moved
<1> QED
  BY <1>1, <1>2, RowsGuarded

-----------------------------------------------------------------------------
(* The reconciliation.                                                     *)

\* What the reconciliation of a Task finds: a candidate that awaits its verdict,
\* or one Run, which has expired.
LEMMA OneExpired ==
  ASSUME Supervised, NEW t \in Task, NEW r \in Expired, runs[r].task = t,
         tasks[t].status = "running", ~AwaitsVerdict(t)
  PROVE  tasks[t].cand = None /\ RunsOf(t) = {r}
<1>1. TaskGuarded(t)
  BY DEF Supervised
<1>2. tasks[t].cand = None
  BY <1>1 DEF TaskGuarded, AwaitsVerdict
<1>3. r \in RunsOf(t)
  BY DEF Expired, RunsOf
<1> QED
  BY <1>1, <1>2, <1>3 DEF TaskGuarded, Live

\* A reconciliation keeps the guards, and schedules a Task again only if none of
\* its expired Runs has changed the outside world.
LEMMA ReconcileSupervised ==
  ASSUME IInv, Supervised, Reconcile
  PROVE  /\ Supervised'
         /\ \A r \in Expired :
              tasks[runs[r].task].status = "running" /\ tasks'[runs[r].task].status = "pending"
                => ~runs[r].mutated
<1>1. PICK first \in [Interrupted -> Expired] :
        /\ \A t \in Interrupted : runs[first[t]].task = t
        /\ tasks' = [t \in Task |-> IF t \in Interrupted THEN Reconciled(t, first[t])
                                    ELSE tasks[t]]
  BY DEF Reconcile, ReconcileExpiredTaskRuns
<1>2. /\ runs' = [r \in Run |-> IF r \in Expired THEN [runs[r] EXCEPT !.status = "failed"]
                                ELSE runs[r]]
      /\ UNCHANGED <<objective, worker>>
  BY DEF Reconcile, ReconcileExpiredTaskRuns, Outside
<1>3. \A r \in Run : /\ r \notin Expired => runs'[r] = runs[r]
                     /\ r \in Expired => runs'[r].status = "failed"
                     /\ runs'[r].task = runs[r].task
  BY <1>2 DEF IInv, LedgerTypeOK, RunRow
<1>4. ASSUME NEW t \in Task PROVE RunsOf(t)' = RunsOf(t) \ Expired
  BY <1>3 DEF RunsOf, Expired
\* The cases of a Task.
<1>5. ASSUME NEW t \in Task
      PROVE  \/ tasks'[t] = tasks[t] /\ (t \in Interrupted => tasks[t].status # "running")
             \/ /\ tasks[t].status = "running" /\ AwaitsVerdict(t)
                /\ tasks'[t].status = "running" /\ tasks'[t].verif = "unavailable"
                /\ tasks'[t].cand = tasks[t].cand
             \/ /\ tasks[t].status = "running" /\ ~AwaitsVerdict(t) /\ t \in Interrupted
                /\ tasks[t].cand = None /\ RunsOf(t) = {first[t]} /\ first[t] \in Expired
                /\ tasks'[t].cand = None
                /\ \/ tasks'[t].status = "failed"
                   \/ tasks'[t].status = "pending" /\ ~runs[first[t]].mutated
  <2>1. CASE t \notin Interrupted
    BY <1>1, <2>1
  <2>2. CASE t \in Interrupted
    <3>1. tasks'[t] = Reconciled(t, first[t]) /\ first[t] \in Expired
          /\ runs[first[t]].task = t
      BY <1>1, <2>2
    <3>2. CASE tasks[t].status # "running"
      BY <3>1, <3>2 DEF Reconciled
    <3>3. CASE tasks[t].status = "running" /\ AwaitsVerdict(t)
      BY <3>1, <3>3 DEF Reconciled, Moved
    <3>4. CASE tasks[t].status = "running" /\ ~AwaitsVerdict(t)
      <4>1. tasks[t].cand = None /\ RunsOf(t) = {first[t]}
        BY <3>1, <3>4, OneExpired
      <4>2. CASE MayReplay(t, first[t])
        BY <2>2, <3>1, <3>4, <4>1, <4>2 DEF Reconciled, Moved, MayReplay
      <4>3. CASE ~MayReplay(t, first[t])
        BY <2>2, <3>1, <3>4, <4>1, <4>3 DEF Reconciled, Ended, Moved
      <4> QED
        BY <4>2, <4>3
    <3> QED
      BY <3>2, <3>3, <3>4
  <2> QED
    BY <2>1, <2>2
<1>6. ASSUME NEW t \in Task PROVE TaskGuarded(t)'
  <2>1. TaskGuarded(t) /\ RunsOf(t)' \subseteq RunsOf(t)
    BY <1>4 DEF Supervised
  <2>2. CASE tasks'[t] = tasks[t]
    BY <2>1, <2>2, FewerRuns
  <2>3. CASE /\ tasks[t].status = "running" /\ AwaitsVerdict(t)
             /\ tasks'[t].status = "running" /\ tasks'[t].verif = "unavailable"
             /\ tasks'[t].cand = tasks[t].cand
    BY <2>1, <2>3 DEF TaskGuarded, AwaitsVerdict
  <2>4. CASE /\ RunsOf(t) = {first[t]} /\ first[t] \in Expired /\ tasks'[t].cand = None
             /\ tasks'[t].status \in {"failed", "pending"}
    BY <1>4, <2>4 DEF TaskGuarded
  <2> QED
    BY <1>5, <2>2, <2>3, <2>4
<1>7. ASSUME NEW g \in Host, NEW t \in Task PROVE WorkerGuarded(g, t)'
  <2> DEFINE w == worker[g][t]
  <2>1. WorkerGuarded(g, t) /\ worker'[g][t] = w /\ TaskGuarded(t)
    BY <1>2 DEF Supervised
  <2>2. w.pc \in WithRun => w.run \in Run
    BY WorkerRow DEF IInv, RightWorker
  <2>3. w.pc \in {"executing", "verifying", "catching"} => runs'[w.run] = runs[w.run]
    BY <1>3, <2>1, <2>2 DEF WorkerGuarded, Held, Expired, WithRun
  <2>4. w.pc \in {"executing", "verifying", "rejected", "catching", "closing"} =>
          runs'[w.run].status # "absent" /\ runs'[w.run].task = t
    <3>1. w.pc \in {"executing", "verifying", "rejected", "catching", "closing"} =>
            w.run \in Run /\ runs[w.run].status # "absent" /\ runs[w.run].task = t
      BY <2>1, <2>2 DEF WorkerGuarded, WithRun
    <3> QED
      BY <1>3, <3>1
  <2>5. w.pc \in {"marked", "executing", "verifying", "catching"} =>
          tasks'[t].status = "running" /\ tasks'[t].cand = tasks[t].cand
    <3>1. SUFFICES ASSUME w.pc \in {"marked", "executing", "verifying", "catching"}
                   PROVE  tasks'[t].status = "running" /\ tasks'[t].cand = tasks[t].cand
      OBVIOUS
    <3>2. tasks[t].status = "running"
      BY <2>1, <3>1 DEF WorkerGuarded
    <3>3. ASSUME tasks[t].cand = None, RunsOf(t) = {first[t]}, first[t] \in Expired
          PROVE  FALSE
      <4>1. CASE w.pc = "marked"
        BY <2>1, <3>3, <4>1 DEF WorkerGuarded
      <4>2. CASE w.pc # "marked"
        <5>1. Held(w.run) /\ runs[w.run].task = t /\ w.run \in Run
          BY <2>1, <2>2, <3>1, <4>2 DEF WorkerGuarded, WithRun
        <5>2. w.run \in RunsOf(t)
          BY <5>1 DEF RunsOf, Held
        <5> QED
          BY <3>3, <5>1, <5>2 DEF Expired, Held
      <4> QED
        BY <4>1, <4>2
    <3> QED
      BY <1>5, <3>2, <3>3
  <2>6. w.pc \in {"picked", "requeued"} => tasks'[t].status # "running" \/ tasks'[t].cand # None
    BY <1>5, <2>1 DEF WorkerGuarded, AwaitsVerdict
  <2>7. w.pc = "marked" => tasks'[t].cand # None \/ RunsOf(t)' = {}
    BY <1>4, <2>1, <2>5 DEF WorkerGuarded
  <2> HIDE DEF w
  <2> QED
    BY <2>1, <2>3, <2>4, <2>5, <2>6, <2>7 DEF WorkerGuarded, Held, w
<1>8. Supervised'
  BY <1>2, <1>6, <1>7 DEF Supervised
<1>9. ASSUME NEW r \in Expired, tasks[runs[r].task].status = "running",
             tasks'[runs[r].task].status = "pending"
      PROVE  ~runs[r].mutated
  <2> DEFINE t == runs[r].task
  <2>1. r \in Run /\ runs[r].status = "running"
    BY DEF Expired
  <2>2. t \in Task
    BY <2>1 DEF IInv, RunsMet
  <2>3. r \in RunsOf(t)
    BY <2>1 DEF RunsOf
  <2> QED
    BY <1>5, <1>9, <2>2, <2>3
<1> QED
  BY <1>8, <1>9

-----------------------------------------------------------------------------
(* The guards hold as long as nobody cancels or retries.                   *)

\* A verifier that stays unavailable changes nothing.
LEMMA StillUnavailableGuarded ==
  ASSUME IInv, Supervised, NEW h \in Host, NEW t \in Task, StillUnavailable(h, t)
  PROVE  Guarded(h, t)
<1>1. UNCHANGED <<tasks, runs, objective>> /\ worker'[h][t] = IdleWorker
  BY ReturnsIdle DEF StillUnavailable, ledger, IInv
<1>2. Local(t) /\ TaskGuarded(t)'
  BY <1>1, TaskStays DEF Local, Supervised
<1> QED
  BY <1>1, <1>2, IdleGuarded DEF Guarded

\* Every step of a worker leaves its own Task guarded.
LEMMA WorkerGuards ==
  ASSUME IInv, Undisturbed, Supervised, NEW h \in Host, NEW t \in Task, WorkerStep(h, t)
  PROVE  Guarded(h, t)
<1>1. ~RefuseRun(h, t) /\ ~LoseLease(h, t)
  BY NeverRefused, NeverLosesLease
<1>2. CASE FailDependent(h, t) \/ Pick(h, t) \/ MarkRunning(h, t) \/ \E r \in Run : StartRun(h, t, r)
  BY <1>2, FailDependentGuarded, PickGuarded, MarkRunningGuarded, StartRunGuarded
<1>3. CASE Mutate(h, t) \/ Answer(h, t) \/ Throw(h, t) \/ Accept(h, t) \/ Reject(h, t)
  BY <1>3, MutateGuarded, AnswerGuarded, ThrowGuarded, AcceptGuarded, RejectGuarded
<1>4. CASE Requeue(h, t) \/ Catch(h, t) \/ CloseRun(h, t)
  BY <1>4, RequeueGuarded, CatchGuarded, CloseRunGuarded
<1>5. CASE (\E ok \in BOOLEAN : Judge(h, t, ok)) \/ StillUnavailable(h, t)
  BY <1>5, JudgeGuarded, StillUnavailableGuarded
<1> QED
  BY <1>1, <1>2, <1>3, <1>4, <1>5 DEF WorkerStep

\* Only a worker that was picked acts, but for those two.
LEMMA ActingWorker ==
  ASSUME NEW h \in Host, NEW t \in Task, WorkerStep(h, t), ~FailDependent(h, t), ~Pick(h, t)
  PROVE  worker[h][t].pc # "idle"
<1> SUFFICES ASSUME worker[h][t].pc = "idle" PROVE FALSE
  OBVIOUS
<1> QED
  BY DEF WorkerStep, MarkRunning, StartRun, RefuseRun, Mutate, Answer, Throw, Accept, Reject,
         Requeue, Catch, CloseRun, Judge, StillUnavailable, LoseLease, At

\* A worker acts for an invocation that is still there.
LEMMA ActsForHost ==
  ASSUME IInv, Attended, NEW h \in Host, NEW t \in Task, WorkerStep(h, t)
  PROVE  host[h].mode # "idle"
<1>1. CASE FailDependent(h, t) \/ Pick(h, t)
  BY <1>1 DEF FailDependent, Pick, Iterates, Graph
<1>2. CASE worker[h][t].pc # "idle"
  BY <1>2 DEF Attended
<1>3. CASE ~FailDependent(h, t) /\ ~Pick(h, t)
  BY <1>2, <1>3, ActingWorker
<1> QED
  BY <1>1, <1>3

\* Every step keeps the guards.
LEMMA SupervisedStep ==
  ASSUME IInv, Exclusive, Undisturbed, Claimed, Attended, Supervised, Next
  PROVE  Supervised'
<1>1. ASSUME NEW h \in Host, HostStep(h) PROVE Supervised'
  BY <1>1, HostsSupervised
<1>2. ASSUME NEW h \in Host, NEW t \in Task, WorkerStep(h, t) PROVE Supervised'
  <2>1. \A g \in Host, u \in Task : g # h \/ u # t => worker'[g][u] = worker[g][u]
    BY <1>2, WorkerSteady, PickedPc, NeverRefused DEF Steady, IInv
  <2>2. Guarded(h, t) /\ host[h].mode # "idle"
    BY <1>2, WorkerGuards, ActsForHost
  <2> QED
    BY <2>1, <2>2, LocalStep DEF Guarded
<1>3. CASE \E r \in Run : ExpireLease(r)
  BY <1>3, ExpireLeaseSupervised
<1>4. ASSUME UNCHANGED <<tasks, runs, objective, worker>> PROVE Supervised'
  BY <1>4, RowsGuarded
<1>5. CASE ExpireClaim \/ Pause \/ Resume
  BY <1>4, <1>5 DEF ExpireClaim, Pause, PauseTaskPlan, Resume, ResumeTaskPlan, Outside
<1>6. CASE (\E here \in {{}} \cup {{h} : h \in Host} : Cancel(here)) \/ CancelRoot \/ Retry
  BY <1>6 DEF Undisturbed, Cancel, CancelRoot, Retry
<1>7. CASE Correct \/ Reconcile
  BY <1>7, CorrectSupervised, ReconcileSupervised
<1> QED
  BY <1>1, <1>2, <1>3, <1>5, <1>6, <1>7 DEF Next

\* So no host ever leaves its workers behind.
LEMMA SupervisedLeavesNobody ==
  ASSUME Supervised
  PROVE  NobodyLeft
BY NeverRefused DEF NobodyLeft

\* A Plan begins claimed, attended and guarded.
LEMMA Beginning ==
  ASSUME Init, Exclusive
  PROVE  Claimed /\ Attended /\ Supervised /\ OneExecutor
<1>1. /\ \A h \in Host : host[h].mode = "idle"
      /\ \A h \in Host, t \in Task : worker[h][t] = IdleWorker
      /\ "delegate" \notin toStart
  BY DEF Init, IdleHost, Exclusive
<1>2. /\ objective = "running"
      /\ \A t \in Task : tasks[t].cand = None /\ tasks[t].status = "pending"
      /\ \A r \in Run : runs[r].status = "absent"
  BY DEF Init, LedgerInit, AbsentRun
<1>3. \A t \in Task : RunsOf(t) = {}
  BY <1>2 DEF RunsOf
<1> QED
  BY <1>1, <1>2, <1>3
  DEF Claimed, Attended, Supervised, TaskGuarded, WorkerGuarded, OneExecutor, Executing, IdleWorker

\* A step that changes nothing.
LEMMA Stutters ==
  ASSUME UNCHANGED vars
  PROVE  /\ Claimed' <=> Claimed
         /\ Attended' <=> Attended
         /\ Supervised' <=> Supervised
         /\ OneExecutor' <=> OneExecutor
<1>1. UNCHANGED <<tasks, runs, claim, objective, host, worker, toStart>>
  BY DEF vars
<1>2. (Claimed' <=> Claimed) /\ (Attended' <=> Attended) /\ (OneExecutor' <=> OneExecutor)
  BY <1>1 DEF Claimed, HoldsClaim, Attended, OneExecutor, Executing
<1>3. \A t \in Task : RunsOf(t)' = RunsOf(t) /\ (TaskGuarded(t)' <=> TaskGuarded(t))
  BY <1>1 DEF RunsOf, TaskGuarded
<1>4. \A h \in Host, t \in Task : WorkerGuarded(h, t)' <=> WorkerGuarded(h, t)
  BY <1>1, <1>3 DEF WorkerGuarded, Held
<1> QED
  BY <1>1, <1>2, <1>3, <1>4 DEF Supervised

\* The claim is never worked around.
LEMMA AlwaysClaimed ==
  ASSUME Exclusive
  PROVE  Spec => []Claimed
<1>1. Init => Claimed
  BY Beginning
<1>2. IInv /\ Claimed /\ [Next]_vars => Claimed'
  BY ClaimedStep, Stutters
<1> QED
  BY <1>1, <1>2, Invariant, PTL DEF Spec

\* One worker at a time is always attended.
LEMMA AlwaysAttended ==
  ASSUME Exclusive, Concurrency = 1
  PROVE  Spec => []Attended
<1>1. Init => Attended
  BY Beginning
<1>2. IInv /\ Attended /\ [Next]_vars => Attended'
  BY AttendedStep, AloneLeavesNobody, Stutters
<1> QED
  BY <1>1, <1>2, Invariant, PTL DEF Spec

\* Any number of workers are, if nothing is cancelled or retried.
LEMMA AlwaysSupervised ==
  ASSUME Exclusive, Undisturbed
  PROVE  Spec => [](Attended /\ Supervised)
<1>1. Init => Attended /\ Supervised
  BY Beginning
<1>2. IInv /\ Claimed /\ (Attended /\ Supervised) /\ [Next]_vars => (Attended /\ Supervised)'
  BY AttendedStep, SupervisedStep, SupervisedLeavesNobody, Stutters
<1> QED
  BY <1>1, <1>2, Invariant, AlwaysClaimed, PTL DEF Spec

\* The workers are attended in both settings.
LEMMA AttendedAlways ==
  ASSUME Exclusive, Concurrency = 1 \/ Undisturbed
  PROVE  Spec => []Attended
<1>1. CASE Concurrency = 1
  BY <1>1, AlwaysAttended
<1>2. CASE Undisturbed
  <2>1. Spec => [](Attended /\ Supervised)
    BY <1>2, AlwaysSupervised
  <2> QED
    BY <2>1, PTL
<1> QED
  BY <1>1, <1>2

\* The claim protects its Tasks: no two invocations execute one of them at the
\* same time, for any number of processes that take over from each other, crash
\* and recover.  Assumed is that no process sleeps past its leases, that the
\* Plan is not a delegation, and one worker at a time or a Plan for which no Run
\* can be refused.
THEOREM OneExecutorAlways ==
  ASSUME Exclusive, Concurrency = 1 \/ Undisturbed
  PROVE  Spec => []OneExecutor
<1>1. Spec => []Attended
  BY AttendedAlways
<1>2. Init => OneExecutor
  BY Beginning
<1>3. IInv /\ Claimed /\ Attended /\ OneExecutor /\ [Next]_vars => OneExecutor'
  BY OneExecutorStep, Stutters
<1> QED
  BY <1>1, <1>2, <1>3, Invariant, AlwaysClaimed, PTL DEF Spec

-----------------------------------------------------------------------------
(* What a recovery repeats.                                                *)

\* A worker writes a Task or a Run; both together only when they succeed.
LEMMA WorkerWrites ==
  ASSUME NEW h \in Host, NEW t \in Task, WorkerStep(h, t), ~RefuseRun(h, t)
  PROVE  \/ UNCHANGED runs
         \/ UNCHANGED tasks
         \/ SettleTaskRunAndTask(worker[h][t].run, t)
<1>1. CASE FailDependent(h, t) \/ Pick(h, t) \/ MarkRunning(h, t)
  BY <1>1, Zenon DEF FailDependent, Pick, MarkRunning, Transition, ledger
<1>2. CASE \E r \in Run : StartRun(h, t, r)
  BY <1>2, Zenon DEF StartRun, RecordRun
<1>3. CASE Mutate(h, t) \/ Throw(h, t) \/ Reject(h, t) \/ CloseRun(h, t)
  BY <1>3, Zenon DEF Mutate, Throw, Reject, CloseRun, TransitionRun, ledger
<1>4. CASE Answer(h, t) \/ Accept(h, t)
  BY <1>4, Zenon DEF Answer, Accept, Settles, Transition, ledger
<1>5. CASE Requeue(h, t) \/ Catch(h, t)
  BY <1>5, Zenon DEF Requeue, Catch, Transition, AdvanceTaskRoute
<1>6. CASE (\E ok \in BOOLEAN : Judge(h, t, ok)) \/ StillUnavailable(h, t) \/ LoseLease(h, t)
  BY <1>6, Zenon DEF Judge, ResolveCandidateVerification, StillUnavailable, LoseLease, ledger
<1> QED
  BY <1>1, <1>2, <1>3, <1>4, <1>5, <1>6 DEF WorkerStep

SafeReplay ==
  \A r \in Expired :
    /\ runs'[r].status = "failed"
    /\ tasks[runs[r].task].status = "running"
    /\ tasks'[runs[r].task].status = "pending"
    => ~runs[r].mutated

\* Only a reconciliation fails an expired Run and schedules its Task again.
LEMMA SafeReplayStep ==
  ASSUME IInv, Undisturbed, Supervised, [Next]_vars
  PROVE  SafeReplay
<1>1. CASE UNCHANGED runs \/ UNCHANGED tasks
  BY <1>1 DEF SafeReplay, Expired
<1>2. CASE \E h \in Host : HostStep(h)
  BY <1>1, <1>2, HostLedger
<1>3. ASSUME NEW h \in Host, NEW t \in Task, WorkerStep(h, t) PROVE SafeReplay
  <2>1. CASE SettleTaskRunAndTask(worker[h][t].run, t)
    <3>1. \A r \in Run : runs'[r] = runs[r] \/ runs'[r].status # "failed"
      BY <2>1 DEF SettleTaskRunAndTask, IInv, LedgerTypeOK, RunRow
    <3> QED
      BY <3>1 DEF SafeReplay, Expired
  <2> QED
    BY <1>1, <1>3, <2>1, WorkerWrites, NeverRefused
<1>4. CASE \E r \in Run : ExpireLease(r)
  BY <1>1, <1>4 DEF ExpireLease
<1>5. CASE ExpireClaim \/ Pause \/ Resume \/ Correct
  BY <1>1, <1>5 DEF ExpireClaim, Pause, PauseTaskPlan, Resume, ResumeTaskPlan,
                    Correct, PrepareTaskCorrections
<1>6. CASE (\E here \in {{}} \cup {{h} : h \in Host} : Cancel(here)) \/ CancelRoot \/ Retry
  BY <1>6 DEF Undisturbed, Cancel, CancelRoot, Retry
<1>7. CASE Reconcile
  BY <1>7, ReconcileSupervised DEF SafeReplay
<1>8. CASE UNCHANGED vars
  BY <1>1, <1>8 DEF vars
<1> QED
  BY <1>2, <1>3, <1>4, <1>5, <1>6, <1>7, <1>8 DEF Next

\* A Task whose executor may have changed the outside world is never scheduled
\* again by the reconciliation, for any number of Tasks, Runs and processes that
\* crash, abort and recover: a Task that has no candidate has a single Run that
\* can expire, so the Run that is read first is the Run that was interrupted.
\* Assumed is that no process sleeps past its leases, that the Plan is not a
\* delegation, that nobody cancels or retries it and that Tasks have one route.
THEOREM ReplaysAreSafe ==
  ASSUME Exclusive, Undisturbed
  PROVE  Spec => ReplayIsSafe
<1>1. IInv /\ (Attended /\ Supervised) /\ [Next]_vars => [SafeReplay]_vars
  BY SafeReplayStep
<1>2. Spec => [][SafeReplay]_vars
  BY <1>1, Invariant, AlwaysSupervised, PTL DEF Spec
<1> QED
  BY <1>2 DEF ReplayIsSafe, SafeReplay

-----------------------------------------------------------------------------
(* The results that are kept.                                              *)

\* How a Task comes to succeed: its worker settles its own Run, or a verdict
\* accepts the stored candidate.
SucceedsBy(h, t) ==
  \/ /\ Answer(h, t) /\ t \notin Criteria
     /\ SettleTaskRunAndTask(worker[h][t].run, t)
  \/ /\ Accept(h, t) /\ SettleTaskRunAndTask(worker[h][t].run, t)
  \/ /\ Judge(h, t, TRUE) /\ Reverifiable(t) /\ tasks' = [tasks EXCEPT ![t] = Judged(t, TRUE)]

\* transition() never writes succeeded here.
LEMMA TransitionNeverSucceeds ==
  ASSUME IInv, NEW t \in Task, NEW to \in Statuses \ {"succeeded"}, NEW verif, NEW cand,
         NEW attempts, Transition(t, to, verif, cand, attempts), NEW u \in Task
  PROVE  tasks'[u] = tasks[u] \/ tasks'[u].status # "succeeded"
BY DEF Transition, Moved, IInv, LedgerTypeOK

\* What a worker does to Tasks that have not succeeded.
LEMMA WorkerSuccess ==
  ASSUME IInv, NEW h \in Host, NEW t \in Task, WorkerStep(h, t), NEW u \in Task,
         tasks'[u].status = "succeeded", tasks[u].status # "succeeded"
  PROVE  u = t /\ SucceedsBy(h, t)
<1>0. tasks' # tasks /\ tasks \in [Task -> TaskRow]
  BY DEF IInv, LedgerTypeOK
<1>1. ~\E to \in Statuses \ {"succeeded"} : \E verif, cand, attempts :
        Transition(t, to, verif, cand, attempts)
  BY TransitionNeverSucceeds
<1>2. ~FailDependent(h, t)
  <2>1. FailDependent(h, t) =>
          Transition(t, "failed", tasks[t].verif, tasks[t].cand, tasks[t].attempts)
    BY DEF FailDependent
  <2> QED
    BY <1>1, <2>1 DEF Statuses, Live, Terminal
<1>3. ~Pick(h, t) /\ ~Mutate(h, t) /\ ~Throw(h, t) /\ ~StillUnavailable(h, t) /\ ~LoseLease(h, t)
  BY <1>0, Zenon DEF Pick, Mutate, Throw, StillUnavailable, LoseLease, ledger
<1>4. ~MarkRunning(h, t)
  <2>1. ASSUME MarkRunning(h, t)
        PROVE  \E to \in {"failed", "running"} : \E verif, attempts :
                 Transition(t, to, verif, tasks[t].cand, attempts)
    BY <2>1, Zenon DEF MarkRunning
  <2> QED
    BY <1>1, <2>1 DEF Statuses, Live, Terminal
<1>5. ~\E r \in Run : StartRun(h, t, r)
  BY <1>0, Zenon DEF StartRun, RecordRun
<1>6. ~RefuseRun(h, t)
  <2>1. RefuseRun(h, t) => tasks' = EndActive("failed")
    BY <1>0, Zenon DEF RefuseRun
  <2>2. tasks' # EndActive("failed")
    BY <1>0 DEF EndActive, Ended, Moved
  <2> QED
    BY <2>1, <2>2
<1>7. ~Reject(h, t) /\ ~CloseRun(h, t)
  BY <1>0, Zenon DEF Reject, CloseRun, TransitionRun
<1>8. ~AdvanceTaskRoute(t)
  BY <1>0 DEF AdvanceTaskRoute
<1>9. ~Requeue(h, t)
  <2>1. ASSUME Requeue(h, t)
        PROVE  AdvanceTaskRoute(t) \/ \E to \in {"pending", "failed"} :
                 Transition(t, to, "rejected", worker[h][t].run, Corrections(h, t))
    BY <2>1, Zenon DEF Requeue
  <2> QED
    BY <1>1, <1>8, <2>1 DEF Statuses, Live, Terminal
<1>10. ~Catch(h, t)
  <2>1. ASSUME Catch(h, t)
        PROVE  \/ AdvanceTaskRoute(t)
               \/ \E to \in {"running", IF host[h].aborted THEN "cancelled" ELSE "failed"} :
                    \E verif, cand, attempts : Transition(t, to, verif, cand, attempts)
    BY <2>1, Zenon DEF Catch
  <2> QED
    BY <1>1, <1>8, <2>1 DEF Statuses, Live, Terminal
<1>11. ASSUME NEW r, SettleTaskRunAndTask(r, t) PROVE u = t
  BY <1>0, <1>11 DEF SettleTaskRunAndTask
<1>12. CASE Answer(h, t)
  <2>1. Settles(h, t) /\ t \notin Criteria
    <3>1. \/ UNCHANGED tasks
          \/ Settles(h, t) /\ t \notin Criteria
          \/ Transition(t, "running", "pending", worker[h][t].run, Corrections(h, t))
      BY <1>12, Zenon DEF Answer, ledger
    <3> QED
      BY <1>0, <1>1, <3>1 DEF Statuses, Live, Terminal
  <2> QED
    BY <1>0, <1>11, <1>12, <2>1 DEF Settles, ledger, SucceedsBy
<1>13. CASE Accept(h, t)
  <2>1. Settles(h, t)
    BY <1>0, <1>13, Zenon DEF Accept, ledger
  <2> QED
    BY <1>0, <1>11, <1>13, <2>1 DEF Settles, ledger, SucceedsBy
<1>14. ASSUME NEW ok \in BOOLEAN, Judge(h, t, ok) PROVE u = t /\ SucceedsBy(h, t)
  <2>1. Reverifiable(t) /\ tasks' = [tasks EXCEPT ![t] = Judged(t, ok)]
    BY <1>0, <1>14 DEF Judge, ResolveCandidateVerification, ledger
  <2>2. ok = TRUE /\ u = t
    BY <1>0, <1>14, <2>1 DEF Judged, Moved
  <2> QED
    BY <1>14, <2>1, <2>2 DEF SucceedsBy
<1> QED
  BY <1>2, <1>3, <1>4, <1>5, <1>6, <1>7, <1>9, <1>10, <1>12, <1>13, <1>14 DEF WorkerStep

\* Only a worker makes a Task succeed.
LEMMA NewSuccess ==
  ASSUME IInv, Next, NEW t \in Task, tasks'[t].status = "succeeded",
         tasks[t].status # "succeeded"
  PROVE  \E h \in Host : SucceedsBy(h, t)
<1>1. ASSUME NEW h \in Host, HostStep(h) PROVE FALSE
  BY <1>1, HostLedger DEF Ended, Moved
<1>2. ASSUME NEW h \in Host, NEW u \in Task, WorkerStep(h, u)
      PROVE  \E g \in Host : SucceedsBy(g, t)
  BY <1>2, WorkerSuccess
<1>3. ~\E r \in Run : ExpireLease(r)
  BY DEF ExpireLease
<1>4. ~ExpireClaim /\ ~Pause /\ ~Resume
  BY DEF ExpireClaim, Pause, PauseTaskPlan, Resume, ResumeTaskPlan
<1>5. tasks' # EndActive("cancelled")
  BY DEF EndActive, Ended, Moved
<1>6. ASSUME NEW here, Cancel(here) PROVE FALSE
  BY <1>5, <1>6 DEF Cancel, CancelTaskPlan, ledger
<1>7. ~CancelRoot
  BY <1>5, Zenon DEF CancelRoot, CancelObjective
<1>8. ~Retry /\ ~Correct
  <2>1. CASE Retry
    BY <2>1 DEF Retry, PrepareTaskPlanRetry, Moved
  <2>2. CASE Correct
    BY <2>2 DEF Correct, PrepareTaskCorrections, Ended, Moved
  <2> QED
    BY <2>1, <2>2
<1>9. ~Reconcile
  <2> SUFFICES ASSUME Reconcile PROVE FALSE
    OBVIOUS
  <2>1. PICK first \in [Interrupted -> Expired] :
          tasks' = [u \in Task |-> IF u \in Interrupted THEN Reconciled(u, first[u])
                                   ELSE tasks[u]]
    BY DEF Reconcile, ReconcileExpiredTaskRuns
  <2>2. ASSUME NEW r, Reconciled(t, r).status = "succeeded" PROVE FALSE
    <3>1. CASE tasks[t].status # "running"
      BY <2>2, <3>1 DEF Reconciled
    <3>2. CASE tasks[t].status = "running"
      BY <2>2, <3>2 DEF Reconciled, Ended, Moved
    <3> QED
      BY <3>1, <3>2
  <2> QED
    BY <2>1, <2>2
<1> QED
  BY <1>1, <1>2, <1>3, <1>4, <1>6, <1>7, <1>8, <1>9 DEF Next

\* A verifier looks at the candidate that is still stored, or at none.
Verdicts ==
  \A h \in Host, t \in Task :
    worker[h][t].pc = "reverifying" => tasks[t].cand \in {worker[h][t].run, None}

\* The Objective above the Plan is not cancelled, or there is none.
RootStays == ~Rooted \/ "cancel" \notin Commands

\* Nothing but its own cancellation ends the Objective.
LEMMA ObjectiveStays ==
  ASSUME IInv, RootStays, Next
  PROVE  UNCHANGED objective
<1>1. CASE \E h \in Host : HostStep(h)
  BY <1>1, HostLedger
<1>2. ASSUME NEW h \in Host, NEW t \in Task, WorkerStep(h, t) PROVE UNCHANGED objective
  <2>1. RefuseRun(h, t) => UNCHANGED objective
    BY Zenon DEF RefuseRun
  <2> QED
    BY <1>2, <2>1, WorkerSteady, PickedPc DEF Steady, IInv
<1>3. CASE (\E r \in Run : ExpireLease(r)) \/ ExpireClaim
  BY <1>3, Zenon DEF ExpireLease, ExpireClaim
<1>4. CASE \E here \in {{}} \cup {{h} : h \in Host} : Cancel(here)
  BY <1>4, Zenon DEF Cancel, CancelTaskPlan, ledger
<1>5. ~CancelRoot
  BY DEF CancelRoot, CancelObjective, RootStays
<1>6. CASE Pause \/ Resume \/ Retry \/ Correct \/ Reconcile
  BY <1>6, Zenon DEF Pause, PauseTaskPlan, Resume, ResumeTaskPlan, Retry, PrepareTaskPlanRetry,
                     Correct, PrepareTaskCorrections, Reconcile, ReconcileExpiredTaskRuns
<1> QED
  BY <1>1, <1>2, <1>3, <1>4, <1>5, <1>6 DEF Next

\* What was accepted stays accepted.
LEMMA AcceptedGrows ==
  ASSUME Next
  PROVE  accepted \subseteq accepted'
<1>1. ASSUME NEW h \in Host, NEW t \in Task, WorkerStep(h, t)
      PROVE  accepted \subseteq accepted'
  <2>1. CASE Accept(h, t) \/ \E ok \in BOOLEAN : Judge(h, t, ok)
    BY <2>1 DEF Accept, Judge
  <2>2. CASE ~(Accept(h, t) \/ \E ok \in BOOLEAN : Judge(h, t, ok))
    BY <1>1, <2>2, Zenon
    DEF WorkerStep, FailDependent, Pick, MarkRunning, StartRun, RefuseRun, Mutate, Answer, Throw,
        Reject, Requeue, Catch, CloseRun, StillUnavailable, LoseLease, history
  <2> QED
    BY <2>1, <2>2
<1> QED
  BY <1>1, HostLedger, OutsideWorkers

\* Only workers write candidates; everybody else keeps or drops them.
LEMMA CandidateStays ==
  ASSUME IInv, Next, ~\E h \in Host, t \in Task : WorkerStep(h, t), NEW t \in Task
  PROVE  tasks'[t].cand \in {tasks[t].cand, None}
<1>1. CASE \E h \in Host : HostStep(h)
  BY <1>1, HostLedger DEF Ended, Moved
<1>2. CASE (\E r \in Run : ExpireLease(r)) \/ ExpireClaim \/ Pause \/ Resume
  BY <1>2, Zenon DEF ExpireLease, ExpireClaim, Pause, PauseTaskPlan, Resume, ResumeTaskPlan
<1>3. CASE UNCHANGED tasks \/ tasks' = EndActive("cancelled")
  BY <1>3 DEF EndActive, Ended, Moved
<1>4. CASE (\E here \in {{}} \cup {{h} : h \in Host} : Cancel(here)) \/ CancelRoot
  BY <1>3, <1>4, Zenon DEF Cancel, CancelTaskPlan, CancelRoot, CancelObjective, ledger
<1>5. CASE Retry
  BY <1>5 DEF Retry, PrepareTaskPlanRetry, Moved
<1>6. CASE Correct
  BY <1>6 DEF Correct, PrepareTaskCorrections, Ended, Moved
<1>7. CASE Reconcile
  <2>1. PICK first \in [Interrupted -> Expired] :
          tasks' = [u \in Task |-> IF u \in Interrupted THEN Reconciled(u, first[u])
                                   ELSE tasks[u]]
    BY <1>7 DEF Reconcile, ReconcileExpiredTaskRuns
  <2>2. ASSUME NEW r PROVE Reconciled(t, r).cand \in {tasks[t].cand, None}
    <3>1. CASE tasks[t].status # "running"
      BY <3>1 DEF Reconciled
    <3>2. CASE tasks[t].status = "running"
      BY <3>2 DEF Reconciled, Ended, Moved
    <3> QED
      BY <3>1, <3>2
  <2> QED
    BY <2>1, <2>2
<1> QED
  BY <1>1, <1>2, <1>4, <1>5, <1>6, <1>7 DEF Next

\* A worker that reverifies judges, or gives up.
LEMMA ReverifierActs ==
  ASSUME NEW h \in Host, NEW t \in Task, WorkerStep(h, t), worker[h][t].pc = "reverifying",
         host[h].mode = "verify"
  PROVE  (\E ok \in BOOLEAN : Judge(h, t, ok)) \/ StillUnavailable(h, t)
<1>1. ~FailDependent(h, t) /\ ~Pick(h, t)
  BY DEF FailDependent, Pick, Iterates, Graph
<1> QED
  BY <1>1 DEF WorkerStep, MarkRunning, StartRun, RefuseRun, Mutate, Answer, Throw, Accept,
              Reject, Requeue, Catch, CloseRun, LoseLease, At

\* While verifiers look at candidates, nobody else works on the Plan.
LEMMA VerdictsStep ==
  ASSUME IInv, Claimed, Attended, objective = "running", Verdicts, Next
  PROVE  Verdicts'
<1>1. ASSUME NEW h \in Host, NEW t \in Task, WorkerStep(h, t) PROVE Verdicts'
  <2> SUFFICES ASSUME NEW g \in Host, NEW u \in Task, worker'[g][u].pc = "reverifying"
               PROVE  tasks'[u].cand \in {worker'[g][u].run, None}
    BY DEF Verdicts
  <2>1. worker[g][u].pc = "reverifying" /\ (g # h \/ u # t => worker'[g][u] = worker[g][u])
    <3>1. RefuseRun(h, t) => worker'[h][t].pc # "reverifying"
      BY RefusedWorkers DEF IInv, IdleWorker
    <3> QED
      BY <1>1, <3>1, WorkerSteady, PickedPc, RefusedWorkers DEF Steady, IInv
  <2>2. host[g].mode = "verify" /\ g = h
    BY <1>1, <2>1, ActsForHost, OneClaimant DEF Attended
  <2>3. worker[h][t].pc # "idle"
    <3>1. ~FailDependent(h, t) /\ ~Pick(h, t)
      BY <2>2 DEF FailDependent, Pick, Iterates, Graph
    <3> QED
      BY <1>1, <3>1, ActingWorker
  <2>4. (\E ok \in BOOLEAN : Judge(h, t, ok)) \/ StillUnavailable(h, t)
    BY <1>1, <2>2, <2>3, ReverifierActs DEF Attended
  <2>5. worker'[h][t] = IdleWorker /\ \A v \in Task \ {t} : tasks'[v] = tasks[v]
    BY <2>4, ReturnsIdle DEF IInv, LedgerTypeOK, Judge, ResolveCandidateVerification,
                             StillUnavailable, ledger
  <2> QED
    BY <2>1, <2>2, <2>5 DEF Verdicts, IdleWorker
<1>2. CASE ~\E h \in Host, t \in Task : WorkerStep(h, t)
  <2>1. ASSUME NEW g \in Host, NEW t \in Task
        PROVE  \/ worker'[g][t] = worker[g][t]
               \/ worker'[g][t].pc = "idle"
               \/ worker'[g][t].run = tasks[t].cand /\ UNCHANGED tasks
    BY <1>2, HostWorkers, OutsideWorkers DEF IInv, IdleWorker
  <2>2. \A t \in Task : tasks'[t].cand \in {tasks[t].cand, None}
    BY <1>2, CandidateStays
  <2> QED
    BY <2>1, <2>2 DEF Verdicts
<1> QED
  BY <1>1, <1>2

\* A result that is new is the output its verifier accepted.
LEMMA ResultStep ==
  ASSUME IInv, Verdicts, ResultWasAccepted, Next
  PROVE  ResultWasAccepted'
<1> SUFFICES ASSUME NEW t \in Criteria, tasks'[t].status = "succeeded"
             PROVE  tasks'[t].result \in accepted'
  BY DEF ResultWasAccepted
<1>1. t \in Task /\ tasks \in [Task -> TaskRow]
  BY PlanAssumption DEF IInv, LedgerTypeOK
<1>2. CASE tasks[t].status = "succeeded"
  BY <1>1, <1>2, NextRight, AcceptedGrows DEF Kept, ResultWasAccepted
<1>3. CASE tasks[t].status # "succeeded"
  <2>1. PICK h \in Host : SucceedsBy(h, t)
    BY <1>1, <1>3, NewSuccess
  <2>2. CASE Accept(h, t) /\ SettleTaskRunAndTask(worker[h][t].run, t)
    <3>1. tasks'[t].result = worker[h][t].run
      BY <1>1, <2>2 DEF SettleTaskRunAndTask, Succeeded
    <3>2. worker[h][t].run \in accepted'
      BY <2>2 DEF Accept
    <3> QED
      BY <3>1, <3>2
  <2>3. CASE Judge(h, t, TRUE) /\ Reverifiable(t) /\ tasks' = [tasks EXCEPT ![t] = Judged(t, TRUE)]
    <3>1. tasks'[t].result = tasks[t].cand /\ tasks[t].cand # None
      BY <1>1, <2>3 DEF Judged, Succeeded, Reverifiable
    <3>2. worker[h][t].run \in accepted' /\ worker[h][t].pc = "reverifying"
      BY <2>3 DEF Judge, At
    <3> QED
      BY <1>1, <3>1, <3>2 DEF Verdicts
  <2> QED
    BY <2>1, <2>2, <2>3 DEF SucceedsBy
<1> QED
  BY <1>2, <1>3

\* The Objective goes on.
LEMMA ObjectiveRuns ==
  ASSUME RootStays
  PROVE  Spec => [](objective = "running")
<1>1. Init => objective = "running"
  BY DEF Init, LedgerInit
<1>2. IInv /\ objective = "running" /\ [Next]_vars => (objective = "running")'
  BY ObjectiveStays DEF vars
<1> QED
  BY <1>1, <1>2, Invariant, PTL DEF Spec

\* A Task with Acceptance Criteria that succeeded has as its result an output
\* that a verifier accepted: the settlement writes the output it was called for,
\* and a late verdict finds the candidate it judged, because whoever could write
\* another needs the claim.
THEOREM ResultsWereAccepted ==
  ASSUME Exclusive, Concurrency = 1 \/ Undisturbed, RootStays
  PROVE  Spec => []ResultWasAccepted
<1>1. Init => Verdicts /\ ResultWasAccepted
  BY PlanAssumption DEF Init, LedgerInit, Verdicts, IdleWorker, ResultWasAccepted
<1>2. /\ IInv /\ Claimed /\ Attended /\ objective = "running"
      /\ (Verdicts /\ ResultWasAccepted) /\ [Next]_vars
      => (Verdicts /\ ResultWasAccepted)'
  <2>1. UNCHANGED vars => (Verdicts' <=> Verdicts) /\ (ResultWasAccepted' <=> ResultWasAccepted)
    BY DEF vars, Verdicts, ResultWasAccepted
  <2> QED
    BY <2>1, VerdictsStep, ResultStep
<1>3. Spec => []Attended
  BY AttendedAlways
<1> QED
  BY <1>1, <1>2, <1>3, Invariant, AlwaysClaimed, ObjectiveRuns, PTL DEF Spec

-----------------------------------------------------------------------------
(* The status of the Plan.                                                 *)

\* A status that is derived from all Tasks.
LEMMA AggregateSays ==
  ASSUME NEW rows, \A t \in Task : rows[t].status \in Statuses
  PROVE  /\ Aggregate(rows) = "succeeded" => \A t \in Task : rows[t].status = "succeeded"
         /\ Aggregate(rows) = "cancelled" =>
              \A t \in Task : rows[t].status \in {"succeeded", "cancelled"}
<1> DEFINE some(s) == \E t \in Task : rows[t].status = s
<1>1. /\ Aggregate(rows) = "succeeded" =>
           ~some("failed") /\ ~some("running") /\ ~some("pending") /\ ~some("cancelled")
      /\ Aggregate(rows) = "cancelled" =>
           ~some("failed") /\ ~some("running") /\ ~some("pending")
  BY DEF Aggregate, Some
<1> QED
  BY <1>1 DEF Statuses, Live, Terminal

\* The outcome that TaskGraph.run() computes when it is done.
LEMMA OutcomeSays ==
  ASSUME NEW rows, NEW s \in {"succeeded", "cancelled"}, OutcomePlan(rows).status = s,
         plan.status # s
  PROVE  /\ ~Some(rows, "failed") /\ ~Some(rows, "running")
         /\ s = "succeeded" <=> ~Some(rows, "cancelled")
<1>1. ~Some(rows, "running") /\ OutcomePlan(rows) = PlanTo(Outcome(rows))
  BY DEF OutcomePlan
<1>2. Outcome(rows) = s
  BY <1>1 DEF PlanTo
<1> QED
  BY <1>1, <1>2 DEF Outcome

\* A host that is done has left no Task waiting, if recovery may repeat them all.
LEMMA NoneWaits ==
  ASSUME Safe = Task, NEW h \in Host, NEW t \in Task, t \notin Waiting(h)
  PROVE  tasks[t].status # "pending"
BY DEF Waiting, CanExecute

\* How a Plan comes to its outcome: from all its Tasks as the step leaves them,
\* from a run() that is done, or because it is cancelled.
LEMMA NewOutcome ==
  ASSUME IInv, Next, NEW s \in {"succeeded", "cancelled"}, plan'.status = s, plan.status # s
  PROVE  \/ Aggregate(tasks') = s
         \/ \E h \in Host : /\ (Finish(h) \/ CancelWaiting(h)) /\ Busy(h) = {}
                            /\ OutcomePlan(tasks).status = s
                            /\ Finish(h) => Waiting(h) = {}
         \/ s = "cancelled" /\ \E here : Cancel(here) /\ CancelTaskPlan
<1>0. plan \in PlanRow /\ plan.status \in Statuses
  BY DEF IInv, LedgerTypeOK, PlanRow, Statuses
<1>1. ASSUME NEW to, plan' = PlanTo(to) PROVE to = s
  BY <1>0, <1>1 DEF PlanTo, PlanRow
<1>2. plan' # plan
  OBVIOUS
<1>3. ASSUME NEW to, NEW reopen, plan' = SyncedPlan(to, reopen) PROVE to = s
  BY <1>0, <1>1, <1>2, <1>3 DEF SyncedPlan, PlanRow
<1>4. ASSUME NEW h \in Host, HostStep(h)
      PROVE  /\ (Finish(h) \/ CancelWaiting(h)) /\ Busy(h) = {}
             /\ OutcomePlan(tasks).status = s
             /\ Finish(h) => Waiting(h) = {}
  <2>1. ~Execute(h) /\ ~Delegate(h) /\ ~Recover(h)
    BY <1>1, Zenon DEF Execute, Delegate, Recover
  <2>2. ~Refused(h) /\ ~Reverify(h) /\ ~Await(h) /\ ~EndReverify(h) /\ ~Abort(h) /\ ~LoseClaim(h)
        /\ ~Crash(h)
    BY <1>2, Zenon DEF Refused, Reverify, Await, EndReverify, Abort, LoseClaim, Crash, ledger
  <2>3. Finish(h) => Waiting(h) = {} /\ plan' = OutcomePlan(tasks) /\ Busy(h) = {}
    BY <1>2, Zenon DEF Finish
  <2>4. CancelWaiting(h) => Busy(h) = {} /\ plan' = OutcomePlan(tasks)
    BY <1>2, Zenon DEF CancelWaiting
  <2>5. Finish(h) \/ CancelWaiting(h)
    BY <1>4, <2>1, <2>2 DEF HostStep
  <2> QED
    BY <2>3, <2>4, <2>5
<1>5. ASSUME NEW h \in Host, NEW t \in Task, WorkerStep(h, t) PROVE Aggregate(tasks') = s
  <2>1. ~RefuseRun(h, t)
    BY <1>1, <1>2, Zenon DEF RefuseRun
  <2>2. PICK ok \in BOOLEAN : Judge(h, t, ok)
    BY <1>2, <1>5, <2>1, Zenon
    DEF WorkerStep, FailDependent, Pick, MarkRunning, StartRun, Mutate, Answer, Throw, Accept,
        Reject, Requeue, Catch, CloseRun, StillUnavailable, LoseLease, Settles, Transition,
        TransitionRun, RecordRun, AdvanceTaskRoute, SettleTaskRunAndTask, ledger
  <2>3. plan' = PlanAfterVerification(tasks')
    BY <1>2, <2>2 DEF Judge, ResolveCandidateVerification, ledger
  <2> QED
    BY <1>0, <1>2, <2>3 DEF PlanAfterVerification, PlanRow
<1>6. ~(\E r \in Run : ExpireLease(r)) /\ ~ExpireClaim
  BY <1>2, Zenon DEF ExpireLease, ExpireClaim
<1>7. ASSUME NEW here, Cancel(here) PROVE s = "cancelled" /\ CancelTaskPlan
  <2>1. CancelTaskPlan
    BY <1>2, <1>7, Zenon DEF Cancel, ledger
  <2> QED
    BY <1>1, <2>1 DEF CancelTaskPlan
<1>8. CancelRoot => Aggregate(tasks') = s
  BY <1>2, <1>3 DEF CancelRoot, CancelObjective, PlanFromTasks
<1>9. ~Pause /\ ~Resume
  BY <1>0 DEF Pause, PauseTaskPlan, Resume, ResumeTaskPlan, PlanRow
<1>10. ~Retry /\ ~Correct
  BY <1>3, Zenon DEF Retry, PrepareTaskPlanRetry, Correct, PrepareTaskCorrections
<1>11. Reconcile => Aggregate(tasks') = s
  <2>1. Reconcile => plan' = PlanFromTasks(tasks')
    BY DEF Reconcile, ReconcileExpiredTaskRuns
  <2> QED
    BY <1>3, <2>1 DEF PlanFromTasks
<1> QED
  BY <1>4, <1>5, <1>6, <1>7, <1>8, <1>9, <1>10, <1>11 DEF Next

\* A host that was told to stop leaves a Task cancelled, or will.
Ending ==
  \A h \in Host : host[h].aborted /\ host[h].mode \in Graph =>
    \E t \in Task : \/ tasks[t].status = "cancelled"
                    \/ worker[h][t].pc \in {"executing", "verifying", "catching"}

\* A Plan that succeeds keeps its Tasks, and one that comes to succeed has them.
LEMMA PlanSuccessStep ==
  ASSUME IInv, Ending, Safe = Task, PlanSuccess, Next
  PROVE  PlanSuccess'
<1> SUFFICES ASSUME plan'.status = "succeeded", NEW t \in Task
             PROVE  tasks'[t].status = "succeeded"
  BY DEF PlanSuccess
<1>0. LedgerTypeOK' /\ Kept
  BY NextRight DEF IInv
<1>1. \A u \in Task : tasks[u].status \in Statuses /\ tasks'[u].status \in Statuses
  BY <1>0 DEF IInv, LedgerTypeOK, TaskRow, Statuses
<1>2. CASE plan.status = "succeeded"
  BY <1>0, <1>2 DEF PlanSuccess, Kept
<1>3. CASE plan.status # "succeeded"
  <2>1. CASE Aggregate(tasks') = "succeeded"
    BY <1>1, <2>1, AggregateSays
  <2>2. ASSUME NEW h \in Host, Finish(h) \/ CancelWaiting(h), Busy(h) = {},
               OutcomePlan(tasks).status = "succeeded", Finish(h) => Waiting(h) = {}
        PROVE  tasks'[t].status = "succeeded"
    <3>1. ~Some(tasks, "failed") /\ ~Some(tasks, "running") /\ ~Some(tasks, "cancelled")
      BY <1>3, <2>2, OutcomeSays
    <3>2. CASE Finish(h)
      <4>1. tasks[t].status # "pending"
        BY <2>2, <3>2, NoneWaits
      <4> QED
        BY <1>0, <1>1, <3>1, <4>1 DEF Some, Statuses, Live, Terminal, Kept
    <3>3. CASE CancelWaiting(h) /\ Busy(h) = {}
      <4>1. host[h].aborted /\ host[h].mode \in Graph
        BY <3>3 DEF CancelWaiting, Iterates
      <4> QED
        BY <3>1, <3>3, <4>1 DEF Ending, Some, Busy
    <3> QED
      BY <2>2, <3>2, <3>3
  <2> QED
    BY <1>3, <2>1, <2>2, NewOutcome
<1> QED
  BY <1>2, <1>3

-----------------------------------------------------------------------------
(* Hosts that are told to stop.                                            *)

\* A host is told to stop by an abort or because its claim is lost.
LEMMA NotTold ==
  ASSUME Executors, NEW h \in Host, HostStep(h), ~Abort(h), ~LoseClaim(h), NEW g \in Host,
         host'[g].aborted
  PROVE  host[g].aborted /\ host'[g].mode = host[g].mode
<1> DEFINE row == [host[h] EXCEPT !.scanning = FALSE]
<1>1. row.mode = host[h].mode /\ row.aborted = host[h].aborted
  BY DEF Executors, HostState
<1> HIDE DEF row
<1>2. ASSUME host' = [host EXCEPT ![h] = row] \/ UNCHANGED host
      PROVE  host[g].aborted /\ host'[g].mode = host[g].mode
  BY <1>1, <1>2 DEF Executors
<1>3. ASSUME NEW new, host' = [host EXCEPT ![h] = new], ~new.aborted
      PROVE  host[g].aborted /\ host'[g].mode = host[g].mode
  BY <1>3 DEF Executors
<1>4. ~IdleHost.aborted
  BY DEF IdleHost
<1>5. ASSUME NEW mode, Starts(h, mode)
      PROVE  host[g].aborted /\ host'[g].mode = host[g].mode
  BY <1>3, <1>5 DEF Starts
<1>6. CASE Execute(h) \/ Delegate(h) \/ Recover(h) \/ Reverify(h)
  BY <1>5, <1>6, Zenon DEF Execute, Delegate, Recover, Reverify
<1>7. CASE Refused(h) \/ Await(h)
  BY <1>2, <1>7, Zenon DEF Refused, Await, row
<1>8. CASE CancelWaiting(h)
  <2>1. host' = [host EXCEPT ![h] = row] \/ host' = [host EXCEPT ![h] = IdleHost]
    BY <1>8, Zenon DEF CancelWaiting, row
  <2> QED
    BY <1>2, <1>3, <1>4, <2>1
<1>9. CASE Finish(h) \/ EndReverify(h) \/ Crash(h)
  <2>1. host' = [host EXCEPT ![h] = IdleHost]
    BY <1>9, Zenon DEF Finish, EndReverify, Crash
  <2> QED
    BY <1>3, <1>4, <2>1
<1> QED
  BY <1>6, <1>7, <1>8, <1>9 DEF HostStep

\* Whoever works on a Plan that is not cancelled does not lose its claim.
LEMMA ClaimNotLost ==
  ASSUME Claimed, objective = "running", NEW h \in Host
  PROVE  ~LoseClaim(h)
BY DEF Claimed, LoseClaim, Claiming

\* Workers leave the signals of their hosts alone.
LEMMA WorkerSignals ==
  ASSUME IInv, NEW h \in Host, NEW t \in Task, WorkerStep(h, t), NEW g \in Host
  PROVE  /\ host'[g].aborted = host[g].aborted
         /\ host'[g].mode \in {host[g].mode, "idle"}
BY WorkerSteady, PickedPc, RefusedWorkers DEF Steady, IInv

\* So do leases and the recovery service.
LEMMA OutsideHosts ==
  ASSUME Next, "cancel" \notin Commands, ~\E h \in Host : HostStep(h),
         ~\E h \in Host, t \in Task : WorkerStep(h, t)
  PROVE  UNCHANGED host
<1>1. CASE (\E r \in Run : ExpireLease(r)) \/ ExpireClaim
  BY <1>1, Zenon DEF ExpireLease, ExpireClaim
<1>2. CASE (\E here \in {{}} \cup {{h} : h \in Host} : Cancel(here)) \/ CancelRoot
  BY <1>2, Zenon DEF Cancel, CancelRoot
<1>3. CASE Pause \/ Resume \/ Retry \/ Correct \/ Reconcile
  BY <1>3, Zenon DEF Pause, Resume, Retry, Correct, Reconcile, Outside
<1> QED
  BY <1>1, <1>2, <1>3 DEF Next

Undisrupted == "cancel" \notin Commands /\ "abort" \notin Commands

NobodyAborts == \A h \in Host : ~host[h].aborted

\* Without the commands that stop work, no host is told to stop.
LEMMA NobodyAbortsStep ==
  ASSUME IInv, Undisrupted, Claimed, objective = "running", NobodyAborts, Next
  PROVE  NobodyAborts'
<1> SUFFICES ASSUME NEW g \in Host PROVE ~host'[g].aborted
  BY DEF NobodyAborts
<1>1. ~host[g].aborted
  BY DEF NobodyAborts
<1>2. ASSUME NEW h \in Host, HostStep(h) PROVE ~host'[g].aborted
  BY <1>1, <1>2, NotTold, ClaimNotLost DEF IInv, Abort, Undisrupted
<1>3. ASSUME NEW h \in Host, NEW t \in Task, WorkerStep(h, t) PROVE ~host'[g].aborted
  BY <1>1, <1>3, WorkerSignals
<1> QED
  BY <1>1, <1>2, <1>3, OutsideHosts DEF Undisrupted

-----------------------------------------------------------------------------
(* A host that waits has a worker to wait for.                             *)

Waits == \A h \in Host : host[h].mode \in Graph /\ ~host[h].scanning => Busy(h) # {}

\* What the step of a worker does to its host.
LEMMA WorkerHost ==
  ASSUME IInv, NEW h \in Host, NEW t \in Task, WorkerStep(h, t), ~RefuseRun(h, t)
  PROVE  \/ Returns(h, t)
         \/ UNCHANGED host /\ (UNCHANGED worker \/ worker'[h][t].pc # "idle")
<1> DEFINE wanted == \/ Returns(h, t)
                     \/ UNCHANGED host /\ (UNCHANGED worker \/ worker'[h][t].pc # "idle")
<1> SUFFICES wanted
  OBVIOUS
<1>0. Executors
  BY DEF IInv
<1>1. ASSUME NEW w, Goes(h, t, w), w.pc # "idle" PROVE wanted
  BY <1>0, <1>1, GoesOn
<1>2. ASSUME NEW pc \in Pc \ {"idle"}, Goes(h, t, To(worker[h][t], pc)) PROVE wanted
  BY <1>0, <1>1, <1>2, WorkerRow, ToRow
<1>3. ASSUME NEW unavailable, Catches(h, t, unavailable) PROVE wanted
  <2> DEFINE w == [worker[h][t] EXCEPT !.pc = "catching",
                     !.end = IF unavailable THEN "succeeded" ELSE "failed"]
  <2>1. w.pc = "catching"
    BY <1>0, WorkerRow DEF WorkerState
  <2>2. Goes(h, t, w)
    BY <1>3 DEF Catches
  <2> HIDE DEF w, wanted
  <2> QED
    BY <1>1, <2>1, <2>2
<1>4. CASE UNCHANGED <<host, worker>>
  BY <1>4
<1>5. CASE Returns(h, t)
  BY <1>5
<1> HIDE DEF wanted
<1>6. CASE FailDependent(h, t) \/ Mutate(h, t)
  BY <1>4, <1>6, Zenon DEF FailDependent, Mutate
<1>7. CASE Pick(h, t)
  BY <1>0, <1>7, PickedPc DEF wanted
<1>8. CASE MarkRunning(h, t)
  <2>1. Goes(h, t, To(worker[h][t], "marked")) \/ Returns(h, t)
    BY <1>8, Zenon DEF MarkRunning
  <2> QED
    BY <1>2, <1>5, <2>1 DEF Pc
<1>9. ASSUME NEW r \in Run, StartRun(h, t, r) PROVE wanted
  <2> DEFINE w == [worker[h][t] EXCEPT !.pc = "executing", !.run = r]
  <2>1. w.pc = "executing"
    BY <1>0, WorkerRow DEF WorkerState
  <2>2. Goes(h, t, w)
    BY <1>9 DEF StartRun
  <2> HIDE DEF w
  <2> QED
    BY <1>1, <2>1, <2>2
<1>10. CASE Answer(h, t) \/ Throw(h, t) \/ Accept(h, t)
  <2>1. \/ \E unavailable \in BOOLEAN : Catches(h, t, unavailable)
        \/ Returns(h, t)
        \/ Goes(h, t, To(worker[h][t], "verifying"))
    BY <1>10, Zenon DEF Answer, Throw, Accept, Settles, At
  <2> QED
    BY <1>2, <1>3, <1>5, <2>1 DEF Pc
<1>11. CASE Reject(h, t)
  <2>1. Goes(h, t, To(worker[h][t], "rejected")) \/ Returns(h, t)
    BY <1>11, Zenon DEF Reject
  <2> QED
    BY <1>2, <1>5, <2>1 DEF Pc
<1>12. CASE Requeue(h, t)
  <2> DEFINE w == [worker[h][t] EXCEPT !.pc = "requeued", !.run = None,
                                       !.attempt = worker[h][t].attempt + 1]
  <2>1. w.pc = "requeued"
    BY <1>0, WorkerRow DEF WorkerState
  <2>2. Goes(h, t, w) \/ Returns(h, t)
    BY <1>12 DEF Requeue
  <2> HIDE DEF w
  <2> QED
    BY <1>1, <1>5, <2>1, <2>2
<1>13. CASE Catch(h, t)
  <2> DEFINE closing(end) == [worker[h][t] EXCEPT !.pc = "closing", !.end = end]
  <2>1. \A end : closing(end).pc = "closing"
    BY <1>0, WorkerRow DEF WorkerState
  <2> HIDE DEF closing
  <2>2. \E end \in {"failed", "succeeded", IF host[h].aborted THEN "cancelled" ELSE "failed"} :
          Goes(h, t, closing(end))
    BY <1>13, Zenon DEF Catch, closing
  <2> QED
    BY <1>1, <2>1, <2>2
<1>14. CASE CloseRun(h, t) \/ (\E ok \in BOOLEAN : Judge(h, t, ok)) \/ StillUnavailable(h, t)
  BY <1>5, <1>14, Zenon DEF CloseRun, Judge, StillUnavailable
<1>15. CASE LoseLease(h, t)
  <2> DEFINE w == [worker[h][t] EXCEPT !.aborted = TRUE]
  <2>1. w.pc # "idle"
    BY <1>0, <1>15, WorkerRow DEF WorkerState, LoseLease
  <2>2. Goes(h, t, w)
    BY <1>0, <1>15 DEF LoseLease, Goes, Executors
  <2> HIDE DEF w
  <2> QED
    BY <1>1, <2>1, <2>2
<1> QED
  BY <1>6, <1>7, <1>8, <1>9, <1>10, <1>11, <1>12, <1>13, <1>14, <1>15 DEF WorkerStep

\* The busy workers of a host.
LEMMA BusyStays ==
  ASSUME NEW g \in Host, \A t \in Task : worker[g][t].pc # "idle" => worker'[g][t].pc # "idle",
         Busy(g) # {}
  PROVE  Busy(g)' # {}
BY DEF Busy

\* run() stops looking at the ledger only while one of its workers is busy.
LEMMA WaitsStep ==
  ASSUME IInv, Waits, "cancel" \notin Commands, Next
  PROVE  Waits'
<1> SUFFICES ASSUME NEW g \in Host, host'[g].mode \in Graph, ~host'[g].scanning
             PROVE  Busy(g)' # {}
  BY DEF Waits
<1>0. Executors
  BY DEF IInv
<1>1. ASSUME host'[g] = host[g], \A t \in Task : worker'[g][t] = worker[g][t]
      PROVE  Busy(g)' # {}
  BY <1>1, BusyStays DEF Waits
<1>2. ASSUME NEW h \in Host, HostStep(h) PROVE Busy(g)' # {}
  <2>0. h \in Host /\ host \in [Host -> HostState]
    BY <1>0 DEF Executors
  <2>1. ASSUME NEW mode, Starts(h, mode), \A t \in Task : g # h => worker'[g][t] = worker[g][t]
        PROVE  Busy(g)' # {}
    <3>1. CASE g = h
      BY <2>0, <2>1, <3>1 DEF Starts
    <3>2. CASE g # h
      BY <1>1, <2>0, <2>1, <3>2 DEF Starts
    <3> QED
      BY <3>1, <3>2
  <2>2. ASSUME host' = [host EXCEPT ![h] = IdleHost],
               \A t \in Task : g # h => worker'[g][t] = worker[g][t]
        PROVE  Busy(g)' # {}
    BY <1>1, <2>0, <2>2 DEF IdleHost, Graph
  <2>3. ASSUME NEW row, host' = [host EXCEPT ![h] = row], UNCHANGED worker,
               Busy(h) # {} \/ (row.mode = host[h].mode /\ row.scanning = host[h].scanning)
        PROVE  Busy(g)' # {}
    <3>1. CASE g = h /\ Busy(h) # {}
      BY <2>3, <3>1 DEF Busy
    <3>2. CASE g = h /\ row.mode = host[h].mode /\ row.scanning = host[h].scanning
      BY <2>0, <2>3, <3>2 DEF Waits, Busy
    <3>3. CASE g # h
      BY <1>1, <2>0, <2>3, <3>3
    <3> QED
      BY <2>3, <3>1, <3>2, <3>3
  <2>4. CASE Execute(h) \/ Delegate(h) \/ Recover(h)
    BY <2>1, <2>4, Zenon DEF Execute, Delegate, Recover
  <2>5. CASE Reverify(h)
    <3>1. Starts(h, "verify")
      BY <2>5, Zenon DEF Reverify
    <3>2. \A t \in Task : g # h => worker'[g][t] = worker[g][t]
      BY <1>0, <2>5, ReverifyWorkers
    <3> QED
      BY <2>1, <3>1, <3>2
  <2>6. CASE Refused(h)
    BY <1>1, <2>6 DEF Refused
  <2>7. CASE Await(h)
    <3>1. \E row : host' = [host EXCEPT ![h] = row] /\ UNCHANGED worker /\ Busy(h) # {}
      BY <2>7, Zenon DEF Await
    <3> QED
      BY <2>3, <3>1
  <2>8. CASE CancelWaiting(h)
    <3>1. /\ UNCHANGED worker
          /\ \/ \E row : host' = [host EXCEPT ![h] = row] /\ Busy(h) # {}
             \/ host' = [host EXCEPT ![h] = IdleHost]
      BY <2>8, Zenon DEF CancelWaiting
    <3> QED
      BY <2>2, <2>3, <3>1
  <2>9. CASE Finish(h) \/ EndReverify(h)
    BY <2>2, <2>9, Zenon DEF Finish, EndReverify
  <2>10. CASE Abort(h) \/ LoseClaim(h)
    <3> DEFINE row == [host[h] EXCEPT !.aborted = TRUE]
    <3>1. row.mode = host[h].mode /\ row.scanning = host[h].scanning
      BY <2>0 DEF HostState
    <3>2. host' = [host EXCEPT ![h] = row] /\ UNCHANGED worker
      BY <2>10, Zenon DEF Abort, LoseClaim
    <3> HIDE DEF row
    <3> QED
      BY <2>3, <3>1, <3>2
  <2>11. CASE Crash(h)
    <3>1. host' = [host EXCEPT ![h] = IdleHost]
      BY <2>11 DEF Crash
    <3> QED
      BY <1>0, <2>2, <2>11, <3>1, CrashedWorkers
  <2> QED
    BY <1>2, <2>4, <2>5, <2>6, <2>7, <2>8, <2>9, <2>10, <2>11 DEF HostStep
<1>3. ASSUME NEW h \in Host, NEW t \in Task, WorkerStep(h, t) PROVE Busy(g)' # {}
  <2>1. CASE RefuseRun(h, t)
    <3>1. g # h
      BY <1>0, <2>1, RefusedWorkers DEF Graph
    <3> QED
      BY <1>0, <1>1, <2>1, <3>1, RefusedWorkers
  <2>2. CASE Returns(h, t)
    <3>1. g # h
      <4>1. host' = [host EXCEPT ![h] = [host[h] EXCEPT !.scanning = host[h].mode \in Graph]]
        BY <2>2 DEF Returns
      <4>2. host[h] \in HostState /\ host'[h].mode = host[h].mode
        BY <1>0, <2>2, ReturnsIdle DEF Executors
      <4> QED
        BY <1>0, <4>1, <4>2 DEF Executors, HostState
    <3>2. host'[g] = host[g] /\ \A u \in Task : worker'[g][u] = worker[g][u]
      BY <1>0, <2>2, <3>1, ReturnsIdle DEF Returns, Executors
    <3> QED
      BY <1>1, <3>2
  <2>3. CASE UNCHANGED host /\ (UNCHANGED worker \/ worker'[h][t].pc # "idle")
    <3>1. \A u \in Task : worker[g][u].pc # "idle" => worker'[g][u].pc # "idle"
      BY <1>3, <2>3, WorkerSteady, PickedPc, RefusedWorkers DEF Steady, IInv, IdleWorker
    <3>2. Busy(g) # {}
      BY <2>3 DEF Waits
    <3> QED
      BY <3>1, <3>2, BusyStays
  <2> QED
    BY <1>3, <2>1, <2>2, <2>3, WorkerHost
<1>4. CASE (~\E h \in Host : HostStep(h)) /\ ~\E h \in Host, t \in Task : WorkerStep(h, t)
  BY <1>1, <1>4, OutsideHosts, OutsideWorkers
<1> QED
  BY <1>2, <1>3, <1>4

-----------------------------------------------------------------------------
(* A host that was told to stop cancels what it was doing.                 *)

\* A worker in its catch block.
LEMMA CatchesPc ==
  ASSUME Executors, NEW h \in Host, NEW t \in Task, NEW unavailable, Catches(h, t, unavailable)
  PROVE  worker'[h][t].pc = "catching"
<1> DEFINE w == [worker[h][t] EXCEPT !.pc = "catching",
                   !.end = IF unavailable THEN "succeeded" ELSE "failed"]
<1>1. w.pc = "catching" /\ Goes(h, t, w)
  BY WorkerRow DEF WorkerState, Catches
<1> HIDE DEF w
<1> QED
  BY <1>1, GoesOn

\* The worker of such a host gets to its catch block, and from there cancels.
LEMMA EndingWorker ==
  ASSUME IInv, Undisturbed, Supervised, NEW h \in Host, NEW t \in Task, WorkerStep(h, t),
         host[h].aborted, worker[h][t].pc \in {"executing", "verifying", "catching"}
  PROVE  \/ tasks'[t].status = "cancelled"
         \/ worker'[h][t].pc \in {"executing", "verifying", "catching"}
<1>0. Aborted(h, t) /\ Executors
  BY DEF Aborted, IInv
<1>1. ~FailDependent(h, t) /\ ~Pick(h, t) /\ ~LoseLease(h, t) /\ ~Reject(h, t)
  BY <1>0, NeverLosesLease DEF FailDependent, Pick, Reject
<1>2. /\ ~MarkRunning(h, t) /\ ~Requeue(h, t) /\ ~CloseRun(h, t)
      /\ \A r \in Run : ~StartRun(h, t, r)
      /\ ~RefuseRun(h, t)
      /\ \A ok \in BOOLEAN : ~Judge(h, t, ok)
      /\ ~StillUnavailable(h, t)
  <2>1. worker[h][t].pc \notin {"picked", "requeued", "marked", "rejected", "closing", "reverifying"}
    OBVIOUS
  <2>2. ~MarkRunning(h, t) /\ ~Requeue(h, t) /\ ~CloseRun(h, t)
    BY <2>1 DEF MarkRunning, Requeue, CloseRun, At
  <2>3. (\A r \in Run : ~StartRun(h, t, r)) /\ ~RefuseRun(h, t)
    <3>1. worker[h][t].pc # "marked"
      BY <2>1
    <3>2. \A r \in Run : ~StartRun(h, t, r)
      BY <3>1, Zenon DEF StartRun, At
    <3> QED
      BY <3>2, NeverRefused
  <2>4. (\A ok \in BOOLEAN : ~Judge(h, t, ok)) /\ ~StillUnavailable(h, t)
    BY <2>1 DEF Judge, StillUnavailable, At
  <2> QED
    BY <2>2, <2>3, <2>4
<1>3. CASE Mutate(h, t)
  BY <1>3 DEF Mutate
<1>4. CASE Answer(h, t) \/ Throw(h, t) \/ Accept(h, t)
  <2>1. \E unavailable : Catches(h, t, unavailable)
    BY <1>0, <1>4, Zenon DEF Answer, Throw, Accept
  <2> QED
    BY <1>0, <2>1, CatchesPc
<1>5. CASE Catch(h, t)
  BY <1>5, CatchGuarded
<1> QED
  BY <1>1, <1>2, <1>3, <1>4, <1>5 DEF WorkerStep

\* Every step keeps what a host that was told to stop has cancelled, or will.
LEMMA EndingStep ==
  ASSUME IInv, Undisturbed, Claimed, Attended, Supervised, Waits, Ending, Next
  PROVE  Ending'
<1> SUFFICES ASSUME NEW g \in Host, host'[g].aborted, host'[g].mode \in Graph
             PROVE  \E t \in Task :
                      \/ tasks'[t].status = "cancelled"
                      \/ worker'[g][t].pc \in {"executing", "verifying", "catching"}
  BY DEF Ending
<1> DEFINE wanted == \E t \in Task :
                       \/ tasks'[t].status = "cancelled"
                       \/ worker'[g][t].pc \in {"executing", "verifying", "catching"}
<1>0. Executors /\ Kept
  BY NextRight DEF IInv
<1>1. ASSUME host[g].aborted, host'[g].mode = host[g].mode,
             \A t \in Task : worker[g][t].pc \in {"executing", "verifying", "catching"} =>
               \/ tasks'[t].status = "cancelled"
               \/ worker'[g][t].pc \in {"executing", "verifying", "catching"}
      PROVE  wanted
  BY <1>0, <1>1 DEF Ending, Kept
<1>2. ASSUME NEW h \in Host, HostStep(h) PROVE wanted
  <2>1. CASE Abort(h)
    <3>1. UNCHANGED worker /\ Suspended(h) /\ host' = [host EXCEPT ![h] = [host[h] EXCEPT !.aborted = TRUE]]
      BY <2>1 DEF Abort
    <3>2. CASE g = h
      <4>1. host[g].mode \in Graph
        BY <1>0, <3>1, SameModes
      <4>2. PICK t \in Task : worker[g][t].pc # "idle"
        BY <3>1, <3>2, <4>1 DEF Waits, Suspended, Busy
      <4>3. worker[g][t].pc \in {"executing", "verifying"}
        BY <3>1, <3>2, <4>1, <4>2 DEF Suspended, Busy, Attended, Graph
      <4> QED
        BY <3>1, <4>3
    <3>3. CASE g # h
      BY <1>0, <1>1, <3>1, <3>3 DEF Executors
    <3> QED
      BY <3>2, <3>3
  <2>2. CASE ~Abort(h)
    <3>1. host[g].aborted /\ host'[g].mode = host[g].mode
      BY <1>0, <1>2, <2>2, NotTold, ClaimNotLost DEF Supervised
    <3>2. \A t \in Task : worker'[g][t] = worker[g][t]
      <4>1. CASE Crash(h)
        BY <1>0, <4>1, CrashedWorkers DEF IdleHost, Graph
      <4>2. CASE Reverify(h)
        BY <1>0, <4>2, ReverifyWorkers DEF Graph
      <4>3. CASE ~Crash(h) /\ ~Reverify(h)
        BY <1>2, <4>3, Zenon DEF HostStep, Execute, Refused, Delegate, Recover, Await,
           CancelWaiting, Finish, EndReverify, Abort, LoseClaim
      <4> QED
        BY <4>1, <4>2, <4>3
    <3> QED
      BY <1>1, <3>1, <3>2
  <2> QED
    BY <2>1, <2>2
<1>3. ASSUME NEW h \in Host, NEW t \in Task, WorkerStep(h, t) PROVE wanted
  <2>1. host[g].aborted /\ host'[g].mode = host[g].mode
    BY <1>3, WorkerSignals DEF Graph
  <2>2. \A u \in Task : g # h \/ u # t => worker'[g][u] = worker[g][u]
    BY <1>3, WorkerSteady, PickedPc, NeverRefused DEF Steady, IInv
  <2>3. g = h /\ worker[g][t].pc \in {"executing", "verifying", "catching"} =>
          \/ tasks'[t].status = "cancelled"
          \/ worker'[g][t].pc \in {"executing", "verifying", "catching"}
    BY <1>3, <2>1, EndingWorker
  <2> QED
    BY <1>1, <2>1, <2>2, <2>3
<1>4. CASE (~\E h \in Host : HostStep(h)) /\ ~\E h \in Host, t \in Task : WorkerStep(h, t)
  BY <1>1, <1>4, OutsideHosts, OutsideWorkers DEF Undisturbed
<1> QED
  BY <1>2, <1>3, <1>4

\* In both settings.
LEMMA AlwaysEnding ==
  ASSUME Exclusive, Undisrupted \/ Undisturbed
  PROVE  Spec => []Ending
<1>0. Init => Waits /\ Ending /\ NobodyAborts
  BY DEF Init, IdleHost, Waits, Ending, NobodyAborts, Graph
<1>1. CASE Undisrupted
  <2>1. RootStays
    BY <1>1 DEF Undisrupted, RootStays
  <2>2. IInv /\ Claimed /\ objective = "running" /\ NobodyAborts /\ [Next]_vars => NobodyAborts'
    BY <1>1, NobodyAbortsStep DEF vars, NobodyAborts
  <2>3. NobodyAborts => Ending
    BY DEF NobodyAborts, Ending
  <2> QED
    BY <1>0, <2>1, <2>2, <2>3, Invariant, AlwaysClaimed, ObjectiveRuns, PTL DEF Spec
<1>2. CASE Undisturbed
  <2>1. Spec => [](Attended /\ Supervised)
    BY <1>2, AlwaysSupervised
  <2>2. /\ IInv /\ Claimed /\ (Attended /\ Supervised) /\ (Waits /\ Ending) /\ [Next]_vars
        => (Waits /\ Ending)'
    <3>1. UNCHANGED vars => (Waits' <=> Waits) /\ (Ending' <=> Ending)
      BY DEF vars, Waits, Busy, Ending
    <3> QED
      BY <1>2, <3>1, EndingStep, WaitsStep DEF Undisturbed
  <2> QED
    BY <1>0, <2>1, <2>2, Invariant, AlwaysClaimed, PTL DEF Spec
<1> QED
  BY <1>1, <1>2

\* A Plan is marked succeeded only if every Task in it did, although the outcome
\* is computed from rows that were read before waiting Tasks are cancelled: a
\* host that was told to stop has a cancelled Task among them.  Assumed is that
\* recovery may repeat every Task, for a recovery counts only those it may; that
\* no process sleeps past its leases; and either that nobody cancels or aborts,
\* or that nobody cancels or retries and Tasks have one route.
THEOREM SuccessfulPlans ==
  ASSUME Exclusive, Safe = Task, Undisrupted \/ Undisturbed
  PROVE  Spec => []PlanSuccess
<1>1. Init => PlanSuccess
  BY DEF Init, LedgerInit, PlanSuccess
<1>2. IInv /\ Ending /\ PlanSuccess /\ [Next]_vars => PlanSuccess'
  <2>1. UNCHANGED vars => (PlanSuccess' <=> PlanSuccess)
    BY DEF vars, PlanSuccess
  <2> QED
    BY <2>1, PlanSuccessStep
<1> QED
  BY <1>1, <1>2, Invariant, AlwaysEnding, PTL DEF Spec

-----------------------------------------------------------------------------
(* Cancelled Plans.                                                        *)

\* transition() leaves Tasks that ended as they are.
LEMMA TransitionOfLive ==
  ASSUME IInv, NEW t \in Task, NEW to, NEW verif, NEW cand, NEW attempts,
         Transition(t, to, verif, cand, attempts), NEW u \in Task, tasks[u].status \notin Live
  PROVE  tasks'[u] = tasks[u]
BY DEF Transition, MayTransition, IInv, LedgerTypeOK, Live

\* Workers do not revive Tasks that ended.
LEMMA WorkersDoNotRevive ==
  ASSUME IInv, NEW h \in Host, NEW t \in Task, WorkerStep(h, t), NEW u \in Task,
         tasks[u].status \notin Live
  PROVE  tasks'[u].status \notin Live
<1>0. tasks \in [Task -> TaskRow]
  BY DEF IInv, LedgerTypeOK
<1>1. ASSUME \E to, verif, cand, attempts : Transition(t, to, verif, cand, attempts)
      PROVE  tasks'[u].status \notin Live
  BY <1>1, TransitionOfLive
<1>2. ASSUME HasNextRoute(t), AdvanceTaskRoute(t) PROVE tasks'[u].status \notin Live
  BY <1>0, <1>2 DEF HasNextRoute, AdvanceTaskRoute, Live
<1>3. ASSUME Settles(h, t) PROVE tasks'[u].status \notin Live
  <2>1. UNCHANGED tasks \/ SettleTaskRunAndTask(worker[h][t].run, t)
    BY <1>3, Zenon DEF Settles, ledger
  <2> QED
    BY <1>0, <2>1 DEF SettleTaskRunAndTask, Succeeded, Live
<1>4. ASSUME UNCHANGED tasks PROVE tasks'[u].status \notin Live
  BY <1>4
<1>5. CASE FailDependent(h, t) \/ MarkRunning(h, t)
  BY <1>1, <1>5, Zenon DEF FailDependent, MarkRunning
<1>6. CASE Pick(h, t) \/ (\E r \in Run : StartRun(h, t, r)) \/ Mutate(h, t) \/ Throw(h, t)
           \/ Reject(h, t) \/ CloseRun(h, t) \/ StillUnavailable(h, t) \/ LoseLease(h, t)
  BY <1>4, <1>6, Zenon DEF Pick, StartRun, RecordRun, Mutate, Throw, Reject, CloseRun,
     TransitionRun, StillUnavailable, LoseLease, ledger
<1>7. CASE RefuseRun(h, t)
  <2>1. UNCHANGED tasks \/ tasks' = EndActive("failed")
    BY <1>7, Zenon DEF RefuseRun
  <2> QED
    BY <2>1 DEF EndActive, Ended, Moved, Live
<1>8. CASE Answer(h, t) \/ Accept(h, t)
  BY <1>1, <1>3, <1>4, <1>8, Zenon DEF Answer, Accept, ledger
<1>9. CASE Requeue(h, t) \/ Catch(h, t)
  BY <1>1, <1>2, <1>9, Zenon DEF Requeue, Catch
<1>10. CASE \E ok \in BOOLEAN : Judge(h, t, ok)
  BY <1>0, <1>10 DEF Judge, ResolveCandidateVerification, Judged, Succeeded, Moved, Live, ledger
<1> QED
  BY <1>5, <1>6, <1>7, <1>8, <1>9, <1>10 DEF WorkerStep

\* Only a correction or a retry revives a Task, and one that failed.
LEMMA Revived ==
  ASSUME IInv, Next, NEW t \in Task, tasks[t].status \notin Live, tasks'[t].status \in Live
  PROVE  tasks[t].status = "failed" /\ tasks'[t].status = "pending"
<1>0. tasks[t] \in TaskRow
  BY DEF IInv, LedgerTypeOK
<1>1. ~\E h \in Host : HostStep(h)
  BY HostLedger DEF Ended, Moved, Live
<1>2. ~\E h \in Host, u \in Task : WorkerStep(h, u)
  BY WorkersDoNotRevive
<1>3. tasks' # tasks /\ tasks' # EndActive("cancelled")
  BY DEF EndActive, Ended, Moved, Live
<1>4. ~(\E r \in Run : ExpireLease(r)) /\ ~ExpireClaim /\ ~Pause /\ ~Resume
  BY <1>3, Zenon DEF ExpireLease, ExpireClaim, Pause, PauseTaskPlan, Resume, ResumeTaskPlan
<1>5. ~(\E here \in {{}} \cup {{h} : h \in Host} : Cancel(here)) /\ ~CancelRoot
  BY <1>3, Zenon DEF Cancel, CancelTaskPlan, CancelRoot, CancelObjective, ledger
<1>6. CASE Retry
  <2>1. Retryable(t) /\ tasks'[t].status = "pending"
    BY <1>6 DEF Retry, PrepareTaskPlanRetry, Moved
  <2> QED
    BY <2>1 DEF Retryable
<1>7. CASE Correct
  <2>1. Correctable(t) /\ tasks'[t].status = "pending"
    BY <1>7 DEF Correct, PrepareTaskCorrections, Ended, Moved
  <2> QED
    BY <2>1 DEF Correctable
<1>8. ~Reconcile
  BY DEF Reconcile, ReconcileExpiredTaskRuns, Reconciled, Live
<1> QED
  BY <1>1, <1>2, <1>4, <1>5, <1>6, <1>7, <1>8 DEF Next

\* What CancelledPlanIsQuiet says of a step.
Quiet ==
  plan'.status = "cancelled" =>
    \A t \in Task : tasks'[t].status \in Live =>
      IF plan.status = "cancelled"
      THEN \/ tasks[t].status \in Live
           \/ tasks[t].status = "failed" /\ tasks'[t].status = "pending"
      ELSE t \notin Safe /\ tasks[t].status = "pending"

\* Every step is quiet.
LEMMA QuietStep ==
  ASSUME IInv, Next
  PROVE  Quiet
<1> SUFFICES ASSUME plan'.status = "cancelled", NEW t \in Task, tasks'[t].status \in Live
             PROVE  IF plan.status = "cancelled"
                    THEN \/ tasks[t].status \in Live
                         \/ tasks[t].status = "failed" /\ tasks'[t].status = "pending"
                    ELSE t \notin Safe /\ tasks[t].status = "pending"
  BY DEF Quiet
<1>0. LedgerTypeOK' /\ Kept
  BY NextRight DEF IInv
<1>1. \A u \in Task : tasks[u].status \in Statuses /\ tasks'[u].status \in Statuses
  BY <1>0 DEF IInv, LedgerTypeOK, TaskRow, Statuses
<1>2. CASE plan.status = "cancelled"
  BY <1>2, Revived
<1>3. CASE plan.status # "cancelled"
  <2>1. CASE Aggregate(tasks') = "cancelled"
    BY <1>1, <2>1, AggregateSays DEF Live
  <2>2. ASSUME NEW h \in Host, Finish(h) \/ CancelWaiting(h), Busy(h) = {},
               OutcomePlan(tasks).status = "cancelled", Finish(h) => Waiting(h) = {}
        PROVE  t \notin Safe /\ tasks[t].status = "pending"
    <3>1. tasks[t].status = "pending"
      <4>1. tasks[t].status \in {"pending", "succeeded", "cancelled"}
        BY <1>1, <1>3, <2>2, OutcomeSays DEF Some, Statuses, Live, Terminal
      <4> QED
        BY <1>0, <4>1 DEF Kept, Live
    <3>2. t \notin Waiting(h)
      <4>1. CASE CancelWaiting(h)
        <5>1. t \in Waiting(h) => tasks'[t] = Ended(tasks[t], "cancelled")
          BY <4>1 DEF CancelWaiting
        <5> QED
          BY <5>1 DEF Ended, Moved, Live
      <4> QED
        BY <2>2, <4>1
    <3> QED
      BY <3>1, <3>2 DEF Waiting, CanExecute
  <2>3. CASE CancelTaskPlan
    <3>1. tasks'[t] = (IF tasks[t].status \in Live THEN Ended(tasks[t], "cancelled") ELSE tasks[t])
      BY <2>3 DEF CancelTaskPlan, EndActive
    <3> QED
      BY <3>1 DEF Ended, Moved, Live
  <2> QED
    BY <1>3, <2>1, <2>2, <2>3, NewOutcome
<1> QED
  BY <1>2, <1>3

\* When a Plan becomes cancelled it has no Task left that is pending or
\* running, but one that a recovery may not execute, and afterwards only a
\* correction or a retry revives one of its Tasks, and only one that failed:
\* for any Tasks, dependencies, hosts, crashes, suspensions and commands.
THEOREM CancelledPlansAreQuiet == Spec => CancelledPlanIsQuiet
<1>1. IInv /\ [Next]_vars => [Quiet]_vars
  BY QuietStep
<1>2. [Quiet]_vars =>
        [plan'.status = "cancelled" =>
           \A t \in Task : tasks'[t].status \in Live =>
             IF plan.status = "cancelled"
             THEN \/ tasks[t].status \in Live
                  \/ tasks[t].status = "failed" /\ tasks'[t].status = "pending"
             ELSE t \notin Safe /\ tasks[t].status = "pending"]_vars
  BY DEF Quiet
<1> QED
  BY <1>1, <1>2, Invariant, PTL DEF Spec, CancelledPlanIsQuiet

==============================================================================
