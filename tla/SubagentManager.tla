--------------------------- MODULE SubagentManager ---------------------------
(***************************************************************************)
(* Delegations to sub-agents (packages/core/src/task-manager.ts), admitted  *)
(* by the scheduler of the Profile: spawn, the run of a delegation in its   *)
(* slot, its timeout, cancellation, and the shutdown.  Other work of the    *)
(* Profile competes for the same slots.  TaskGraph, which executes and      *)
(* verifies the Task of a delegation, is its outcome here; TaskExecution    *)
(* models it, and what recovery does to the same Task meanwhile.            *)
(***************************************************************************)
EXTENDS ProfileTaskScheduler

CONSTANTS
  Delegation,   \* the work items that are delegations
  MaxChildren   \* delegations one conversation may have open

ASSUME ManagerAssumption == Delegation \subseteq Work /\ MaxChildren \in Nat \ {0}

VARIABLES
  task,     \* the manager's record of each delegation
  row,      \* status of its Task in the ledger
  disposal, \* of the manager: no, draining (open runs are awaited) or done
  revived   \* history: delegations reported as failed whose Task went on

manager == <<task, row, disposal, revived>>
slots == vars
allVars == <<vars, manager>>

Terminal == {"completed", "failed", "cancelled"}
Open(d) == task[d].status \in {"queued", "running"}
Ended(r) == r \in {"succeeded", "failed", "cancelled"}

\* taskLedgerStatus()
LedgerStatus(s) == IF s = "completed" THEN "succeeded" ELSE s

ManagerInit ==
  /\ Init
  /\ task = [d \in Delegation |-> [status |-> "none", stop |-> "none", run |-> "none"]]
  /\ row = [d \in Delegation |-> "none"]
  /\ disposal = "no"
  /\ revived = {}

-----------------------------------------------------------------------------
(* Steps that several operations share.                                    *)

\* transition() of the ledger: an ended Task keeps its row.
Moved(r, s) == IF r \in {"pending", "running"} THEN s ELSE r

\* finish(), with persist: the record and, if the ledger allows it, the Task.
Finishes(ds, s) ==
  /\ task' = [d \in Delegation |->
       IF d \notin ds THEN task[d]
       ELSE [task[d] EXCEPT !.status = s,
                            !.run = IF @ \in {"executing", "over"} THEN @ ELSE "gone"]]
  /\ row' = [d \in Delegation |->
       IF d \in ds THEN Moved(row[d], LedgerStatus(s)) ELSE row[d]]

\* What runVerifiedTask() makes of the row it reads when the graph has ended.
\* A row that is still open, without a reason to stop, leaves it running.
Reported(t, r) ==
  IF r = "succeeded" THEN "completed"
  ELSE IF r = "cancelled" \/ t.stop = "cancelled" THEN "cancelled"
  ELSE IF r = "failed" \/ t.stop = "timeout" THEN "failed" ELSE "running"

\* Mutant of Conclusion: why it was stopped is asked before what came of it.
StopReasonFirst(t, r) ==
  IF t.stop = "timeout" THEN "failed" ELSE Reported(t, r)

\* finish() ignores what has ended.
Conclusion(t, r) == IF t.status \in Terminal THEN t.status ELSE Reported(t, r)

\* The pump started d: the graph executes a pending Task, and its run ends at
\* once when somebody else took the Task or ended it.
StartsRuns(t, r) ==
  LET begun == {d \in Delegation : t[d].run = "submitted" /\ status'[d] = "running"} IN
  /\ task' = [d \in Delegation |->
       IF d \notin begun THEN t[d]
       ELSE IF r[d] = "pending" THEN [t[d] EXCEPT !.status = "running", !.run = "executing"]
       ELSE [t[d] EXCEPT !.status = Conclusion(t[d], r[d]), !.run = "over"]]
  /\ row' = [d \in Delegation |->
       IF d \in begun /\ r[d] = "pending" THEN "running" ELSE r[d]]
  /\ UNCHANGED <<disposal, revived>>

-----------------------------------------------------------------------------
(* Operations.                                                             *)

Children(o) == {d \in Delegation : OwnerOf[d] = o /\ Open(d)}

\* spawn(): the Task is recorded and the delegation submitted to the scheduler,
\* which starts it, queues it, or rejects it.
Spawn(d) ==
  /\ disposal = "no" /\ task[d].status = "none"
  /\ Cardinality(Children(OwnerOf[d])) < MaxChildren
  /\ LET t == [task EXCEPT ![d].status = "queued", ![d].run = "submitted"]
         r == [row EXCEPT ![d] = "pending"]
     IN \/ Submit(d) /\ StartsRuns(t, r)
        \/ /\ ~HasRoom(OwnerOf[d])
           /\ task' = [t EXCEPT ![d].run = "rejected"] /\ row' = r
           /\ UNCHANGED <<slots, disposal, revived>>

\* The rejection arrives: the delegation failed.
Rejected(d) ==
  /\ task[d].run = "rejected"
  /\ Finishes({d}, "failed")
  /\ UNCHANGED <<slots, disposal, revived>>

\* The graph ends: an aborted execution cancels its Task, another one leaves it
\* succeeded, failed, running because no verdict was available, or pending
\* because its Plan is paused.
GraphEnds(d) ==
  IF task[d].stop # "none" THEN {Moved(row[d], "cancelled")}
  ELSE {Moved(row[d], s) : s \in {"succeeded", "failed", "running", "pending"}}

\* The reason to stop is not read again, so the model forgets it.
EndRun(d) ==
  /\ task[d].run = "executing"
  /\ \E r \in GraphEnds(d) :
       /\ row' = [row EXCEPT ![d] = r]
       /\ task' = [task EXCEPT ![d] = [status |-> Conclusion(@, r), stop |-> "none",
                                       run |-> "over"]]
  /\ UNCHANGED <<slots, disposal, revived>>

\* The timer of a run.
TimeOut(d) ==
  /\ task[d].run = "executing" /\ task[d].stop # "timeout" /\ Open(d)
  /\ task' = [task EXCEPT ![d].stop = "timeout"]
  /\ UNCHANGED <<slots, row, disposal, revived>>

\* The work of a delegation never throws, so the scheduler counts a success.
SettleRun(d) ==
  /\ task[d].run = "over"
  /\ Ends(d) /\ RecordSuccess
  /\ UNCHANGED manager

\* Mutant of Cancel: a queued delegation is left to the scheduler.
CancelInQueue(d) ==
  /\ Open(d) /\ task[d].stop # "cancelled"
  /\ \/ /\ task[d].run = "submitted" /\ Abort(d)
        /\ UNCHANGED manager
     \/ /\ task[d].run = "executing"
        /\ task' = [task EXCEPT ![d].stop = "cancelled"]
        /\ UNCHANGED <<slots, row, disposal, revived>>

\* cancel(): what is queued leaves the scheduler and ends; a run is aborted.
\* A run that is over has no controller any more, so nothing happens to it.
Cancel(d) ==
  /\ Open(d) /\ task[d].stop # "cancelled"
  /\ \/ /\ task[d].run = "submitted" /\ Abort(d)
        /\ Finishes({d}, "cancelled")
        /\ UNCHANGED <<disposal, revived>>
     \/ /\ task[d].run = "rejected"
        /\ Finishes({d}, "cancelled")
        /\ UNCHANGED <<slots, disposal, revived>>
     \/ /\ task[d].run = "executing"
        /\ task' = [task EXCEPT ![d].stop = "cancelled"]
        /\ UNCHANGED <<slots, row, disposal, revived>>

\* dispose(): everything queued is removed and cancelled, every run aborted.
Dispose ==
  LET queued == {d \in Delegation : task[d].status = "queued"}
      stopped == {d \in Delegation : task[d].run = "executing"}
  IN
  /\ disposal = "no" /\ disposal' = "draining"
  /\ Remove({d \in queued : status[d] = "queued"})
  /\ task' = [d \in Delegation |->
       IF d \in queued THEN [task[d] EXCEPT !.status = "cancelled", !.run = "gone"]
       ELSE IF d \in stopped THEN [task[d] EXCEPT !.stop = "cancelled"]
       ELSE task[d]]
  /\ row' = [d \in Delegation |->
       IF d \in queued THEN Moved(row[d], "cancelled") ELSE row[d]]
  /\ UNCHANGED revived

\* ... and when the runs have ended, or after a grace time, what is still open
\* is cancelled, whether its executor has noticed or not.
Disposed ==
  /\ disposal = "draining" /\ disposal' = "done"
  /\ Finishes({d \in Delegation : Open(d)}, "cancelled")
  /\ UNCHANGED <<slots, revived>>

\* The Task of a delegation is a Task of the ledger like any other: another
\* executor takes or ends it, recovery makes it pending again after its lease
\* expired, a verdict arrives late, or a user cancels its Plan.  A Task
\* is not followed further once it went on after the report of its delegation,
\* or the manager is gone: nothing here will read it again.
OthersMove(d) ==
  /\ disposal # "done" /\ d \notin revived
  /\ row[d] \in {"pending", "running"}
  /\ \E s \in {"pending", "running", "succeeded", "failed", "cancelled"} \ {row[d]} :
       row' = [row EXCEPT ![d] = s]
  /\ UNCHANGED <<slots, task, disposal, revived>>

\* A failed Task goes on: it becomes pending, because the user retries its Plan
\* or a corrective attempt is due, or it succeeds with a verdict that was
\* unavailable before.  The manager is not told.
Revive(d) ==
  /\ disposal # "done" /\ row[d] = "failed"
  /\ \E s \in {"pending", "succeeded"} : row' = [row EXCEPT ![d] = s]
  /\ revived' = IF task[d].status \in Terminal THEN revived \cup {d} ELSE revived
  /\ UNCHANGED <<slots, task, disposal>>

-----------------------------------------------------------------------------
OtherWork == Work \ Delegation

ManagerNext ==
  \/ \E d \in Delegation :
       \/ Spawn(d) \/ Rejected(d) \/ EndRun(d) \/ TimeOut(d) \/ SettleRun(d)
       \/ Cancel(d) \/ OthersMove(d) \/ Revive(d)
  \/ \E w \in OtherWork :
       \/ Submit(w) /\ StartsRuns(task, row)
       \/ (Abort(w) \/ Settle(w)) /\ UNCHANGED manager
  \/ \E w \in Work : Release(w) /\ StartsRuns(task, row)
  \/ Dispose \/ Disposed

\* Executors and verifiers end (they are under timeouts, which abort them), and
\* a microtask that is due runs.
ManagerFairness ==
  /\ \A d \in Delegation : WF_allVars(EndRun(d) \/ Rejected(d) \/ SettleRun(d))
  /\ \A w \in OtherWork : WF_allVars(Settle(w) /\ UNCHANGED manager)
  /\ \A w \in Work : WF_allVars(Release(w) /\ StartsRuns(task, row))

ManagerSpec == ManagerInit /\ [][ManagerNext]_allVars /\ ManagerFairness

-----------------------------------------------------------------------------
\* Types of the scheduler and of the manager, and that an execution holds its
\* slot until it is over, also when its delegation was given up by then.
ManagerTypeOK ==
  /\ TypeOK
  /\ \A d \in Delegation :
       /\ task[d].status \in {"none", "queued", "running"} \cup Terminal
       /\ task[d].stop \in {"none", "cancelled", "timeout"}
       /\ row[d] \in {"none", "pending", "running", "succeeded", "failed", "cancelled"}
       /\ task[d].run = "submitted" <=> status[d] = "queued"
       /\ task[d].run = "executing" => status[d] = "running"
  /\ disposal \in {"no", "draining", "done"}
  /\ revived \subseteq Delegation

\* What a conversation is told of a delegation is what the ledger keeps of its
\* Task, although cancellation, timeout, the verdict, shutdown and other
\* executors of the same Task race.  A delegation reported completed has a Task
\* that succeeded, whatever happens later.  One reported cancelled or failed has
\* a Task that ended without a success, unless recovery had executed the Task
\* while the delegation still waited for a slot (run = "gone"), or the failed
\* Task went on after the report.
ReportMatchesLedger ==
  \A d \in Delegation : task[d].status \in Terminal /\ disposal # "done" =>
    /\ task[d].status = "completed" => row[d] = "succeeded"
    /\ d \notin revived =>
         /\ Ended(row[d])
         /\ row[d] = "succeeded" => task[d].status = "completed" \/ task[d].run = "gone"

\* Every delegation that was admitted ends, in the competition for slots with
\* the other conversations, or its run does without a verdict.
DelegationsEnd ==
  \A d \in Delegation : Open(d) ~> ~Open(d) \/ task[d].run = "over"
=============================================================================
