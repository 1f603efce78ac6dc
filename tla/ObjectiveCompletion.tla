------------------------- MODULE ObjectiveCompletion -------------------------
(***************************************************************************)
(* From the answer of a turn to the receipt of the channel: one Objective,  *)
(* the turns that work on it (AgentRuntime), the synthesis of its Plan      *)
(* (ObjectiveRuntime), the late verifier (TaskRecoveryRunner) and the two   *)
(* ways its result reaches the user, the interactive presentation           *)
(* (Dispatcher) and the outbox workers (ObjectiveCompletionDelivery).       *)
(*                                                                         *)
(* A turn is named by its Task Run; a correction goes on as a turn of the   *)
(* new Run.  A worker stands for the delivery service of one process and    *)
(* for the token of its latest claim: it claims again only after it has     *)
(* given the earlier claim up or crashed, which nobody uses any more.       *)
(* An action is what one handler does between two awaits.                   *)
(***************************************************************************)
EXTENDS Naturals, Sequences

CONSTANTS
  Run,             \* Task Runs of the Objective
  Result,          \* what turns may answer
  Worker,          \* processes that deliver from the outbox
  None,
  Origins,         \* how the Objective began: by a turn that created it, by an
                   \* initiative that left it to a turn, or as one with a Plan
  MaxAttempts,     \* attempts before a completion is blocked
  MaxCorrections,  \* corrective attempts of one turn
  MaxFaults        \* bound on what may recur: crashes, stalls, lost leases,
                   \* deferrals, notices delivered again, retries of the Plan,
                   \* automation turns that fail before they have a Run

ASSUME CompletionAssumption ==
  /\ None \notin Run \cup Result \cup Worker
  /\ Origins \subseteq {"turn", "initiative", "plan"}
  /\ MaxAttempts \in Nat \ {0}
  /\ MaxCorrections \in 0 .. 2
  /\ MaxFaults \in Nat

VARIABLES
  objective,  \* the Objective's row in the ledger
  run,        \* its Task Runs
  last,       \* the Run that succeeded last
  plan,       \* status of the Plan, "none" for a direct Objective
  notices,    \* outcomes of the Plan whose notice is not acknowledged
  row,        \* the Objective's row in the outbox
  turn,       \* per Run: the turn or synthesis that works under it
  verifier,   \* the candidate the recovery service is verifying, or None
  worker,     \* the delivery services
  sent,       \* results the channel accepted; a receipt is an index of it
  published,  \* results published to organization memory
  faults      \* history: how many of these there were

ledger == <<objective, run, last>>
plans == <<plan, notices>>
agents == <<turn, verifier, worker>>
outside == <<sent, published, faults>>
vars == <<ledger, plans, row, agents, outside>>

Receipt == Nat  \* 0 is no receipt

Objectives ==
  [status : {"pending", "running", "succeeded", "failed", "cancelled"},
   verdict : {"none", "pending", "accepted", "rejected", "unavailable"},
   candidate : Result \cup {None}, result : Result \cup {None}]

\* failed stands for cancelled too; cancel is cancellation_requested_at.
Runs == [status : {"absent", "running", "succeeded", "failed"},
         lease : BOOLEAN, cancel : BOOLEAN, output : Result \cup {None}]

\* due: next_attempt_at has passed.
Rows ==
  [status : {"absent", "queued", "delivering", "delivered", "blocked"},
   run : Run \cup {None}, result : Result \cup {None},
   token : Worker \cup {None}, attempts : Nat, due : BOOLEAN,
   receipt : Receipt]

Turns ==
  [pc : {"idle", "working", "judging", "correcting", "thrown", "accepted",
         "presented", "published"},
   kind : {"create", "continue", "automation", "synthesis"}, candidate : Result \cup {None},
   fixes : 0 .. MaxCorrections, lost : BOOLEAN, receipt : Receipt]

\* receipt and attempts as of the claim, then the receipt of the send.
Workers ==
  [pc : {"idle", "claimed", "sent", "publishing", "completing", "failing",
         "deferring"},
   receipt : Receipt, attempts : Nat]

TypeOK ==
  /\ objective \in Objectives
  /\ run \in [Run -> Runs]
  /\ last \in Run \cup {None}
  /\ plan \in {"none", "running", "failed", "succeeded", "cancelled"}
  /\ notices \subseteq {"failed", "succeeded"}
  /\ row \in Rows
  /\ turn \in [Run -> Turns]
  /\ \A r \in Run : turn[r].pc = "correcting" => turn[r].fixes < MaxCorrections
  /\ verifier \in Result \cup {None}
  /\ worker \in [Worker -> Workers]
  /\ sent \in Seq(Result)
  /\ published \subseteq Result
  /\ faults \in 0 .. MaxFaults

NoTurn == [pc |-> "idle", kind |-> "continue", candidate |-> None, fixes |-> 0,
           lost |-> FALSE, receipt |-> 0]
NoWork == [pc |-> "idle", receipt |-> 0, attempts |-> 0]

\* createObjective() has recorded and started the Objective; one of the
\* initiative is recorded as pending.
Init ==
  /\ \E origin \in Origins :
       /\ objective =
            [status |-> IF origin = "initiative" THEN "pending" ELSE "running",
             verdict |-> "none", candidate |-> None, result |-> None]
       /\ plan = IF origin = "plan" THEN "running" ELSE "none"
  /\ run = [r \in Run |-> [status |-> "absent", lease |-> FALSE,
                           cancel |-> FALSE, output |-> None]]
  /\ last = None
  /\ notices = {}
  /\ row = [status |-> "absent", run |-> None, result |-> None,
            token |-> None, attempts |-> 0, due |-> FALSE, receipt |-> 0]
  /\ turn = [r \in Run |-> NoTurn]
  /\ verifier = None
  /\ worker = [w \in Worker |-> NoWork]
  /\ sent = <<>> /\ published = {} /\ faults = 0

-----------------------------------------------------------------------------
(* The ledger and the outbox (packages/memory/src/store.ts).               *)

Running == objective.status = "running"
Active == objective.status \in {"pending", "running"}
Planned == plan # "none"

\* The result the row carries is still the accepted candidate.
Current ==
  /\ row.status # "absent"
  /\ Running /\ objective.verdict = "accepted"
  /\ objective.candidate = row.result
  /\ run[row.run].status = "succeeded" /\ run[row.run].output = row.result

\* An update of the Objective, which does nothing once it has ended.
Update(o) == objective' = IF Active THEN o ELSE objective

\* A candidate comes with the status running, whatever it was.
Candidate(x, verdict) ==
  [objective EXCEPT !.status = "running", !.candidate = x, !.verdict = verdict]

Ends(status) == [objective EXCEPT !.status = status]

\* May the outbox hold result x of Run r?  The Objective has one row, which
\* keeps the result it was inserted with.
MayEnqueueAnyway(r, x) == TRUE
MayEnqueue(r, x) ==
  row.status = "absent" \/ (row.run = r /\ row.result = x)

Enqueued(r, x, due) ==
  IF row.status = "absent"
  THEN [row EXCEPT !.status = "queued", !.run = r, !.result = x, !.due = due]
  ELSE row

Accepts(r, x, due) ==
  /\ objective' = [objective EXCEPT !.status = "running",
                     !.verdict = "accepted", !.candidate = x]
  /\ row' = Enqueued(r, x, due)

\* settleDirectObjectiveCompletion(): Run, candidate and outbox at once.
MaySettle(r, x) ==
  /\ Running
  /\ run[r].status = "running" /\ ~run[r].cancel /\ run[r].lease
  /\ MayEnqueue(r, x)

RunSucceeds(r, x) ==
  /\ run' = [run EXCEPT ![r].status = "succeeded", ![r].output = x]
  /\ last' = r

Settle(r, x, due) ==
  /\ RunSucceeds(r, x)
  /\ Accepts(r, x, due)

\* renewTaskRunLease(): the Run may go on.  transitionRun() asks as much of a
\* success, and that the Objective is running, which an update just made it.
Renewable(r) ==
  run[r].status = "running" /\ ~run[r].cancel /\ run[r].lease /\ Active

RunEnds(r, status) ==
  run' = [run EXCEPT ![r].status = IF @ = "running" THEN status ELSE @]

Receives(receipt) ==
  row' = [row EXCEPT !.receipt = receipt]

\* recordObjectiveCompletionReceipt(): the first receipt stays; one that comes
\* after a cancellation is kept, without making the Objective succeed.
MayRecord(receipt) ==
  IF row.receipt # 0 THEN row.receipt = receipt
  ELSE \/ Current
       \/ row.status = "blocked" /\ objective.status = "cancelled"

\* A receipt that comes after the cancellation is kept all the same.
MayKeep(receipt) ==
  row.status = "blocked" /\ objective.status = "cancelled" /\ MayRecord(receipt)

HoldsAny(w) == row.status = "delivering"
Holds(w) == row.status = "delivering" /\ row.token = w

\* settleObjectiveCompletion() on a row that is not delivered or blocked.
MayDeliver == row.status \in {"queued", "delivering"} /\ Current

DeliverRecorded(receipt) ==
  /\ row' = [row EXCEPT !.status = "delivered", !.token = None]
  /\ objective' = [objective EXCEPT !.status = "succeeded",
                     !.result = row.result, !.candidate = None]
Deliver(receipt) ==
  /\ row' = [row EXCEPT !.status = "delivered", !.token = None,
                        !.receipt = receipt]
  /\ objective' = [objective EXCEPT !.status = "succeeded",
                     !.result = row.result, !.candidate = None]

\* acknowledgeObjectiveCompletion() and completeObjectiveCompletion() on a
\* row in any status.
Settles(receipt, entitled) ==
  IF entitled /\ MayDeliver THEN Deliver(receipt)
  ELSE IF MayKeep(receipt) THEN Receives(receipt) /\ UNCHANGED objective
  ELSE UNCHANGED <<row, objective>>

\* A fault the bound still admits.
Fault == faults < MaxFaults /\ faults' = faults + 1

-----------------------------------------------------------------------------
(* A turn of the agent, up to the acceptance of its answer                  *)
(* (packages/core/src/agent-runtime.ts).                                    *)

Goes(r, t) == turn' = [turn EXCEPT ![r] = t]
Ended(r) == Goes(r, NoTurn)
At(r, pc) == [turn[r] EXCEPT !.pc = pc]

\* recordRun() throws for an Objective that has ended.
Recorded(r) ==
  /\ Active /\ run[r].status = "absent"
  /\ run' = [run EXCEPT ![r].status = "running", ![r].lease = TRUE]

FirstRun == \A r \in Run : run[r].status = "absent"

\* The turn that created the Objective has not begun yet.
Fresh == FirstRun /\ ~Planned /\ Running

\* The first turn created the Objective; later messages continue it.
StartTurn(r) ==
  /\ Recorded(r)
  /\ Goes(r, [NoTurn EXCEPT !.pc = "working",
                            !.kind = IF Fresh THEN "create" ELSE "continue"])
  /\ UNCHANGED <<objective, last, plans, row, verifier, worker, outside>>

\* An automation turn that was told to work on the Objective makes it running,
\* if it was pending when the turn looked for it.
StartAutomation(r) ==
  /\ ~Fresh /\ Recorded(r)
  /\ objective' \in {objective, [objective EXCEPT !.status = "running"]}
  /\ Goes(r, [NoTurn EXCEPT !.pc = "working", !.kind = "automation"])
  /\ UNCHANGED <<last, plans, row, verifier, worker, outside>>

\* Pi answered: the candidate is retained, and verified.
Answer(r, x) ==
  /\ turn[r].pc = "working" /\ turn[r].kind # "synthesis" /\ ~turn[r].lost
  /\ Update(Candidate(x, "pending"))
  /\ Goes(r, [At(r, "judging") EXCEPT !.candidate = x])
  /\ UNCHANGED <<run, last, plans, row, verifier, worker, outside>>

\* An interactive result is left to the presentation for 30 seconds; that of
\* an automation turn, which may still throw, to the outbox alone.  Either may
\* create an Objective.
Accept(r, due) ==
  LET x == turn[r].candidate IN
  /\ turn[r].pc = "judging" /\ ~turn[r].lost
  /\ due => turn[r].kind # "continue"
  /\ turn[r].kind = "automation" => due
  /\ MaySettle(r, x)
  /\ Settle(r, x, due)
  /\ IF turn[r].kind = "automation"
     THEN Ended(r) \/ Goes(r, At(r, "thrown"))
     ELSE Goes(r, At(r, "accepted"))
  /\ UNCHANGED <<plans, verifier, worker, sent, published, faults>>

\* A turn that throws ends, but for the second catch of an automation turn.
Throws(r) ==
  /\ RunEnds(r, "failed")
  /\ Goes(r, IF turn[r].kind = "automation" THEN At(r, "thrown") ELSE NoTurn)

\* The verifier is away, or what it accepted cannot be settled.  The turn
\* throws if its Run may not succeed any more.
Unavailable(r) ==
  LET x == turn[r].candidate
      retained == Candidate(x, "unavailable") IN
  /\ turn[r].pc = "judging" /\ ~turn[r].lost
  /\ IF Renewable(r)
     THEN RunSucceeds(r, x) /\ Update(retained) /\ Ended(r)
     ELSE /\ Throws(r) /\ UNCHANGED last
          /\ Update(IF turn[r].kind = "create"
                    THEN [retained EXCEPT !.status = "failed"] ELSE retained)
  /\ UNCHANGED <<plans, row, verifier, worker, outside>>

MayCorrectOnceMore(r) == turn[r].fixes <= MaxCorrections
MayCorrect(r) == turn[r].fixes < MaxCorrections

Reject(r) ==
  LET x == turn[r].candidate IN
  /\ turn[r].pc = "judging" /\ ~turn[r].lost
  /\ ~MayCorrect(r)
  /\ Update([Candidate(x, "rejected") EXCEPT !.status = "failed"])
  /\ RunEnds(r, "failed")
  /\ Ended(r)
  /\ UNCHANGED <<last, plans, row, verifier, worker, outside>>

\* A rejected answer with a correction left: the Run ends, a new one follows.
RejectToCorrect(r) ==
  LET x == turn[r].candidate IN
  /\ turn[r].pc = "judging" /\ ~turn[r].lost
  /\ MayCorrect(r)
  /\ Update(Candidate(x, "rejected"))
  /\ IF Renewable(r) THEN RunSucceeds(r, x) ELSE UNCHANGED <<run, last>>
  /\ Goes(r, At(r, "correcting"))
  /\ UNCHANGED <<plans, row, verifier, worker, outside>>

Correct(r, r2) ==
  /\ turn[r].pc = "correcting"
  /\ Recorded(r2)
  /\ turn' = [turn EXCEPT
       ![r] = NoTurn,
       ![r2] = [At(r, "working") EXCEPT !.fixes = @ + 1]]
  /\ UNCHANGED <<objective, last, plans, row, verifier, worker, outside>>

\* The heartbeat finds the lease gone, the Run ended or the Objective ended.
Lose(r) ==
  /\ turn[r].pc \in {"working", "judging", "correcting"} /\ ~turn[r].lost
  /\ ~Renewable(r)
  /\ Goes(r, [turn[r] EXCEPT !.lost = TRUE])
  /\ UNCHANGED <<ledger, plans, row, verifier, worker, outside>>

\* The turn throws: a failed or aborted prompt, lost authority, or no Run for
\* the correction.  The turn that created the Objective fails it.
Throw(r) ==
  /\ \/ turn[r].pc \in {"working", "judging"}
     \/ turn[r].pc = "correcting" /\ ~Active
  /\ IF turn[r].kind = "create" THEN Update(Ends("failed"))
                                ELSE UNCHANGED objective
  /\ Throws(r)
  /\ UNCHANGED <<last, plans, row, verifier, worker, outside>>

\* The Objective of an automation turn that threw becomes pending, which
\* clears its candidate and keeps the verdict, or is cancelled with the turn.
GivesBack ==
  \/ objective' = IF Running THEN [objective EXCEPT !.status = "pending",
                                                    !.candidate = None]
                             ELSE objective
  \/ Update(Ends("cancelled"))

GiveBack(r) ==
  /\ turn[r].pc = "thrown"
  /\ GivesBack
  /\ Ended(r)
  /\ UNCHANGED <<run, last, plans, row, verifier, worker, outside>>

\* An automation turn that throws before it has a Run does the same.
GiveBackUnstarted ==
  /\ ~Fresh /\ Fault
  /\ GivesBack
  /\ UNCHANGED <<run, last, plans, row, agents, sent, published>>

CrashTurn(r) ==
  /\ turn[r].pc # "idle" /\ Fault
  /\ Ended(r)
  /\ UNCHANGED <<ledger, plans, row, verifier, worker, sent, published>>

\* The holder of a Run crashed, or slept for longer than its lease.
ExpireLease(r) ==
  /\ run[r].status = "running" /\ run[r].lease
  /\ \/ turn[r].pc = "idle" /\ UNCHANGED faults
     \/ turn[r].pc # "idle" /\ Fault
  /\ run' = [run EXCEPT ![r].lease = FALSE]
  /\ UNCHANGED <<objective, last, plans, row, agents, sent, published>>

InterruptedVerification ==
  objective.candidate # None /\ objective.verdict \in {"pending", "unavailable"}

\* reconcileExpiredTaskRuns(), one expired Run after the other.
Reconcile(r) ==
  /\ run[r].status = "running" /\ ~run[r].lease
  /\ RunEnds(r, "failed")
  /\ objective' = IF ~Running THEN objective
                  ELSE IF InterruptedVerification
                  THEN Candidate(objective.candidate, "unavailable")
                  ELSE Ends("failed")
  /\ UNCHANGED <<last, plans, row, agents, outside>>

-----------------------------------------------------------------------------
(* Verification of a retained candidate by the recovery service             *)
(* (packages/core/src/task-recovery.ts), under a verification claim.        *)

ReverifiableEnded ==
  objective.verdict = "unavailable" /\ objective.candidate # None
Reverifiable ==
  /\ objective.status \in {"running", "failed"}
  /\ objective.verdict = "unavailable" /\ objective.candidate # None

Reverify ==
  /\ verifier = None /\ Reverifiable
  /\ verifier' = objective.candidate
  /\ UNCHANGED <<ledger, plans, row, turn, worker, outside>>

\* resolveCandidateVerification(): the candidate must be the output of the Run
\* that succeeded last.
MayResolve ==
  /\ Reverifiable
  /\ last # None /\ run[last].output = objective.candidate
  /\ MayEnqueue(last, objective.candidate)

ReverifyAccepts ==
  /\ verifier # None /\ verifier' = None
  /\ IF MayResolve THEN Accepts(last, objective.candidate, TRUE)
                   ELSE UNCHANGED <<objective, row>>
  /\ UNCHANGED <<run, last, plans, turn, worker, sent, published, faults>>

ReverifyRejects ==
  /\ verifier # None /\ verifier' = None
  /\ objective' = IF Reverifiable
                  THEN [objective EXCEPT !.status = "failed",
                                         !.verdict = "rejected"]
                  ELSE objective
  /\ UNCHANGED <<run, last, plans, row, turn, worker, outside>>

ReverifyFails ==
  /\ verifier # None /\ verifier' = None
  /\ UNCHANGED <<ledger, plans, row, turn, worker, outside>>

-----------------------------------------------------------------------------
(* The Plan below the Objective and its notices                             *)
(* (packages/core/src/objective-runtime.ts, task-plan-notice-delivery.ts).  *)

\* The Plan settles; enqueueTaskPlanCompletionNotice() queues its outcome.
PlanEnds(outcome) ==
  /\ plan = "running" /\ plan' = outcome
  /\ notices' = notices \cup {outcome}
  /\ UNCHANGED <<ledger, row, agents, outside>>

PlanRetried ==
  /\ plan = "failed" /\ plan' = "running" /\ Fault
  /\ UNCHANGED <<ledger, notices, row, agents, sent, published>>

\* The notice is acknowledged, or fails and is claimed again.
Acknowledged(notice) ==
  \/ notices' = notices \ {notice} /\ UNCHANGED faults
  \/ Fault /\ UNCHANGED notices

\* settlePlan() of a failure, which may be delivered late.
FailureNotice ==
  /\ "failed" \in notices /\ Acknowledged("failed")
  /\ Update(Ends("failed"))
  /\ UNCHANGED <<run, last, plan, row, agents, sent, published>>

\* deliverPlan(): a failed Objective is taken up again; one with an accepted
\* candidate is in the outbox already, or the notice is tried again.
Retried == IF objective.status = "failed"
           THEN [objective EXCEPT !.status = "running", !.result = None]
           ELSE objective

HasAccepted ==
  /\ Retried.status = "running" /\ Retried.verdict = "accepted"
  /\ Retried.candidate # None

DeliverPlan ==
  /\ "succeeded" \in notices
  /\ Retried.status \notin {"pending", "running"} \/ HasAccepted
  /\ objective' = Retried
  /\ IF HasAccepted /\ ~MayEnqueue(last, Retried.candidate)
     THEN UNCHANGED <<notices, faults>> ELSE Acknowledged("succeeded")
  /\ UNCHANGED <<run, last, plan, row, agents, sent, published>>

Synthesize(r) ==
  /\ "succeeded" \in notices /\ run[r].status = "absent"
  /\ Retried.status \in {"pending", "running"} /\ ~HasAccepted
  /\ objective' = Retried
  /\ run' = [run EXCEPT ![r].status = "running", ![r].lease = TRUE]
  /\ Goes(r, [NoTurn EXCEPT !.pc = "working", !.kind = "synthesis"])
  /\ UNCHANGED <<last, plans, row, verifier, worker, outside>>

\* Pi wrote the result from verified Tasks.
Synthesized(r, x) ==
  /\ turn[r].pc = "working" /\ turn[r].kind = "synthesis" /\ ~turn[r].lost
  /\ Ended(r)
  /\ IF MaySettle(r, x)
     THEN /\ Settle(r, x, TRUE)
          /\ Acknowledged("succeeded")
     ELSE /\ RunEnds(r, "failed")
          /\ UNCHANGED <<objective, last, row, notices, faults>>
  /\ UNCHANGED <<plan, verifier, worker, sent, published>>

-----------------------------------------------------------------------------
(* Cancellation.                                                           *)

\* cancelObjective() cancels the Runs and blocks the outbox with it.
CancelObjective ==
  /\ Active
  /\ objective' = Ends("cancelled")
  /\ run' = [r \in Run |->
               [run[r] EXCEPT !.cancel = @ \/ run[r].status = "running"]]
  /\ row' = IF row.status \in {"queued", "delivering"}
            THEN [row EXCEPT !.status = "blocked", !.token = None] ELSE row
  /\ UNCHANGED <<last, plans, agents, outside>>

\* cancelPlans() after the Plan was cancelled writes the Objective only.
CancelPlans ==
  /\ Planned
  /\ plan' = IF plan = "running" THEN "cancelled" ELSE plan
  /\ Update(Ends("cancelled"))
  /\ UNCHANGED <<run, last, notices, row, agents, outside>>

-----------------------------------------------------------------------------
(* The interactive delivery of an accepted answer                           *)
(* (packages/gateway/src/core/dispatcher.ts).                               *)

Sends == sent' = Append(sent, row.result)

\* publishAcceptedObjective() publishes the result as it is at that moment.
PublishesAny ==
  /\ objective.status \in {"running", "succeeded"}
  /\ published' = published \cup
       {IF Running THEN objective.candidate ELSE objective.result}
Publishes ==
  LET x == IF Running THEN objective.candidate ELSE objective.result IN
  /\ objective.status \in {"running", "succeeded"}
  /\ objective.verdict = "accepted" /\ x # None
  /\ published' = published \cup {x}

Present(r) ==
  /\ turn[r].pc = "accepted"
  /\ \/ /\ Sends
        /\ Goes(r, [At(r, "presented") EXCEPT !.receipt = Len(sent')])
     \/ Sends /\ Ended(r)            \* its receipt is lost
     \/ UNCHANGED sent /\ Ended(r)
  /\ UNCHANGED <<ledger, plans, row, verifier, worker, published, faults>>

PublishPresented(r) ==
  /\ turn[r].pc = "presented"
  /\ \/ Publishes /\ Goes(r, At(r, "published"))
     \/ UNCHANGED published /\ Ended(r)
  /\ UNCHANGED <<ledger, plans, row, verifier, worker, sent, faults>>

Acknowledge(r) ==
  /\ turn[r].pc = "published"
  /\ Settles(turn[r].receipt, TRUE)
  /\ Ended(r)
  /\ UNCHANGED <<run, last, plans, verifier, worker, outside>>

-----------------------------------------------------------------------------
(* The outbox workers (packages/core/src/objective-completion-delivery.ts). *)

Does(w, pc) == worker' = [worker EXCEPT ![w].pc = pc]
Rests(w) == worker' = [worker EXCEPT ![w] = NoWork]

\* The retry, the grace period of a presentation or the lease of a claim ends.
\* The holder renews only the completion it is delivering, while it is awake.
Due ==
  /\ row.status \in {"queued", "delivering"} /\ ~row.due
  /\ IF row.status = "delivering" /\ worker[row.token].pc # "idle"
     THEN Fault ELSE UNCHANGED faults
  /\ row' = [row EXCEPT !.due = TRUE]
  /\ UNCHANGED <<ledger, plans, agents, sent, published>>

ClaimableQueued == row.status = "queued" /\ row.due /\ Current
Claimable == row.status \in {"queued", "delivering"} /\ row.due /\ Current

Claim(w) ==
  /\ worker[w].pc = "idle" /\ Claimable
  /\ row' = [row EXCEPT !.status = "delivering", !.token = w, !.due = FALSE,
                        !.attempts = @ + 1]
  /\ worker' = [worker EXCEPT ![w] = [pc |-> "claimed",
                  receipt |-> row.receipt, attempts |-> row.attempts + 1]]
  /\ UNCHANGED <<ledger, plans, turn, verifier, outside>>

\* sendText(), unless the claim came with a receipt.
Send(w) ==
  /\ worker[w].pc = "claimed" /\ worker[w].receipt = 0
  /\ \/ /\ Sends
        /\ worker' = [worker EXCEPT ![w].pc = "sent", ![w].receipt = Len(sent')]
        /\ UNCHANGED faults
     \/ Sends /\ Does(w, "failing") /\ UNCHANGED faults  \* no receipt
     \/ UNCHANGED <<sent, faults>> /\ Does(w, "failing")
     \/ UNCHANGED sent /\ Fault /\ Does(w, "deferring")
  /\ UNCHANGED <<ledger, plans, row, turn, verifier, published>>

\* The receipt is kept before anything else; an aborted delivery stops here.
Record(w) ==
  LET receipt == worker[w].receipt
      recorded == worker[w].pc = "sent" IN
  /\ \/ recorded
     \/ worker[w].pc = "claimed" /\ receipt # 0
  /\ IF recorded /\ MayRecord(receipt) THEN Receives(receipt)
                                       ELSE UNCHANGED row
  /\ IF recorded /\ ~MayRecord(receipt) THEN Does(w, "failing")
     ELSE IF MayKeep(receipt) THEN Rests(w)
     ELSE Does(w, "publishing") \/ Does(w, "failing")
  /\ UNCHANGED <<ledger, plans, turn, verifier, outside>>

Publish(w) ==
  /\ worker[w].pc = "publishing"
  /\ \/ Publishes /\ Does(w, "completing")
     \/ UNCHANGED published /\ Does(w, "failing")
  /\ UNCHANGED <<ledger, plans, row, turn, verifier, sent, faults>>

\* A delivered row takes the acknowledgement of its own key again.
Complete(w) ==
  /\ worker[w].pc = "completing"
  /\ Settles(worker[w].receipt, Holds(w))
  /\ IF \/ Holds(w) /\ MayDeliver
        \/ row.status = "delivered"
        \/ MayKeep(worker[w].receipt)
     THEN Rests(w) ELSE Does(w, "failing")
  /\ UNCHANGED <<run, last, plans, turn, verifier, outside>>

\* The catch block: blocked after the last attempt, or queued again.
Fail(w) ==
  /\ worker[w].pc = "failing"
  /\ row' = IF Holds(w) /\ Current
            THEN [row EXCEPT !.token = None, !.due = FALSE,
                    !.status = IF worker[w].attempts >= MaxAttempts
                               THEN "blocked" ELSE "queued"]
            ELSE row
  /\ Rests(w)
  /\ UNCHANGED <<ledger, plans, turn, verifier, outside>>

\* The channel asked for a later time: the attempt does not count.
Defer(w) ==
  /\ worker[w].pc = "deferring"
  /\ row' = IF Holds(w) /\ Current
            THEN [row EXCEPT !.token = None, !.due = FALSE,
                    !.status = "queued", !.attempts = IF @ = 0 THEN 0 ELSE @ - 1]
            ELSE row
  /\ Rests(w)
  /\ UNCHANGED <<ledger, plans, turn, verifier, outside>>

CrashWorker(w) ==
  /\ worker[w].pc # "idle" /\ Fault
  /\ Rests(w)
  /\ UNCHANGED <<ledger, plans, row, turn, verifier, sent, published>>

-----------------------------------------------------------------------------
TurnStep(r) ==
  \/ StartTurn(r)
  \/ StartAutomation(r)
  \/ \E x \in Result : Answer(r, x)
  \/ \E due \in BOOLEAN : Accept(r, due)
  \/ Unavailable(r)
  \/ Reject(r)
  \/ RejectToCorrect(r)
  \/ \E r2 \in Run : Correct(r, r2)
  \/ Lose(r)
  \/ Throw(r)
  \/ GiveBack(r)
  \/ CrashTurn(r)
  \/ ExpireLease(r)
  \/ Reconcile(r)

PlanStep ==
  \/ PlanEnds("failed")
  \/ PlanEnds("succeeded")
  \/ PlanRetried
  \/ FailureNotice
  \/ DeliverPlan
  \/ \E r \in Run : Synthesize(r)
  \/ \E r \in Run, x \in Result : Synthesized(r, x)

PresentStep(r) == Present(r) \/ PublishPresented(r) \/ Acknowledge(r)

\* A worker goes on by itself once it has claimed.
Work(w) ==
  \/ Send(w)
  \/ Record(w)
  \/ Publish(w)
  \/ Complete(w)
  \/ Fail(w)
  \/ Defer(w)

Next ==
  \/ \E r \in Run : TurnStep(r)
  \/ GiveBackUnstarted
  \/ Reverify
  \/ ReverifyAccepts
  \/ ReverifyRejects
  \/ ReverifyFails
  \/ PlanStep
  \/ CancelObjective
  \/ CancelPlans
  \/ \E r \in Run : PresentStep(r)
  \/ Due
  \/ \E w \in Worker : Claim(w)
  \/ \E w \in Worker : Work(w)
  \/ \E w \in Worker : CrashWorker(w)

Spec == Init /\ [][Next]_vars

\* Time passes, every service polls its outbox, and a delivery that has begun
\* ends: sendText() and the publication return or throw.
FairSpec ==
  /\ Spec
  /\ WF_vars(Due)
  /\ \A w \in Worker : WF_vars(Claim(w)) /\ WF_vars(Work(w))

-----------------------------------------------------------------------------
(* Properties.                                                             *)

\* An Objective with an accepted candidate always has it in the outbox, with
\* the Run it came from (settleDirectObjectiveCompletion,
\* resolveCandidateVerification): no acceptance is recorded that the outbox
\* cannot deliver.  An automation turn that throws takes the candidate back.
AcceptedIsQueued ==
  Running /\ objective.verdict = "accepted" /\ objective.candidate # None =>
    /\ row.status # "absent"
    /\ objective.candidate = row.result
    /\ run[row.run].status = "succeeded" /\ run[row.run].output = row.result

\* The Objective has succeeded exactly when its row is delivered, with the
\* receipt of a message that carried its result (settleObjectiveCompletion).
SucceededWasDelivered ==
  /\ objective.status = "succeeded" <=> row.status = "delivered"
  /\ row.receipt # 0 =>
       row.receipt \in 1 .. Len(sent) /\ sent[row.receipt] = row.result
  /\ objective.status = "succeeded" =>
       row.receipt # 0 /\ objective.result = row.result

\* What is published to organization memory as a delivered outcome is a result
\* the channel accepted, whatever turns did meanwhile (publishDelivered).
PublishedWasSent == published \subseteq {sent[i] : i \in 1 .. Len(sent)}

\* A worker whose claim ran out and was taken over leaves the row alone: only
\* the holder's own failure requeues or blocks it (claim tokens).
TakenOverClaimIsQuiet ==
  [][(/\ row.status = "delivering" /\ row'.status \in {"queued", "blocked"}
      /\ objective' = objective)
       => worker[row.token].pc \in {"failing", "deferring"}]_vars

\* The outbox implements what it promises: one result, success only after a
\* message with it, and final success and cancellation.
Outcome == IF Active THEN "open" ELSE objective.status
Promise == INSTANCE ResultDelivery
  WITH offered <- row.result, messages <- sent, outcome <- Outcome
DeliversOneResult == Promise!Spec

\* A result that can be delivered does not stay so: it is delivered, blocked
\* after the last attempt, or overtaken by a later turn or a cancellation.
Waiting == row.status \in {"queued", "delivering"} /\ Current
DeliverySettles == Waiting ~> ~Waiting
=============================================================================
