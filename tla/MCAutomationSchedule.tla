------------------------ MODULE MCAutomationSchedule ------------------------
(* A small instance of AutomationSchedule.                                 *)
EXTENDS AutomationSchedule

CONSTANTS w1, w2

TwoWorkers == {w1, w2}
AllKinds == {"at", "every", "cron"}
BothPolicies == {"skip", "run_once"}
BothWorks == {"reminder", "agent"}

\* Agent executions are explored without commands of the owner, for one kind
\* of Schedule: those act on the row of the Schedule alone.  What becomes of a
\* delivery is explored with reminders, which are cron Schedules under the other
\* policy.
Explored ==
  IF job.work = "agent"
  THEN commands = 0 /\ job.kind = "cron" /\ job.policy = "run_once" /\ batch = {}
  ELSE job.kind = "cron" => job.policy = "skip"

\* Idle workers without a claim are interchangeable: the first one claims.
FirstWorker ==
  worker[w2].pc = "idle" /\ worker'[w2].pc = "claimed" => Busy(w1) \/ w1 \in live
=============================================================================
