---------------------- MODULE ObjectiveCompletionProofs ----------------------
(***************************************************************************)
(* Proofs about the Completion Outbox, for any number of Runs, results and  *)
(* delivery services, and any number of faults: the invariants of           *)
(* ObjectiveCompletion, and that it implements ResultDelivery.              *)
(*                                                                         *)
(* What the runs check is not inductive.  IInv adds what a row remembers    *)
(* (its Run succeeded with its result, for ever), where receipts come from  *)
(* (each names a message with the row's result), and who may write one      *)
(* (a turn or worker that has sent holds the receipt of a message).         *)
(***************************************************************************)
EXTENDS ObjectiveCompletion, TLAPS

\* A row carries the output of a Run that succeeded; without one there is
\* neither an accepted candidate nor a message.
RowIsRight ==
  IF row.status = "absent"
  THEN /\ row.run = None /\ row.result = None /\ row.receipt = 0
       /\ objective.verdict # "accepted" /\ sent = <<>>
  ELSE /\ row.run \in Run /\ row.result \in Result
       /\ run[row.run].status = "succeeded"
       /\ run[row.run].output = row.result

\* An automation turn that throws leaves the verdict without its candidate.
AcceptedIsRow ==
  objective.verdict = "accepted" /\ objective.status # "succeeded" =>
    objective.candidate \in {None, row.result}

LastSucceeded == last # None => run[last].status = "succeeded"

Messages == \A i \in 1 .. Len(sent) : sent[i] = row.result

IsReceipt(n) == n \in 0 .. Len(sent)

ReceiptsAreRight ==
  /\ IsReceipt(row.receipt)
  /\ \A r \in Run : IsReceipt(turn[r].receipt)
  /\ \A w \in Worker : IsReceipt(worker[w].receipt)

\* What is verified, presented or delivered is there.
SendersHaveReceipts ==
  /\ \A r \in Run :
       /\ turn[r].pc = "judging" => turn[r].candidate # None
       /\ turn[r].pc = "accepted" => row.status # "absent"
       /\ turn[r].pc \in {"presented", "published"} => turn[r].receipt # 0
  /\ \A w \in Worker :
       /\ worker[w].pc # "idle" => row.status # "absent"
       /\ worker[w].pc \in {"sent", "publishing", "completing"}
            => worker[w].receipt # 0

DeliveredIsFinal ==
  /\ objective.status = "succeeded" <=> row.status = "delivered"
  /\ objective.status = "succeeded" =>
       objective.result = row.result /\ row.receipt # 0

IInv == TypeOK /\ RowIsRight /\ AcceptedIsRow /\ LastSucceeded /\ Messages
        /\ ReceiptsAreRight /\ SendersHaveReceipts /\ DeliveredIsFinal
        /\ PublishedWasSent

-----------------------------------------------------------------------------
(* What the operators that actions share do.                               *)

\* Runs keep their types; a Run that succeeded keeps its result.
RunsGoOn ==
  /\ run' \in [Run -> Runs] /\ last' \in Run \cup {None}
  /\ LastSucceeded'
  /\ \A q \in Run : run[q].status = "succeeded" =>
       run'[q].status = "succeeded" /\ run'[q].output = run[q].output

LEMMA RunSucceedsKeeps ==
  ASSUME IInv, NEW r \in Run, NEW x \in Result \cup {None},
         run[r].status = "running", RunSucceeds(r, x)
  PROVE  RunsGoOn /\ last' = r /\ run'[r].status = "succeeded"
                  /\ run'[r].output = x
<1>1. [run[r] EXCEPT !.status = "succeeded", !.output = x] \in Runs
  BY DEF IInv, TypeOK, Runs
<1>2. run' = [run EXCEPT ![r] = [run[r] EXCEPT !.status = "succeeded",
                                             !.output = x]]
  BY DEF RunSucceeds, IInv, TypeOK
<1>3. run'[r] = [run[r] EXCEPT !.status = "succeeded", !.output = x]
  BY <1>1, <1>2 DEF IInv, TypeOK
<1>4. run'[r].status = "succeeded" /\ run'[r].output = x
  BY <1>3 DEF IInv, TypeOK, Runs
<1> QED
  BY <1>1, <1>2, <1>4 DEF RunSucceeds, IInv, TypeOK, RunsGoOn, LastSucceeded

LEMMA RunEndsKeeps ==
  ASSUME IInv, NEW r \in Run, RunEnds(r, "failed"), UNCHANGED last
  PROVE  RunsGoOn
<1>1. [run[r] EXCEPT !.status = IF @ = "running" THEN "failed" ELSE @] \in Runs
  BY DEF IInv, TypeOK, Runs
<1> QED
  BY <1>1 DEF RunEnds, IInv, TypeOK, Runs, RunsGoOn, LastSucceeded

LEMMA SameRunsKeeps ==
  ASSUME IInv, UNCHANGED <<run, last>>
  PROVE  RunsGoOn
BY DEF IInv, TypeOK, RunsGoOn, LastSucceeded

\* What the Objective, its row and the messages have to do with each other.
OutboxKept ==
  /\ objective' \in Objectives /\ row' \in Rows /\ sent' \in Seq(Result)
  /\ RowIsRight' /\ AcceptedIsRow' /\ Messages' /\ DeliveredIsFinal'
  /\ IsReceipt(row.receipt)'
  /\ row.status # "absent" => row'.status # "absent"

OutboxOK ==
  /\ objective \in Objectives /\ row \in Rows /\ sent \in Seq(Result)
  /\ RowIsRight /\ AcceptedIsRow /\ Messages /\ DeliveredIsFinal
  /\ IsReceipt(row.receipt)

LEMMA OutboxIsOK ==
  ASSUME IInv
  PROVE  OutboxOK
BY DEF IInv, TypeOK, OutboxOK, ReceiptsAreRight

\* An acceptance queues its result, or finds it queued.
LEMMA AcceptsKeeps ==
  ASSUME IInv, NEW r \in Run, NEW x \in Result, NEW due \in BOOLEAN,
         MayEnqueue(r, x), Accepts(r, x, due), RunsGoOn, UNCHANGED sent,
         run'[r].status = "succeeded", run'[r].output = x,
         objective.status # "succeeded"
  PROVE  OutboxKept /\ row'.status # "absent"
<1>0. OutboxOK
  BY OutboxIsOK
<1>1. /\ objective' \in Objectives /\ objective'.status = "running"
      /\ objective'.verdict = "accepted" /\ objective'.candidate = x
  BY <1>0 DEF Accepts, OutboxOK, Objectives
<1>2. CASE row.status = "absent"
  <2>1. /\ row' \in Rows /\ row'.status = "queued" /\ row'.run = r
        /\ row'.result = x /\ row'.receipt = row.receipt
    BY <1>0, <1>2 DEF Accepts, Enqueued, OutboxOK, Rows
  <2> QED
    BY <1>0, <1>1, <1>2, <2>1 DEF OutboxOK, OutboxKept, RowIsRight,
       AcceptedIsRow, Messages, DeliveredIsFinal, IsReceipt
<1>3. CASE row.status # "absent"
  <2>1. UNCHANGED row /\ row.run = r /\ row.result = x
    BY <1>3 DEF Accepts, Enqueued, MayEnqueue
  <2> QED
    BY <1>0, <1>1, <1>3, <2>1 DEF OutboxOK, OutboxKept, RowIsRight,
       AcceptedIsRow, Messages, DeliveredIsFinal, IsReceipt
<1> QED BY <1>2, <1>3

\* An Objective that has not succeeded may be given a status, and a candidate
\* that is not accepted.
LEMMA UpdateKeeps ==
  ASSUME IInv, RunsGoOn, UNCHANGED <<row, sent>>,
         objective' \in Objectives,
         objective.status # "succeeded", objective'.status # "succeeded",
         \/ objective'.verdict # "accepted"
         \/ objective'.verdict = objective.verdict
              /\ objective'.candidate \in {None, objective.candidate}
  PROVE  OutboxKept
BY OutboxIsOK DEF OutboxOK, OutboxKept, RowIsRight, AcceptedIsRow, Messages,
   DeliveredIsFinal, IsReceipt, RunsGoOn

LEMMA SameObjectiveKeeps ==
  ASSUME IInv, RunsGoOn, UNCHANGED <<objective, row, sent>>
  PROVE  OutboxKept
BY OutboxIsOK DEF OutboxOK, OutboxKept, RowIsRight, AcceptedIsRow, Messages,
   DeliveredIsFinal, IsReceipt, RunsGoOn

LEMMA CandidateKeeps ==
  ASSUME IInv, RunsGoOn, UNCHANGED <<row, sent>>, NEW x \in Result \cup {None},
         NEW verdict \in {"pending", "unavailable", "rejected"},
         \/ Update(Candidate(x, verdict))
         \/ Update([Candidate(x, verdict) EXCEPT !.status = "failed"])
  PROVE  OutboxKept
<1>1. objective \in Objectives
  BY DEF IInv, TypeOK
<1>2. CASE ~Active
  BY <1>2, SameObjectiveKeeps DEF Update
<1>3. CASE Active
  <2>1. /\ objective' \in Objectives /\ objective'.verdict = verdict
        /\ objective'.status \in {"running", "failed"}
    BY <1>1, <1>3 DEF Objectives, Candidate, Update, Active
  <2> QED BY <1>3, <2>1, UpdateKeeps DEF Active
<1> QED BY <1>2, <1>3

LEMMA EndsKeeps ==
  ASSUME IInv, RunsGoOn, UNCHANGED <<row, sent>>,
         NEW status \in {"failed", "cancelled"}, Update(Ends(status))
  PROVE  OutboxKept
<1>1. objective \in Objectives
  BY DEF IInv, TypeOK
<1>2. CASE ~Active
  BY <1>2, SameObjectiveKeeps DEF Update
<1>3. CASE Active
  <2>1. /\ objective' \in Objectives /\ objective'.status = status
        /\ objective'.verdict = objective.verdict
        /\ objective'.candidate = objective.candidate
    BY <1>1, <1>3 DEF Objectives, Ends, Update
  <2> QED BY <1>3, <2>1, UpdateKeeps DEF Active
<1> QED BY <1>2, <1>3

\* An automation turn gives the Objective back: pending without its candidate,
\* or cancelled.
LEMMA GivesBackKeeps ==
  ASSUME IInv, RunsGoOn, UNCHANGED <<row, sent>>, GivesBack
  PROVE  OutboxKept
<1>1. objective \in Objectives
  BY DEF IInv, TypeOK
<1>2. CASE UNCHANGED objective
  BY <1>2, SameObjectiveKeeps
<1>3. CASE Running /\ objective' = [objective EXCEPT !.status = "pending",
                                                   !.candidate = None]
  <2>1. /\ objective' \in Objectives /\ objective'.status = "pending"
        /\ objective'.verdict = objective.verdict /\ objective'.candidate = None
    BY <1>1, <1>3 DEF Objectives
  <2> QED BY <1>3, <2>1, UpdateKeeps DEF Running
<1>4. CASE Update(Ends("cancelled"))
  BY <1>4, EndsKeeps
<1> QED BY <1>2, <1>3, <1>4 DEF GivesBack

\* A failed Objective is taken up again.
LEMMA RetriedKeeps ==
  ASSUME IInv, RunsGoOn, UNCHANGED <<row, sent>>, objective' = Retried
  PROVE  OutboxKept
<1>1. objective \in Objectives
  BY DEF IInv, TypeOK
<1>2. CASE objective.status = "failed"
  <2>1. /\ objective' \in Objectives /\ objective'.status = "running"
        /\ objective'.verdict = objective.verdict
        /\ objective'.candidate = objective.candidate
    BY <1>1, <1>2 DEF Objectives, Retried
  <2> QED BY <1>2, <2>1, UpdateKeeps
<1>3. CASE objective.status # "failed"
  BY <1>3, SameObjectiveKeeps DEF Retried
<1> QED BY <1>2, <1>3

\* A delivery or an acknowledgement: the row is delivered with its receipt,
\* keeps a late one, or stays.
LEMMA SettlesKeeps ==
  ASSUME IInv, RunsGoOn, UNCHANGED sent, NEW receipt \in 1 .. Len(sent),
         NEW entitled \in BOOLEAN, Settles(receipt, entitled)
  PROVE  OutboxKept
<1>0. OutboxOK /\ receipt \in Nat /\ receipt # 0
  BY OutboxIsOK
<1>1. CASE MayDeliver /\ Deliver(receipt)
  <2>1. /\ row.status \in {"queued", "delivering"}
        /\ objective.status = "running"
    BY <1>1 DEF MayDeliver, Current, Running
  <2>2. /\ row' \in Rows /\ row'.status = "delivered" /\ row'.run = row.run
        /\ row'.result = row.result /\ row'.receipt = receipt
    BY <1>0, <1>1 DEF Deliver, OutboxOK, Rows, Receipt
  <2>3. /\ objective' \in Objectives /\ objective'.status = "succeeded"
        /\ objective'.result = row.result
    BY <1>0, <1>1, <2>1 DEF Deliver, OutboxOK, Objectives, RowIsRight
  <2> QED
    BY <1>0, <2>1, <2>2, <2>3 DEF OutboxOK, OutboxKept, RowIsRight, RunsGoOn,
       AcceptedIsRow, Messages, DeliveredIsFinal, IsReceipt
<1>2. CASE MayKeep(receipt) /\ Receives(receipt) /\ UNCHANGED objective
  <2>1. row.status = "blocked"
    BY <1>2 DEF MayKeep
  <2>2. /\ row' \in Rows /\ row'.status = "blocked" /\ row'.run = row.run
        /\ row'.result = row.result /\ row'.receipt = receipt
    BY <1>0, <1>2, <2>1 DEF Receives, OutboxOK, Rows, Receipt
  <2> QED
    BY <1>0, <1>2, <2>1, <2>2 DEF OutboxOK, OutboxKept, RowIsRight, RunsGoOn,
       AcceptedIsRow, Messages, DeliveredIsFinal, IsReceipt
<1>3. CASE UNCHANGED <<objective, row>>
  BY <1>3, SameObjectiveKeeps
<1> QED BY <1>1, <1>2, <1>3 DEF Settles

\* A Run is recorded and started.
LEMMA StartsKeeps ==
  ASSUME IInv, NEW r \in Run, run[r].status = "absent", UNCHANGED last,
         run' = [run EXCEPT ![r].status = "running", ![r].lease = TRUE]
  PROVE  RunsGoOn
<1>1. TypeOK /\ LastSucceeded
  BY DEF IInv
<1>2. [run[r] EXCEPT !.status = "running", !.lease = TRUE] \in Runs
  BY <1>1 DEF TypeOK, Runs
<1>3. run' = [run EXCEPT ![r] = [run[r] EXCEPT !.status = "running",
                                             !.lease = TRUE]]
  BY <1>1 DEF TypeOK
<1> QED BY <1>1, <1>2, <1>3 DEF TypeOK, RunsGoOn, LastSucceeded

\* Messages are never taken back.
SentGrows == Len(sent') \in Nat /\ Len(sent) <= Len(sent')

TurnOK(t) ==
  /\ t \in Turns
  /\ t.pc = "correcting" => t.fixes < MaxCorrections
  /\ t.receipt \in 0 .. Len(sent)
  /\ t.pc = "judging" => t.candidate # None
  /\ t.pc = "accepted" => row.status # "absent"
  /\ t.pc \in {"presented", "published"} => t.receipt # 0

WorkerOK(v) ==
  /\ v \in Workers
  /\ v.receipt \in 0 .. Len(sent)
  /\ v.pc # "idle" => row.status # "absent"
  /\ v.pc \in {"sent", "publishing", "completing"} => v.receipt # 0

AgentsOK ==
  /\ turn \in [Run -> Turns] /\ \A r \in Run : TurnOK(turn[r])
  /\ worker \in [Worker -> Workers] /\ \A w \in Worker : WorkerOK(worker[w])

LEMMA AgentsAreOK ==
  IInv => AgentsOK
BY DEF IInv, TypeOK, AgentsOK, TurnOK, WorkerOK, ReceiptsAreRight, IsReceipt,
   SendersHaveReceipts

LEMMA SameAgentsKeep ==
  ASSUME IInv, OutboxKept, SentGrows, UNCHANGED <<turn, worker>>
  PROVE  AgentsOK'
<1>1. AgentsOK /\ Len(sent) \in Nat
  BY AgentsAreOK, OutboxIsOK DEF OutboxOK
<1> QED BY <1>1 DEF AgentsOK, TurnOK, WorkerOK, OutboxKept, SentGrows

\* One turn, or one worker, goes on.
LEMMA TurnKeeps ==
  ASSUME IInv, OutboxKept, SentGrows, UNCHANGED worker,
         NEW r \in Run, Goes(r, turn'[r]), TurnOK(turn[r])'
  PROVE  AgentsOK'
<1>1. AgentsOK /\ Len(sent) \in Nat
  BY AgentsAreOK, OutboxIsOK DEF OutboxOK
<1>2. turn'[r] \in Turns
  BY DEF TurnOK
<1>3. turn' = [turn EXCEPT ![r] = turn'[r]]
  BY DEF Goes
<1>4. turn' \in [Run -> Turns] /\ \A q \in Run \ {r} : turn'[q] = turn[q]
  BY <1>1, <1>2, <1>3 DEF AgentsOK
<1>5. \A q \in Run : TurnOK(turn[q])'
  BY <1>1, <1>4 DEF AgentsOK, TurnOK, OutboxKept, SentGrows
<1>6. \A w \in Worker : WorkerOK(worker[w])'
  BY <1>1 DEF AgentsOK, WorkerOK, OutboxKept, SentGrows
<1> QED BY <1>1, <1>4, <1>5, <1>6 DEF AgentsOK

LEMMA WorkerKeeps ==
  ASSUME IInv, OutboxKept, SentGrows, UNCHANGED turn,
         NEW w \in Worker, NEW v, worker' = [worker EXCEPT ![w] = v],
         WorkerOK(worker[w])'
  PROVE  AgentsOK'
<1>1. AgentsOK /\ Len(sent) \in Nat
  BY AgentsAreOK, OutboxIsOK DEF OutboxOK
<1>2. worker'[w] = v /\ v \in Workers
  BY <1>1 DEF WorkerOK, AgentsOK
<1>4. /\ worker' \in [Worker -> Workers]
      /\ \A q \in Worker \ {w} : worker'[q] = worker[q]
  BY <1>1, <1>2 DEF AgentsOK
<1>5. \A q \in Worker : WorkerOK(worker[q])'
  BY <1>1, <1>4 DEF AgentsOK, WorkerOK, OutboxKept, SentGrows
<1>6. \A r \in Run : TurnOK(turn[r])'
  BY <1>1 DEF AgentsOK, TurnOK, OutboxKept, SentGrows
<1> QED BY <1>1, <1>4, <1>5, <1>6 DEF AgentsOK

LEMMA NoTurnKeeps ==
  ASSUME IInv, OutboxKept, SentGrows, UNCHANGED worker, NEW r \in Run, Ended(r)
  PROVE  AgentsOK'
<1>1. turn'[r] = NoTurn
  BY AgentsAreOK DEF Ended, Goes, AgentsOK
<1>2. TurnOK(NoTurn)'
  BY CompletionAssumption DEF TurnOK, NoTurn, Turns, Receipt, SentGrows
<1> QED BY <1>1, <1>2, TurnKeeps DEF Ended

LEMMA NoWorkKeeps ==
  ASSUME IInv, OutboxKept, SentGrows, UNCHANGED turn, NEW w \in Worker, Rests(w)
  PROVE  AgentsOK'
<1>1. worker'[w] = NoWork
  BY AgentsAreOK DEF Rests, AgentsOK
<1>2. WorkerOK(NoWork)'
  BY DEF WorkerOK, NoWork, Workers, Receipt, SentGrows
<1> QED BY <1>1, <1>2, WorkerKeeps DEF Rests

\* The rest: the Plan, what is published, and the bound.
RestOK ==
  /\ plan \in {"none", "running", "failed", "succeeded", "cancelled"}
  /\ notices \subseteq {"failed", "succeeded"}
  /\ verifier \in Result \cup {None}
  /\ published \subseteq Result
  /\ faults \in 0 .. MaxFaults
  /\ PublishedWasSent

LEMMA RestIsOK ==
  IInv => RestOK
BY DEF IInv, TypeOK, RestOK

LEMMA PartsKeep ==
  ASSUME IInv, RunsGoOn, OutboxKept, AgentsOK', RestOK'
  PROVE  IInv'
<1>1. TypeOK'
  BY DEF TypeOK, RunsGoOn, OutboxKept, AgentsOK, RestOK, TurnOK
<1>2. ReceiptsAreRight'
  BY DEF OutboxKept, AgentsOK, ReceiptsAreRight, IsReceipt, TurnOK, WorkerOK
<1>3. SendersHaveReceipts'
  BY DEF AgentsOK, SendersHaveReceipts, TurnOK, WorkerOK
<1> QED BY <1>1, <1>2, <1>3 DEF IInv, RunsGoOn, OutboxKept, RestOK

LEMMA SameSent ==
  ASSUME IInv, UNCHANGED sent
  PROVE  SentGrows
BY OutboxIsOK DEF OutboxOK, SentGrows

LEMMA StartedTurn ==
  ASSUME NEW kind \in {"create", "continue", "automation", "synthesis"},
         NEW t, t = [NoTurn EXCEPT !.pc = "working", !.kind = kind]
  PROVE  t \in Turns /\ t.pc = "working" /\ t.receipt = 0
<1>1. NoTurn \in Turns /\ NoTurn.receipt = 0
  BY CompletionAssumption DEF NoTurn, Turns, Receipt
<1> QED BY <1>1 DEF Turns

\* The channel accepts the result of the row.
LEMMA SendsKeeps ==
  ASSUME IInv, row.status # "absent", Sends,
         UNCHANGED <<objective, run, last, row>>
  PROVE  /\ OutboxKept /\ SentGrows /\ Len(sent') # 0
         /\ \A i \in 1 .. Len(sent) : sent'[i] = sent[i]
<1>1. OutboxOK /\ row.result \in Result
  BY OutboxIsOK DEF OutboxOK, RowIsRight
<1>2. /\ sent' \in Seq(Result) /\ Len(sent') = Len(sent) + 1
      /\ \A i \in 1 .. Len(sent) : sent'[i] = sent[i]
      /\ sent'[Len(sent')] = row.result
  BY <1>1 DEF Sends, OutboxOK
<1>3. Messages'
  BY <1>1, <1>2 DEF OutboxOK, Messages
<1> QED
  BY <1>1, <1>2, <1>3 DEF OutboxOK, OutboxKept, SentGrows, RowIsRight,
     AcceptedIsRow, DeliveredIsFinal, IsReceipt

\* What is published was sent, when a message was.
LEMMA PublishesKeeps ==
  ASSUME IInv, Publishes, sent # <<>>, UNCHANGED sent
  PROVE  published' \subseteq Result /\ PublishedWasSent'
<1>1. OutboxOK /\ RestOK
  BY OutboxIsOK, RestIsOK
<1>2. row.result \in Result /\ Len(sent) >= 1 /\ sent[1] = row.result
  BY <1>1 DEF OutboxOK, RowIsRight, Messages
<1>3. published' = published \cup {row.result}
  BY <1>1 DEF Publishes, OutboxOK, Running, AcceptedIsRow, DeliveredIsFinal
<1> QED BY <1>1, <1>2, <1>3 DEF RestOK, PublishedWasSent, OutboxOK

\* A receipt that a holder may record is one of its row.
LEMMA ReceivesKeeps ==
  ASSUME IInv, NEW receipt \in 1 .. Len(sent), Receives(receipt),
         UNCHANGED <<objective, run, last, sent>>, MayRecord(receipt)
  PROVE  OutboxKept
<1>1. OutboxOK /\ receipt \in Nat
  BY OutboxIsOK
<1>2. row.status # "absent"
  BY <1>1 DEF OutboxOK, RowIsRight, MayRecord, Current
<1>3. /\ row' \in Rows /\ row'.status = row.status /\ row'.run = row.run
      /\ row'.result = row.result /\ row'.receipt = receipt
  BY <1>1 DEF Receives, OutboxOK, Rows, Receipt
<1> QED
  BY <1>1, <1>2, <1>3 DEF OutboxOK, OutboxKept, RowIsRight, AcceptedIsRow,
     Messages, DeliveredIsFinal, IsReceipt

\* A worker or the clock writes the row: what it carries stays.
RowGoesOn ==
  /\ row' \in Rows /\ row.status \in {"queued", "delivering"}
  /\ row'.status \in {"queued", "delivering", "blocked"}
  /\ row'.run = row.run /\ row'.result = row.result
  /\ row'.receipt = row.receipt

LEMMA RowKeeps ==
  ASSUME IInv, UNCHANGED <<objective, run, last, sent>>,
         RowGoesOn \/ UNCHANGED row
  PROVE  OutboxKept
BY OutboxIsOK DEF OutboxOK, OutboxKept, RowIsRight, AcceptedIsRow, Messages,
   DeliveredIsFinal, IsReceipt, RowGoesOn

LEMMA DoesKeeps ==
  ASSUME IInv, OutboxKept, SentGrows, UNCHANGED turn, NEW w \in Worker,
         NEW pc \in {"claimed", "sent", "publishing", "completing", "failing",
                     "deferring"},
         Does(w, pc), worker[w].pc # "idle",
         pc \in {"sent", "publishing", "completing"} => worker[w].receipt # 0
  PROVE  AgentsOK'
<1>1. AgentsOK /\ WorkerOK(worker[w])
  BY AgentsAreOK DEF AgentsOK
<1>2. worker'[w] = [worker[w] EXCEPT !.pc = pc]
  BY <1>1 DEF Does, AgentsOK
<1>3. WorkerOK(worker[w])'
  BY <1>1, <1>2 DEF WorkerOK, Workers, OutboxKept, SentGrows
<1> QED BY <1>2, <1>3, WorkerKeeps DEF Does

\* A turn that throws ends, or is about to give its Objective back.
LEMMA ThrowsKeeps ==
  ASSUME IInv, OutboxKept, UNCHANGED <<worker, sent>>, NEW r \in Run, Throws(r)
  PROVE  AgentsOK'
<1>1. SentGrows
  BY SameSent
<1>2. CASE Goes(r, At(r, "thrown"))
  <2>1. turn'[r] = [turn[r] EXCEPT !.pc = "thrown"] /\ Goes(r, turn'[r])
    BY <1>2, AgentsAreOK DEF AgentsOK, Goes, At
  <2>2. TurnOK(turn[r])'
    BY <2>1, AgentsAreOK DEF AgentsOK, TurnOK, Turns
  <2> QED BY <1>1, <2>1, <2>2, TurnKeeps
<1>3. CASE Ended(r)
  BY <1>1, <1>3, NoTurnKeeps
<1> QED BY <1>2, <1>3 DEF Throws, Ended

-----------------------------------------------------------------------------
(* Every action keeps the invariant.                                       *)

LEMMA StartTurnKeeps ==
  ASSUME IInv, NEW r \in Run, StartTurn(r)
  PROVE  IInv'
<1>1. RunsGoOn
  BY StartsKeeps DEF Recorded, StartTurn, plans, outside
<1>2. OutboxKept
  BY <1>1, SameObjectiveKeeps DEF StartTurn, plans, outside
<1>3. AgentsOK'
  <2>1. turn'[r] = [NoTurn EXCEPT !.pc = "working", 
                                   !.kind = IF Fresh THEN "create" ELSE "continue"]
    BY AgentsAreOK DEF AgentsOK, Goes, StartTurn
  <2>2. Len(sent') \in Nat
    BY OutboxIsOK, SameSent DEF SentGrows, StartTurn, plans, outside
  <2>3. (IF Fresh THEN "create" ELSE "continue")
          \in {"create", "continue", "automation", "synthesis"}
    OBVIOUS
  <2>4. /\ turn'[r].pc = "working" /\ turn'[r].receipt = 0
        /\ turn'[r] \in Turns
    BY <2>1, <2>3, StartedTurn
  <2>5. Goes(r, turn'[r])
    BY <2>1 DEF StartTurn
  <2> QED BY <1>2, <2>2, <2>4, <2>5, SameSent, TurnKeeps DEF TurnOK,
        StartTurn, plans, outside
<1>4. RestOK'
  BY RestIsOK DEF RestOK, PublishedWasSent, StartTurn, plans, outside
<1> QED BY <1>1, <1>2, <1>3, <1>4, PartsKeep

LEMMA StartAutomationKeeps ==
  ASSUME IInv, NEW r \in Run, StartAutomation(r)
  PROVE  IInv'
<1>1. RunsGoOn
  BY StartsKeeps DEF Recorded, StartAutomation, plans, outside
<1>2. OutboxKept
  <2>1. CASE UNCHANGED objective
    BY <1>1, <2>1, SameObjectiveKeeps DEF StartAutomation, plans, outside
  <2>2. CASE objective' = [objective EXCEPT !.status = "running"]
    <3>1. /\ objective' \in Objectives /\ objective'.status = "running"
          /\ objective'.verdict = objective.verdict
          /\ objective'.candidate = objective.candidate
          /\ objective.status # "succeeded"
      BY <2>2 DEF IInv, TypeOK, Objectives, StartAutomation, Recorded, Active
    <3> QED BY <1>1, <3>1, UpdateKeeps DEF StartAutomation, plans, outside
  <2> QED BY <2>1, <2>2 DEF StartAutomation
<1>3. AgentsOK'
  <2>1. turn'[r] = [NoTurn EXCEPT !.pc = "working", !.kind = "automation"]
    BY AgentsAreOK DEF AgentsOK, Goes, StartAutomation
  <2>2. Len(sent') \in Nat
    BY OutboxIsOK, SameSent DEF SentGrows, StartAutomation, plans, outside
  <2>3. "automation" \in {"create", "continue", "automation", "synthesis"}
    OBVIOUS
  <2>4. /\ turn'[r].pc = "working" /\ turn'[r].receipt = 0
        /\ turn'[r] \in Turns
    BY <2>1, <2>3, StartedTurn
  <2>5. Goes(r, turn'[r])
    BY <2>1 DEF StartAutomation
  <2> QED BY <1>2, <2>2, <2>4, <2>5, SameSent, TurnKeeps DEF TurnOK,
        StartAutomation, plans, outside
<1>4. RestOK'
  BY RestIsOK DEF RestOK, PublishedWasSent, StartAutomation, plans, outside
<1> QED BY <1>1, <1>2, <1>3, <1>4, PartsKeep

LEMMA AnswerKeeps ==
  ASSUME IInv, NEW r \in Run, NEW x \in Result, Answer(r, x)
  PROVE  IInv'
<1>1. RunsGoOn
  BY SameRunsKeeps DEF Answer, plans, outside
<1>2. OutboxKept
  BY <1>1, CandidateKeeps DEF Answer, plans, outside
<1>3. AgentsOK'
  <2>1. TurnOK(turn[r])'
    BY CompletionAssumption, AgentsAreOK, <1>2 DEF AgentsOK, TurnOK,
       OutboxKept, Turns, NoTurn, Receipt, At, Goes, Answer, plans, outside
  <2>2. Goes(r, turn'[r])
    BY AgentsAreOK DEF AgentsOK, Goes, Answer
  <2> QED BY <1>2, <2>1, <2>2, SameSent, TurnKeeps DEF Answer, plans, outside
<1>4. RestOK'
  BY RestIsOK DEF RestOK, PublishedWasSent, Answer, plans, outside
<1> QED BY <1>1, <1>2, <1>3, <1>4, PartsKeep

LEMMA AcceptKeeps ==
  ASSUME IInv, NEW r \in Run, NEW due \in BOOLEAN, Accept(r, due)
  PROVE  IInv'
<1>1. RunsGoOn
  <2>0. turn[r] \in Turns /\ turn[r].candidate \in Result \cup {None}
    BY DEF IInv, TypeOK, Turns
  <2> QED BY <2>0, RunSucceedsKeeps DEF Accept, MaySettle, Settle
<1>2. OutboxKept
  <2>1. turn[r].candidate \in Result
    BY AgentsAreOK DEF AgentsOK, TurnOK, Turns, Accept
  <2>2. /\ run'[r].status = "succeeded" /\ run'[r].output = turn[r].candidate
        /\ MayEnqueue(r, turn[r].candidate) /\ Accepts(r, turn[r].candidate, due)
        /\ objective.status # "succeeded" /\ UNCHANGED sent
    BY <2>1, RunSucceedsKeeps DEF Accept, MaySettle, Settle, Running
  <2> QED BY <1>1, <2>1, <2>2, AcceptsKeeps
<1>3. AgentsOK'
  <2>1. row'.status # "absent" /\ UNCHANGED sent /\ Len(sent) \in Nat
    BY OutboxIsOK DEF Accept, Settle, Accepts, Enqueued, OutboxOK, Rows
  <2>2. UNCHANGED worker /\ SentGrows
    BY <2>1, SameSent DEF Accept
  <2>3. ASSUME NEW pc \in {"accepted", "thrown"}, Goes(r, At(r, pc))
        PROVE  AgentsOK'
    <3>1. turn'[r] = [turn[r] EXCEPT !.pc = pc]
      BY <2>3, AgentsAreOK DEF AgentsOK, Goes, At
    <3>2. TurnOK(turn[r])'
      BY <2>1, <3>1, AgentsAreOK DEF AgentsOK, TurnOK, Turns
    <3>3. Goes(r, turn'[r])
      BY <2>3, AgentsAreOK DEF AgentsOK, Goes
    <3> QED BY <1>2, <2>2, <3>2, <3>3, TurnKeeps
  <2>4. CASE Ended(r)
    BY <1>2, <2>2, <2>4, NoTurnKeeps
  <2> QED BY <2>3, <2>4 DEF Accept
<1>4. RestOK'
  <2>1. turn[r].candidate \in Result
    BY AgentsAreOK DEF AgentsOK, TurnOK, Turns, Accept
  <2> QED BY <2>1, RestIsOK DEF RestOK, PublishedWasSent, Accept, plans,
        agents, outside
<1> QED BY <1>1, <1>2, <1>3, <1>4, PartsKeep

LEMMA UnavailableKeeps ==
  ASSUME IInv, NEW r \in Run, Unavailable(r)
  PROVE  IInv'
<1>1. RunsGoOn
  <2>0. turn[r] \in Turns /\ turn[r].candidate \in Result \cup {None}
    BY DEF IInv, TypeOK, Turns
  <2>1. CASE Renewable(r)
    BY <2>0, <2>1, RunSucceedsKeeps DEF Unavailable, Renewable
  <2>2. CASE ~Renewable(r)
    BY <2>2, RunEndsKeeps DEF Unavailable, Throws
  <2> QED BY <2>1, <2>2
<1>2. OutboxKept
  <2>0. turn[r] \in Turns /\ turn[r].candidate \in Result \cup {None}
    BY DEF IInv, TypeOK, Turns
  <2>1. \/ Update(Candidate(turn[r].candidate, "unavailable"))
        \/ Update([Candidate(turn[r].candidate, "unavailable")
                     EXCEPT !.status = "failed"])
    BY DEF Unavailable
  <2> QED BY <1>1, <2>0, <2>1, CandidateKeeps DEF Unavailable, plans, outside
<1>3. AgentsOK'
  <2>1. UNCHANGED <<worker, sent>>
    BY DEF Unavailable, outside
  <2> QED
    BY <1>2, <2>1, SameSent, NoTurnKeeps, ThrowsKeeps DEF Unavailable
<1>4. RestOK'
  BY RestIsOK DEF RestOK, PublishedWasSent, Unavailable, plans, outside
<1> QED BY <1>1, <1>2, <1>3, <1>4, PartsKeep

LEMMA RejectKeeps ==
  ASSUME IInv, NEW r \in Run, Reject(r)
  PROVE  IInv'
<1>1. RunsGoOn
  BY RunEndsKeeps DEF Reject, plans, outside
<1>2. OutboxKept
  <2>0. turn[r] \in Turns /\ turn[r].candidate \in Result \cup {None}
    BY DEF IInv, TypeOK, Turns
  <2> QED BY <1>1, <2>0, CandidateKeeps DEF Reject, plans, outside
<1>3. AgentsOK'
  BY <1>2, SameSent, NoTurnKeeps DEF Reject, plans, outside
<1>4. RestOK'
  BY RestIsOK DEF RestOK, PublishedWasSent, Reject, plans, outside
<1> QED BY <1>1, <1>2, <1>3, <1>4, PartsKeep

LEMMA RejectToCorrectKeeps ==
  ASSUME IInv, NEW r \in Run, RejectToCorrect(r)
  PROVE  IInv'
<1>1. RunsGoOn
  <2>0. turn[r] \in Turns /\ turn[r].candidate \in Result \cup {None}
    BY DEF IInv, TypeOK, Turns
  <2>1. CASE Renewable(r)
    BY <2>0, <2>1, RunSucceedsKeeps DEF RejectToCorrect, Renewable
  <2>2. CASE ~Renewable(r)
    BY <2>2, SameRunsKeeps DEF RejectToCorrect
  <2> QED BY <2>1, <2>2
<1>2. OutboxKept
  <2>0. turn[r] \in Turns /\ turn[r].candidate \in Result \cup {None}
    BY DEF IInv, TypeOK, Turns
  <2> QED BY <1>1, <2>0, CandidateKeeps DEF RejectToCorrect, plans, outside
<1>3. AgentsOK'
  <2>1. TurnOK(turn[r])'
    BY CompletionAssumption, AgentsAreOK, <1>2 DEF AgentsOK, TurnOK,
       OutboxKept, Turns, NoTurn, Receipt, At, Goes, MayCorrect,
       RejectToCorrect, plans, outside
  <2>2. Goes(r, turn'[r])
    BY AgentsAreOK DEF AgentsOK, Goes, RejectToCorrect
  <2> QED BY <1>2, <2>1, <2>2, SameSent, TurnKeeps DEF RejectToCorrect, plans,
        outside
<1>4. RestOK'
  BY RestIsOK DEF RestOK, PublishedWasSent, RejectToCorrect, plans, outside
<1> QED BY <1>1, <1>2, <1>3, <1>4, PartsKeep

LEMMA CorrectKeeps ==
  ASSUME IInv, NEW r \in Run, NEW r2 \in Run, Correct(r, r2)
  PROVE  IInv'
<1>1. RunsGoOn
  BY StartsKeeps DEF Recorded, Correct, plans, outside
<1>2. OutboxKept
  BY <1>1, SameObjectiveKeeps DEF Correct, plans, outside
<1>3. AgentsOK'
  <2>0. AgentsOK /\ Len(sent) \in Nat /\ UNCHANGED <<sent, row, worker>>
    BY AgentsAreOK, OutboxIsOK DEF OutboxOK, Correct, outside
  <2>1. turn[r] \in Turns /\ TurnOK(turn[r]) /\ turn[r].fixes < MaxCorrections
    BY <2>0 DEF AgentsOK, TurnOK, Correct
  <2>2. NoTurn \in Turns
    BY CompletionAssumption DEF NoTurn, Turns, Receipt
  <2>3. [At(r, "working") EXCEPT !.fixes = @ + 1] \in Turns
    <3>1. At(r, "working") \in Turns /\ At(r, "working").fixes = turn[r].fixes
      BY <2>1 DEF At, Turns
    <3> QED BY <2>1, <3>1, CompletionAssumption DEF Turns
  <2>4. /\ turn' \in [Run -> Turns]
        /\ \A q \in Run : q \notin {r, r2} => turn'[q] = turn[q]
        /\ r # r2 => turn'[r] = NoTurn
        /\ turn'[r2] = [At(r, "working") EXCEPT !.fixes = @ + 1]
    BY <2>0, <2>2, <2>3 DEF AgentsOK, Correct
  <2>5. TurnOK(turn[r2])'
    BY <2>0, <2>1, <2>3, <2>4 DEF TurnOK, At, Turns
  <2>6. r # r2 => TurnOK(turn[r])'
    BY <2>0, <2>2, <2>4 DEF TurnOK, NoTurn
  <2>7. \A q \in Run : TurnOK(turn[q])'
    BY <2>0, <2>4, <2>5, <2>6 DEF AgentsOK, TurnOK
  <2>8. \A w \in Worker : WorkerOK(worker[w])'
    BY <2>0 DEF AgentsOK, WorkerOK
  <2> QED BY <2>0, <2>4, <2>7, <2>8 DEF AgentsOK
<1>4. RestOK'
  BY RestIsOK DEF RestOK, PublishedWasSent, Correct, plans, outside
<1> QED BY <1>1, <1>2, <1>3, <1>4, PartsKeep

LEMMA LoseKeeps ==
  ASSUME IInv, NEW r \in Run, Lose(r)
  PROVE  IInv'
<1>1. RunsGoOn
  BY SameRunsKeeps DEF Lose, ledger, plans, outside
<1>2. OutboxKept
  BY <1>1, SameObjectiveKeeps DEF Lose, ledger, plans, outside
<1>3. AgentsOK'
  <2>1. TurnOK(turn[r])'
    BY CompletionAssumption, AgentsAreOK, <1>2 DEF AgentsOK, TurnOK,
       OutboxKept, Turns, NoTurn, Receipt, At, Goes, Lose, ledger, plans,
       outside
  <2>2. Goes(r, turn'[r])
    BY AgentsAreOK DEF AgentsOK, Goes, Lose
  <2> QED BY <1>2, <2>1, <2>2, SameSent, TurnKeeps DEF Lose, ledger, plans,
        outside
<1>4. RestOK'
  BY RestIsOK DEF RestOK, PublishedWasSent, Lose, ledger, plans, outside
<1> QED BY <1>1, <1>2, <1>3, <1>4, PartsKeep

LEMMA ThrowKeeps ==
  ASSUME IInv, NEW r \in Run, Throw(r)
  PROVE  IInv'
<1>1. RunsGoOn
  BY RunEndsKeeps DEF Throw, Throws, plans, outside
<1>2. OutboxKept
  <2>1. CASE turn[r].kind = "create"
    BY <1>1, <2>1, EndsKeeps DEF Throw, plans, outside
  <2>2. CASE turn[r].kind # "create"
    BY <1>1, <2>2, SameObjectiveKeeps DEF Throw, plans, outside
  <2> QED BY <2>1, <2>2
<1>3. AgentsOK'
  BY <1>2, ThrowsKeeps DEF Throw, outside
<1>4. RestOK'
  BY RestIsOK DEF RestOK, PublishedWasSent, Throw, plans, outside
<1> QED BY <1>1, <1>2, <1>3, <1>4, PartsKeep

LEMMA GiveBackKeeps ==
  ASSUME IInv, NEW r \in Run, GiveBack(r)
  PROVE  IInv'
<1>1. RunsGoOn
  BY SameRunsKeeps DEF GiveBack, plans, outside
<1>2. OutboxKept
  BY <1>1, GivesBackKeeps DEF GiveBack, plans, outside
<1>3. AgentsOK'
  BY <1>2, SameSent, NoTurnKeeps DEF GiveBack, plans, outside
<1>4. RestOK'
  BY RestIsOK DEF RestOK, PublishedWasSent, GiveBack, plans, outside
<1> QED BY <1>1, <1>2, <1>3, <1>4, PartsKeep

LEMMA GiveBackUnstartedKeeps ==
  ASSUME IInv, GiveBackUnstarted
  PROVE  IInv'
<1>1. RunsGoOn
  BY SameRunsKeeps DEF GiveBackUnstarted, plans, agents
<1>2. OutboxKept
  BY <1>1, GivesBackKeeps DEF GiveBackUnstarted, plans, agents
<1>3. AgentsOK'
  BY <1>2, SameSent, SameAgentsKeep DEF GiveBackUnstarted, plans, agents
<1>4. RestOK'
  BY RestIsOK, CompletionAssumption DEF RestOK, PublishedWasSent, Fault,
     GiveBackUnstarted, plans, agents
<1> QED BY <1>1, <1>2, <1>3, <1>4, PartsKeep

LEMMA CrashTurnKeeps ==
  ASSUME IInv, NEW r \in Run, CrashTurn(r)
  PROVE  IInv'
<1>1. RunsGoOn
  BY SameRunsKeeps DEF CrashTurn, ledger, plans
<1>2. OutboxKept
  BY <1>1, SameObjectiveKeeps DEF CrashTurn, ledger, plans
<1>3. AgentsOK'
  BY <1>2, SameSent, NoTurnKeeps DEF CrashTurn, ledger, plans
<1>4. RestOK'
  BY RestIsOK, CompletionAssumption DEF RestOK, PublishedWasSent, Fault,
     CrashTurn, ledger, plans
<1> QED BY <1>1, <1>2, <1>3, <1>4, PartsKeep

LEMMA ExpireLeaseKeeps ==
  ASSUME IInv, NEW r \in Run, ExpireLease(r)
  PROVE  IInv'
<1>1. RunsGoOn
  <2>1. [run[r] EXCEPT !.lease = FALSE] \in Runs
    BY DEF IInv, TypeOK, Runs
  <2> QED BY <2>1 DEF IInv, TypeOK, RunsGoOn, LastSucceeded, ExpireLease, Runs
<1>2. OutboxKept
  BY <1>1, SameObjectiveKeeps DEF ExpireLease, plans, agents
<1>3. AgentsOK'
  BY <1>2, SameSent, SameAgentsKeep DEF ExpireLease, plans, agents
<1>4. RestOK'
  BY RestIsOK, CompletionAssumption DEF RestOK, PublishedWasSent, Fault,
     ExpireLease, plans, agents
<1> QED BY <1>1, <1>2, <1>3, <1>4, PartsKeep

LEMMA ReconcileKeeps ==
  ASSUME IInv, NEW r \in Run, Reconcile(r)
  PROVE  IInv'
<1>1. RunsGoOn
  BY RunEndsKeeps DEF Reconcile, plans, agents, outside
<1>2. OutboxKept
  <2>1. objective.candidate \in Result \cup {None}
    BY DEF IInv, TypeOK, Objectives
  <2>2. CASE ~Running
    BY <1>1, <2>2, SameObjectiveKeeps DEF Reconcile, plans, agents, outside
  <2>3. CASE Running /\ InterruptedVerification
    <3>1. Update(Candidate(objective.candidate, "unavailable"))
      BY <2>3 DEF Reconcile, Update, Running, Active
    <3> QED BY <1>1, <2>1, <3>1, CandidateKeeps DEF Reconcile, plans, agents,
          outside
  <2>4. CASE Running /\ ~InterruptedVerification
    <3>1. Update(Ends("failed"))
      BY <2>4 DEF Reconcile, Update, Running, Active
    <3> QED BY <1>1, <3>1, EndsKeeps DEF Reconcile, plans, agents, outside
  <2> QED BY <2>2, <2>3, <2>4
<1>3. AgentsOK'
  BY <1>2, SameSent, SameAgentsKeep DEF Reconcile, plans, agents, outside
<1>4. RestOK'
  BY RestIsOK DEF RestOK, PublishedWasSent, Reconcile, plans, agents, outside
<1> QED BY <1>1, <1>2, <1>3, <1>4, PartsKeep

LEMMA ReverifyKeeps ==
  ASSUME IInv, Reverify
  PROVE  IInv'
<1>1. RunsGoOn
  BY SameRunsKeeps DEF Reverify, ledger, plans, outside
<1>2. OutboxKept
  BY <1>1, SameObjectiveKeeps DEF Reverify, ledger, plans, outside
<1>3. AgentsOK'
  BY <1>2, SameSent, SameAgentsKeep DEF Reverify, ledger, plans, outside
<1>4. RestOK'
  BY RestIsOK DEF RestOK, PublishedWasSent, Reverifiable, IInv, TypeOK,
     Objectives, Reverify, ledger, plans, outside
<1> QED BY <1>1, <1>2, <1>3, <1>4, PartsKeep

LEMMA ReverifyAcceptsKeeps ==
  ASSUME IInv, ReverifyAccepts
  PROVE  IInv'
<1>1. RunsGoOn
  BY SameRunsKeeps DEF ReverifyAccepts, plans
<1>2. OutboxKept
  <2>1. CASE MayResolve
    <3>1. /\ last \in Run /\ objective.candidate \in Result
          /\ objective.status # "succeeded" /\ run[last].status = "succeeded"
          /\ run[last].output = objective.candidate
      BY <2>1 DEF IInv, TypeOK, LastSucceeded, MayResolve, Reverifiable,
         Objectives
    <3> QED
      BY <1>1, <2>1, <3>1, AcceptsKeeps DEF ReverifyAccepts, MayResolve
  <2>2. CASE ~MayResolve
    BY <1>1, <2>2, SameObjectiveKeeps DEF ReverifyAccepts
  <2> QED BY <2>1, <2>2
<1>3. AgentsOK'
  BY <1>2, SameSent, SameAgentsKeep DEF ReverifyAccepts, plans
<1>4. RestOK'
  BY RestIsOK DEF RestOK, PublishedWasSent, ReverifyAccepts, plans
<1> QED BY <1>1, <1>2, <1>3, <1>4, PartsKeep

LEMMA ReverifyRejectsKeeps ==
  ASSUME IInv, ReverifyRejects
  PROVE  IInv'
<1>1. RunsGoOn
  BY SameRunsKeeps DEF ReverifyRejects, plans, outside
<1>2. OutboxKept
  <2>1. CASE Reverifiable
    <3>1. /\ objective' \in Objectives /\ objective'.status = "failed"
          /\ objective'.verdict = "rejected" /\ objective.status # "succeeded"
      BY <2>1 DEF IInv, TypeOK, Objectives, Reverifiable, ReverifyRejects
    <3> QED BY <1>1, <3>1, UpdateKeeps DEF ReverifyRejects, plans, outside
  <2>2. CASE ~Reverifiable
    BY <1>1, <2>2, SameObjectiveKeeps DEF ReverifyRejects, plans, outside
  <2> QED BY <2>1, <2>2
<1>3. AgentsOK'
  BY <1>2, SameSent, SameAgentsKeep DEF ReverifyRejects, plans, outside
<1>4. RestOK'
  BY RestIsOK DEF RestOK, PublishedWasSent, ReverifyRejects, plans, outside
<1> QED BY <1>1, <1>2, <1>3, <1>4, PartsKeep

LEMMA ReverifyFailsKeeps ==
  ASSUME IInv, ReverifyFails
  PROVE  IInv'
<1>1. RunsGoOn
  BY SameRunsKeeps DEF ReverifyFails, ledger, plans, outside
<1>2. OutboxKept
  BY <1>1, SameObjectiveKeeps DEF ReverifyFails, ledger, plans, outside
<1>3. AgentsOK'
  BY <1>2, SameSent, SameAgentsKeep DEF ReverifyFails, ledger, plans, outside
<1>4. RestOK'
  BY RestIsOK DEF RestOK, PublishedWasSent, ReverifyFails, ledger, plans,
     outside
<1> QED BY <1>1, <1>2, <1>3, <1>4, PartsKeep

LEMMA PlanEndsKeeps ==
  ASSUME IInv, NEW outcome \in {"failed", "succeeded"}, PlanEnds(outcome)
  PROVE  IInv'
<1>1. RunsGoOn
  BY SameRunsKeeps DEF PlanEnds, ledger, agents, outside
<1>2. OutboxKept
  BY <1>1, SameObjectiveKeeps DEF PlanEnds, ledger, agents, outside
<1>3. AgentsOK'
  BY <1>2, SameSent, SameAgentsKeep DEF PlanEnds, ledger, agents, outside
<1>4. RestOK'
  BY RestIsOK DEF RestOK, PublishedWasSent, PlanEnds, ledger, agents, outside
<1> QED BY <1>1, <1>2, <1>3, <1>4, PartsKeep

LEMMA PlanRetriedKeeps ==
  ASSUME IInv, PlanRetried
  PROVE  IInv'
<1>1. RunsGoOn
  BY SameRunsKeeps DEF PlanRetried, ledger, agents
<1>2. OutboxKept
  BY <1>1, SameObjectiveKeeps DEF PlanRetried, ledger, agents
<1>3. AgentsOK'
  BY <1>2, SameSent, SameAgentsKeep DEF PlanRetried, ledger, agents
<1>4. RestOK'
  BY RestIsOK, CompletionAssumption DEF RestOK, PublishedWasSent, Fault,
     PlanRetried, ledger, agents
<1> QED BY <1>1, <1>2, <1>3, <1>4, PartsKeep

LEMMA FailureNoticeKeeps ==
  ASSUME IInv, FailureNotice
  PROVE  IInv'
<1>1. RunsGoOn
  BY SameRunsKeeps DEF FailureNotice, agents
<1>2. OutboxKept
  BY <1>1, EndsKeeps DEF FailureNotice, agents
<1>3. AgentsOK'
  BY <1>2, SameSent, SameAgentsKeep DEF FailureNotice, agents
<1>4. RestOK'
  BY RestIsOK, CompletionAssumption DEF RestOK, PublishedWasSent,
     Acknowledged, Fault, FailureNotice, agents
<1> QED BY <1>1, <1>2, <1>3, <1>4, PartsKeep

LEMMA DeliverPlanKeeps ==
  ASSUME IInv, DeliverPlan
  PROVE  IInv'
<1>1. RunsGoOn
  BY SameRunsKeeps DEF DeliverPlan, agents
<1>2. OutboxKept
  BY <1>1, RetriedKeeps DEF DeliverPlan, agents
<1>3. AgentsOK'
  BY <1>2, SameSent, SameAgentsKeep DEF DeliverPlan, agents
<1>4. RestOK'
  BY RestIsOK, CompletionAssumption DEF RestOK, PublishedWasSent,
     Acknowledged, Fault, DeliverPlan, agents
<1> QED BY <1>1, <1>2, <1>3, <1>4, PartsKeep

LEMMA SynthesizeKeeps ==
  ASSUME IInv, NEW r \in Run, Synthesize(r)
  PROVE  IInv'
<1>1. RunsGoOn
  BY StartsKeeps DEF Synthesize, plans, outside
<1>2. OutboxKept
  BY <1>1, RetriedKeeps DEF Synthesize, plans, outside
<1>3. AgentsOK'
  <2>1. turn'[r] = [NoTurn EXCEPT !.pc = "working", !.kind = "synthesis"]
    BY AgentsAreOK DEF AgentsOK, Goes, Synthesize
  <2>2. Len(sent') \in Nat
    BY OutboxIsOK, SameSent DEF SentGrows, Synthesize, plans, outside
  <2>3. "synthesis" \in {"create", "continue", "automation", "synthesis"}
    OBVIOUS
  <2>4. /\ turn'[r].pc = "working" /\ turn'[r].receipt = 0
        /\ turn'[r] \in Turns
    BY <2>1, <2>3, StartedTurn
  <2>5. Goes(r, turn'[r])
    BY <2>1 DEF Synthesize
  <2> QED BY <1>2, <2>2, <2>4, <2>5, SameSent, TurnKeeps DEF TurnOK,
        Synthesize, plans, outside
<1>4. RestOK'
  BY RestIsOK DEF RestOK, PublishedWasSent, Synthesize, plans, outside
<1> QED BY <1>1, <1>2, <1>3, <1>4, PartsKeep

LEMMA SynthesizedKeeps ==
  ASSUME IInv, NEW r \in Run, NEW x \in Result, Synthesized(r, x)
  PROVE  IInv'
<1>1. RunsGoOn
  <2>1. CASE MaySettle(r, x)
    BY <2>1, RunSucceedsKeeps DEF Synthesized, MaySettle, Settle
  <2>2. CASE ~MaySettle(r, x)
    BY <2>2, RunEndsKeeps DEF Synthesized
  <2> QED BY <2>1, <2>2
<1>2. OutboxKept
  <2>1. CASE MaySettle(r, x)
    <3>1. run'[r].status = "succeeded" /\ run'[r].output = x
      BY <2>1, RunSucceedsKeeps DEF Synthesized, MaySettle, Settle
    <3> QED
      BY <1>1, <2>1, <3>1, AcceptsKeeps DEF Synthesized, MaySettle, Settle,
         Running
  <2>2. CASE ~MaySettle(r, x)
    BY <1>1, <2>2, SameObjectiveKeeps DEF Synthesized
  <2> QED BY <2>1, <2>2
<1>3. AgentsOK'
  BY <1>2, SameSent, NoTurnKeeps DEF Synthesized
<1>4. RestOK'
  <2>1. /\ RestOK /\ MaxFaults \in Nat
        /\ UNCHANGED <<plan, verifier, sent, published>>
    BY RestIsOK, CompletionAssumption DEF Synthesized
  <2>2. notices' \subseteq notices
    BY DEF Synthesized, Acknowledged
  <2>3. faults' \in 0 .. MaxFaults
    <3>1. faults' = faults \/ (faults < MaxFaults /\ faults' = faults + 1)
      BY DEF Synthesized, Acknowledged, Fault
    <3> QED BY <2>1, <3>1 DEF RestOK
  <2> QED BY <2>1, <2>2, <2>3 DEF RestOK, PublishedWasSent
<1> QED BY <1>1, <1>2, <1>3, <1>4, PartsKeep

LEMMA CancelObjectiveKeeps ==
  ASSUME IInv, CancelObjective
  PROVE  IInv'
<1>1. RunsGoOn
  <2>1. \A q \in Run : [run[q] EXCEPT !.cancel = @ \/ run[q].status = "running"] \in Runs
    BY DEF IInv, TypeOK, Runs
  <2> QED BY <2>1 DEF IInv, TypeOK, Runs, RunsGoOn, LastSucceeded,
        CancelObjective
<1>2. OutboxKept
  <2>1. /\ objective' \in Objectives /\ objective'.status = "cancelled"
        /\ objective'.verdict = objective.verdict
        /\ objective'.candidate = objective.candidate
    BY DEF IInv, TypeOK, Objectives, Ends, CancelObjective
  <2>2. /\ row' \in Rows /\ row'.result = row.result /\ row'.run = row.run
        /\ row'.receipt = row.receipt
        /\ \/ row'.status = row.status
           \/ row.status \in {"queued", "delivering"} /\ row'.status = "blocked"
    <3>1. row \in Rows
      BY DEF IInv, TypeOK
    <3>2. CASE row.status \in {"queued", "delivering"}
      BY <3>1, <3>2 DEF Rows, CancelObjective
    <3>3. CASE row.status \notin {"queued", "delivering"}
      <4>1. UNCHANGED row
        BY <3>3 DEF CancelObjective
      <4> QED BY <3>1, <4>1
    <3> QED BY <3>2, <3>3
  <2>3. objective.status \in {"pending", "running"} /\ UNCHANGED sent
    BY DEF CancelObjective, Active, outside
  <2> QED
    BY <1>1, <2>1, <2>2, <2>3, OutboxIsOK DEF OutboxOK, OutboxKept,
       RowIsRight, AcceptedIsRow, Messages, DeliveredIsFinal, IsReceipt,
       RunsGoOn
<1>3. AgentsOK'
  BY <1>2, SameSent, SameAgentsKeep DEF CancelObjective, plans, agents,
     outside
<1>4. RestOK'
  BY RestIsOK DEF RestOK, PublishedWasSent, CancelObjective, plans, agents,
     outside
<1> QED BY <1>1, <1>2, <1>3, <1>4, PartsKeep

LEMMA CancelPlansKeeps ==
  ASSUME IInv, CancelPlans
  PROVE  IInv'
<1>1. RunsGoOn
  BY SameRunsKeeps DEF CancelPlans, agents, outside
<1>2. OutboxKept
  BY <1>1, EndsKeeps DEF CancelPlans, agents, outside
<1>3. AgentsOK'
  BY <1>2, SameSent, SameAgentsKeep DEF CancelPlans, agents, outside
<1>4. RestOK'
  BY RestIsOK DEF RestOK, PublishedWasSent, CancelPlans, agents, outside
<1> QED BY <1>1, <1>2, <1>3, <1>4, PartsKeep

LEMMA PresentKeeps ==
  ASSUME IInv, NEW r \in Run, Present(r)
  PROVE  IInv'
<1>1. RunsGoOn
  BY SameRunsKeeps DEF Present, ledger, plans
<1>2. OutboxKept
  <2>1. row.status # "absent"
    BY AgentsAreOK DEF AgentsOK, TurnOK, Present
  <2>2. CASE Sends
    BY <2>1, <2>2, SendsKeeps DEF Present, ledger
  <2>3. CASE UNCHANGED sent
    BY <1>1, <2>3, SameObjectiveKeeps DEF Present, ledger
  <2> QED BY <2>2, <2>3 DEF Present
<1>3. AgentsOK'
  <2>1. row.status # "absent"
    BY AgentsAreOK DEF AgentsOK, TurnOK, Present
  <2>2. SentGrows /\ UNCHANGED <<row, worker>>
    BY <2>1, SendsKeeps, SameSent DEF Present, ledger
  <2>3. CASE /\ Sends
             /\ Goes(r, [At(r, "presented") EXCEPT !.receipt = Len(sent')])
    <3>1. Len(sent') # 0 /\ Len(sent') \in Nat
      BY <2>1, <2>2, <2>3, SendsKeeps DEF Present, ledger, SentGrows
    <3>2. turn'[r] = [turn[r] EXCEPT !.pc = "presented", !.receipt = Len(sent')]
      BY <2>3, AgentsAreOK DEF AgentsOK, Goes, At
    <3>3. /\ turn'[r] \in Turns /\ turn'[r].pc = "presented"
          /\ turn'[r].receipt = Len(sent')
      <4>1. turn[r] \in Turns
        BY AgentsAreOK DEF AgentsOK
      <4> QED BY <3>1, <3>2, <4>1 DEF Turns, Receipt
    <3>4. Goes(r, turn'[r])
      BY <2>3, AgentsAreOK DEF AgentsOK, Goes
    <3> QED BY <1>2, <2>2, <3>1, <3>3, <3>4, TurnKeeps DEF TurnOK
  <2>4. CASE Ended(r)
    BY <1>2, <2>2, <2>4, NoTurnKeeps
  <2> QED BY <2>3, <2>4 DEF Present
<1>4. RestOK'
  <2>1. row.status # "absent"
    BY AgentsAreOK DEF AgentsOK, TurnOK, Present
  <2>2. CASE Sends
    BY <2>1, <2>2, SendsKeeps, RestIsOK, OutboxIsOK DEF Present, ledger,
       plans,
       RestOK, PublishedWasSent, SentGrows, OutboxOK
  <2>3. CASE UNCHANGED sent
    BY <2>3, RestIsOK DEF Present, plans, RestOK, PublishedWasSent
  <2> QED BY <2>2, <2>3 DEF Present
<1> QED BY <1>1, <1>2, <1>3, <1>4, PartsKeep

LEMMA PublishPresentedKeeps ==
  ASSUME IInv, NEW r \in Run, PublishPresented(r)
  PROVE  IInv'
<1>1. RunsGoOn
  BY SameRunsKeeps DEF PublishPresented, ledger, plans
<1>2. OutboxKept
  BY <1>1, SameObjectiveKeeps DEF PublishPresented, ledger, plans
<1>3. AgentsOK'
  <2>1. CASE Goes(r, At(r, "published"))
    <3>1. turn'[r] = [turn[r] EXCEPT !.pc = "published"]
      BY <2>1, AgentsAreOK DEF AgentsOK, Goes, At
    <3>2. TurnOK(turn[r])'
      BY <3>1, AgentsAreOK DEF AgentsOK, TurnOK, Turns, PublishPresented
    <3>3. Goes(r, turn'[r])
      BY <2>1, AgentsAreOK DEF AgentsOK, Goes
    <3> QED BY <1>2, <3>2, <3>3, SameSent, TurnKeeps DEF PublishPresented
  <2>2. CASE Ended(r)
    BY <1>2, <2>2, SameSent, NoTurnKeeps DEF PublishPresented
  <2> QED BY <2>1, <2>2 DEF PublishPresented
<1>4. RestOK'
  <2>1. CASE Publishes
    <3>1. sent # <<>>
      BY AgentsAreOK, OutboxIsOK DEF AgentsOK, TurnOK, OutboxOK,
         PublishPresented
    <3> QED BY <2>1, <3>1, PublishesKeeps, RestIsOK DEF PublishPresented,
          plans, RestOK
  <2>2. CASE UNCHANGED published
    BY <2>2, RestIsOK DEF PublishPresented, plans, RestOK, PublishedWasSent
  <2> QED BY <2>1, <2>2 DEF PublishPresented
<1> QED BY <1>1, <1>2, <1>3, <1>4, PartsKeep

LEMMA AcknowledgeKeeps ==
  ASSUME IInv, NEW r \in Run, Acknowledge(r)
  PROVE  IInv'
<1>1. RunsGoOn
  BY SameRunsKeeps DEF Acknowledge, plans, outside
<1>2. OutboxKept
  <2>1. turn[r].receipt \in 1 .. Len(sent)
    BY AgentsAreOK, OutboxIsOK DEF AgentsOK, TurnOK, OutboxOK, Acknowledge
  <2> QED BY <1>1, <2>1, SettlesKeeps DEF Acknowledge, outside
<1>3. AgentsOK'
  BY <1>2, SameSent, NoTurnKeeps DEF Acknowledge, plans, outside
<1>4. RestOK'
  BY RestIsOK DEF RestOK, PublishedWasSent, Acknowledge, plans, outside
<1> QED BY <1>1, <1>2, <1>3, <1>4, PartsKeep

LEMMA DueKeeps ==
  ASSUME IInv, Due
  PROVE  IInv'
<1>1. RunsGoOn
  BY SameRunsKeeps DEF Due, ledger, plans, agents
<1>2. OutboxKept
  <2>1. row \in Rows
    BY DEF IInv, TypeOK
  <2>2. RowGoesOn \/ UNCHANGED row
    BY <2>1, CompletionAssumption DEF RowGoesOn, Rows, Due
  <2> QED BY <2>2, RowKeeps DEF Due, ledger, plans, agents
<1>3. AgentsOK'
  BY <1>2, SameSent, SameAgentsKeep DEF Due, ledger, plans, agents
<1>4. RestOK'
  BY RestIsOK, CompletionAssumption DEF RestOK, PublishedWasSent, Fault, Due,
     ledger, plans, agents
<1> QED BY <1>1, <1>2, <1>3, <1>4, PartsKeep

LEMMA ClaimKeeps ==
  ASSUME IInv, NEW w \in Worker, Claim(w)
  PROVE  IInv'
<1>1. RunsGoOn
  BY SameRunsKeeps DEF Claim, ledger, plans, outside
<1>2. OutboxKept
  <2>1. /\ row \in Rows /\ row.status \in {"queued", "delivering"}
        /\ row' = [row EXCEPT !.status = "delivering", !.token = w,
                              !.due = FALSE, !.attempts = @ + 1]
    BY DEF IInv, TypeOK, Claim, Claimable
  <2>2. RowGoesOn
    <3>1. row.attempts \in Nat /\ row.attempts + 1 \in Nat
      BY <2>1 DEF Rows
    <3> DEFINE n == row.attempts + 1
    <3>2. /\ n \in Nat
          /\ row' = [row EXCEPT !.status = "delivering", !.token = w,
                                !.due = FALSE, !.attempts = n]
      BY <2>1, <3>1
    <3> HIDE DEF n
    <3> QED BY <2>1, <3>2 DEF RowGoesOn, Rows
  <2> QED BY <2>2, RowKeeps DEF Claim, ledger, outside
<1>3. AgentsOK'
  <2>1. /\ AgentsOK /\ row \in Rows /\ row.status # "absent"
        /\ IsReceipt(row.receipt)
    BY AgentsAreOK, OutboxIsOK DEF OutboxOK, Claim, Claimable
  <2>2. worker'[w] = [pc |-> "claimed", receipt |-> row.receipt,
                      attempts |-> row.attempts + 1]
    BY <2>1 DEF AgentsOK, Claim
  <2>3. WorkerOK(worker[w])'
    BY <1>2, <2>1, <2>2 DEF WorkerOK, Workers, Rows, Receipt, IsReceipt,
       OutboxKept, Claim, outside
  <2> QED BY <1>2, <2>3, SameSent, WorkerKeeps DEF Claim, outside
<1>4. RestOK'
  BY RestIsOK DEF RestOK, PublishedWasSent, Claim, ledger, plans, outside
<1> QED BY <1>1, <1>2, <1>3, <1>4, PartsKeep

LEMMA SendKeeps ==
  ASSUME IInv, NEW w \in Worker, Send(w)
  PROVE  IInv'
<1>1. RunsGoOn
  BY SameRunsKeeps DEF Send, ledger, plans
<1>2. OutboxKept
  <2>1. row.status # "absent"
    BY AgentsAreOK DEF AgentsOK, WorkerOK, Send
  <2>2. CASE Sends
    BY <2>1, <2>2, SendsKeeps DEF Send, ledger
  <2>3. CASE UNCHANGED sent
    BY <1>1, <2>3, SameObjectiveKeeps DEF Send, ledger
  <2> QED BY <2>2, <2>3 DEF Send
<1>3. AgentsOK'
  <2>1. row.status # "absent" /\ worker[w].pc # "idle"
    BY AgentsAreOK DEF AgentsOK, WorkerOK, Send
  <2>2. SentGrows /\ UNCHANGED <<row, turn>>
    BY <2>1, SendsKeeps, SameSent DEF Send, ledger
  <2>3. ASSUME Sends,
               worker' = [worker EXCEPT ![w].pc = "sent", ![w].receipt = Len(sent')]
        PROVE  AgentsOK'
    <3>1. Len(sent') # 0 /\ Len(sent') \in Nat
      BY <2>1, <2>2, <2>3, SendsKeeps DEF Send, ledger, SentGrows
    <3>2. /\ worker'[w] = [worker[w] EXCEPT !.pc = "sent", !.receipt = Len(sent')]
          /\ worker' = [worker EXCEPT ![w] = worker'[w]]
      BY <2>3, AgentsAreOK DEF AgentsOK
    <3>3. /\ worker'[w] \in Workers /\ worker'[w].pc = "sent"
          /\ worker'[w].receipt = Len(sent')
      <4>1. worker[w] \in Workers
        BY AgentsAreOK DEF AgentsOK
      <4> QED BY <3>1, <3>2, <4>1 DEF Workers, Receipt
    <3>4. WorkerOK(worker[w])'
      BY <2>1, <2>2, <3>1, <3>3 DEF WorkerOK
    <3> QED BY <1>2, <2>2, <3>2, <3>4, WorkerKeeps
  <2>4. ASSUME NEW pc \in {"failing", "deferring"}, Does(w, pc)
        PROVE  AgentsOK'
    BY <1>2, <2>1, <2>2, <2>4, DoesKeeps
  <2> QED BY <2>3, <2>4 DEF Send
<1>4. RestOK'
  <2>1. row.status # "absent"
    BY AgentsAreOK DEF AgentsOK, WorkerOK, Send
  <2>2. RestOK /\ faults' \in 0 .. MaxFaults
    BY RestIsOK, CompletionAssumption DEF Send, Fault, RestOK
  <2>3. CASE Sends
    BY <2>1, <2>2, <2>3, SendsKeeps, OutboxIsOK DEF Send, ledger, plans,
       RestOK, PublishedWasSent, SentGrows, OutboxOK
  <2>4. CASE UNCHANGED sent
    BY <2>2, <2>4 DEF Send, plans, RestOK, PublishedWasSent
  <2> QED BY <2>3, <2>4 DEF Send
<1> QED BY <1>1, <1>2, <1>3, <1>4, PartsKeep

LEMMA RecordKeeps ==
  ASSUME IInv, NEW w \in Worker, Record(w)
  PROVE  IInv'
<1>1. RunsGoOn
  BY SameRunsKeeps DEF Record, ledger, plans, outside
<1>2. OutboxKept
  <2>1. worker[w].receipt \in 1 .. Len(sent)
    BY AgentsAreOK, OutboxIsOK DEF AgentsOK, WorkerOK, OutboxOK, Record
  <2>2. CASE worker[w].pc = "sent" /\ MayRecord(worker[w].receipt)
    BY <2>1, <2>2, ReceivesKeeps DEF Record, ledger, outside
  <2>3. CASE ~(worker[w].pc = "sent" /\ MayRecord(worker[w].receipt))
    BY <1>1, <2>3, SameObjectiveKeeps DEF Record, ledger, outside
  <2> QED BY <2>2, <2>3
<1>3. AgentsOK'
  <2>1. worker[w].pc # "idle" /\ worker[w].receipt # 0
    BY AgentsAreOK DEF AgentsOK, WorkerOK, Record
  <2>2. \/ Rests(w)
        \/ Does(w, "publishing")
        \/ Does(w, "failing")
    BY DEF Record
  <2>3. SentGrows /\ UNCHANGED turn
    BY SameSent DEF Record, outside
  <2> QED BY <1>2, <2>1, <2>2, <2>3, NoWorkKeeps, DoesKeeps
<1>4. RestOK'
  BY RestIsOK DEF RestOK, PublishedWasSent, Record, ledger, plans, outside
<1> QED BY <1>1, <1>2, <1>3, <1>4, PartsKeep

LEMMA PublishKeeps ==
  ASSUME IInv, NEW w \in Worker, Publish(w)
  PROVE  IInv'
<1>1. RunsGoOn
  BY SameRunsKeeps DEF Publish, ledger, plans
<1>2. OutboxKept
  BY <1>1, SameObjectiveKeeps DEF Publish, ledger, plans
<1>3. AgentsOK'
  <2>1. worker[w].pc # "idle" /\ worker[w].receipt # 0
    BY AgentsAreOK DEF AgentsOK, WorkerOK, Publish
  <2>2. Does(w, "completing") \/ Does(w, "failing")
    BY DEF Publish
  <2>3. SentGrows /\ UNCHANGED turn
    BY SameSent DEF Publish
  <2> QED BY <1>2, <2>1, <2>2, <2>3, DoesKeeps
<1>4. RestOK'
  <2>1. CASE Publishes
    <3>1. sent # <<>>
      BY AgentsAreOK, OutboxIsOK DEF AgentsOK, WorkerOK, OutboxOK, Publish
    <3> QED BY <2>1, <3>1, PublishesKeeps, RestIsOK DEF Publish, plans, RestOK
  <2>2. CASE UNCHANGED published
    BY <2>2, RestIsOK DEF Publish, plans, RestOK, PublishedWasSent
  <2> QED BY <2>1, <2>2 DEF Publish
<1> QED BY <1>1, <1>2, <1>3, <1>4, PartsKeep

LEMMA CompleteKeeps ==
  ASSUME IInv, NEW w \in Worker, Complete(w)
  PROVE  IInv'
<1>1. RunsGoOn
  BY SameRunsKeeps DEF Complete, plans, outside
<1>2. OutboxKept
  <2>1. worker[w].receipt \in 1 .. Len(sent) /\ Holds(w) \in BOOLEAN
    BY AgentsAreOK, OutboxIsOK DEF AgentsOK, WorkerOK, OutboxOK, Complete,
       Holds
  <2> QED BY <1>1, <2>1, SettlesKeeps DEF Complete, outside
<1>3. AgentsOK'
  <2>1. worker[w].pc # "idle"
    BY DEF Complete
  <2>2. Rests(w) \/ Does(w, "failing")
    BY DEF Complete
  <2>3. SentGrows /\ UNCHANGED turn
    BY SameSent DEF Complete, outside
  <2> QED BY <1>2, <2>1, <2>2, <2>3, NoWorkKeeps, DoesKeeps
<1>4. RestOK'
  BY RestIsOK DEF RestOK, PublishedWasSent, Complete, plans, outside
<1> QED BY <1>1, <1>2, <1>3, <1>4, PartsKeep

LEMMA FailKeeps ==
  ASSUME IInv, NEW w \in Worker, Fail(w)
  PROVE  IInv'
<1>1. RunsGoOn
  BY SameRunsKeeps DEF Fail, ledger, plans, outside
<1>2. OutboxKept
  <2>1. row \in Rows
    BY DEF IInv, TypeOK
  <2>2. RowGoesOn \/ UNCHANGED row
    BY <2>1, CompletionAssumption DEF RowGoesOn, Rows, Fail, Holds
  <2> QED BY <2>2, RowKeeps DEF Fail, ledger, plans, outside
<1>3. AgentsOK'
  BY <1>2, SameSent, NoWorkKeeps DEF Fail, ledger, plans, outside
<1>4. RestOK'
  BY RestIsOK DEF RestOK, PublishedWasSent, Fail, ledger, plans, outside
<1> QED BY <1>1, <1>2, <1>3, <1>4, PartsKeep

LEMMA DeferKeeps ==
  ASSUME IInv, NEW w \in Worker, Defer(w)
  PROVE  IInv'
<1>1. RunsGoOn
  BY SameRunsKeeps DEF Defer, ledger, plans, outside
<1>2. OutboxKept
  <2>1. CASE Holds(w) /\ Current
    <3>1. /\ row \in Rows /\ row.status = "delivering"
          /\ row' = [row EXCEPT !.token = None, !.due = FALSE, !.status = "queued",
                                !.attempts = IF @ = 0 THEN 0 ELSE @ - 1]
      BY <2>1 DEF IInv, TypeOK, Defer, Holds
    <3> DEFINE n == IF row.attempts = 0 THEN 0 ELSE row.attempts - 1
    <3>2. /\ n \in Nat
          /\ row' = [row EXCEPT !.token = None, !.due = FALSE, !.status = "queued",
                                !.attempts = n]
      BY <3>1 DEF Rows
    <3>3. RowGoesOn
      <4> HIDE DEF n
      <4> QED BY <3>1, <3>2 DEF RowGoesOn, Rows
    <3> QED BY <3>3, RowKeeps DEF Defer, ledger, outside
  <2>2. CASE ~(Holds(w) /\ Current)
    BY <2>2, RowKeeps DEF Defer, ledger, outside
  <2> QED BY <2>1, <2>2
<1>3. AgentsOK'
  BY <1>2, SameSent, NoWorkKeeps DEF Defer, ledger, plans, outside
<1>4. RestOK'
  BY RestIsOK DEF RestOK, PublishedWasSent, Defer, ledger, plans, outside
<1> QED BY <1>1, <1>2, <1>3, <1>4, PartsKeep

LEMMA CrashWorkerKeeps ==
  ASSUME IInv, NEW w \in Worker, CrashWorker(w)
  PROVE  IInv'
<1>1. RunsGoOn
  BY SameRunsKeeps DEF CrashWorker, ledger, plans
<1>2. OutboxKept
  BY <1>1, SameObjectiveKeeps DEF CrashWorker, ledger, plans
<1>3. AgentsOK'
  BY <1>2, SameSent, NoWorkKeeps DEF CrashWorker, ledger, plans
<1>4. RestOK'
  BY RestIsOK, CompletionAssumption DEF RestOK, PublishedWasSent, Fault,
     CrashWorker, ledger, plans
<1> QED BY <1>1, <1>2, <1>3, <1>4, PartsKeep

-----------------------------------------------------------------------------
(* The invariant.                                                          *)

\* The actions of Next, one by one.
LEMMA NextCases ==
  ASSUME Next
  PROVE  \/ \E r \in Run : StartTurn(r) \/ \E x \in Result : Answer(r, x)
         \/ \E r \in Run : StartAutomation(r) \/ GiveBack(r)
         \/ GiveBackUnstarted
         \/ \E r \in Run, due \in BOOLEAN : Accept(r, due)
         \/ \E r \in Run : Unavailable(r) \/ Reject(r) \/ RejectToCorrect(r)
         \/ \E r, r2 \in Run : Correct(r, r2)
         \/ \E r \in Run : Lose(r) \/ Throw(r) \/ CrashTurn(r)
         \/ \E r \in Run : ExpireLease(r) \/ Reconcile(r)
         \/ Reverify \/ ReverifyAccepts \/ ReverifyRejects \/ ReverifyFails
         \/ \E outcome \in {"failed", "succeeded"} : PlanEnds(outcome)
         \/ PlanRetried \/ FailureNotice \/ DeliverPlan
         \/ \E r \in Run : Synthesize(r)
         \/ \E r \in Run, x \in Result : Synthesized(r, x)
         \/ CancelObjective \/ CancelPlans
         \/ \E r \in Run : Present(r) \/ PublishPresented(r) \/ Acknowledge(r)
         \/ Due
         \/ \E w \in Worker : Claim(w) \/ Send(w) \/ Record(w) \/ Publish(w)
         \/ \E w \in Worker : Complete(w) \/ Fail(w) \/ Defer(w)
         \/ \E w \in Worker : CrashWorker(w)
BY Zenon DEF Next, TurnStep, PlanStep, PresentStep, Work

LEMMA InitIInv ==
  Init => IInv
<1> SUFFICES ASSUME Init PROVE IInv
  OBVIOUS
<1> USE CompletionAssumption
<1>1. /\ \E status \in {"pending", "running"} :
           objective = [status |-> status, verdict |-> "none",
                        candidate |-> None, result |-> None]
      /\ row = [status |-> "absent", run |-> None, result |-> None, token |-> None,
                attempts |-> 0, due |-> FALSE, receipt |-> 0]
      /\ sent = <<>> /\ published = {}
  <2>1. PICK origin \in Origins :
          objective =
            [status |-> IF origin = "initiative" THEN "pending" ELSE "running",
             verdict |-> "none", candidate |-> None, result |-> None]
    BY DEF Init
  <2> QED BY <2>1 DEF Init
<1>2. TypeOK
  <2>1. objective \in Objectives /\ row \in Rows
    BY <1>1 DEF Objectives, Rows, Receipt
  <2>2. run \in [Run -> Runs] /\ last \in Run \cup {None}
    BY DEF Init, Runs
  <2>3. NoTurn \in Turns /\ NoTurn.pc = "idle" /\ NoWork \in Workers
    BY DEF NoTurn, Turns, NoWork, Workers, Receipt
  <2>4. /\ turn \in [Run -> Turns] /\ worker \in [Worker -> Workers]
        /\ \A r \in Run : turn[r].pc = "idle"
    BY <2>3 DEF Init
  <2>5. plan \in {"none", "running"} /\ notices = {} /\ verifier = None
        /\ faults = 0
    BY DEF Init
  <2> QED BY <1>1, <2>1, <2>2, <2>4, <2>5 DEF TypeOK
<1>3. RowIsRight /\ AcceptedIsRow /\ Messages /\ DeliveredIsFinal
      /\ PublishedWasSent /\ LastSucceeded
  BY <1>1 DEF Init, RowIsRight, AcceptedIsRow, Messages, DeliveredIsFinal,
     PublishedWasSent, LastSucceeded
<1>4. ReceiptsAreRight /\ SendersHaveReceipts
  BY <1>1 DEF Init, ReceiptsAreRight, IsReceipt, SendersHaveReceipts, NoTurn,
     NoWork
<1> QED BY <1>2, <1>3, <1>4 DEF IInv

LEMMA NextKeeps ==
  ASSUME IInv, [Next]_vars
  PROVE  IInv'
<1>1. CASE UNCHANGED vars
  <2>1. UNCHANGED <<objective, run, last, plan, notices, row, turn, verifier,
                    worker, sent, published, faults>>
    BY <1>1 DEF vars, ledger, plans, agents, outside
  <2>2. RunsGoOn /\ OutboxKept /\ AgentsOK' /\ RestOK'
    BY <2>1, SameRunsKeeps, SameObjectiveKeeps, SameSent, SameAgentsKeep,
       RestIsOK DEF RestOK, PublishedWasSent
  <2> QED BY <2>2, PartsKeep
<1>2. CASE Next
  BY <1>2, NextCases, StartTurnKeeps, AnswerKeeps, AcceptKeeps, UnavailableKeeps,
     StartAutomationKeeps, GiveBackKeeps, GiveBackUnstartedKeeps,
     RejectKeeps, RejectToCorrectKeeps, CorrectKeeps, LoseKeeps,
     ThrowKeeps, CrashTurnKeeps, ExpireLeaseKeeps, ReconcileKeeps,
     ReverifyKeeps, ReverifyAcceptsKeeps, ReverifyRejectsKeeps, ReverifyFailsKeeps,
     PlanEndsKeeps, PlanRetriedKeeps, FailureNoticeKeeps, DeliverPlanKeeps,
     SynthesizeKeeps, SynthesizedKeeps, CancelObjectiveKeeps, CancelPlansKeeps,
     PresentKeeps, PublishPresentedKeeps, AcknowledgeKeeps, DueKeeps,
     ClaimKeeps, SendKeeps, RecordKeeps, PublishKeeps,
     CompleteKeeps, FailKeeps, DeferKeeps, CrashWorkerKeeps
<1> QED BY <1>1, <1>2

\* The Objective, its row, the Runs and the messages fit together in every
\* state of every instance.
THEOREM Invariance == Spec => []IInv
BY InitIInv, NextKeeps, PTL DEF Spec

\* The outbox, the ledger and the agents keep their types.
THEOREM TypeCorrect == Spec => []TypeOK
<1>1. IInv => TypeOK
  BY DEF IInv
<1> QED BY <1>1, Invariance, PTL

\* No acceptance is recorded that the outbox cannot deliver.
THEOREM AcceptedResultIsQueued == Spec => []AcceptedIsQueued
<1>1. IInv => AcceptedIsQueued
  BY DEF IInv, AcceptedIsQueued, AcceptedIsRow, RowIsRight, Running
<1> QED BY <1>1, Invariance, PTL

\* An Objective succeeds with the receipt of a message with its result.
THEOREM SuccessWasDelivered == Spec => []SucceededWasDelivered
<1>1. IInv => SucceededWasDelivered
  <2> SUFFICES ASSUME IInv PROVE SucceededWasDelivered
    OBVIOUS
  <2>1. OutboxOK
    BY OutboxIsOK
  <2> QED
    BY <2>1 DEF OutboxOK, SucceededWasDelivered, DeliveredIsFinal, Messages,
       IsReceipt
<1> QED BY <1>1, Invariance, PTL

\* Organization memory learns only results that a channel accepted.
THEOREM PublicationWasSent == Spec => []PublishedWasSent
<1>1. IInv => PublishedWasSent
  BY DEF IInv
<1> QED BY <1>1, Invariance, PTL

-----------------------------------------------------------------------------
(* The outbox implements its promise.                                      *)

\* How a step looks from outside: nothing happens but a change of mind, the
\* result is offered, a message is sent, or the Objective succeeds.
Mind ==
  /\ UNCHANGED sent /\ row'.result = row.result
  /\ \/ objective'.status = objective.status
     \/ /\ objective.status \in {"pending", "running", "failed"}
        /\ objective'.status \in {"pending", "running", "failed", "cancelled"}

Offered ==
  /\ UNCHANGED sent /\ row.result = None /\ row'.result \in Result
  /\ objective.status \in {"running", "failed"} /\ objective'.status = "running"

SentOne ==
  /\ Sends /\ row.result \in Result
  /\ row'.result = row.result /\ objective'.status = objective.status

Delivered ==
  /\ UNCHANGED sent /\ row'.result = row.result /\ sent # <<>>
  /\ objective.status = "running" /\ objective'.status = "succeeded"

Visible == Mind \/ Offered \/ SentOne \/ Delivered

LEMMA VisibleIsPromised ==
  ASSUME IInv, Visible
  PROVE  [Promise!Next]_(Promise!vars)
<1>1. /\ None \notin Result
      /\ objective.status
           \in {"pending", "running", "succeeded", "failed", "cancelled"}
  BY CompletionAssumption DEF IInv, TypeOK, Objectives
<1>2. CASE Mind
  BY <1>1, <1>2 DEF Mind, Promise!Next, Promise!End, Promise!vars, Outcome, Active
<1>3. CASE Offered
  BY <1>1, <1>3 DEF Offered, Promise!Next, Promise!Offer, Outcome, Active
<1>4. CASE SentOne
  BY <1>1, <1>4 DEF SentOne, Sends, Promise!Next, Promise!Send, Outcome, Active
<1>5. CASE Delivered
  BY <1>1, <1>5 DEF Delivered, Promise!Next, Promise!Succeed, Outcome, Active
<1> QED BY <1>2, <1>3, <1>4, <1>5 DEF Visible

LEMMA UpdateIsMind ==
  ASSUME UNCHANGED <<row, sent>>, NEW o, Update(o) \/ UNCHANGED objective,
         o.status \in {objective.status, "running", "failed", "cancelled"}
  PROVE  Mind
BY DEF Mind, Update, Active

LEMMA AcceptsIsVisible ==
  ASSUME IInv, NEW r \in Run, NEW x \in Result, NEW due \in BOOLEAN,
         Accepts(r, x, due), UNCHANGED sent,
         objective.status \in {"running", "failed"}
  PROVE  Mind \/ Offered
<1>1. OutboxOK
  BY OutboxIsOK
<1>2. objective'.status = "running"
  BY <1>1 DEF Accepts, OutboxOK, Objectives
<1>3. CASE row.status = "absent"
  <2>1. row.result = None /\ row'.result = x
    BY <1>1, <1>3 DEF OutboxOK, RowIsRight, Accepts, Enqueued, Rows
  <2> QED BY <1>2, <2>1 DEF Offered
<1>4. CASE row.status # "absent"
  BY <1>2, <1>4 DEF Accepts, Enqueued, Mind
<1> QED BY <1>3, <1>4

LEMMA SettlesIsVisible ==
  ASSUME IInv, UNCHANGED sent, NEW receipt \in 1 .. Len(sent),
         NEW entitled \in BOOLEAN, Settles(receipt, entitled)
  PROVE  Mind \/ Delivered
<1>1. OutboxOK /\ sent # <<>>
  BY OutboxIsOK DEF OutboxOK
<1>2. CASE MayDeliver /\ Deliver(receipt)
  <2>1. objective.status = "running" /\ objective'.status = "succeeded"
    BY <1>1, <1>2 DEF OutboxOK, MayDeliver, Current, Running, Deliver, Objectives
  <2>2. row'.result = row.result
    BY <1>1, <1>2 DEF OutboxOK, Deliver, Rows
  <2> QED BY <1>1, <2>1, <2>2 DEF Delivered
<1>3. CASE Receives(receipt) /\ UNCHANGED objective
  BY <1>1, <1>3 DEF OutboxOK, Receives, Rows, Mind
<1>4. CASE UNCHANGED <<row, objective>>
  BY <1>4 DEF Mind
<1> QED BY <1>2, <1>3, <1>4 DEF Settles

LEMMA NextIsVisible ==
  ASSUME IInv, Next
  PROVE  Visible
<1>0. OutboxOK /\ AgentsOK /\ objective \in Objectives
  BY OutboxIsOK, AgentsAreOK DEF OutboxOK
<1>1. ASSUME NEW r \in Run, StartTurn(r)  PROVE Visible
  BY <1>1 DEF Visible, Mind, StartTurn, plans, outside
<1>37. ASSUME NEW r \in Run, StartAutomation(r)  PROVE Visible
  BY <1>0, <1>37 DEF Visible, Mind, Objectives, StartAutomation, Recorded,
     Active, plans, outside
<1>38. ASSUME NEW r \in Run, GiveBack(r)  PROVE Visible
  BY <1>0, <1>38 DEF Visible, Mind, Objectives, GivesBack, Update, Ends,
     Running, Active, GiveBack, plans, outside
<1>39. ASSUME GiveBackUnstarted  PROVE Visible
  BY <1>0, <1>39 DEF Visible, Mind, Objectives, GivesBack, Update, Ends,
     Running, Active, GiveBackUnstarted, plans, agents
<1>2. ASSUME NEW r \in Run, NEW x \in Result, Answer(r, x)  PROVE Visible
  BY <1>0, <1>2 DEF Visible, Mind, Objectives, Update, Candidate, Active,
     Answer, plans, outside
<1>3. ASSUME NEW r \in Run, NEW due \in BOOLEAN, Accept(r, due)  PROVE Visible
  <2>1. turn[r].candidate \in Result
    BY <1>0, <1>3 DEF AgentsOK, TurnOK, Turns, Accept
  <2> QED
    BY <1>3, <2>1, AcceptsIsVisible DEF Visible, Accept, MaySettle, Settle,
       Running
<1>4. ASSUME NEW r \in Run, Unavailable(r)  PROVE Visible
  BY <1>0, <1>4 DEF Visible, Mind, Objectives, Update, Candidate, Active,
     Unavailable, plans, outside
<1>5. ASSUME NEW r \in Run, Reject(r)  PROVE Visible
  BY <1>0, <1>5 DEF Visible, Mind, Objectives, Update, Candidate, Active,
     Reject, plans, outside
<1>6. ASSUME NEW r \in Run, RejectToCorrect(r)  PROVE Visible
  BY <1>0, <1>6 DEF Visible, Mind, Objectives, Update, Candidate, Active,
     RejectToCorrect, plans, outside
<1>7. ASSUME NEW r \in Run, NEW r2 \in Run, Correct(r, r2)  PROVE Visible
  BY <1>7 DEF Visible, Mind, Correct, plans, outside
<1>8. ASSUME NEW r \in Run, Lose(r)  PROVE Visible
  BY <1>8 DEF Visible, Mind, Lose, ledger, plans, outside
<1>9. ASSUME NEW r \in Run, Throw(r)  PROVE Visible
  BY <1>0, <1>9 DEF Visible, Mind, Objectives, Update, Ends, Active, Throw,
     plans, outside
<1>10. ASSUME NEW r \in Run, CrashTurn(r)  PROVE Visible
  BY <1>10 DEF Visible, Mind, CrashTurn, ledger, plans
<1>11. ASSUME NEW r \in Run, ExpireLease(r)  PROVE Visible
  BY <1>11 DEF Visible, Mind, ExpireLease, plans, agents
<1>12. ASSUME NEW r \in Run, Reconcile(r)  PROVE Visible
  BY <1>0, <1>12 DEF Visible, Mind, Objectives, Candidate, Ends,
     Running, Reconcile, plans, agents, outside
<1>13. ASSUME Reverify  PROVE Visible
  BY <1>13 DEF Visible, Mind, Reverify, ledger, plans, outside
<1>14. ASSUME ReverifyAccepts  PROVE Visible
  <2>1. CASE MayResolve
    <3>1. /\ last \in Run /\ objective.candidate \in Result
          /\ objective.status \in {"running", "failed"}
      BY <2>1 DEF IInv, TypeOK, MayResolve, Reverifiable, Objectives
    <3> QED
      BY <1>14, <2>1, <3>1, AcceptsIsVisible DEF Visible, ReverifyAccepts
  <2>2. CASE ~MayResolve
    BY <1>14, <2>2 DEF Visible, Mind, ReverifyAccepts
  <2> QED BY <2>1, <2>2
<1>15. ASSUME ReverifyRejects  PROVE Visible
  BY <1>0, <1>15 DEF Visible, Mind, Objectives, Reverifiable, ReverifyRejects,
     plans, outside
<1>16. ASSUME ReverifyFails  PROVE Visible
  BY <1>16 DEF Visible, Mind, ReverifyFails, ledger, plans, outside
<1>17. ASSUME NEW outcome \in {"failed", "succeeded"}, PlanEnds(outcome) 
     PROVE Visible
  BY <1>17 DEF Visible, Mind, PlanEnds, ledger, agents, outside
<1>18. ASSUME PlanRetried  PROVE Visible
  BY <1>18 DEF Visible, Mind, PlanRetried, ledger, agents
<1>19. ASSUME FailureNotice  PROVE Visible
  BY <1>0, <1>19 DEF Visible, Mind, Objectives, Update, Ends, Active,
     FailureNotice, agents
<1>20. ASSUME DeliverPlan  PROVE Visible
  BY <1>0, <1>20 DEF Visible, Mind, Objectives, Retried, DeliverPlan, agents
<1>21. ASSUME NEW r \in Run, Synthesize(r)  PROVE Visible
  BY <1>0, <1>21 DEF Visible, Mind, Objectives, Retried, Synthesize, plans,
     outside
<1>22. ASSUME NEW r \in Run, NEW x \in Result, Synthesized(r, x)  PROVE
     Visible
  <2>1. CASE MaySettle(r, x)
    BY <1>22, <2>1, AcceptsIsVisible DEF Visible, Synthesized, MaySettle,
       Settle, Running
  <2>2. CASE ~MaySettle(r, x)
    BY <1>22, <2>2 DEF Visible, Mind, Synthesized
  <2> QED BY <2>1, <2>2
<1>23. ASSUME CancelObjective  PROVE Visible
  BY <1>0, <1>23 DEF Visible, Mind, OutboxOK, Objectives, Rows, Ends, Active,
     CancelObjective, plans, agents, outside
<1>24. ASSUME CancelPlans  PROVE Visible
  BY <1>0, <1>24 DEF Visible, Mind, Objectives, Update, Ends, Active,
     CancelPlans, agents, outside
<1>25. ASSUME NEW r \in Run, Present(r)  PROVE Visible
  <2>1. row.result \in Result
    BY <1>0, <1>25 DEF AgentsOK, TurnOK, OutboxOK, RowIsRight, Present
  <2> QED BY <1>25, <2>1 DEF Visible, Mind, SentOne, Present, ledger, plans
<1>26. ASSUME NEW r \in Run, PublishPresented(r)  PROVE Visible
  BY <1>26 DEF Visible, Mind, PublishPresented, ledger, plans
<1>27. ASSUME NEW r \in Run, Acknowledge(r)  PROVE Visible
  <2>1. turn[r].receipt \in 1 .. Len(sent)
    BY <1>0, <1>27 DEF AgentsOK, TurnOK, OutboxOK, Acknowledge
  <2> QED BY <1>27, <2>1, SettlesIsVisible DEF Visible, Acknowledge, outside
<1>28. ASSUME Due  PROVE Visible
  BY <1>0, <1>28 DEF Visible, Mind, OutboxOK, Rows, Receives, Due, ledger,
     plans, agents
<1>29. ASSUME NEW w \in Worker, Claim(w)  PROVE Visible
  BY <1>0, <1>29 DEF Visible, Mind, OutboxOK, Rows, Receives, Claim, ledger,
     plans, outside
<1>30. ASSUME NEW w \in Worker, Send(w)  PROVE Visible
  <2>1. row.result \in Result
    BY <1>0, <1>30 DEF AgentsOK, WorkerOK, OutboxOK, RowIsRight, Send
  <2> QED BY <1>30, <2>1 DEF Visible, Mind, SentOne, Send, ledger, plans
<1>31. ASSUME NEW w \in Worker, Record(w)  PROVE Visible
  BY <1>0, <1>31 DEF Visible, Mind, OutboxOK, Rows, Receives, Record, ledger,
     plans, outside
<1>32. ASSUME NEW w \in Worker, Publish(w)  PROVE Visible
  BY <1>32 DEF Visible, Mind, Publish, ledger, plans
<1>33. ASSUME NEW w \in Worker, Complete(w)  PROVE Visible
  <2>1. worker[w].receipt \in 1 .. Len(sent) /\ Holds(w) \in BOOLEAN
    BY <1>0, <1>33 DEF AgentsOK, WorkerOK, OutboxOK, Complete, Holds
  <2> QED BY <1>33, <2>1, SettlesIsVisible DEF Visible, Complete, outside
<1>34. ASSUME NEW w \in Worker, Fail(w)  PROVE Visible
  BY <1>0, <1>34 DEF Visible, Mind, OutboxOK, Rows, Receives, Fail, ledger,
     plans, outside
<1>35. ASSUME NEW w \in Worker, Defer(w)  PROVE Visible
  BY <1>0, <1>35 DEF Visible, Mind, OutboxOK, Rows, Receives, Defer, ledger,
     plans, outside
<1>36. ASSUME NEW w \in Worker, CrashWorker(w)  PROVE Visible
  BY <1>36 DEF Visible, Mind, CrashWorker, ledger, plans
<1> QED BY NextCases, <1>1, <1>2, <1>3, <1>4, <1>5, <1>6, <1>7, <1>8, <1>9,
      <1>10, <1>11, <1>12, <1>13, <1>14, <1>15, <1>16, <1>17, <1>18, <1>19,
      <1>20, <1>21, <1>22, <1>23, <1>24, <1>25, <1>26, <1>27, <1>28, <1>29,
      <1>30, <1>31, <1>32, <1>33, <1>34, <1>35, <1>36, <1>37, <1>38, <1>39

\* One result is offered, every message carries it, success comes after a
\* message, and success and cancellation are final.
THEOREM Implements == Spec => DeliversOneResult
<1>1. Init => Promise!Init
  BY DEF Init, Promise!Init, Outcome, Active
<1>2. IInv /\ [Next]_vars => [Promise!Next]_(Promise!vars)
  <2> SUFFICES ASSUME IInv, [Next]_vars PROVE [Promise!Next]_(Promise!vars)
    OBVIOUS
  <2>1. CASE UNCHANGED vars
    BY <2>1 DEF vars, ledger, outside, Promise!vars, Outcome, Active
  <2>2. CASE Next
    BY <2>2, NextIsVisible, VisibleIsPromised
  <2> QED BY <2>1, <2>2
<1> QED BY <1>1, <1>2, Invariance, PTL DEF Spec, DeliversOneResult, Promise!Spec

\* A worker whose claim was taken over leaves the row alone.
LEMMA OnlyHoldersGiveUp ==
  ASSUME IInv, Next, row.status = "delivering",
         row'.status \in {"queued", "blocked"}, objective' = objective
  PROVE  worker[row.token].pc \in {"failing", "deferring"}
<1>0. row \in Rows /\ row'.status # row.status /\ objective \in Objectives
  BY DEF IInv, TypeOK
<1>1. ASSUME NEW r \in Run, StartTurn(r)  PROVE FALSE
  BY <1>0, <1>1 DEF StartTurn
<1>37. ASSUME NEW r \in Run, StartAutomation(r) \/ GiveBack(r)  PROVE FALSE
  BY <1>0, <1>37 DEF StartAutomation, GiveBack
<1>38. ASSUME GiveBackUnstarted  PROVE FALSE
  BY <1>0, <1>38 DEF GiveBackUnstarted
<1>2. ASSUME NEW r \in Run, NEW x \in Result, Answer(r, x)  PROVE FALSE
  BY <1>0, <1>2 DEF Answer
<1>3. ASSUME NEW r \in Run, NEW due \in BOOLEAN, Accept(r, due)  PROVE FALSE
  BY <1>0, <1>3 DEF Accept, Settle, Accepts, Enqueued
<1>4. ASSUME NEW r \in Run, Unavailable(r)  PROVE FALSE
  BY <1>0, <1>4 DEF Unavailable
<1>5. ASSUME NEW r \in Run, Reject(r)  PROVE FALSE
  BY <1>0, <1>5 DEF Reject
<1>6. ASSUME NEW r \in Run, RejectToCorrect(r)  PROVE FALSE
  BY <1>0, <1>6 DEF RejectToCorrect
<1>7. ASSUME NEW r \in Run, NEW r2 \in Run, Correct(r, r2)  PROVE FALSE
  BY <1>0, <1>7 DEF Correct
<1>8. ASSUME NEW r \in Run, Lose(r)  PROVE FALSE
  BY <1>0, <1>8 DEF Lose
<1>9. ASSUME NEW r \in Run, Throw(r)  PROVE FALSE
  BY <1>0, <1>9 DEF Throw
<1>10. ASSUME NEW r \in Run, CrashTurn(r)  PROVE FALSE
  BY <1>0, <1>10 DEF CrashTurn
<1>11. ASSUME NEW r \in Run, ExpireLease(r)  PROVE FALSE
  BY <1>0, <1>11 DEF ExpireLease
<1>12. ASSUME NEW r \in Run, Reconcile(r)  PROVE FALSE
  BY <1>0, <1>12 DEF Reconcile
<1>13. ASSUME Reverify  PROVE FALSE
  BY <1>0, <1>13 DEF Reverify
<1>14. ASSUME ReverifyAccepts  PROVE FALSE
  BY <1>0, <1>14 DEF ReverifyAccepts, Accepts, Enqueued
<1>15. ASSUME ReverifyRejects  PROVE FALSE
  BY <1>0, <1>15 DEF ReverifyRejects
<1>16. ASSUME ReverifyFails  PROVE FALSE
  BY <1>0, <1>16 DEF ReverifyFails
<1>17. ASSUME NEW outcome \in {"failed", "succeeded"}, PlanEnds(outcome) 
     PROVE FALSE
  BY <1>0, <1>17 DEF PlanEnds
<1>18. ASSUME PlanRetried  PROVE FALSE
  BY <1>0, <1>18 DEF PlanRetried
<1>19. ASSUME FailureNotice  PROVE FALSE
  BY <1>0, <1>19 DEF FailureNotice
<1>20. ASSUME DeliverPlan  PROVE FALSE
  BY <1>0, <1>20 DEF DeliverPlan
<1>21. ASSUME NEW r \in Run, Synthesize(r)  PROVE FALSE
  BY <1>0, <1>21 DEF Synthesize
<1>22. ASSUME NEW r \in Run, NEW x \in Result, Synthesized(r, x)  PROVE FALSE
  BY <1>0, <1>22 DEF Synthesized, Settle, Accepts, Enqueued
<1>23. ASSUME CancelObjective  PROVE FALSE
  BY <1>0, <1>23 DEF CancelObjective, Active, Ends, Objectives
<1>24. ASSUME CancelPlans  PROVE FALSE
  BY <1>0, <1>24 DEF CancelPlans
<1>25. ASSUME NEW r \in Run, Present(r)  PROVE FALSE
  BY <1>0, <1>25 DEF Present
<1>26. ASSUME NEW r \in Run, PublishPresented(r)  PROVE FALSE
  BY <1>0, <1>26 DEF PublishPresented
<1>27. ASSUME NEW r \in Run, Acknowledge(r)  PROVE FALSE
  BY <1>0, <1>27 DEF Acknowledge, Settles, Deliver, Receives, Rows
<1>28. ASSUME Due  PROVE FALSE
  BY <1>0, <1>28 DEF Due, Rows
<1>29. ASSUME NEW w \in Worker, Claim(w)  PROVE FALSE
  BY <1>0, <1>29 DEF Claim, Rows
<1>30. ASSUME NEW w \in Worker, Send(w)  PROVE FALSE
  BY <1>0, <1>30 DEF Send
<1>31. ASSUME NEW w \in Worker, Record(w)  PROVE FALSE
  BY <1>0, <1>31 DEF Record, Receives, Rows
<1>32. ASSUME NEW w \in Worker, Publish(w)  PROVE FALSE
  BY <1>0, <1>32 DEF Publish
<1>33. ASSUME NEW w \in Worker, Complete(w)  PROVE FALSE
  BY <1>0, <1>33 DEF Complete, Settles, Deliver, Receives, Rows
<1>34. ASSUME NEW w \in Worker, Fail(w)  PROVE worker[row.token].pc \in
     {"failing", "deferring"}
  BY <1>0, <1>34 DEF Fail, Holds
<1>35. ASSUME NEW w \in Worker, Defer(w)  PROVE worker[row.token].pc \in
     {"failing", "deferring"}
  BY <1>0, <1>35 DEF Defer, Holds
<1>36. ASSUME NEW w \in Worker, CrashWorker(w)  PROVE FALSE
  BY <1>0, <1>36 DEF CrashWorker
<1> QED BY NextCases, <1>1, <1>2, <1>3, <1>4, <1>5, <1>6, <1>7, <1>8, <1>9,
      <1>10, <1>11, <1>12, <1>13, <1>14, <1>15, <1>16, <1>17, <1>18, <1>19,
      <1>20, <1>21, <1>22, <1>23, <1>24, <1>25, <1>26, <1>27, <1>28, <1>29,
      <1>30, <1>31, <1>32, <1>33, <1>34, <1>35, <1>36,
      <1>37, <1>38

\* A row is given up by the worker that holds it, never by one whose claim ran
\* out and was taken over.
THEOREM ClaimsAreExclusive == Spec => TakenOverClaimIsQuiet
<1>1. ASSUME IInv, [Next]_vars, row.status = "delivering",
             row'.status \in {"queued", "blocked"}, objective' = objective
      PROVE  worker[row.token].pc \in {"failing", "deferring"}
  <2>1. CASE UNCHANGED vars
    BY <1>1, <2>1 DEF vars
  <2>2. CASE Next
    BY <1>1, <2>2, OnlyHoldersGiveUp
  <2> QED BY <1>1, <2>1, <2>2
<1> QED BY <1>1, Invariance, PTL DEF Spec, TakenOverClaimIsQuiet
=============================================================================
