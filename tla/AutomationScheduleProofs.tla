----------------------- MODULE AutomationScheduleProofs -----------------------
(***************************************************************************)
(* Proofs about a Schedule and the Objectives it works for, for any number  *)
(* of workers, occurrences, commands and faults.                            *)
(*                                                                         *)
(* ClaimInv ties the token of the Schedule to the one occurrence that is    *)
(* open, and counts the attempts of an occurrence that nobody works for     *)
(* any more as one less than allowed.  OutboxInv does the same for the      *)
(* deliveries that nobody sends.                                            *)
(*                                                                         *)
(* BoundInv says which Objective an occurrence is bound to: every Objective *)
(* a turn ever worked for is that of its occurrence, so that there is one.  *)
(* ResultInv says who may still change it: the numbers of the attempts keep *)
(* the Objectives of two executions apart, and once the holder has its      *)
(* verdict no earlier turn of the same occurrence goes on.  What is left to *)
(* an execution without its claim is to give the Objective back.            *)
(***************************************************************************)
EXTENDS AutomationSchedule, TLAPS

\* The types of everything but the outbox.
Types ==
  /\ now \in Time
  /\ job \in JobType
  /\ occ \in [Time -> OccurrenceType]
  /\ live \subseteq Worker
  /\ worker \in [Worker -> WorkerType]
  /\ objective \in [Objective -> ObjectiveType]
  /\ faults \in 0 .. MaxFaults

BusyHasOccurrence ==
  \A w \in Worker : Busy(w) => worker[w].at \in Time /\ worker[w].attempt \in Attempts

\* Only a claimed occurrence has a token, and while its claim has not expired
\* the Schedule has the same.
OneOpen == \A t, u \in Open : t = u
TokenIsOpen == job.token # None => \E t \in Open : occ[t].token = job.token
TokenIsClaim == \A t \in Time : occ[t].status = "claimed" <=> occ[t].token # None
LiveIsJobs ==
  \A t \in Time : occ[t].status = "claimed" /\ occ[t].token \in live
    => job.token = occ[t].token

\* Somebody executes occurrence t under a claim that has not expired.
Worked(t) ==
  occ[t].token \in live /\ Busy(occ[t].token) /\ worker[occ[t].token].at = t

AttemptsLeft(t) ==
  /\ occ[t].attempts <= MaxAttempts + faults
  /\ occ[t].status = "absent" => occ[t].attempts = 0 /\ occ[t].objective = None
  /\ occ[t].status = "retrying" => occ[t].attempts < MaxAttempts
  /\ occ[t].status = "claimed" /\ ~Worked(t) => occ[t].attempts < MaxAttempts + faults

ClaimInv ==
  /\ Types /\ BusyHasOccurrence /\ OneOpen /\ TokenIsOpen /\ TokenIsClaim /\ LiveIsJobs
  /\ \A t \in Time : AttemptsLeft(t)

-----------------------------------------------------------------------------
LEMMA Constants ==
  /\ Period \in Nat \ {0} /\ Delay \in Nat \ {0} /\ MaxAttempts \in Nat \ {0}
  /\ MaxDeliveries \in Nat \ {0} /\ Last \in Nat /\ MaxFaults \in Nat
  /\ None \notin Worker /\ None \notin Objective
  /\ Kinds \subseteq {"at", "every", "cron"}
BY ScheduleAssumption

LEMMA NextRunIsTime ==
  ASSUME NEW kind, NEW t \in Nat
  PROVE  NextRun(kind, t) \in Nat
<1>1. t \div Period \in Nat
  BY Constants
<1>2. ((t \div Period) + 1) * Period \in Nat
  BY <1>1, Constants
<1> QED BY <1>1, <1>2, Constants DEF NextRun

LEMMA TimeIsNat == Time \subseteq Nat /\ Attempts \subseteq Nat
BY Constants DEF Time, Attempts

\* A step that keeps the claims, the workers' occurrences and the faults.
LEMMA SameClaims ==
  ASSUME ClaimInv, now' \in Time, job' \in JobType, job'.token = job.token,
         UNCHANGED <<occ, live, worker, objective, faults>>
  PROVE  ClaimInv'
BY DEF ClaimInv, Types, BusyHasOccurrence, Busy, OneOpen, Open, TokenIsOpen,
   TokenIsClaim, LiveIsJobs, AttemptsLeft, Worked

\* A busy worker goes on, and may bind an Objective to its occurrence.
LEMMA GoesOnKeeps ==
  ASSUME ClaimInv, NEW w \in Worker, NEW x \in WorkerType, NEW o \in Objective \cup {None},
         Busy(w), x.pc # "idle", x.at = worker[w].at, x.attempt = worker[w].attempt,
         worker' = [worker EXCEPT ![w] = x],
         \/ UNCHANGED occ
         \/ occ[worker[w].at].status = "claimed"
            /\ occ' = [occ EXCEPT ![worker[w].at].objective = o],
         objective' \in [Objective -> ObjectiveType],
         UNCHANGED <<now, job, live, faults>>
  PROVE  ClaimInv'
<1>1. \A v \in Worker :
        /\ worker'[v] \in WorkerType /\ worker'[v].at = worker[v].at
        /\ worker'[v].attempt = worker[v].attempt /\ (Busy(v)' <=> Busy(v))
  BY DEF ClaimInv, Types, Busy
<1>2. worker[w].at \in Time
  BY DEF ClaimInv, BusyHasOccurrence
<1>3. \A t \in Time :
        /\ occ'[t] \in OccurrenceType /\ occ'[t].status = occ[t].status
        /\ occ'[t].token = occ[t].token /\ occ'[t].attempts = occ[t].attempts
        /\ occ[t].status = "absent" => occ'[t].objective = occ[t].objective
  BY <1>2 DEF ClaimInv, Types, OccurrenceType
<1>4. Types'
  BY <1>1, <1>3 DEF ClaimInv, Types
<1>5. BusyHasOccurrence' /\ Open' = Open
  BY <1>1, <1>3 DEF ClaimInv, BusyHasOccurrence, Open
<1>6. OneOpen' /\ TokenIsOpen' /\ TokenIsClaim' /\ LiveIsJobs'
  <2>1. OneOpen' /\ TokenIsClaim' /\ LiveIsJobs'
    BY <1>3, <1>5 DEF ClaimInv, OneOpen, TokenIsClaim, LiveIsJobs
  <2>2. TokenIsOpen'
    <3>1. Open \subseteq Time
      BY DEF Open
    <3> QED BY <1>3, <1>5, <3>1 DEF ClaimInv, TokenIsOpen
  <2> QED BY <2>1, <2>2
<1>7. \A t \in Time : Worked(t)' <=> Worked(t)
  BY <1>1, <1>3 DEF Worked, ClaimInv, Types
<1>8. ASSUME NEW t \in Time PROVE AttemptsLeft(t)'
  BY <1>3, <1>7 DEF ClaimInv, AttemptsLeft
<1> QED BY <1>4, <1>5, <1>6, <1>8 DEF ClaimInv

\* When the Schedule may be claimed, no claim on an occurrence is alive.
LEMMA NoClaimLeft ==
  ASSUME ClaimInv, job.token = None \/ job.token \notin live, NEW t \in Open
  PROVE  occ[t].status = "retrying" \/ occ[t].token \notin live
BY Constants DEF ClaimInv, LiveIsJobs, Open, Types

LEMMA MaxOfOne ==
  ASSUME NEW t \in Nat
  PROVE  Max({t}) = t
BY DEF Max

LEMMA ClaimedIsRight ==
  ASSUME ClaimInv, Due, CanInsert
  PROVE  /\ Claimed \in Time
         /\ Open \subseteq {Claimed}
         /\ \/ occ[Claimed].status \in {"absent", "retrying"}
            \/ occ[Claimed].status = "claimed" /\ occ[Claimed].token \notin live
<1>1. Open \subseteq Reclaimable
  BY NoClaimLeft DEF Due, Reclaimable
<1>2. CASE Reclaimable = {}
  <2>1. job.next \in Nat /\ job.next <= now /\ now \in Time
    BY DEF Due, ClaimInv, Types, JobType
  <2>2. job.next \in Time
    BY <2>1, Constants DEF Time
  <2> QED BY <1>1, <1>2, <2>2 DEF Claimed, CanInsert
<1>3. CASE Reclaimable # {}
  <2>1. PICK t \in Open : t \in Reclaimable
    BY <1>3 DEF Reclaimable
  <2>2. Reclaimable = {t} /\ Open \subseteq {t} /\ t \in Time
    BY <2>1 DEF ClaimInv, OneOpen, Open, Reclaimable
  <2>3. Claimed = t
    BY <1>3, <2>2, MaxOfOne, TimeIsNat DEF Claimed
  <2> QED BY <2>1, <2>2, <2>3 DEF Reclaimable, Open
<1> QED BY <1>2, <1>3

LEMMA ClaimKeeps ==
  ASSUME ClaimInv, NEW w \in Worker, Claim(w)
  PROVE  ClaimInv'
<1>0. PICK t \in Time : t = Claimed
  BY ClaimedIsRight DEF Claim
<1>1. /\ t \in Time /\ Open \subseteq {t}
      /\ \/ occ[t].status \in {"absent", "retrying"}
         \/ occ[t].status = "claimed" /\ occ[t].token \notin live
  BY <1>0, ClaimedIsRight DEF Claim
<1>2. /\ Types /\ worker[w] = Idle /\ w \notin live
      /\ occ' = [occ EXCEPT ![t].status = "claimed", ![t].token = w,
                            ![t].attempts = @ + 1]
      /\ live' = live \cup {w} /\ job' = [job EXCEPT !.token = w]
      /\ worker' = [worker EXCEPT ![w] =
           [pc |-> "claimed", at |-> t, attempt |-> occ[t].attempts + 1,
            objective |-> occ[t].objective]]
      /\ UNCHANGED <<now, objective, faults>>
  BY <1>0 DEF Claim, ClaimInv
<1>3. occ[t] \in OccurrenceType /\ AttemptsLeft(t) /\ faults \in 0 .. MaxFaults
  BY <1>1, <1>2 DEF ClaimInv, Types
<1>4. ~Worked(t)
  BY <1>1, <1>2, <1>3, Constants DEF Worked, OccurrenceType, ClaimInv, TokenIsClaim, Types
<1>5. occ[t].attempts \in Nat /\ occ[t].attempts < MaxAttempts + faults
  BY <1>1, <1>3, <1>4, Constants DEF AttemptsLeft, OccurrenceType
<1>6. /\ occ[t].attempts + 1 \in Attempts
      /\ occ[t].attempts + 1 <= MaxAttempts + faults
      /\ occ[t].attempts + 1 \in 0 .. MaxAttempts + MaxFaults
  BY <1>3, <1>5, Constants DEF Attempts
<1>7. occ' \in [Time -> OccurrenceType] /\ occ'[t] \in OccurrenceType
      /\ occ'[t].status = "claimed" /\ occ'[t].token = w
      /\ occ'[t].attempts = occ[t].attempts + 1
      /\ \A u \in Time \ {t} : occ'[u] = occ[u]
  BY <1>1, <1>2, <1>3, <1>6 DEF OccurrenceType, Types
<1>8. worker' \in [Worker -> WorkerType] /\ Busy(w)'
      /\ worker'[w].at = t /\ worker'[w].attempt \in Attempts
      /\ \A v \in Worker \ {w} : worker'[v] = worker[v]
  BY <1>1, <1>2, <1>3, <1>6 DEF WorkerType, OccurrenceType, Types, Busy
<1>9. job' \in JobType /\ job'.token = w
  BY <1>2 DEF Types, JobType
<1>10. Types' /\ BusyHasOccurrence'
  BY <1>1, <1>2, <1>7, <1>8, <1>9 DEF Types, ClaimInv, BusyHasOccurrence, Busy
<1>11. Open' = {t}
  BY <1>1, <1>7 DEF Open
<1>12. OneOpen' /\ TokenIsOpen'
  BY <1>7, <1>9, <1>11 DEF OneOpen, TokenIsOpen
<1>13. \A u \in Time \ {t} : occ[u].status # "claimed" /\ occ[u].status # "retrying"
  BY <1>1 DEF Open
<1>14. TokenIsClaim' /\ LiveIsJobs'
  BY <1>7, <1>9, <1>13, Constants DEF TokenIsClaim, LiveIsJobs, ClaimInv
<1>15. Worked(t)'
  BY <1>2, <1>7, <1>8 DEF Worked, Busy
<1>16. ASSUME NEW u \in Time PROVE AttemptsLeft(u)'
  <2>1. CASE u = t
    <3>1. faults' = faults /\ occ'[t].attempts <= MaxAttempts + faults'
      BY <1>2, <1>6, <1>7
    <3> QED BY <1>7, <1>15, <2>1, <3>1 DEF AttemptsLeft
  <2>2. CASE u # t
    BY <1>2, <1>7, <1>13, <2>2 DEF AttemptsLeft, ClaimInv
  <2> QED BY <2>1, <2>2
<1> QED BY <1>10, <1>12, <1>14, <1>16 DEF ClaimInv

\* More faults, fewer live claims: every claim that is lost was a fault, or
\* had nobody working for it.
LEMMA LosesKeeps ==
  ASSUME ClaimInv, UNCHANGED <<now, job, occ, objective>>,
         live' \subseteq live, faults' \in 0 .. MaxFaults, faults <= faults',
         worker' \in [Worker -> WorkerType],
         \A v \in Worker : worker'[v] = worker[v] \/ worker'[v] = Idle,
         faults' > faults \/ \A t \in Time : Worked(t) => Worked(t)'
  PROVE  ClaimInv'
<1>1. Types'
  BY DEF ClaimInv, Types
<1>2. BusyHasOccurrence'
  BY DEF ClaimInv, BusyHasOccurrence, Busy, Idle
<1>3. OneOpen' /\ TokenIsOpen' /\ TokenIsClaim' /\ LiveIsJobs'
  BY DEF ClaimInv, OneOpen, Open, TokenIsOpen, TokenIsClaim, LiveIsJobs
<1>4. ASSUME NEW t \in Time PROVE AttemptsLeft(t)'
  BY Constants DEF AttemptsLeft, ClaimInv, Types, OccurrenceType
<1> QED BY <1>1, <1>2, <1>3, <1>4 DEF ClaimInv

LEMMA IdleIsWorker == Idle \in WorkerType
BY DEF Idle, WorkerType

LEMMA ExpireClaimKeeps ==
  ASSUME ClaimInv, NEW w \in Worker, ExpireClaim(w)
  PROVE  ClaimInv'
<1>1. /\ live' = live \ {w} /\ UNCHANGED <<now, job, occ, worker, objective>>
      /\ faults \in 0 .. MaxFaults
      /\ IF Busy(w) THEN faults < MaxFaults /\ faults' = faults + 1
                    ELSE UNCHANGED faults
  BY DEF ExpireClaim, ClaimInv, Types
<1>2. ~Busy(w) => \A t \in Time : Worked(t) => Worked(t)'
  BY <1>1 DEF Worked, Busy
<1>3. faults' \in 0 .. MaxFaults /\ faults <= faults' /\ (Busy(w) => faults' > faults)
  BY <1>1, Constants
<1>4. worker' \in [Worker -> WorkerType]
  BY <1>1 DEF ClaimInv, Types
<1> QED BY <1>1, <1>2, <1>3, <1>4, LosesKeeps

LEMMA CrashKeeps ==
  ASSUME ClaimInv, Crash
  PROVE  ClaimInv'
<1>1. /\ faults < MaxFaults /\ faults' = faults + 1 /\ faults \in 0 .. MaxFaults
      /\ worker' = [w \in Worker |-> Idle]
      /\ UNCHANGED <<now, job, occ, objective, live>>
  BY DEF Crash, ClaimInv, Types
<1>2. faults' \in 0 .. MaxFaults /\ faults' > faults /\ faults <= faults'
  BY <1>1, Constants
<1>3. worker' \in [Worker -> WorkerType]
  BY <1>1, IdleIsWorker
<1> QED BY <1>1, <1>2, <1>3, LosesKeeps

\* Faults of the outbox.
LEMMA FaultKeeps ==
  ASSUME ClaimInv, UNCHANGED <<now, schedule>>,
         faults' = faults \/ (faults < MaxFaults /\ faults' = faults + 1)
  PROVE  ClaimInv'
<1>1. UNCHANGED <<now, job, occ, live, worker, objective>> /\ faults \in 0 .. MaxFaults
  BY DEF schedule, ClaimInv, Types
<1>2. faults' \in 0 .. MaxFaults /\ faults <= faults'
  BY <1>1, Constants
<1>3. worker' \in [Worker -> WorkerType] /\ \A t \in Time : Worked(t) => Worked(t)'
  BY <1>1 DEF ClaimInv, Types, Worked, Busy
<1> QED BY <1>1, <1>2, <1>3, LosesKeeps

LEMMA RenewKeeps ==
  ASSUME ClaimInv, NEW w \in Worker, Renew(w)
  PROVE  ClaimInv'
<1>1. /\ job.token = w /\ live' = live \cup {w}
      /\ UNCHANGED <<now, job, occ, worker, objective, faults>>
  BY DEF Renew
<1>2. \A t \in Time : Worked(t) => Worked(t)'
  BY <1>1 DEF Worked, Busy
<1>3. ASSUME NEW t \in Time PROVE AttemptsLeft(t)'
  BY <1>1, <1>2 DEF AttemptsLeft, ClaimInv
<1>4. Types' /\ BusyHasOccurrence' /\ OneOpen' /\ TokenIsOpen' /\ TokenIsClaim'
  BY <1>1 DEF ClaimInv, Types, BusyHasOccurrence, Busy, OneOpen, Open, TokenIsOpen,
     TokenIsClaim
<1>5. LiveIsJobs'
  BY <1>1 DEF ClaimInv, LiveIsJobs
<1> QED BY <1>3, <1>4, <1>5 DEF ClaimInv

\* The claim of w on occurrence t, and with it its execution, ends.
LEMMA SettlesKeeps ==
  ASSUME ClaimInv, NEW w \in Worker, NEW t \in Time, NEW x \in OccurrenceType,
         job.token = w, occ[t].token = w,
         occ' = [occ EXCEPT ![t] = x], x.token = None, x.attempts = occ[t].attempts,
         x.status \in Final \cup {"retrying"},
         x.status = "retrying" => x.attempts < MaxAttempts,
         job' \in JobType, job'.token = None, Ends(w),
         UNCHANGED <<now, objective, faults>>
  PROVE  ClaimInv'
<1>1. /\ occ[t].status = "claimed" /\ t \in Open
      /\ \A u \in Time \ {t} : u \notin Open
  BY Constants DEF ClaimInv, TokenIsClaim, OneOpen, Open
<1>2. /\ occ' \in [Time -> OccurrenceType] /\ occ'[t] = x
      /\ \A u \in Time \ {t} : occ'[u] = occ[u]
  BY DEF ClaimInv, Types
<1>3. /\ worker' \in [Worker -> WorkerType] /\ worker'[w] = Idle /\ live' = live \ {w}
      /\ \A v \in Worker \ {w} : worker'[v] = worker[v]
  BY IdleIsWorker DEF Ends, ClaimInv, Types
<1>4. Types' /\ BusyHasOccurrence'
  BY <1>2, <1>3 DEF ClaimInv, Types, BusyHasOccurrence, Busy, Idle
<1>5. x.status # "claimed" /\ x.status # "absent"
  BY DEF Final
<1>6. \A u \in Time : occ'[u].status # "claimed"
  BY <1>1, <1>2, <1>5 DEF Open
<1>7. OneOpen' /\ TokenIsOpen'
  BY <1>1, <1>2 DEF OneOpen, TokenIsOpen, Open
<1>8. TokenIsClaim' /\ LiveIsJobs'
  BY <1>1, <1>2, <1>5, <1>6, Constants DEF TokenIsClaim, LiveIsJobs, ClaimInv, Open
<1>9. ASSUME NEW u \in Time PROVE AttemptsLeft(u)'
  <2>1. AttemptsLeft(u)
    BY DEF ClaimInv
  <2>2. CASE u = t
    BY <1>2, <1>5, <2>1, <2>2 DEF AttemptsLeft
  <2>3. CASE u # t
    BY <1>2, <1>6, <2>1, <2>3 DEF AttemptsLeft
  <2> QED BY <2>2, <2>3
<1> QED BY <1>4, <1>7, <1>8, <1>9 DEF ClaimInv

LEMMA FollowingIsTime ==
  ASSUME Types
  PROVE  Following \in Nat /\ NextRun(job.kind, now) \in Nat /\ now \in Nat
<1>1. now \in Nat /\ job.next \in Nat /\ job.manual \in Nat \cup {None}
  BY TimeIsNat DEF Types, JobType
<1> QED BY <1>1, NextRunIsTime DEF Following

LEMMA SucceedKeeps ==
  ASSUME ClaimInv, NEW w \in Worker, Succeed(w)
  PROVE  ClaimInv'
<1>1. Busy(w) /\ Types
  BY DEF Succeed, Verified, Busy, ClaimInv
<1>2. PICK t \in Time : t = worker[w].at
  BY <1>1 DEF ClaimInv, BusyHasOccurrence
<1> DEFINE x == [occ[t] EXCEPT !.status = "succeeded", !.token = None,
                               !.objective = worker[w].objective]
<1>3. occ[t] \in OccurrenceType /\ worker[w].objective \in Objective \cup {None}
  BY <1>1, <1>2 DEF Types, WorkerType
<1>4. /\ x \in OccurrenceType /\ x.status = "succeeded" /\ x.token = None
      /\ x.attempts = occ[t].attempts
  BY <1>3 DEF OccurrenceType, Final
<1>5. occ' = [occ EXCEPT ![t] = x]
  BY <1>1, <1>2 DEF Succeed, Types
<1>6. job' \in JobType /\ job'.token = None
  BY <1>1, FollowingIsTime DEF Succeed, AfterSuccess, Released, Types, JobType
<1>7. job.token = w /\ occ[t].token = w /\ Ends(w) /\ UNCHANGED <<now, objective, faults>>
  BY <1>2 DEF Succeed, Holds
<1> HIDE DEF x
<1>8. x.status \in Final \cup {"retrying"} /\ x.status # "retrying"
  BY <1>4 DEF Final
<1> QED BY <1>4, <1>5, <1>6, <1>7, <1>8, SettlesKeeps

LEMMA FailKeeps ==
  ASSUME ClaimInv, NEW w \in Worker, Fail(w)
  PROVE  ClaimInv'
<1>1. Busy(w) /\ Types
  BY DEF Fail, Busy, ClaimInv
<1>2. PICK t \in Time : t = worker[w].at
  BY <1>1 DEF ClaimInv, BusyHasOccurrence
<1>3. Ends(w) /\ UNCHANGED <<now, objective, faults>>
  BY DEF Fail
<1>4. CASE Holds(w) /\ w \in live
  <2> DEFINE x == [occ[t] EXCEPT !.token = None,
                     !.status = IF Exhausted(t) THEN "failed" ELSE "retrying"]
  <2>1. occ[t] \in OccurrenceType /\ occ[t].attempts \in Nat
    BY <1>1, Constants DEF Types, OccurrenceType
  <2>2. /\ x \in OccurrenceType /\ x.token = None /\ x.attempts = occ[t].attempts
        /\ x.status \in Final \cup {"retrying"}
        /\ x.status = "retrying" => ~Exhausted(t)
    BY <2>1 DEF OccurrenceType, Final
  <2>3. ~Exhausted(t) => occ[t].attempts < MaxAttempts
    BY <2>1, Constants DEF Exhausted
  <2>4. occ' = [occ EXCEPT ![t] = x]
    BY <1>1, <1>2, <1>4 DEF Fail, Types
  <2>5. job' = AfterError(t)
    BY <1>2, <1>4 DEF Fail
  <2>6. now + Delay \in Nat
    BY <1>1, FollowingIsTime, Constants
  <2>7. job' \in JobType /\ job'.token = None
    BY <1>1, <2>5, <2>6, FollowingIsTime DEF AfterError, Released, Types, JobType
  <2>8. job.token = w /\ occ[t].token = w
    BY <1>2, <1>4 DEF Holds
  <2> HIDE DEF x
  <2> QED BY <1>3, <2>2, <2>3, <2>4, <2>7, <2>8, SettlesKeeps
<1>5. CASE ~(Holds(w) /\ w \in live)
  <2>1. UNCHANGED <<occ, job>>
    BY <1>5 DEF Fail
  <2>2. /\ live' = live \ {w} /\ worker' \in [Worker -> WorkerType]
        /\ \A v \in Worker : worker'[v] = worker[v] \/ worker'[v] = Idle
        /\ \A v \in Worker \ {w} : worker'[v] = worker[v]
    BY <1>1, <1>3, IdleIsWorker DEF Ends, Types
  <2>3. ASSUME NEW u \in Time, Worked(u) PROVE Worked(u)'
    <3>1. occ[u].token # w
      <4>1. SUFFICES ASSUME occ[u].token = w PROVE FALSE
        OBVIOUS
      <4>2. occ[u].status = "claimed" /\ w \in live
        BY <2>3, <4>1, Constants DEF Worked, ClaimInv, TokenIsClaim
      <4>3. job.token = w
        BY <4>1, <4>2 DEF ClaimInv, LiveIsJobs
      <4>4. worker[w].at = u
        BY <2>3, <4>1 DEF Worked
      <4> QED BY <1>5, <4>1, <4>2, <4>3, <4>4 DEF Holds
    <3>2. occ[u].token \in Worker
      BY <1>1, <2>3 DEF Worked, Types
    <3> QED BY <2>1, <2>2, <2>3, <3>1, <3>2 DEF Worked, Busy
  <2>4. faults' \in 0 .. MaxFaults /\ faults <= faults'
    BY <1>1, <1>3, Constants DEF Types
  <2> QED BY <1>3, <2>1, <2>2, <2>3, <2>4, LosesKeeps
<1> QED BY <1>4, <1>5

LEMMA SkipMisfireKeeps ==
  ASSUME ClaimInv, SkipMisfire
  PROVE  ClaimInv'
<1>1. Types /\ UNCHANGED <<now, live, worker, objective, faults>>
  BY DEF SkipMisfire, ClaimInv
<1>2. job' \in JobType /\ job'.token = None
  BY <1>1, FollowingIsTime DEF SkipMisfire, Types, JobType
<1>3. /\ occ' \in [Time -> OccurrenceType]
      /\ \A t \in Time :
           \/ occ'[t] = occ[t]
           \/ /\ occ[t].status = "absent" /\ occ'[t].status = "skipped"
              /\ occ'[t].token = occ[t].token /\ occ'[t].attempts = occ[t].attempts
              /\ occ'[t].objective = occ[t].objective
  <2>1. CASE occ' = occ
    BY <1>1, <2>1 DEF Types
  <2>2. CASE occ[job.next].status = "absent"
             /\ occ' = [occ EXCEPT ![job.next].status = "skipped"]
    <3>1. \A t \in Time : [occ[t] EXCEPT !.status = "skipped"] \in OccurrenceType
      BY <1>1 DEF Types, OccurrenceType, Final
    <3>2. occ' = [t \in Time |-> IF t = job.next
                                THEN [occ[t] EXCEPT !.status = "skipped"] ELSE occ[t]]
      BY <1>1, <2>2 DEF Types
    <3>3. ASSUME NEW t \in Time
          PROVE  /\ occ'[t] \in OccurrenceType
                 /\ \/ occ'[t] = occ[t]
                    \/ occ[t].status = "absent"
                       /\ occ'[t] = [occ[t] EXCEPT !.status = "skipped"]
      BY <1>1, <2>2, <3>1, <3>2 DEF Types
    <3>4. \A t \in Time : occ[t] \in OccurrenceType
      BY <1>1 DEF Types
    <3>5. occ' \in [Time -> OccurrenceType]
      BY <3>2, <3>3
    <3> QED BY <3>3, <3>4, <3>5 DEF OccurrenceType
  <2> QED BY <2>1, <2>2 DEF SkipMisfire
<1>4. Types' /\ BusyHasOccurrence' /\ Open' = Open
  BY <1>1, <1>2, <1>3 DEF Types, ClaimInv, BusyHasOccurrence, Busy, Open
<1>5. OneOpen' /\ TokenIsOpen'
  BY <1>2, <1>4 DEF ClaimInv, OneOpen, TokenIsOpen
<1>6. TokenIsClaim'
  BY <1>3 DEF ClaimInv, TokenIsClaim
<1>7. LiveIsJobs'
  <2>1. \A t \in Open : occ[t].status = "retrying" \/ occ[t].token \notin live
    BY NoClaimLeft DEF SkipMisfire, Due
  <2> QED BY <1>1, <1>3, <2>1 DEF LiveIsJobs, Open
<1>8. ASSUME NEW t \in Time PROVE AttemptsLeft(t)'
  <2>1. Worked(t)' <=> Worked(t)
    BY <1>1, <1>3 DEF Worked, Busy
  <2> QED BY <1>1, <1>3, <2>1 DEF AttemptsLeft, ClaimInv
<1> QED BY <1>4, <1>5, <1>6, <1>7, <1>8 DEF ClaimInv

LEMMA RemoveKeeps ==
  ASSUME ClaimInv, Remove
  PROVE  ClaimInv'
<1>1. /\ Types /\ UNCHANGED <<now, live, worker, objective, faults>>
      /\ occ' = [t \in Time |-> NoOccurrence]
      /\ job' = [job EXCEPT !.removed = TRUE, !.enabled = FALSE, !.token = None]
  BY DEF Remove, ClaimInv
<1>2. job' \in JobType /\ job'.token = None
  BY <1>1 DEF Types, JobType
<1>3. NoOccurrence \in OccurrenceType
  BY Constants DEF NoOccurrence, OccurrenceType
<1>4. Types' /\ BusyHasOccurrence'
  BY <1>1, <1>2, <1>3 DEF Types, ClaimInv, BusyHasOccurrence, Busy
<1>5. OneOpen' /\ TokenIsOpen' /\ TokenIsClaim' /\ LiveIsJobs'
  BY <1>1, <1>2 DEF OneOpen, Open, TokenIsOpen, TokenIsClaim, LiveIsJobs, NoOccurrence
<1>6. ASSUME NEW t \in Time PROVE AttemptsLeft(t)'
  BY <1>1, Constants DEF AttemptsLeft, NoOccurrence, Types
<1> QED BY <1>4, <1>5, <1>6 DEF ClaimInv

-----------------------------------------------------------------------------
(* The steps of an execution.                                              *)

\* What FailsCreated and the other writers of Objectives leave.
LEMMA WritersKeepTypes ==
  ASSUME Types, NEW w \in Worker,
         \/ UNCHANGED objective
         \/ FailsCreated(w)
         \/ \E o, s, q : s \in {"delivered", "failed", "cancelled"} \cup Unfinished
              /\ q \in BOOLEAN
              /\ \/ objective' = [objective EXCEPT ![o].status = s]
                 \/ objective' = [objective EXCEPT ![o].status = s, ![o].queued = q]
                 \/ objective' = [objective EXCEPT ![o] = [status |-> s, queued |-> q]]
  PROVE  objective' \in [Objective -> ObjectiveType]
<1>1. \A o \in Objective : objective[o] \in ObjectiveType
  BY DEF Types
<1>2. ASSUME NEW o, NEW s \in {"delivered", "failed", "cancelled"} \cup Unfinished,
             NEW q \in BOOLEAN,
             \/ objective' = [objective EXCEPT ![o].status = s]
             \/ objective' = [objective EXCEPT ![o].status = s, ![o].queued = q]
             \/ objective' = [objective EXCEPT ![o] = [status |-> s, queued |-> q]]
      PROVE  objective' \in [Objective -> ObjectiveType]
  BY <1>1, <1>2 DEF Types, ObjectiveType
<1>3. CASE FailsCreated(w)
  <2>1. \/ UNCHANGED objective
        \/ objective' = [objective EXCEPT ![worker[w].objective].status = "failed"]
    BY <1>3 DEF FailsCreated
  <2> QED BY <1>2, <2>1 DEF Types
<1> QED BY <1>2, <1>3 DEF Types

LEMMA BeginKeeps ==
  ASSUME ClaimInv, NEW w \in Worker, Begin(w)
  PROVE  ClaimInv'
<1>1. /\ Busy(w) /\ Types /\ worker[w] \in WorkerType /\ UNCHANGED <<now, job, occ, live, faults>>
      /\ worker[w].at \in Time /\ worker[w].attempt \in Attempts
  BY DEF Begin, Busy, ClaimInv, Types, BusyHasOccurrence
<1>2. objective' \in [Objective -> ObjectiveType]
  BY <1>1, WritersKeepTypes DEF Begin, Unfinished
<1>3. PICK x \in WorkerType :
        /\ worker' = [worker EXCEPT ![w] = x] /\ x.pc # "idle"
        /\ x.at = worker[w].at /\ x.attempt = worker[w].attempt
  <2>1. CASE worker[w].objective # None
    <3> DEFINE pc == IF objective[worker[w].objective].status = "pending"
                     THEN "reopened"
                     ELSE IF objective[worker[w].objective].status \in Unfinished
                     THEN "opened" ELSE "failed"
    <3>1. worker' = [worker EXCEPT ![w] = [worker[w] EXCEPT !.pc = pc]]
      BY <1>1, <2>1 DEF Begin, Goes, Types
    <3>2. [worker[w] EXCEPT !.pc = pc] \in WorkerType
      BY <1>1 DEF WorkerType
    <3> QED BY <1>1, <3>1, <3>2 DEF WorkerType
  <2>2. CASE worker[w].objective = None
    <3>1. worker' = [worker EXCEPT ![w] =
                       [worker[w] EXCEPT !.pc = "opened", !.objective = Own(w)]]
      BY <1>1, <2>2 DEF Begin, Types
    <3>2. Own(w) \in Objective
      BY <1>1 DEF Own, Objective
    <3>3. [worker[w] EXCEPT !.pc = "opened", !.objective = Own(w)] \in WorkerType
      BY <1>1, <3>2 DEF WorkerType
    <3> QED BY <1>1, <3>1, <3>3 DEF WorkerType
  <2> QED BY <2>1, <2>2
<1> QED BY <1>1, <1>2, <1>3, GoesOnKeeps

\* An execution goes on to pc.
LEMMA GoesIsStep ==
  ASSUME ClaimInv, NEW w \in Worker, Busy(w),
         NEW pc \in {"entered", "turn", "accepted", "answered", "thrown", "failed"},
         Goes(w, pc)
  PROVE  \E x \in WorkerType :
           /\ worker' = [worker EXCEPT ![w] = x] /\ x.pc = pc
           /\ x.at = worker[w].at /\ x.attempt = worker[w].attempt
           /\ x.objective = worker[w].objective
<1>1. worker[w] \in WorkerType
  BY DEF ClaimInv, Types
<1>2. [worker[w] EXCEPT !.pc = pc] \in WorkerType
  BY <1>1 DEF WorkerType
<1>3. worker' = [worker EXCEPT ![w] = [worker[w] EXCEPT !.pc = pc]]
  BY DEF Goes, ClaimInv, Types
<1> QED BY <1>1, <1>2, <1>3 DEF WorkerType

LEMMA BindKeeps ==
  ASSUME ClaimInv, NEW w \in Worker, Bind(w)
  PROVE  ClaimInv'
<1>1. Busy(w) /\ Types /\ UNCHANGED <<now, job, live, faults>> /\ worker[w].at \in Time
  BY DEF Bind, Busy, ClaimInv, BusyHasOccurrence
<1>2. worker[w].objective \in Objective \cup {None}
  BY <1>1 DEF Types, WorkerType
<1>3. objective' \in [Objective -> ObjectiveType]
  BY <1>1, WritersKeepTypes DEF Bind
<1>4. Goes(w, "turn") \/ Goes(w, "thrown")
  BY DEF Bind
<1>5. \/ UNCHANGED occ
      \/ occ[worker[w].at].status = "claimed"
         /\ occ' = [occ EXCEPT ![worker[w].at].objective = worker[w].objective]
  BY <1>1, Constants DEF Bind, MayBind, ClaimInv, TokenIsClaim
<1> QED BY <1>1, <1>2, <1>3, <1>4, <1>5, GoesIsStep, GoesOnKeeps

LEMMA VerdictKeeps ==
  ASSUME ClaimInv, NEW w \in Worker, NEW s \in {"accepted", "retained", "failed"},
         Verdict(w, s)
  PROVE  ClaimInv'
<1>1. Busy(w) /\ Types /\ UNCHANGED <<now, job, occ, live, faults>>
  BY DEF Verdict, Busy, ClaimInv
<1>2. objective' \in [Objective -> ObjectiveType]
  <2> DEFINE o == worker[w].objective
  <2>1. PICK q \in BOOLEAN : q = (objective[o].queued \/ s = "accepted")
    OBVIOUS
  <2>2. \/ UNCHANGED objective
        \/ objective' = [objective EXCEPT ![o].status = s, ![o].queued = q]
    BY <1>1, <2>1 DEF Verdict, Types, ObjectiveType
  <2> QED BY <1>1, <2>2, WritersKeepTypes DEF Unfinished
<1>3. Goes(w, "accepted") \/ Goes(w, "answered") \/ Goes(w, "thrown")
  BY DEF Verdict
<1> QED BY <1>1, <1>2, <1>3, GoesIsStep, GoesOnKeeps

\* An execution that enters its turn, leaves it by a throw, or gives its
\* Objective back.
LEMMA ThrowKeeps ==
  ASSUME ClaimInv, NEW w \in Worker,
         Enter(w) \/ Throw(w) \/ \E s \in {"pending", "cancelled"} : GiveBack(w, s)
  PROVE  ClaimInv'
<1>1. Busy(w) /\ Types /\ UNCHANGED <<now, job, occ, live, faults>>
  BY DEF Enter, Throw, GiveBack, Busy, ClaimInv
<1>2. Goes(w, "entered") \/ Goes(w, "thrown") \/ Goes(w, "failed")
  BY DEF Enter, Throw, GiveBack
<1>3. \/ FailsCreated(w)
      \/ UNCHANGED objective
      \/ \E o, s : s \in {"pending", "active", "cancelled"}
                   /\ objective' = [objective EXCEPT ![o].status = s]
  BY DEF Enter, Throw, GiveBack
<1>4. objective' \in [Objective -> ObjectiveType]
  BY <1>1, <1>3, WritersKeepTypes DEF Unfinished
<1> QED BY <1>1, <1>2, <1>4, GoesIsStep, GoesOnKeeps

\* Recovery and the Completion Outbox write Objectives only.
LEMMA ObjectivesKeep ==
  ASSUME ClaimInv, objective' \in [Objective -> ObjectiveType],
         UNCHANGED <<now, job, occ, live, worker, faults>>
  PROVE  ClaimInv'
BY DEF ClaimInv, Types, BusyHasOccurrence, Busy, OneOpen, Open, TokenIsOpen,
   TokenIsClaim, LiveIsJobs, AttemptsLeft, Worked

-----------------------------------------------------------------------------
LEMMA CommandKeeps ==
  ASSUME ClaimInv,
         \/ \E kind \in Kinds, policy \in Policies : Update(kind, policy)
         \/ RunNow \/ Pause \/ Resume \/ Tick
  PROVE  ClaimInv'
<1>1. Types /\ UNCHANGED <<occ, live, worker, objective, faults>>
  BY DEF ClaimInv, Update, RunNow, Pause, Resume, Tick, Command, schedule
<1>2. /\ now \in Nat /\ job.next \in Nat /\ job.kind \in Kinds
      /\ \A kind \in Kinds : NextRun(kind, now) \in Nat
  BY <1>1, TimeIsNat, NextRunIsTime DEF Types, JobType
<1>3. job' \in JobType /\ job'.token = job.token
  BY <1>1, <1>2 DEF Update, RunNow, Pause, Resume, Tick, schedule, Types, JobType
<1>4. now' \in Time
  <2>1. CASE Tick
    BY <1>1, <2>1, Constants DEF Tick, Types, Time
  <2>2. CASE UNCHANGED now
    BY <1>1, <2>2 DEF Types
  <2> QED BY <2>1, <2>2 DEF Update, RunNow, Pause, Resume, Command
<1> QED BY <1>1, <1>3, <1>4, SameClaims

LEMMA InitClaims ==
  ASSUME Init
  PROVE  ClaimInv
<1>1. NextRun("every", 0) \in Nat
  BY NextRunIsTime
<1>2. Types
  <2>1. job \in JobType
    BY <1>1 DEF Init, JobType
  <2>2. occ \in [Time -> OccurrenceType]
    BY Constants DEF Init, NoOccurrence, OccurrenceType
  <2>3. worker \in [Worker -> WorkerType]
    BY IdleIsWorker DEF Init
  <2>4. objective \in [Objective -> ObjectiveType]
    BY DEF Init, ObjectiveType
  <2>5. now \in Time /\ live \subseteq Worker /\ faults \in 0 .. MaxFaults
    BY Constants DEF Init, Time
  <2> QED BY <2>1, <2>2, <2>3, <2>4, <2>5 DEF Types
<1>3. job.token = None /\ occ = [t \in Time |-> NoOccurrence] /\ worker = [w \in Worker |-> Idle]
      /\ live = {} /\ faults = 0
  BY DEF Init
<1>4. Open = {}
  BY <1>3 DEF Open, NoOccurrence
<1> QED
  BY <1>2, <1>3, <1>4, Constants DEF ClaimInv, BusyHasOccurrence, Busy, Idle, OneOpen,
     TokenIsOpen, TokenIsClaim, LiveIsJobs, AttemptsLeft, NoOccurrence

LEMMA ClaimNext ==
  ASSUME ClaimInv, [Next]_vars
  PROVE  ClaimInv'
<1>1. ASSUME NEW w \in Worker, Step(w) PROVE ClaimInv'
  BY <1>1, BeginKeeps, BindKeeps, VerdictKeeps, ThrowKeeps, SucceedKeeps, FailKeeps
     DEF Step
<1>2. ASSUME NEW o \in Objective,
             DeliverObjective(o) \/ \E s \in {"accepted", "failed"} : Reverify(o, s)
      PROVE  ClaimInv'
  <2>1. objective' \in [Objective -> ObjectiveType]
    <3>1. CASE DeliverObjective(o)
      BY <3>1 DEF DeliverObjective, ClaimInv, Types, ObjectiveType
    <3>2. ASSUME NEW s \in {"accepted", "failed"}, Reverify(o, s)
          PROVE  objective' \in [Objective -> ObjectiveType]
      <4>1. PICK q \in BOOLEAN : q = (s = "accepted")
        OBVIOUS
      <4>2. objective' = [objective EXCEPT ![o] = [status |-> s, queued |-> q]]
        BY <3>2, <4>1 DEF Reverify
      <4> QED BY <4>2 DEF ClaimInv, Types, ObjectiveType, Unfinished
    <3> QED BY <1>2, <3>1, <3>2
  <2> QED BY <1>2, <2>1, ObjectivesKeep DEF DeliverObjective, Reverify
<1>3. ASSUME Deliver \/ \E t \in Time : ExpireDelivery(t)
      PROVE  ClaimInv'
  <2>1. UNCHANGED <<now, schedule>>
    BY <1>3 DEF Deliver, ExpireDelivery, ClaimDeliveries, Delivered, DeliveryFails,
       Defer, Records
  <2>2. faults' = faults \/ (faults < MaxFaults /\ faults' = faults + 1)
    BY <1>3 DEF Deliver, ExpireDelivery, ClaimDeliveries, Delivered, DeliveryFails,
       Defer
  <2> QED BY <2>1, <2>2, FaultKeeps
<1>4. CASE UNCHANGED vars
  <2>1. UNCHANGED <<now, schedule>> /\ faults' = faults
    BY <1>4 DEF vars
  <2> QED BY <2>1, FaultKeeps
<1> QED
  BY <1>1, <1>2, <1>3, <1>4, CommandKeeps, RemoveKeeps, SkipMisfireKeeps, ClaimKeeps,
     ExpireClaimKeeps, RenewKeeps, CrashKeeps DEF Next

-----------------------------------------------------------------------------
\* At most one occurrence is claimed or waits for a retry, and the Schedule is
\* held under the token of that occurrence.
THEOREM OneExecutionAtATime == Spec => []OneExecution
<1>1. ClaimInv => OneExecution
  BY DEF ClaimInv, OneOpen, TokenIsOpen, OneExecution
<1> QED BY <1>1, InitClaims, ClaimNext, PTL DEF Spec

\* An occurrence is executed MaxAttempts times, and once more at most for each
\* execution that was cut short.
THEOREM AttemptsAreBounded == Spec => []AttemptsBounded
<1>1. ClaimInv => AttemptsBounded
  BY DEF ClaimInv, AttemptsLeft, AttemptsBounded
<1> QED BY <1>1, InitClaims, ClaimNext, PTL DEF Spec

FinalStays == \A t \in Time :
  occ[t].status \in Final => job'.removed \/ occ'[t].status = occ[t].status
Fenced == \A w \in Worker :
  worker'[w] # worker[w] /\ worker[w].pc # "idle" /\ job.token # w
    => UNCHANGED <<job, occ, delivery>>

\* A step of w on the occurrence it has the token of.
LEMMA HolderIsFenced ==
  ASSUME ClaimInv, NEW w \in Worker, NEW t \in Time, NEW x,
         occ[t].token = w, job.token = w, occ' = [occ EXCEPT ![t] = x],
         \A v \in Worker \ {w} : worker'[v] = worker[v]
  PROVE  FinalStays /\ Fenced
<1>1. occ[t].status = "claimed"
  BY Constants DEF ClaimInv, TokenIsClaim
<1> QED BY <1>1 DEF ClaimInv, Types, FinalStays, Fenced, Final

LEMMA StepIsFenced ==
  ASSUME ClaimInv, NEW w \in Worker, Step(w)
  PROVE  FinalStays /\ Fenced
<1>1. CASE UNCHANGED <<job, occ, delivery>>
  BY <1>1 DEF FinalStays, Fenced
<1>2. CASE Bind(w)
  <2>1. worker[w].at \in Time
    BY <1>2 DEF Bind, ClaimInv, BusyHasOccurrence, Busy
  <2>2. CASE MayBind(w)
    <3> DEFINE t == worker[w].at
    <3>1. occ[t].token = w /\ occ[t].status = "claimed" /\ job.token = w
      BY <2>1, <2>2, Constants DEF MayBind, ClaimInv, TokenIsClaim, LiveIsJobs
    <3>2. occ' = [occ EXCEPT ![t] = [occ[t] EXCEPT !.objective = worker[w].objective]]
      BY <1>2, <2>2 DEF Bind, ClaimInv, Types
    <3>3. \A v \in Worker \ {w} : worker'[v] = worker[v]
      BY <1>2, <2>2 DEF Bind, Goes, ClaimInv, Types
    <3> QED BY <2>1, <3>1, <3>2, <3>3, HolderIsFenced
  <2>3. CASE ~MayBind(w)
    BY <1>1, <1>2, <2>3 DEF Bind, outbox
  <2> QED BY <2>2, <2>3
<1>3. CASE Succeed(w)
  <2> DEFINE t == worker[w].at
             x == [occ[t] EXCEPT !.status = "succeeded", !.token = None,
                                 !.objective = worker[w].objective]
  <2>1. t \in Time
    BY <1>3 DEF Succeed, Verified, ClaimInv, BusyHasOccurrence, Busy
  <2>2. occ[t].token = w /\ job.token = w /\ occ' = [occ EXCEPT ![t] = x]
    BY <1>3, <2>1 DEF Succeed, Holds, ClaimInv, Types
  <2>3. \A v \in Worker \ {w} : worker'[v] = worker[v]
    BY <1>3 DEF Succeed, Ends, ClaimInv, Types
  <2> HIDE DEF x
  <2> QED BY <2>1, <2>2, <2>3, HolderIsFenced
<1>4. CASE Fail(w) /\ Holds(w) /\ w \in live
  <2> DEFINE t == worker[w].at
             x == [occ[t] EXCEPT !.token = None,
                     !.status = IF Exhausted(t) THEN "failed" ELSE "retrying"]
  <2>1. t \in Time
    BY <1>4 DEF Fail, ClaimInv, BusyHasOccurrence, Busy
  <2>2. occ[t].token = w /\ job.token = w /\ occ' = [occ EXCEPT ![t] = x]
    BY <1>4, <2>1 DEF Fail, Holds, ClaimInv, Types
  <2>3. \A v \in Worker \ {w} : worker'[v] = worker[v]
    BY <1>4 DEF Fail, Ends, ClaimInv, Types
  <2> HIDE DEF x
  <2> QED BY <2>1, <2>2, <2>3, HolderIsFenced
<1> QED
  BY <1>1, <1>2, <1>3, <1>4
     DEF Step, Begin, Enter, Verdict, Throw, GiveBack, Fail, outbox

LEMMA NextIsFenced ==
  ASSUME ClaimInv, [Next]_vars
  PROVE  FinalStays /\ Fenced
<1>1. ASSUME UNCHANGED <<occ, worker>>
      PROVE  FinalStays /\ Fenced
  BY <1>1 DEF FinalStays, Fenced
<1>2. ASSUME NEW w \in Worker, Claim(w)
      PROVE  FinalStays /\ Fenced
  <2>1. PICK t \in Time : t = Claimed
    BY <1>2, ClaimedIsRight DEF Claim
  <2>2. occ[t].status \notin Final
    BY <1>2, <2>1, ClaimedIsRight DEF Claim, Final
  <2>3. \A u \in Time \ {t} : occ'[u] = occ[u]
    BY <1>2, <2>1 DEF Claim, ClaimInv, Types
  <2>4. worker[w].pc = "idle" /\ \A v \in Worker \ {w} : worker'[v] = worker[v]
    BY <1>2 DEF Claim, Idle, ClaimInv, Types
  <2> QED BY <2>2, <2>3, <2>4 DEF FinalStays, Fenced
<1>3. CASE SkipMisfire
  <2>1. UNCHANGED worker
    BY <1>3 DEF SkipMisfire
  <2>2. \A t \in Time : occ'[t] = occ[t] \/ occ[t].status = "absent"
    BY <1>3 DEF SkipMisfire, ClaimInv, Types
  <2> QED BY <2>1, <2>2 DEF FinalStays, Fenced, Final
<1>4. CASE Remove
  <2>1. job'.removed /\ UNCHANGED worker
    BY <1>4 DEF Remove, ClaimInv, Types, JobType
  <2> QED BY <2>1 DEF FinalStays, Fenced
<1>5. CASE Crash
  BY <1>5 DEF Crash, FinalStays, Fenced, outbox
<1>6. ASSUME NEW w \in Worker, ExpireClaim(w) \/ Renew(w)
      PROVE  FinalStays /\ Fenced
  BY <1>1, <1>6 DEF ExpireClaim, Renew
<1>7. ASSUME NEW o \in Objective,
             DeliverObjective(o) \/ \E s \in {"accepted", "failed"} : Reverify(o, s)
      PROVE  FinalStays /\ Fenced
  BY <1>1, <1>7 DEF DeliverObjective, Reverify
<1>8. ASSUME Deliver \/ \E t \in Time : ExpireDelivery(t)
      PROVE  FinalStays /\ Fenced
  BY <1>1, <1>8 DEF Deliver, ExpireDelivery, ClaimDeliveries, Delivered, DeliveryFails,
     Defer, Records, schedule
<1>9. CASE (\E kind \in Kinds, policy \in Policies : Update(kind, policy))
             \/ RunNow \/ Pause \/ Resume \/ Tick
  BY <1>1, <1>9 DEF Update, RunNow, Pause, Resume, Tick, schedule
<1>10. CASE UNCHANGED vars
  BY <1>1, <1>10 DEF vars, schedule
<1> QED
  BY <1>2, <1>3, <1>4, <1>5, <1>6, <1>7, <1>8, <1>9, <1>10, StepIsFenced DEF Next

\* What an occurrence came to is final, and an execution that lost its claim
\* writes neither the Schedule nor an occurrence nor a delivery.
THEOREM LostClaimsAreFenced == Spec => OutcomesAreFenced
<1>1. ClaimInv /\ [Next]_vars =>
        [/\ \A t \in Time : occ[t].status \in Final =>
              job'.removed \/ occ'[t].status = occ[t].status
         /\ \A w \in Worker :
              worker'[w] # worker[w] /\ worker[w].pc # "idle" /\ job.token # w
                => UNCHANGED <<job, occ, delivery>>]_vars
  BY NextIsFenced DEF FinalStays, Fenced
<1> QED BY <1>1, InitClaims, ClaimNext, PTL DEF Spec, OutcomesAreFenced
-----------------------------------------------------------------------------
(* The outbox.                                                             *)

\* A delivery that nobody sends has an attempt to spare.
Sending(t) == delivery[t].status = "delivering" /\ t \in unexpired /\ t \in batch
Sparing(t) ==
  /\ delivery[t].attempts <= MaxDeliveries + faults
  /\ delivery[t].status = "absent" => delivery[t].attempts = 0
  /\ delivery[t].status \in {"queued", "delivering"} /\ ~Sending(t)
       => delivery[t].attempts < MaxDeliveries + faults

OutboxInv ==
  /\ delivery \in [Time -> DeliveryType]
  /\ unexpired \subseteq Time /\ batch \subseteq Time
  /\ commands \in 0 .. MaxCommands
  /\ \A t \in Time : Sparing(t)

LEMMA LessOne ==
  ASSUME NEW n \in Nat
  PROVE  Max({0, n - 1}) \in Nat /\ (n > 0 => Max({0, n - 1}) = n - 1)
         /\ (n = 0 => Max({0, n - 1}) = 0)
<1> DEFINE S == {0, n - 1}
           m == IF n = 0 THEN 0 ELSE n - 1
<1>1. m \in S /\ \A y \in S : y <= m
  OBVIOUS
<1>2. \A x \in S : (\A y \in S : y <= x) => x = m
  OBVIOUS
<1>3. Max(S) = CHOOSE x \in S : \A y \in S : y <= x
  BY DEF Max
<1> HIDE DEF S
<1>4. Max(S) \in S /\ \A y \in S : y <= Max(S)
  BY <1>1, <1>3
<1>5. Max(S) = m
  BY <1>2, <1>4
<1> QED BY <1>5 DEF S

\* A step on one delivery: its row, its claim and its place in the batch.
LEMMA OneDelivery ==
  ASSUME Types, OutboxInv, NEW t \in Time, NEW x \in DeliveryType,
         delivery' = [delivery EXCEPT ![t] = x],
         \A u \in Time \ {t} : (u \in unexpired' <=> u \in unexpired)
                                /\ (u \in batch' <=> u \in batch),
         unexpired' \subseteq Time, batch' \subseteq Time,
         faults' \in 0 .. MaxFaults, faults <= faults', UNCHANGED commands,
         Sparing(t)'
  PROVE  OutboxInv'
<1>1. delivery'[t] = x /\ \A u \in Time \ {t} : delivery'[u] = delivery[u]
  BY DEF OutboxInv
<1>2. \A u \in Time : delivery[u].attempts \in Nat
  BY Constants DEF OutboxInv, DeliveryType
<1>3. faults \in Nat /\ faults' \in Nat /\ MaxDeliveries \in Nat
  BY Constants DEF Types
<1>4. ASSUME NEW u \in Time \ {t} PROVE Sparing(u)'
  <2>1. Sparing(u) /\ (Sending(u)' <=> Sending(u))
    BY <1>1 DEF OutboxInv, Sending
  <2> QED BY <1>1, <1>2, <1>3, <2>1 DEF Sparing
<1> QED BY <1>1, <1>4 DEF OutboxInv

\* What recording an outcome leaves of the delivery.
LEMMA RecordKeeps ==
  ASSUME Types, OutboxInv, NEW t \in Time, NEW row \in DeliveryType,
         Records(t, row), faults' \in 0 .. MaxFaults, faults <= faults',
         row.status \in {"queued", "delivered", "abandoned"},
         row.attempts <= MaxDeliveries + faults',
         row.status = "queued" => row.attempts < MaxDeliveries + faults'
  PROVE  OutboxInv'
<1>1. PICK x \in DeliveryType :
        /\ x = IF MayRecord(t) THEN row ELSE delivery[t]
        /\ delivery' = [delivery EXCEPT ![t] = x]
  <2>1. CASE MayRecord(t)
    BY <2>1 DEF Records
  <2>2. CASE ~MayRecord(t)
    BY <2>2 DEF Records, OutboxInv
  <2> QED BY <2>1, <2>2
<1>2. /\ unexpired' = unexpired \ {t} /\ batch' = batch \ {t} /\ UNCHANGED commands
  BY DEF Records
<1>3. delivery'[t] = x
  BY <1>1 DEF OutboxInv
<1>4. /\ x.attempts \in Nat /\ MaxDeliveries \in Nat /\ faults \in Nat /\ faults' \in Nat
  BY Constants DEF DeliveryType, Types
<1>5. Sparing(t)'
  <2>1. CASE MayRecord(t)
    BY <1>1, <1>3, <2>1 DEF Sparing
  <2>2. CASE ~MayRecord(t)
    <3>1. Sparing(t) /\ ~Sending(t) /\ x = delivery[t]
      BY <1>1, <2>2 DEF OutboxInv, Sending, MayRecord
    <3> QED BY <1>3, <1>4, <3>1 DEF Sparing
  <2> QED BY <2>1, <2>2
<1> QED BY <1>1, <1>2, <1>5, OneDelivery DEF OutboxInv

LEMMA OutcomesKeep ==
  ASSUME Types, OutboxInv, NEW t \in Time,
         Delivered(t) \/ DeliveryFails(t) \/ Defer(t)
  PROVE  OutboxInv'
<1>1. /\ delivery[t] \in DeliveryType /\ delivery[t].attempts \in Nat
      /\ delivery[t].attempts <= MaxDeliveries + faults
      /\ MaxDeliveries \in Nat /\ faults \in Nat /\ MaxFaults \in Nat /\ faults <= MaxFaults
  BY Constants DEF OutboxInv, Sparing, DeliveryType, Types
<1>2. CASE Delivered(t)
  <2> DEFINE row == [delivery[t] EXCEPT !.status = "delivered"]
  <2>1. row \in DeliveryType /\ row.status = "delivered"
        /\ row.attempts = delivery[t].attempts
    BY <1>1 DEF DeliveryType
  <2>2. Records(t, row) /\ faults' = faults
    BY <1>2 DEF Delivered
  <2> HIDE DEF row
  <2> QED BY <1>1, <2>1, <2>2, RecordKeeps
<1>3. CASE DeliveryFails(t)
  <2> DEFINE row == [delivery[t] EXCEPT !.status =
                       IF Abandoned(t) THEN "abandoned" ELSE "queued"]
  <2>1. /\ row \in DeliveryType /\ row.status \in {"abandoned", "queued"}
        /\ row.attempts = delivery[t].attempts
        /\ row.status = "queued" => ~Abandoned(t)
    BY <1>1 DEF DeliveryType
  <2>2. ~Abandoned(t) => delivery[t].attempts < MaxDeliveries + faults
    BY <1>1 DEF Abandoned
  <2>3. Records(t, row) /\ faults' = faults
    BY <1>3 DEF DeliveryFails
  <2> HIDE DEF row
  <2> QED BY <1>1, <2>1, <2>2, <2>3, RecordKeeps
<1>4. CASE Defer(t)
  <2>1. PICK n \in Nat : n = Max({0, delivery[t].attempts - 1})
    BY <1>1, LessOne
  <2>2. n <= MaxDeliveries + faults
    BY <1>1, <2>1, LessOne
  <2>3. faults < MaxFaults /\ faults' = faults + 1
        /\ Records(t, [status |-> "queued", attempts |-> n])
    BY <1>4, <2>1 DEF Defer
  <2>4. [status |-> "queued", attempts |-> n] \in DeliveryType
    BY <1>1, <2>2 DEF DeliveryType
  <2> QED BY <1>1, <2>2, <2>3, <2>4, RecordKeeps
<1> QED BY <1>2, <1>3, <1>4

LEMMA ClaimDeliveriesKeeps ==
  ASSUME Types, OutboxInv, NEW ts \in SUBSET Time, ClaimDeliveries(ts)
  PROVE  OutboxInv'
<1>1. /\ batch = {} /\ batch' = ts /\ unexpired' = unexpired \cup ts
      /\ \A t \in ts : Deliverable(t)
      /\ delivery' = [t \in Time |->
           IF t \in ts THEN [status |-> "delivering",
                             attempts |-> delivery[t].attempts + 1]
                       ELSE delivery[t]]
      /\ UNCHANGED <<commands, faults>>
  BY DEF ClaimDeliveries
<1>2. /\ MaxDeliveries \in Nat /\ faults \in Nat /\ MaxFaults \in Nat /\ faults <= MaxFaults
      /\ \A t \in Time : delivery[t] \in DeliveryType /\ delivery[t].attempts \in Nat
  BY Constants DEF Types, OutboxInv, DeliveryType
<1>3. ASSUME NEW t \in ts
      PROVE  delivery[t].attempts < MaxDeliveries + faults
  BY <1>1, <1>3 DEF Deliverable, Sending, OutboxInv, Sparing
<1>4. ASSUME NEW t \in Time
      PROVE  delivery'[t] \in DeliveryType /\ Sparing(t)'
  <2>1. CASE t \in ts
    <3>1. delivery'[t] = [status |-> "delivering", attempts |-> delivery[t].attempts + 1]
      BY <1>1, <2>1
    <3>2. delivery[t].attempts + 1 <= MaxDeliveries + faults
      BY <1>2, <1>3, <2>1
    <3>3. delivery[t].attempts + 1 \in 0 .. MaxDeliveries + MaxFaults
      BY <1>2, <3>2
    <3>4. delivery'[t] \in DeliveryType
      BY <3>1, <3>3 DEF DeliveryType
    <3>5. Sending(t)'
      BY <1>1, <2>1, <3>1 DEF Sending
    <3> QED BY <1>1, <3>1, <3>2, <3>4, <3>5 DEF Sparing
  <2>2. CASE t \notin ts
    <3>1. delivery'[t] = delivery[t] /\ ~Sending(t)
      BY <1>1, <2>2 DEF Sending
    <3> QED BY <1>1, <1>2, <3>1 DEF OutboxInv, Sparing
  <2> QED BY <2>1, <2>2
<1>5. delivery' \in [Time -> DeliveryType]
  BY <1>1, <1>4
<1> QED BY <1>1, <1>4, <1>5 DEF OutboxInv

LEMMA ExpireDeliveryKeeps ==
  ASSUME Types, OutboxInv, NEW t \in Time, ExpireDelivery(t)
  PROVE  OutboxInv'
<1>1. /\ unexpired' = unexpired \ {t} /\ UNCHANGED <<delivery, batch, commands>>
      /\ delivery[t] \in DeliveryType /\ delivery[t].attempts \in Nat
  BY Constants DEF ExpireDelivery, OutboxInv, DeliveryType
<1>2. /\ faults \in Nat /\ faults' \in 0 .. MaxFaults /\ faults <= faults'
      /\ MaxDeliveries \in Nat
      /\ t \in batch => faults' = faults + 1
  BY Constants DEF ExpireDelivery, Types
<1>3. Sparing(t)'
  <2>1. Sparing(t)
    BY DEF OutboxInv
  <2>2. CASE t \in batch
    BY <1>1, <1>2, <2>1, <2>2 DEF Sparing
  <2>3. CASE t \notin batch
    BY <1>1, <1>2, <2>1, <2>3 DEF Sparing, Sending
  <2> QED BY <2>2, <2>3
<1>4. delivery' = [delivery EXCEPT ![t] = delivery[t]]
  BY <1>1 DEF OutboxInv
<1> QED BY <1>1, <1>2, <1>3, <1>4, OneDelivery DEF OutboxInv

\* The rows stay; the batch may be lost to a crash.
LEMMA RowsStay ==
  ASSUME Types, OutboxInv, UNCHANGED <<delivery, unexpired>>,
         faults' \in 0 .. MaxFaults, commands' \in 0 .. MaxCommands,
         \/ batch' = batch /\ faults <= faults'
         \/ batch' = {} /\ faults' = faults + 1
  PROVE  OutboxInv'
<1>1. /\ \A t \in Time : delivery[t].attempts \in Nat
      /\ MaxDeliveries \in Nat /\ faults \in Nat /\ faults' \in Nat
  BY Constants DEF OutboxInv, DeliveryType, Types
<1>2. ASSUME NEW t \in Time PROVE Sparing(t)'
  <2>1. Sparing(t)
    BY DEF OutboxInv
  <2>2. CASE batch' = batch /\ faults <= faults'
    <3>1. Sending(t)' <=> Sending(t)
      BY <2>2 DEF Sending
    <3> QED BY <1>1, <2>1, <2>2, <3>1 DEF Sparing
  <2>3. CASE faults' = faults + 1
    BY <1>1, <2>1, <2>3 DEF Sparing
  <2> QED BY <2>2, <2>3
<1> QED BY <1>2 DEF OutboxInv

LEMMA SucceedQueues ==
  ASSUME ClaimInv, OutboxInv, NEW w \in Worker, Succeed(w)
  PROVE  OutboxInv'
<1>1. Types /\ UNCHANGED <<unexpired, batch, commands, faults>>
  BY DEF Succeed, ClaimInv
<1>2. PICK t \in Time : t = worker[w].at
  BY DEF Succeed, Verified, ClaimInv, BusyHasOccurrence, Busy
<1>3. CASE UNCHANGED delivery
  BY <1>1, <1>3, RowsStay DEF OutboxInv, Types
<1>4. CASE /\ delivery[t].status = "absent"
           /\ delivery' = [delivery EXCEPT ![t].status = "queued"]
  <2> DEFINE x == [delivery[t] EXCEPT !.status = "queued"]
  <2>1. /\ delivery[t] \in DeliveryType /\ delivery[t].attempts = 0
    BY <1>4 DEF OutboxInv, Sparing
  <2>2. x \in DeliveryType /\ x.status = "queued" /\ x.attempts = 0
    BY <2>1 DEF DeliveryType
  <2>3. delivery' = [delivery EXCEPT ![t] = x]
    BY <1>4 DEF OutboxInv
  <2> HIDE DEF x
  <2>4. delivery'[t] = x
    BY <2>3 DEF OutboxInv
  <2>5. 0 < MaxDeliveries + faults /\ 0 <= MaxDeliveries + faults
        /\ faults \in 0 .. MaxFaults /\ faults <= faults
    BY <1>1, Constants DEF Types
  <2>6. Sparing(t)'
    BY <1>1, <2>2, <2>4, <2>5 DEF Sparing
  <2> QED BY <1>1, <2>2, <2>3, <2>5, <2>6, OneDelivery DEF OutboxInv
<1> QED BY <1>2, <1>3, <1>4 DEF Succeed

LEMMA OutboxNext ==
  ASSUME ClaimInv, OutboxInv, [Next]_vars
  PROVE  OutboxInv'
<1>1. Types /\ faults \in Nat /\ commands \in 0 .. MaxCommands
      /\ faults \in 0 .. MaxFaults /\ faults <= faults /\ MaxCommands \in Nat
      /\ MaxFaults \in Nat
  BY ScheduleAssumption DEF ClaimInv, Types, OutboxInv
<1>2. CASE Deliver
  BY <1>1, <1>2, OutcomesKeep, ClaimDeliveriesKeeps DEF Deliver
<1>3. ASSUME NEW t \in Time, ExpireDelivery(t) PROVE OutboxInv'
  BY <1>1, <1>3, ExpireDeliveryKeeps
<1>4. ASSUME NEW w \in Worker, Step(w) PROVE OutboxInv'
  <2>1. CASE Succeed(w)
    BY <2>1, SucceedQueues
  <2>2. CASE ~Succeed(w)
    <3>1. UNCHANGED <<outbox, commands, faults>>
      BY <1>4, <2>2 DEF Step, Begin, Enter, Bind, Verdict, Throw, GiveBack, Fail
    <3> QED BY <1>1, <3>1, RowsStay DEF outbox
  <2> QED BY <2>1, <2>2
<1>5. ASSUME NEW w \in Worker, Claim(w) \/ ExpireClaim(w) \/ Renew(w)
      PROVE  OutboxInv'
  <2>1. UNCHANGED <<outbox, commands>> /\ faults' \in 0 .. MaxFaults /\ faults <= faults'
    BY <1>1, <1>5 DEF Claim, ExpireClaim, Renew
  <2> QED BY <1>1, <2>1, RowsStay DEF outbox
<1>6. ASSUME NEW o \in Objective,
             DeliverObjective(o) \/ \E s \in {"accepted", "failed"} : Reverify(o, s)
      PROVE  OutboxInv'
  <2>1. UNCHANGED <<outbox, commands, faults>>
    BY <1>6 DEF DeliverObjective, Reverify
  <2> QED BY <1>1, <2>1, RowsStay DEF outbox
<1>7. CASE \/ \E kind \in Kinds, policy \in Policies : Update(kind, policy)
           \/ RunNow \/ Pause \/ Resume
  <2>1. UNCHANGED <<outbox, faults>> /\ commands < MaxCommands /\ commands' = commands + 1
    BY <1>7 DEF Update, RunNow, Pause, Resume, Command
  <2>2. commands' \in 0 .. MaxCommands
    BY <1>1, <2>1
  <2> QED BY <1>1, <2>1, <2>2, RowsStay DEF outbox
<1>8. CASE SkipMisfire \/ Tick \/ UNCHANGED vars
  <2>1. UNCHANGED <<outbox, commands, faults>>
    BY <1>8 DEF SkipMisfire, Tick, vars
  <2> QED BY <1>1, <2>1, RowsStay DEF outbox
<1>9. CASE Crash
  <2>1. /\ UNCHANGED <<delivery, unexpired, commands>> /\ batch' = {}
        /\ faults < MaxFaults /\ faults' = faults + 1
    BY <1>9 DEF Crash
  <2>2. faults' \in 0 .. MaxFaults
    BY <1>1, <2>1
  <2> QED BY <1>1, <2>1, <2>2, RowsStay
<1>10. CASE Remove
  <2>1. /\ commands < MaxCommands /\ commands' = commands + 1
        /\ delivery' = [t \in Time |-> NoDelivery]
        /\ UNCHANGED <<unexpired, batch, faults>>
    BY <1>10 DEF Remove
  <2>2. commands' \in 0 .. MaxCommands
    BY <1>1, <2>1
  <2>3. NoDelivery \in DeliveryType
    BY Constants DEF NoDelivery, DeliveryType
  <2>4. \A t \in Time : Sparing(t)'
    BY <1>1, <2>1, Constants DEF Sparing, NoDelivery
  <2> QED BY <2>1, <2>2, <2>3, <2>4 DEF OutboxInv
<1> QED
  BY <1>2, <1>3, <1>4, <1>5, <1>6, <1>7, <1>8, <1>9, <1>10 DEF Next

LEMMA OutboxInit == Init => OutboxInv
<1> SUFFICES ASSUME Init PROVE OutboxInv
  OBVIOUS
<1>1. /\ delivery = [t \in Time |-> NoDelivery] /\ unexpired = {} /\ batch = {}
      /\ commands = 0 /\ faults = 0
  BY DEF Init
<1>2. NoDelivery \in DeliveryType /\ MaxCommands \in Nat /\ 0 <= MaxDeliveries + 0
  BY ScheduleAssumption DEF NoDelivery, DeliveryType
<1> QED BY <1>1, <1>2 DEF OutboxInv, Sparing, NoDelivery

\* The rows of the Schedule, its occurrences and its deliveries, the
\* executions and their Objectives keep their types and bounds.
THEOREM TypeCorrect == Spec => []TypeOK
<1>1. Init => ClaimInv /\ OutboxInv
  BY InitClaims, OutboxInit
<1>2. ClaimInv /\ OutboxInv /\ [Next]_vars => (ClaimInv /\ OutboxInv)'
  BY ClaimNext, OutboxNext
<1>3. ClaimInv /\ OutboxInv => TypeOK
  BY DEF ClaimInv, Types, OutboxInv, TypeOK
<1> QED BY <1>1, <1>2, <1>3, PTL DEF Spec

-----------------------------------------------------------------------------
(* Which Objective an occurrence is bound to.                              *)

\* A removed Schedule is never claimed again.
RemovedIsEmpty ==
  job.removed => ~job.enabled /\ \A t \in Time : occ[t] = NoOccurrence

\* An execution, and an occurrence, has an Objective of that occurrence; once
\* the turn has been opened there is one.
HasObjective ==
  \A w \in Worker : worker[w].pc \notin {"idle", "claimed"} => worker[w].objective # None
ObjectiveIsOwn ==
  /\ \A w \in Worker : worker[w].objective # None
       => Busy(w) /\ worker[w].objective[1] = worker[w].at
  /\ \A t \in Time : occ[t].objective # None => occ[t].objective[1] = t

\* The execution that holds an occurrence works for the Objective it has.
HolderKnows ==
  \A w \in Worker : Busy(w) /\ occ[worker[w].at].token = w
                    /\ occ[worker[w].at].objective # None
    => worker[w].objective = occ[worker[w].at].objective

\* Objectives that were once bound: a turn works for them, or did.
Bound(o) ==
  \/ objective[o].queued
  \/ objective[o].status \in {"retained", "accepted", "delivered"}
  \/ \E w \in Worker : worker[w].pc = "turn" /\ worker[w].objective = o

BoundIsKnown ==
  \A o \in Objective : Bound(o) => job.removed \/ occ[o[1]].objective = o
OneBound ==
  \A o, p \in Objective : Bound(o) /\ Bound(p) /\ o[1] = p[1] => o = p

BoundInv ==
  /\ RemovedIsEmpty /\ HasObjective /\ ObjectiveIsOwn /\ HolderKnows
  /\ BoundIsKnown /\ OneBound

-----------------------------------------------------------------------------
(* Who may still change the Objective of an occurrence.                    *)

\* Attempts number the executions of an occurrence; an Objective carries the
\* number of the execution that created it.
Numbered ==
  /\ \A w \in Worker : Busy(w) => worker[w].attempt <= occ[worker[w].at].attempts
  /\ \A v, w \in Worker : Busy(v) /\ Busy(w) /\ worker[v].at = worker[w].at
       /\ worker[v].attempt = worker[w].attempt => v = w
  /\ \A w \in Worker : worker[w].objective # None =>
       /\ worker[w].objective[2] <= worker[w].attempt
       /\ worker[w].pc \in {"claimed", "reopened"} =>
            worker[w].objective[2] # worker[w].attempt
  /\ \A t \in Time : occ[t].objective # None => occ[t].objective[2] <= occ[t].attempts

\* An execution that may still create, or fail, an Objective of its own is
\* alone with it.
Creates(w) ==
  \/ worker[w].pc = "claimed" /\ worker[w].objective = None
  \/ worker[w].pc \in {"opened", "entered"} /\ worker[w].objective = Own(w)
CreatesAlone ==
  \A w \in Worker : Creates(w) =>
    /\ occ[worker[w].at].objective # Own(w)
    /\ \A v \in Worker \ {w} : worker[v].objective # Own(w)

Holder(w) == Busy(w) /\ occ[worker[w].at].token = w
InSession == {"entered", "turn"}
OneTurn ==
  \A v, w \in Worker : worker[v].pc \in InSession /\ worker[w].pc \in InSession => v = w

\* When the holder has its verdict, or the occurrence has succeeded, no turn of
\* an earlier execution goes on.
HolderIsLast ==
  \A v, w \in Worker :
    Holder(w) /\ worker[w].pc \in {"accepted", "answered"}
    /\ worker[v].pc = "turn" => worker[v].at # worker[w].at
SuccessIsLast ==
  \A v \in Worker : worker[v].pc = "turn" => occ[worker[v].at].status # "succeeded"

ResultInv ==
  /\ OneTurn
  /\ ~job.removed /\ job.work = "agent" =>
       Numbered /\ CreatesAlone /\ HolderIsLast /\ SuccessIsLast /\ SuccessWasAccepted

-----------------------------------------------------------------------------
LEMMA ObjectivesHaveOccurrences ==
  /\ None \notin Objective /\ None \notin Worker
  /\ \A o \in Objective : o[1] \in Time /\ o[2] \in Attempts /\ o[2] \in Nat
  /\ \A t \in Time, n \in Attempts :
       <<t, n>> \in Objective /\ <<t, n>>[1] = t /\ <<t, n>>[2] = n
<1>1. \A n \in Attempts : n \in Nat
  BY TimeIsNat
<1> QED BY <1>1, ScheduleAssumption DEF Objective

\* A step that binds nothing, unbinds nothing and leaves the workers' and the
\* occurrences' Objectives in order.
LEMMA BindsNothing ==
  ASSUME ClaimInv, BoundInv,
         RemovedIsEmpty', HasObjective', ObjectiveIsOwn', HolderKnows',
         job.removed => job'.removed,
         \A o \in Objective : Bound(o)' => Bound(o),
         \A t \in Time : occ[t].objective # None =>
           job'.removed \/ occ'[t].objective = occ[t].objective
  PROVE  BoundInv'
<1>1. BoundIsKnown'
  <2>1. SUFFICES ASSUME NEW o \in Objective, Bound(o)', ~job'.removed
                 PROVE  occ'[o[1]].objective = o
    BY DEF BoundIsKnown
  <2>2. occ[o[1]].objective = o
    BY <2>1 DEF BoundInv, BoundIsKnown
  <2> QED BY <2>1, <2>2, ObjectivesHaveOccurrences
<1>2. OneBound'
  BY DEF BoundInv, OneBound
<1> QED BY <1>1, <1>2 DEF BoundInv

\* The Schedule or the Objectives change, the executions do not.
LEMMA SameExecutions ==
  ASSUME ClaimInv, BoundInv, UNCHANGED <<occ, worker>>,
         job'.removed = job.removed, job.removed => ~job'.enabled,
         \A o \in Objective :
           /\ objective'[o].queued =>
                objective[o].queued \/ objective[o].status = "retained"
           /\ objective'[o].status \in {"retained", "accepted", "delivered"} =>
                objective[o].status \in {"retained", "accepted", "delivered"}
  PROVE  BoundInv'
<1>1. RemovedIsEmpty' /\ HasObjective' /\ ObjectiveIsOwn' /\ HolderKnows'
  BY DEF BoundInv, RemovedIsEmpty, HasObjective, ObjectiveIsOwn, HolderKnows, Busy
<1>2. ASSUME NEW o \in Objective, Bound(o)' PROVE Bound(o)
  BY <1>2 DEF Bound
<1> QED BY <1>1, <1>2, BindsNothing

\* One execution goes on for the Objective it has, binds nothing, and may write
\* that Objective.
LEMMA ExecutionGoesOn ==
  ASSUME ClaimInv, BoundInv, NEW w \in Worker, NEW x \in WorkerType, Busy(w),
         x.pc \notin {"idle", "claimed", "turn"}, x.at = worker[w].at,
         x.objective # None, x.objective[1] = x.at,
         worker[w].objective # None => x.objective = worker[w].objective,
         worker' = [worker EXCEPT ![w] = x],
         UNCHANGED <<job, occ>>,
         \A o \in Objective : \/ objective'[o] = objective[o]
                              \/ Bound(o)
                              \/ /\ objective'[o].queued => objective[o].queued
                                 /\ objective'[o].status
                                      \in {"pending", "active", "failed", "cancelled"}
  PROVE  BoundInv'
<1>1. \A v \in Worker \ {w} : worker'[v] = worker[v]
  BY DEF ClaimInv, Types
<1>2. worker'[w] = x
  BY DEF ClaimInv, Types
<1>3. RemovedIsEmpty' /\ HasObjective' /\ ObjectiveIsOwn'
  BY <1>1, <1>2 DEF BoundInv, RemovedIsEmpty, HasObjective, ObjectiveIsOwn, Busy
<1>4. HolderKnows'
  <2>1. SUFFICES ASSUME NEW v \in Worker, Busy(v)', occ[worker'[v].at].token = v,
                        occ[worker'[v].at].objective # None
                 PROVE  worker'[v].objective = occ[worker'[v].at].objective
    BY DEF HolderKnows
  <2>2. CASE v = w
    <3>1. worker[w].at \in Time
      BY DEF ClaimInv, BusyHasOccurrence
    <3>2. worker[w].objective = occ[worker[w].at].objective
      BY <1>2, <2>1, <2>2 DEF BoundInv, HolderKnows
    <3> QED BY <1>2, <2>1, <2>2, <3>1, <3>2
  <2>3. CASE v # w
    BY <1>1, <2>1, <2>3 DEF BoundInv, HolderKnows, Busy
  <2> QED BY <2>2, <2>3
<1>5. ASSUME NEW o \in Objective, Bound(o)' PROVE Bound(o)
  <2>1. ASSUME NEW v \in Worker, worker'[v].pc = "turn", worker'[v].objective = o
        PROVE  Bound(o)
    BY <1>1, <1>2, <2>1 DEF Bound
  <2> QED BY <1>5, <2>1 DEF Bound
<1> QED BY <1>3, <1>4, <1>5, BindsNothing

\* What Begin, and a turn or a bind that fails, write.
LEMMA FailsCreatedWrites ==
  ASSUME ClaimInv, NEW w \in Worker, FailsCreated(w) \/ UNCHANGED objective
  PROVE  \A o \in Objective :
           \/ objective'[o] = objective[o]
           \/ /\ o = worker[w].objective /\ o = Own(w)
              /\ objective'[o].queued = objective[o].queued
              /\ objective'[o].status = "failed"
BY DEF FailsCreated, ClaimInv, Types, ObjectiveType

LEMMA BeginWrites ==
  ASSUME ClaimInv, NEW w \in Worker, Begin(w), worker[w].objective = None
  PROVE  /\ Own(w) \in Objective /\ Own(w)[1] = worker[w].at
         /\ Own(w)[2] = worker[w].attempt
         /\ objective'[Own(w)].status = "active"
         /\ objective'[Own(w)].queued = objective[Own(w)].queued
         /\ \A o \in Objective \ {Own(w)} : objective'[o] = objective[o]
         /\ worker' = [worker EXCEPT ![w] =
              [worker[w] EXCEPT !.pc = "opened", !.objective = Own(w)]]
<1>1. worker[w].at \in Time /\ worker[w].attempt \in Attempts
  BY DEF Begin, ClaimInv, BusyHasOccurrence, Busy
<1>2. Own(w) \in Objective /\ Own(w)[1] = worker[w].at /\ Own(w)[2] = worker[w].attempt
  BY <1>1, ObjectivesHaveOccurrences DEF Own
<1>3. objective' = [objective EXCEPT ![Own(w)].status = "active"]
  BY DEF Begin
<1>4. objective[Own(w)] \in ObjectiveType
  BY <1>2 DEF ClaimInv, Types
<1>5. /\ objective'[Own(w)].status = "active"
      /\ objective'[Own(w)].queued = objective[Own(w)].queued
      /\ \A o \in Objective \ {Own(w)} : objective'[o] = objective[o]
  BY <1>2, <1>3, <1>4 DEF ClaimInv, Types, ObjectiveType
<1>6. worker' = [worker EXCEPT ![w] =
              [worker[w] EXCEPT !.pc = "opened", !.objective = Own(w)]]
  BY DEF Begin, ClaimInv, Types
<1> QED BY <1>2, <1>5, <1>6

LEMMA BeginBinds ==
  ASSUME ClaimInv, BoundInv, NEW w \in Worker, Begin(w)
  PROVE  BoundInv'
<1>1. /\ Busy(w) /\ worker[w] \in WorkerType /\ UNCHANGED <<job, occ>>
  BY DEF Begin, Busy, ClaimInv, Types
<1>2. CASE worker[w].objective = None
  <2> DEFINE x == [worker[w] EXCEPT !.pc = "opened", !.objective = Own(w)]
  <2>1. Own(w) \in Objective
    BY <1>2, BeginWrites
  <2>2. x \in WorkerType /\ x.pc = "opened" /\ x.at = worker[w].at /\ x.objective = Own(w)
    BY <1>1, <2>1 DEF WorkerType
  <2>3. worker' = [worker EXCEPT ![w] = x]
    BY <1>2, BeginWrites
  <2>4. Own(w) # None /\ Own(w)[1] = worker[w].at
    BY <1>2, <2>1, BeginWrites, ObjectivesHaveOccurrences
  <2>5. \A o \in Objective : \/ objective'[o] = objective[o]
                             \/ /\ objective'[o].queued => objective[o].queued
                                /\ objective'[o].status \in {"active", "failed"}
    BY <1>2, BeginWrites
  <2> HIDE DEF x
  <2>6. x.objective # None /\ x.objective[1] = x.at
    BY <2>2, <2>4
  <2> QED BY <1>1, <1>2, <2>2, <2>3, <2>5, <2>6, ExecutionGoesOn
<1>3. CASE worker[w].objective # None
  <2>1. PICK pc \in {"opened", "reopened", "failed"} :
          worker' = [worker EXCEPT ![w].pc = pc]
    BY <1>3 DEF Begin, Goes
  <2> DEFINE x == [worker[w] EXCEPT !.pc = pc]
  <2>2. x \in WorkerType /\ x.pc = pc /\ x.at = worker[w].at
        /\ x.objective = worker[w].objective
    BY <1>1 DEF WorkerType
  <2>3. worker' = [worker EXCEPT ![w] = x]
    BY <2>1 DEF ClaimInv, Types
  <2>4. UNCHANGED objective
    BY <1>3 DEF Begin
  <2>5. x.objective # None /\ x.objective[1] = x.at
    BY <1>3, <2>2 DEF BoundInv, ObjectiveIsOwn
  <2> HIDE DEF x
  <2> QED BY <1>1, <2>1, <2>2, <2>3, <2>4, <2>5, ExecutionGoesOn
<1> QED BY <1>2, <1>3

\* A step of the execution of w that binds nothing.
LEMMA LeavesTurnBinds ==
  ASSUME ClaimInv, BoundInv, NEW w \in Worker,
         NEW pc \in {"entered", "accepted", "answered", "thrown", "failed"},
         worker[w].pc \notin {"idle", "claimed"},
         Goes(w, pc), UNCHANGED <<job, occ>>,
         \A o \in Objective :
           \/ objective'[o] = objective[o]
           \/ o = worker[w].objective /\ worker[w].pc = "turn"
           \/ /\ objective'[o].queued => objective[o].queued
              /\ objective'[o].status \in {"pending", "active", "failed", "cancelled"}
  PROVE  BoundInv'
<1> DEFINE x == [worker[w] EXCEPT !.pc = pc]
<1>1. Busy(w) /\ worker[w] \in WorkerType
  BY DEF Busy, ClaimInv, Types
<1>2. x \in WorkerType /\ x.pc = pc /\ x.at = worker[w].at
      /\ x.objective = worker[w].objective
  BY <1>1 DEF WorkerType
<1>3. worker' = [worker EXCEPT ![w] = x]
  BY DEF Goes, ClaimInv, Types
<1>4. worker[w].objective # None /\ worker[w].objective[1] = worker[w].at
  BY DEF BoundInv, ObjectiveIsOwn, HasObjective
<1> HIDE DEF x
<1>5. x.objective # None /\ x.objective[1] = x.at
  BY <1>2, <1>4
<1>6. \A o \in Objective : o = worker[w].objective /\ worker[w].pc = "turn" => Bound(o)
  BY DEF Bound
<1> QED BY <1>1, <1>2, <1>3, <1>5, <1>6, ExecutionGoesOn

\* What entering the session, a throw and giving back write.
LEMMA ThrowWrites ==
  ASSUME ClaimInv, NEW w \in Worker,
         Enter(w) \/ Throw(w) \/ \E s \in {"pending", "cancelled"} : GiveBack(w, s)
  PROVE  \A o \in Objective :
           \/ objective'[o] = objective[o]
           \/ /\ o = worker[w].objective /\ o = Own(w)
              /\ worker[w].pc \in {"entered", "turn"}
              /\ objective'[o].queued = objective[o].queued
              /\ objective'[o].status = "failed"
           \/ /\ objective'[o].queued = objective[o].queued
              /\ objective'[o].status \in {"pending", "active", "cancelled"}
<1>1. CASE Enter(w)
  BY <1>1 DEF Enter, ClaimInv, Types, ObjectiveType
<1>2. CASE Throw(w)
  BY <1>2, FailsCreatedWrites DEF Throw
<1>3. ASSUME NEW s \in {"pending", "cancelled"}, GiveBack(w, s)
      PROVE  \A o \in Objective :
               \/ objective'[o] = objective[o]
               \/ /\ objective'[o].queued = objective[o].queued
                  /\ objective'[o].status \in {"pending", "active", "cancelled"}
  BY <1>3 DEF GiveBack, ClaimInv, Types, ObjectiveType
<1> QED BY <1>1, <1>2, <1>3

\* What the verdict on a turn writes.
LEMMA VerdictWrites ==
  ASSUME ClaimInv, BoundInv, NEW w \in Worker,
         NEW s \in {"accepted", "retained", "failed"}, Verdict(w, s)
  PROVE  \A o \in Objective : objective'[o] = objective[o] \/ o = worker[w].objective
BY DEF Verdict, ClaimInv, Types

LEMMA VerdictStatus ==
  ASSUME ClaimInv, NEW w \in Worker,
         NEW s \in {"accepted", "retained", "failed"}, Verdict(w, s)
  PROVE  \A o \in Objective :
           \/ objective'[o] = objective[o]
           \/ objective'[o].status = s /\ (s = "accepted" => objective'[o].queued)
BY DEF Verdict, ClaimInv, Types, ObjectiveType

\* The execution that holds the occurrence binds its Objective, which is the
\* one the occurrence has already.
LEMMA BindsOwn ==
  ASSUME ClaimInv, BoundInv, NEW w \in Worker, Bind(w), MayBind(w)
  PROVE  /\ worker[w].at \in Time /\ worker[w].objective \in Objective
         /\ worker[w].objective[1] = worker[w].at
         /\ occ[worker[w].at].objective \in {None, worker[w].objective}
         /\ occ[worker[w].at].token = w /\ ~job.removed
         /\ occ' = [occ EXCEPT ![worker[w].at].objective = worker[w].objective]
         /\ worker' = [worker EXCEPT ![w].pc = "turn"]
         /\ UNCHANGED <<job, objective>>
<1>1. /\ Busy(w) /\ worker[w].pc = "entered" /\ worker[w] \in WorkerType
      /\ occ[worker[w].at].token = w
  BY DEF Bind, Busy, ClaimInv, Types, MayBind
<1>2. worker[w].at \in Time /\ worker[w].objective # None
      /\ worker[w].objective[1] = worker[w].at
  BY <1>1 DEF ClaimInv, BusyHasOccurrence, BoundInv, HasObjective, ObjectiveIsOwn
<1>3. worker[w].objective \in Objective
  BY <1>1, <1>2 DEF WorkerType
<1>4. occ[worker[w].at].objective \in {None, worker[w].objective}
  BY <1>1 DEF BoundInv, HolderKnows
<1>5. ~job.removed
  BY <1>1, <1>2, ObjectivesHaveOccurrences DEF BoundInv, RemovedIsEmpty, NoOccurrence
<1> QED BY <1>1, <1>2, <1>3, <1>4, <1>5 DEF Bind, Goes

LEMMA BindBinds ==
  ASSUME ClaimInv, BoundInv, NEW w \in Worker, Bind(w)
  PROVE  BoundInv'
<1>1. CASE ~MayBind(w)
  <2>1. FailsCreated(w) /\ Goes(w, "thrown") /\ UNCHANGED <<job, occ>>
        /\ worker[w].pc = "entered"
    BY <1>1 DEF Bind
  <2>2. \A o \in Objective : objective[o].queued \in BOOLEAN
    BY DEF ClaimInv, Types, ObjectiveType
  <2> QED BY <2>1, <2>2, FailsCreatedWrites, LeavesTurnBinds
<1>2. CASE MayBind(w)
  <2> DEFINE t == worker[w].at
             b == worker[w].objective
  <2>1. /\ t \in Time /\ b \in Objective /\ b[1] = t /\ b # None
        /\ occ[t].objective \in {None, b} /\ occ[t].token = w /\ ~job.removed
        /\ UNCHANGED <<job, objective>>
    BY <1>2, BindsOwn, ObjectivesHaveOccurrences
  <2>2. /\ occ'[t].objective = b /\ occ'[t].token = w
        /\ \A u \in Time \ {t} : occ'[u] = occ[u]
    <3>1. occ[t] \in OccurrenceType /\ occ \in [Time -> OccurrenceType]
      BY <2>1 DEF ClaimInv, Types
    <3>2. occ' = [occ EXCEPT ![t].objective = b]
      BY <1>2, BindsOwn
    <3> QED BY <2>1, <3>1, <3>2 DEF OccurrenceType
  <2>3. /\ worker'[w].pc = "turn" /\ worker'[w].at = t /\ worker'[w].objective = b
        /\ \A v \in Worker \ {w} : worker'[v] = worker[v]
    <3>1. worker[w] \in WorkerType /\ worker \in [Worker -> WorkerType]
      BY DEF ClaimInv, Types
    <3>2. worker' = [worker EXCEPT ![w].pc = "turn"]
      BY <1>2, BindsOwn
    <3> QED BY <3>1, <3>2 DEF WorkerType
  <2> HIDE DEF t, b
  <2>4. RemovedIsEmpty' /\ HasObjective' /\ ObjectiveIsOwn'
    BY <2>1, <2>2, <2>3 DEF BoundInv, RemovedIsEmpty, HasObjective, ObjectiveIsOwn, Busy
  <2>5. HolderKnows'
    <3>1. SUFFICES ASSUME NEW v \in Worker, Busy(v)', occ'[worker'[v].at].token = v,
                          occ'[worker'[v].at].objective # None
                   PROVE  worker'[v].objective = occ'[worker'[v].at].objective
      BY DEF HolderKnows
    <3>2. CASE v = w
      BY <2>2, <2>3, <3>2
    <3>3. CASE v # w
      <4>1. worker'[v] = worker[v] /\ Busy(v)
        BY <2>3, <3>1, <3>3 DEF Busy
      <4>2. worker[v].at \in Time \ {t}
        BY <2>2, <3>1, <3>3, <4>1 DEF ClaimInv, BusyHasOccurrence
      <4> QED BY <2>2, <3>1, <4>1, <4>2 DEF BoundInv, HolderKnows
    <3> QED BY <3>2, <3>3
  <2>6. ASSUME NEW o \in Objective, Bound(o)' PROVE Bound(o) \/ o = b
    BY <2>1, <2>3, <2>6 DEF Bound
  <2>7. ASSUME NEW o \in Objective, Bound(o)', o[1] = t PROVE o = b
    <3>1. SUFFICES ASSUME Bound(o) PROVE o = b
      BY <2>6, <2>7
    <3>2. occ[t].objective = o
      BY <2>1, <2>7, <3>1 DEF BoundInv, BoundIsKnown
    <3> QED BY <2>1, <3>2, ObjectivesHaveOccurrences
  <2>8. BoundIsKnown'
    <3>1. SUFFICES ASSUME NEW o \in Objective, Bound(o)' PROVE occ'[o[1]].objective = o
      BY DEF BoundIsKnown
    <3>2. CASE o[1] = t
      BY <2>2, <2>7, <3>1, <3>2
    <3>3. CASE o[1] # t
      <4>1. occ[o[1]].objective = o
        BY <2>1, <2>6, <3>1, <3>3 DEF BoundInv, BoundIsKnown
      <4> QED BY <2>2, <3>3, <4>1, ObjectivesHaveOccurrences
    <3> QED BY <3>2, <3>3
  <2>9. OneBound'
    <3>1. SUFFICES ASSUME NEW o \in Objective, NEW p \in Objective,
                          Bound(o)', Bound(p)', o[1] = p[1]
                   PROVE  o = p
      BY DEF OneBound
    <3>2. CASE o[1] = t
      BY <2>7, <3>1, <3>2
    <3>3. CASE o[1] # t
      BY <2>1, <2>6, <3>1, <3>3 DEF BoundInv, OneBound
    <3> QED BY <3>2, <3>3
  <2> QED BY <2>4, <2>5, <2>8, <2>9 DEF BoundInv
<1> QED BY <1>1, <1>2

LEMMA TurnBinds ==
  ASSUME ClaimInv, BoundInv, NEW w \in Worker,
         \/ Enter(w) \/ Throw(w) \/ \E s \in {"pending", "cancelled"} : GiveBack(w, s)
         \/ \E s \in {"accepted", "retained", "failed"} : Verdict(w, s)
  PROVE  BoundInv'
<1>1. CASE Enter(w) \/ Throw(w) \/ \E s \in {"pending", "cancelled"} : GiveBack(w, s)
  <2>1. PICK pc \in {"entered", "thrown", "failed"} : Goes(w, pc)
    BY <1>1 DEF Enter, Throw, GiveBack
  <2>2. worker[w].pc \notin {"idle", "claimed"} /\ UNCHANGED <<job, occ>>
    BY <1>1 DEF Enter, Throw, GiveBack
  <2> QED BY <1>1, <2>1, <2>2, ThrowWrites, LeavesTurnBinds
<1>2. ASSUME NEW s \in {"accepted", "retained", "failed"}, Verdict(w, s)
      PROVE  BoundInv'
  <2>1. PICK pc \in {"accepted", "answered", "thrown"} : Goes(w, pc)
    BY <1>2 DEF Verdict
  <2>2. worker[w].pc = "turn" /\ UNCHANGED <<job, occ>>
    BY <1>2 DEF Verdict
  <2> QED BY <1>2, <2>1, <2>2, VerdictWrites, LeavesTurnBinds
<1> QED BY <1>1, <1>2

\* Executions that are over, and occurrences whose token is gone.
LEMMA ExecutionsEnd ==
  ASSUME ClaimInv, BoundInv, UNCHANGED objective,
         \A v \in Worker : worker'[v] = worker[v] \/ worker'[v] = Idle,
         job'.removed = job.removed, job.removed => ~job'.enabled /\ UNCHANGED occ,
         \A t \in Time :
           /\ occ[t].objective # None => occ'[t].objective = occ[t].objective
           /\ occ'[t].objective # None => occ'[t].objective[1] = t
           /\ \/ occ'[t].token = None
              \/ occ'[t].token = occ[t].token /\ occ'[t].objective = occ[t].objective
  PROVE  BoundInv'
<1>1. \A v \in Worker : \/ worker'[v] = worker[v]
                        \/ worker'[v].pc = "idle" /\ worker'[v].objective = None
  BY DEF Idle
<1>2. RemovedIsEmpty' /\ HasObjective' /\ ObjectiveIsOwn'
  BY <1>1 DEF BoundInv, RemovedIsEmpty, HasObjective, ObjectiveIsOwn, Busy
<1>3. HolderKnows'
  <2>1. SUFFICES ASSUME NEW v \in Worker, Busy(v)', occ'[worker'[v].at].token = v,
                        occ'[worker'[v].at].objective # None
                 PROVE  worker'[v].objective = occ'[worker'[v].at].objective
    BY DEF HolderKnows
  <2>2. worker'[v] = worker[v] /\ Busy(v)
    BY <1>1, <2>1 DEF Busy
  <2>3. worker[v].at \in Time
    BY <2>2 DEF ClaimInv, BusyHasOccurrence
  <2>4. occ[worker[v].at].token = v
        /\ occ'[worker[v].at].objective = occ[worker[v].at].objective
    BY <2>1, <2>2, <2>3, ObjectivesHaveOccurrences
  <2> QED BY <2>1, <2>2, <2>4 DEF BoundInv, HolderKnows
<1>4. ASSUME NEW o \in Objective, Bound(o)' PROVE Bound(o)
  BY <1>1, <1>4 DEF Bound
<1> QED BY <1>2, <1>3, <1>4, BindsNothing

\* What a success writes, to the occurrence of the execution alone.
LEMMA SucceedWrites ==
  ASSUME ClaimInv, BoundInv, NEW w \in Worker, Succeed(w)
  PROVE  /\ worker[w].at \in Time /\ ~job.removed /\ Busy(w)
         /\ occ[worker[w].at].token = w /\ job.token = w
         /\ occ'[worker[w].at].status = "succeeded"
         /\ occ'[worker[w].at].token = None
         /\ occ'[worker[w].at].attempts = occ[worker[w].at].attempts
         /\ occ'[worker[w].at].objective = worker[w].objective
         /\ occ[worker[w].at].objective \in {None, worker[w].objective}
         /\ \A u \in Time \ {worker[w].at} : occ'[u] = occ[u]
<1>1. Busy(w) /\ Holds(w)
  BY DEF Succeed, Verified, Busy
<1>2. worker[w].at \in Time /\ occ[worker[w].at].token = w /\ job.token = w
  BY <1>1 DEF ClaimInv, BusyHasOccurrence, Holds
<1>3. ~job.removed
  BY <1>2, ObjectivesHaveOccurrences DEF BoundInv, RemovedIsEmpty, NoOccurrence
<1>4. occ[worker[w].at].objective \in {None, worker[w].objective}
  BY <1>1, <1>2 DEF BoundInv, HolderKnows
<1>5. occ' = [occ EXCEPT ![worker[w].at].status = "succeeded",
                         ![worker[w].at].token = None,
                         ![worker[w].at].objective = worker[w].objective]
  BY DEF Succeed
<1>6. occ \in [Time -> OccurrenceType] /\ occ[worker[w].at] \in OccurrenceType
  BY <1>2 DEF ClaimInv, Types
<1>7. /\ occ'[worker[w].at].status = "succeeded"
      /\ occ'[worker[w].at].token = None
      /\ occ'[worker[w].at].attempts = occ[worker[w].at].attempts
      /\ occ'[worker[w].at].objective = worker[w].objective
      /\ \A u \in Time \ {worker[w].at} : occ'[u] = occ[u]
  BY <1>2, <1>5, <1>6 DEF OccurrenceType
<1> QED BY <1>1, <1>2, <1>3, <1>4, <1>7

LEMMA EndsWrites ==
  ASSUME ClaimInv, NEW w \in Worker, Ends(w)
  PROVE  /\ worker'[w] = Idle
         /\ \A v \in Worker \ {w} : worker'[v] = worker[v]
BY DEF Ends, ClaimInv, Types

LEMMA SucceedBinds ==
  ASSUME ClaimInv, BoundInv, NEW w \in Worker, Succeed(w)
  PROVE  BoundInv'
<1>1. UNCHANGED objective /\ Ends(w) /\ job' = AfterSuccess
  BY DEF Succeed
<1>2. job'.removed = job.removed
  BY <1>1 DEF AfterSuccess, Released, ClaimInv, Types, JobType
<1>3. worker[w].objective # None => worker[w].objective[1] = worker[w].at
  BY DEF BoundInv, ObjectiveIsOwn
<1>4. \A t \in Time : occ[t].objective # None => occ[t].objective[1] = t
  BY DEF BoundInv, ObjectiveIsOwn
<1>5. ASSUME NEW t \in Time
      PROVE  /\ occ[t].objective # None => occ'[t].objective = occ[t].objective
             /\ occ'[t].objective # None => occ'[t].objective[1] = t
             /\ \/ occ'[t].token = None
                \/ occ'[t].token = occ[t].token /\ occ'[t].objective = occ[t].objective
  BY <1>3, <1>4, SucceedWrites
<1>6. \A v \in Worker : worker'[v] = worker[v] \/ worker'[v] = Idle
  BY <1>1, EndsWrites
<1> QED BY <1>1, <1>2, <1>5, <1>6, SucceedWrites, ExecutionsEnd

\* What a failure writes: a retry or the end, while the claim holds.
LEMMA FailWrites ==
  ASSUME ClaimInv, BoundInv, NEW w \in Worker, Fail(w)
  PROVE  /\ job'.removed = job.removed /\ job'.work = job.work
         /\ \/ UNCHANGED <<job, occ>>
            \/ /\ worker[w].at \in Time /\ ~job.removed
               /\ occ'[worker[w].at].status \in {"failed", "retrying"}
               /\ occ'[worker[w].at].token = None
               /\ occ'[worker[w].at].attempts = occ[worker[w].at].attempts
               /\ occ'[worker[w].at].objective = occ[worker[w].at].objective
               /\ \A u \in Time \ {worker[w].at} : occ'[u] = occ[u]
<1>1. CASE ~(Holds(w) /\ w \in live)
  BY <1>1 DEF Fail
<1>2. CASE Holds(w) /\ w \in live
  <2>1. worker[w].at \in Time /\ occ[worker[w].at].token = w
    BY <1>2 DEF Fail, ClaimInv, BusyHasOccurrence, Busy, Holds
  <2>2. ~job.removed
    BY <2>1, ObjectivesHaveOccurrences DEF BoundInv, RemovedIsEmpty, NoOccurrence
  <2>3. job' = AfterError(worker[w].at)
    BY <1>2 DEF Fail
  <2>4. job'.removed = job.removed /\ job'.work = job.work
    BY <2>3 DEF AfterError, Released, ClaimInv, Types, JobType
  <2>5. PICK s \in {"failed", "retrying"} :
          occ' = [occ EXCEPT ![worker[w].at].token = None, ![worker[w].at].status = s]
    BY <1>2 DEF Fail
  <2>6. occ \in [Time -> OccurrenceType] /\ occ[worker[w].at] \in OccurrenceType
    BY <2>1 DEF ClaimInv, Types
  <2>7. /\ occ'[worker[w].at].status \in {"failed", "retrying"}
        /\ occ'[worker[w].at].token = None
        /\ occ'[worker[w].at].attempts = occ[worker[w].at].attempts
        /\ occ'[worker[w].at].objective = occ[worker[w].at].objective
        /\ \A u \in Time \ {worker[w].at} : occ'[u] = occ[u]
    BY <2>1, <2>5, <2>6 DEF OccurrenceType
  <2> QED BY <2>1, <2>2, <2>4, <2>7
<1> QED BY <1>1, <1>2

LEMMA FailBinds ==
  ASSUME ClaimInv, BoundInv, NEW w \in Worker, Fail(w)
  PROVE  BoundInv'
<1>1. UNCHANGED objective /\ Ends(w)
  BY DEF Fail
<1>2. \A t \in Time : occ[t].objective # None => occ[t].objective[1] = t
  BY DEF BoundInv, ObjectiveIsOwn
<1>3. job.removed => ~job.enabled
  BY DEF BoundInv, RemovedIsEmpty
<1>4. job.removed => ~job'.enabled /\ UNCHANGED occ
  BY <1>3, FailWrites
<1>5. ASSUME NEW t \in Time
      PROVE  /\ occ[t].objective # None => occ'[t].objective = occ[t].objective
             /\ occ'[t].objective # None => occ'[t].objective[1] = t
             /\ \/ occ'[t].token = None
                \/ occ'[t].token = occ[t].token /\ occ'[t].objective = occ[t].objective
  BY <1>2, FailWrites
<1>6. \A v \in Worker : worker'[v] = worker[v] \/ worker'[v] = Idle
  BY <1>1, EndsWrites
<1> QED BY <1>1, <1>4, <1>5, <1>6, FailWrites, ExecutionsEnd

LEMMA CrashBinds ==
  ASSUME ClaimInv, BoundInv, Crash
  PROVE  BoundInv'
<1>1. UNCHANGED <<job, occ, objective>> /\ worker' = [w \in Worker |-> Idle]
  BY DEF Crash
<1>2. \A t \in Time : occ[t].objective # None => occ[t].objective[1] = t
  BY DEF BoundInv, ObjectiveIsOwn
<1>3. job.removed => ~job.enabled
  BY DEF BoundInv, RemovedIsEmpty
<1> QED BY <1>1, <1>2, <1>3, ExecutionsEnd

\* What a claim writes: the next attempt of one occurrence that has not ended.
LEMMA ClaimWrites ==
  ASSUME ClaimInv, BoundInv, NEW w \in Worker, Claim(w)
  PROVE  \E t \in Time :
    /\ occ[t].status \notin Final /\ occ[t].attempts \in Nat
    /\ occ'[t].status = "claimed" /\ occ'[t].token = w
    /\ occ'[t].objective = occ[t].objective /\ occ'[t].attempts = occ[t].attempts + 1
    /\ \A u \in Time \ {t} : occ'[u] = occ[u]
    /\ worker[w] = Idle
    /\ worker'[w].pc = "claimed" /\ worker'[w].at = t
    /\ worker'[w].attempt = occ[t].attempts + 1
    /\ worker'[w].objective = occ[t].objective
    /\ \A v \in Worker \ {w} : worker'[v] = worker[v]
    /\ ~job.removed /\ job'.removed = job.removed /\ job'.work = job.work
    /\ UNCHANGED objective
<1>1. PICK t \in Time : t = Claimed
  BY ClaimedIsRight DEF Claim
<1>2. /\ worker[w] = Idle /\ Due /\ CanInsert
      /\ job' = [job EXCEPT !.token = w]
      /\ occ' = [occ EXCEPT ![t].status = "claimed", ![t].token = w,
                            ![t].attempts = @ + 1]
      /\ worker' = [worker EXCEPT ![w] =
           [pc |-> "claimed", at |-> t, attempt |-> occ[t].attempts + 1,
            objective |-> occ[t].objective]]
      /\ UNCHANGED objective
  BY <1>1 DEF Claim
<1>3. /\ occ \in [Time -> OccurrenceType] /\ occ[t] \in OccurrenceType
      /\ worker \in [Worker -> WorkerType] /\ job \in JobType
  BY DEF ClaimInv, Types
<1>4. occ[t].attempts \in Nat
  BY <1>3, Constants DEF OccurrenceType
<1>5. occ[t].status \notin Final
  BY <1>1, <1>2, ClaimedIsRight DEF Final
<1>6. ~job.removed
  BY <1>2 DEF Due, BoundInv, RemovedIsEmpty
<1>7. job'.removed = job.removed /\ job'.work = job.work
  BY <1>2, <1>3 DEF JobType
<1>8. /\ occ'[t].status = "claimed" /\ occ'[t].token = w
      /\ occ'[t].objective = occ[t].objective /\ occ'[t].attempts = occ[t].attempts + 1
      /\ \A u \in Time \ {t} : occ'[u] = occ[u]
  BY <1>2, <1>3 DEF OccurrenceType
<1>9. /\ worker'[w].pc = "claimed" /\ worker'[w].at = t
      /\ worker'[w].attempt = occ[t].attempts + 1
      /\ worker'[w].objective = occ[t].objective
      /\ \A v \in Worker \ {w} : worker'[v] = worker[v]
  BY <1>2, <1>3
<1> QED BY <1>2, <1>4, <1>5, <1>6, <1>7, <1>8, <1>9

LEMMA ClaimBinds ==
  ASSUME ClaimInv, BoundInv, NEW w \in Worker, Claim(w)
  PROVE  BoundInv'
<1>1. PICK t \in Time :
    /\ occ'[t].token = w /\ occ'[t].objective = occ[t].objective
    /\ \A u \in Time \ {t} : occ'[u] = occ[u]
    /\ worker[w] = Idle /\ worker'[w].pc = "claimed" /\ worker'[w].at = t
    /\ worker'[w].objective = occ[t].objective
    /\ \A v \in Worker \ {w} : worker'[v] = worker[v]
    /\ ~job.removed /\ job'.removed = job.removed
    /\ UNCHANGED objective
  BY ClaimWrites
<1>2. \A u \in Time : occ'[u].objective = occ[u].objective
  BY <1>1
<1>3. RemovedIsEmpty' /\ HasObjective'
  BY <1>1 DEF BoundInv, RemovedIsEmpty, HasObjective
<1>4. ObjectiveIsOwn'
  BY <1>1, <1>2 DEF BoundInv, ObjectiveIsOwn, Busy
<1>5. HolderKnows'
  <2>1. SUFFICES ASSUME NEW v \in Worker, Busy(v)', occ'[worker'[v].at].token = v,
                        occ'[worker'[v].at].objective # None
                 PROVE  worker'[v].objective = occ'[worker'[v].at].objective
    BY DEF HolderKnows
  <2>2. CASE v = w
    BY <1>1, <2>2
  <2>3. CASE v # w
    <3>1. worker'[v] = worker[v] /\ Busy(v)
      BY <1>1, <2>1, <2>3 DEF Busy
    <3>2. worker[v].at \in Time \ {t}
      BY <1>1, <2>1, <2>3, <3>1 DEF ClaimInv, BusyHasOccurrence
    <3> QED BY <1>1, <2>1, <3>1, <3>2 DEF BoundInv, HolderKnows
  <2> QED BY <2>2, <2>3
<1>6. ASSUME NEW o \in Objective, Bound(o)' PROVE Bound(o)
  BY <1>1, <1>6 DEF Bound
<1> QED BY <1>1, <1>2, <1>3, <1>4, <1>5, <1>6, BindsNothing

\* What a misfire writes: an occurrence that is never executed.
LEMMA SkipWrites ==
  ASSUME ClaimInv, SkipMisfire
  PROVE  /\ job'.removed = job.removed /\ job'.work = job.work /\ job.enabled
         /\ UNCHANGED <<worker, objective>>
         /\ \A t \in Time :
              /\ occ'[t].token = occ[t].token /\ occ'[t].objective = occ[t].objective
              /\ occ'[t].attempts = occ[t].attempts
              /\ occ'[t].status = occ[t].status \/ occ'[t].status = "skipped"
<1>1. job.enabled /\ UNCHANGED <<worker, objective>>
  BY DEF SkipMisfire, Due
<1>2. job'.removed = job.removed /\ job'.work = job.work
  BY DEF SkipMisfire, ClaimInv, Types, JobType
<1>3. ASSUME NEW t \in Time
      PROVE  /\ occ'[t].token = occ[t].token /\ occ'[t].objective = occ[t].objective
             /\ occ'[t].attempts = occ[t].attempts
             /\ occ'[t].status = occ[t].status \/ occ'[t].status = "skipped"
  <2>1. occ \in [Time -> OccurrenceType] /\ occ[t] \in OccurrenceType
    BY DEF ClaimInv, Types
  <2>2. occ' = occ \/ occ' = [occ EXCEPT ![job.next].status = "skipped"]
    BY DEF SkipMisfire
  <2> QED BY <2>1, <2>2 DEF OccurrenceType
<1> QED BY <1>1, <1>2, <1>3

LEMMA SkipBinds ==
  ASSUME ClaimInv, BoundInv, SkipMisfire
  PROVE  BoundInv'
<1>1. \A t \in Time : occ[t].objective # None => occ[t].objective[1] = t
  BY DEF BoundInv, ObjectiveIsOwn
<1>2. ~job.removed
  BY SkipWrites DEF BoundInv, RemovedIsEmpty
<1> QED BY <1>1, <1>2, SkipWrites, ExecutionsEnd

LEMMA RemoveBinds ==
  ASSUME ClaimInv, BoundInv, Remove
  PROVE  BoundInv'
<1>1. /\ job'.removed /\ ~job'.enabled /\ occ' = [t \in Time |-> NoOccurrence]
      /\ UNCHANGED <<worker, objective>>
  BY DEF Remove, ClaimInv, Types, JobType
<1>2. \A t \in Time : occ'[t] = NoOccurrence /\ occ'[t].token = None
                      /\ occ'[t].objective = None
  BY <1>1 DEF NoOccurrence
<1>3. RemovedIsEmpty' /\ HasObjective' /\ ObjectiveIsOwn'
  BY <1>1, <1>2 DEF BoundInv, RemovedIsEmpty, HasObjective, ObjectiveIsOwn, Busy
<1>4. HolderKnows'
  BY <1>1, <1>2 DEF HolderKnows, Busy, ClaimInv, BusyHasOccurrence
<1>5. \A o \in Objective : Bound(o)' => Bound(o)
  BY <1>1 DEF Bound
<1> QED BY <1>1, <1>3, <1>4, <1>5, BindsNothing

\* The owner's other commands, the clock, leases and the outbox.
LEMMA OthersKeepWork ==
  ASSUME ClaimInv,
         \/ (\E kind \in Kinds, policy \in Policies : Update(kind, policy))
              \/ RunNow \/ Pause \/ Resume \/ Tick \/ Deliver
         \/ \E t \in Time : ExpireDelivery(t)
         \/ \E w \in Worker : ExpireClaim(w) \/ Renew(w)
         \/ UNCHANGED vars
  PROVE  /\ UNCHANGED <<occ, worker, objective>>
         /\ job'.removed = job.removed /\ job'.work = job.work
         /\ job.removed => job'.enabled = job.enabled \/ ~job'.enabled
<1>1. UNCHANGED <<occ, worker, objective>>
  BY DEF Update, RunNow, Pause, Resume, Tick, Deliver, ExpireDelivery, ExpireClaim, Renew,
     ClaimDeliveries, Delivered, DeliveryFails, Defer, Records, schedule, vars
<1>2. CASE UNCHANGED job
  BY <1>1, <1>2
<1>3. CASE (\E kind \in Kinds, policy \in Policies : Update(kind, policy))
             \/ RunNow \/ Pause \/ Resume
  <2>1. job'.removed = job.removed /\ job'.work = job.work /\ ~job.removed
    BY <1>3 DEF Update, RunNow, Pause, Resume, Visible, ClaimInv, Types, JobType
  <2> QED BY <1>1, <2>1
<1> QED
  BY <1>2, <1>3 DEF Tick, Deliver, ExpireDelivery, ExpireClaim, Renew,
     ClaimDeliveries, Delivered, DeliveryFails, Defer, Records, schedule, vars

LEMMA ReverifyWrites ==
  ASSUME ClaimInv, NEW p \in Objective,
         DeliverObjective(p) \/ \E s \in {"accepted", "failed"} : Reverify(p, s)
  PROVE  /\ UNCHANGED <<job, occ, worker>>
         /\ objective[p].status \in {"retained", "accepted"}
         /\ objective[p].status = "accepted" =>
              /\ objective'[p].status = "delivered"
              /\ objective'[p].queued = objective[p].queued
         /\ \A o \in Objective \ {p} : objective'[o] = objective[o]
BY DEF DeliverObjective, Reverify, ClaimInv, Types, ObjectiveType

LEMMA ObjectivesBind ==
  ASSUME ClaimInv, BoundInv, NEW p \in Objective,
         DeliverObjective(p) \/ \E s \in {"accepted", "failed"} : Reverify(p, s)
  PROVE  BoundInv'
<1>1. job.removed => ~job.enabled
  BY DEF BoundInv, RemovedIsEmpty
<1>2. ASSUME NEW o \in Objective
      PROVE  /\ objective'[o].queued =>
                  objective[o].queued \/ objective[o].status = "retained"
             /\ objective'[o].status \in {"retained", "accepted", "delivered"} =>
                  objective[o].status \in {"retained", "accepted", "delivered"}
  BY ReverifyWrites
<1> QED BY <1>1, <1>2, ReverifyWrites, SameExecutions

LEMMA BoundInit == Init => BoundInv
<1> SUFFICES ASSUME Init PROVE BoundInv
  OBVIOUS
<1>1. job.removed \in {FALSE}
  BY DEF Init
<1>2. occ = [t \in Time |-> NoOccurrence] /\ worker = [w \in Worker |-> Idle]
  BY DEF Init
<1>3. objective = [o \in Objective |-> [status |-> "absent", queued |-> FALSE]]
  BY DEF Init
<1>4. \A o \in Objective : objective[o].status = "absent" /\ ~objective[o].queued
  BY <1>3
<1> QED
  BY <1>1, <1>2, <1>4 DEF BoundInv, RemovedIsEmpty, HasObjective, ObjectiveIsOwn, HolderKnows,
     BoundIsKnown, OneBound, Bound, NoOccurrence, Idle, Busy

LEMMA BoundNext ==
  ASSUME ClaimInv, BoundInv, [Next]_vars
  PROVE  BoundInv'
<1>1. ASSUME NEW w \in Worker, Step(w) PROVE BoundInv'
  BY <1>1, BeginBinds, BindBinds, TurnBinds, SucceedBinds, FailBinds DEF Step
<1>2. ASSUME NEW w \in Worker, Claim(w) PROVE BoundInv'
  BY <1>2, ClaimBinds
<1>3. ASSUME NEW o \in Objective,
             DeliverObjective(o) \/ \E s \in {"accepted", "failed"} : Reverify(o, s)
      PROVE  BoundInv'
  BY <1>3, ObjectivesBind
<1>4. CASE \/ (\E kind \in Kinds, policy \in Policies : Update(kind, policy))
                \/ RunNow \/ Pause \/ Resume \/ Tick \/ Deliver
           \/ \E t \in Time : ExpireDelivery(t)
           \/ \E w \in Worker : ExpireClaim(w) \/ Renew(w)
           \/ UNCHANGED vars
  <2>1. job.removed => ~job.enabled
    BY DEF BoundInv, RemovedIsEmpty
  <2> QED BY <1>4, <2>1, OthersKeepWork, SameExecutions
<1> QED
  BY <1>1, <1>2, <1>3, <1>4, SkipBinds, RemoveBinds, CrashBinds DEF Next

\* However often an occurrence is executed, by executions that hold their
\* claims or lost them, one of its Objectives is accepted at most.
THEOREM OneAcceptedResult == Spec => []OneAcceptedObjective
<1>1. Init => ClaimInv /\ BoundInv
  BY InitClaims, BoundInit
<1>2. ClaimInv /\ BoundInv /\ [Next]_vars => (ClaimInv /\ BoundInv)'
  BY ClaimNext, BoundNext
<1>3. BoundInv => OneAcceptedObjective
  BY DEF BoundInv, OneBound, Bound, OneAcceptedObjective
<1> QED BY <1>1, <1>2, <1>3, PTL DEF Spec

-----------------------------------------------------------------------------
(* Only accepted Objectives make an occurrence succeed.                    *)

\* An accepted Objective is in the Completion Outbox.
Queued == \A o \in Objective :
  objective[o].status \in {"accepted", "delivered"} => objective[o].queued

LEMMA QueuedNext ==
  ASSUME ClaimInv, Queued, [Next]_vars
  PROVE  Queued'
<1>1. ASSUME NEW w \in Worker, Step(w)
      PROVE  Queued'
  <2>1. CASE Begin(w)
    <3>1. CASE worker[w].objective = None
      BY <2>1, <3>1, BeginWrites DEF Queued
    <3>2. CASE worker[w].objective # None
      BY <2>1, <3>2 DEF Begin, Queued
    <3> QED BY <3>1, <3>2
  <2>2. CASE Enter(w) \/ Throw(w) \/ \E s \in {"pending", "cancelled"} : GiveBack(w, s)
    BY <2>2, ThrowWrites DEF Queued
  <2>3. CASE Bind(w)
    BY <2>3, FailsCreatedWrites DEF Bind, Queued
  <2>4. ASSUME NEW s \in {"accepted", "retained", "failed"}, Verdict(w, s)
        PROVE  Queued'
    BY <2>4, VerdictStatus DEF Queued
  <2>5. CASE Succeed(w) \/ Fail(w)
    BY <2>5 DEF Succeed, Fail, Queued
  <2> QED BY <1>1, <2>1, <2>2, <2>3, <2>4, <2>5 DEF Step
<1>2. ASSUME NEW o \in Objective,
             DeliverObjective(o) \/ \E s \in {"accepted", "failed"} : Reverify(o, s)
      PROVE  Queued'
  <2>1. \A p \in Objective : objective[p] \in ObjectiveType
    BY DEF ClaimInv, Types
  <2>2. \A p \in Objective \ {o} : objective'[p] = objective[p]
    BY <1>2 DEF DeliverObjective, Reverify, ClaimInv, Types
  <2>3. objective'[o].status \in {"accepted", "delivered"} => objective'[o].queued
    <3>1. CASE DeliverObjective(o)
      BY <2>1, <3>1 DEF DeliverObjective, Queued, ClaimInv, Types, ObjectiveType
    <3>2. ASSUME NEW s \in {"accepted", "failed"}, Reverify(o, s)
          PROVE  objective'[o].status \in {"accepted", "delivered"} => objective'[o].queued
      BY <3>2 DEF Reverify, ClaimInv, Types
    <3> QED BY <1>2, <3>1, <3>2
  <2> QED BY <2>2, <2>3 DEF Queued
<1>3. CASE UNCHANGED objective
  BY <1>3 DEF Queued
<1>4. CASE \/ \E w \in Worker : Claim(w)
           \/ SkipMisfire \/ Remove \/ Crash
  BY <1>3, <1>4 DEF Claim, SkipMisfire, Remove, Crash
<1>5. CASE \/ (\E kind \in Kinds, policy \in Policies : Update(kind, policy))
                \/ RunNow \/ Pause \/ Resume \/ Tick \/ Deliver
           \/ \E t \in Time : ExpireDelivery(t)
           \/ \E w \in Worker : ExpireClaim(w) \/ Renew(w)
           \/ UNCHANGED vars
  BY <1>3, <1>5, OthersKeepWork
<1> QED BY <1>1, <1>2, <1>4, <1>5 DEF Next

LEMMA ExecutionTypes ==
  ASSUME ClaimInv
  PROVE  /\ \A t \in Time : occ[t].attempts \in Nat
         /\ \A w \in Worker : Busy(w) =>
              worker[w].at \in Time /\ worker[w].attempt \in Nat
         /\ \A w \in Worker : worker[w].objective \in Objective \cup {None}
         /\ \A t \in Time : occ[t].objective \in Objective \cup {None}
<1>1. \A t \in Time : occ[t].attempts \in Nat
  BY Constants DEF ClaimInv, Types, OccurrenceType
<1>2. \A w \in Worker : Busy(w) => worker[w].at \in Time /\ worker[w].attempt \in Nat
  BY TimeIsNat DEF ClaimInv, BusyHasOccurrence
<1>3. /\ \A w \in Worker : worker[w].objective \in Objective \cup {None}
      /\ \A t \in Time : occ[t].objective \in Objective \cup {None}
  BY DEF ClaimInv, Types, WorkerType, OccurrenceType
<1> QED BY <1>1, <1>2, <1>3

\* Occurrences and executions stay, a success keeps its Objective.
LEMMA SameResults ==
  ASSUME ResultInv, UNCHANGED <<occ, worker>>,
         job'.removed = job.removed, job'.work = job.work,
         \A o \in Objective : InOutbox(o) => InOutbox(o)',
         \A t \in Time : occ[t].objective \in Objective \cup {None}
  PROVE  ResultInv'
<1>1. OneTurn' /\ (Numbered => Numbered') /\ (CreatesAlone => CreatesAlone')
  BY DEF ResultInv, OneTurn, Numbered, CreatesAlone, Creates, Own, Busy
<1>2. (HolderIsLast => HolderIsLast') /\ (SuccessIsLast => SuccessIsLast')
  BY DEF HolderIsLast, SuccessIsLast, Holder, Busy
<1>3. SuccessWasAccepted => SuccessWasAccepted'
  BY DEF SuccessWasAccepted
<1> QED BY <1>1, <1>2, <1>3 DEF ResultInv

\* Executions end; an occurrence keeps its Objective or gets that of an
\* execution that ends; one that succeeds has an accepted one and no turn.
LEMMA EndedResults ==
  ASSUME ClaimInv, BoundInv, ResultInv, UNCHANGED objective,
         job'.removed = job.removed, job'.work = job.work,
         \A v \in Worker : worker'[v] = worker[v] \/ worker'[v] = Idle,
         \A t \in Time :
           /\ occ'[t].attempts = occ[t].attempts
           /\ occ'[t].token = None \/ occ'[t].token = occ[t].token
           /\ \/ occ'[t].objective = occ[t].objective
              \/ \E w \in Worker : /\ Busy(w) /\ worker[w].at = t /\ worker'[w] = Idle
                                   /\ occ'[t].objective = worker[w].objective
           /\ occ'[t].status = "succeeded" =>
                \/ occ[t].status = "succeeded" /\ occ'[t].objective = occ[t].objective
                \/ /\ \A v \in Worker : worker'[v].pc = "turn" => worker'[v].at # t
                   /\ job.work = "agent" =>
                        occ'[t].objective # None /\ InOutbox(occ'[t].objective)
  PROVE  ResultInv'
<1>1. \A v \in Worker : \/ worker'[v] = worker[v]
                        \/ worker'[v].pc = "idle" /\ worker'[v].objective = None
  BY DEF Idle
<1>2. OneTurn'
  BY <1>1 DEF ResultInv, OneTurn, InSession
<1>3. SUFFICES ASSUME ~job.removed, job.work = "agent"
               PROVE  /\ Numbered' /\ CreatesAlone' /\ HolderIsLast' /\ SuccessIsLast'
                      /\ SuccessWasAccepted'
  BY <1>2 DEF ResultInv
<1>4. Numbered /\ CreatesAlone /\ HolderIsLast /\ SuccessIsLast /\ SuccessWasAccepted
  BY <1>3 DEF ResultInv
<1>5. \A v \in Worker : Busy(v)' => Busy(v) /\ worker'[v] = worker[v]
  BY <1>1 DEF Busy
<1>6. Numbered'
  <2>1. \A v \in Worker : Busy(v)' => worker'[v].attempt <= occ'[worker'[v].at].attempts
    BY <1>4, <1>5, ExecutionTypes DEF Numbered
  <2>2. \A v, w \in Worker : Busy(v)' /\ Busy(w)' /\ worker'[v].at = worker'[w].at
          /\ worker'[v].attempt = worker'[w].attempt => v = w
    BY <1>4, <1>5 DEF Numbered
  <2>3. \A v \in Worker : worker'[v].objective # None =>
          /\ worker'[v].objective[2] <= worker'[v].attempt
          /\ worker'[v].pc \in {"claimed", "reopened"} =>
               worker'[v].objective[2] # worker'[v].attempt
    BY <1>1, <1>4 DEF Numbered
  <2>4. ASSUME NEW t \in Time, occ'[t].objective # None
        PROVE  occ'[t].objective[2] <= occ'[t].attempts
    <3>1. CASE occ'[t].objective = occ[t].objective
      BY <1>4, <2>4, <3>1 DEF Numbered
    <3>2. ASSUME NEW w \in Worker, Busy(w), worker[w].at = t,
                 occ'[t].objective = worker[w].objective
          PROVE  occ'[t].objective[2] <= occ'[t].attempts
      <4>1. worker[w].objective[2] <= worker[w].attempt
            /\ worker[w].attempt <= occ[t].attempts
        BY <1>4, <2>4, <3>2 DEF Numbered
      <4>2. worker[w].objective[2] \in Nat
        BY <2>4, <3>2, ExecutionTypes, ObjectivesHaveOccurrences
      <4>3. worker[w].attempt \in Nat /\ occ[t].attempts \in Nat
            /\ occ'[t].attempts = occ[t].attempts
        BY <3>2, ExecutionTypes
      <4> QED BY <3>2, <4>1, <4>2, <4>3
    <3> QED BY <3>1, <3>2
  <2> QED BY <2>1, <2>2, <2>3, <2>4 DEF Numbered
<1>7. CreatesAlone'
  <2>1. SUFFICES ASSUME NEW w \in Worker, Creates(w)'
                 PROVE  /\ occ'[worker'[w].at].objective # Own(w)'
                        /\ \A v \in Worker \ {w} : worker'[v].objective # Own(w)'
    BY DEF CreatesAlone
  <2>2. worker'[w] = worker[w] /\ Busy(w) /\ Creates(w) /\ Own(w)' = Own(w)
    BY <1>1, <2>1 DEF Creates, Busy, Own
  <2>3. /\ occ[worker[w].at].objective # Own(w)
        /\ \A v \in Worker \ {w} : worker[v].objective # Own(w)
    BY <1>4, <2>2 DEF CreatesAlone
  <2>4. Own(w) \in Objective /\ worker[w].at \in Time /\ Own(w) # None
    BY <2>2, ObjectivesHaveOccurrences DEF Own, ClaimInv, BusyHasOccurrence
  <2>5. \A v \in Worker \ {w} : worker'[v].objective # Own(w)
    BY <1>1, <2>3, <2>4
  <2>6. occ'[worker[w].at].objective # Own(w)
    <3>1. CASE occ'[worker[w].at].objective = occ[worker[w].at].objective
      BY <2>3, <3>1
    <3>2. ASSUME NEW v \in Worker, worker'[v] = Idle,
                 occ'[worker[w].at].objective = worker[v].objective
          PROVE  occ'[worker[w].at].objective # Own(w)
      <4>1. v # w
        BY <2>2, <3>2 DEF Busy, Idle
      <4> QED BY <2>3, <3>2, <4>1
    <3> QED BY <2>4, <3>1, <3>2
  <2> QED BY <2>2, <2>5, <2>6
<1>8. HolderIsLast'
  <2>1. SUFFICES ASSUME NEW v \in Worker, NEW w \in Worker, Holder(w)',
                        worker'[w].pc \in {"accepted", "answered"},
                        worker'[v].pc = "turn"
                 PROVE  worker'[v].at # worker'[w].at
    BY DEF HolderIsLast
  <2>2. worker'[w] = worker[w] /\ worker'[v] = worker[v] /\ Busy(w)
    BY <1>1, <2>1 DEF Busy
  <2>3. Holder(w)
    BY <2>1, <2>2, ExecutionTypes, ObjectivesHaveOccurrences DEF Holder
  <2> QED BY <1>4, <2>1, <2>2, <2>3 DEF HolderIsLast
<1>9. SuccessIsLast'
  <2>1. SUFFICES ASSUME NEW v \in Worker, worker'[v].pc = "turn",
                        occ'[worker'[v].at].status = "succeeded"
                 PROVE  FALSE
    BY DEF SuccessIsLast
  <2>2. worker'[v] = worker[v] /\ worker[v].at \in Time
    BY <1>1, <2>1, ExecutionTypes DEF Busy
  <2> QED BY <1>4, <2>1, <2>2 DEF SuccessIsLast
<1>10. SuccessWasAccepted'
  BY <1>4 DEF SuccessWasAccepted, InOutbox
<1> QED BY <1>6, <1>7, <1>8, <1>9, <1>10

LEMMA SucceedResults ==
  ASSUME ClaimInv, BoundInv, Queued, ResultInv, NEW w \in Worker, Succeed(w)
  PROVE  ResultInv'
<1> DEFINE t == worker[w].at
<1>1. UNCHANGED objective /\ Ends(w) /\ job' = AfterSuccess /\ Verified(w)
  BY DEF Succeed
<1>2. job'.removed = job.removed /\ job'.work = job.work
  BY <1>1 DEF AfterSuccess, Released, ClaimInv, Types, JobType
<1>3. /\ t \in Time /\ ~job.removed /\ Busy(w) /\ occ[t].token = w
      /\ occ'[t].token = None /\ occ'[t].attempts = occ[t].attempts
      /\ occ'[t].objective = worker[w].objective
      /\ \A u \in Time \ {t} : occ'[u] = occ[u]
  BY SucceedWrites
<1>4. worker'[w] = Idle /\ \A v \in Worker \ {w} : worker'[v] = worker[v]
  BY <1>1, EndsWrites
<1>5. CASE job.work # "agent"
  <2>1. OneTurn'
    <3>1. \A v \in Worker : worker'[v] = worker[v] \/ worker'[v].pc = "idle"
      BY <1>4 DEF Idle
    <3> QED BY <3>1 DEF ResultInv, OneTurn, InSession
  <2> QED BY <1>2, <1>5, <2>1 DEF ResultInv
<1>6. CASE job.work = "agent"
  <2>1. /\ worker[w].pc \in {"accepted", "answered"}
        /\ InOutbox(worker[w].objective) /\ worker[w].objective # None
    <3>1. /\ worker[w].pc \in {"accepted", "answered"}
          /\ objective[worker[w].objective].status \in {"accepted", "delivered"}
          /\ worker[w].objective # None
      BY <1>1, <1>6 DEF Verified, BoundInv, HasObjective
    <3>2. worker[w].objective \in Objective
      BY <3>1, ExecutionTypes
    <3> QED BY <3>1, <3>2 DEF InOutbox, Queued
  <2>2. \A v \in Worker : worker[v].pc = "turn" => worker[v].at # t
    BY <1>3, <1>6, <2>1 DEF ResultInv, HolderIsLast, Holder
  <2>3. \A v \in Worker : worker'[v].pc = "turn" => worker'[v].at # t
    BY <1>4, <2>2 DEF Idle
  <2>4. \A v \in Worker : worker'[v] = worker[v] \/ worker'[v] = Idle
    BY <1>4
  <2>5. ASSUME NEW u \in Time
        PROVE  /\ occ'[u].attempts = occ[u].attempts
               /\ occ'[u].token = None \/ occ'[u].token = occ[u].token
               /\ \/ occ'[u].objective = occ[u].objective
                  \/ \E v \in Worker : /\ Busy(v) /\ worker[v].at = u /\ worker'[v] = Idle
                                       /\ occ'[u].objective = worker[v].objective
               /\ occ'[u].status = "succeeded" =>
                    \/ occ[u].status = "succeeded" /\ occ'[u].objective = occ[u].objective
                    \/ /\ \A v \in Worker : worker'[v].pc = "turn" => worker'[v].at # u
                       /\ job.work = "agent" =>
                            occ'[u].objective # None /\ InOutbox(occ'[u].objective)
    <3>1. CASE u = t
      BY <1>3, <1>4, <2>1, <2>3, <3>1
    <3>2. CASE u # t
      BY <1>3, <3>2
    <3> QED BY <3>1, <3>2
  <2> HIDE DEF t
  <2> QED BY <1>1, <1>2, <2>4, <2>5, EndedResults
<1> QED BY <1>5, <1>6

LEMMA FailResults ==
  ASSUME ClaimInv, BoundInv, ResultInv, NEW w \in Worker, Fail(w)
  PROVE  ResultInv'
<1>1. UNCHANGED objective /\ Ends(w)
  BY DEF Fail
<1>2. \A v \in Worker : worker'[v] = worker[v] \/ worker'[v] = Idle
  BY <1>1, EndsWrites
<1>3. \A u \in Time :
        /\ occ'[u].attempts = occ[u].attempts
        /\ occ'[u].token = None \/ occ'[u].token = occ[u].token
        /\ occ'[u].objective = occ[u].objective
        /\ occ'[u].status = "succeeded" => occ[u].status = "succeeded"
  BY FailWrites
<1> QED BY <1>1, <1>2, <1>3, FailWrites, EndedResults

LEMMA CrashResults ==
  ASSUME ClaimInv, BoundInv, ResultInv, Crash \/ SkipMisfire
  PROVE  ResultInv'
<1>1. CASE Crash
  <2>1. UNCHANGED <<job, occ, objective>> /\ worker' = [w \in Worker |-> Idle]
    BY <1>1 DEF Crash
  <2> QED BY <2>1, EndedResults
<1>2. CASE SkipMisfire
  BY <1>2, SkipWrites, EndedResults
<1> QED BY <1>1, <1>2

LEMMA RemoveResults ==
  ASSUME ClaimInv, ResultInv, Remove
  PROVE  ResultInv'
<1>1. job'.removed /\ UNCHANGED worker
  BY DEF Remove, ClaimInv, Types, JobType
<1> QED BY <1>1 DEF ResultInv, OneTurn

LEMMA ClaimResults ==
  ASSUME ClaimInv, BoundInv, ResultInv, NEW w \in Worker, Claim(w)
  PROVE  ResultInv'
<1>1. PICK t \in Time :
    /\ occ[t].status \notin Final /\ occ[t].attempts \in Nat
    /\ occ'[t].status = "claimed" /\ occ'[t].token = w
    /\ occ'[t].objective = occ[t].objective /\ occ'[t].attempts = occ[t].attempts + 1
    /\ \A u \in Time \ {t} : occ'[u] = occ[u]
    /\ worker[w] = Idle
    /\ worker'[w].pc = "claimed" /\ worker'[w].at = t
    /\ worker'[w].attempt = occ[t].attempts + 1
    /\ worker'[w].objective = occ[t].objective
    /\ \A v \in Worker \ {w} : worker'[v] = worker[v]
    /\ ~job.removed /\ job'.removed = job.removed /\ job'.work = job.work
    /\ UNCHANGED objective
  BY ClaimWrites
<1>2. OneTurn'
  BY <1>1 DEF ResultInv, OneTurn, InSession
<1>3. SUFFICES ASSUME job.work = "agent"
               PROVE  /\ Numbered' /\ CreatesAlone' /\ HolderIsLast' /\ SuccessIsLast'
                      /\ SuccessWasAccepted'
  BY <1>1, <1>2 DEF ResultInv
<1>4. Numbered /\ CreatesAlone /\ HolderIsLast /\ SuccessIsLast /\ SuccessWasAccepted
  BY <1>1, <1>3 DEF ResultInv
<1>5. \A u \in Time : /\ occ'[u].objective = occ[u].objective
                      /\ occ[u].attempts <= occ'[u].attempts
                      /\ occ[u].attempts \in Nat /\ occ'[u].attempts \in Nat
  BY <1>1, ExecutionTypes
<1>6. ASSUME NEW u \in Time, occ[u].objective # None
      PROVE  occ[u].objective[2] \in Nat /\ occ[u].objective[2] <= occ[u].attempts
  BY <1>4, <1>6, ExecutionTypes, ObjectivesHaveOccurrences DEF Numbered
<1>7. Numbered'
  <2>1. ASSUME NEW v \in Worker, Busy(v)'
        PROVE  worker'[v].attempt <= occ'[worker'[v].at].attempts
    <3>1. CASE v = w
      BY <1>1, <3>1
    <3>2. CASE v # w
      <4>1. Busy(v) /\ worker'[v] = worker[v]
        BY <1>1, <2>1, <3>2 DEF Busy
      <4>2. worker[v].attempt <= occ[worker[v].at].attempts
            /\ worker[v].attempt \in Nat /\ worker[v].at \in Time
        BY <1>4, <4>1, ExecutionTypes DEF Numbered
      <4> QED BY <1>5, <4>1, <4>2
    <3> QED BY <3>1, <3>2
  <2>2. ASSUME NEW v \in Worker \ {w}, Busy(v)', worker'[v].at = t
        PROVE  worker'[v].attempt # worker'[w].attempt
    <3>1. Busy(v) /\ worker'[v] = worker[v]
      BY <1>1, <2>2 DEF Busy
    <3>2. worker[v].attempt <= occ[t].attempts /\ worker[v].attempt \in Nat
      BY <1>4, <2>2, <3>1, ExecutionTypes DEF Numbered
    <3> QED BY <1>1, <3>1, <3>2
  <2>3. \A v, u \in Worker : Busy(v)' /\ Busy(u)' /\ worker'[v].at = worker'[u].at
          /\ worker'[v].attempt = worker'[u].attempt => v = u
    <3>1. SUFFICES ASSUME NEW v \in Worker, NEW u \in Worker, Busy(v)', Busy(u)',
                          worker'[v].at = worker'[u].at,
                          worker'[v].attempt = worker'[u].attempt, v # u
                   PROVE  FALSE
      OBVIOUS
    <3>2. CASE v = w
      BY <1>1, <2>2, <3>1, <3>2
    <3>3. CASE u = w
      BY <1>1, <2>2, <3>1, <3>3
    <3>4. CASE v # w /\ u # w
      BY <1>1, <1>4, <3>1, <3>4 DEF Numbered, Busy
    <3> QED BY <3>2, <3>3, <3>4
  <2>4. ASSUME NEW v \in Worker, worker'[v].objective # None
        PROVE  /\ worker'[v].objective[2] <= worker'[v].attempt
               /\ worker'[v].pc \in {"claimed", "reopened"} =>
                    worker'[v].objective[2] # worker'[v].attempt
    <3>1. CASE v = w
      BY <1>1, <1>6, <2>4, <3>1
    <3>2. CASE v # w
      BY <1>1, <1>4, <2>4, <3>2 DEF Numbered
    <3> QED BY <3>1, <3>2
  <2>5. ASSUME NEW u \in Time, occ'[u].objective # None
        PROVE  occ'[u].objective[2] <= occ'[u].attempts
    BY <1>5, <1>6, <2>5
  <2> QED BY <2>1, <2>3, <2>4, <2>5 DEF Numbered
<1>8. CreatesAlone'
  <2>1. SUFFICES ASSUME NEW v \in Worker, Creates(v)'
                 PROVE  /\ occ'[worker'[v].at].objective # Own(v)'
                        /\ \A u \in Worker \ {v} : worker'[u].objective # Own(v)'
    BY DEF CreatesAlone
  <2>2. CASE v = w
    <3>1. Own(v)' = <<t, occ[t].attempts + 1>> /\ worker'[v].at = t
      BY <1>1, <2>2 DEF Own
    <3>2. occ[t].objective = None
      BY <1>1, <2>1, <2>2 DEF Creates
    <3>3. None # Own(v)'
      <4>1. worker'[w].attempt \in Attempts
        BY <1>1, ClaimKeeps DEF ClaimInv, BusyHasOccurrence, Busy
      <4> QED BY <1>1, <3>1, <4>1, ObjectivesHaveOccurrences
    <3>4. ASSUME NEW u \in Worker \ {w}, worker'[u].objective = Own(v)'
          PROVE  FALSE
      <4>1. worker'[u] = worker[u]
        BY <1>1, <3>4
      <4>2. /\ worker[u].objective # None /\ worker[u].objective[1] = t
            /\ worker[u].objective[2] = occ[t].attempts + 1
        BY <3>1, <3>3, <3>4, <4>1
      <4>3. Busy(u) /\ worker[u].at = t
        BY <4>2 DEF BoundInv, ObjectiveIsOwn
      <4>4. worker[u].objective[2] <= worker[u].attempt
            /\ worker[u].attempt <= occ[t].attempts /\ worker[u].attempt \in Nat
        BY <1>4, <4>2, <4>3, ExecutionTypes DEF Numbered
      <4> QED BY <1>1, <4>2, <4>4
    <3> QED BY <1>5, <2>2, <3>1, <3>2, <3>3, <3>4
  <2>3. CASE v # w
    <3>1. worker'[v] = worker[v] /\ Creates(v) /\ Own(v)' = Own(v) /\ Busy(v)
      BY <1>1, <2>1, <2>3 DEF Creates, Own, Busy
    <3>2. /\ occ[worker[v].at].objective # Own(v)
          /\ \A u \in Worker \ {v} : worker[u].objective # Own(v)
      BY <1>4, <3>1 DEF CreatesAlone
    <3>3. worker[v].at \in Time /\ Own(v)[1] = worker[v].at
      BY <3>1, ExecutionTypes DEF Own
    <3>4. Own(v) # None
      BY <3>1, ObjectivesHaveOccurrences DEF Own, ClaimInv, BusyHasOccurrence
    <3>5. occ[t].objective # Own(v)
      BY <1>1, <3>2, <3>3, <3>4 DEF BoundInv, ObjectiveIsOwn
    <3> QED BY <1>1, <1>5, <3>1, <3>2, <3>3, <3>5
  <2> QED BY <2>2, <2>3
<1>9. HolderIsLast'
  <2>1. SUFFICES ASSUME NEW v \in Worker, NEW u \in Worker, Holder(u)',
                        worker'[u].pc \in {"accepted", "answered"},
                        worker'[v].pc = "turn"
                 PROVE  worker'[v].at # worker'[u].at
    BY DEF HolderIsLast
  <2>2. u # w /\ v # w /\ worker'[u] = worker[u] /\ worker'[v] = worker[v] /\ Busy(u)
    BY <1>1, <2>1 DEF Busy
  <2>3. worker[u].at \in Time \ {t}
    BY <1>1, <2>1, <2>2, ExecutionTypes DEF Holder
  <2>4. Holder(u)
    BY <1>1, <2>1, <2>2, <2>3 DEF Holder
  <2> QED BY <1>4, <2>1, <2>2, <2>4 DEF HolderIsLast
<1>10. SuccessIsLast'
  <2>1. SUFFICES ASSUME NEW v \in Worker, worker'[v].pc = "turn",
                        occ'[worker'[v].at].status = "succeeded"
                 PROVE  FALSE
    BY DEF SuccessIsLast
  <2>2. v # w /\ worker'[v] = worker[v] /\ Busy(v)
    BY <1>1, <2>1 DEF Busy
  <2>3. worker[v].at \in Time \ {t}
    BY <1>1, <2>1, <2>2, ExecutionTypes
  <2> QED BY <1>1, <1>4, <2>1, <2>2, <2>3 DEF SuccessIsLast
<1>11. SuccessWasAccepted'
  <2>1. SUFFICES ASSUME NEW u \in Time, occ'[u].status = "succeeded"
                 PROVE  (occ[u].objective # None /\ InOutbox(occ[u].objective))'
    BY DEF SuccessWasAccepted
  <2>2. u # t /\ occ'[u] = occ[u]
    BY <1>1, <2>1
  <2> QED BY <1>1, <1>3, <1>4, <2>1, <2>2 DEF SuccessWasAccepted, InOutbox
<1> QED BY <1>7, <1>8, <1>9, <1>10, <1>11

\* One execution goes on under the number it has, with an Objective that no
\* other execution created, and may change that Objective while it may.
LEMMA GoesOnResults ==
  ASSUME ClaimInv, BoundInv, ResultInv, NEW w \in Worker, Busy(w),
         UNCHANGED <<job, occ>>,
         worker'[w].pc \notin {"idle", "claimed", "turn"},
         worker'[w].pc = "entered" =>
           \A v \in Worker : worker[v].pc \notin InSession,
         worker'[w].pc = "reopened" =>
           worker[w].pc = "claimed" /\ worker[w].objective # None,
         worker'[w].at = worker[w].at, worker'[w].attempt = worker[w].attempt,
         \A v \in Worker \ {w} : worker'[v] = worker[v],
         \/ worker'[w].objective = worker[w].objective
         \/ worker[w].objective = None /\ worker'[w].objective = Own(w),
         ~job.removed /\ job.work = "agent" => (Creates(w)' => Creates(w)),
         worker'[w].pc \in {"accepted", "answered"} => worker[w].pc = "turn",
         \A o \in Objective : \/ objective'[o] = objective[o]
                              \/ o = worker[w].objective /\ worker[w].pc = "turn"
                              \/ o = Own(w) /\ Creates(w)
                              \/ /\ objective'[o].queued = objective[o].queued
                                 /\ objective'[o].status
                                      \in {"pending", "active", "cancelled"}
  PROVE  ResultInv'
<1>1. OneTurn'
  <2>1. CASE worker'[w].pc # "entered"
    BY <2>1 DEF ResultInv, OneTurn, InSession
  <2>2. CASE worker'[w].pc = "entered"
    BY <2>2 DEF OneTurn
  <2> QED BY <2>1, <2>2
<1>2. SUFFICES ASSUME ~job.removed, job.work = "agent"
               PROVE  /\ Numbered' /\ CreatesAlone' /\ HolderIsLast' /\ SuccessIsLast'
                      /\ SuccessWasAccepted'
  BY <1>1 DEF ResultInv
<1>3. /\ Numbered /\ CreatesAlone /\ HolderIsLast /\ SuccessIsLast /\ SuccessWasAccepted
      /\ OneTurn
  BY <1>2 DEF ResultInv
<1>4. \A v \in Worker : /\ Busy(v)' <=> Busy(v)
                        /\ worker'[v].at = worker[v].at
                        /\ worker'[v].attempt = worker[v].attempt
                        /\ Own(v)' = Own(v)
  BY DEF Busy, Own
<1>5. Own(w) \in Objective /\ Own(w)[1] = worker[w].at /\ Own(w)[2] = worker[w].attempt
      /\ worker[w].at \in Time /\ worker[w].attempt \in Nat /\ Own(w) # None
  <2>1. worker[w].at \in Time /\ worker[w].attempt \in Attempts
    BY DEF ClaimInv, BusyHasOccurrence
  <2>2. /\ Own(w) \in Objective /\ Own(w)[1] = worker[w].at
        /\ Own(w)[2] = worker[w].attempt
    BY <2>1, ObjectivesHaveOccurrences DEF Own
  <2> QED BY <2>1, <2>2, ObjectivesHaveOccurrences, TimeIsNat
<1>6. Numbered'
  <2>1. \A v \in Worker : worker'[v].objective # None =>
          /\ worker'[v].objective[2] <= worker'[v].attempt
          /\ worker'[v].pc \in {"claimed", "reopened"} =>
               worker'[v].objective[2] # worker'[v].attempt
    <3>1. SUFFICES ASSUME NEW v \in Worker, worker'[v].objective # None
                   PROVE  /\ worker'[v].objective[2] <= worker'[v].attempt
                          /\ worker'[v].pc \in {"claimed", "reopened"} =>
                               worker'[v].objective[2] # worker'[v].attempt
      OBVIOUS
    <3>2. CASE v # w
      BY <1>3, <3>1, <3>2 DEF Numbered
    <3>3. CASE v = w /\ worker'[w].objective = worker[w].objective
      BY <1>3, <3>1, <3>3 DEF Numbered
    <3>4. CASE v = w /\ worker[w].objective = None /\ worker'[w].objective = Own(w)
      BY <1>5, <3>4
    <3> QED BY <3>2, <3>3, <3>4
  <2> QED BY <1>3, <1>4, <2>1 DEF Numbered
<1>7. CreatesAlone'
  <2>1. SUFFICES ASSUME NEW v \in Worker, Creates(v)'
                 PROVE  /\ occ[worker[v].at].objective # Own(v)
                        /\ \A u \in Worker \ {v} : worker'[u].objective # Own(v)
    BY <1>4 DEF CreatesAlone
  <2>2. Creates(v) /\ Busy(v)
    BY <1>2, <1>4, <2>1 DEF Creates, Busy
  <2>3. /\ occ[worker[v].at].objective # Own(v)
        /\ \A u \in Worker \ {v} : worker[u].objective # Own(v)
    BY <1>3, <2>2 DEF CreatesAlone
  <2>4. CASE v = w
    BY <2>3, <2>4
  <2>5. CASE v # w /\ worker'[w].objective = worker[w].objective
    BY <2>3, <2>5
  <2>6. CASE v # w /\ worker'[w].objective = Own(w)
    <3>1. ~(worker[v].at = worker[w].at /\ worker[v].attempt = worker[w].attempt)
      BY <1>3, <2>2, <2>6 DEF Numbered
    <3>2. Own(v) # Own(w)
      BY <3>1 DEF Own
    <3> QED BY <2>3, <2>6, <3>2
  <2> QED BY <2>4, <2>5, <2>6
<1>8. HolderIsLast'
  <2>1. SUFFICES ASSUME NEW v \in Worker, NEW u \in Worker, Holder(u)',
                        worker'[u].pc \in {"accepted", "answered"},
                        worker'[v].pc = "turn", worker'[v].at = worker'[u].at
                 PROVE  FALSE
    BY DEF HolderIsLast
  <2>2. v # w /\ worker'[v] = worker[v] /\ Holder(u)
    BY <1>4, <2>1 DEF Holder
  <2>3. CASE u = w
    BY <1>3, <2>1, <2>2, <2>3 DEF OneTurn, InSession
  <2>4. CASE u # w
    BY <1>3, <2>1, <2>2, <2>4 DEF HolderIsLast
  <2> QED BY <2>3, <2>4
<1>9. SuccessIsLast'
  BY <1>3 DEF SuccessIsLast
<1>10. SuccessWasAccepted'
  <2>1. SUFFICES ASSUME NEW t \in Time, occ[t].status = "succeeded"
                 PROVE  occ[t].objective # None /\ InOutbox(occ[t].objective)'
    BY DEF SuccessWasAccepted
  <2>2. occ[t].objective # None /\ InOutbox(occ[t].objective)
    BY <1>2, <1>3, <2>1 DEF SuccessWasAccepted
  <2>3. occ[t].objective \in Objective /\ occ[t].objective[1] = t
    BY <2>2, ExecutionTypes DEF BoundInv, ObjectiveIsOwn
  <2>4. ASSUME occ[t].objective = worker[w].objective, worker[w].pc = "turn"
        PROVE  FALSE
    <3>1. worker[w].at = t
      BY <2>2, <2>3, <2>4 DEF BoundInv, ObjectiveIsOwn
    <3> QED BY <1>3, <2>1, <2>4, <3>1 DEF SuccessIsLast
  <2>5. ASSUME occ[t].objective = Own(w), Creates(w)
        PROVE  FALSE
    <3>1. worker[w].at = t
      BY <1>5, <2>3, <2>5
    <3> QED BY <1>3, <2>5, <3>1 DEF CreatesAlone
  <2>6. \/ objective'[occ[t].objective] = objective[occ[t].objective]
        \/ /\ objective'[occ[t].objective].queued = objective[occ[t].objective].queued
           /\ objective'[occ[t].objective].status \in {"pending", "active", "cancelled"}
    BY <2>3, <2>4, <2>5
  <2> QED BY <2>2, <2>6 DEF InOutbox
<1> QED BY <1>6, <1>7, <1>8, <1>9, <1>10

LEMMA BeginResults ==
  ASSUME ClaimInv, BoundInv, ResultInv, NEW w \in Worker, Begin(w)
  PROVE  ResultInv'
<1>1. /\ Busy(w) /\ worker[w].pc = "claimed" /\ worker[w] \in WorkerType
      /\ worker \in [Worker -> WorkerType] /\ UNCHANGED <<job, occ>>
  BY DEF Begin, Busy, ClaimInv, Types
<1>2. CASE worker[w].objective = None
  <2>1. /\ worker' = [worker EXCEPT ![w] =
              [worker[w] EXCEPT !.pc = "opened", !.objective = Own(w)]]
        /\ \A o \in Objective \ {Own(w)} : objective'[o] = objective[o]
    BY <1>2, BeginWrites
  <2>2. /\ worker'[w].pc = "opened" /\ worker'[w].at = worker[w].at
        /\ worker'[w].attempt = worker[w].attempt /\ worker'[w].objective = Own(w)
        /\ \A v \in Worker \ {w} : worker'[v] = worker[v]
    BY <1>1, <2>1 DEF WorkerType
  <2>3. Creates(w)
    BY <1>1, <1>2 DEF Creates
  <2> QED BY <1>1, <1>2, <2>1, <2>2, <2>3, GoesOnResults
<1>3. CASE worker[w].objective # None
  <2>1. PICK pc \in {"opened", "reopened", "failed"} :
          worker' = [worker EXCEPT ![w].pc = pc]
    BY <1>3 DEF Begin, Goes
  <2>2. UNCHANGED objective
    BY <1>3 DEF Begin
  <2>3. /\ worker'[w].pc = pc /\ worker'[w].at = worker[w].at
        /\ worker'[w].attempt = worker[w].attempt
        /\ worker'[w].objective = worker[w].objective
        /\ \A v \in Worker \ {w} : worker'[v] = worker[v]
    BY <1>1, <2>1 DEF WorkerType
  <2>4. CASE job.removed \/ job.work # "agent"
    <3>1. \A v \in Worker : worker'[v].pc \in InSession => worker[v].pc \in InSession
      BY <2>3 DEF InSession
    <3> QED BY <1>1, <2>4, <3>1 DEF ResultInv, OneTurn
  <2>5. CASE ~(job.removed \/ job.work # "agent")
    <3>1. worker[w].objective[2] # worker[w].attempt
      BY <1>1, <1>3, <2>5 DEF ResultInv, Numbered
    <3>2. worker[w].objective # Own(w)
      BY <3>1 DEF Own
    <3>3. ~Creates(w)'
      BY <2>3, <3>2 DEF Creates, Own
    <3> QED BY <1>1, <1>3, <2>2, <2>3, <3>3, GoesOnResults
  <2> QED BY <2>4, <2>5
<1> QED BY <1>2, <1>3

LEMMA LeavesTurnResults ==
  ASSUME ClaimInv, BoundInv, ResultInv, NEW w \in Worker,
         NEW pc \in {"entered", "accepted", "answered", "thrown", "failed"},
         worker[w].pc \notin {"idle", "claimed"},
         pc \in {"accepted", "answered"} => worker[w].pc = "turn",
         pc = "entered" => /\ worker[w].pc \in {"opened", "reopened"}
                           /\ \A v \in Worker : worker[v].pc \notin InSession,
         Goes(w, pc), UNCHANGED <<job, occ>>,
         \A o \in Objective :
           \/ objective'[o] = objective[o]
           \/ o = worker[w].objective /\ worker[w].pc = "turn"
           \/ o = worker[w].objective /\ o = Own(w) /\ worker[w].pc = "entered"
           \/ /\ objective'[o].queued = objective[o].queued
              /\ objective'[o].status \in {"pending", "active", "cancelled"}
  PROVE  ResultInv'
<1>1. Busy(w) /\ worker[w] \in WorkerType /\ worker \in [Worker -> WorkerType]
  BY DEF Busy, ClaimInv, Types
<1>2. worker' = [worker EXCEPT ![w].pc = pc]
  BY DEF Goes
<1>3. /\ worker'[w].pc = pc /\ worker'[w].at = worker[w].at
      /\ worker'[w].attempt = worker[w].attempt
      /\ worker'[w].objective = worker[w].objective
      /\ \A v \in Worker \ {w} : worker'[v] = worker[v]
  BY <1>1, <1>2 DEF WorkerType
<1>4. ASSUME ~job.removed, job.work = "agent", Creates(w)'
      PROVE  Creates(w)
  <2>1. worker[w].objective = Own(w) /\ worker[w].pc \in {"opened", "reopened"}
    BY <1>3, <1>4 DEF Creates, Own
  <2>2. ASSUME worker[w].pc = "reopened" PROVE FALSE
    <3>1. worker[w].objective # None
      BY <2>2 DEF BoundInv, HasObjective
    <3>2. worker[w].objective[2] # worker[w].attempt
      BY <1>4, <2>2, <3>1 DEF ResultInv, Numbered
    <3>3. Own(w)[2] = worker[w].attempt
      BY DEF Own
    <3> QED BY <2>1, <3>2, <3>3
  <2> QED BY <2>1, <2>2 DEF Creates
<1>5. worker[w].objective = Own(w) /\ worker[w].pc = "entered" => Creates(w)
  BY DEF Creates
<1> QED BY <1>1, <1>3, <1>4, <1>5, GoesOnResults

LEMMA TurnResults ==
  ASSUME ClaimInv, BoundInv, ResultInv, NEW w \in Worker,
         \/ Enter(w) \/ Throw(w) \/ \E s \in {"pending", "cancelled"} : GiveBack(w, s)
         \/ \E s \in {"accepted", "retained", "failed"} : Verdict(w, s)
  PROVE  ResultInv'
<1>1. CASE Enter(w) \/ Throw(w) \/ \E s \in {"pending", "cancelled"} : GiveBack(w, s)
  <2>1. PICK pc \in {"entered", "thrown", "failed"} :
          /\ Goes(w, pc)
          /\ pc = "entered" => /\ worker[w].pc \in {"opened", "reopened"}
                               /\ \A v \in Worker : worker[v].pc \notin InSession
    BY <1>1 DEF Enter, Throw, GiveBack, InSession
  <2>2. worker[w].pc \notin {"idle", "claimed"} /\ UNCHANGED <<job, occ>>
    BY <1>1 DEF Enter, Throw, GiveBack
  <2> QED BY <1>1, <2>1, <2>2, ThrowWrites, LeavesTurnResults
<1>2. ASSUME NEW s \in {"accepted", "retained", "failed"}, Verdict(w, s)
      PROVE  ResultInv'
  <2>1. PICK pc \in {"accepted", "answered", "thrown"} : Goes(w, pc)
    BY <1>2 DEF Verdict
  <2>2. worker[w].pc = "turn" /\ UNCHANGED <<job, occ>>
    BY <1>2 DEF Verdict
  <2> QED BY <1>2, <2>1, <2>2, VerdictWrites, LeavesTurnResults
<1> QED BY <1>1, <1>2

\* The holder binds: no other turn goes on, so none is later than its own.
LEMMA BindResults ==
  ASSUME ClaimInv, BoundInv, ResultInv, NEW w \in Worker, Bind(w)
  PROVE  ResultInv'
<1>1. CASE ~MayBind(w)
  BY <1>1, FailsCreatedWrites, LeavesTurnResults DEF Bind
<1>2. CASE MayBind(w)
  <2> DEFINE t == worker[w].at
             b == worker[w].objective
  <2>1. /\ t \in Time /\ b \in Objective /\ b # None
        /\ occ[t].objective \in {None, b} /\ occ[t].token = w /\ ~job.removed
        /\ occ' = [occ EXCEPT ![t].objective = b]
        /\ worker' = [worker EXCEPT ![w].pc = "turn"]
        /\ UNCHANGED <<job, objective>>
    BY <1>2, BindsOwn, ObjectivesHaveOccurrences
  <2>2. /\ worker[w].pc = "entered"
        /\ \A v \in Worker \ {w} : worker[v].pc \notin InSession
    BY DEF Bind, ResultInv, OneTurn, InSession
  <2>3. /\ occ[t] \in OccurrenceType /\ occ \in [Time -> OccurrenceType]
        /\ worker[w] \in WorkerType /\ worker \in [Worker -> WorkerType]
    BY <2>1 DEF ClaimInv, Types
  <2>4. /\ occ'[t].objective = b /\ occ'[t].token = w
        /\ occ'[t].status = occ[t].status /\ occ'[t].attempts = occ[t].attempts
        /\ \A u \in Time \ {t} : occ'[u] = occ[u]
    BY <2>1, <2>3 DEF OccurrenceType
  <2>5. /\ worker'[w].pc = "turn" /\ worker'[w].at = t /\ worker'[w].objective = b
        /\ worker'[w].attempt = worker[w].attempt
        /\ \A v \in Worker \ {w} : worker'[v] = worker[v]
    BY <2>1, <2>3 DEF WorkerType
  <2>6. Busy(w) /\ occ[t].status = "claimed"
    BY <2>1, <2>2, ObjectivesHaveOccurrences DEF Busy, ClaimInv, TokenIsClaim
  <2> HIDE DEF t, b
  <2>7. OneTurn'
    BY <2>2, <2>5 DEF OneTurn, InSession
  <2>8. SUFFICES ASSUME job.work = "agent"
                 PROVE  /\ Numbered' /\ CreatesAlone' /\ HolderIsLast' /\ SuccessIsLast'
                        /\ SuccessWasAccepted'
    BY <2>1, <2>7 DEF ResultInv
  <2>9. Numbered /\ CreatesAlone /\ HolderIsLast /\ SuccessIsLast /\ SuccessWasAccepted
    BY <2>1, <2>8 DEF ResultInv
  <2>10. worker[w].at = t /\ worker[w].objective = b
    BY DEF t, b
  <2>11. \A v \in Worker : /\ Busy(v)' <=> Busy(v)
                           /\ worker'[v].at = worker[v].at
                           /\ worker'[v].attempt = worker[v].attempt
                           /\ worker'[v].objective = worker[v].objective
                           /\ Own(v)' = Own(v)
    BY <2>5, <2>6, <2>10 DEF Busy, Own
  <2>12. Numbered'
    <3>1. \A u \in Time : occ'[u].attempts = occ[u].attempts
      BY <2>4
    <3>2. \A v \in Worker : Busy(v)' => worker'[v].attempt <= occ'[worker'[v].at].attempts
      BY <2>9, <2>11, <3>1, ExecutionTypes DEF Numbered
    <3>3. \A v \in Worker : worker'[v].objective # None =>
            /\ worker'[v].objective[2] <= worker'[v].attempt
            /\ worker'[v].pc \in {"claimed", "reopened"} =>
                 worker'[v].objective[2] # worker'[v].attempt
      BY <2>5, <2>9, <2>10 DEF Numbered
    <3>4. b[2] <= occ[t].attempts
      <4>1. b[2] <= worker[w].attempt /\ worker[w].attempt <= occ[t].attempts
        BY <2>1, <2>6, <2>9, <2>10 DEF Numbered
      <4>2. b[2] \in Nat /\ worker[w].attempt \in Nat /\ occ[t].attempts \in Nat
        BY <2>1, <2>6, ExecutionTypes, ObjectivesHaveOccurrences
      <4> QED BY <4>1, <4>2
    <3>5. \A u \in Time : occ'[u].objective # None
            => occ'[u].objective[2] <= occ'[u].attempts
      BY <2>4, <2>9, <3>4 DEF Numbered
    <3> QED BY <2>9, <2>11, <3>2, <3>3, <3>5 DEF Numbered
  <2>13. CreatesAlone'
    <3>1. SUFFICES ASSUME NEW v \in Worker, Creates(v)'
                   PROVE  /\ occ'[worker[v].at].objective # Own(v)
                          /\ \A u \in Worker \ {v} : worker[u].objective # Own(v)
      BY <2>11 DEF CreatesAlone
    <3>2. v # w /\ Creates(v) /\ Busy(v)
      BY <2>5, <2>11, <3>1 DEF Creates, Busy
    <3>3. /\ occ[worker[v].at].objective # Own(v)
          /\ \A u \in Worker \ {v} : worker[u].objective # Own(v)
      BY <2>9, <3>2 DEF CreatesAlone
    <3>4. worker[v].at \in Time
      BY <3>2, ExecutionTypes
    <3> QED BY <2>4, <2>10, <3>2, <3>3, <3>4
  <2>14. HolderIsLast'
    <3>1. SUFFICES ASSUME NEW v \in Worker, NEW u \in Worker, Holder(u)',
                          worker'[u].pc \in {"accepted", "answered"},
                          worker'[v].pc = "turn"
                   PROVE  worker'[v].at # worker'[u].at
      BY DEF HolderIsLast
    <3>2. v = w /\ u # w
      BY <2>2, <2>5, <3>1 DEF InSession
    <3>3. occ'[worker'[u].at].token = u
      BY <3>1 DEF Holder
    <3> QED BY <2>4, <2>5, <3>2, <3>3
  <2>15. SuccessIsLast'
    BY <2>2, <2>4, <2>5, <2>6 DEF SuccessIsLast, InSession
  <2>16. SuccessWasAccepted'
    <3>1. SUFFICES ASSUME NEW u \in Time, occ'[u].status = "succeeded"
                   PROVE  (occ[u].objective # None /\ InOutbox(occ[u].objective))'
      BY DEF SuccessWasAccepted
    <3>2. u # t /\ occ'[u] = occ[u]
      BY <2>4, <2>6, <3>1
    <3> QED BY <2>1, <2>8, <2>9, <3>1, <3>2 DEF SuccessWasAccepted, InOutbox
  <2> QED BY <2>12, <2>13, <2>14, <2>15, <2>16
<1> QED BY <1>1, <1>2

LEMMA OthersKeepResults ==
  ASSUME ClaimInv, ResultInv,
         UNCHANGED <<occ, worker, objective>>,
         job'.removed = job.removed, job'.work = job.work
  PROVE  ResultInv'
<1>1. \A o \in Objective : InOutbox(o) => InOutbox(o)'
  BY DEF InOutbox
<1> QED BY <1>1, ExecutionTypes, SameResults

LEMMA ObjectivesResult ==
  ASSUME ClaimInv, ResultInv, NEW p \in Objective,
         DeliverObjective(p) \/ \E s \in {"accepted", "failed"} : Reverify(p, s)
  PROVE  ResultInv'
<1>1. \A o \in Objective : InOutbox(o) => InOutbox(o)'
  BY ReverifyWrites DEF InOutbox
<1> QED BY <1>1, ReverifyWrites, ExecutionTypes, SameResults

LEMMA ResultInit == Init => ResultInv
<1> SUFFICES ASSUME Init PROVE ResultInv
  OBVIOUS
<1>1. occ = [t \in Time |-> NoOccurrence] /\ worker = [w \in Worker |-> Idle]
  BY DEF Init
<1> QED
  BY <1>1 DEF ResultInv, OneTurn, InSession, Numbered, CreatesAlone, Creates,
     HolderIsLast, Holder, Busy, SuccessIsLast, SuccessWasAccepted, NoOccurrence, Idle

LEMMA ResultNext ==
  ASSUME ClaimInv, BoundInv, Queued, ResultInv, [Next]_vars
  PROVE  ResultInv'
<1>1. ASSUME NEW w \in Worker, Step(w) PROVE ResultInv'
  BY <1>1, BeginResults, BindResults, TurnResults, SucceedResults, FailResults DEF Step
<1>2. ASSUME NEW w \in Worker, Claim(w) PROVE ResultInv'
  BY <1>2, ClaimResults
<1>3. ASSUME NEW o \in Objective,
             DeliverObjective(o) \/ \E s \in {"accepted", "failed"} : Reverify(o, s)
      PROVE  ResultInv'
  BY <1>3, ObjectivesResult
<1>4. CASE \/ (\E kind \in Kinds, policy \in Policies : Update(kind, policy))
                \/ RunNow \/ Pause \/ Resume \/ Tick \/ Deliver
           \/ \E t \in Time : ExpireDelivery(t)
           \/ \E w \in Worker : ExpireClaim(w) \/ Renew(w)
           \/ UNCHANGED vars
  BY <1>4, OthersKeepWork, OthersKeepResults
<1> QED
  BY <1>1, <1>2, <1>3, <1>4, CrashResults, RemoveResults DEF Next

\* An agent occurrence succeeds only with an Objective whose accepted result is
\* in the Completion Outbox, and no verdict of an execution that lost its claim
\* rejects or replaces that result afterwards; such an execution may still give
\* the Objective back, or cancel it.
THEOREM SuccessIsAccepted == Spec => []SuccessWasAccepted
<1>1. Init => ClaimInv /\ BoundInv /\ Queued /\ ResultInv
  <2>1. Init => Queued
    BY DEF Init, Queued
  <2> QED BY <2>1, InitClaims, BoundInit, ResultInit
<1>2. ClaimInv /\ BoundInv /\ Queued /\ ResultInv /\ [Next]_vars
        => (ClaimInv /\ BoundInv /\ Queued /\ ResultInv)'
  BY ClaimNext, BoundNext, QueuedNext, ResultNext
<1>3. BoundInv /\ ResultInv => SuccessWasAccepted
  BY DEF BoundInv, RemovedIsEmpty, ResultInv, SuccessWasAccepted, NoOccurrence
<1> QED BY <1>1, <1>2, <1>3, PTL DEF Spec
=============================================================================
