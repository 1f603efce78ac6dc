----------------------------- MODULE ToolEffects -----------------------------
(***************************************************************************)
(* The Effect authority (packages/core/src/tool-effect.ts): the durable     *)
(* record of every mutating tool call, shared through one SQLite file by    *)
(* the processes of a Profile (the gateway, CLI turns, operator commands).  *)
(*                                                                         *)
(* begin() records an Effect as executing and claims its replay identities; *)
(* finish() settles it as committed or unknown; interruption, shutdown and  *)
(* recovery after a crash settle it as unknown; only reconcile() turns an   *)
(* unknown Effect into committed or failed.  The "planned" status exists    *)
(* only inside the transaction of begin() and is not modelled.              *)
(*                                                                         *)
(* The outside world is modelled next to the record: a tool call that was    *)
(* started is outstanding until its mutation takes place (applied) or can    *)
(* no longer take place, which may be long after the call returned an error  *)
(* or its process died.                                                     *)
(***************************************************************************)
EXTENDS Integers, FiniteSets

CONSTANTS
  Effect,    \* identities of Effects
  Pid,       \* operating-system process ids
  Call,      \* the tool calls made: records of the fields below
  PidReuse,  \* may a process id be given to a new process after a crash?
  None

CallFields == {"owner", "key", "task", "run", "kind", "provider"}
Kind == {"local", "external"}

ASSUME CallAssumption ==
  /\ \A c \in Call : DOMAIN c = CallFields /\ c.kind \in Kind
  /\ PidReuse \in BOOLEAN
ASSUME NoneAssumption == None \notin Effect /\ None \notin Pid

Owner == {c.owner : c \in Call}
Key == {c.key : c \in Call} \ {None}
Provider == {c.provider : c \in Call} \ {None}

Status == {"absent", "executing", "committed", "failed", "unknown", "pruned"}

\* Replay identities: an idempotency key within an owner's scope, or the fact
\* of compensating one Effect within an owner's scope.
Identity == ({"key"} \X Owner \X Key) \cup ({"compensation"} \X Owner \X Effect)

VARIABLES
  effect,       \* the tool_effects table
  identity,     \* the tool_effect_identities table
  active,       \* per process: Effects whose tool call it awaits
  up,           \* which processes run
  usedPid,      \* process ids ever given to a process
  outstanding,  \* world: mutations that may still take place
  applied       \* world: mutations that took place

vars == <<effect, identity, active, up, usedPid, outstanding, applied>>
world == <<outstanding, applied>>

AbsentEffect == [status |-> "absent", call |-> None, target |-> None,
                 holder |-> None, proof |-> None]

Init ==
  /\ effect = [e \in Effect |-> AbsentEffect]
  /\ identity = [i \in Identity |-> None]
  /\ active = [p \in Pid |-> {}]
  /\ up = [p \in Pid |-> FALSE]
  /\ usedPid = {}
  /\ outstanding = {}
  /\ applied = {}

-----------------------------------------------------------------------------
(* begin(): the checks before the transaction are repeated inside it by the  *)
(* identity check, or are about a committed Effect, which never changes.     *)

KeyIdentity(c) == IF c.key = None THEN {} ELSE {<<"key", c.owner, c.key>>}
CompensationIdentity(c, t) ==
  IF t = None THEN {} ELSE {<<"compensation", c.owner, t>>}
\* Mutant of IdentitiesOf: compensating an Effect leaves no replay identity.
KeyIdentityOnly(c, t) == KeyIdentity(c)

IdentitiesOf(c, t) == KeyIdentity(c) \cup CompensationIdentity(c, t)

\* Mutant of MayCompensate: an Effect of unknown outcome may be compensated.
MayCompensateUnknown(c, t) ==
  /\ effect[t].status \in {"committed", "unknown"}
  /\ effect[t].target = None
  /\ effect[t].call.owner = c.owner
  /\ effect[t].call.kind = "external" => effect[t].proof \in {c.provider, None}

\* A compensation needs the committed Effect, of the same owner, that is no
\* compensation itself; an external one needs its proof's provider.
MayCompensate(c, t) ==
  /\ effect[t].status = "committed"
  /\ effect[t].target = None
  /\ effect[t].call.owner = c.owner
  /\ effect[t].call.kind = "external" => effect[t].proof = c.provider

\* Mutant of Free: only a committed Effect keeps its identity.
FreeUnlessCommitted(i) ==
  identity[i] # None => effect[identity[i]].status # "committed"

\* An identity is free when no Effect holds it or its holder failed.
Free(i) == identity[i] # None => effect[identity[i]].status = "failed"

Begin(p, e, c, t) ==
  /\ up[p]
  /\ effect[e].status = "absent"
  /\ c.task # None => c.run # None
  /\ t # None => MayCompensate(c, t)
  /\ \A i \in IdentitiesOf(c, t) : Free(i)
  /\ effect' = [effect EXCEPT ![e] =
                  [status |-> "executing", call |-> c, target |-> t,
                   holder |-> p, proof |-> None]]
  /\ identity' = [i \in Identity |->
                    IF i \in IdentitiesOf(c, t) THEN e ELSE identity[i]]
  /\ active' = [active EXCEPT ![p] = @ \cup {e}]
  /\ outstanding' = outstanding \cup {e}
  /\ UNCHANGED <<up, usedPid, applied>>

-----------------------------------------------------------------------------
(* Settlement.                                                             *)

\* Mutant of Settled: the settled record still names its holder.
SettledKeepingHolder(e, status, proof) ==
  IF effect[e].status = "executing"
  THEN [effect[e] EXCEPT !.status = status, !.proof = proof]
  ELSE effect[e]

\* transition(..., ["planned", "executing"], ...): a settled Effect stays.
Settled(e, status, proof) ==
  IF effect[e].status = "executing"
  THEN [effect[e] EXCEPT !.status = status, !.holder = None, !.proof = proof]
  ELSE effect[e]

Trusted(e, proof) == proof # None /\ proof = effect[e].call.provider

\* Mutant of Commits: a successful answer commits, with or without a proof.
CommitsWithoutProof(e, isError, proof) == isError => Trusted(e, proof)

\* finish() commits a successful local call and a call, failed or not when it
\* is local, successful when it is external, that carries a trusted proof.
Commits(e, isError, proof) ==
  LET attestedLocalCommit ==
        isError /\ effect[e].call.kind = "local" /\ Trusted(e, proof)
  IN /\ isError => attestedLocalCommit
     /\ effect[e].call.kind = "external" => Trusted(e, proof)

\* The answer of a tool: a call that succeeded, or failed with a proof of its
\* mutation, has mutated unless it is an external call that proves nothing.
Honest(e, isError, proof) ==
  (Trusted(e, proof) \/ (~isError /\ effect[e].call.kind = "local"))
    => e \in applied

\* A late finish(), of an Effect the process no longer awaits, is ignored.
Finish(p, e, isError, proof) ==
  /\ up[p]
  /\ e \in active[p]
  /\ Honest(e, isError, proof)
  /\ active' = [active EXCEPT ![p] = @ \ {e}]
  /\ effect' = [effect EXCEPT ![e] =
       IF Commits(e, isError, proof)
       THEN Settled(e, "committed", IF Trusted(e, proof) THEN proof ELSE None)
       ELSE Settled(e, "unknown", None)]
  /\ UNCHANGED <<identity, up, usedPid, world>>

\* The Effects of E that p awaits become unknown and are awaited no more.
Interrupt(p, E) ==
  /\ effect' = [e \in Effect |->
                  IF e \in E THEN Settled(e, "unknown", None) ELSE effect[e]]
  /\ active' = [active EXCEPT ![p] = @ \ E]

InterruptTask(p, task) ==
  /\ up[p]
  /\ task # None
  /\ Interrupt(p, {e \in active[p] : effect[e].call.task = task})
  /\ UNCHANGED <<identity, up, usedPid, world>>

\* reconcile(): an operator who inspected the outside world settles an unknown
\* Effect; the receipt written then carries no proof, like the unknown record.
Reconcile(p, e, resolution) ==
  /\ up[p]
  /\ effect[e].status = "unknown"
  /\ effect' = [effect EXCEPT ![e].status = resolution]
  /\ UNCHANGED <<identity, active, up, usedPid, world>>

\* What the operator found out is true: a committed mutation took place, a
\* failed one did not and no longer can.
OperatorIsRight(e, resolution) ==
  IF resolution = "committed" THEN e \in applied
  ELSE e \notin applied /\ e \notin outstanding

-----------------------------------------------------------------------------
(* Processes.                                                              *)

\* Mutant of Orphan: only a record without a holder is taken for an orphan.
OrphanWithoutHolder(p, e, alive) ==
  effect[e].status = "executing" /\ effect[e].holder = None

\* recoverOrphans(): what a dead process was executing becomes unknown.  A
\* record whose holder has the new process's own id is left alone.
Orphan(p, e, alive) ==
  /\ effect[e].status = "executing"
  /\ effect[e].holder # p
  /\ effect[e].holder \notin alive

\* Mutant of Prunable: identities do not protect an old Effect.
PrunableByAge(e) == effect[e].status \in {"committed", "failed"}

\* pruneTerminalWithoutReplayIdentity(): settled Effects no identity refers to
\* are deleted 90 days later; e was settled that long ago.
Prunable(e) ==
  /\ effect[e].status \in {"committed", "failed"}
  /\ \A i \in Identity : identity[i] # e

\* The constructor in a new process p.  With PidReuse, ids of dead processes
\* may belong to unrelated programs by now.
Start(p) ==
  /\ ~up[p]
  /\ p \notin usedPid \/ PidReuse
  /\ \E foreign \in SUBSET {q \in usedPid : PidReuse /\ ~up[q] /\ q # p},
       old \in SUBSET {e \in Effect : Prunable(e)} :
       LET alive == foreign \cup {q \in Pid : up[q]} IN
       effect' = [e \in Effect |->
                    IF e \in old THEN [effect[e] EXCEPT !.status = "pruned"]
                    ELSE IF Orphan(p, e, alive)
                         THEN Settled(e, "unknown", None) ELSE effect[e]]
  /\ identity' = [i \in Identity |->
       IF identity[i] # None /\ effect'[identity[i]].status = "pruned"
       THEN None ELSE identity[i]]
  /\ up' = [up EXCEPT ![p] = TRUE]
  /\ usedPid' = usedPid \cup {p}
  /\ UNCHANGED <<active, world>>

\* close(): an orderly shutdown settles what the process still awaits.
Close(p) ==
  /\ up[p]
  /\ Interrupt(p, active[p])
  /\ up' = [up EXCEPT ![p] = FALSE]
  /\ UNCHANGED <<identity, usedPid, world>>

Crash(p) ==
  /\ up[p]
  /\ up' = [up EXCEPT ![p] = FALSE]
  /\ active' = [active EXCEPT ![p] = {}]
  /\ UNCHANGED <<effect, identity, usedPid, world>>

-----------------------------------------------------------------------------
(* The world behind the tools.                                             *)

Apply(e) ==
  /\ e \in outstanding
  /\ outstanding' = outstanding \ {e}
  /\ applied' = applied \cup {e}
  /\ UNCHANGED <<effect, identity, active, up, usedPid>>

Fizzle(e) ==
  /\ e \in outstanding
  /\ outstanding' = outstanding \ {e}
  /\ UNCHANGED <<effect, identity, active, up, usedPid, applied>>

-----------------------------------------------------------------------------
BeginSome(p) ==
  \E e \in Effect, c \in Call, t \in Effect \cup {None} : Begin(p, e, c, t)
FinishSome(p) ==
  \E e \in Effect, isError \in BOOLEAN, proof \in Provider \cup {None} :
    Finish(p, e, isError, proof)
InterruptSome(p) == \E c \in Call : InterruptTask(p, c.task)
ReconcileSome(p) ==
  \E e \in Effect, resolution \in {"committed", "failed"} :
    OperatorIsRight(e, resolution) /\ Reconcile(p, e, resolution)

Next ==
  \/ \E p \in Pid : \/ BeginSome(p) \/ FinishSome(p) \/ InterruptSome(p)
                    \/ ReconcileSome(p) \/ Start(p) \/ Close(p) \/ Crash(p)
  \/ \E e \in Effect : Apply(e) \/ Fizzle(e)

Spec == Init /\ [][Next]_vars
-----------------------------------------------------------------------------
(* Projections other components read.                                      *)

Run == {c.run : c \in Call} \ {None}

\* Mutant of ReplayBlocked: only an unresolved Effect blocks a replay.
BlockedByUnresolved(r) ==
  \E e \in Effect : /\ effect[e].status \in {"executing", "unknown"}
                    /\ effect[e].call.run = r

\* taskRunReplayState() = "blocked": recovery may not run the Task again.
ReplayBlocked(r) ==
  \E e \in Effect : /\ effect[e].status \in {"executing", "unknown", "committed"}
                    /\ effect[e].call.run = r

-----------------------------------------------------------------------------
(* Properties.                                                             *)

\* Records, identity rows and the process-local maps have their types, and a
\* record names a holder exactly while it is executing.  (A pruned record is
\* gone; the model remembers its call for the properties.)
Effects ==
  {AbsentEffect}
  \cup
  [status : {"executing"}, call : Call, target : Effect \cup {None},
   holder : Pid, proof : {None}]
  \cup
  [status : {"committed", "failed", "unknown", "pruned"}, call : Call,
   target : Effect \cup {None}, holder : {None}, proof : Provider \cup {None}]

TypeOK ==
  /\ effect \in [Effect -> Effects]
  /\ identity \in [Identity -> Effect \cup {None}]
  /\ active \in [Pid -> SUBSET Effect]
  /\ up \in [Pid -> BOOLEAN]
  /\ usedPid \subseteq Pid
  /\ outstanding \subseteq Effect
  /\ applied \subseteq Effect

Recorded(e) == effect[e].status \notin {"absent", "pruned"}

\* Two recorded Effects are meant to be the same mutation: they carry one
\* idempotency key in one owner's scope, or compensate the same Effect.
SameMutation(e, f) ==
  LET c == effect[e].call
      d == effect[f].call
  IN /\ c.owner = d.owner
     /\ \/ c.key # None /\ c.key = d.key
        \/ effect[e].target # None /\ effect[e].target = effect[f].target

\* Committed mutations are never duplicated: whatever is retried, interrupted,
\* reconciled, restarted or answered late, and by whichever process, at most one
\* of the Effects that share an idempotency key in an owner's scope, or that
\* compensate the same Effect, changes the outside world.
AtMostOnce ==
  \A e, f \in Effect :
    (e # f /\ e \in applied /\ f \in applied) => ~SameMutation(e, f)

\* The durable record never lies about the outside world: a committed Effect
\* took place; a failed one did not and no longer can.
RecordIsTrue ==
  \A e \in Effect :
    /\ effect[e].status = "committed" => e \in applied
    /\ effect[e].status = "failed" => e \notin applied \cup outstanding

\* A Task Run whose mutation took place, or may still take place, is not
\* replayed by recovery as long as its record is kept.
ReplayNeverRepeats ==
  \A e \in applied \cup outstanding :
    (Recorded(e) /\ effect[e].call.run # None)
       => ReplayBlocked(effect[e].call.run)

\* An inverse action is only ever started for a mutation that took place, in the
\* scope of the same owner, and never to undo an inverse action.
CompensatesCommitted ==
  \A e \in Effect :
    (Recorded(e) /\ effect[e].target # None) =>
      LET t == effect[e].target IN
      /\ t \in applied
      /\ effect[t].target = None
      /\ effect[t].call.owner = effect[e].call.owner

\* Once committed or failed an Effect keeps that outcome; a late answer, an
\* interruption or a recovery in another process cannot rewrite it.  (It may be
\* deleted 90 days later.)
FinalOutcome ==
  [][\A e \in Effect :
       effect[e].status \in {"committed", "failed"}
         => effect'[e].status \in {effect[e].status, "pruned"}]_vars

\* "effect ledger recovers a mutation abandoned by a crashed process": after a
\* process has started, every Effect on record as executing is awaited by a
\* running process, so none stays out of the operator's reach.
StartRecoversOrphans ==
  [][\A p \in Pid :
       (~up[p] /\ up'[p])
         => \A e \in Effect : effect'[e].status = "executing"
              => \E q \in Pid : up'[q] /\ e \in active'[q]]_vars
=============================================================================
