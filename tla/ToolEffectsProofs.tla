-------------------------- MODULE ToolEffectsProofs --------------------------
(***************************************************************************)
(* Proofs about the Effect authority, for any number of Effects, processes, *)
(* tool calls and identities, with or without reuse of process ids.         *)
(*                                                                         *)
(* AtMostOnce is not inductive: it says nothing of the Effects whose        *)
(* mutation may still take place.  The invariant IInv ties the identity     *)
(* table to the Effect table: every Effect that is not known to have failed *)
(* holds all of its identities, so two of them cannot share one.            *)
(***************************************************************************)
EXTENDS ToolEffects, TLAPS

Live == {"executing", "unknown", "committed"}

\* The replay identities of an Effect that was begun.
Identities(e) ==
  IF effect[e].status = "absent" THEN {}
  ELSE IdentitiesOf(effect[e].call, effect[e].target)

\* An identity row points to a kept Effect with that identity.
RowsAreRight ==
  \A i \in Identity, e \in Effect :
    identity[i] = e => /\ effect[e].status \notin {"absent", "pruned"}
                       /\ i \in Identities(e)

\* An Effect that may have taken place holds every identity it has.
LiveHoldsIdentities ==
  \A e \in Effect : effect[e].status \in Live
    => \A i \in Identities(e) : identity[i] = e

\* An Effect never begun, or deleted while it had an identity, has not taken
\* place and cannot.
GoneIsHarmless ==
  \A e \in Effect :
    (\/ effect[e].status = "absent"
     \/ effect[e].status = "pruned" /\ Identities(e) # {})
       => e \notin applied \cup outstanding

IInv == TypeOK /\ RowsAreRight /\ LiveHoldsIdentities /\ RecordIsTrue
        /\ GoneIsHarmless

-----------------------------------------------------------------------------
\* The identities a call claims are rows of the identity table.
LEMMA IdentitiesOfType ==
  ASSUME NEW c \in Call, NEW t \in Effect \cup {None}
  PROVE  IdentitiesOf(c, t) \subseteq Identity
<1>1. KeyIdentity(c) \subseteq Identity
  BY DEF KeyIdentity, Identity, Owner, Key
<1>2. CompensationIdentity(c, t) \subseteq Identity
  BY DEF CompensationIdentity, Identity, Owner
<1> QED BY <1>1, <1>2 DEF IdentitiesOf

\* Settling changes status, holder and proof of an executing Effect only.
LEMMA SettledType ==
  ASSUME NEW e \in Effect, effect[e] \in Effects,
         NEW s \in {"committed", "unknown"}, NEW q \in Provider \cup {None}
  PROVE  /\ Settled(e, s, q) \in Effects
         /\ Settled(e, s, q).call = effect[e].call
         /\ Settled(e, s, q).target = effect[e].target
         /\ Settled(e, s, q).status =
              IF effect[e].status = "executing" THEN s ELSE effect[e].status
<1>1. CASE effect[e].status = "executing"
  <2>1. effect[e] \in [status : {"executing"}, call : Call,
                       target : Effect \cup {None}, holder : Pid, proof : {None}]
    BY <1>1 DEF Effects, AbsentEffect
  <2>2. Settled(e, s, q) = [status |-> s, call |-> effect[e].call,
                            target |-> effect[e].target, holder |-> None,
                            proof |-> q]
    BY <1>1, <2>1 DEF Settled
  <2> QED BY <1>1, <2>1, <2>2 DEF Effects
<1>2. CASE effect[e].status # "executing"
  BY <1>2 DEF Settled
<1> QED BY <1>1, <1>2

\* A recorded Effect's call and target are typed.
LEMMA RecordedType ==
  ASSUME NEW e \in Effect, effect[e] \in Effects, effect[e].status # "absent"
  PROVE  effect[e].call \in Call /\ effect[e].target \in Effect \cup {None}
BY DEF Effects, AbsentEffect

-----------------------------------------------------------------------------
\* The tables start empty and nothing has happened.
LEMMA InitIInv == Init => IInv
<1> SUFFICES ASSUME Init PROVE IInv
  OBVIOUS
<1>1. TypeOK
  BY DEF Init, TypeOK, Effects
<1>2. RowsAreRight /\ LiveHoldsIdentities /\ RecordIsTrue /\ GoneIsHarmless
  BY NoneAssumption
     DEF Init, RowsAreRight, LiveHoldsIdentities, RecordIsTrue, GoneIsHarmless,
         AbsentEffect, Live
<1> QED BY <1>1, <1>2 DEF IInv

\* A step that settles Effects of E as committed or unknown, and leaves the
\* identities and the world alone, keeps the invariant, provided it commits
\* only what took place.
LEMMA SettlingKeepsIInv ==
  ASSUME IInv,
         active' \in [Pid -> SUBSET Effect], up' \in [Pid -> BOOLEAN],
         usedPid' \subseteq Pid, UNCHANGED <<identity, world>>,
         effect' \in [Effect -> Effects],
         \A e \in Effect :
           /\ effect'[e].call = effect[e].call
           /\ effect'[e].target = effect[e].target
           /\ \/ effect'[e].status = effect[e].status
              \/ /\ effect[e].status \in {"executing", "unknown"}
                 /\ \/ effect'[e].status = "unknown"
                    \/ effect'[e].status = "committed" /\ e \in applied
                    \/ /\ effect'[e].status = "failed"
                       /\ e \notin applied \cup outstanding
  PROVE  IInv'
<1>1. TypeOK'
  BY DEF IInv, TypeOK, world
<1>2. \A e \in Effect : Identities(e)' = Identities(e)
  BY DEF Identities, IInv, TypeOK
<1>3. RowsAreRight'
  BY <1>2 DEF RowsAreRight, IInv, TypeOK
<1>4. LiveHoldsIdentities'
  BY <1>2 DEF LiveHoldsIdentities, IInv, Live
<1>5. RecordIsTrue'
  BY DEF RecordIsTrue, IInv, world
<1>6. GoneIsHarmless'
  BY <1>2 DEF GoneIsHarmless, IInv, world
<1> QED BY <1>1, <1>3, <1>4, <1>5, <1>6 DEF IInv

\* begin() gives fresh identities, or those of a failed Effect, to an Effect
\* that has not been begun before.
LEMMA BeginKeepsIInv ==
  ASSUME IInv, NEW p \in Pid, NEW e \in Effect, NEW c \in Call,
         NEW t \in Effect \cup {None}, Begin(p, e, c, t)
  PROVE  IInv'
<1> DEFINE ids == IdentitiesOf(c, t)
           rec == [status |-> "executing", call |-> c, target |-> t,
                   holder |-> p, proof |-> None]
<1> USE NoneAssumption
<1>1. ids \subseteq Identity
  BY IdentitiesOfType
<1>2. /\ effect' = [effect EXCEPT ![e] = rec]
      /\ identity' = [i \in Identity |-> IF i \in ids THEN e ELSE identity[i]]
      /\ outstanding' = outstanding \cup {e}
      /\ applied' = applied
      /\ effect[e].status = "absent"
      /\ \A i \in ids : identity[i] # None => effect[identity[i]].status = "failed"
  BY DEF Begin, Free
<1>3. rec \in Effects
  BY DEF Effects
<1>4. TypeOK'
  <2>1. effect' \in [Effect -> Effects] /\ identity' \in [Identity -> Effect \cup {None}]
    BY <1>2, <1>3 DEF IInv, TypeOK
  <2> QED BY <2>1, <1>2 DEF IInv, TypeOK, Begin
<1>5. /\ effect'[e] = rec
      /\ \A f \in Effect \ {e} : effect'[f] = effect[f]
  BY <1>2 DEF IInv, TypeOK
<1>6. /\ Identities(e)' = ids
      /\ \A f \in Effect \ {e} : Identities(f)' = Identities(f)
  <2>1. Identities(e)' = ids
    <3>1. /\ effect'[e].status = "executing"
          /\ effect'[e].call = c
          /\ effect'[e].target = t
      BY <1>5
    <3> QED BY <3>1 DEF Identities
  <2>2. \A f \in Effect \ {e} : Identities(f)' = Identities(f)
    BY <1>5 DEF Identities
  <2> QED BY <2>1, <2>2
<1>7. RowsAreRight'
  <2> SUFFICES ASSUME NEW i \in Identity, NEW f \in Effect, identity'[i] = f
               PROVE  /\ effect'[f].status \notin {"absent", "pruned"}
                      /\ i \in Identities(f)'
    BY DEF RowsAreRight
  <2>1. CASE i \in ids
    <3>1. f = e
      BY <2>1, <1>2
    <3>2. effect'[e].status = "executing"
      BY <1>5
    <3> QED BY <3>1, <3>2, <2>1, <1>6
  <2>2. CASE i \notin ids
    <3>1. identity[i] = f
      BY <2>2, <1>2
    <3>2. f # e
      BY <3>1, <1>2 DEF IInv, RowsAreRight
    <3> QED BY <3>1, <3>2, <1>5, <1>6 DEF IInv, RowsAreRight
  <2> QED BY <2>1, <2>2
<1>8. LiveHoldsIdentities'
  <2> SUFFICES ASSUME NEW f \in Effect, effect'[f].status \in Live,
                      NEW i \in Identities(f)'
               PROVE  identity'[i] = f
    BY DEF LiveHoldsIdentities, Live
  <2>1. CASE f = e
    BY <2>1, <1>1, <1>2, <1>6
  <2>2. CASE f # e
    <3>1. identity[i] = f
      BY <2>2, <1>5, <1>6 DEF IInv, LiveHoldsIdentities
    <3>2. f # None /\ i \notin ids
      BY <3>1, <2>2, <1>2, <1>5 DEF Live
    <3>3. i \in Identity
      <4>1. effect[f].status # "absent"
        BY <2>2, <1>5 DEF Live
      <4> QED BY <4>1, <2>2, <1>6, RecordedType, IdentitiesOfType
              DEF Identities, IInv, TypeOK
    <3> QED BY <3>1, <3>2, <3>3, <1>2
  <2> QED BY <2>1, <2>2
<1>9. RecordIsTrue' /\ GoneIsHarmless'
  BY <1>2, <1>5, <1>6 DEF IInv, RecordIsTrue, GoneIsHarmless
<1> QED BY <1>4, <1>7, <1>8, <1>9 DEF IInv

\* finish() commits only what an honest tool reports.
LEMMA FinishKeepsIInv ==
  ASSUME IInv, NEW p \in Pid, NEW e \in Effect, NEW isError \in BOOLEAN,
         NEW proof \in Provider \cup {None}, Finish(p, e, isError, proof)
  PROVE  IInv'
<1> USE NoneAssumption
<1> DEFINE new == IF Commits(e, isError, proof)
                  THEN Settled(e, "committed", IF Trusted(e, proof) THEN proof ELSE None)
                  ELSE Settled(e, "unknown", None)
<1>1. effect' = [effect EXCEPT ![e] = new] /\ effect[e] \in Effects
  BY DEF Finish, IInv, TypeOK
<1>2. /\ new \in Effects
      /\ new.call = effect[e].call
      /\ new.target = effect[e].target
      /\ new.status = IF effect[e].status # "executing" THEN effect[e].status
                      ELSE IF Commits(e, isError, proof) THEN "committed"
                      ELSE "unknown"
  BY <1>1, SettledType
<1>3. Commits(e, isError, proof) /\ effect[e].status = "executing" => e \in applied
  <2> SUFFICES ASSUME Commits(e, isError, proof), effect[e].status = "executing"
               PROVE  e \in applied
    OBVIOUS
  <2>1. effect[e].call.kind \in Kind
    BY <1>1, RecordedType, CallAssumption
  <2>2. Honest(e, isError, proof)
    BY DEF Finish
  <2> QED BY <2>1, <2>2 DEF Honest, Commits, Kind
<1>4. \A f \in Effect :
        /\ effect'[f].call = effect[f].call
        /\ effect'[f].target = effect[f].target
        /\ \/ effect'[f].status = effect[f].status
           \/ /\ effect[f].status \in {"executing", "unknown"}
              /\ \/ effect'[f].status = "unknown"
                 \/ effect'[f].status = "committed" /\ f \in applied
  BY <1>1, <1>2, <1>3 DEF IInv, TypeOK
<1>5. effect' \in [Effect -> Effects]
  BY <1>1, <1>2 DEF IInv, TypeOK
<1>6. /\ active' \in [Pid -> SUBSET Effect] /\ up' \in [Pid -> BOOLEAN]
      /\ usedPid' \subseteq Pid /\ UNCHANGED <<identity, world>>
  BY DEF Finish, IInv, TypeOK
<1> QED BY <1>4, <1>5, <1>6, SettlingKeepsIInv

\* What an interruption does to the Effects it settles.
LEMMA InterruptStep ==
  ASSUME IInv, NEW p \in Pid, NEW E \in SUBSET Effect, Interrupt(p, E)
  PROVE  /\ active' \in [Pid -> SUBSET Effect]
         /\ effect' \in [Effect -> Effects]
         /\ \A e \in Effect :
              /\ effect'[e].call = effect[e].call
              /\ effect'[e].target = effect[e].target
              /\ \/ effect'[e].status = effect[e].status
                 \/ effect[e].status = "executing" /\ effect'[e].status = "unknown"
<1>1. active' \in [Pid -> SUBSET Effect]
  BY DEF Interrupt, IInv, TypeOK
<1>2. \A e \in Effect :
        /\ effect'[e] = IF e \in E THEN Settled(e, "unknown", None) ELSE effect[e]
        /\ effect[e] \in Effects
  BY DEF Interrupt, IInv, TypeOK
<1>3. \A e \in Effect : effect'[e] \in Effects
  BY <1>2, SettledType
<1>4. effect' \in [Effect -> Effects]
  <2>1. effect' = [e \in Effect |-> effect'[e]]
    BY DEF Interrupt
  <2> QED BY <2>1, <1>3
<1>5. \A e \in Effect :
        /\ effect'[e].call = effect[e].call
        /\ effect'[e].target = effect[e].target
        /\ \/ effect'[e].status = effect[e].status
           \/ effect[e].status = "executing" /\ effect'[e].status = "unknown"
  BY <1>2, SettledType
<1> QED BY <1>1, <1>4, <1>5

\* interruptTask() and close() settle Effects as unknown.
LEMMA InterruptKeepsIInv ==
  ASSUME IInv, NEW p \in Pid, NEW E \in SUBSET Effect, Interrupt(p, E),
         up' \in [Pid -> BOOLEAN], usedPid' \subseteq Pid,
         UNCHANGED <<identity, world>>
  PROVE  IInv'
<1>1. /\ active' \in [Pid -> SUBSET Effect]
      /\ effect' \in [Effect -> Effects]
      /\ \A e \in Effect :
           /\ effect'[e].call = effect[e].call
           /\ effect'[e].target = effect[e].target
           /\ \/ effect'[e].status = effect[e].status
              \/ effect[e].status = "executing" /\ effect'[e].status = "unknown"
  BY InterruptStep
<1> QED BY <1>1, SettlingKeepsIInv

\* reconcile() follows the outside world.
LEMMA ReconcileKeepsIInv ==
  ASSUME IInv, NEW p \in Pid, NEW e \in Effect,
         NEW r \in {"committed", "failed"}, OperatorIsRight(e, r),
         Reconcile(p, e, r)
  PROVE  IInv'
<1> DEFINE new == [effect[e] EXCEPT !.status = r]
<1>1. effect' = [effect EXCEPT ![e] = new] /\ effect[e] \in Effects
  BY DEF Reconcile, IInv, TypeOK
<1>2. effect[e] \in [status : {"committed", "failed", "unknown", "pruned"},
                     call : Call, target : Effect \cup {None}, holder : {None},
                     proof : Provider \cup {None}]
  BY <1>1 DEF Reconcile, Effects, AbsentEffect
<1>3. new = [status |-> r, call |-> effect[e].call, target |-> effect[e].target,
             holder |-> None, proof |-> effect[e].proof]
  BY <1>2
<1>4. effect' \in [Effect -> Effects]
  <2>1. new \in Effects
    BY <1>2, <1>3 DEF Effects
  <2> QED BY <2>1, <1>1 DEF IInv, TypeOK
<1>5. /\ effect'[e] = new
      /\ \A f \in Effect \ {e} : effect'[f] = effect[f]
  BY <1>1 DEF IInv, TypeOK
<1>6. \A f \in Effect :
        /\ effect'[f].call = effect[f].call
        /\ effect'[f].target = effect[f].target
        /\ \/ effect'[f].status = effect[f].status
           \/ /\ effect[f].status \in {"executing", "unknown"}
              /\ \/ effect'[f].status = "committed" /\ f \in applied
                 \/ /\ effect'[f].status = "failed"
                    /\ f \notin applied \cup outstanding
  <2>1. new.call = effect[e].call /\ new.target = effect[e].target /\ new.status = r
    BY <1>3
  <2>2. effect[e].status = "unknown"
    BY DEF Reconcile
  <2> QED BY <2>1, <2>2, <1>5 DEF OperatorIsRight
<1>7. /\ active' \in [Pid -> SUBSET Effect] /\ up' \in [Pid -> BOOLEAN]
      /\ usedPid' \subseteq Pid /\ UNCHANGED <<identity, world>>
  BY DEF Reconcile, IInv, TypeOK
<1> QED BY <1>4, <1>6, <1>7, SettlingKeepsIInv

\* Recovery settles orphans as unknown and deletes only Effects that hold no
\* identity.
LEMMA StartKeepsIInv ==
  ASSUME IInv, NEW p \in Pid, Start(p)
  PROVE  IInv'
<1> USE NoneAssumption
<1>1. PICK foreign \in SUBSET Pid, old \in SUBSET {e \in Effect : Prunable(e)} :
        effect' = [e \in Effect |->
          IF e \in old THEN [effect[e] EXCEPT !.status = "pruned"]
          ELSE IF Orphan(p, e, foreign \cup {q \in Pid : up[q]})
               THEN Settled(e, "unknown", None) ELSE effect[e]]
  BY DEF Start, IInv, TypeOK
<1>2. \A e \in Effect : effect[e] \in Effects
  BY DEF IInv, TypeOK
<1>3. \A e \in old :
        /\ e \in Effect
        /\ effect[e].status \in {"committed", "failed"}
        /\ \A i \in Identity : identity[i] # e
        /\ effect'[e].status = "pruned"
        /\ effect'[e].call = effect[e].call
        /\ effect'[e].target = effect[e].target
        /\ effect'[e] \in Effects
  <2> SUFFICES ASSUME NEW e \in old
               PROVE  /\ e \in Effect
                      /\ effect[e].status \in {"committed", "failed"}
                      /\ \A i \in Identity : identity[i] # e
                      /\ effect'[e].status = "pruned"
                      /\ effect'[e].call = effect[e].call
                      /\ effect'[e].target = effect[e].target
                      /\ effect'[e] \in Effects
    OBVIOUS
  <2>1. /\ e \in Effect
        /\ effect[e].status \in {"committed", "failed"}
        /\ \A i \in Identity : identity[i] # e
    BY DEF Prunable
  <2>2. effect[e] \in [status : {"committed", "failed", "unknown", "pruned"},
                       call : Call, target : Effect \cup {None},
                       holder : {None}, proof : Provider \cup {None}]
    BY <1>2, <2>1 DEF Effects, AbsentEffect
  <2>3. effect'[e] = [status |-> "pruned", call |-> effect[e].call,
                      target |-> effect[e].target, holder |-> None,
                      proof |-> effect[e].proof]
    BY <1>1, <2>1, <2>2
  <2> QED BY <2>1, <2>2, <2>3 DEF Effects
<1>4. \A e \in Effect \ old :
        /\ effect'[e] \in Effects
        /\ effect'[e].call = effect[e].call
        /\ effect'[e].target = effect[e].target
        /\ \/ effect'[e].status = effect[e].status
           \/ effect[e].status = "executing" /\ effect'[e].status = "unknown"
  BY <1>1, <1>2, SettledType
<1>5. identity' = identity
  <2>1. \A i \in Identity : identity[i] # None => effect'[identity[i]].status # "pruned"
    <3> SUFFICES ASSUME NEW i \in Identity, NEW e \in Effect, identity[i] = e
                 PROVE  effect'[e].status # "pruned"
      BY DEF IInv, TypeOK
    <3>1. e \notin old /\ effect[e].status # "pruned"
      BY <1>3 DEF IInv, RowsAreRight
    <3> QED BY <3>1, <1>4
  <2>2. identity' = [i \in Identity |->
          IF identity[i] # None /\ effect'[identity[i]].status = "pruned"
          THEN None ELSE identity[i]]
    BY DEF Start
  <2> QED BY <2>1, <2>2 DEF IInv, TypeOK
<1>6. TypeOK'
  <2>1. effect' \in [Effect -> Effects]
    BY <1>1, <1>3, <1>4
  <2> QED BY <2>1, <1>5 DEF Start, IInv, TypeOK, world
<1>7. \A e \in Effect : Identities(e)' = Identities(e)
  BY <1>3, <1>4 DEF Identities
<1>8. RowsAreRight'
  BY <1>3, <1>4, <1>5, <1>7 DEF IInv, RowsAreRight
<1>9. LiveHoldsIdentities'
  BY <1>3, <1>4, <1>5, <1>7 DEF IInv, LiveHoldsIdentities, Live
<1>10. applied' = applied /\ outstanding' = outstanding
  BY DEF Start, world
<1>11. RecordIsTrue'
  BY <1>3, <1>4, <1>10 DEF IInv, RecordIsTrue
<1>12. GoneIsHarmless'
  <2> SUFFICES ASSUME NEW e \in Effect,
                      \/ effect'[e].status = "absent"
                      \/ effect'[e].status = "pruned" /\ Identities(e) # {}
               PROVE  e \notin applied \cup outstanding
    BY <1>7, <1>10 DEF GoneIsHarmless
  <2>1. CASE e \notin old
    BY <2>1, <1>4 DEF IInv, GoneIsHarmless
  <2>2. CASE e \in old
    <3>1. Identities(e) # {}
      BY <2>2, <1>3
    <3>2. PICK i \in Identities(e) : TRUE
      BY <3>1
    <3>3. i \in Identity
      <4>1. effect[e].call \in Call /\ effect[e].target \in Effect \cup {None}
        BY <2>2, <1>2, <1>3, RecordedType
      <4>2. Identities(e) = IdentitiesOf(effect[e].call, effect[e].target)
        BY <2>2, <1>3 DEF Identities
      <4> QED BY <3>2, <4>1, <4>2, IdentitiesOfType
    <3>4. effect[e].status = "failed"
      BY <2>2, <1>3, <3>3, <3>2 DEF IInv, LiveHoldsIdentities, Live
    <3> QED BY <3>4 DEF IInv, RecordIsTrue
  <2> QED BY <2>1, <2>2
<1> QED BY <1>6, <1>8, <1>9, <1>11, <1>12 DEF IInv

\* A crash loses the process's memory, never a record.
LEMMA CrashKeepsIInv ==
  ASSUME IInv, NEW p \in Pid, Crash(p)
  PROVE  IInv'
<1>1. /\ active' \in [Pid -> SUBSET Effect] /\ up' \in [Pid -> BOOLEAN]
      /\ usedPid' \subseteq Pid /\ UNCHANGED <<identity, world>>
      /\ effect' = effect /\ effect' \in [Effect -> Effects]
  BY DEF Crash, IInv, TypeOK
<1> QED BY <1>1, SettlingKeepsIInv

\* The world acts only on what is outstanding.
LEMMA WorldKeepsIInv ==
  ASSUME IInv, NEW e \in Effect, Apply(e) \/ Fizzle(e)
  PROVE  IInv'
<1>1. \A f \in Effect : Identities(f)' = Identities(f)
  BY DEF Apply, Fizzle, Identities
<1>2. TypeOK'
  BY DEF Apply, Fizzle, IInv, TypeOK
<1>3. RowsAreRight' /\ LiveHoldsIdentities'
  BY <1>1 DEF Apply, Fizzle, IInv, RowsAreRight, LiveHoldsIdentities
<1>4. RecordIsTrue' /\ GoneIsHarmless'
  BY <1>1 DEF Apply, Fizzle, IInv, RecordIsTrue, GoneIsHarmless
<1> QED BY <1>2, <1>3, <1>4 DEF IInv

\* Every step keeps the invariant: one step per action of Next.
LEMMA NextIInv == IInv /\ [Next]_vars => IInv'
<1> SUFFICES ASSUME IInv, [Next]_vars PROVE IInv'
  OBVIOUS
<1>1. ASSUME NEW p \in Pid, BeginSome(p) PROVE IInv'
  BY <1>1, BeginKeepsIInv DEF BeginSome
<1>2. ASSUME NEW p \in Pid, FinishSome(p) PROVE IInv'
  BY <1>2, FinishKeepsIInv DEF FinishSome
<1>3. ASSUME NEW p \in Pid, InterruptSome(p) PROVE IInv'
  <2>1. PICK c \in Call : InterruptTask(p, c.task)
    BY <1>3 DEF InterruptSome
  <2>2. {e \in active[p] : effect[e].call.task = c.task} \in SUBSET Effect
    BY DEF IInv, TypeOK
  <2> QED BY <2>1, <2>2, InterruptKeepsIInv DEF InterruptTask, IInv, TypeOK
<1>4. ASSUME NEW p \in Pid, ReconcileSome(p) PROVE IInv'
  BY <1>4, ReconcileKeepsIInv DEF ReconcileSome
<1>5. ASSUME NEW p \in Pid, Start(p) PROVE IInv'
  BY <1>5, StartKeepsIInv
<1>6. ASSUME NEW p \in Pid, Close(p) PROVE IInv'
  <2>1. active[p] \in SUBSET Effect /\ up' \in [Pid -> BOOLEAN]
    BY <1>6 DEF Close, IInv, TypeOK
  <2> QED BY <1>6, <2>1, InterruptKeepsIInv DEF Close, IInv, TypeOK
<1>7. ASSUME NEW p \in Pid, Crash(p) PROVE IInv'
  BY <1>7, CrashKeepsIInv
<1>8. ASSUME NEW e \in Effect, Apply(e) \/ Fizzle(e) PROVE IInv'
  BY <1>8, WorldKeepsIInv
<1>9. CASE UNCHANGED vars
  BY <1>9, SettlingKeepsIInv DEF vars, IInv, TypeOK, world
<1> QED BY <1>1, <1>2, <1>3, <1>4, <1>5, <1>6, <1>7, <1>8, <1>9 DEF Next

\* IInv holds in every reachable state.
THEOREM Inductive == Spec => []IInv
<1>1. Init => IInv
  BY InitIInv
<1>2. IInv /\ [Next]_vars => IInv'
  BY NextIInv
<1> QED BY <1>1, <1>2, PTL DEF Spec

\* The tables and the process-local maps keep their types.
THEOREM TypeCorrect == Spec => []TypeOK
<1>1. IInv => TypeOK
  BY DEF IInv
<1> QED BY <1>1, Inductive, PTL

\* The durable record never lies about the outside world.
THEOREM RecordIsAlwaysTrue == Spec => []RecordIsTrue
<1>1. IInv => RecordIsTrue
  BY DEF IInv
<1> QED BY <1>1, Inductive, PTL

\* Two Effects that share an identity never both change the world: neither is
\* gone or failed, so both hold the identity they share, which has one holder.
LEMMA IInvAtMostOnce == IInv => AtMostOnce
<1> SUFFICES ASSUME IInv, NEW e \in Effect, NEW f \in Effect, e # f,
                    e \in applied, f \in applied, SameMutation(e, f)
             PROVE  FALSE
  BY DEF AtMostOnce
<1>1. /\ effect[e].status # "absent" /\ effect[f].status # "absent"
      /\ effect[e] \in Effects /\ effect[f] \in Effects
  BY DEF IInv, GoneIsHarmless, TypeOK
<1>2. PICK i : i \in Identities(e) /\ i \in Identities(f)
  BY <1>1 DEF SameMutation, Identities, IdentitiesOf, KeyIdentity,
              CompensationIdentity
<1>3. ASSUME NEW g \in Effect, g \in applied, i \in Identities(g)
      PROVE  identity[i] = g
  <2>1. effect[g].status \in Live
    <3>1. effect[g].status \notin {"absent", "pruned", "failed"}
      BY <1>3 DEF IInv, GoneIsHarmless, RecordIsTrue
    <3>2. effect[g] \in Effects
      BY DEF IInv, TypeOK
    <3> QED BY <3>1, <3>2 DEF Effects, AbsentEffect, Live
  <2> QED BY <1>3, <2>1 DEF IInv, LiveHoldsIdentities
<1> QED BY <1>2, <1>3

\* Committed mutations are never duplicated.
THEOREM NeverDuplicated == Spec => []AtMostOnce
BY Inductive, IInvAtMostOnce, PTL

\* A Task Run whose mutation took place, or may still, is not replayed.
THEOREM NeverReplayed == Spec => []ReplayNeverRepeats
<1>1. IInv => ReplayNeverRepeats
  <2> SUFFICES ASSUME IInv, NEW e \in applied \cup outstanding, Recorded(e),
                      effect[e].call.run # None
               PROVE  ReplayBlocked(effect[e].call.run)
    BY DEF ReplayNeverRepeats
  <2>1. e \in Effect /\ effect[e] \in Effects
    BY DEF IInv, TypeOK
  <2>2. effect[e].status \in {"executing", "unknown", "committed"}
    BY <2>1 DEF IInv, RecordIsTrue, Recorded, Effects, AbsentEffect
  <2> QED BY <2>1, <2>2 DEF ReplayBlocked
<1> QED BY <1>1, Inductive, PTL

-----------------------------------------------------------------------------
(* Action properties.                                                      *)

\* How a step may change the status of an Effect and who awaits it.
StatusStep(e) ==
  effect[e].status \in {"committed", "failed"}
    => effect'[e].status \in {effect[e].status, "pruned"}

LEMMA StatusSteps ==
  ASSUME IInv, [Next]_vars, NEW e \in Effect
  PROVE  StatusStep(e)
<1> USE DEF StatusStep
<1> effect[e] \in Effects
  BY DEF IInv, TypeOK
<1>1. ASSUME NEW p \in Pid, BeginSome(p) PROVE StatusStep(e)
  BY <1>1 DEF BeginSome, Begin, IInv, TypeOK
<1>2. ASSUME NEW p \in Pid, FinishSome(p) PROVE StatusStep(e)
  BY <1>2 DEF FinishSome, Finish, Settled, IInv, TypeOK
<1>3. ASSUME NEW p \in Pid, NEW E \in SUBSET Effect, Interrupt(p, E)
      PROVE StatusStep(e)
  BY <1>3 DEF Interrupt, Settled
<1>4. ASSUME NEW p \in Pid, ReconcileSome(p) PROVE StatusStep(e)
  BY <1>4 DEF ReconcileSome, Reconcile, IInv, TypeOK
<1>5. ASSUME NEW p \in Pid, Start(p) PROVE StatusStep(e)
  <2>1. PICK old \in SUBSET {f \in Effect : Prunable(f)}, alive \in SUBSET Pid :
          effect'[e] = IF e \in old THEN [effect[e] EXCEPT !.status = "pruned"]
                       ELSE IF Orphan(p, e, alive)
                            THEN Settled(e, "unknown", None) ELSE effect[e]
    BY <1>5 DEF Start, IInv, TypeOK
  <2>2. CASE e \in old
    <3>1. effect'[e] = [effect[e] EXCEPT !.status = "pruned"]
      BY <2>1, <2>2
    <3>2. effect[e].status \in {"committed", "failed"}
      BY <2>2 DEF Prunable
    <3>3. effect[e] \in [status : {"committed", "failed", "unknown", "pruned"},
                         call : Call, target : Effect \cup {None},
                         holder : {None}, proof : Provider \cup {None}]
      BY <3>2 DEF Effects, AbsentEffect
    <3>4. effect'[e].status = "pruned"
      BY <3>1, <3>3
    <3> QED BY <3>4
  <2>3. CASE e \notin old
    BY <2>1, <2>3 DEF Orphan, Settled
  <2> QED BY <2>2, <2>3
<1>6. ASSUME UNCHANGED effect PROVE StatusStep(e)
  BY <1>6
<1> QED
  <2>1. ASSUME NEW p \in Pid, InterruptSome(p) PROVE StatusStep(e)
    <3>1. PICK c \in Call : InterruptTask(p, c.task)
      BY <2>1 DEF InterruptSome
    <3>2. {f \in active[p] : effect[f].call.task = c.task} \in SUBSET Effect
      BY DEF IInv, TypeOK
    <3> QED BY <3>1, <3>2, <1>3 DEF InterruptTask
  <2>2. ASSUME NEW p \in Pid, Close(p) PROVE StatusStep(e)
    BY <2>2, <1>3 DEF Close, IInv, TypeOK
  <2>3. ASSUME NEW p \in Pid, Crash(p) PROVE StatusStep(e)
    BY <2>3, <1>6 DEF Crash
  <2>4. ASSUME NEW f \in Effect, Apply(f) \/ Fizzle(f) PROVE StatusStep(e)
    BY <2>4, <1>6 DEF Apply, Fizzle
  <2> QED BY <1>1, <1>2, <1>4, <1>5, <1>6, <2>1, <2>2, <2>3, <2>4 DEF Next, vars

\* A committed or failed outcome is never rewritten.
THEOREM OutcomeIsFinal == Spec => FinalOutcome
<1>1. IInv /\ [Next]_vars =>
        [\A e \in Effect :
           effect[e].status \in {"committed", "failed"}
             => effect'[e].status \in {effect[e].status, "pruned"}]_vars
  BY StatusSteps DEF StatusStep
<1> QED BY <1>1, Inductive, PTL DEF Spec, FinalOutcome

-----------------------------------------------------------------------------
(* Inverse actions.                                                        *)

\* The Effect an inverse action undoes took place, is no inverse action and
\* belongs to the same owner; it stays committed, or is deleted, for good.
CompensationsStand ==
  \A e \in Effect : effect[e].target # None =>
    LET t == effect[e].target IN
    /\ effect[t].status \in {"committed", "pruned"}
    /\ t \in applied
    /\ effect[t].target = None
    /\ effect[t].call.owner = effect[e].call.owner

\* A step either begins e or leaves its call and its target alone; a committed
\* Effect is at most deleted, and a deleted one stays deleted.
LEMMA RecordStep ==
  ASSUME IInv, [Next]_vars, NEW e \in Effect
  PROVE  \/ /\ effect[e].status = "absent"
            /\ effect'[e].target # None =>
                 LET t == effect'[e].target IN
                 /\ t \in Effect \ {e}
                 /\ effect[t].status = "committed"
                 /\ effect[t].target = None
                 /\ effect[t].call.owner = effect'[e].call.owner
         \/ /\ effect'[e].call = effect[e].call
            /\ effect'[e].target = effect[e].target
            /\ effect[e].status = "pruned" => effect'[e].status = "pruned"
<1> DEFINE Begun ==
             /\ effect[e].status = "absent"
             /\ effect'[e].target # None =>
                  LET t == effect'[e].target IN
                  /\ t \in Effect \ {e}
                  /\ effect[t].status = "committed"
                  /\ effect[t].target = None
                  /\ effect[t].call.owner = effect'[e].call.owner
           Kept ==
             /\ effect'[e].call = effect[e].call
             /\ effect'[e].target = effect[e].target
             /\ effect[e].status = "pruned" => effect'[e].status = "pruned"
<1> effect \in [Effect -> Effects] /\ effect[e] \in Effects
  BY DEF IInv, TypeOK
<1>1. ASSUME NEW p \in Pid, BeginSome(p) PROVE Begun \/ Kept
  <2>1. PICK f \in Effect, c \in Call, t \in Effect \cup {None} : Begin(p, f, c, t)
    BY <1>1 DEF BeginSome
  <2>2. /\ effect[f].status = "absent"
        /\ effect' = [effect EXCEPT ![f] =
             [status |-> "executing", call |-> c, target |-> t, holder |-> p,
              proof |-> None]]
        /\ t # None => MayCompensate(c, t)
    BY <2>1 DEF Begin
  <2>3. CASE f # e
    BY <2>2, <2>3
  <2>4. CASE f = e
    <3>1. effect'[e].call = c /\ effect'[e].target = t
      BY <2>2, <2>4
    <3> QED BY <2>2, <2>4, <3>1 DEF MayCompensate
  <2> QED BY <2>3, <2>4
<1>2. ASSUME NEW p \in Pid, FinishSome(p) PROVE Kept
  BY <1>2 DEF FinishSome, Finish, Settled, Effects, AbsentEffect
<1>3. ASSUME NEW p \in Pid, NEW E \in SUBSET Effect, Interrupt(p, E)
      PROVE Kept
  BY <1>3, InterruptStep
<1>4. ASSUME NEW p \in Pid, ReconcileSome(p) PROVE Kept
  BY <1>4 DEF ReconcileSome, Reconcile, Effects, AbsentEffect
<1>5. ASSUME NEW p \in Pid, Start(p) PROVE Kept
  <2>1. PICK old \in SUBSET {f \in Effect : Prunable(f)}, alive \in SUBSET Pid :
          effect'[e] = IF e \in old THEN [effect[e] EXCEPT !.status = "pruned"]
                       ELSE IF Orphan(p, e, alive)
                            THEN Settled(e, "unknown", None) ELSE effect[e]
    BY <1>5 DEF Start, IInv, TypeOK
  <2>2. CASE e \in old
    <3>1. effect'[e] = [effect[e] EXCEPT !.status = "pruned"]
      BY <2>1, <2>2
    <3>2. effect[e] \in [status : {"committed", "failed", "unknown", "pruned"},
                         call : Call, target : Effect \cup {None},
                         holder : {None}, proof : Provider \cup {None}]
      BY <2>2 DEF Prunable, Effects, AbsentEffect
    <3> QED BY <3>1, <3>2
  <2>3. CASE e \notin old
    BY <2>1, <2>3, SettledType DEF Orphan
  <2> QED BY <2>2, <2>3
<1>6. ASSUME UNCHANGED effect PROVE Kept
  BY <1>6
<1>7. Begun \/ Kept
  <2> HIDE DEF Begun, Kept
  <2>1. ASSUME NEW p \in Pid, InterruptSome(p) PROVE Kept
    <3>1. PICK c \in Call : InterruptTask(p, c.task)
      BY <2>1 DEF InterruptSome
    <3>2. {f \in active[p] : effect[f].call.task = c.task} \in SUBSET Effect
      BY DEF IInv, TypeOK
    <3> QED BY <3>1, <3>2, <1>3 DEF InterruptTask
  <2>2. ASSUME NEW p \in Pid, Close(p) PROVE Kept
    BY <2>2, <1>3 DEF Close, IInv, TypeOK
  <2>3. ASSUME NEW p \in Pid, Crash(p) PROVE Kept
    BY <2>3, <1>6 DEF Crash
  <2>4. ASSUME NEW f \in Effect, Apply(f) \/ Fizzle(f) PROVE Kept
    BY <2>4, <1>6 DEF Apply, Fizzle
  <2> QED BY <1>1, <1>2, <1>4, <1>5, <1>6, <2>1, <2>2, <2>3, <2>4 DEF Next, vars
<1> QED BY <1>7

\* What took place stays in the record of the outside world.
LEMMA AppliedStep ==
  ASSUME [Next]_vars
  PROVE  applied \subseteq applied'
BY DEF Next, vars, world, BeginSome, Begin, FinishSome, Finish, InterruptSome,
       InterruptTask, ReconcileSome, Reconcile, Start, Close, Crash, Apply, Fizzle

LEMMA CompensationStep ==
  ASSUME IInv, CompensationsStand, [Next]_vars
  PROVE  CompensationsStand'
<1> USE NoneAssumption
<1> SUFFICES ASSUME NEW e \in Effect, NEW t, t = effect'[e].target, t # None
             PROVE  /\ effect'[t].status \in {"committed", "pruned"}
                    /\ t \in applied'
                    /\ effect'[t].target = None
                    /\ effect'[t].call.owner = effect'[e].call.owner
  BY DEF CompensationsStand
<1>1. /\ t \in Effect
      /\ effect[t].status \in {"committed", "pruned"}
      /\ t \in applied
      /\ effect[t].target = None
      /\ effect[t].call.owner = effect'[e].call.owner
  <2>1. CASE /\ effect'[e].call = effect[e].call
             /\ effect'[e].target = effect[e].target
    <3>1. effect[e].target = t
      BY <2>1
    <3>2. t \in Effect
      BY <3>1 DEF IInv, TypeOK, Effects, AbsentEffect
    <3> QED BY <2>1, <3>1, <3>2 DEF CompensationsStand
  <2>2. CASE /\ t \in Effect \ {e}
             /\ effect[t].status = "committed"
             /\ effect[t].target = None
             /\ effect[t].call.owner = effect'[e].call.owner
    BY <2>2 DEF IInv, RecordIsTrue
  <2> QED BY <2>1, <2>2, RecordStep
<1>2. /\ effect'[t].call = effect[t].call
      /\ effect'[t].target = effect[t].target
      /\ effect[t].status = "pruned" => effect'[t].status = "pruned"
  BY <1>1, RecordStep
<1>3. effect'[t].status \in {"committed", "pruned"}
  BY <1>1, <1>2, StatusSteps DEF StatusStep
<1> QED BY <1>1, <1>2, <1>3, AppliedStep

\* An inverse action is only ever started for a mutation that took place, in
\* the scope of the same owner, and never for an inverse action.
THEOREM InverseOfCommitted == Spec => []CompensatesCommitted
<1>1. Init => CompensationsStand
  BY DEF Init, CompensationsStand, AbsentEffect
<1>2. IInv /\ CompensationsStand /\ [Next]_vars => CompensationsStand'
  BY CompensationStep
<1>3. CompensationsStand => CompensatesCommitted
  BY DEF CompensationsStand, CompensatesCommitted
<1> QED BY <1>1, <1>2, <1>3, Inductive, PTL DEF Spec

-----------------------------------------------------------------------------
(* Orphans.                                                                *)

\* An executing Effect was begun by a process that has existed and, while that
\* process runs, is awaited by it.
HolderAwaits ==
  /\ \A p \in Pid : up[p] => p \in usedPid
  /\ \A e \in Effect : effect[e].status = "executing" =>
       /\ effect[e].holder \in usedPid
       /\ up[effect[e].holder] => e \in active[effect[e].holder]

\* Without reuse of process ids a start leaves only the Effects of running
\* processes executing.
LEMMA StartStep ==
  ASSUME IInv, ~PidReuse, NEW p \in Pid, Start(p)
  PROVE  \A e \in Effect : effect'[e].status = "executing" =>
           /\ effect'[e] = effect[e]
           /\ effect[e].holder = p \/ up[effect[e].holder]
<1> SUFFICES ASSUME NEW e \in Effect, effect'[e].status = "executing"
             PROVE  /\ effect'[e] = effect[e]
                    /\ effect[e].holder = p \/ up[effect[e].holder]
  OBVIOUS
<1> effect[e] \in Effects
  BY DEF IInv, TypeOK
<1>1. PICK old \in SUBSET {f \in Effect : Prunable(f)} :
        effect'[e] = IF e \in old THEN [effect[e] EXCEPT !.status = "pruned"]
                     ELSE IF Orphan(p, e, {q \in Pid : up[q]})
                          THEN Settled(e, "unknown", None) ELSE effect[e]
  BY DEF Start
<1>2. e \notin old
  <2> SUFFICES ASSUME e \in old PROVE FALSE
    OBVIOUS
  <2>1. effect[e].status \in {"committed", "failed"}
    BY DEF Prunable
  <2>2. effect[e] \in [status : {"committed", "failed", "unknown", "pruned"},
                       call : Call, target : Effect \cup {None},
                       holder : {None}, proof : Provider \cup {None}]
    BY <2>1 DEF Effects, AbsentEffect
  <2> QED BY <1>1, <2>2
<1>3. ~Orphan(p, e, {q \in Pid : up[q]})
  BY <1>1, <1>2, SettledType DEF Orphan
<1> QED BY <1>1, <1>2, <1>3 DEF Orphan

\* An Effect that is executing after a step was executing before, with the same
\* holder, or was just begun.
LEMMA HolderStep ==
  ASSUME IInv, HolderAwaits, ~PidReuse, [Next]_vars
  PROVE  HolderAwaits'
<1> USE NoneAssumption
<1> SUFFICES
      /\ \A p \in Pid : up'[p] => p \in usedPid'
      /\ \A e \in Effect : effect'[e].status = "executing" =>
           /\ effect'[e].holder \in usedPid'
           /\ up'[effect'[e].holder] => e \in active'[effect'[e].holder]
  BY DEF HolderAwaits
<1> DEFINE Holds ==
      \A e \in Effect : effect'[e].status = "executing" =>
           /\ effect'[e].holder \in usedPid'
           /\ up'[effect'[e].holder] => e \in active'[effect'[e].holder]
<1>1. \A p \in Pid : up'[p] => p \in usedPid'
  <2>1. CASE UNCHANGED <<up, usedPid>>
    BY <2>1 DEF HolderAwaits
  <2>2. ASSUME NEW p \in Pid, Start(p) PROVE \A q \in Pid : up'[q] => q \in usedPid'
    BY <2>2 DEF Start, HolderAwaits, IInv, TypeOK
  <2>3. ASSUME NEW p \in Pid, Close(p) \/ Crash(p)
        PROVE \A q \in Pid : up'[q] => q \in usedPid'
    BY <2>3 DEF Close, Crash, HolderAwaits, IInv, TypeOK
  <2>4. ASSUME NEW p \in Pid,
               BeginSome(p) \/ FinishSome(p) \/ InterruptSome(p) \/ ReconcileSome(p)
        PROVE UNCHANGED <<up, usedPid>>
    BY <2>4 DEF BeginSome, Begin, FinishSome, Finish, InterruptSome,
                InterruptTask, ReconcileSome, Reconcile
  <2>5. ASSUME NEW e \in Effect, Apply(e) \/ Fizzle(e)
        PROVE UNCHANGED <<up, usedPid>>
    BY <2>5 DEF Apply, Fizzle
  <2> QED BY <2>1, <2>2, <2>3, <2>4, <2>5 DEF Next, vars
<1>2. \A e \in Effect : effect[e] \in Effects
  BY DEF IInv, TypeOK
<1>3. \A e \in Effect : effect[e].status = "executing" => effect[e].holder \in Pid
  BY <1>2 DEF Effects, AbsentEffect
<1>4. ASSUME NEW p \in Pid, BeginSome(p) PROVE Holds
  BY <1>3, <1>4 DEF BeginSome, Begin, HolderAwaits, IInv, TypeOK
<1>5. ASSUME NEW p \in Pid, FinishSome(p) PROVE Holds
  <2>1. PICK e \in Effect, isError \in BOOLEAN, proof \in Provider \cup {None} :
          Finish(p, e, isError, proof)
    BY <1>5 DEF FinishSome
  <2>2. effect'[e].status # "executing"
    <3>1. PICK s \in {"committed", "unknown"}, q \in Provider \cup {None} :
            effect' = [effect EXCEPT ![e] = Settled(e, s, q)]
      BY <2>1 DEF Finish
    <3> QED BY <3>1, <1>2, SettledType DEF IInv, TypeOK
  <2>3. /\ \A f \in Effect \ {e} : effect'[f] = effect[f]
        /\ active' = [active EXCEPT ![p] = @ \ {e}]
        /\ up' = up /\ usedPid' = usedPid
    BY <2>1 DEF Finish, IInv, TypeOK
  <2> QED BY <2>2, <2>3, <1>3 DEF HolderAwaits, IInv, TypeOK
<1>6. ASSUME NEW p \in Pid, NEW E \in SUBSET Effect, Interrupt(p, E),
             usedPid' = usedPid, \A q \in Pid : up'[q] => up[q]
      PROVE  Holds
  <2>1. \A e \in E : effect'[e].status # "executing"
    BY <1>2, <1>6, SettledType DEF Interrupt
  <2>2. \A e \in Effect \ E : effect'[e] = effect[e]
    BY <1>6 DEF Interrupt
  <2>3. active' = [active EXCEPT ![p] = @ \ E]
    BY <1>6 DEF Interrupt
  <2> QED BY <2>1, <2>2, <2>3, <1>3, <1>6 DEF HolderAwaits, IInv, TypeOK
<1>7. ASSUME NEW p \in Pid, ReconcileSome(p) PROVE Holds
  BY <1>7 DEF ReconcileSome, Reconcile, HolderAwaits, IInv, TypeOK
<1>8. ASSUME NEW p \in Pid, Start(p) PROVE Holds
  <2>1. /\ p \notin usedPid /\ active' = active
        /\ up' = [up EXCEPT ![p] = TRUE] /\ usedPid' = usedPid \cup {p}
    BY <1>8 DEF Start
  <2>2. \A e \in Effect : effect'[e].status = "executing" => effect'[e] = effect[e]
    BY <1>8, StartStep
  <2> QED BY <2>1, <2>2, <1>3 DEF HolderAwaits, IInv, TypeOK
<1>9. ASSUME NEW p \in Pid, Crash(p) PROVE Holds
  BY <1>9, <1>3 DEF Crash, HolderAwaits, IInv, TypeOK
<1>10. ASSUME UNCHANGED <<effect, active, up, usedPid>> PROVE Holds
  BY <1>10 DEF HolderAwaits
<1>11. Holds
  <2>1. ASSUME NEW p \in Pid, InterruptSome(p) PROVE Holds
    <3>1. PICK c \in Call : InterruptTask(p, c.task)
      BY <2>1 DEF InterruptSome
    <3>2. {e \in active[p] : effect[e].call.task = c.task} \in SUBSET Effect
      BY DEF IInv, TypeOK
    <3> QED BY <3>1, <3>2, <1>6 DEF InterruptTask
  <2>2. ASSUME NEW p \in Pid, Close(p) PROVE Holds
    BY <2>2, <1>6 DEF Close, IInv, TypeOK
  <2>3. ASSUME NEW e \in Effect, Apply(e) \/ Fizzle(e) PROVE Holds
    BY <2>3, <1>10 DEF Apply, Fizzle
  <2> QED BY <1>4, <1>5, <1>7, <1>8, <1>9, <1>10, <2>1, <2>2, <2>3 DEF Next, vars
<1> QED BY <1>1, <1>11

\* When process ids are not reused, a start leaves no orphan executing.
THEOREM OrphansRecovered ==
  ASSUME ~PidReuse
  PROVE  Spec => StartRecoversOrphans
<1>1. Init => HolderAwaits
  BY DEF Init, HolderAwaits, AbsentEffect
<1>2. IInv /\ HolderAwaits /\ [Next]_vars => HolderAwaits'
  BY HolderStep
<1>3. IInv /\ HolderAwaits /\ [Next]_vars =>
        [\A p \in Pid :
           (~up[p] /\ up'[p])
             => \A e \in Effect : effect'[e].status = "executing"
                  => \E q \in Pid : up'[q] /\ e \in active'[q]]_vars
  <2> SUFFICES ASSUME IInv, HolderAwaits, [Next]_vars, NEW p \in Pid,
                      ~up[p], up'[p], NEW e \in Effect,
                      effect'[e].status = "executing"
               PROVE  \E q \in Pid : up'[q] /\ e \in active'[q]
    OBVIOUS
  <2>1. Start(p)
    <3>1. ASSUME NEW q \in Pid, Start(q) PROVE q = p
      BY <3>1 DEF Start, IInv, TypeOK
    <3>2. ASSUME NEW q \in Pid, Close(q) \/ Crash(q) PROVE FALSE
      BY <3>2 DEF Close, Crash, IInv, TypeOK
    <3>3. ASSUME NEW q \in Pid,
                 BeginSome(q) \/ FinishSome(q) \/ InterruptSome(q) \/ ReconcileSome(q)
          PROVE FALSE
      BY <3>3 DEF BeginSome, Begin, FinishSome, Finish, InterruptSome,
                  InterruptTask, ReconcileSome, Reconcile
    <3>4. ASSUME NEW f \in Effect, Apply(f) \/ Fizzle(f) PROVE FALSE
      BY <3>4 DEF Apply, Fizzle
    <3> QED BY <3>1, <3>2, <3>3, <3>4 DEF Next, vars
  <2>2. /\ effect'[e] = effect[e]
        /\ effect[e].holder = p \/ up[effect[e].holder]
    BY <2>1, StartStep
  <2>3. effect[e].holder \in Pid
    <3>1. effect[e] \in Effects
      BY DEF IInv, TypeOK
    <3> QED BY <3>1, <2>2 DEF Effects, AbsentEffect
  <2>4. /\ p \notin usedPid /\ active' = active
        /\ up' = [up EXCEPT ![p] = TRUE]
    BY <2>1 DEF Start
  <2>5. up[effect[e].holder] /\ e \in active[effect[e].holder]
    BY <2>2, <2>3, <2>4 DEF HolderAwaits
  <2> QED BY <2>3, <2>4, <2>5 DEF IInv, TypeOK
<1> QED BY <1>1, <1>2, <1>3, Inductive, PTL DEF Spec, StartRecoversOrphans
=============================================================================
