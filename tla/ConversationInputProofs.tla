----------------------- MODULE ConversationInputProofs -----------------------
(***************************************************************************)
(* Proofs about the inputs of a conversation, for any number of messages,   *)
(* any limit of the queue and any faults.                                   *)
(*                                                                         *)
(* Whoever is at the admission gate waits there once, and only its first    *)
(* actor is inside (GateIsRight).  A live turn that nobody disturbed keeps  *)
(* the phase busy; so an actor that read a quiet phase inside the gate met  *)
(* none, and although the code awaits, it meets none when its own turn      *)
(* starts: whoever starts a turn passes the gate (TurnsAreRight).           *)
(***************************************************************************)
EXTENDS ConversationInput, QueueProofs, FiniteSetTheorems

Inside == {"busy", "free", "offer", "start", "giveback"}
AtGate == Inside \cup {"waiting", "draining"}
InTurn == {"running", "aborted"}
Pcs == AtGate \cup InTurn
       \cup {"new", "done", "retry", "planning", "starting", "finished", "settling", "present", "fail"}

\* A message is not in the queue before its handler puts it there.
Before == {"new", "waiting", "busy", "free"}

ActorRecords == [pc : Pcs, id : Actor, token : Nat, drains : BOOLEAN, ok : BOOLEAN]

Ids(s) == {s[k].id : k \in DOMAIN s}
StoreSound(s) ==
  /\ s \in Seq(RecordsOf(Message))
  /\ \A k, l \in DOMAIN s : s[k].id = s[l].id => k = l

Typed ==
  /\ used \in [Message -> Nat] /\ held \in [Message -> Nat]
  /\ phase \in {"idle", "running", "queued", "ended"}
  /\ native \subseteq Message /\ primary \subseteq Message
  /\ session \in Actor \cup {None}
  /\ actor \in [Actor -> ActorRecords]

GateIsRight ==
  /\ gate \in Seq(Actor) /\ Distinct(gate)
  /\ Entries(gate) = {a \in Actor : actor[a].pc \in AtGate}
  /\ \A a \in Actor : actor[a].pc \in Inside => gate # <<>> /\ Head(gate) = a

NotQueuedBefore == \A m \in Message : actor[m].pc \in Before => m \notin Ids(store)
SessionRuns == session # None => actor[session].pc \in InTurn

IInv ==
  /\ Typed /\ StoreSound(store) /\ GateIsRight
  /\ NotQueuedBefore /\ SessionRuns

-----------------------------------------------------------------------------
(* The queue file.                                                         *)

\* Records keep their positions and their inputs.
LEMMA SameInputs ==
  ASSUME NEW s, StoreSound(s), NEW z, DOMAIN z = DOMAIN s,
         z = [k \in DOMAIN z |-> z[k]],
         \A k \in DOMAIN s : z[k] \in RecordsOf(Message) /\ z[k].id = s[k].id
  PROVE  StoreSound(z) /\ Ids(z) = Ids(s)
<1>1. Len(s) \in Nat /\ DOMAIN s = 1 .. Len(s)
  BY DEF StoreSound
<1>2. z \in [1 .. Len(s) -> RecordsOf(Message)]
  BY <1>1
<1>3. z \in Seq(RecordsOf(Message))
  BY <1>1, <1>2
<1>4. \A k, l \in DOMAIN z : z[k].id = z[l].id => k = l
  BY DEF StoreSound
<1>5. Ids(z) = Ids(s)
  BY DEF Ids
<1> QED BY <1>3, <1>4, <1>5 DEF StoreSound

\* Records of some inputs stay.
LEMMA SomeStay ==
  ASSUME NEW s, StoreSound(s), NEW R
  PROVE  /\ StoreSound(Staying(s, R)) /\ Ids(Staying(s, R)) \subseteq Ids(s)
         /\ Entries(Staying(s, R)) \subseteq Entries(s)
<1> DEFINE z == Staying(s, R)
<1>1. /\ z \in Seq(RecordsOf(Message)) /\ Entries(z) = Entries(s) \cap R
      /\ Within(z, s, Len(s))
  BY StayingIs DEF StoreSound
<1> HIDE DEF z
<1>2. PICK p \in [DOMAIN z -> 1 .. Len(s)] :
        /\ \A i \in DOMAIN z : z[i] = s[p[i]]
        /\ \A i, j \in DOMAIN z : i < j => p[i] < p[j]
  BY <1>1 DEF Within
<1>3. DOMAIN s = 1 .. Len(s) /\ DOMAIN z = 1 .. Len(z) /\ Len(z) \in Nat /\ Len(s) \in Nat
  BY <1>1 DEF StoreSound
<1>4. ASSUME NEW i \in DOMAIN z, NEW j \in DOMAIN z, z[i].id = z[j].id
      PROVE  i = j
  <2>1. p[i] \in DOMAIN s /\ p[j] \in DOMAIN s /\ s[p[i]].id = s[p[j]].id
    BY <1>2, <1>3, <1>4
  <2>2. p[i] = p[j] /\ p[i] \in Nat
    BY <1>3, <2>1 DEF StoreSound
  <2>3. ~ (i < j) /\ ~ (j < i) /\ i \in Nat /\ j \in Nat
    BY <1>2, <1>3, <2>2
  <2> QED BY <2>3
<1>5. Ids(z) \subseteq Ids(s)
  BY <1>2, <1>3 DEF Ids
<1> QED BY <1>1, <1>4, <1>5 DEF StoreSound, z

\* An input that is not queued joins.
LEMMA InputJoins ==
  ASSUME NEW s, StoreSound(s), NEW m \in Message, m \notin Ids(s)
  PROVE  LET z == Append(s, Unclaimed(m)) IN StoreSound(z) /\ Ids(z) = Ids(s) \cup {m}
<1> DEFINE z == Append(s, Unclaimed(m))
<1>1. Unclaimed(m) \in RecordsOf(Message) /\ Unclaimed(m).id = m
  BY DEF Unclaimed, RecordsOf
<1>2. /\ s \in Seq(RecordsOf(Message)) /\ Len(s) \in Nat /\ DOMAIN s = 1 .. Len(s)
      /\ z \in Seq(RecordsOf(Message)) /\ DOMAIN z = 1 .. Len(s) + 1
      /\ \A k \in 1 .. Len(s) : z[k] = s[k]
      /\ z[Len(s) + 1] = Unclaimed(m)
  BY <1>1 DEF StoreSound
<1> HIDE DEF z
<1>3. \A k \in DOMAIN z : k \in DOMAIN s \/ k = Len(s) + 1
  BY <1>2
<1>4. \A k \in DOMAIN s : k \in DOMAIN z /\ z[k] = s[k] /\ s[k].id # m
  BY <1>2 DEF Ids
<1>5. Ids(z) = Ids(s) \cup {m}
  <2>1. Len(s) + 1 \in DOMAIN z /\ z[Len(s) + 1].id = m
    BY <1>1, <1>2
  <2> QED BY <1>3, <1>4, <2>1 DEF Ids
<1>6. \A k, l \in DOMAIN z : z[k].id = z[l].id => k = l
  BY <1>1, <1>2, <1>3, <1>4 DEF StoreSound
<1> QED BY <1>2, <1>5, <1>6 DEF StoreSound, z

\* Claims, releases and lapses change no input.
LEMMA ClaimsKeepInputs ==
  ASSUME NEW s, StoreSound(s), used \in [Message -> Nat]
  PROVE  /\ s # <<>> => /\ StoreSound(ClaimHead(s)) /\ Ids(ClaimHead(s)) = Ids(s)
                        /\ ClaimHead(s)[1] \in RecordsOf(Message)
         /\ \A i, t : StoreSound(Released(s, i, t)) /\ Ids(Released(s, i, t)) = Ids(s)
         /\ \A inputs : StoreSound(ReleaseAll(s, inputs)) /\ Ids(ReleaseAll(s, inputs)) = Ids(s)
<1>1. /\ s \in Seq(RecordsOf(Message)) /\ Len(s) \in Nat /\ DOMAIN s = 1 .. Len(s)
      /\ \A k \in DOMAIN s : s[k] \in RecordsOf(Message) /\ s[k].id \in Message
  <2>1. s \in Seq(RecordsOf(Message)) /\ Len(s) \in Nat /\ DOMAIN s = 1 .. Len(s)
        /\ \A k \in DOMAIN s : s[k] \in RecordsOf(Message)
    BY DEF StoreSound
  <2>2. \A r \in RecordsOf(Message) : r.id \in Message
    BY DEF RecordsOf
  <2> QED BY <2>1, <2>2
<1>2. ASSUME s # <<>>
      PROVE  /\ StoreSound(ClaimHead(s)) /\ Ids(ClaimHead(s)) = Ids(s)
             /\ ClaimHead(s)[1] \in RecordsOf(Message)
  <2> DEFINE z == ClaimHead(s)
             r == [id |-> s[1].id, token |-> used[s[1].id] + 1, lapsed |-> FALSE]
  <2>1. 1 \in DOMAIN s /\ used[s[1].id] \in Nat
    BY <1>1, <1>2
  <2>2. r \in RecordsOf(Message) /\ r.id = s[1].id
    BY <1>1, <2>1 DEF RecordsOf
  <2>3. z = [s EXCEPT ![1] = r]
    BY DEF ClaimHead
  <2> HIDE DEF z, r
  <2>4. /\ DOMAIN z = DOMAIN s /\ z = [k \in DOMAIN z |-> z[k]]
        /\ \A k \in DOMAIN s : z[k] = IF k = 1 THEN r ELSE s[k]
    BY <1>1, <2>3
  <2>5. \A k \in DOMAIN s : z[k] \in RecordsOf(Message) /\ z[k].id = s[k].id
    BY <1>1, <2>2, <2>4
  <2> QED BY <2>1, <2>4, <2>5, SameInputs DEF z
<1>3. ASSUME NEW i, NEW t
      PROVE  StoreSound(Released(s, i, t)) /\ Ids(Released(s, i, t)) = Ids(s)
  <2> DEFINE z == Released(s, i, t)
  <2>1. DOMAIN z = DOMAIN s /\ z = [k \in DOMAIN z |-> z[k]]
    BY DEF Released
  <2>2. ASSUME NEW k \in DOMAIN s
        PROVE  z[k] \in RecordsOf(Message) /\ z[k].id = s[k].id
    <3>1. z[k] = IF Claims(s, i, t) /\ s[k].id = i THEN Unclaimed(i) ELSE s[k]
      BY DEF Released
    <3> HIDE DEF z
    <3> QED BY <1>1, <3>1 DEF Unclaimed, RecordsOf
  <2> HIDE DEF z
  <2> QED BY <2>1, <2>2, SameInputs DEF z
<1>4. ASSUME NEW inputs
      PROVE  StoreSound(ReleaseAll(s, inputs)) /\ Ids(ReleaseAll(s, inputs)) = Ids(s)
  <2> DEFINE z == ReleaseAll(s, inputs)
  <2>1. DOMAIN z = DOMAIN s /\ z = [k \in DOMAIN z |-> z[k]]
    BY DEF ReleaseAll
  <2>2. ASSUME NEW k \in DOMAIN s
        PROVE  z[k] \in RecordsOf(Message) /\ z[k].id = s[k].id
    <3>1. z[k] = s[k] \/ z[k] = Unclaimed(s[k].id)
      BY DEF ReleaseAll
    <3>2. Unclaimed(s[k].id) \in RecordsOf(Message) /\ Unclaimed(s[k].id).id = s[k].id
      BY <1>1 DEF Unclaimed, RecordsOf
    <3> HIDE DEF z
    <3> QED BY <1>1, <3>1, <3>2
  <2> HIDE DEF z
  <2> QED BY <2>1, <2>2, SameInputs DEF z
<1> QED BY <1>2, <1>3, <1>4

-----------------------------------------------------------------------------
(* The gate, when one actor a moves on to x.                               *)

Moves(a, x) == x \in ActorRecords /\ actor' = [actor EXCEPT ![a] = x]

LEMMA OthersStay ==
  ASSUME Typed, NEW a \in Actor, NEW x, Moves(a, x)
  PROVE  /\ actor' \in [Actor -> ActorRecords] /\ actor'[a] = x
         /\ \A b \in Actor \ {a} : actor'[b] = actor[b]
BY DEF Typed, Moves

\* It stays where it is; inside is only who is first.
LEMMA GateStays ==
  ASSUME Typed, GateIsRight, NEW a \in Actor, NEW x, Moves(a, x), gate' = gate,
         x.pc \in AtGate <=> actor[a].pc \in AtGate,
         x.pc \in Inside => gate # <<>> /\ Head(gate) = a
  PROVE  GateIsRight'
<1>1. actor'[a] = x /\ \A b \in Actor \ {a} : actor'[b] = actor[b]
  BY OthersStay
<1>2. {b \in Actor : actor'[b].pc \in AtGate} = {b \in Actor : actor[b].pc \in AtGate}
  BY <1>1
<1> QED BY <1>1, <1>2 DEF GateIsRight

\* It leaves, and the gate opens to the next.
LEMMA GateOpens ==
  ASSUME Typed, GateIsRight, NEW a \in Actor, NEW x, Moves(a, x), gate' = Opened,
         actor[a].pc \in Inside, x.pc \notin AtGate
  PROVE  GateIsRight'
<1>1. actor'[a] = x /\ \A b \in Actor \ {a} : actor'[b] = actor[b]
  BY OthersStay
<1>2. gate # <<>> /\ Head(gate) = a /\ gate \in Seq(Actor) /\ Distinct(gate)
  BY DEF GateIsRight
<1>3. /\ gate' \in Seq(Actor) /\ Distinct(gate')
      /\ Entries(gate') = Entries(gate) \ {a}
  BY <1>2, TailIs DEF Opened
<1>4. {b \in Actor : actor'[b].pc \in AtGate} = {b \in Actor : actor[b].pc \in AtGate} \ {a}
  BY <1>1
<1>5. \A b \in Actor : actor'[b].pc \notin Inside
  BY <1>1, <1>2 DEF GateIsRight, AtGate
<1> QED BY <1>3, <1>4, <1>5 DEF GateIsRight

\* It joins the others at the gate g, at which it is not, behind whoever is
\* inside.
LEMMA GateJoins ==
  ASSUME Typed, NEW a \in Actor, NEW x, Moves(a, x),
         NEW g \in Seq(Actor), gate' = Append(g, a), Distinct(g),
         Entries(g) = {b \in Actor : actor[b].pc \in AtGate} \ {a},
         \A b \in Actor \ {a} : actor[b].pc \in Inside => g # <<>> /\ Head(g) = b,
         x.pc \in {"waiting", "draining"}
  PROVE  GateIsRight'
<1>1. actor'[a] = x /\ \A b \in Actor \ {a} : actor'[b] = actor[b]
  BY OthersStay
<1>2. /\ gate' \in Seq(Actor) /\ Distinct(gate') /\ gate' # <<>>
      /\ Entries(gate') = Entries(g) \cup {a}
  BY AppendIs
<1>3. {b \in Actor : actor'[b].pc \in AtGate}
        = ({b \in Actor : actor[b].pc \in AtGate} \ {a}) \cup {a}
  BY <1>1 DEF AtGate
<1>4. g # <<>> => Head(gate') = Head(g)
  OBVIOUS
<1>5. x.pc \notin Inside
  BY DEF Inside
<1>6. \A b \in Actor : actor'[b].pc \in Inside => gate' # <<>> /\ Head(gate') = b
  BY <1>1, <1>2, <1>4, <1>5
<1> QED BY <1>2, <1>3, <1>6 DEF GateIsRight

\* The two gates an actor joins: one it is not at, and one it opened.
LEMMA GatesToJoin ==
  ASSUME Typed, GateIsRight, NEW a \in Actor
  PROVE  /\ actor[a].pc \notin AtGate =>
              /\ gate \in Seq(Actor) /\ Distinct(gate)
              /\ Entries(gate) = {b \in Actor : actor[b].pc \in AtGate} \ {a}
              /\ \A b \in Actor \ {a} :
                   actor[b].pc \in Inside => gate # <<>> /\ Head(gate) = b
         /\ actor[a].pc \in Inside =>
              /\ Opened \in Seq(Actor) /\ Distinct(Opened)
              /\ Entries(Opened) = {b \in Actor : actor[b].pc \in AtGate} \ {a}
              /\ \A b \in Actor \ {a} :
                   actor[b].pc \in Inside => Opened # <<>> /\ Head(Opened) = b
<1>1. CASE actor[a].pc \notin AtGate
  <2>1. actor[a].pc \notin Inside
    BY <1>1 DEF AtGate
  <2> QED BY <1>1, <2>1 DEF GateIsRight
<1>2. CASE actor[a].pc \in Inside
  <2>1. gate # <<>> /\ Head(gate) = a /\ gate \in Seq(Actor) /\ Distinct(gate)
    BY <1>2 DEF GateIsRight
  <2>2. /\ Opened \in Seq(Actor) /\ Distinct(Opened)
        /\ Entries(Opened) = Entries(gate) \ {a}
    BY <2>1, TailIs DEF Opened
  <2>3. \A b \in Actor \ {a} : actor[b].pc \notin Inside
    BY <2>1 DEF GateIsRight
  <2>4. Inside \subseteq AtGate
    BY DEF AtGate
  <2> QED BY <1>2, <2>2, <2>3, <2>4 DEF GateIsRight
<1> QED BY <1>1, <1>2 DEF AtGate

\* Only one actor is inside.
LEMMA OneInside ==
  ASSUME GateIsRight, NEW a \in Actor, NEW b \in Actor,
         actor[a].pc \in Inside, actor[b].pc \in Inside
  PROVE  a = b
BY DEF GateIsRight

\* An actor moves on to x.  The gate is treated above; besides, a message that
\* is put into the queue is that of the actor, and the session is taken or given
\* up by the actor whose turn it is.
LEMMA StepKeeps ==
  ASSUME IInv, ActorAssumption, NEW a \in Actor, NEW x, Moves(a, x), GateIsRight',
         StoreSound(store'),
         Ids(store') \subseteq Ids(store)
           \/ (Ids(store') \subseteq Ids(store) \cup {a} /\ x.pc \notin Before),
         x.pc \in Before => actor[a].pc \in Before,
         used' \in [Message -> Nat], held' \in [Message -> Nat],
         phase' \in {"idle", "running", "queued", "ended"},
         native' \subseteq Message, primary' \subseteq Message,
         \/ session' = session /\ actor[a].pc \notin InTurn
         \/ session' = None
         \/ session' = a /\ x.pc \in InTurn
  PROVE  IInv'
<1>1. /\ actor' \in [Actor -> ActorRecords] /\ actor'[a] = x
      /\ \A b \in Actor \ {a} : actor'[b] = actor[b]
  BY OthersStay DEF IInv
<1>2. Typed'
  BY <1>1 DEF Typed, IInv
<1>3. NotQueuedBefore'
  <2> SUFFICES ASSUME NEW m \in Message, actor'[m].pc \in Before
               PROVE  m \notin Ids(store')
    BY DEF NotQueuedBefore
  <2>1. m \in Actor
    BY DEF Actor
  <2>2. actor[m].pc \in Before
    BY <1>1, <2>1
  <2>3. m \notin Ids(store)
    BY <2>2 DEF IInv, NotQueuedBefore
  <2>4. m = a => x.pc \in Before
    BY <1>1
  <2> QED BY <2>3, <2>4
<1>4. SessionRuns'
  <2> SUFFICES ASSUME session' # None PROVE actor'[session'].pc \in InTurn
    BY DEF SessionRuns
  <2>1. CASE session' = session /\ actor[a].pc \notin InTurn
    <3>1. session \in Actor /\ actor[session].pc \in InTurn
      BY <2>1 DEF IInv, Typed, SessionRuns
    <3> QED BY <1>1, <2>1, <3>1
  <2>2. CASE session' = a /\ x.pc \in InTurn
    BY <1>1, <2>2
  <2> QED BY <2>1, <2>2
<1> QED BY <1>2, <1>3, <1>4 DEF IInv

-----------------------------------------------------------------------------
(* The steps that several handlers share.                                  *)

At(a, pc) == [actor[a] EXCEPT !.pc = pc]
Holding(r) == [pc |-> "draining", id |-> r.id, token |-> r.token, drains |-> TRUE, ok |-> FALSE]

LEMMA GoesMoves ==
  ASSUME Typed, NEW a \in Actor, NEW pc \in Pcs, Goes(a, pc)
  PROVE  Moves(a, At(a, pc)) /\ At(a, pc).pc = pc
<1>1. actor[a] \in ActorRecords /\ actor \in [Actor -> ActorRecords]
  BY DEF Typed
<1>2. At(a, pc) \in ActorRecords /\ At(a, pc).pc = pc
  BY <1>1 DEF At, ActorRecords
<1>3. actor' = [actor EXCEPT ![a] = At(a, pc)]
  BY <1>1 DEF Goes, At
<1> QED BY <1>2, <1>3 DEF Moves

LEMMA TakesUpMoves ==
  ASSUME Typed, NEW a \in Actor, NEW r \in RecordsOf(Message), TakesUp(a, r)
  PROVE  Moves(a, Holding(r)) /\ Holding(r).pc = "draining"
<1>1. Holding(r) \in ActorRecords /\ Holding(r).pc = "draining"
  BY DEF Holding, ActorRecords, Pcs, AtGate, RecordsOf, Actor
<1>2. actor' = [actor EXCEPT ![a] = Holding(r)]
  BY DEF TakesUp, Holding
<1> QED BY <1>1, <1>2 DEF Moves

\* What an actor that is not at gate g may make of it: it leaves it at that, or
\* joins it.
FreeToJoin(a, g) ==
  /\ g \in Seq(Actor) /\ Distinct(g)
  /\ Entries(g) = {b \in Actor : actor[b].pc \in AtGate} \ {a}
  /\ \A b \in Actor \ {a} : actor[b].pc \in Inside => g # <<>> /\ Head(g) = b

LEMMA GateIsLeft ==
  ASSUME Typed, NEW a \in Actor, NEW x, Moves(a, x), NEW g, FreeToJoin(a, g),
         gate' = g, x.pc \notin AtGate
  PROVE  GateIsRight'
<1>1. actor'[a] = x /\ \A b \in Actor \ {a} : actor'[b] = actor[b]
  BY OthersStay
<1>2. {b \in Actor : actor'[b].pc \in AtGate} = {b \in Actor : actor[b].pc \in AtGate} \ {a}
  BY <1>1
<1>3. x.pc \notin Inside
  BY DEF AtGate
<1> QED BY <1>1, <1>2, <1>3 DEF GateIsRight, FreeToJoin

\* The gate is what it was, or what it is behind the actor that opened it.
LEMMA FreeGates ==
  ASSUME Typed, GateIsRight, NEW a \in Actor
  PROVE  /\ actor[a].pc \notin AtGate => FreeToJoin(a, gate)
         /\ actor[a].pc \in Inside => FreeToJoin(a, Opened)
BY GatesToJoin DEF FreeToJoin

\* The head of the queue is claimed and its actor goes to the gate.
LEMMA ClaimsHeadKeeps ==
  ASSUME IInv, ActorAssumption, NEW a \in Actor, NEW s, StoreSound(s),
         NEW g, FreeToJoin(a, g), ClaimsHead(a, s, g),
         Ids(s) \subseteq Ids(store) \cup {a}, actor[a].pc \notin InTurn,
         UNCHANGED <<phase, session>>, held' \in [Message -> Nat],
         native' \subseteq Message, primary' \subseteq Message
  PROVE  IInv'
<1>1. /\ s # <<>> /\ store' = ClaimHead(s) /\ gate' = Append(g, a)
      /\ used' = [used EXCEPT ![s[1].id] = @ + 1]
      /\ TakesUp(a, store'[1])
  BY DEF ClaimsHead, HeadIsFree
<1>2. Typed /\ used \in [Message -> Nat]
  BY DEF IInv, Typed
<1>3. StoreSound(store') /\ Ids(store') = Ids(s) /\ store'[1] \in RecordsOf(Message)
  BY <1>1, <1>2, ClaimsKeepInputs
<1>4. used' \in [Message -> Nat]
  <2>1. s \in Seq(RecordsOf(Message)) /\ s[1] \in RecordsOf(Message)
    BY <1>1 DEF StoreSound
  <2>2. s[1].id \in Message /\ used[s[1].id] \in Nat
    BY <1>2, <2>1 DEF RecordsOf
  <2> QED BY <1>1, <1>2, <2>2
<1> DEFINE x == Holding(store'[1])
<1>5. Moves(a, x) /\ x.pc = "draining"
  BY <1>1, <1>2, <1>3, TakesUpMoves
<1> HIDE DEF x
<1>6. GateIsRight'
  BY <1>1, <1>2, <1>5, GateJoins DEF FreeToJoin
<1>7. x.pc \notin Before
  BY <1>5 DEF Before
<1>8. phase' \in {"idle", "running", "queued", "ended"}
  BY <1>2 DEF Typed
<1> QED BY <1>3, <1>4, <1>5, <1>6, <1>7, <1>8, StepKeeps

\* The first record that waits is one of the queue.
LEMMA WaitingIs ==
  ASSUME NEW s, StoreSound(s), NEW n, Waiting(s, n) # <<>>
  PROVE  Head(Waiting(s, n)) \in RecordsOf(Message)
<1>1. Waiting(s, n) \in Seq(RecordsOf(Message))
  BY StayingIs DEF Waiting, StoreSound
<1> QED BY <1>1

LEMMA DrainKeeps ==
  ASSUME IInv, ActorAssumption, NEW a \in Actor, NEW s, StoreSound(s),
         NEW n, NEW g, FreeToJoin(a, g), Drain(a, s, n, g),
         Ids(s) \subseteq Ids(store) \cup {a}, actor[a].pc \notin InTurn,
         UNCHANGED <<phase, session>>, held' \in [Message -> Nat],
         native' \subseteq Message, primary' \subseteq Message
  PROVE  IInv'
<1>1. Typed /\ used \in [Message -> Nat] /\ phase' \in {"idle", "running", "queued", "ended"}
  BY DEF IInv, Typed
<1>2. CASE ClaimsHead(a, s, g)
  BY <1>2, ClaimsHeadKeeps
<1>3. CASE /\ Waiting(s, n) # <<>> /\ TakesUp(a, Head(Waiting(s, n)))
           /\ gate' = Append(g, a) /\ store' = s /\ UNCHANGED used
  <2> DEFINE r == Head(Waiting(s, n))
  <2>1. r \in RecordsOf(Message)
    BY <1>3, WaitingIs
  <2> DEFINE x == Holding(r)
  <2>2. Moves(a, x) /\ x.pc = "draining"
    BY <1>1, <1>3, <2>1, TakesUpMoves
  <2> HIDE DEF x
  <2>3. GateIsRight'
    BY <1>1, <1>3, <2>2, GateJoins DEF FreeToJoin
  <2>4. x.pc \notin Before
    BY <2>2 DEF Before
  <2> QED BY <1>1, <1>3, <2>2, <2>3, <2>4, StepKeeps
<1>4. CASE Goes(a, "done") /\ store' = s /\ gate' = g /\ UNCHANGED used
  <2> DEFINE x == At(a, "done")
  <2>1. Moves(a, x) /\ x.pc = "done"
    BY <1>1, <1>4, GoesMoves DEF Pcs
  <2> HIDE DEF x
  <2>2. x.pc \notin AtGate /\ x.pc \notin Before
    BY <2>1 DEF AtGate, Inside, Before
  <2>3. GateIsRight'
    BY <1>1, <1>4, <2>1, <2>2, GateIsLeft
  <2> QED BY <1>1, <1>4, <2>1, <2>2, <2>3, StepKeeps
<1> QED BY <1>2, <1>3, <1>4 DEF Drain

LEMMA RecoverKeeps ==
  ASSUME IInv, ActorAssumption, NEW s, StoreSound(s), NEW failed,
         Recover(s, failed), Ids(s) \subseteq Ids(store),
         actor[Recovery].pc \notin AtGate \cup InTurn,
         UNCHANGED <<adapter, session>>
  PROVE  IInv'
<1>1. /\ Typed /\ GateIsRight /\ used \in [Message -> Nat] /\ Recovery \in Actor
      /\ phase' \in {"idle", "running", "queued", "ended"} /\ held' \in [Message -> Nat]
      /\ native' \subseteq Message /\ primary' \subseteq Message
      /\ UNCHANGED <<phase, session>>
  BY DEF IInv, Typed, adapter, Actor
<1>2. FreeToJoin(Recovery, gate)
  BY <1>1, FreeGates
<1>3. CASE ClaimsHead(Recovery, s, gate)
  BY <1>1, <1>2, <1>3, ClaimsHeadKeeps
<1>4. CASE /\ store' = ReleaseAll(s, failed)
           /\ Goes(Recovery, IF failed = {} THEN "done" ELSE "retry")
           /\ UNCHANGED <<used, gate>>
  <2> DEFINE pc == IF failed = {} THEN "done" ELSE "retry"
             x == At(Recovery, pc)
  <2>1. pc \in {"done", "retry"} /\ pc \in Pcs
    BY DEF Pcs
  <2>2. Goes(Recovery, pc)
    BY <1>4
  <2> HIDE DEF pc
  <2>3. Moves(Recovery, x) /\ x.pc = pc
    BY <1>1, <2>1, <2>2, GoesMoves
  <2> HIDE DEF x
  <2>4. x.pc \notin AtGate /\ x.pc \notin Before
    BY <2>1, <2>3 DEF AtGate, Inside, Before
  <2>5. GateIsRight'
    BY <1>1, <1>2, <1>4, <2>3, <2>4, GateIsLeft
  <2>6. StoreSound(store') /\ Ids(store') = Ids(s)
    BY <1>1, <1>4, ClaimsKeepInputs
  <2>7. used' \in [Message -> Nat]
    BY <1>1, <1>4
  <2> QED BY <1>1, <2>3, <2>4, <2>5, <2>6, <2>7, StepKeeps
<1> QED BY <1>3, <1>4 DEF Recover


-----------------------------------------------------------------------------
(* One lemma per action.                                                   *)

\* What the steps know of the state they leave.
LEMMA Known ==
  ASSUME IInv
  PROVE  /\ Typed /\ GateIsRight /\ StoreSound(store)
         /\ used \in [Message -> Nat] /\ held \in [Message -> Nat]
         /\ phase \in {"idle", "running", "queued", "ended"}
         /\ native \subseteq Message /\ primary \subseteq Message
         /\ Message \subseteq Actor /\ Recovery \in Actor
BY DEF IInv, Typed, Actor

\* A step that only moves one actor, at the gate or away from it.
LEMMA OnlyGoes ==
  ASSUME IInv, ActorAssumption, NEW a \in Actor, NEW pc \in Pcs, Goes(a, pc),
         UNCHANGED <<store, used, phase, native, primary, held, gate, session>>,
         actor[a].pc \notin InTurn,
         pc \in AtGate <=> actor[a].pc \in AtGate,
         pc \in Inside => gate # <<>> /\ Head(gate) = a,
         pc \in Before => actor[a].pc \in Before
  PROVE  IInv'
<1> DEFINE x == At(a, pc)
<1>1. Moves(a, x) /\ x.pc = pc
  BY GoesMoves, Known
<1> HIDE DEF x
<1>2. GateIsRight'
  BY <1>1, Known, GateStays
<1>3. /\ StoreSound(store') /\ Ids(store') \subseteq Ids(store)
      /\ used' \in [Message -> Nat] /\ held' \in [Message -> Nat]
      /\ phase' \in {"idle", "running", "queued", "ended"}
      /\ native' \subseteq Message /\ primary' \subseteq Message
  BY Known
<1> QED BY <1>1, <1>2, <1>3, StepKeeps

LEMMA ArriveKeeps ==
  ASSUME IInv, ActorAssumption, NEW m \in Message, Arrive(m)
  PROVE  IInv'
<1> DEFINE x == At(m, "waiting")
<1>1. /\ actor[m].pc = "new" /\ gate' = Append(gate, m) /\ Goes(m, "waiting")
      /\ UNCHANGED <<store, used, phase, native, primary, held, session>>
  BY DEF Arrive, disk, adapter
<1>2. "waiting" \in Pcs /\ m \in Actor
  BY Known DEF Pcs, AtGate
<1>3. Moves(m, x) /\ x.pc = "waiting"
  BY <1>1, <1>2, GoesMoves, Known
<1> HIDE DEF x
<1>4. FreeToJoin(m, gate)
  BY <1>1, <1>2, Known, FreeGates DEF AtGate, Inside
<1>5. GateIsRight'
  BY <1>1, <1>2, <1>3, <1>4, Known, GateJoins DEF FreeToJoin
<1>6. x.pc \in Before /\ actor[m].pc \in Before /\ actor[m].pc \notin InTurn
  BY <1>1, <1>3 DEF Before, InTurn
<1>7. /\ StoreSound(store') /\ Ids(store') \subseteq Ids(store)
      /\ used' \in [Message -> Nat] /\ held' \in [Message -> Nat]
      /\ phase' \in {"idle", "running", "queued", "ended"}
      /\ native' \subseteq Message /\ primary' \subseteq Message
  BY <1>1, Known
<1> QED BY <1>1, <1>2, <1>3, <1>5, <1>6, <1>7, StepKeeps

LEMMA SnapshotKeeps ==
  ASSUME IInv, ActorAssumption, NEW m \in Message, Snapshot(m)
  PROVE  IInv'
<1> DEFINE pc == IF phase \in Busy THEN "busy" ELSE "free"
<1>1. /\ actor[m].pc = "waiting" /\ gate # <<>> /\ Head(gate) = m /\ Goes(m, pc)
      /\ UNCHANGED <<store, used, phase, native, primary, held, gate, session>>
  BY DEF Snapshot, Enters, disk, adapter
<1>2. /\ pc \in Pcs /\ pc \in AtGate /\ actor[m].pc \in AtGate
      /\ actor[m].pc \notin InTurn /\ actor[m].pc \in Before
  BY <1>1 DEF Pcs, AtGate, Inside, InTurn, Before
<1> HIDE DEF pc
<1> QED BY <1>1, <1>2, Known, OnlyGoes

\* A refused message leaves the gate.
LEMMA RefuseKeeps ==
  ASSUME IInv, ActorAssumption, NEW m \in Message, Refuse(m),
         actor[m].pc \in Inside, session' = session
  PROVE  IInv'
<1> DEFINE x == At(m, "done")
<1>1. /\ gate' = Opened /\ Goes(m, "done")
      /\ UNCHANGED <<store, used, phase, native, primary, held>>
  BY DEF Refuse, disk, adapter
<1>2. m \in Actor /\ "done" \in Pcs
  BY Known DEF Pcs
<1>3. Moves(m, x) /\ x.pc = "done"
  BY <1>1, <1>2, GoesMoves, Known
<1> HIDE DEF x
<1>4. x.pc \notin AtGate /\ x.pc \notin Before /\ actor[m].pc \notin InTurn
  BY <1>3 DEF AtGate, Inside, Before, InTurn
<1>5. GateIsRight'
  BY <1>1, <1>2, <1>3, <1>4, Known, GateOpens
<1>6. /\ StoreSound(store') /\ Ids(store') \subseteq Ids(store)
      /\ used' \in [Message -> Nat] /\ held' \in [Message -> Nat]
      /\ phase' \in {"idle", "running", "queued", "ended"}
      /\ native' \subseteq Message /\ primary' \subseteq Message
  BY <1>1, Known
<1> QED BY <1>2, <1>3, <1>4, <1>5, <1>6, StepKeeps

LEMMA QueueKeeps ==
  ASSUME IInv, ActorAssumption, NEW m \in Message, Queue(m)
  PROVE  IInv'
<1>1. /\ actor[m].pc = "busy" /\ session' = session
      /\ actor[m].pc \in Inside /\ actor[m].pc \in Before /\ actor[m].pc \notin InTurn
  BY DEF Queue, Inside, Before, InTurn
<1>2. CASE Refuse(m)
  BY <1>1, <1>2, RefuseKeeps
<1>3. CASE /\ store' = Append(store, Unclaimed(m)) /\ Goes(m, "offer")
           /\ UNCHANGED <<used, adapter, gate, history>>
  <2> DEFINE x == At(m, "offer")
  <2>1. m \in Actor /\ "offer" \in Pcs
    BY Known DEF Pcs, AtGate, Inside
  <2>2. Moves(m, x) /\ x.pc = "offer"
    BY <1>3, <2>1, GoesMoves, Known
  <2> HIDE DEF x
  <2>3. /\ x.pc \in AtGate /\ x.pc \notin Before
        /\ actor[m].pc \in AtGate
    BY <1>1, <2>2 DEF AtGate, Inside, Before
  <2>4. gate # <<>> /\ Head(gate) = m /\ gate' = gate
    BY <1>1, <1>3, <2>1, Known DEF GateIsRight
  <2>5. GateIsRight'
    BY <2>1, <2>2, <2>3, <2>4, Known, GateStays
  <2>6. m \notin Ids(store)
    BY <1>1 DEF IInv, NotQueuedBefore
  <2>7. StoreSound(store') /\ Ids(store') = Ids(store) \cup {m}
    BY <1>3, <2>6, Known, InputJoins
  <2>8. /\ used' \in [Message -> Nat] /\ held' \in [Message -> Nat]
        /\ phase' = phase /\ phase' \in {"idle", "running", "queued", "ended"}
        /\ native' \subseteq Message /\ primary' \subseteq Message
    BY <1>3, Known DEF adapter
  <2> QED BY <1>1, <2>1, <2>2, <2>3, <2>5, <2>7, <2>8, StepKeeps
<1> QED BY <1>2, <1>3 DEF Queue

LEMMA OfferedKeeps ==
  ASSUME IInv, ActorAssumption, NEW m \in Message, Offered(m)
  PROVE  IInv'
<1> DEFINE x == At(m, "done")
<1>1. /\ actor[m].pc = "offer" /\ gate' = Opened /\ Goes(m, "done") /\ phase' = "queued"
      /\ native' \in {native, native \cup {m}}
      /\ UNCHANGED <<store, used, primary, held, session>>
  BY DEF Offered, disk
<1>2. m \in Actor /\ "done" \in Pcs
  BY Known DEF Pcs
<1>3. Moves(m, x) /\ x.pc = "done"
  BY <1>1, <1>2, GoesMoves, Known
<1> HIDE DEF x
<1>4. /\ x.pc \notin AtGate /\ x.pc \notin Before
      /\ actor[m].pc \in Inside /\ actor[m].pc \notin InTurn
  BY <1>1, <1>3 DEF AtGate, Inside, Before, InTurn
<1>5. GateIsRight'
  BY <1>1, <1>2, <1>3, <1>4, Known, GateOpens
<1>6. /\ StoreSound(store') /\ Ids(store') \subseteq Ids(store)
      /\ used' \in [Message -> Nat] /\ held' \in [Message -> Nat]
      /\ phase' \in {"idle", "running", "queued", "ended"}
      /\ native' \subseteq Message /\ primary' \subseteq Message
  BY <1>1, Known
<1> QED BY <1>1, <1>2, <1>3, <1>4, <1>5, <1>6, StepKeeps

LEMMA ReserveKeeps ==
  ASSUME IInv, ActorAssumption, NEW m \in Message, Reserve(m)
  PROVE  IInv'
<1>1. /\ actor[m].pc = "free" /\ session' = session
      /\ actor[m].pc \in Inside /\ actor[m].pc \in Before /\ actor[m].pc \notin InTurn
  BY DEF Reserve, Inside, Before, InTurn
<1>2. m \in Actor /\ m \notin Ids(store)
  BY <1>1, Known DEF IInv, NotQueuedBefore
<1>3. CASE Refuse(m)
  BY <1>1, <1>3, RefuseKeeps
<1>4. CASE /\ store = <<>>
           /\ store' = <<[id |-> m, token |-> 1, lapsed |-> FALSE]>>
           /\ used' = [used EXCEPT ![m] = 1] /\ held' = [held EXCEPT ![m] = 1]
           /\ native' = native \cup {m} /\ primary' = primary \cup {m}
           /\ Goes(m, "start")
           /\ UNCHANGED <<phase, gate, history>>
  <2> DEFINE x == At(m, "start")
             r == [id |-> m, token |-> 1, lapsed |-> FALSE]
  <2>1. Moves(m, x) /\ x.pc = "start"
    BY <1>2, <1>4, GoesMoves, Known DEF Pcs, AtGate, Inside
  <2> HIDE DEF x
  <2>2. /\ x.pc \in AtGate /\ x.pc \notin Before /\ actor[m].pc \in AtGate
    BY <1>1, <2>1 DEF AtGate, Inside, Before
  <2>3. gate # <<>> /\ Head(gate) = m /\ gate' = gate
    BY <1>1, <1>2, <1>4, Known DEF GateIsRight
  <2>4. GateIsRight'
    BY <1>2, <2>1, <2>2, <2>3, Known, GateStays
  <2>5. r \in RecordsOf(Message) /\ r.id = m /\ store' = <<r>>
    BY <1>4 DEF RecordsOf
  <2> HIDE DEF r
  <2>6. store' \in Seq(RecordsOf(Message)) /\ DOMAIN store' = {1} /\ store'[1] = r
    BY <2>5
  <2>7. StoreSound(store') /\ Ids(store') \subseteq Ids(store) \cup {m}
    BY <2>5, <2>6 DEF StoreSound, Ids
  <2>8. used' \in [Message -> Nat] /\ held' \in [Message -> Nat]
    BY <1>4, Known
  <2>9. /\ phase' = phase /\ phase' \in {"idle", "running", "queued", "ended"}
        /\ native' \subseteq Message /\ primary' \subseteq Message
    BY <1>4, Known
  <2> QED BY <1>1, <1>2, <2>1, <2>2, <2>4, <2>7, <2>8, <2>9, StepKeeps
<1>5. CASE /\ primary' = primary \cup {m}
           /\ Drain(m, Append(store, Unclaimed(m)), native, Opened)
           /\ UNCHANGED <<phase, native, held, closed, answered, taken>>
  <2> DEFINE s == Append(store, Unclaimed(m))
  <2>1. StoreSound(s) /\ Ids(s) \subseteq Ids(store) \cup {m}
    BY <1>2, Known, InputJoins
  <2>2. FreeToJoin(m, Opened)
    BY <1>1, <1>2, Known, FreeGates
  <2>3. /\ UNCHANGED <<phase, session>> /\ held' \in [Message -> Nat]
        /\ native' \subseteq Message /\ primary' \subseteq Message
    BY <1>1, <1>5, Known
  <2>4. Drain(m, s, native, Opened)
    BY <1>5
  <2> HIDE DEF s
  <2> QED BY <1>1, <1>2, <2>1, <2>2, <2>3, <2>4, DrainKeeps
<1> QED BY <1>3, <1>4, <1>5 DEF Reserve

LEMMA EnterDrainKeeps ==
  ASSUME IInv, ActorAssumption, NEW m \in Message, EnterDrain(m)
  PROVE  IInv'
<1> DEFINE pc == IF phase \in Busy THEN "giveback" ELSE "start"
<1>1. /\ actor[m].pc = "draining" /\ gate # <<>> /\ Head(gate) = m /\ Goes(m, pc)
      /\ UNCHANGED <<store, used, phase, native, primary, held, gate, session>>
  BY DEF EnterDrain, Enters, disk, adapter
<1>2. /\ pc \in Pcs /\ pc \in AtGate /\ actor[m].pc \in AtGate
      /\ actor[m].pc \notin InTurn /\ pc \notin Before
  BY <1>1 DEF Pcs, AtGate, Inside, InTurn, Before
<1> HIDE DEF pc
<1> QED BY <1>1, <1>2, Known, OnlyGoes

LEMMA EnterRecoveryKeeps ==
  ASSUME IInv, ActorAssumption, EnterRecovery
  PROVE  IInv'
<1>1. /\ actor[Recovery].pc = "draining" /\ gate # <<>> /\ Head(gate) = Recovery
      /\ Goes(Recovery, "start")
      /\ UNCHANGED <<store, used, phase, native, primary, held, gate, session>>
  BY DEF EnterRecovery, Enters, disk, adapter
<1>2. /\ "start" \in Pcs /\ "start" \in AtGate /\ actor[Recovery].pc \in AtGate
      /\ actor[Recovery].pc \notin InTurn /\ "start" \notin Before
  BY <1>1 DEF Pcs, AtGate, Inside, InTurn, Before
<1> QED BY <1>1, <1>2, Known, OnlyGoes

LEMMA GiveBackKeeps ==
  ASSUME IInv, ActorAssumption, NEW m \in Message, GiveBack(m)
  PROVE  IInv'
<1> DEFINE x == At(m, "done")
<1>1. /\ actor[m].pc = "giveback" /\ gate' = Opened /\ Goes(m, "done")
      /\ store' = Released(store, actor[m].id, actor[m].token)
      /\ UNCHANGED <<used, phase, native, primary, held, session>>
  BY DEF GiveBack, adapter
<1>2. m \in Actor /\ "done" \in Pcs
  BY Known DEF Pcs
<1>3. Moves(m, x) /\ x.pc = "done"
  BY <1>1, <1>2, GoesMoves, Known
<1> HIDE DEF x
<1>4. /\ x.pc \notin AtGate /\ x.pc \notin Before
      /\ actor[m].pc \in Inside /\ actor[m].pc \notin InTurn
  BY <1>1, <1>3 DEF AtGate, Inside, Before, InTurn
<1>5. GateIsRight'
  BY <1>1, <1>2, <1>3, <1>4, Known, GateOpens
<1>6. StoreSound(store') /\ Ids(store') \subseteq Ids(store)
  BY <1>1, Known, ClaimsKeepInputs
<1>7. /\ used' \in [Message -> Nat] /\ held' \in [Message -> Nat]
      /\ phase' = phase /\ phase' \in {"idle", "running", "queued", "ended"}
      /\ native' \subseteq Message /\ primary' \subseteq Message
  BY <1>1, Known
<1> QED BY <1>1, <1>2, <1>3, <1>4, <1>5, <1>6, <1>7, StepKeeps

LEMMA StartKeeps ==
  ASSUME IInv, ActorAssumption, NEW a \in Actor, Start(a)
  PROVE  IInv'
<1> DEFINE x == At(a, "planning")
<1>1. /\ actor[a].pc = "start" /\ gate' = Opened /\ Goes(a, "planning")
      /\ phase' = "running"
      /\ UNCHANGED <<store, used, native, primary, held, session>>
  BY DEF Start, disk
<1>2. "planning" \in Pcs
  BY DEF Pcs
<1>3. Moves(a, x) /\ x.pc = "planning"
  BY <1>1, <1>2, GoesMoves, Known
<1> HIDE DEF x
<1>4. /\ x.pc \notin AtGate /\ x.pc \notin Before
      /\ actor[a].pc \in Inside /\ actor[a].pc \notin InTurn
  BY <1>1, <1>3 DEF AtGate, Inside, Before, InTurn
<1>5. GateIsRight'
  BY <1>1, <1>3, <1>4, Known, GateOpens
<1>6. /\ StoreSound(store') /\ Ids(store') \subseteq Ids(store)
      /\ used' \in [Message -> Nat] /\ held' \in [Message -> Nat]
      /\ phase' \in {"idle", "running", "queued", "ended"}
      /\ native' \subseteq Message /\ primary' \subseteq Message
  BY <1>1, Known
<1> QED BY <1>1, <1>3, <1>4, <1>5, <1>6, StepKeeps

\* A step of an actor whose turn goes on far from the gate, before and after.
LEMMA TurnGoesOn ==
  ASSUME IInv, ActorAssumption, NEW a \in Actor, NEW x, Moves(a, x),
         actor[a].pc \notin AtGate, x.pc \notin AtGate, x.pc \notin Before, gate' = gate,
         StoreSound(store'), Ids(store') \subseteq Ids(store),
         used' = used, held' \in [Message -> Nat],
         phase' \in {"idle", "running", "queued", "ended"},
         native' \subseteq Message, primary' \subseteq Message,
         \/ session' = session /\ actor[a].pc \notin InTurn
         \/ session' = None
         \/ session' = a /\ x.pc \in InTurn
  PROVE  IInv'
<1>1. x.pc \notin Inside
  BY DEF AtGate
<1>2. GateIsRight'
  BY <1>1, Known, GateStays
<1>3. used' \in [Message -> Nat]
  BY Known
<1> QED BY <1>1, <1>2, <1>3, StepKeeps

LEMMA AnnounceKeeps ==
  ASSUME IInv, ActorAssumption, NEW a \in Actor, Announce(a)
  PROVE  IInv'
<1> DEFINE x == At(a, "starting")
<1>1. /\ actor[a].pc = "planning" /\ Goes(a, "starting") /\ phase' = "running"
      /\ UNCHANGED <<store, used, native, primary, held, gate, session>>
  BY DEF Announce, disk
<1>2. "starting" \in Pcs
  BY DEF Pcs
<1>3. Moves(a, x) /\ x.pc = "starting"
  BY <1>1, <1>2, GoesMoves, Known
<1> HIDE DEF x
<1>4. /\ x.pc \notin AtGate /\ x.pc \notin Before
      /\ actor[a].pc \notin AtGate /\ actor[a].pc \notin InTurn
  BY <1>1, <1>3 DEF AtGate, Inside, Before, InTurn
<1>5. /\ StoreSound(store') /\ Ids(store') \subseteq Ids(store) /\ held' \in [Message -> Nat]
      /\ native' \subseteq Message /\ primary' \subseteq Message
  BY <1>1, Known
<1> QED BY <1>1, <1>3, <1>4, <1>5, TurnGoesOn

LEMMA RunKeeps ==
  ASSUME IInv, ActorAssumption, NEW a \in Actor, Run(a)
  PROVE  IInv'
<1> DEFINE x == At(a, "running")
<1>1. /\ actor[a].pc = "starting" /\ Goes(a, "running") /\ session' = a
      /\ UNCHANGED <<store, used, phase, native, primary, held, gate>>
  BY DEF Run, disk, adapter
<1>2. "running" \in Pcs
  BY DEF Pcs, InTurn
<1>3. Moves(a, x) /\ x.pc = "running"
  BY <1>1, <1>2, GoesMoves, Known
<1> HIDE DEF x
<1>4. /\ x.pc \notin AtGate /\ x.pc \notin Before /\ x.pc \in InTurn
      /\ actor[a].pc \notin AtGate
  BY <1>1, <1>3 DEF AtGate, Inside, Before, InTurn
<1>5. /\ StoreSound(store') /\ Ids(store') \subseteq Ids(store) /\ held' \in [Message -> Nat]
      /\ phase' \in {"idle", "running", "queued", "ended"}
      /\ native' \subseteq Message /\ primary' \subseteq Message
  BY <1>1, Known
<1> QED BY <1>1, <1>3, <1>4, <1>5, TurnGoesOn

LEMMA FinishKeeps ==
  ASSUME IInv, ActorAssumption, NEW a \in Actor, Finish(a)
  PROVE  IInv'
<1>1. /\ actor[a].pc \in {"running", "aborted"} /\ session' = None
      /\ UNCHANGED <<store, used, phase, native, primary, held, gate>>
  BY DEF Finish, disk, adapter
<1>2. PICK ok \in BOOLEAN :
        actor' = [actor EXCEPT ![a].pc = "finished", ![a].ok = ok]
  BY DEF Finish
<1> DEFINE x == [actor[a] EXCEPT !.pc = "finished", !.ok = ok]
<1>3. actor[a] \in ActorRecords /\ actor \in [Actor -> ActorRecords]
  BY Known DEF Typed
<1>4. x \in ActorRecords /\ x.pc = "finished"
  BY <1>3 DEF ActorRecords, Pcs
<1>5. actor' = [actor EXCEPT ![a] = x]
  BY <1>2, <1>3
<1>6. Moves(a, x)
  BY <1>4, <1>5 DEF Moves
<1> HIDE DEF x
<1>7. x.pc \notin AtGate /\ x.pc \notin Before /\ actor[a].pc \notin AtGate
  BY <1>1, <1>4 DEF AtGate, Inside, Before
<1>8. /\ StoreSound(store') /\ Ids(store') \subseteq Ids(store) /\ held' \in [Message -> Nat]
      /\ phase' \in {"idle", "running", "queued", "ended"}
      /\ native' \subseteq Message /\ primary' \subseteq Message
  BY <1>1, Known
<1> QED BY <1>1, <1>6, <1>7, <1>8, TurnGoesOn

LEMMA PublishKeeps ==
  ASSUME IInv, ActorAssumption, NEW a \in Actor, Publish(a)
  PROVE  IInv'
<1> DEFINE x == At(a, "settling")
<1>1. /\ actor[a].pc = "finished" /\ Goes(a, "settling") /\ phase' \in {phase, "ended"}
      /\ UNCHANGED <<store, used, native, primary, held, gate, session>>
  BY DEF Publish, disk
<1>2. "settling" \in Pcs
  BY DEF Pcs
<1>3. Moves(a, x) /\ x.pc = "settling"
  BY <1>1, <1>2, GoesMoves, Known
<1> HIDE DEF x
<1>4. /\ x.pc \notin AtGate /\ x.pc \notin Before
      /\ actor[a].pc \notin AtGate /\ actor[a].pc \notin InTurn
  BY <1>1, <1>3 DEF AtGate, Inside, Before, InTurn
<1>5. /\ StoreSound(store') /\ Ids(store') \subseteq Ids(store) /\ held' \in [Message -> Nat]
      /\ phase' \in {"idle", "running", "queued", "ended"}
      /\ native' \subseteq Message /\ primary' \subseteq Message
  BY <1>1, Known
<1> QED BY <1>1, <1>3, <1>4, <1>5, TurnGoesOn

LEMMA SettleKeeps ==
  ASSUME IInv, ActorAssumption, NEW a \in Actor, Settle(a)
  PROVE  IInv'
<1> DEFINE pc == IF actor[a].ok THEN "present" ELSE "fail"
           x == At(a, pc)
           S == RecordsOf(Message \ Settled(actor[a].ok))
<1>1. /\ actor[a].pc = "settling" /\ Goes(a, pc) /\ store' = Staying(store, S)
      /\ native' = {} /\ primary' = {} /\ held' = [m \in Message |-> 0]
      /\ UNCHANGED <<used, phase, gate, session>>
  BY DEF Settle
<1>2. pc \in {"present", "fail"} /\ pc \in Pcs
  BY DEF Pcs
<1> HIDE DEF pc, S
<1>3. Moves(a, x) /\ x.pc = pc
  BY <1>1, <1>2, GoesMoves, Known
<1> HIDE DEF x
<1>4. /\ x.pc \notin AtGate /\ x.pc \notin Before
      /\ actor[a].pc \notin AtGate /\ actor[a].pc \notin InTurn
  BY <1>1, <1>2, <1>3 DEF AtGate, Inside, Before, InTurn
<1>5. StoreSound(store') /\ Ids(store') \subseteq Ids(store)
  BY <1>1, Known, SomeStay
<1>6. /\ held' \in [Message -> Nat] /\ phase' = phase
      /\ phase' \in {"idle", "running", "queued", "ended"}
      /\ native' \subseteq Message /\ primary' \subseteq Message
  BY <1>1, Known
<1> QED BY <1>1, <1>3, <1>4, <1>5, <1>6, TurnGoesOn

LEMMA EndsKeeps ==
  ASSUME IInv, ActorAssumption, NEW a \in Actor, Goes(a, "done"),
         actor[a].pc \in {"present", "fail"},
         StoreSound(store'), Ids(store') \subseteq Ids(store),
         UNCHANGED <<used, phase, native, primary, held, gate, session>>
  PROVE  IInv'
<1> DEFINE x == At(a, "done")
<1>1. "done" \in Pcs
  BY DEF Pcs
<1>2. Moves(a, x) /\ x.pc = "done"
  BY <1>1, GoesMoves, Known
<1> HIDE DEF x
<1>3. /\ x.pc \notin AtGate /\ x.pc \notin Before
      /\ actor[a].pc \notin AtGate /\ actor[a].pc \notin InTurn
  BY <1>2 DEF AtGate, Inside, Before, InTurn
<1>4. /\ held' \in [Message -> Nat]
      /\ phase' \in {"idle", "running", "queued", "ended"}
      /\ native' \subseteq Message /\ primary' \subseteq Message
  BY Known
<1> QED BY <1>2, <1>3, <1>4, TurnGoesOn

LEMMA PresentKeeps ==
  ASSUME IInv, ActorAssumption, NEW a \in Actor, Present(a)
  PROVE  IInv'
<1>1. /\ actor[a].pc = "present"
      /\ actor[a].pc \notin AtGate /\ actor[a].pc \notin InTurn
      /\ actor[a].pc \notin AtGate \cup InTurn
      /\ UNCHANGED <<phase, native, primary, held, session>> /\ UNCHANGED adapter
  BY DEF Present, adapter, AtGate, Inside, InTurn
<1>2. FreeToJoin(a, gate)
  BY <1>1, Known, FreeGates
<1>3. held' \in [Message -> Nat] /\ native' \subseteq Message /\ primary' \subseteq Message
  BY <1>1, Known
<1> DEFINE s == Without(store, actor[a].id)
<1>4. StoreSound(s) /\ Ids(s) \subseteq Ids(store)
  BY Known, SomeStay DEF Without
<1> HIDE DEF s
<1>5. CASE Drain(a, store, native, gate)
  BY <1>1, <1>2, <1>3, <1>5, Known, DrainKeeps
<1>6. CASE Drain(a, s, native, gate)
  BY <1>1, <1>2, <1>3, <1>4, <1>6, DrainKeeps
<1>7. CASE a = Recovery /\ Recover(s, unfinished)
  BY <1>1, <1>4, <1>7, RecoverKeeps
<1>8. CASE Goes(a, "done") /\ UNCHANGED <<disk, gate, unfinished>>
  <2>1. UNCHANGED <<store, used, gate>>
    BY <1>8 DEF disk
  <2>2. StoreSound(store') /\ Ids(store') \subseteq Ids(store)
    BY <2>1, Known
  <2> QED BY <1>1, <1>8, <2>1, <2>2, EndsKeeps
<1> QED BY <1>5, <1>6, <1>7, <1>8 DEF Present, s

LEMMA PresentFailureKeeps ==
  ASSUME IInv, ActorAssumption, NEW a \in Actor, PresentFailure(a)
  PROVE  IInv'
<1>1. /\ actor[a].pc = "fail"
      /\ actor[a].pc \notin AtGate \cup InTurn
      /\ UNCHANGED <<phase, native, primary, held, session>> /\ UNCHANGED adapter
  BY DEF PresentFailure, adapter, AtGate, Inside, InTurn
<1>2. CASE /\ Goes(a, "done") /\ store' = Without(store, a)
           /\ UNCHANGED <<used, gate, unfinished>>
  <2>1. StoreSound(store') /\ Ids(store') \subseteq Ids(store)
    BY <1>2, Known, SomeStay DEF Without
  <2> QED BY <1>1, <1>2, <2>1, EndsKeeps
<1>3. CASE /\ Goes(a, "done") /\ store' = Released(store, actor[a].id, actor[a].token)
           /\ UNCHANGED <<used, gate, unfinished>>
  <2>1. StoreSound(store') /\ Ids(store') \subseteq Ids(store)
    BY <1>3, Known, ClaimsKeepInputs
  <2> QED BY <1>1, <1>3, <2>1, EndsKeeps
<1>4. CASE /\ a = Recovery
           /\ Recover(store, unfinished \cup {[id |-> actor[a].id, token |-> actor[a].token]})
  BY <1>1, <1>4, Known, RecoverKeeps
<1> QED BY <1>2, <1>3, <1>4 DEF PresentFailure

LEMMA PresentationThrowsKeeps ==
  ASSUME IInv, ActorAssumption, NEW a \in Actor, PresentationThrows(a)
  PROVE  IInv'
<1>1. /\ actor[a].pc \in {"present", "fail"} /\ Goes(a, "done")
      /\ UNCHANGED <<store, used, phase, native, primary, held, gate, session>>
  BY DEF PresentationThrows, disk, adapter
<1>2. StoreSound(store') /\ Ids(store') \subseteq Ids(store)
  BY <1>1, Known
<1> QED BY <1>1, <1>2, EndsKeeps

LEMMA StartRecoveryKeeps ==
  ASSUME IInv, ActorAssumption, StartRecovery
  PROVE  IInv'
<1>1. /\ actor[Recovery].pc \notin AtGate \cup InTurn /\ Recover(store, {})
      /\ UNCHANGED <<adapter, session>>
  BY DEF StartRecovery, AtGate, Inside, InTurn
<1> QED BY <1>1, Known, RecoverKeeps

\* /stop aborts the turn that holds the session; it is still one.
LEMMA StopKeeps ==
  ASSUME IInv, Stop
  PROVE  IInv'
<1>1. /\ actor' = [a \in Actor |->
            IF a = session THEN [actor[a] EXCEPT !.pc = "aborted"] ELSE actor[a]]
      /\ UNCHANGED <<store, used, phase, native, primary, held, gate, session>>
  BY DEF Stop, disk, adapter
<1>2. ASSUME NEW a \in Actor
      PROVE  /\ actor'[a] \in ActorRecords
             /\ a # session => actor'[a] = actor[a]
             /\ a = session => actor'[a].pc = "aborted" /\ actor[a].pc \in InTurn
  <2>1. actor[a] \in ActorRecords
    BY Known DEF Typed
  <2>2. [actor[a] EXCEPT !.pc = "aborted"] \in ActorRecords
        /\ [actor[a] EXCEPT !.pc = "aborted"].pc = "aborted"
    BY <2>1 DEF ActorRecords, Pcs, InTurn
  <2>3. actor'[a] = IF a = session THEN [actor[a] EXCEPT !.pc = "aborted"] ELSE actor[a]
    BY <1>1
  <2>4. a = session => session # None /\ actor[session].pc \in InTurn
    <3> SUFFICES ASSUME a = session PROVE session # None /\ actor[session].pc \in InTurn
      OBVIOUS
    <3>1. a # None
      BY ActorAssumption DEF ActorAssumption, Actor
    <3> QED BY <3>1 DEF IInv, SessionRuns
  <2> QED BY <2>1, <2>2, <2>3, <2>4
<1>3. Typed'
  <2>1. actor' \in [Actor -> ActorRecords]
    BY <1>1, <1>2
  <2> QED BY <1>1, <2>1, Known DEF Typed
<1>4. \A a \in Actor : /\ actor'[a].pc \in AtGate <=> actor[a].pc \in AtGate
                       /\ actor'[a].pc \in Inside <=> actor[a].pc \in Inside
                       /\ actor'[a].pc \in Before <=> actor[a].pc \in Before
  BY <1>2 DEF AtGate, Inside, InTurn, Before
<1>5. GateIsRight'
  BY <1>1, <1>4, Known DEF GateIsRight
<1>6. StoreSound(store') /\ Ids(store') = Ids(store)
  BY <1>1, Known
<1>7. NotQueuedBefore'
  BY <1>1, <1>4, <1>6, Known DEF IInv, NotQueuedBefore
<1>8. SessionRuns'
  <2>1. session' # None => session' \in Actor /\ session' = session
    BY <1>1, Known DEF Typed
  <2> QED BY <1>2, <2>1 DEF SessionRuns, InTurn
<1> QED BY <1>3, <1>5, <1>6, <1>7, <1>8 DEF IInv

LEMMA StoppedKeeps ==
  ASSUME IInv, Stopped
  PROVE  IInv'
<1>1. /\ phase' = phase \/ phase' = "ended"
      /\ UNCHANGED <<store, used, native, primary, held, gate, session, actor>>
  BY DEF Stopped, disk
<1>2. StoreSound(store') /\ Ids(store') = Ids(store)
  BY <1>1, Known
<1>3. Typed'
  BY <1>1, Known DEF Typed
<1>4. GateIsRight'
  BY <1>1, Known DEF GateIsRight
<1>5. NotQueuedBefore' /\ SessionRuns'
  BY <1>1, <1>2 DEF IInv, NotQueuedBefore, SessionRuns
<1> QED BY <1>2, <1>3, <1>4, <1>5 DEF IInv

LEMMA ClearedKeeps ==
  ASSUME IInv, Cleared
  PROVE  IInv'
<1>1. /\ store' = <<>> /\ native' = {}
      /\ UNCHANGED <<used, phase, primary, held, gate, session, actor>>
  BY DEF Cleared
<1>2. StoreSound(store') /\ Ids(store') = {}
  BY <1>1 DEF StoreSound, Ids
<1>3. Typed'
  BY <1>1, Known DEF Typed
<1>4. GateIsRight'
  BY <1>1, Known DEF GateIsRight
<1>5. NotQueuedBefore' /\ SessionRuns'
  BY <1>1, <1>2 DEF IInv, NotQueuedBefore, SessionRuns
<1> QED BY <1>2, <1>3, <1>4, <1>5 DEF IInv

LEMMA CrashKeeps ==
  ASSUME IInv, Crash
  PROVE  IInv'
<1>1. /\ phase' = "idle" /\ native' = {} /\ primary' = {} /\ held' = [m \in Message |-> 0]
      /\ gate' = <<>> /\ session' = None /\ UNCHANGED <<store, used>>
      /\ actor' = [a \in Actor |->
           IF a = Recovery
           THEN [pc |-> "retry", id |-> a, token |-> 0, drains |-> FALSE, ok |-> FALSE]
           ELSE IF actor[a].pc = "new" THEN actor[a] ELSE [actor[a] EXCEPT !.pc = "done"]]
  BY DEF Crash, disk
<1>2. ASSUME NEW a \in Actor
      PROVE  /\ actor'[a] \in ActorRecords /\ actor'[a].pc \in {"new", "done", "retry"}
             /\ actor'[a].pc = "new" => actor[a].pc = "new"
  <2>1. actor[a] \in ActorRecords
    BY Known DEF Typed
  <2>2. [actor[a] EXCEPT !.pc = "done"] \in ActorRecords
        /\ [actor[a] EXCEPT !.pc = "done"].pc = "done"
    BY <2>1 DEF ActorRecords, Pcs
  <2> DEFINE fresh == [pc |-> "retry", id |-> a, token |-> 0, drains |-> FALSE, ok |-> FALSE]
  <2>3. fresh \in ActorRecords /\ fresh.pc = "retry"
    BY DEF ActorRecords, Pcs
  <2>4. actor'[a] = IF a = Recovery THEN fresh
                    ELSE IF actor[a].pc = "new" THEN actor[a] ELSE [actor[a] EXCEPT !.pc = "done"]
    BY <1>1
  <2> HIDE DEF fresh
  <2>5. CASE a = Recovery
    BY <2>3, <2>4, <2>5
  <2>6. CASE a # Recovery /\ actor[a].pc = "new"
    BY <2>1, <2>4, <2>6
  <2>7. CASE a # Recovery /\ actor[a].pc # "new"
    BY <2>2, <2>4, <2>7
  <2> QED BY <2>5, <2>6, <2>7
<1>3. Typed'
  <2>1. actor' \in [Actor -> ActorRecords]
    BY <1>1, <1>2
  <2>2. /\ used' \in [Message -> Nat] /\ held' \in [Message -> Nat]
        /\ phase' \in {"idle", "running", "queued", "ended"}
        /\ native' \subseteq Message /\ primary' \subseteq Message
        /\ session' \in Actor \cup {None}
    BY <1>1, Known
  <2> QED BY <2>1, <2>2 DEF Typed
<1>4. GateIsRight'
  <2>1. \A a \in Actor : actor'[a].pc \notin AtGate /\ actor'[a].pc \notin Inside
    BY <1>2 DEF AtGate, Inside
  <2>2. gate' \in Seq(Actor) /\ Distinct(gate') /\ Entries(gate') = {}
    BY <1>1 DEF Distinct, Entries
  <2> QED BY <2>1, <2>2 DEF GateIsRight
<1>5. StoreSound(store') /\ Ids(store') = Ids(store)
  BY <1>1, Known
<1>6. NotQueuedBefore'
  <2> SUFFICES ASSUME NEW m \in Message, actor'[m].pc \in Before
               PROVE  m \notin Ids(store')
    BY DEF NotQueuedBefore
  <2>1. actor[m].pc = "new"
    BY <1>2, Known DEF Before
  <2> QED BY <1>5, <2>1 DEF IInv, NotQueuedBefore, Before
<1>7. SessionRuns'
  BY <1>1 DEF SessionRuns
<1> QED BY <1>3, <1>4, <1>5, <1>6, <1>7 DEF IInv

LEMMA LapseKeeps ==
  ASSUME IInv, NEW k \in DOMAIN store, Lapse(k)
  PROVE  IInv'
<1>1. /\ store' = [store EXCEPT ![k].lapsed = TRUE]
      /\ UNCHANGED <<used, phase, native, primary, held, gate, session, actor>>
  BY DEF Lapse, adapter
<1>2. /\ store \in Seq(RecordsOf(Message))
      /\ \A j \in DOMAIN store : store[j] \in RecordsOf(Message)
  BY Known DEF StoreSound
<1> DEFINE r == [store[k] EXCEPT !.lapsed = TRUE]
<1>3. r \in RecordsOf(Message) /\ r.id = store[k].id
  BY <1>2 DEF RecordsOf
<1>4. store' = [store EXCEPT ![k] = r]
  BY <1>1
<1> HIDE DEF r
<1>5. /\ DOMAIN store' = DOMAIN store /\ store' = [j \in DOMAIN store' |-> store'[j]]
      /\ \A j \in DOMAIN store : store'[j] = IF j = k THEN r ELSE store[j]
  BY <1>2, <1>4
<1>6. \A j \in DOMAIN store : store'[j] \in RecordsOf(Message) /\ store'[j].id = store[j].id
  BY <1>2, <1>3, <1>5
<1>7. StoreSound(store') /\ Ids(store') = Ids(store)
  BY <1>5, <1>6, Known, SameInputs
<1>8. Typed'
  BY <1>1, Known DEF Typed
<1>9. GateIsRight'
  BY <1>1, Known DEF GateIsRight
<1>10. NotQueuedBefore' /\ SessionRuns'
  BY <1>1, <1>7 DEF IInv, NotQueuedBefore, SessionRuns
<1> QED BY <1>7, <1>8, <1>9, <1>10 DEF IInv

-----------------------------------------------------------------------------
(* The specification.                                                      *)

\* The process starts with what an earlier one left in the queue.
LEMMA InitIsRight == Init => IInv
<1> SUFFICES ASSUME Init PROVE IInv
  OBVIOUS
<1>1. PICK o \in Orders : store = [k \in DOMAIN o |-> Unclaimed(o[k])]
  BY DEF Init
<1>2. /\ o \in [1 .. Cardinality(Left) -> Left]
      /\ \A j, k \in DOMAIN o : o[j] = o[k] => j = k
      /\ Cardinality(Left) \in Nat /\ Left \subseteq Message
  BY LeftAssumption, FS_CardinalityType DEF Orders, LeftAssumption
<1>3. \A i \in Message : Unclaimed(i) \in RecordsOf(Message) /\ Unclaimed(i).id = i
  BY DEF Unclaimed, RecordsOf
<1>4. store \in Seq(RecordsOf(Message)) /\ DOMAIN store = 1 .. Cardinality(Left)
  BY <1>1, <1>2, <1>3
<1>5. \A k \in DOMAIN store : store[k].id = o[k] /\ o[k] \in Left /\ k \in DOMAIN o
  BY <1>1, <1>2, <1>3, <1>4
<1>6. StoreSound(store) /\ Ids(store) \subseteq Left
  BY <1>2, <1>4, <1>5 DEF StoreSound, Ids
<1>7. ASSUME NEW a \in Actor
      PROVE  /\ actor[a] \in ActorRecords /\ actor[a].pc \in {"new", "done", "retry"}
             /\ a \in Left => actor[a].pc # "new"
  <2> DEFINE pc == IF a = Recovery THEN "retry" ELSE IF a \in Left THEN "done" ELSE "new"
  <2>1. actor[a] = [pc |-> pc, id |-> a, token |-> 0, drains |-> FALSE, ok |-> FALSE]
    BY DEF Init
  <2>2. pc \in {"new", "done", "retry"} /\ (a \in Left => pc # "new")
    OBVIOUS
  <2> HIDE DEF pc
  <2>3. pc \in Pcs
    BY <2>2 DEF Pcs
  <2> QED BY <2>1, <2>2, <2>3 DEF ActorRecords
<1>8. Typed
  <2>1. actor \in [Actor -> ActorRecords]
    BY <1>7 DEF Init
  <2> QED BY <2>1 DEF Init, Typed
<1>9. GateIsRight
  <2>1. \A a \in Actor : actor[a].pc \notin AtGate /\ actor[a].pc \notin Inside
    BY <1>7 DEF AtGate, Inside
  <2>2. gate \in Seq(Actor) /\ Distinct(gate) /\ Entries(gate) = {}
    BY DEF Init, Distinct, Entries
  <2> QED BY <2>1, <2>2 DEF GateIsRight
<1>10. NotQueuedBefore
  BY <1>2, <1>6, <1>7 DEF NotQueuedBefore, Before, Actor
<1>11. SessionRuns
  BY DEF Init, SessionRuns
<1> QED BY <1>6, <1>8, <1>9, <1>10, <1>11 DEF IInv

LEMMA NextIsRight == IInv /\ [Next]_vars => IInv'
<1> SUFFICES ASSUME IInv, [Next]_vars PROVE IInv'
  OBVIOUS
<1>1. ASSUME NEW m \in Message, Handle(m) PROVE IInv'
  BY <1>1, ActorAssumption, ArriveKeeps, SnapshotKeeps, QueueKeeps, OfferedKeeps, ReserveKeeps,
     EnterDrainKeeps, GiveBackKeeps DEF Handle
<1>2. ASSUME NEW a \in Actor, Turn(a) PROVE IInv'
  BY <1>2, ActorAssumption, StartKeeps, AnnounceKeeps, RunKeeps, FinishKeeps, PublishKeeps, SettleKeeps,
     PresentKeeps, PresentFailureKeeps DEF Turn
<1>3. ASSUME NEW a \in Actor, PresentationThrows(a) PROVE IInv'
  BY <1>3, ActorAssumption, PresentationThrowsKeeps
<1>4. CASE StartRecovery \/ EnterRecovery
  BY <1>4, ActorAssumption, StartRecoveryKeeps, EnterRecoveryKeeps
<1>5. CASE Stop \/ Stopped \/ Cleared \/ Crash
  BY <1>5, StopKeeps, StoppedKeeps, ClearedKeeps, CrashKeeps
<1>6. ASSUME NEW k \in DOMAIN store, Lapse(k) PROVE IInv'
  BY <1>6, LapseKeeps
<1>7. CASE UNCHANGED vars
  <2>1. UNCHANGED <<store, used, phase, native, primary, held, gate, session, actor>>
    BY <1>7 DEF vars, disk, adapter
  <2>2. Typed' /\ StoreSound(store')
    BY <2>1, Known DEF Typed
  <2>3. GateIsRight'
    BY <2>1, Known DEF GateIsRight
  <2>4. NotQueuedBefore' /\ SessionRuns'
    BY <2>1 DEF IInv, NotQueuedBefore, SessionRuns, Ids
  <2> QED BY <2>2, <2>3, <2>4 DEF IInv
<1> QED BY <1>1, <1>2, <1>3, <1>4, <1>5, <1>6, <1>7 DEF Next

LEMMA InputsAreRight == Spec => []IInv
BY InitIsRight, NextIsRight, PTL DEF Spec

-----------------------------------------------------------------------------
(* Turns, and who starts one.                                              *)

CancelSound == "at" \in DOMAIN cancel /\ cancel.at \in {"no", "aborting", "clearing"}

\* A turn that neither /stop nor another turn disturbed is the only one, and
\* the phase says so.
UndisturbedIsBusy == \A b \in Live \ disturbed : phase \in Busy /\ Live = {b}

\* A message that found the phase quiet inside the gate meets no other turn.
QuietIsFree == \A m \in Message : actor[m].pc \in {"free", "start"} => Live \subseteq disturbed

TurnsAreRight ==
  /\ CancelSound /\ disturbed \subseteq Live
  /\ UndisturbedIsBusy /\ QuietIsFree

\* Only actor a goes on, to pc.
MovesTo(a, pc) ==
  /\ actor'[a].pc = pc
  /\ \A b \in Actor \ {a} : actor'[b].pc = actor[b].pc

LEMMA GoesTo ==
  ASSUME Typed, NEW a \in Actor, NEW pc, Goes(a, pc)
  PROVE  MovesTo(a, pc)
<1>1. actor \in [Actor -> ActorRecords] /\ actor[a] \in ActorRecords
  BY DEF Typed
<1>2. actor' = [actor EXCEPT ![a] = [actor[a] EXCEPT !.pc = pc]]
  BY <1>1 DEF Goes
<1>3. [actor[a] EXCEPT !.pc = pc].pc = pc
  BY <1>1 DEF ActorRecords
<1> QED BY <1>1, <1>2, <1>3 DEF MovesTo

LEMMA TakesUpTo ==
  ASSUME Typed, NEW a \in Actor, NEW r, TakesUp(a, r)
  PROVE  MovesTo(a, "draining")
<1>1. actor \in [Actor -> ActorRecords]
  BY DEF Typed
<1> QED BY <1>1 DEF TakesUp, MovesTo

LEMMA DrainTo ==
  ASSUME Typed, NEW a \in Actor, NEW s, NEW n, NEW g, Drain(a, s, n, g)
  PROVE  MovesTo(a, "draining") \/ MovesTo(a, "done")
<1>1. CASE ClaimsHead(a, s, g)
  BY <1>1, TakesUpTo DEF ClaimsHead
<1>2. CASE TakesUp(a, Head(Waiting(s, n)))
  BY <1>2, TakesUpTo
<1>3. CASE Goes(a, "done")
  BY <1>3, GoesTo
<1> QED BY <1>1, <1>2, <1>3 DEF Drain

LEMMA RecoverTo ==
  ASSUME Typed, NEW s, NEW failed, Recover(s, failed)
  PROVE  \E pc \in {"draining", "done", "retry"} : MovesTo(Recovery, pc)
<1>1. Recovery \in Actor
  BY DEF Actor
<1>2. CASE ClaimsHead(Recovery, s, gate)
  BY <1>1, <1>2, TakesUpTo DEF ClaimsHead
<1>3. CASE Goes(Recovery, IF failed = {} THEN "done" ELSE "retry")
  <2>1. CASE failed = {}
    BY <1>1, <1>3, <2>1, GoesTo
  <2>2. CASE failed # {}
    BY <1>1, <1>3, <2>2, GoesTo
  <2> QED BY <2>1, <2>2
<1> QED BY <1>2, <1>3 DEF Recover

\* An actor moves on without beginning or ending a turn, and leaves the phase
\* or makes it busy; if it is a message that will start one, it met none.
LEMMA TurnsStay ==
  ASSUME TurnsAreRight, NEW a \in Actor, NEW pc, MovesTo(a, pc),
         pc \in Turning <=> actor[a].pc \in Turning,
         phase' = phase \/ phase' \in Busy,
         UNCHANGED <<cancel, disturbed>>,
         a \in Message /\ pc \in {"free", "start"} => Live \subseteq disturbed
  PROVE  TurnsAreRight'
<1>1. Live' = Live
  BY DEF MovesTo, Live
<1>2. CancelSound' /\ disturbed' \subseteq Live'
  BY <1>1 DEF TurnsAreRight, CancelSound
<1>3. UndisturbedIsBusy'
  BY <1>1 DEF TurnsAreRight, UndisturbedIsBusy, Busy
<1>4. QuietIsFree'
  <2> SUFFICES ASSUME NEW m \in Message, actor'[m].pc \in {"free", "start"}
               PROVE  Live \subseteq disturbed
    BY <1>1 DEF QuietIsFree
  <2>1. CASE m = a
    BY <2>1 DEF MovesTo
  <2>2. CASE m # a
    BY <2>2 DEF MovesTo, Actor, TurnsAreRight, QuietIsFree
  <2> QED BY <2>1, <2>2
<1> QED BY <1>2, <1>3, <1>4 DEF TurnsAreRight

\* Most steps of a handler, a drain or the recovery are far from any turn.
LEMMA FarFromTurns ==
  ASSUME TurnsAreRight, NEW a \in Actor, NEW pc, MovesTo(a, pc),
         actor[a].pc \notin Turning, pc \notin Turning \cup {"free", "start"},
         phase' = phase \/ phase' \in Busy,
         UNCHANGED <<cancel, disturbed>>
  PROVE  TurnsAreRight'
BY TurnsStay

\* Where the phase is quiet, every live turn was disturbed.
LEMMA QuietMeetsNone ==
  ASSUME TurnsAreRight, phase \notin Busy
  PROVE  Live \subseteq disturbed
BY DEF TurnsAreRight, UndisturbedIsBusy

LEMMA HandleKeepsTurns ==
  ASSUME IInv, TurnsAreRight, NEW m \in Message, Handle(m)
  PROVE  TurnsAreRight'
<1>1. Typed /\ m \in Actor
  BY Known
<1>2. CASE Arrive(m)
  <2>1. MovesTo(m, "waiting") /\ actor[m].pc = "new" /\ UNCHANGED <<phase, cancel, disturbed>>
    BY <1>1, <1>2, GoesTo DEF Arrive, adapter, history
  <2> QED BY <1>1, <2>1, FarFromTurns DEF Turning
<1>3. CASE Snapshot(m)
  <2> DEFINE pc == IF phase \in Busy THEN "busy" ELSE "free"
  <2>1. /\ Goes(m, pc) /\ actor[m].pc = "waiting" /\ UNCHANGED <<phase, cancel, disturbed>>
    BY <1>3 DEF Snapshot, Enters, adapter, history
  <2>2. pc \in {"busy", "free"} /\ (pc = "free" => phase \notin Busy)
    OBVIOUS
  <2> HIDE DEF pc
  <2>3. MovesTo(m, pc)
    BY <1>1, <2>1, GoesTo
  <2>4. pc = "free" => Live \subseteq disturbed
    BY <2>2, QuietMeetsNone
  <2> QED BY <1>1, <2>1, <2>2, <2>3, <2>4, TurnsStay DEF Turning
<1>4. CASE Queue(m)
  <2>1. MovesTo(m, "done") \/ MovesTo(m, "offer")
    BY <1>1, <1>4, GoesTo DEF Queue, Refuse
  <2>2. actor[m].pc = "busy" /\ UNCHANGED <<phase, cancel, disturbed>>
    BY <1>4 DEF Queue, Refuse, adapter, history
  <2> QED BY <1>1, <2>1, <2>2, FarFromTurns DEF Turning
<1>5. CASE Offered(m)
  <2>1. MovesTo(m, "done") /\ actor[m].pc = "offer" /\ phase' \in Busy /\ UNCHANGED <<cancel, disturbed>>
    BY <1>1, <1>5, GoesTo DEF Offered, Busy
  <2> QED BY <1>1, <2>1, FarFromTurns DEF Turning
<1>6. CASE Reserve(m)
  <2>1. actor[m].pc = "free" /\ UNCHANGED <<phase, cancel, disturbed>>
    BY <1>6 DEF Reserve, Refuse, adapter, history
  <2>2. MovesTo(m, "start") \/ MovesTo(m, "draining") \/ MovesTo(m, "done")
    BY <1>1, <1>6, GoesTo, DrainTo DEF Reserve, Refuse
  <2>3. Live \subseteq disturbed
    BY <2>1 DEF TurnsAreRight, QuietIsFree
  <2> QED BY <1>1, <2>1, <2>2, <2>3, TurnsStay DEF Turning
<1>7. CASE EnterDrain(m)
  <2> DEFINE pc == IF phase \in Busy THEN "giveback" ELSE "start"
  <2>1. /\ Goes(m, pc) /\ actor[m].pc = "draining" /\ UNCHANGED <<phase, cancel, disturbed>>
    BY <1>7 DEF EnterDrain, Enters, adapter, history
  <2>2. pc \in {"giveback", "start"} /\ (pc = "start" => phase \notin Busy)
    OBVIOUS
  <2> HIDE DEF pc
  <2>3. MovesTo(m, pc)
    BY <1>1, <2>1, GoesTo
  <2>4. pc = "start" => Live \subseteq disturbed
    BY <2>2, QuietMeetsNone
  <2> QED BY <1>1, <2>1, <2>2, <2>3, <2>4, TurnsStay DEF Turning
<1>8. CASE GiveBack(m)
  <2>1. MovesTo(m, "done") /\ actor[m].pc = "giveback" /\ UNCHANGED <<phase, cancel, disturbed>>
    BY <1>1, <1>8, GoesTo DEF GiveBack, adapter, history
  <2> QED BY <1>1, <2>1, FarFromTurns DEF Turning
<1> QED BY <1>2, <1>3, <1>4, <1>5, <1>6, <1>7, <1>8 DEF Handle

\* A turn begins: whoever else found the phase quiet would be inside the gate
\* with its actor.
LEMMA StartKeepsTurns ==
  ASSUME IInv, TurnsAreRight, NEW a \in Actor, Start(a)
  PROVE  TurnsAreRight'
<1>1. /\ MovesTo(a, "planning") /\ actor[a].pc = "start" /\ phase' = "running"
      /\ disturbed' = IF Live = {} THEN {} ELSE Live \cup {a}
      /\ cancel' = cancel
  BY Known, GoesTo DEF Start
<1>2. Live' = Live \cup {a}
  BY <1>1 DEF MovesTo, Live, Turning
<1>3. CancelSound' /\ disturbed' \subseteq Live'
  BY <1>1, <1>2 DEF TurnsAreRight, CancelSound
<1>4. UndisturbedIsBusy'
  <2>1. CASE Live = {}
    BY <1>1, <1>2, <2>1 DEF UndisturbedIsBusy, Busy
  <2>2. CASE Live # {}
    BY <1>1, <1>2, <2>2 DEF UndisturbedIsBusy
  <2> QED BY <2>1, <2>2
<1>5. QuietIsFree'
  <2>1. ASSUME NEW m \in Message, actor'[m].pc \in {"free", "start"}
        PROVE  FALSE
    <3>1. m \in Actor /\ m # a /\ actor[m].pc \in {"free", "start"}
      BY <1>1, <2>1 DEF MovesTo, Actor
    <3>2. actor[m].pc \in Inside /\ actor[a].pc \in Inside
      BY <1>1, <3>1 DEF Inside
    <3> QED BY <3>1, <3>2, Known, OneInside
  <2> QED BY <2>1 DEF QuietIsFree
<1> QED BY <1>3, <1>4, <1>5 DEF TurnsAreRight

LEMMA FinishKeepsTurns ==
  ASSUME IInv, TurnsAreRight, NEW a \in Actor, Finish(a)
  PROVE  TurnsAreRight'
<1>1. /\ actor[a].pc \in {"running", "aborted"} /\ UNCHANGED <<phase, cancel, disturbed>>
  BY DEF Finish, adapter
<1>2. PICK ok : actor' = [actor EXCEPT ![a].pc = "finished", ![a].ok = ok]
  BY DEF Finish
<1>3. actor \in [Actor -> ActorRecords] /\ actor[a] \in ActorRecords
  BY Known DEF Typed
<1>4. actor' = [actor EXCEPT ![a] = [actor[a] EXCEPT !.pc = "finished", !.ok = ok]]
  BY <1>2, <1>3
<1>5. [actor[a] EXCEPT !.pc = "finished", !.ok = ok].pc = "finished"
  BY <1>3 DEF ActorRecords
<1>6. MovesTo(a, "finished")
  BY <1>3, <1>4, <1>5 DEF MovesTo
<1> QED BY <1>1, <1>6, TurnsStay DEF Turning

\* A turn ends.  If it was the only one nobody disturbed, none is left.
LEMMA PublishKeepsTurns ==
  ASSUME IInv, TurnsAreRight, NEW a \in Actor, Publish(a)
  PROVE  TurnsAreRight'
<1>1. /\ MovesTo(a, "settling") /\ actor[a].pc = "finished" /\ disturbed' = disturbed \ {a}
  BY Known, GoesTo DEF Publish
<1>2. CancelSound'
  BY DEF Publish, TurnsAreRight, CancelSound
<1>3. Live' = Live \ {a} /\ a \in Live
  BY <1>1 DEF MovesTo, Live, Turning
<1>4. Live' \subseteq disturbed'
  BY <1>1, <1>3 DEF TurnsAreRight, UndisturbedIsBusy
<1>5. disturbed' \subseteq Live'
  BY <1>1, <1>3 DEF TurnsAreRight
<1> QED BY <1>2, <1>4, <1>5 DEF TurnsAreRight, UndisturbedIsBusy, QuietIsFree

LEMMA TurnKeepsTurns ==
  ASSUME IInv, ActorAssumption, TurnsAreRight, NEW a \in Actor, Turn(a)
  PROVE  TurnsAreRight'
<1>1. Typed
  BY Known
<1>2. CASE Announce(a)
  <2>1. /\ MovesTo(a, "starting") /\ actor[a].pc = "planning" /\ phase' \in Busy
        /\ UNCHANGED <<cancel, disturbed>>
    BY <1>1, <1>2, GoesTo DEF Announce, Busy, history
  <2> QED BY <2>1, TurnsStay DEF Turning
<1>3. CASE Run(a)
  <2>1. MovesTo(a, "running") /\ actor[a].pc = "starting" /\ UNCHANGED <<phase, cancel, disturbed>>
    BY <1>1, <1>3, GoesTo DEF Run, adapter, history
  <2> QED BY <2>1, TurnsStay DEF Turning
<1>4. CASE Settle(a)
  <2> DEFINE pc == IF actor[a].ok THEN "present" ELSE "fail"
  <2>1. Goes(a, pc) /\ actor[a].pc = "settling" /\ UNCHANGED <<phase, disturbed>>
    BY <1>4 DEF Settle, history
  <2>2. pc \in {"present", "fail"}
    OBVIOUS
  <2> HIDE DEF pc
  <2>3. MovesTo(a, pc)
    BY <1>1, <2>1, GoesTo
  <2>4. CancelSound'
    BY <1>4 DEF Settle, TurnsAreRight, CancelSound
  <2>5. Live' = Live
    BY <2>1, <2>2, <2>3 DEF MovesTo, Live, Turning
  <2>6. QuietIsFree'
    <3>1. \A m \in Message : actor'[m].pc \in {"free", "start"} => actor[m].pc \in {"free", "start"}
      BY <2>2, <2>3 DEF MovesTo, Actor
    <3> QED BY <2>1, <2>5, <3>1 DEF TurnsAreRight, QuietIsFree
  <2> QED BY <2>1, <2>4, <2>5, <2>6 DEF TurnsAreRight, UndisturbedIsBusy
<1>5. CASE Present(a)
  <2>1. actor[a].pc = "present" /\ UNCHANGED <<phase, cancel, disturbed>>
    BY <1>5 DEF Present, adapter, history
  <2>2. \E pc \in {"draining", "done", "retry"} : MovesTo(a, pc)
    BY <1>1, <1>5, GoesTo, DrainTo, RecoverTo DEF Present
  <2> QED BY <2>1, <2>2, FarFromTurns DEF Turning
<1>6. CASE PresentFailure(a)
  <2>1. actor[a].pc = "fail" /\ UNCHANGED <<phase, cancel, disturbed>>
    BY <1>6 DEF PresentFailure, adapter, history
  <2>2. \E pc \in {"draining", "done", "retry"} : MovesTo(a, pc)
    BY <1>1, <1>6, GoesTo, RecoverTo DEF PresentFailure
  <2> QED BY <2>1, <2>2, FarFromTurns DEF Turning
<1> QED BY <1>2, <1>3, <1>4, <1>5, <1>6, StartKeepsTurns, FinishKeepsTurns, PublishKeepsTurns DEF Turn

\* /stop: the turn that holds the session goes on until it has noticed; then
\* all live turns count as disturbed.
LEMMA StopKeepsTurns ==
  ASSUME IInv, ActorAssumption, TurnsAreRight, Stop \/ Stopped \/ Cleared
  PROVE  TurnsAreRight'
<1>1. CASE Stop
  <2>1. /\ actor' = [a \in Actor |->
              IF a = session THEN [actor[a] EXCEPT !.pc = "aborted"] ELSE actor[a]]
        /\ UNCHANGED <<phase, disturbed>>
    BY <1>1 DEF Stop, adapter, history
  <2>2. ASSUME NEW a \in Actor
        PROVE  \/ actor'[a].pc = actor[a].pc
               \/ actor'[a].pc = "aborted" /\ actor[a].pc \in InTurn
    <3>1. CASE a = session
      <4>1. a # None /\ actor[a].pc \in InTurn /\ actor[a] \in ActorRecords
        BY <3>1, Known DEF ActorAssumption, Actor, IInv, SessionRuns, Typed
      <4>2. [actor[a] EXCEPT !.pc = "aborted"].pc = "aborted"
        BY <4>1 DEF ActorRecords
      <4> QED BY <2>1, <3>1, <4>1, <4>2
    <3>2. CASE a # session
      BY <2>1, <3>2
    <3> QED BY <3>1, <3>2
  <2>3. Live' = Live
    BY <2>2 DEF Live, Turning, InTurn
  <2>4. \A m \in Message : actor'[m].pc \in {"free", "start"} => actor[m].pc \in {"free", "start"}
    BY <2>2 DEF Actor
  <2>5. CancelSound'
    BY <1>1 DEF Stop, TurnsAreRight, CancelSound
  <2> QED BY <2>1, <2>3, <2>4, <2>5 DEF TurnsAreRight, UndisturbedIsBusy, QuietIsFree
<1>2. CASE Stopped
  <2>1. /\ actor' = actor
        /\ \/ UNCHANGED <<phase, disturbed>>
           \/ disturbed' = Live
    BY <1>2 DEF Stopped
  <2>2. Live' = Live
    BY <2>1 DEF Live
  <2>3. CancelSound'
    BY <1>2 DEF Stopped, TurnsAreRight, CancelSound
  <2> QED BY <2>1, <2>2, <2>3 DEF TurnsAreRight, UndisturbedIsBusy, QuietIsFree
<1>3. CASE Cleared
  <2>1. UNCHANGED <<actor, phase, disturbed>>
    BY <1>3 DEF Cleared
  <2>2. Live' = Live
    BY <2>1 DEF Live
  <2>3. CancelSound'
    BY <1>3 DEF Cleared, TurnsAreRight, CancelSound
  <2> QED BY <2>1, <2>2, <2>3 DEF TurnsAreRight, UndisturbedIsBusy, QuietIsFree
<1> QED BY <1>1, <1>2, <1>3

\* No turn survives a crash.
LEMMA CrashKeepsTurns ==
  ASSUME IInv, Crash
  PROVE  TurnsAreRight'
<1>1. /\ disturbed' = {} /\ cancel' = NoCancel
      /\ actor' = [a \in Actor |->
           IF a = Recovery
           THEN [pc |-> "retry", id |-> a, token |-> 0, drains |-> FALSE, ok |-> FALSE]
           ELSE IF actor[a].pc = "new" THEN actor[a] ELSE [actor[a] EXCEPT !.pc = "done"]]
  BY DEF Crash
<1>2. ASSUME NEW a \in Actor
      PROVE  actor'[a].pc \in {"new", "done", "retry"}
  <2>1. actor[a] \in ActorRecords
    BY Known DEF Typed
  <2>2. [actor[a] EXCEPT !.pc = "done"].pc = "done"
    BY <2>1 DEF ActorRecords
  <2>3. CASE a = Recovery
    BY <1>1, <2>3
  <2>4. CASE a # Recovery
    BY <1>1, <2>2, <2>4
  <2> QED BY <2>3, <2>4
<1>3. Live' = {}
  BY <1>2 DEF Live, Turning
<1>4. CancelSound'
  BY <1>1 DEF CancelSound, NoCancel
<1> QED BY <1>1, <1>3, <1>4 DEF TurnsAreRight, UndisturbedIsBusy, QuietIsFree

LEMMA NextKeepsTurns == IInv /\ TurnsAreRight /\ [Next]_vars => TurnsAreRight'
<1> SUFFICES ASSUME IInv, TurnsAreRight, [Next]_vars PROVE TurnsAreRight'
  OBVIOUS
<1>1. ASSUME NEW m \in Message, Handle(m) PROVE TurnsAreRight'
  BY <1>1, HandleKeepsTurns
<1>2. ASSUME NEW a \in Actor, Turn(a) PROVE TurnsAreRight'
  BY <1>2, ActorAssumption, TurnKeepsTurns
<1>3. ASSUME NEW a \in Actor, PresentationThrows(a) PROVE TurnsAreRight'
  <2>1. /\ MovesTo(a, "done") /\ actor[a].pc \in {"present", "fail"}
        /\ UNCHANGED <<phase, cancel, disturbed>>
    BY <1>3, Known, GoesTo DEF PresentationThrows, adapter, history
  <2> QED BY <2>1, FarFromTurns DEF Turning
<1>4. CASE StartRecovery
  <2>1. /\ \E pc \in {"draining", "done", "retry"} : MovesTo(Recovery, pc)
        /\ actor[Recovery].pc = "retry" /\ UNCHANGED <<phase, cancel, disturbed>>
    BY <1>4, Known, RecoverTo DEF StartRecovery, adapter, history
  <2> QED BY <2>1, Known, FarFromTurns DEF Turning
<1>5. CASE EnterRecovery
  <2>1. /\ MovesTo(Recovery, "start") /\ actor[Recovery].pc = "draining"
        /\ UNCHANGED <<phase, cancel, disturbed>>
    BY <1>5, Known, GoesTo DEF EnterRecovery, Enters, adapter, history
  <2> QED BY <2>1, Known, ActorAssumption, TurnsStay DEF Turning, ActorAssumption
<1>6. CASE Stop \/ Stopped \/ Cleared
  BY <1>6, ActorAssumption, StopKeepsTurns
<1>7. CASE Crash
  BY <1>7, CrashKeepsTurns
<1>8. CASE (\E k \in DOMAIN store : Lapse(k)) \/ UNCHANGED vars
  <2>1. UNCHANGED <<actor, phase, cancel, disturbed>>
    BY <1>8 DEF Lapse, vars, adapter, history
  <2> QED BY <2>1 DEF TurnsAreRight, CancelSound, UndisturbedIsBusy, QuietIsFree, Live
<1> QED BY <1>1, <1>2, <1>3, <1>4, <1>5, <1>6, <1>7, <1>8 DEF Next

LEMMA InitHasNoTurn == Init => TurnsAreRight
<1> SUFFICES ASSUME Init PROVE TurnsAreRight
  OBVIOUS
<1>1. \A a \in Actor : actor[a].pc \in {"new", "done", "retry"}
  BY DEF Init
<1>2. Live = {} /\ disturbed = {} /\ CancelSound
  BY <1>1 DEF Live, Turning, Init, CancelSound, NoCancel
<1> QED BY <1>2 DEF TurnsAreRight, UndisturbedIsBusy, QuietIsFree

LEMMA TurnsStayRight == Spec => [](IInv /\ TurnsAreRight)
<1>1. Init => IInv /\ TurnsAreRight
  BY InitIsRight, InitHasNoTurn
<1>2. IInv /\ TurnsAreRight /\ [Next]_vars => (IInv /\ TurnsAreRight)'
  BY NextIsRight, NextKeepsTurns
<1> QED BY <1>1, <1>2, PTL DEF Spec

-----------------------------------------------------------------------------
(* The theorems.                                                           *)

\* The queue holds one record of each input, and no actor waits at the gate
\* twice (dispatcher.ts, admit): one that asked for it while it is inside would
\* wait for itself.
THEOREM InputTypeCorrect == Spec => []InputTypeOK
<1>1. IInv /\ TurnsAreRight => InputTypeOK
  <2> SUFFICES ASSUME IInv, TurnsAreRight PROVE InputTypeOK
    OBVIOUS
  <2>1. /\ gate \in Seq(Actor) /\ Distinct(gate)
        /\ store \in Seq(RecordsOf(Message))
        /\ \A k, l \in DOMAIN store : store[k].id = store[l].id => k = l
    BY DEF IInv, GateIsRight, StoreSound
  <2>2. \A k, l \in DOMAIN gate : k # l => gate[k] # gate[l]
    BY <2>1 DEF Distinct
  <2> QED BY <2>1, <2>2 DEF InputTypeOK, IInv, Typed, TurnsAreRight, CancelSound
<1> QED BY <1>1, TurnsStayRight, PTL

\* Although the phase is read before awaits (dispatcher.ts:153, 319), and each
\* turn, its late turn.started and /stop write it on their own, a message
\* starts a turn, its own or that of a queued input, only where every turn that
\* is still live was reached by /stop or runs beside another.
THEOREM TurnsAreNotOverrun == Spec => NoTurnIsOverrun
<1> DEFINE A == \A m \in Message :
                  actor[m].pc = "start" /\ actor'[m].pc = "planning" => Live \subseteq disturbed
<1>1. TurnsAreRight => A
  BY DEF TurnsAreRight, QuietIsFree
<1>2. TurnsAreRight /\ [Next]_vars => [A]_vars
  BY <1>1
<1> HIDE DEF A
<1>3. Spec => [][A]_vars
  BY <1>2, TurnsStayRight, PTL DEF Spec
<1> QED BY <1>3 DEF NoTurnIsOverrun, A
=============================================================================
