------------------------ MODULE SubagentManagerProofs ------------------------
(***************************************************************************)
(* Proofs about the admission control of a Profile and about the manager    *)
(* that submits delegations to it, for any conversations, items and limits. *)
(*                                                                         *)
(* The scheduler: its sequences and its counter are bound to the states of   *)
(* the items (Sound).  The pump is a recursive function; what it computes   *)
(* is shown by induction over its rounds (Pumped).                          *)
(*                                                                         *)
(* The manager: what is reported of a delegation is what the ledger keeps   *)
(* of its Task (IInv).  That delegations execute in their slots, and that   *)
(* the scheduler keeps its promises when a shutdown removes many items at   *)
(* once, needs both parts (Linked).                                         *)
(***************************************************************************)
EXTENDS SubagentManager, QueueProofs, FiniteSetTheorems

WaitingFor(st, o) == {w \in Work : st[w] = "queued" /\ OwnerOf[w] = o}
Occupied(st) == {w \in Work : st[w] \in {"running", "settled"}}

\* What the queues, the ring and the counter say of the items.
Types(st, q, ring, last, r) ==
  /\ st \in [Work -> Status]
  /\ q \in [Owner -> Seq(Work)]
  /\ ring \in Seq(Owner)
  /\ last \in Owner \cup {NoOwner}
  /\ r \in Nat
Queues(st, q) ==
  \A o \in Owner : Distinct(q[o]) /\ Entries(q[o]) = WaitingFor(st, o)
Ring(q, ring) ==
  Distinct(ring) /\ Entries(ring) = {o \in Owner : q[o] # <<>>}
Slots(st, r) == r = Cardinality(Occupied(st))

Sound(st, q, ring, last, r) ==
  Types(st, q, ring, last, r) /\ Queues(st, q) /\ Ring(q, ring) /\ Slots(st, r)

-----------------------------------------------------------------------------
(* One round of the pump.                                                  *)

SoundData(s) == Sound(s.status, s.queue, s.owners, s.lastOwner, s.running)
WaitingItems(st) == {w \in Work : st[w] = "queued"}

\* The owner that is next is one of the ring, and not the last one when the
\* ring has another.
LEMMA NextOwnerIs ==
  ASSUME NEW ring \in Seq(Owner), ring # <<>>, Distinct(ring), NEW last
  PROVE  /\ NextOwner(ring, last) \in Entries(ring)
         /\ (\E o \in Entries(ring) : o # last) => NextOwner(ring, last) # last
<1> DEFINE n == Len(ring)
           i == IndexIn(ring, last)
<1>1. n \in Nat \ {0} /\ DOMAIN ring = 1 .. n
  OBVIOUS
<1>2. /\ i \in 0 .. n
      /\ i = 0 => last \notin Entries(ring)
      /\ i # 0 => i \in 1 .. n /\ ring[i] = last
  BY <1>1 DEF IndexIn, Entries
<1> HIDE DEF i, n
<1>3. (i % n) + 1 \in 1 .. n
  BY <1>1, <1>2
<1>4. NextOwner(ring, last) = ring[(i % n) + 1]
  BY DEF NextOwner, i, n
<1>5. ASSUME NEW o \in Entries(ring), o # last
      PROVE  NextOwner(ring, last) # last
  <2>1. CASE i = 0
    BY <1>1, <1>2, <1>3, <1>4, <2>1 DEF Entries
  <2>2. CASE i # 0
    <3>1. PICK j \in 1 .. n : ring[j] = o
      BY <1>1 DEF Entries
    <3>2. j # i
      BY <1>2, <1>5, <2>2, <3>1
    <3>3. (i % n) + 1 # i
      <4>1. CASE i = n
        <5>1. i % n = 0 /\ n # 1
          BY <1>1, <1>2, <3>1, <3>2, <4>1
        <5> QED BY <1>1, <4>1, <5>1
      <4>2. CASE i # n
        <5>1. i % n = i
          BY <1>1, <1>2, <4>2
        <5> QED BY <1>2, <5>1
      <4> QED BY <4>1, <4>2
    <3> QED BY <1>1, <1>2, <1>3, <1>4, <2>2, <3>3 DEF Distinct
  <2> QED BY <2>1, <2>2
<1> QED BY <1>1, <1>3, <1>4, <1>5 DEF Entries

\* The items are finitely many, so those of a kind can be counted.
LEMMA Counting ==
  ASSUME SchedulerAssumption, NEW S \in SUBSET Work
  PROVE  /\ IsFiniteSet(S) /\ Cardinality(S) \in Nat
         /\ Cardinality(S) <= Cardinality(Work) /\ Cardinality(Work) \in Nat
         /\ Cardinality(S) = 0 <=> S = {}
         /\ \A w \in Work \ S : Cardinality(S \cup {w}) = Cardinality(S) + 1
         /\ \A w \in S : Cardinality(S \ {w}) = Cardinality(S) - 1
<1>1. IsFiniteSet(Work)
  BY DEF SchedulerAssumption
<1>2. IsFiniteSet(S) /\ Cardinality(S) <= Cardinality(Work)
  BY <1>1, FS_Subset
<1>3. Cardinality(S) \in Nat /\ Cardinality(Work) \in Nat
  BY <1>1, <1>2, FS_CardinalityType
<1>4. Cardinality(S) = 0 <=> S = {}
  BY <1>2, FS_EmptySet
<1>5. \A w \in Work \ S : Cardinality(S \cup {w}) = Cardinality(S) + 1
  BY <1>2, FS_AddElement
<1>6. \A w \in S : Cardinality(S \ {w}) = Cardinality(S) - 1
  BY <1>2, FS_RemoveElement
<1> QED BY <1>2, <1>3, <1>4, <1>5, <1>6

\* The first item of the next owner starts.
LEMMA StartOneIs ==
  ASSUME SchedulerAssumption, NEW s, SoundData(s), s.owners # <<>>
  PROVE  LET t == StartOne(s) IN
         /\ SoundData(t)
         /\ t.running = s.running + 1
         /\ Cardinality(WaitingItems(t.status)) = Cardinality(WaitingItems(s.status)) - 1
         /\ \E v \in Work :
              /\ s.status[v] = "queued"
              /\ t.status = [s.status EXCEPT ![v] = "running"]
              /\ (\E o \in Entries(s.owners) : o # s.lastOwner) =>
                   OwnerOf[v] # s.lastOwner
<1> DEFINE st == s.status
           q == s.queue
           ring == s.owners
           o == NextOwner(ring, s.lastOwner)
           v == Head(q[o])
           rest == Tail(q[o])
           t == StartOne(s)
<1>1. /\ Types(st, q, ring, s.lastOwner, s.running)
      /\ Queues(st, q) /\ Ring(q, ring) /\ Slots(st, s.running)
  BY DEF SoundData, Sound
<1>2. /\ o \in Entries(ring)
      /\ (\E u \in Entries(ring) : u # s.lastOwner) => o # s.lastOwner
  BY <1>1, NextOwnerIs DEF Types, Ring
<1> HIDE DEF o
<1>3. o \in Owner /\ q[o] # <<>> /\ q[o] \in Seq(Work)
  BY <1>1, <1>2 DEF Ring, Types
<1>4. /\ rest \in Seq(Work) /\ v \in Work
      /\ v \in Entries(q[o])
      /\ Distinct(rest) /\ Entries(rest) = Entries(q[o]) \ {v}
  BY <1>1, <1>3, TailIs DEF Queues
<1>5. st[v] = "queued" /\ OwnerOf[v] = o
  BY <1>1, <1>3, <1>4 DEF Queues, WaitingFor
<1> HIDE DEF v, rest
<1>6. /\ t.status = [st EXCEPT ![v] = "running"]
      /\ t.queue = [q EXCEPT ![o] = rest]
      /\ t.owners = IF rest = <<>> THEN Without(ring, o) ELSE ring
      /\ t.lastOwner = o
      /\ t.running = s.running + 1
  BY DEF StartOne, o, v, rest
<1> HIDE DEF t, st, q, ring
<1>7. st \in [Work -> Status] /\ q \in [Owner -> Seq(Work)] /\ ring \in Seq(Owner)
      /\ s.running \in Nat
  BY <1>1 DEF Types
<1>8. /\ Without(ring, o) \in Seq(Owner) /\ Distinct(Without(ring, o))
      /\ Entries(Without(ring, o)) = Entries(ring) \ {o}
  <2>1. Entries(ring) \cap (Owner \ {o}) = Entries(ring) \ {o}
    BY <1>1 DEF Ring
  <2> QED BY <1>1, <1>7, <2>1, StayingIs DEF Without, Ring
<1>9. Types(t.status, t.queue, t.owners, t.lastOwner, t.running)
  <2>1. t.status \in [Work -> Status]
    BY <1>4, <1>6, <1>7 DEF Status
  <2>2. t.queue \in [Owner -> Seq(Work)]
    BY <1>3, <1>4, <1>6, <1>7
  <2>3. t.owners \in Seq(Owner) /\ t.lastOwner \in Owner /\ t.running \in Nat
    BY <1>3, <1>6, <1>7, <1>8
  <2> QED BY <2>1, <2>2, <2>3 DEF Types
<1>10. Queues(t.status, t.queue)
  <2> SUFFICES ASSUME NEW u \in Owner
               PROVE  Distinct(t.queue[u]) /\ Entries(t.queue[u]) = WaitingFor(t.status, u)
    BY DEF Queues
  <2>1. Distinct(q[u]) /\ Entries(q[u]) = WaitingFor(st, u)
    BY <1>1 DEF Queues
  <2>2. WaitingFor(t.status, u) = WaitingFor(st, u) \ {v}
    BY <1>4, <1>6, <1>7 DEF WaitingFor
  <2>3. CASE u = o
    BY <1>4, <1>6, <1>7, <2>1, <2>2, <2>3
  <2>4. CASE u # o
    <3>1. v \notin WaitingFor(st, u)
      BY <1>5, <2>4 DEF WaitingFor
    <3>2. WaitingFor(st, u) \ {v} = WaitingFor(st, u)
      BY <3>1
    <3>3. t.queue[u] = q[u]
      BY <1>6, <1>7, <2>4
    <3> QED BY <2>1, <2>2, <3>2, <3>3
  <2> QED BY <2>3, <2>4
<1>11. Ring(t.queue, t.owners)
  <2>1. \A u \in Owner : t.queue[u] = IF u = o THEN rest ELSE q[u]
    BY <1>6, <1>7
  <2>2. Distinct(ring) /\ Entries(ring) = {u \in Owner : q[u] # <<>>}
    BY <1>1 DEF Ring
  <2>3. CASE rest = <<>>
    <3>1. {u \in Owner : t.queue[u] # <<>>} = Entries(ring) \ {o}
      BY <2>1, <2>2, <2>3
    <3> QED BY <1>6, <1>8, <2>3, <3>1 DEF Ring
  <2>4. CASE rest # <<>>
    <3>1. {u \in Owner : t.queue[u] # <<>>} = Entries(ring)
      BY <1>2, <2>1, <2>2, <2>4
    <3> QED BY <1>6, <2>2, <2>4, <3>1 DEF Ring
  <2> QED BY <2>3, <2>4
<1>12. Slots(t.status, t.running)
  <2>1. Occupied(t.status) = Occupied(st) \cup {v} /\ v \notin Occupied(st)
    BY <1>4, <1>5, <1>6, <1>7 DEF Occupied
  <2>2. Occupied(st) \in SUBSET Work
    BY DEF Occupied
  <2>3. v \in Work \ Occupied(st)
    BY <1>4, <2>1
  <2>4. Cardinality(Occupied(st) \cup {v}) = Cardinality(Occupied(st)) + 1
    BY <2>2, <2>3, Counting
  <2> QED BY <1>1, <1>6, <2>1, <2>4 DEF Slots
<1>13. Cardinality(WaitingItems(t.status)) = Cardinality(WaitingItems(st)) - 1
  <2>1. WaitingItems(t.status) = WaitingItems(st) \ {v} /\ v \in WaitingItems(st)
    BY <1>4, <1>5, <1>6, <1>7 DEF WaitingItems
  <2>2. WaitingItems(st) \in SUBSET Work
    BY DEF WaitingItems
  <2> QED BY <2>1, <2>2, Counting
<1>14. SoundData(t)
  BY <1>9, <1>10, <1>11, <1>12 DEF SoundData, Sound
<1> QED
  BY <1>2, <1>4, <1>5, <1>6, <1>13, <1>14 DEF st, ring, t

-----------------------------------------------------------------------------
(* The pump.                                                               *)

\* What t, the data after some rounds, is of the data s from before.  After n
\* rounds the slots are taken, or n items fewer than there are wait.
Pumped(s, t, n) ==
  /\ SoundData(t)
  /\ \A w \in Work : t.status[w] = s.status[w]
                     \/ (s.status[w] = "queued" /\ t.status[w] = "running")
  /\ CanStart(t) => Cardinality(WaitingItems(t.status)) + n <= Cardinality(Work)
  /\ t.running <= s.running \/ t.running <= currentConcurrent
  /\ t = s \/ ((\E o \in Entries(s.owners) : o # s.lastOwner) =>
       \E v \in Work : /\ s.status[v] = "queued" /\ t.status[v] = "running"
                       /\ OwnerOf[v] # s.lastOwner)

\* Another round.
LEMMA RoundIs ==
  ASSUME SchedulerAssumption, currentConcurrent \in Nat,
         NEW s, NEW t, NEW n \in Nat, Pumped(s, t, n)
  PROVE  Pumped(s, IF CanStart(t) THEN StartOne(t) ELSE t, n + 1)
<1>1. CASE ~CanStart(t)
  BY <1>1 DEF Pumped
<1>2. CASE CanStart(t)
  <2> DEFINE u == StartOne(t)
  <2>1. SoundData(t) /\ t.owners # <<>> /\ t.running < currentConcurrent
    BY <1>2 DEF Pumped, CanStart
  <2>2. PICK v \in Work :
          /\ t.status[v] = "queued"
          /\ u.status = [t.status EXCEPT ![v] = "running"]
          /\ (\E o \in Entries(t.owners) : o # t.lastOwner) => OwnerOf[v] # t.lastOwner
    BY <2>1, StartOneIs
  <2>3. /\ SoundData(u) /\ u.running = t.running + 1
        /\ Cardinality(WaitingItems(u.status)) = Cardinality(WaitingItems(t.status)) - 1
    BY <2>1, StartOneIs
  <2> HIDE DEF u
  <2>4. t.status \in [Work -> Status] /\ t.running \in Nat
        /\ Cardinality(WaitingItems(t.status)) \in Nat /\ Cardinality(Work) \in Nat
    <3>1. WaitingItems(t.status) \in SUBSET Work
      BY DEF WaitingItems
    <3>2. Types(t.status, t.queue, t.owners, t.lastOwner, t.running)
      BY <2>1 DEF SoundData, Sound
    <3>3. Cardinality(WaitingItems(t.status)) \in Nat /\ Cardinality(Work) \in Nat
      BY <3>1, Counting
    <3> QED BY <3>2, <3>3 DEF Types
  <2>5. \A w \in Work : u.status[w] = s.status[w]
                        \/ (s.status[w] = "queued" /\ u.status[w] = "running")
    <3>1. \A w \in Work : u.status[w] = IF w = v THEN "running" ELSE t.status[w]
      BY <2>2, <2>4
    <3>2. \A w \in Work : t.status[w] = s.status[w]
                          \/ (s.status[w] = "queued" /\ t.status[w] = "running")
      BY DEF Pumped
    <3> QED BY <2>2, <3>1, <3>2
  <2>6. Cardinality(WaitingItems(u.status)) + (n + 1) <= Cardinality(Work)
    <3>1. Cardinality(WaitingItems(t.status)) + n <= Cardinality(Work)
      BY <1>2 DEF Pumped
    <3> QED BY <2>3, <2>4, <3>1
  <2>7. u.running <= currentConcurrent
    BY <2>1, <2>3, <2>4
  <2>8. (\E o \in Entries(s.owners) : o # s.lastOwner) =>
          \E w \in Work : /\ s.status[w] = "queued" /\ u.status[w] = "running"
                          /\ OwnerOf[w] # s.lastOwner
    <3>1. CASE t = s
      <4>1. u.status[v] = "running"
        BY <2>2, <2>4
      <4> QED BY <2>2, <3>1, <4>1
    <3>2. CASE t # s
      <4> SUFFICES ASSUME \E o \in Entries(s.owners) : o # s.lastOwner
                   PROVE  \E w \in Work : /\ s.status[w] = "queued"
                                          /\ u.status[w] = "running"
                                          /\ OwnerOf[w] # s.lastOwner
        OBVIOUS
      <4>1. PICK w \in Work : /\ s.status[w] = "queued" /\ t.status[w] = "running"
                              /\ OwnerOf[w] # s.lastOwner
        BY <3>2 DEF Pumped
      <4>2. u.status[w] = "running"
        BY <2>2, <2>4, <4>1
      <4> QED BY <4>1, <4>2
    <3> QED BY <3>1, <3>2
  <2>9. Pumped(s, u, n + 1)
    BY <2>3, <2>5, <2>6, <2>7, <2>8 DEF Pumped
  <2> QED BY <1>2, <2>9 DEF u
<1> QED BY <1>1, <1>2

\* All rounds.
LEMMA PumpIs ==
  ASSUME SchedulerAssumption, currentConcurrent \in Nat, NEW s, SoundData(s),
         NEW t \in Pump(s)
  PROVE  Pumped(s, t, Cardinality(Work))
<1> DEFINE N == Cardinality(Work)
           turn(x) == IF CanStart(x) THEN StartOne(x) ELSE x
           step(f, n) == IF n = 0 THEN {s} ELSE {turn(x) : x \in f[n - 1]}
           k == CHOOSE f : f = [n \in 0 .. N |-> step(f, n)]
           D == {m \in Nat : m <= N => \E f : f = [n \in 0 .. m |-> step(f, n)]}
           E == {m \in Nat : m <= N => \A x \in k[m] : Pumped(s, x, m)}
<1>1. N \in Nat /\ Cardinality(WaitingItems(s.status)) <= N
      /\ Cardinality(WaitingItems(s.status)) \in Nat
  <2>1. WaitingItems(s.status) \in SUBSET Work
    BY DEF WaitingItems
  <2> QED BY <2>1, Counting
<1>2. 0 \in D
  <2> DEFINE f == [n \in 0 .. 0 |-> {s}]
  <2>1. f = [n \in 0 .. 0 |-> step(f, n)]
    OBVIOUS
  <2> QED BY <2>1
<1>3. ASSUME NEW m \in Nat, m \in D
      PROVE  m + 1 \in D
  <2> SUFFICES ASSUME m + 1 <= N
               PROVE  \E f : f = [n \in 0 .. m + 1 |-> step(f, n)]
    <3> HIDE DEF step
    <3> QED OBVIOUS
  <2>1. PICK f : f = [n \in 0 .. m |-> step(f, n)]
    <3>1. m <= N
      BY <1>1
    <3> HIDE DEF step
    <3> QED BY <1>3, <3>1
  <2> DEFINE g == [n \in 0 .. m + 1 |-> IF n = m + 1 THEN step(f, m + 1) ELSE f[n]]
  <2>2. \A n \in 0 .. m : g[n] = f[n]
    OBVIOUS
  <2>3. \A n \in 0 .. m + 1 : g[n] = step(g, n)
    <3> SUFFICES ASSUME NEW n \in 0 .. m + 1 PROVE g[n] = step(g, n)
      OBVIOUS
    <3>1. n # 0 => n - 1 \in 0 .. m
      OBVIOUS
    <3>2. step(g, n) = step(f, n)
      <4> HIDE DEF g, turn
      <4> QED BY <2>2, <3>1
    <3>3. g[n] = step(f, n)
      <4>1. n # m + 1 => n \in 0 .. m
        OBVIOUS
      <4> HIDE DEF step
      <4> QED BY <2>1, <4>1
    <3> QED BY <3>2, <3>3
  <2>4. g = [n \in 0 .. m + 1 |-> step(g, n)]
    <3>1. g = [n \in 0 .. m + 1 |-> g[n]]
      OBVIOUS
    <3> HIDE DEF g, step
    <3> QED BY <2>3, <3>1
  <2> HIDE DEF g, step
  <2> QED BY <2>4
<1>4. k = [n \in 0 .. N |-> step(k, n)]
  <2>1. N \in D
    <3> HIDE DEF D
    <3> QED BY <1>1, <1>2, <1>3, NatSets
  <2> HIDE DEF step, N
  <2>2. \E f : f = [n \in 0 .. N |-> step(f, n)]
    BY <1>1, <2>1
  <2> QED BY <2>2
<1>5. \A n \in 0 .. N : k[n] = step(k, n)
  <2> HIDE DEF k, step
  <2> QED BY <1>4
<1>6. 0 \in E
  <2>1. k[0] = {s}
    <3>1. 0 \in 0 .. N
      BY <1>1
    <3> HIDE DEF k, turn
    <3> QED BY <1>5, <3>1
  <2>2. Pumped(s, s, 0)
    <3>1. s.running <= s.running
      BY DEF SoundData, Sound, Types
    <3> QED BY <1>1, <3>1 DEF Pumped
  <2> HIDE DEF k
  <2> QED BY <2>1, <2>2
<1>7. ASSUME NEW m \in Nat, m \in E
      PROVE  m + 1 \in E
  <2> SUFFICES ASSUME m + 1 <= N, NEW x \in k[m + 1]
               PROVE  Pumped(s, x, m + 1)
    <3> HIDE DEF k
    <3> QED OBVIOUS
  <2>1. m \in 0 .. N /\ m + 1 \in 0 .. N /\ m + 1 # 0 /\ (m + 1) - 1 = m /\ m <= N
    BY <1>1
  <2>2. k[m + 1] = {turn(y) : y \in k[m]}
    <3> HIDE DEF k, turn
    <3> QED BY <1>5, <2>1
  <2>3. PICK y \in k[m] : x = turn(y)
    <3> HIDE DEF k, turn
    <3> QED BY <2>2
  <2>4. Pumped(s, y, m)
    <3> HIDE DEF k, turn
    <3> QED BY <1>7, <2>1
  <2> QED BY <2>3, <2>4, RoundIs
<1>8. N \in E
  <2> HIDE DEF E
  <2> QED BY <1>1, <1>6, <1>7, NatSets
<1>9. Pump(s) = k[N]
  BY DEF Pump
<1> HIDE DEF k
<1> QED BY <1>8, <1>9

\* What a step that ends with a pump leaves, when what it pumps is sound.
LEMMA PumpFromIs ==
  ASSUME SchedulerAssumption, currentConcurrent \in Nat,
         NEW st, NEW q, NEW ring, NEW r, Sound(st, q, ring, lastOwner, r),
         PumpFrom(st, q, ring, r)
  PROVE  /\ Sound(status', queue', owners', lastOwner', running')
         /\ \A w \in Work : status'[w] = st[w]
                            \/ (st[w] = "queued" /\ status'[w] = "running")
         /\ (\E w \in Work : status'[w] = "queued") => running' >= currentConcurrent
         /\ running' <= r \/ running' <= currentConcurrent
         /\ status' = st \/ \A o \in Owner \ {lastOwner} : q[o] # <<>> =>
              \E v \in Work : /\ st[v] = "queued" /\ status'[v] = "running"
                              /\ OwnerOf[v] # lastOwner
<1> DEFINE s == [status |-> st, queue |-> q, owners |-> ring,
                 lastOwner |-> lastOwner, running |-> r]
<1>1. PICK t \in Pump(s) :
        /\ status' = t.status /\ queue' = t.queue /\ owners' = t.owners
        /\ lastOwner' = t.lastOwner /\ running' = t.running
  BY DEF PumpFrom
<1>2. /\ s.status = st /\ s.queue = q /\ s.owners = ring
      /\ s.lastOwner = lastOwner /\ s.running = r
  OBVIOUS
<1> HIDE DEF s
<1>3. SoundData(s)
  BY <1>2 DEF SoundData
<1>4. Pumped(s, t, Cardinality(Work))
  BY <1>3, PumpIs
<1>5. Sound(status', queue', owners', lastOwner', running')
  BY <1>1, <1>4 DEF Pumped, SoundData
<1>6. ASSUME NEW w \in Work, status'[w] = "queued"
      PROVE  running' >= currentConcurrent
  <2>1. w \in WaitingItems(t.status) /\ WaitingItems(t.status) \in SUBSET Work
    BY <1>1, <1>6 DEF WaitingItems
  <2>2. ~CanStart(t)
    <3>1. /\ Cardinality(WaitingItems(t.status)) \in Nat
          /\ Cardinality(WaitingItems(t.status)) # 0 /\ Cardinality(Work) \in Nat
      BY <2>1, Counting
    <3> QED BY <1>4, <3>1 DEF Pumped
  <2>3. owners' # <<>>
    <3>1. Queues(status', queue') /\ Ring(queue', owners')
          /\ OwnerOf[w] \in Owner
      BY <1>5 DEF Sound, SchedulerAssumption
    <3>2. w \in Entries(queue'[OwnerOf[w]])
      BY <1>6, <3>1 DEF Queues, WaitingFor
    <3>3. queue'[OwnerOf[w]] # <<>>
      BY <3>2 DEF Entries
    <3>4. OwnerOf[w] \in Entries(owners')
      BY <3>1, <3>3 DEF Ring
    <3> QED BY <3>4 DEF Entries
  <2>4. running' \in Nat
    BY <1>5 DEF Sound, Types
  <2> QED BY <1>1, <2>2, <2>3, <2>4 DEF CanStart
<1>7. ASSUME status' # st, NEW o \in Owner \ {lastOwner}, q[o] # <<>>
      PROVE  \E v \in Work : /\ st[v] = "queued" /\ status'[v] = "running"
                             /\ OwnerOf[v] # lastOwner
  <2>1. t # s
    BY <1>1, <1>2, <1>7
  <2>2. o \in Entries(ring)
    BY <1>7 DEF Sound, Ring
  <2> QED BY <1>1, <1>2, <1>4, <1>7, <2>1, <2>2 DEF Pumped
<1>8. /\ \A w \in Work : status'[w] = st[w]
                         \/ (st[w] = "queued" /\ status'[w] = "running")
      /\ running' <= r \/ running' <= currentConcurrent
  BY <1>1, <1>2, <1>4 DEF Pumped
<1> QED BY <1>5, <1>6, <1>7, <1>8

-----------------------------------------------------------------------------
(* The operations.                                                         *)

\* The limits, the slots that are in use when nobody just settled, and the
\* bound on them.
Limits ==
  /\ currentConcurrent \in 1 .. MaxConcurrent
  /\ consecutiveSuccesses \in 0 .. IncreaseAfterSuccesses - 1

SlotsBounded == running <= MaxConcurrent

SInv ==
  /\ Sound(status, queue, owners, lastOwner, running)
  /\ Limits /\ NoIdleSlot /\ SlotsBounded

\* What a step may start: the first it starts is of another owner, if one waits.
TakesTurns ==
  \A w \in Work :
    (Started(w) /\ OwnerOf[w] = lastOwner)
      => \A o \in Owner \ {lastOwner} : queue[o] # <<>> =>
           \E v \in Work : Started(v) /\ OwnerOf[v] # lastOwner

LEMMA LimitsAre ==
  ASSUME SchedulerAssumption, SInv
  PROVE  /\ currentConcurrent \in Nat \ {0} /\ MaxConcurrent \in Nat \ {0}
         /\ currentConcurrent <= MaxConcurrent /\ running \in Nat
         /\ status \in [Work -> Status] /\ queue \in [Owner -> Seq(Work)]
         /\ owners \in Seq(Owner)
BY DEF SInv, Sound, Types, Limits, SchedulerAssumption

\* An item that joins the queue of its owner.
LEMMA Joins ==
  ASSUME SchedulerAssumption, SInv, NEW w \in Work, status[w] = "idle"
  PROVE  LET o == OwnerOf[w] IN
         Sound([status EXCEPT ![w] = "queued"],
               [queue EXCEPT ![o] = Append(@, w)],
               IF queue[o] = <<>> THEN Append(owners, o) ELSE owners,
               lastOwner, running)
<1> DEFINE o == OwnerOf[w]
           st == [status EXCEPT ![w] = "queued"]
           x == Append(queue[o], w)
           q == [queue EXCEPT ![o] = x]
           ring == IF queue[o] = <<>> THEN Append(owners, o) ELSE owners
<1>1. /\ Types(status, queue, owners, lastOwner, running)
      /\ Queues(status, queue) /\ Ring(queue, owners) /\ Slots(status, running)
  BY DEF SInv, Sound
<1>2. /\ o \in Owner /\ queue[o] \in Seq(Work) /\ owners \in Seq(Owner)
      /\ status \in [Work -> Status] /\ queue \in [Owner -> Seq(Work)]
  BY <1>1 DEF Types, SchedulerAssumption
<1>3. w \notin Entries(queue[o]) /\ Distinct(queue[o])
  BY <1>1, <1>2 DEF Queues, WaitingFor
<1>4. /\ x \in Seq(Work) /\ x # <<>> /\ Distinct(x)
      /\ Entries(x) = Entries(queue[o]) \cup {w}
  <2> DEFINE y == queue[o]
  <2>1. y \in Seq(Work) /\ w \notin Entries(y) /\ Distinct(y)
    BY <1>2, <1>3
  <2> HIDE DEF y
  <2>2. /\ Append(y, w) \in Seq(Work) /\ Append(y, w) # <<>>
        /\ Entries(Append(y, w)) = Entries(y) \cup {w} /\ Distinct(Append(y, w))
    BY <2>1, AppendIs
  <2> QED BY <2>2 DEF y
<1> HIDE DEF x
<1>5. \A u \in Owner : q[u] = IF u = o THEN x ELSE queue[u]
  BY <1>2
<1>6. \A v \in Work : st[v] = IF v = w THEN "queued" ELSE status[v]
  BY <1>2
<1>7. queue[o] = <<>> =>
        /\ Append(owners, o) \in Seq(Owner) /\ Distinct(Append(owners, o))
        /\ Entries(Append(owners, o)) = Entries(owners) \cup {o}
  BY <1>1, <1>2, AppendIs DEF Ring
<1>8. Types(st, q, ring, lastOwner, running)
  <2>1. st \in [Work -> Status]
    BY <1>2 DEF Status
  <2>2. q \in [Owner -> Seq(Work)]
    BY <1>2, <1>4
  <2>3. ring \in Seq(Owner)
    BY <1>2, <1>7
  <2> QED BY <1>1, <2>1, <2>2, <2>3 DEF Types
<1> HIDE DEF st, q
<1>9. Queues(st, q)
  <2> SUFFICES ASSUME NEW u \in Owner
               PROVE  Distinct(q[u]) /\ Entries(q[u]) = WaitingFor(st, u)
    BY DEF Queues
  <2>1. Distinct(queue[u]) /\ Entries(queue[u]) = WaitingFor(status, u)
    BY <1>1 DEF Queues
  <2>2. CASE u = o
    <3>1. WaitingFor(st, u) = WaitingFor(status, u) \cup {w}
      BY <1>6, <2>2 DEF WaitingFor
    <3> QED BY <1>4, <1>5, <2>1, <2>2, <3>1
  <2>3. CASE u # o
    <3>1. WaitingFor(st, u) = WaitingFor(status, u)
      BY <1>6, <2>3 DEF WaitingFor
    <3> QED BY <1>5, <2>1, <2>3, <3>1
  <2> QED BY <2>2, <2>3
<1>10. Ring(q, ring)
  <2>1. Distinct(owners) /\ Entries(owners) = {u \in Owner : queue[u] # <<>>}
    BY <1>1 DEF Ring
  <2>2. {u \in Owner : q[u] # <<>>} = Entries(owners) \cup {o}
    BY <1>2, <1>4, <1>5, <2>1
  <2>3. CASE queue[o] = <<>>
    BY <1>7, <2>2, <2>3 DEF Ring
  <2>4. CASE queue[o] # <<>>
    <3>1. Entries(owners) \cup {o} = Entries(owners)
      BY <1>2, <2>1, <2>4
    <3> QED BY <2>1, <2>2, <2>4, <3>1 DEF Ring
  <2> QED BY <2>3, <2>4
<1>11. Slots(st, running)
  <2>1. Occupied(st) = Occupied(status)
    BY <1>6 DEF Occupied
  <2> QED BY <1>1, <2>1 DEF Slots
<1>12. Sound(st, q, ring, lastOwner, running)
  BY <1>8, <1>9, <1>10, <1>11 DEF Sound
<1> QED BY <1>12 DEF st, q, x

\* A step that pumps what is sound, in which a slot was given back at most.
LEMMA PumpKeeps ==
  ASSUME SchedulerAssumption, SInv,
         NEW st \in [Work -> Status], NEW q, NEW ring, NEW r,
         Sound(st, q, ring, lastOwner, r), PumpFrom(st, q, ring, r),
         UNCHANGED <<currentConcurrent, consecutiveSuccesses>>, r <= running,
         \A o \in Owner : queue[o] # <<>> => q[o] # <<>>,
         \A w \in Work : st[w] = status[w] \/ (st[w] # "running" /\ status[w] # "running")
  PROVE  SInv' /\ TakesTurns
<1>1. currentConcurrent \in Nat /\ currentConcurrent <= MaxConcurrent
      /\ MaxConcurrent \in Nat /\ running \in Nat
  BY LimitsAre
<1>2. Sound(status', queue', owners', lastOwner', running')
  BY <1>1, PumpFromIs
<1>3. \A w \in Work : status'[w] = st[w]
                      \/ (st[w] = "queued" /\ status'[w] = "running")
  BY <1>1, PumpFromIs
<1>4. (\E w \in Work : status'[w] = "queued") => running' >= currentConcurrent
  BY <1>1, PumpFromIs
<1>5. running' <= r \/ running' <= currentConcurrent
  BY <1>1, PumpFromIs
<1>6. status' = st \/ \A o \in Owner \ {lastOwner} : q[o] # <<>> =>
        \E v \in Work : /\ st[v] = "queued" /\ status'[v] = "running"
                        /\ OwnerOf[v] # lastOwner
  BY <1>1, PumpFromIs
<1>7. running' \in Nat /\ r \in Nat
  BY <1>2 DEF Sound, Types
<1>8. Limits'
  BY DEF SInv, Limits
<1>9. SlotsBounded'
  BY <1>1, <1>5, <1>7 DEF SInv, SlotsBounded
<1>10. NoIdleSlot'
  BY <1>4 DEF NoIdleSlot, Queued
<1>11. TakesTurns
  <2> SUFFICES ASSUME NEW w \in Work, Started(w), OwnerOf[w] = lastOwner,
                      NEW o \in Owner \ {lastOwner}, queue[o] # <<>>
               PROVE  \E v \in Work : Started(v) /\ OwnerOf[v] # lastOwner
    BY DEF TakesTurns
  <2>1. status' # st
    BY DEF Started
  <2>2. PICK v \in Work : /\ st[v] = "queued" /\ status'[v] = "running"
                          /\ OwnerOf[v] # lastOwner
    BY <1>6, <2>1
  <2>3. Started(v)
    BY <2>2 DEF Started
  <2> QED BY <2>2, <2>3
<1> QED BY <1>2, <1>8, <1>9, <1>10, <1>11 DEF SInv

LEMMA SubmitKeeps ==
  ASSUME SchedulerAssumption, SInv, NEW w \in Work, Submit(w)
  PROVE  SInv' /\ TakesTurns
<1> DEFINE o == OwnerOf[w]
           st == [status EXCEPT ![w] = "queued"]
           q == [queue EXCEPT ![o] = Append(@, w)]
           ring == IF queue[o] = <<>> THEN Append(owners, o) ELSE owners
<1>1. /\ status[w] = "idle" /\ PumpFrom(st, q, ring, running)
      /\ UNCHANGED <<currentConcurrent, consecutiveSuccesses>>
  BY DEF Submit
<1>2. Sound(st, q, ring, lastOwner, running)
  BY <1>1, Joins
<1>3. /\ status \in [Work -> Status] /\ queue \in [Owner -> Seq(Work)] /\ o \in Owner
      /\ running \in Nat
  BY LimitsAre DEF SchedulerAssumption
<1>4. \A v \in Work : st[v] = status[v] \/ (st[v] # "running" /\ status[v] # "running")
  BY <1>1, <1>3
<1>5. \A u \in Owner : queue[u] # <<>> => q[u] # <<>>
  <2>1. queue[o] \in Seq(Work) /\ Append(queue[o], w) # <<>>
    BY <1>3
  <2>2. \A u \in Owner : q[u] = IF u = o THEN Append(queue[o], w) ELSE queue[u]
    BY <1>3
  <2> QED BY <2>1, <2>2
<1>6. st \in [Work -> Status] /\ running <= running
  BY <1>3 DEF Status
<1> HIDE DEF st, q, ring
<1> QED BY <1>1, <1>2, <1>4, <1>5, <1>6, PumpKeeps

\* A settled item that gives its slot back.
LEMMA GivesBack ==
  ASSUME SchedulerAssumption, SInv, NEW w \in Work, status[w] = "settled"
  PROVE  Sound([status EXCEPT ![w] = "idle"], queue, owners, lastOwner, running - 1)
<1> DEFINE st == [status EXCEPT ![w] = "idle"]
<1>1. /\ Types(status, queue, owners, lastOwner, running)
      /\ Queues(status, queue) /\ Ring(queue, owners) /\ Slots(status, running)
  BY DEF SInv, Sound
<1>2. status \in [Work -> Status] /\ running \in Nat
  BY <1>1 DEF Types
<1>3. st \in [Work -> Status] /\ \A v \in Work : st[v] = IF v = w THEN "idle" ELSE status[v]
  BY <1>2 DEF Status
<1> HIDE DEF st
<1>4. Slots(st, running - 1) /\ running - 1 \in Nat
  <2>1. Occupied(st) = Occupied(status) \ {w} /\ w \in Occupied(status)
    BY <1>3 DEF Occupied
  <2>2. Occupied(status) \in SUBSET Work /\ Occupied(st) \in SUBSET Work
    BY DEF Occupied
  <2>3. Cardinality(Occupied(status) \ {w}) = Cardinality(Occupied(status)) - 1
    BY <2>1, <2>2, Counting
  <2>4. Cardinality(Occupied(st)) \in Nat
    BY <2>2, Counting
  <2> QED BY <1>1, <2>1, <2>3, <2>4 DEF Slots
<1>5. Queues(st, queue)
  <2>1. \A o \in Owner : WaitingFor(st, o) = WaitingFor(status, o)
    BY <1>3 DEF WaitingFor
  <2> QED BY <1>1, <2>1 DEF Queues
<1>6. Sound(st, queue, owners, lastOwner, running - 1)
  BY <1>1, <1>3, <1>4, <1>5 DEF Sound, Types
<1> QED BY <1>6 DEF st

LEMMA ReleaseKeeps ==
  ASSUME SchedulerAssumption, SInv, NEW w \in Work, Release(w)
  PROVE  SInv' /\ TakesTurns
<1> DEFINE st == [status EXCEPT ![w] = "idle"]
<1>1. /\ status[w] = "settled" /\ PumpFrom(st, queue, owners, running - 1)
      /\ UNCHANGED <<currentConcurrent, consecutiveSuccesses>>
  BY DEF Release
<1>2. Sound(st, queue, owners, lastOwner, running - 1)
  BY <1>1, GivesBack
<1>3. status \in [Work -> Status] /\ running \in Nat
  BY LimitsAre
<1>4. st \in [Work -> Status] /\ \A v \in Work : st[v] = IF v = w THEN "idle" ELSE status[v]
  BY <1>3 DEF Status
<1>5. /\ \A v \in Work : st[v] = status[v] \/ (st[v] # "running" /\ status[v] # "running")
      /\ running - 1 <= running
  BY <1>1, <1>3, <1>4
<1> HIDE DEF st
<1> QED BY <1>1, <1>2, <1>4, <1>5, PumpKeeps

\* Which items a submission and a release move.
LEMMA SubmitMoves ==
  ASSUME SchedulerAssumption, SInv, NEW w \in Work, Submit(w)
  PROVE  /\ status[w] = "idle" /\ status'[w] \in {"queued", "running"}
         /\ \A v \in Work \ {w} : status'[v] = status[v]
                                 \/ (status[v] = "queued" /\ status'[v] = "running")
<1> DEFINE o == OwnerOf[w]
           st == [status EXCEPT ![w] = "queued"]
           q == [queue EXCEPT ![o] = Append(@, w)]
           ring == IF queue[o] = <<>> THEN Append(owners, o) ELSE owners
<1>1. status[w] = "idle" /\ PumpFrom(st, q, ring, running)
  BY DEF Submit
<1>2. Sound(st, q, ring, lastOwner, running)
  BY <1>1, Joins
<1>3. currentConcurrent \in Nat /\ status \in [Work -> Status]
  BY LimitsAre
<1>4. \A v \in Work : st[v] = IF v = w THEN "queued" ELSE status[v]
  BY <1>3
<1> HIDE DEF st, q, ring
<1>5. \A v \in Work : status'[v] = st[v] \/ (st[v] = "queued" /\ status'[v] = "running")
  BY <1>1, <1>2, <1>3, PumpFromIs
<1> QED BY <1>1, <1>4, <1>5

LEMMA ReleaseMoves ==
  ASSUME SchedulerAssumption, SInv, NEW w \in Work, Release(w)
  PROVE  /\ status[w] = "settled" /\ status'[w] = "idle"
         /\ \A v \in Work \ {w} : status'[v] = status[v]
                                 \/ (status[v] = "queued" /\ status'[v] = "running")
<1> DEFINE st == [status EXCEPT ![w] = "idle"]
<1>1. status[w] = "settled" /\ PumpFrom(st, queue, owners, running - 1)
  BY DEF Release
<1>2. Sound(st, queue, owners, lastOwner, running - 1)
  BY GivesBack DEF Release
<1>3. currentConcurrent \in Nat /\ status \in [Work -> Status]
  BY LimitsAre
<1>4. \A v \in Work : st[v] = IF v = w THEN "idle" ELSE status[v]
  BY <1>3
<1> HIDE DEF st
<1>5. \A v \in Work : status'[v] = st[v] \/ (st[v] = "queued" /\ status'[v] = "running")
  BY <1>1, <1>2, <1>3, PumpFromIs
<1> QED BY <1>1, <1>4, <1>5

\* Queued items leave.
LEMMA RemoveKeeps ==
  ASSUME SchedulerAssumption, SInv, NEW S \in SUBSET Work,
         \A w \in S : status[w] = "queued", Remove(S)
  PROVE  SInv' /\ TakesTurns
<1>1. /\ Types(status, queue, owners, lastOwner, running)
      /\ Queues(status, queue) /\ Ring(queue, owners) /\ Slots(status, running)
      /\ Limits /\ NoIdleSlot /\ SlotsBounded
  BY DEF SInv, Sound
<1>2. /\ status' = [w \in Work |-> IF w \in S THEN "idle" ELSE status[w]]
      /\ queue' = [o \in Owner |-> Staying(queue[o], Work \ S)]
      /\ owners' = Staying(owners, {o \in Owner : queue'[o] # <<>>})
      /\ UNCHANGED <<lastOwner, running, currentConcurrent, consecutiveSuccesses>>
  BY DEF Remove
<1>3. /\ status \in [Work -> Status] /\ queue \in [Owner -> Seq(Work)]
      /\ owners \in Seq(Owner)
  BY <1>1 DEF Types
<1>4. \A o \in Owner :
        /\ queue'[o] \in Seq(Work) /\ Distinct(queue'[o])
        /\ Entries(queue'[o]) = Entries(queue[o]) \cap (Work \ S)
  <2> SUFFICES ASSUME NEW o \in Owner
               PROVE  /\ queue'[o] \in Seq(Work) /\ Distinct(queue'[o])
                      /\ Entries(queue'[o]) = Entries(queue[o]) \cap (Work \ S)
    OBVIOUS
  <2>1. queue[o] \in Seq(Work) /\ Distinct(queue[o])
    BY <1>1, <1>3 DEF Queues
  <2>2. queue'[o] = Staying(queue[o], Work \ S)
    BY <1>2
  <2> QED BY <2>1, <2>2, StayingIs
<1>5. \A w \in Work : status'[w] = IF w \in S THEN "idle" ELSE status[w]
  BY <1>2
<1>6. Queues(status', queue')
  <2>1. \A o \in Owner : WaitingFor(status', o) = WaitingFor(status, o) \cap (Work \ S)
    BY <1>5 DEF WaitingFor
  <2> QED BY <1>1, <1>4, <2>1 DEF Queues
<1>7. owners' \in Seq(Owner) /\ Ring(queue', owners')
  <2> DEFINE left == {o \in Owner : queue'[o] # <<>>}
  <2>1. /\ owners' \in Seq(Owner) /\ Entries(owners') = Entries(owners) \cap left
        /\ Distinct(owners')
    BY <1>1, <1>2, <1>3, StayingIs DEF Ring
  <2>2. left \subseteq Entries(owners)
    <3> SUFFICES ASSUME NEW o \in Owner, queue'[o] # <<>>
                 PROVE  queue[o] # <<>>
      BY <1>1 DEF Ring
    <3>1. queue'[o] \in Seq(Work) /\ Entries(queue'[o]) \subseteq Entries(queue[o])
      BY <1>4
    <3>2. Entries(queue'[o]) # {}
      <4>1. 1 \in DOMAIN queue'[o]
        BY <3>1
      <4> QED BY <4>1 DEF Entries
    <3>3. Entries(<<>>) = {}
      BY DEF Entries
    <3> QED BY <3>1, <3>2, <3>3
  <2> QED BY <2>1, <2>2 DEF Ring
<1>8. Slots(status', running')
  <2>1. Occupied(status') = Occupied(status)
    BY <1>5 DEF Occupied
  <2> QED BY <1>1, <1>2, <2>1 DEF Slots
<1>9. Types(status', queue', owners', lastOwner', running')
  <2>1. status' \in [Work -> Status]
    BY <1>2, <1>3 DEF Status
  <2>2. queue' \in [Owner -> Seq(Work)]
    BY <1>2, <1>4
  <2> QED BY <1>1, <1>2, <1>7, <2>1, <2>2 DEF Types
<1>10. NoIdleSlot'
  <2> SUFFICES ASSUME NEW w \in Work, status'[w] = "queued",
                      \A v \in Work : status'[v] # "settled"
               PROVE  running' >= currentConcurrent'
    BY DEF NoIdleSlot, Queued
  <2>1. status[w] = "queued" /\ \A v \in Work : status[v] # "settled"
    BY <1>5
  <2> QED BY <1>1, <1>2, <2>1 DEF NoIdleSlot, Queued
<1>11. TakesTurns
  BY <1>5 DEF TakesTurns, Started
<1>12. Limits' /\ SlotsBounded'
  BY <1>1, <1>2 DEF Limits, SlotsBounded
<1> QED BY <1>6, <1>7, <1>8, <1>9, <1>10, <1>11, <1>12 DEF SInv, Sound

\* An item settles, as a success or as a failure.
LEMMA SettleKeeps ==
  ASSUME SchedulerAssumption, SInv, NEW w \in Work, Ends(w),
         RecordSuccess \/ \E overload \in BOOLEAN : RecordFailure(overload)
  PROVE  SInv' /\ TakesTurns
<1>1. /\ Types(status, queue, owners, lastOwner, running)
      /\ Queues(status, queue) /\ Ring(queue, owners) /\ Slots(status, running)
      /\ Limits /\ SlotsBounded
  BY DEF SInv, Sound
<1>2. /\ status[w] = "running" /\ status' = [status EXCEPT ![w] = "settled"]
      /\ UNCHANGED <<queue, owners, lastOwner, running>>
  BY DEF Ends
<1>3. /\ status' \in [Work -> Status]
      /\ \A v \in Work : status'[v] = IF v = w THEN "settled" ELSE status[v]
  BY <1>1, <1>2 DEF Types, Status
<1>4. /\ \A o \in Owner : WaitingFor(status', o) = WaitingFor(status, o)
      /\ Occupied(status') = Occupied(status)
  BY <1>2, <1>3 DEF WaitingFor, Occupied
<1>5. Sound(status', queue', owners', lastOwner', running')
  BY <1>1, <1>2, <1>3, <1>4 DEF Sound, Types, Queues, Ring, Slots
<1>6. Limits'
  <2>1. /\ currentConcurrent \in 1 .. MaxConcurrent /\ MaxConcurrent \in Nat \ {0}
        /\ consecutiveSuccesses \in 0 .. IncreaseAfterSuccesses - 1
        /\ IncreaseAfterSuccesses \in Nat \ {0}
    BY <1>1 DEF Limits, SchedulerAssumption
  <2>2. CASE RecordSuccess
    BY <2>1, <2>2 DEF RecordSuccess, Limits
  <2>3. ASSUME NEW overload \in BOOLEAN, RecordFailure(overload)
        PROVE  Limits'
    BY <2>1, <2>3 DEF RecordFailure, Limits
  <2> QED BY <2>2, <2>3
<1>7. NoIdleSlot'
  BY <1>3 DEF NoIdleSlot
<1>8. SlotsBounded'
  BY <1>1, <1>2 DEF SlotsBounded
<1>9. TakesTurns
  BY <1>3 DEF TakesTurns, Started
<1> QED BY <1>5, <1>6, <1>7, <1>8, <1>9 DEF SInv

LEMMA NothingSubmitted ==
  ASSUME SInv, UNCHANGED vars
  PROVE  SInv' /\ TakesTurns
BY DEF SInv, Sound, Types, Queues, Ring, Slots, Limits, NoIdleSlot, SlotsBounded,
   Queued, WaitingFor, Occupied, TakesTurns, Started, vars, Entries, Distinct

LEMMA SchedulerStarts ==
  ASSUME SchedulerAssumption, Init
  PROVE  SInv
<1>1. /\ status = [w \in Work |-> "idle"] /\ queue = [o \in Owner |-> <<>>]
      /\ owners = <<>> /\ lastOwner = NoOwner /\ running = 0
      /\ currentConcurrent = MaxConcurrent /\ consecutiveSuccesses = 0
  BY DEF Init
<1>2. Types(status, queue, owners, lastOwner, running)
  BY <1>1 DEF Types, Status
<1>3. Queues(status, queue) /\ Ring(queue, owners)
  BY <1>1 DEF Queues, Ring, WaitingFor, Entries, Distinct
<1>4. Slots(status, running)
  <2>1. Occupied(status) = {}
    BY <1>1 DEF Occupied
  <2> QED BY <1>1, <2>1, FS_EmptySet DEF Slots
<1>5. Limits /\ SlotsBounded
  BY <1>1 DEF Limits, SlotsBounded, SchedulerAssumption
<1>6. NoIdleSlot
  BY <1>1 DEF NoIdleSlot, Queued
<1> QED BY <1>2, <1>3, <1>4, <1>5, <1>6 DEF SInv, Sound

LEMMA SchedulerNext ==
  ASSUME SchedulerAssumption, SInv, [Next]_vars
  PROVE  SInv' /\ TakesTurns
<1>1. ASSUME NEW w \in Work, Abort(w)
      PROVE  SInv' /\ TakesTurns
  <2>1. {w} \in SUBSET Work /\ \A v \in {w} : status[v] = "queued"
    BY <1>1 DEF Abort
  <2> QED BY <1>1, <2>1, RemoveKeeps DEF Abort
<1>2. CASE UNCHANGED vars
  BY <1>2, NothingSubmitted
<1> QED BY <1>1, <1>2, SubmitKeeps, ReleaseKeeps, SettleKeeps DEF Next, Settle

-----------------------------------------------------------------------------
(* The theorems.                                                           *)

\* The types of the scheduler, and the limit staying within its bounds.
THEOREM SchedulerTypes == Spec => []TypeOK
<1>1. SInv => TypeOK
  BY DEF SInv, Sound, Types, Limits, TypeOK
<1> QED
  BY <1>1, SchedulerAssumption, SchedulerStarts, SchedulerNext, PTL DEF Spec

\* No item waits while a slot is free.
THEOREM SlotsAreUsed == Spec => []NoIdleSlot
<1>1. SInv => NoIdleSlot
  BY DEF SInv
<1> QED
  BY <1>1, SchedulerAssumption, SchedulerStarts, SchedulerNext, PTL DEF Spec

\* At no time, whatever overload and recovery did to the limit, do more items
\* hold a slot, running or settled, than the hard limit allows.
SlotsHeld == Cardinality(Occupied(status)) <= MaxConcurrent
THEOREM SlotsAreBounded == Spec => []SlotsHeld
<1>1. SInv => SlotsHeld
  BY DEF SInv, Sound, Slots, SlotsBounded, SlotsHeld
<1> QED
  BY <1>1, SchedulerAssumption, SchedulerStarts, SchedulerNext, PTL DEF Spec

\* Conversations that wait take turns.
THEOREM OwnersTakeTurns == Spec => ServesAnother
<1>1. SInv /\ [Next]_vars => [TakesTurns]_vars
  BY SchedulerAssumption, SchedulerNext
<1> QED
  BY <1>1, SchedulerAssumption, SchedulerStarts, SchedulerNext, PTL
     DEF Spec, ServesAnother, TakesTurns

-----------------------------------------------------------------------------
(* The manager.                                                            *)

Records == [status : {"none", "queued", "running"} \cup Terminal,
            stop : {"none", "cancelled", "timeout"},
            run : {"none", "submitted", "rejected", "executing", "over", "gone"}]
Rows == {"none", "pending", "running", "succeeded", "failed", "cancelled"}

\* Where the run of a delegation is says whether it was reported, only a run is
\* stopped, and a Task is in the ledger before its run is submitted.
RunIsRight(t, r) ==
  /\ t.run = "none" <=> t.status = "none"
  /\ t.run \in {"submitted", "rejected"} => t.status = "queued"
  /\ t.run \in {"none", "submitted", "rejected"} => t.stop = "none"
  /\ t.run = "executing" => t.status = "running"
  /\ t.run # "none" => r # "none"

ReportIsRight(d, t, r) ==
  t.status \in Terminal =>
    /\ t.status = "completed" => r = "succeeded"
    /\ d \notin revived =>
         /\ Ended(r)
         /\ r = "succeeded" => t.status = "completed" \/ t.run = "gone"

ManagerTypes ==
  /\ task \in [Delegation -> Records]
  /\ row \in [Delegation -> Rows]
  /\ disposal \in {"no", "draining", "done"}
  /\ revived \subseteq Delegation

ReportsAreRight ==
  disposal # "done" => \A d \in Delegation :
    RunIsRight(task[d], row[d]) /\ ReportIsRight(d, task[d], row[d])

IInv == ManagerTypes /\ ReportsAreRight

-----------------------------------------------------------------------------
LEMMA MovedKeepsRows ==
  ASSUME NEW r \in Rows, NEW s \in Rows
  PROVE  /\ Moved(r, s) \in Rows
         /\ Moved(r, s) \in {r, s}
         /\ r # "none" /\ Ended(s) => Ended(Moved(r, s))
         /\ r # "none" /\ Ended(r) => Moved(r, s) = r
BY DEF Moved, Rows, Ended

\* The runs a step starts keep the invariant.
LEMMA StartsRunsKeeps ==
  ASSUME NEW t \in [Delegation -> Records], NEW r \in [Delegation -> Rows],
         disposal \in {"no", "draining", "done"}, revived \subseteq Delegation,
         disposal # "done" => \A d \in Delegation :
           RunIsRight(t[d], r[d]) /\ ReportIsRight(d, t[d], r[d]),
         StartsRuns(t, r)
  PROVE  IInv'
<1> DEFINE begun == {d \in Delegation : t[d].run = "submitted" /\ status'[d] = "running"}
<1>1. \A d \in Delegation :
        /\ task'[d] \in Records /\ row'[d] \in Rows
        /\ d \notin begun => task'[d] = t[d] /\ row'[d] = r[d]
        /\ d \in begun /\ r[d] = "pending" =>
             task'[d] = [t[d] EXCEPT !.status = "running", !.run = "executing"]
             /\ row'[d] = "running"
        /\ d \in begun /\ r[d] # "pending" =>
             task'[d] = [t[d] EXCEPT !.status = Conclusion(t[d], r[d]), !.run = "over"]
             /\ row'[d] = r[d]
  BY DEF StartsRuns, Records, Rows, Conclusion, Reported, Terminal
<1>2. ManagerTypes'
  BY <1>1 DEF StartsRuns, ManagerTypes
<1>3. ASSUME disposal' # "done", NEW d \in Delegation
      PROVE  (RunIsRight(task[d], row[d]) /\ ReportIsRight(d, task[d], row[d]))'
  <2>1. RunIsRight(t[d], r[d]) /\ ReportIsRight(d, t[d], r[d])
    BY <1>3 DEF StartsRuns
  <2>2. t[d] \in Records /\ r[d] \in Rows
    OBVIOUS
  <2>3. CASE d \notin begun
    BY <1>1, <2>1, <2>3 DEF RunIsRight, ReportIsRight, StartsRuns
  <2>4. CASE d \in begun /\ r[d] = "pending"
    <3>1. /\ task'[d].status = "running" /\ task'[d].run = "executing"
          /\ row'[d] = "running"
      BY <1>1, <2>2, <2>4 DEF Records
    <3> QED BY <3>1 DEF RunIsRight, ReportIsRight, Terminal
  <2>5. CASE d \in begun /\ r[d] # "pending"
    <3>1. t[d].status = "queued" /\ t[d].stop = "none" /\ r[d] # "none"
      BY <2>1, <2>5 DEF RunIsRight
    <3>2. task'[d].status = Reported(t[d], r[d]) /\ task'[d].run = "over"
          /\ row'[d] = r[d]
      BY <1>1, <2>2, <2>5, <3>1 DEF Conclusion, Records, Terminal
    <3> QED
      BY <2>2, <3>1, <3>2 DEF RunIsRight, ReportIsRight, Reported, Records, Rows,
         Terminal, Ended
  <2> QED BY <2>3, <2>4, <2>5
<1> QED BY <1>2, <1>3 DEF IInv, ReportsAreRight

\* A delegation that has no run, or the manager that is done with all of them.
LEMMA FinishesKeeps ==
  ASSUME IInv, NEW ds \in SUBSET Delegation, NEW s \in {"failed", "cancelled"},
         Finishes(ds, s), UNCHANGED revived, disposal' \in {"no", "draining", "done"},
         disposal' # "done" =>
           /\ disposal # "done"
           /\ \A d \in ds : task[d].run \in {"submitted", "rejected"}
  PROVE  IInv'
<1>1. s \in Rows /\ LedgerStatus(s) = s /\ Ended(s) /\ s \in Terminal
  BY DEF Rows, LedgerStatus, Ended, Terminal
<1>2. ASSUME NEW d \in Delegation
      PROVE  /\ task'[d] \in Records /\ row'[d] \in Rows
             /\ d \notin ds => task'[d] = task[d] /\ row'[d] = row[d]
             /\ d \in ds =>
                  /\ task'[d].status = s
                  /\ task'[d].run = IF task[d].run \in {"executing", "over"}
                                    THEN task[d].run ELSE "gone"
                  /\ row'[d] = Moved(row[d], s)
  <2>1. task[d] \in Records /\ row[d] \in Rows /\ Moved(row[d], s) \in Rows
    BY <1>1, MovedKeepsRows DEF IInv, ManagerTypes
  <2>2. CASE d \notin ds
    BY <2>1, <2>2 DEF Finishes
  <2>3. CASE d \in ds
    <3>1. /\ row'[d] = Moved(row[d], s)
          /\ task'[d] = [task[d] EXCEPT !.status = s,
                           !.run = IF @ \in {"executing", "over"} THEN @ ELSE "gone"]
      BY <1>1, <2>3 DEF Finishes
    <3> QED BY <1>1, <2>1, <2>3, <3>1 DEF Records
  <2> QED BY <2>2, <2>3
<1>3. ManagerTypes'
  <2>1. /\ task' = [d \in Delegation |-> task'[d]]
        /\ row' = [d \in Delegation |-> row'[d]]
    BY DEF Finishes
  <2>2. revived' \subseteq Delegation
    BY DEF IInv, ManagerTypes
  <2> QED BY <1>2, <2>1, <2>2 DEF ManagerTypes
<1>4. ASSUME disposal' # "done", NEW d \in Delegation
      PROVE  (RunIsRight(task[d], row[d]) /\ ReportIsRight(d, task[d], row[d]))'
  <2>1. RunIsRight(task[d], row[d]) /\ ReportIsRight(d, task[d], row[d])
    BY <1>4 DEF IInv, ReportsAreRight
  <2>2. row[d] \in Rows
    BY DEF IInv, ManagerTypes
  <2>3. CASE d \notin ds
    BY <1>2, <2>1, <2>3 DEF RunIsRight, ReportIsRight
  <2>4. CASE d \in ds
    <3>1. task[d].run \in {"submitted", "rejected"}
      BY <1>4, <2>4
    <3>2. task'[d].status = s /\ task'[d].run = "gone" /\ row'[d] = Moved(row[d], s)
      BY <1>2, <2>4, <3>1
    <3>3. Ended(row'[d]) /\ row'[d] # "none"
      BY <2>1, <2>2, <3>1, <3>2 DEF RunIsRight, Moved, Rows, Ended
    <3>4. s # "completed" /\ s # "none"
      OBVIOUS
    <3> QED BY <3>2, <3>3, <3>4 DEF RunIsRight, ReportIsRight
  <2> QED BY <2>3, <2>4
<1> QED BY <1>3, <1>4 DEF IInv, ReportsAreRight

\* A step of one delegation d, whatever the scheduler does.
LEMMA OneMoves ==
  ASSUME IInv, NEW d \in Delegation, NEW t \in Records, NEW r \in Rows,
         task' = [task EXCEPT ![d] = t], row' = [row EXCEPT ![d] = r],
         UNCHANGED <<disposal, revived>>,
         disposal # "done" => RunIsRight(t, r) /\ ReportIsRight(d, t, r)
  PROVE  IInv'
<1>1. ManagerTypes'
  BY DEF IInv, ManagerTypes
<1>2. ASSUME disposal' # "done", NEW e \in Delegation
      PROVE  (RunIsRight(task[e], row[e]) /\ ReportIsRight(e, task[e], row[e]))'
  <2>1. RunIsRight(task[e], row[e]) /\ ReportIsRight(e, task[e], row[e])
    BY <1>2 DEF IInv, ReportsAreRight
  <2>2. CASE e = d
    <3>1. task'[e] = t /\ row'[e] = r
      BY <2>2 DEF IInv, ManagerTypes
    <3> QED BY <1>2, <2>2, <3>1 DEF RunIsRight, ReportIsRight
  <2>3. CASE e # d
    <3>1. task'[e] = task[e] /\ row'[e] = row[e]
      BY <2>3 DEF IInv, ManagerTypes
    <3> QED BY <2>1, <3>1 DEF RunIsRight, ReportIsRight
  <2> QED BY <2>2, <2>3
<1> QED BY <1>1, <1>2 DEF IInv, ReportsAreRight

LEMMA NothingMoves ==
  ASSUME IInv, UNCHANGED manager
  PROVE  IInv'
BY DEF IInv, ManagerTypes, ReportsAreRight, manager, RunIsRight, ReportIsRight

-----------------------------------------------------------------------------
(* The actions.                                                            *)

LEMMA SpawnKeeps ==
  ASSUME IInv, NEW d \in Delegation, Spawn(d)
  PROVE  IInv'
<1> DEFINE t == [task EXCEPT ![d].status = "queued", ![d].run = "submitted"]
           r == [row EXCEPT ![d] = "pending"]
           x == [task[d] EXCEPT !.status = "queued", !.run = "submitted"]
<1>1. /\ task \in [Delegation -> Records] /\ row \in [Delegation -> Rows]
      /\ disposal = "no" /\ task[d].status = "none"
  BY DEF IInv, ManagerTypes, Spawn
<1>2. \A e \in Delegation : RunIsRight(task[e], row[e]) /\ ReportIsRight(e, task[e], row[e])
  BY <1>1 DEF IInv, ReportsAreRight
<1>3. task[d].stop = "none"
  BY <1>1, <1>2 DEF RunIsRight
<1>4. x \in Records /\ x.status = "queued" /\ x.run = "submitted" /\ x.stop = "none"
  BY <1>1, <1>3 DEF Records
<1>5. t = [task EXCEPT ![d] = x]
  BY <1>1
<1>6. t \in [Delegation -> Records] /\ r \in [Delegation -> Rows]
  BY <1>1, <1>4, <1>5 DEF Rows
<1>7. RunIsRight(x, "pending") /\ ReportIsRight(d, x, "pending")
  BY <1>4 DEF RunIsRight, ReportIsRight, Terminal
<1>8. CASE StartsRuns(t, r)
  <2>0. disposal \in {"no", "draining", "done"} /\ revived \subseteq Delegation
    BY <1>1 DEF IInv, ManagerTypes
  <2>1. \A e \in Delegation : RunIsRight(t[e], r[e]) /\ ReportIsRight(e, t[e], r[e])
    BY <1>1, <1>2, <1>5, <1>7
  <2> HIDE DEF t, r
  <2> QED BY <1>6, <1>8, <2>0, <2>1, StartsRunsKeeps
<1>9. CASE task' = [t EXCEPT ![d].run = "rejected"] /\ row' = r /\ UNCHANGED <<disposal, revived>>
  <2> DEFINE y == [x EXCEPT !.run = "rejected"]
  <2>1. y \in Records /\ y.status = "queued" /\ y.run = "rejected" /\ y.stop = "none"
    BY <1>4 DEF Records
  <2>2. task' = [task EXCEPT ![d] = y]
    BY <1>1, <1>5, <1>9
  <2>3. RunIsRight(y, "pending") /\ ReportIsRight(d, y, "pending")
    BY <2>1 DEF RunIsRight, ReportIsRight, Terminal
  <2> QED BY <1>9, <2>1, <2>2, <2>3, OneMoves DEF Rows
<1> QED BY <1>8, <1>9 DEF Spawn

LEMMA EndRunKeeps ==
  ASSUME IInv, NEW d \in Delegation, EndRun(d)
  PROVE  IInv'
<1>1. /\ task[d] \in Records /\ row[d] \in Rows /\ task[d].run = "executing"
      /\ UNCHANGED <<disposal, revived>>
  BY DEF IInv, ManagerTypes, EndRun
<1>2. PICK r \in GraphEnds(d) :
        /\ row' = [row EXCEPT ![d] = r]
        /\ task' = [task EXCEPT ![d] = [status |-> Conclusion(task[d], r),
                                        stop |-> "none", run |-> "over"]]
  BY DEF EndRun, IInv, ManagerTypes
<1>3. /\ r \in Rows
      /\ row[d] # "none" => r # "none"
      /\ row[d] # "none" /\ task[d].stop # "none" => Ended(r)
  BY <1>1, <1>2, MovedKeepsRows DEF GraphEnds, Moved, Rows, Ended
<1> DEFINE y == [status |-> Conclusion(task[d], r), stop |-> "none", run |-> "over"]
<1>4. y \in Records
  BY <1>1 DEF Records, Conclusion, Reported, Terminal
<1>5. ASSUME disposal # "done"
      PROVE  RunIsRight(y, r) /\ ReportIsRight(d, y, r)
  <2>1. task[d].status = "running" /\ row[d] # "none"
    BY <1>1, <1>5 DEF IInv, ReportsAreRight, RunIsRight
  <2>2. y.status = Reported(task[d], r) /\ y.run = "over"
    BY <2>1 DEF Conclusion, Terminal
  <2> QED
    BY <1>3, <2>1, <2>2 DEF RunIsRight, ReportIsRight, Reported, Terminal, Ended, Rows
<1>6. task' = [task EXCEPT ![d] = y] /\ row' = [row EXCEPT ![d] = r]
  BY <1>2
<1>7. UNCHANGED <<disposal, revived>> /\ r \in Rows
  BY <1>1, <1>3
<1> HIDE DEF y
<1> QED BY <1>4, <1>5, <1>6, <1>7, OneMoves

\* A run is told to stop.
LEMMA StopsKeeps ==
  ASSUME IInv, NEW d \in Delegation, NEW s \in {"cancelled", "timeout"},
         task[d].run = "executing", task' = [task EXCEPT ![d].stop = s],
         UNCHANGED <<row, disposal, revived>>
  PROVE  IInv'
<1> DEFINE y == [task[d] EXCEPT !.stop = s]
<1>1. task[d] \in Records /\ row[d] \in Rows
  BY DEF IInv, ManagerTypes
<1>2. y \in Records /\ y.status = task[d].status /\ y.run = "executing"
  BY <1>1 DEF Records
<1>3. task' = [task EXCEPT ![d] = y] /\ row' = [row EXCEPT ![d] = row[d]]
  BY DEF IInv, ManagerTypes
<1>4. disposal # "done" => RunIsRight(y, row[d]) /\ ReportIsRight(d, y, row[d])
  BY <1>2 DEF IInv, ReportsAreRight, RunIsRight, ReportIsRight, Terminal
<1> HIDE DEF y
<1> QED BY <1>1, <1>2, <1>3, <1>4, OneMoves

LEMMA CancelKeeps ==
  ASSUME IInv, NEW d \in Delegation, Cancel(d)
  PROVE  IInv'
<1>1. CASE Finishes({d}, "cancelled") /\ UNCHANGED <<disposal, revived>>
           /\ task[d].run \in {"submitted", "rejected"}
  <2>1. disposal' \in {"no", "draining", "done"} /\ {d} \in SUBSET Delegation
    BY <1>1 DEF IInv, ManagerTypes
  <2> QED BY <1>1, <2>1, FinishesKeeps
<1>2. CASE task[d].run = "executing"
  BY <1>2, StopsKeeps DEF Cancel
<1> QED BY <1>1, <1>2 DEF Cancel

LEMMA OthersMoveKeeps ==
  ASSUME IInv, NEW d \in Delegation, OthersMove(d)
  PROVE  IInv'
<1>1. task[d] \in Records /\ row[d] \in {"pending", "running"}
  BY DEF IInv, ManagerTypes, OthersMove
<1>2. PICK r \in Rows \ {"none"} : row' = [row EXCEPT ![d] = r]
  BY DEF OthersMove, Rows
<1>3. task' = [task EXCEPT ![d] = task[d]] /\ UNCHANGED <<disposal, revived>>
  BY DEF OthersMove, IInv, ManagerTypes
<1>4. disposal # "done" => RunIsRight(task[d], r) /\ ReportIsRight(d, task[d], r)
  BY <1>1, <1>2 DEF IInv, ReportsAreRight, RunIsRight, ReportIsRight, Ended
<1> QED BY <1>1, <1>2, <1>3, <1>4, OneMoves

LEMMA ReviveKeeps ==
  ASSUME IInv, NEW d \in Delegation, Revive(d)
  PROVE  IInv'
<1>1. /\ task[d] \in Records /\ row[d] = "failed"
      /\ UNCHANGED <<task, disposal>> /\ revived' \subseteq Delegation
      /\ \A e \in Delegation \ {d} : e \in revived' <=> e \in revived
      /\ task[d].status \in Terminal => d \in revived'
  BY DEF IInv, ManagerTypes, Revive
<1>2. PICK s \in {"pending", "succeeded"} : row' = [row EXCEPT ![d] = s]
  BY DEF Revive
<1>3. ManagerTypes'
  BY <1>1, <1>2 DEF IInv, ManagerTypes, Rows
<1>4. ASSUME disposal' # "done", NEW e \in Delegation
      PROVE  (RunIsRight(task[e], row[e]) /\ ReportIsRight(e, task[e], row[e]))'
  <2>1. RunIsRight(task[e], row[e]) /\ ReportIsRight(e, task[e], row[e])
    BY <1>1, <1>4 DEF IInv, ReportsAreRight
  <2>2. CASE e # d
    <3>1. row'[e] = row[e] /\ task'[e] = task[e]
      BY <1>1, <1>2, <2>2 DEF IInv, ManagerTypes
    <3> QED BY <1>1, <2>1, <2>2, <3>1 DEF RunIsRight, ReportIsRight
  <2>3. CASE e = d
    <3>1. row'[d] = s /\ task'[d] = task[d]
      BY <1>1, <1>2 DEF IInv, ManagerTypes
    <3> QED BY <1>1, <2>1, <2>3, <3>1 DEF RunIsRight, ReportIsRight
  <2> QED BY <2>2, <2>3
<1> QED BY <1>3, <1>4 DEF IInv, ReportsAreRight

LEMMA DisposeKeeps ==
  ASSUME IInv, Dispose
  PROVE  IInv'
<1> DEFINE queued == {d \in Delegation : task[d].status = "queued"}
           stopped == {d \in Delegation : task[d].run = "executing"}
<1>1. disposal = "no" /\ disposal' = "draining" /\ revived' = revived
  BY DEF Dispose
<1>2. ASSUME NEW d \in Delegation
      PROVE  /\ task'[d] \in Records /\ row'[d] \in Rows
             /\ (RunIsRight(task[d], row[d]) /\ ReportIsRight(d, task[d], row[d]))'
  <2>1. /\ RunIsRight(task[d], row[d]) /\ ReportIsRight(d, task[d], row[d])
        /\ task[d] \in Records /\ row[d] \in Rows
    BY <1>1 DEF IInv, ReportsAreRight, ManagerTypes
  <2>2. CASE d \in queued
    <3>1. task'[d] = [task[d] EXCEPT !.status = "cancelled", !.run = "gone"]
          /\ row'[d] = Moved(row[d], "cancelled")
      BY <2>2 DEF Dispose
    <3>2. task'[d] \in Records /\ task'[d].status = "cancelled" /\ task'[d].run = "gone"
      BY <2>1, <3>1 DEF Records, Terminal
    <3>3. row'[d] \in Rows /\ Ended(row'[d]) /\ row'[d] # "none"
      BY <2>1, <2>2, <3>1, MovedKeepsRows DEF RunIsRight, Rows, Ended
    <3> QED BY <3>2, <3>3 DEF RunIsRight, ReportIsRight
  <2>3. CASE d \notin queued /\ d \in stopped
    <3>1. task'[d] = [task[d] EXCEPT !.stop = "cancelled"] /\ row'[d] = row[d]
      BY <2>3 DEF Dispose
    <3>2. /\ task'[d] \in Records /\ task'[d].status = task[d].status
          /\ task'[d].run = "executing"
      BY <2>1, <2>3, <3>1 DEF Records
    <3> QED BY <1>1, <2>1, <2>3, <3>1, <3>2 DEF RunIsRight, ReportIsRight
  <2>4. CASE d \notin queued /\ d \notin stopped
    <3>1. task'[d] = task[d] /\ row'[d] = row[d]
      BY <2>4 DEF Dispose
    <3> QED BY <1>1, <2>1, <3>1 DEF RunIsRight, ReportIsRight
  <2> QED BY <2>2, <2>3, <2>4
<1>3. ManagerTypes'
  <2>1. revived' \subseteq Delegation
    BY <1>1 DEF IInv, ManagerTypes
  <2> QED BY <1>1, <1>2, <2>1 DEF ManagerTypes, Dispose
<1> QED BY <1>2, <1>3 DEF IInv, ReportsAreRight

LEMMA NextKeeps ==
  ASSUME IInv, [ManagerNext]_allVars
  PROVE  IInv'
<1>1. ASSUME NEW d \in Delegation, Rejected(d)
      PROVE  IInv'
  <2>1. disposal' \in {"no", "draining", "done"} /\ {d} \in SUBSET Delegation
    BY <1>1 DEF IInv, ManagerTypes, Rejected
  <2> QED BY <1>1, <2>1, FinishesKeeps DEF Rejected
<1>2. ASSUME NEW d \in Delegation, TimeOut(d)
      PROVE  IInv'
  BY <1>2, StopsKeeps DEF TimeOut
<1>3. CASE Disposed
  BY <1>3, FinishesKeeps DEF Disposed
<1>4. CASE StartsRuns(task, row)
  BY <1>4, StartsRunsKeeps DEF IInv, ManagerTypes, ReportsAreRight
<1>5. CASE UNCHANGED manager
  BY <1>5, NothingMoves
<1>6. CASE UNCHANGED allVars
  BY <1>6, NothingMoves DEF allVars
<1> QED
  BY <1>1, <1>2, <1>3, <1>4, <1>5, <1>6, SpawnKeeps, EndRunKeeps, CancelKeeps,
     OthersMoveKeeps, ReviveKeeps, DisposeKeeps DEF ManagerNext, SettleRun

-----------------------------------------------------------------------------
(* The manager and the scheduler.                                          *)

\* A delegation is submitted exactly as long as it is queued and executes in
\* its slot; once the shutdown began, nothing of the manager is queued.
Linked ==
  /\ \A d \in Delegation :
       /\ task[d].run = "submitted" <=> status[d] = "queued"
       /\ task[d].run = "executing" => status[d] = "running"
  /\ disposal # "no" => \A d \in Delegation : task[d].run # "submitted"

MInv == IInv /\ SInv /\ Linked

\* The runs a step starts are those of the items it starts.
LEMMA StartsRunsLinks ==
  ASSUME NEW t \in [Delegation -> Records], NEW r \in [Delegation -> Rows],
         StartsRuns(t, r),
         \A d \in Delegation :
           /\ t[d].run = "submitted" => status'[d] \in {"queued", "running"}
           /\ t[d].run # "submitted" => status'[d] # "queued"
           /\ t[d].run = "executing" => status'[d] = "running",
         disposal # "no" => \A d \in Delegation : t[d].run # "submitted"
  PROVE  Linked'
<1>1. ASSUME NEW d \in Delegation
      PROVE  /\ task'[d].run = "submitted" <=> status'[d] = "queued"
             /\ task'[d].run = "executing" => status'[d] = "running"
             /\ t[d].run # "submitted" => task'[d].run # "submitted"
  <2>1. t[d] \in Records
    OBVIOUS
  <2>2. CASE t[d].run = "submitted" /\ status'[d] = "running"
    <3>1. task'[d].run \in {"executing", "over"}
      BY <2>1, <2>2 DEF StartsRuns, Records
    <3> QED BY <2>2, <3>1
  <2>3. CASE ~(t[d].run = "submitted" /\ status'[d] = "running")
    <3>1. task'[d] = t[d]
      BY <2>3 DEF StartsRuns
    <3> QED BY <2>3, <3>1
  <2> QED BY <2>2, <2>3
<1> QED BY <1>1 DEF Linked, StartsRuns

\* A pump of the scheduler under the manager: the item w is released, or it is
\* other work that is submitted.
LEMMA PumpLinks ==
  ASSUME ManagerAssumption, IInv, Linked, NEW w \in Work, StartsRuns(task, row),
         \A v \in Work \ {w} : status'[v] = status[v]
                               \/ (status[v] = "queued" /\ status'[v] = "running"),
         w \in Delegation => status[w] = "settled" /\ status'[w] = "idle"
  PROVE  Linked'
<1>1. task \in [Delegation -> Records] /\ row \in [Delegation -> Rows]
  BY DEF IInv, ManagerTypes
<1>2. ASSUME NEW d \in Delegation
      PROVE  /\ task[d].run = "submitted" => status'[d] \in {"queued", "running"}
             /\ task[d].run # "submitted" => status'[d] # "queued"
             /\ task[d].run = "executing" => status'[d] = "running"
  <2>1. /\ d \in Work
        /\ task[d].run = "submitted" <=> status[d] = "queued"
        /\ task[d].run = "executing" => status[d] = "running"
    BY DEF Linked, ManagerAssumption
  <2>2. CASE d = w
    BY <2>1, <2>2
  <2>3. CASE d # w
    BY <2>1, <2>3
  <2> QED BY <2>2, <2>3
<1>3. disposal # "no" => \A d \in Delegation : task[d].run # "submitted"
  BY DEF Linked
<1> QED BY <1>1, <1>2, <1>3, StartsRunsLinks

\* A step of one delegation d, after which it is not submitted.
LEMMA MoveLinks ==
  ASSUME Linked, NEW d \in Delegation, task \in [Delegation -> Records],
         NEW x, task' = [task EXCEPT ![d] = x], x.run # "submitted",
         status'[d] # "queued", x.run = "executing" => status'[d] = "running",
         \A e \in Delegation \ {d} : status'[e] = status[e], UNCHANGED disposal
  PROVE  Linked'
<1>1. task'[d] = x /\ \A e \in Delegation \ {d} : task'[e] = task[e]
  OBVIOUS
<1> QED BY <1>1 DEF Linked

LEMMA SpawnLinks ==
  ASSUME ManagerAssumption, SchedulerAssumption, MInv, NEW d \in Delegation, Spawn(d)
  PROVE  Linked'
<1> DEFINE t == [task EXCEPT ![d].status = "queued", ![d].run = "submitted"]
           r == [row EXCEPT ![d] = "pending"]
<1>1. /\ task \in [Delegation -> Records] /\ row \in [Delegation -> Rows]
      /\ disposal = "no" /\ task[d].status = "none" /\ d \in Work
  BY DEF MInv, IInv, ManagerTypes, Spawn, ManagerAssumption
<1>2. task[d].run = "none" /\ status[d] # "queued"
  BY <1>1 DEF MInv, IInv, ReportsAreRight, RunIsRight, Linked
<1>3. /\ t \in [Delegation -> Records] /\ r \in [Delegation -> Rows]
      /\ t[d].run = "submitted" /\ \A e \in Delegation \ {d} : t[e] = task[e]
  BY <1>1 DEF Records, Rows
<1>4. CASE Submit(d) /\ StartsRuns(t, r)
  <2>1. /\ status'[d] \in {"queued", "running"}
        /\ \A v \in Work \ {d} : status'[v] = status[v]
                                 \/ (status[v] = "queued" /\ status'[v] = "running")
    BY <1>1, <1>4, SubmitMoves DEF MInv
  <2>2. ASSUME NEW e \in Delegation
        PROVE  /\ t[e].run = "submitted" => status'[e] \in {"queued", "running"}
               /\ t[e].run # "submitted" => status'[e] # "queued"
               /\ t[e].run = "executing" => status'[e] = "running"
    <3>1. CASE e = d
      BY <1>3, <2>1, <3>1
    <3>2. CASE e # d
      <4>1. t[e] = task[e] /\ e \in Work \ {d}
        BY <1>3, <3>2 DEF ManagerAssumption
      <4>2. /\ task[e].run = "submitted" <=> status[e] = "queued"
            /\ task[e].run = "executing" => status[e] = "running"
        BY DEF MInv, Linked
      <4> QED BY <2>1, <4>1, <4>2
    <3> QED BY <3>1, <3>2
  <2> HIDE DEF t, r
  <2> QED BY <1>1, <1>3, <1>4, <2>2, StartsRunsLinks
<1>5. CASE /\ task' = [t EXCEPT ![d].run = "rejected"]
           /\ UNCHANGED <<slots, disposal, revived>>
  <2> DEFINE x == [t[d] EXCEPT !.run = "rejected"]
  <2>1. x.run = "rejected" /\ task' = [task EXCEPT ![d] = x]
    BY <1>1, <1>3, <1>5 DEF Records
  <2>2. status' = status /\ disposal' = disposal
    BY <1>5 DEF slots, vars
  <2> HIDE DEF x, t
  <2> QED BY <1>1, <1>2, <2>1, <2>2, MoveLinks DEF MInv
<1> QED BY <1>4, <1>5 DEF Spawn

\* The delegations of ds end; those of them that are queued leave the queue.
LEMMA FinishesLinks ==
  ASSUME Linked, NEW ds \in SUBSET Delegation, NEW s, Finishes(ds, s),
         task \in [Delegation -> Records],
         \A d \in Delegation : status'[d] = status[d] \/ (d \in ds /\ status'[d] = "idle"
                                                         /\ status[d] = "queued"),
         \A d \in ds : status'[d] # "queued",
         disposal' = disposal \/ \A d \in Delegation : task[d].run # "submitted"
  PROVE  Linked'
<1>1. ASSUME NEW d \in Delegation
      PROVE  /\ task'[d].run = "submitted" <=> status'[d] = "queued"
             /\ task'[d].run = "executing" => status'[d] = "running"
             /\ task[d].run # "submitted" => task'[d].run # "submitted"
  <2>1. /\ task[d].run = "submitted" <=> status[d] = "queued"
        /\ task[d].run = "executing" => status[d] = "running"
    BY DEF Linked
  <2>2. CASE d \in ds
    <3>1. task'[d].run = IF task[d].run \in {"executing", "over"}
                         THEN task[d].run ELSE "gone"
      BY <2>2 DEF Finishes, Records
    <3> QED BY <2>1, <2>2, <3>1
  <2>3. CASE d \notin ds
    <3>1. task'[d] = task[d]
      BY <2>3 DEF Finishes
    <3> QED BY <2>1, <2>3, <3>1
  <2> QED BY <2>2, <2>3
<1> QED BY <1>1 DEF Linked

LEMMA CancelLinks ==
  ASSUME ManagerAssumption, MInv, NEW d \in Delegation, Cancel(d)
  PROVE  Linked'
<1>1. task \in [Delegation -> Records] /\ status \in [Work -> Status] /\ d \in Work
  BY DEF MInv, IInv, ManagerTypes, SInv, Sound, Types, ManagerAssumption
<1>2. CASE Abort(d) /\ Finishes({d}, "cancelled") /\ UNCHANGED disposal
  <2>1. /\ status[d] = "queued"
        /\ status' = [w \in Work |-> IF w \in {d} THEN "idle" ELSE status[w]]
    BY <1>2 DEF Abort, Remove
  <2>2. status'[d] = "idle" /\ \A e \in Delegation \ {d} : status'[e] = status[e]
    BY <1>1, <2>1 DEF ManagerAssumption
  <2>3. \A e \in Delegation :
          status'[e] = status[e] \/ (e \in {d} /\ status'[e] = "idle"
                                     /\ status[e] = "queued")
    BY <2>1, <2>2
  <2> QED BY <1>1, <1>2, <2>2, <2>3, FinishesLinks DEF MInv
<1>3. CASE /\ task[d].run = "rejected"
           /\ Finishes({d}, "cancelled") /\ UNCHANGED <<slots, disposal, revived>>
  <2>1. status' = status /\ disposal' = disposal
    BY <1>3 DEF slots, vars
  <2>2. status[d] # "queued"
    BY <1>3 DEF MInv, Linked
  <2> QED BY <1>1, <1>3, <2>1, <2>2, FinishesLinks DEF MInv
<1>4. CASE /\ task[d].run = "executing" /\ task' = [task EXCEPT ![d].stop = "cancelled"]
           /\ UNCHANGED <<slots, row, disposal, revived>>
  <2>1. status' = status /\ disposal' = disposal
    BY <1>4 DEF slots, vars
  <2>2. status[d] = "running"
    BY <1>4 DEF MInv, Linked
  <2> DEFINE x == [task[d] EXCEPT !.stop = "cancelled"]
  <2>3. x.run = "executing" /\ task' = [task EXCEPT ![d] = x]
    BY <1>1, <1>4 DEF Records
  <2> HIDE DEF x
  <2> QED BY <1>1, <2>1, <2>2, <2>3, MoveLinks DEF MInv
<1> QED BY <1>2, <1>3, <1>4 DEF Cancel

LEMMA EndRunLinks ==
  ASSUME MInv, NEW d \in Delegation, EndRun(d)
  PROVE  Linked'
<1>1. /\ task \in [Delegation -> Records] /\ task[d].run = "executing"
      /\ UNCHANGED <<slots, disposal, revived>>
  BY DEF MInv, IInv, ManagerTypes, EndRun
<1>2. status' = status /\ disposal' = disposal /\ status[d] = "running"
  BY <1>1 DEF slots, vars, MInv, Linked
<1>3. PICK r \in GraphEnds(d) :
        task' = [task EXCEPT ![d] = [status |-> Conclusion(task[d], r), stop |-> "none",
                                     run |-> "over"]]
  BY <1>1 DEF EndRun
<1> DEFINE x == [status |-> Conclusion(task[d], r), stop |-> "none", run |-> "over"]
<1>4. x.run = "over" /\ task' = [task EXCEPT ![d] = x]
  BY <1>3
<1> HIDE DEF x
<1> QED BY <1>1, <1>2, <1>4, MoveLinks DEF MInv

LEMMA TimeOutLinks ==
  ASSUME MInv, NEW d \in Delegation, TimeOut(d)
  PROVE  Linked'
<1>1. /\ task \in [Delegation -> Records] /\ task[d].run = "executing"
      /\ task' = [task EXCEPT ![d].stop = "timeout"]
      /\ UNCHANGED <<slots, row, disposal, revived>>
  BY DEF MInv, IInv, ManagerTypes, TimeOut
<1>2. status' = status /\ disposal' = disposal /\ status[d] = "running"
  BY <1>1 DEF slots, vars, MInv, Linked
<1> DEFINE x == [task[d] EXCEPT !.stop = "timeout"]
<1>3. x.run = "executing" /\ task' = [task EXCEPT ![d] = x]
  BY <1>1 DEF Records
<1> HIDE DEF x
<1> QED BY <1>1, <1>2, <1>3, MoveLinks DEF MInv

\* The shutdown takes what is queued out of the queues.
LEMMA DisposeLinks ==
  ASSUME ManagerAssumption, MInv, Dispose
  PROVE  Linked'
<1> DEFINE queued == {d \in Delegation : task[d].status = "queued"}
           stopped == {d \in Delegation : task[d].run = "executing"}
           S == {d \in queued : status[d] = "queued"}
<1>1. task \in [Delegation -> Records] /\ disposal = "no"
  BY DEF MInv, IInv, ManagerTypes, Dispose
<1>2. ASSUME NEW d \in Delegation
      PROVE  /\ task'[d].run # "submitted" /\ status'[d] # "queued"
             /\ task'[d].run = "executing" => status'[d] = "running"
  <2>1. /\ RunIsRight(task[d], row[d])
        /\ task[d].run = "submitted" <=> status[d] = "queued"
        /\ task[d].run = "executing" => status[d] = "running"
        /\ task[d] \in Records
    BY <1>1 DEF MInv, IInv, ReportsAreRight, Linked
  <2>2. status'[d] = IF d \in S THEN "idle" ELSE status[d]
    BY DEF Dispose, Remove, ManagerAssumption
  <2>3. CASE d \in queued
    <3>1. task'[d] = [task[d] EXCEPT !.status = "cancelled", !.run = "gone"]
      BY <2>3 DEF Dispose
    <3>2. task'[d].run = "gone"
      BY <2>1, <3>1 DEF Records
    <3> QED BY <2>2, <2>3, <3>2
  <2>4. CASE d \notin queued /\ d \in stopped
    <3>1. task'[d] = [task[d] EXCEPT !.stop = "cancelled"]
      BY <2>4 DEF Dispose
    <3>2. task'[d].run = "executing"
      BY <2>1, <2>4, <3>1 DEF Records
    <3> QED BY <2>1, <2>2, <2>4, <3>2
  <2>5. CASE d \notin queued /\ d \notin stopped
    <3>1. task'[d] = task[d]
      BY <2>5 DEF Dispose
    <3>2. task[d].run # "submitted" /\ task[d].run # "executing"
      BY <2>1, <2>5 DEF RunIsRight
    <3> QED BY <2>1, <2>2, <2>5, <3>1, <3>2
  <2> QED BY <2>3, <2>4, <2>5
<1> QED BY <1>2 DEF Linked

LEMMA NextLinks ==
  ASSUME ManagerAssumption, SchedulerAssumption, MInv, [ManagerNext]_allVars
  PROVE  Linked'
<1>1. /\ task \in [Delegation -> Records] /\ status \in [Work -> Status]
      /\ Linked /\ IInv /\ SInv
  BY DEF MInv, IInv, ManagerTypes, SInv, Sound, Types
<1>2. ASSUME NEW d \in Delegation, Rejected(d)
      PROVE  Linked'
  <2>1. status' = status /\ disposal' = disposal /\ Finishes({d}, "failed")
        /\ task[d].run = "rejected"
    BY <1>2 DEF Rejected, slots, vars
  <2>2. status[d] # "queued"
    BY <1>1, <2>1 DEF Linked
  <2> QED BY <1>1, <2>1, <2>2, FinishesLinks
<1>3. ASSUME NEW d \in Delegation, SettleRun(d)
      PROVE  Linked'
  <2>1. /\ status' = [status EXCEPT ![d] = "settled"] /\ d \in Work
        /\ task' = task /\ disposal' = disposal
        /\ task[d].run = "over"
    BY <1>3 DEF SettleRun, Ends, manager, ManagerAssumption
  <2>2. \A e \in Delegation : status'[e] = IF e = d THEN "settled" ELSE status[e]
    BY <1>1, <2>1 DEF ManagerAssumption
  <2> QED BY <1>1, <2>1, <2>2 DEF Linked
<1>4. ASSUME NEW d \in Delegation, OthersMove(d) \/ Revive(d)
      PROVE  Linked'
  BY <1>1, <1>4 DEF OthersMove, Revive, slots, vars, Linked
<1>5. ASSUME NEW w \in OtherWork, Submit(w), StartsRuns(task, row)
      PROVE  Linked'
  <2>1. w \in Work /\ w \notin Delegation
    BY DEF OtherWork
  <2>2. \A v \in Work \ {w} : status'[v] = status[v]
                              \/ (status[v] = "queued" /\ status'[v] = "running")
    BY <1>1, <1>5, <2>1, SubmitMoves
  <2> QED BY <1>1, <1>5, <2>1, <2>2, PumpLinks
<1>6. ASSUME NEW w \in OtherWork, Abort(w) \/ Settle(w), UNCHANGED manager
      PROVE  Linked'
  <2>1. w \in Work /\ w \notin Delegation
    BY DEF OtherWork
  <2>2. \A e \in Delegation : status'[e] = status[e]
    BY <1>1, <1>6, <2>1 DEF Abort, Remove, Settle, Ends, ManagerAssumption
  <2> QED BY <1>1, <1>6, <2>2 DEF manager, Linked
<1>7. ASSUME NEW w \in Work, Release(w), StartsRuns(task, row)
      PROVE  Linked'
  <2>1. /\ status[w] = "settled" /\ status'[w] = "idle"
        /\ \A v \in Work \ {w} : status'[v] = status[v]
                                 \/ (status[v] = "queued" /\ status'[v] = "running")
    BY <1>1, <1>7, ReleaseMoves
  <2> QED BY <1>1, <1>7, <2>1, PumpLinks
<1>8. CASE Disposed
  <2> DEFINE ds == {d \in Delegation : Open(d)}
  <2>1. /\ status' = status /\ Finishes(ds, "cancelled")
        /\ \A d \in Delegation : task[d].run # "submitted"
    BY <1>1, <1>8 DEF Disposed, slots, vars, Linked
  <2>2. \A d \in Delegation : status[d] # "queued"
    BY <1>1, <2>1 DEF Linked
  <2>3. ds \in SUBSET Delegation
    OBVIOUS
  <2> HIDE DEF ds
  <2> QED BY <1>1, <2>1, <2>2, <2>3, FinishesLinks
<1>9. CASE UNCHANGED allVars
  BY <1>1, <1>9 DEF allVars, vars, manager, Linked
<1> QED
  BY <1>2, <1>3, <1>4, <1>5, <1>6, <1>7, <1>8, <1>9, SpawnLinks, CancelLinks,
     EndRunLinks, TimeOutLinks, DisposeLinks DEF ManagerNext

\* The scheduler under the manager.
LEMMA NextSchedules ==
  ASSUME ManagerAssumption, SchedulerAssumption, MInv, [ManagerNext]_allVars
  PROVE  SInv' /\ TakesTurns
<1>1. SInv /\ Delegation \subseteq Work /\ OtherWork \subseteq Work
  BY DEF MInv, ManagerAssumption, OtherWork
<1>2. CASE UNCHANGED vars
  BY <1>1, <1>2, NothingSubmitted
<1>3. ASSUME NEW w \in Work, Submit(w)
      PROVE  SInv' /\ TakesTurns
  BY <1>1, <1>3, SubmitKeeps
<1>4. ASSUME NEW w \in Work, Release(w)
      PROVE  SInv' /\ TakesTurns
  BY <1>1, <1>4, ReleaseKeeps
<1>5. ASSUME NEW w \in Work, Abort(w)
      PROVE  SInv' /\ TakesTurns
  <2>1. {w} \in SUBSET Work /\ \A v \in {w} : status[v] = "queued"
    BY <1>5 DEF Abort
  <2> QED BY <1>1, <1>5, <2>1, RemoveKeeps DEF Abort
<1>6. ASSUME NEW w \in Work, Ends(w), RecordSuccess
      PROVE  SInv' /\ TakesTurns
  BY <1>1, <1>6, SettleKeeps
<1>7. ASSUME NEW w \in Work, Settle(w)
      PROVE  SInv' /\ TakesTurns
  BY <1>1, <1>7, SettleKeeps DEF Settle
<1>8. CASE Dispose
  <2> DEFINE S == {d \in {e \in Delegation : task[e].status = "queued"} :
                     status[d] = "queued"}
  <2>1. S \in SUBSET Work /\ \A v \in S : status[v] = "queued"
    BY <1>1
  <2>2. Remove(S)
    BY <1>8 DEF Dispose
  <2> HIDE DEF S
  <2> QED BY <1>1, <2>1, <2>2, RemoveKeeps
<1>9. CASE UNCHANGED allVars
  BY <1>2, <1>9 DEF allVars
<1>10. ASSUME NEW d \in Delegation,
              Spawn(d) \/ Rejected(d) \/ EndRun(d) \/ TimeOut(d) \/ SettleRun(d)
              \/ Cancel(d) \/ OthersMove(d) \/ Revive(d)
       PROVE  SInv' /\ TakesTurns
  <2>1. d \in Work
    BY <1>1
  <2>2. CASE Spawn(d)
    BY <1>2, <1>3, <2>1, <2>2 DEF Spawn, slots
  <2>3. CASE Rejected(d) \/ EndRun(d) \/ TimeOut(d) \/ OthersMove(d) \/ Revive(d)
    BY <1>2, <2>3 DEF Rejected, EndRun, TimeOut, OthersMove, Revive, slots
  <2>4. CASE SettleRun(d)
    BY <1>6, <2>1, <2>4 DEF SettleRun
  <2>5. CASE Cancel(d)
    BY <1>2, <1>5, <2>1, <2>5 DEF Cancel, slots
  <2> QED BY <1>10, <2>2, <2>3, <2>4, <2>5
<1>11. CASE Disposed
  BY <1>2, <1>11 DEF Disposed, slots
<1> QED
  BY <1>1, <1>3, <1>4, <1>5, <1>7, <1>8, <1>9, <1>10, <1>11 DEF ManagerNext

LEMMA MInvHolds ==
  ASSUME ManagerAssumption, SchedulerAssumption
  PROVE  /\ ManagerInit => MInv
         /\ MInv /\ [ManagerNext]_allVars => MInv' /\ TakesTurns
<1>1. ASSUME ManagerInit
      PROVE  MInv
  <2>1. IInv
    BY <1>1 DEF ManagerInit, IInv, ManagerTypes, ReportsAreRight, Records, Rows,
       RunIsRight, ReportIsRight, Terminal
  <2>2. SInv
    BY <1>1, SchedulerStarts DEF ManagerInit
  <2>3. Linked
    BY <1>1 DEF ManagerInit, Init, Linked, ManagerAssumption
  <2> QED BY <2>1, <2>2, <2>3 DEF MInv
<1>2. ASSUME MInv, [ManagerNext]_allVars
      PROVE  MInv' /\ TakesTurns
  BY <1>2, NextKeeps, NextLinks, NextSchedules DEF MInv
<1> QED BY <1>1, <1>2

-----------------------------------------------------------------------------
(* The theorems.                                                           *)

\* A conversation is told of a delegation what the ledger keeps of its Task, as
\* long as the Task does not go on after a report that it failed.
THEOREM ReportsAreTrue == ManagerSpec => []ReportMatchesLedger
<1>1. ManagerInit => IInv
  BY DEF ManagerInit, IInv, ManagerTypes, ReportsAreRight, Records, Rows, RunIsRight,
     ReportIsRight, Terminal
<1>2. IInv => ReportMatchesLedger
  BY DEF IInv, ReportsAreRight, ReportIsRight, ReportMatchesLedger
<1> QED BY <1>1, <1>2, NextKeeps, PTL DEF ManagerSpec

\* The types of scheduler and manager, and that a delegation executes in its slot.
THEOREM ManagerTypeCorrect == ManagerSpec => []ManagerTypeOK
<1>1. MInv => ManagerTypeOK
  BY DEF MInv, SInv, Sound, Types, Limits, TypeOK, IInv, ManagerTypes, Records, Rows,
     Linked, ManagerTypeOK
<1> QED
  BY <1>1, ManagerAssumption, SchedulerAssumption, MInvHolds, PTL DEF ManagerSpec

\* No delegation or other work waits while a slot is free, through cancellation,
\* timeouts and the shutdown.
THEOREM NoSlotIsIdle == ManagerSpec => []NoIdleSlot
<1>1. MInv => NoIdleSlot
  BY DEF MInv, SInv
<1> QED
  BY <1>1, ManagerAssumption, SchedulerAssumption, MInvHolds, PTL DEF ManagerSpec

\* A conversation that was served last is not served again before another that
\* waits.
THEOREM ConversationsTakeTurns == ManagerSpec => ServesAnother
<1>1. MInv /\ [ManagerNext]_allVars => [TakesTurns]_vars
  BY ManagerAssumption, SchedulerAssumption, MInvHolds
<1> QED
  BY <1>1, ManagerAssumption, SchedulerAssumption, MInvHolds, PTL
     DEF ManagerSpec, ServesAnother, TakesTurns
=============================================================================
