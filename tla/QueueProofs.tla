-------------------------- MODULE QueueProofs --------------------------
(***************************************************************************)
(* Facts about the queues of the scheduler and of the conversations: what   *)
(* stays when entries are taken out is what should, in its order.  The      *)
(* definition is recursive, so they are shown by induction on the length.   *)
(***************************************************************************)
EXTENDS Queues, Integers, WellFoundedInduction, TLAPS

Entries(s) == {s[i] : i \in DOMAIN s}
Distinct(s) == \A i, j \in DOMAIN s : s[i] = s[j] => i = j

\* The entries of x are entries of s up to the n-th, in the same order.
Within(x, s, n) ==
  \E p \in [DOMAIN x -> 1 .. n] :
    /\ \A i \in DOMAIN x : x[i] = s[p[i]]
    /\ \A i, j \in DOMAIN x : i < j => p[i] < p[j]

-----------------------------------------------------------------------------
\* Induction: a set with 0 and every successor of its numbers has them all.
LEMMA NatSets ==
  ASSUME NEW S, 0 \in S, \A n \in Nat : n \in S => n + 1 \in S
  PROVE  Nat \subseteq S
<1> SUFFICES ASSUME ~(Nat \subseteq S) PROVE FALSE
  OBVIOUS
<1> DEFINE T == Nat \ S
           R == OpToRel(<, Nat)
<1>1. IsWellFoundedOn(R, Nat)
  BY NatLessThanWellFounded
<1>2. T \subseteq Nat /\ T # {}
  OBVIOUS
<1>3. PICK x \in T : \A y \in T : ~ (<<y, x>> \in R)
  <2> HIDE DEF R, T
  <2> QED BY <1>1, <1>2, WFMin
<1>4. \A y \in Nat : y < x => <<y, x>> \in R
  BY <1>2 DEF OpToRel
<1>5. x - 1 \in T /\ x - 1 < x /\ x - 1 \in Nat
  OBVIOUS
<1> QED BY <1>3, <1>4, <1>5

\* A sequence that gets one more entry.
LEMMA AppendIs ==
  ASSUME NEW A, NEW s \in Seq(A), NEW x \in A
  PROVE  /\ Append(s, x) \in Seq(A) /\ Append(s, x) # <<>>
         /\ Entries(Append(s, x)) = Entries(s) \cup {x}
         /\ Distinct(s) /\ x \notin Entries(s) => Distinct(Append(s, x))
<1> DEFINE z == Append(s, x)
<1>1. /\ z \in Seq(A) /\ Len(z) = Len(s) + 1 /\ z[Len(s) + 1] = x
      /\ \A i \in 1 .. Len(s) : z[i] = s[i]
      /\ DOMAIN s = 1 .. Len(s) /\ DOMAIN z = 1 .. Len(s) + 1 /\ Len(s) \in Nat
  OBVIOUS
<1> HIDE DEF z
<1>2. Entries(z) = Entries(s) \cup {x}
  <2>1. ASSUME NEW y \in Entries(z) PROVE y \in Entries(s) \cup {x}
    <3>1. PICK i \in 1 .. Len(s) + 1 : y = z[i]
      BY <1>1 DEF Entries
    <3> QED BY <1>1, <3>1 DEF Entries
  <2>2. ASSUME NEW y \in Entries(s) PROVE y \in Entries(z)
    <3>1. PICK i \in 1 .. Len(s) : y = s[i]
      BY <1>1 DEF Entries
    <3>2. i \in DOMAIN z /\ y = z[i]
      BY <1>1, <3>1
    <3> QED BY <3>2 DEF Entries
  <2>3. x \in Entries(z)
    <3>1. Len(s) + 1 \in DOMAIN z
      BY <1>1
    <3> QED BY <1>1, <3>1 DEF Entries
  <2> QED BY <2>1, <2>2, <2>3
<1>3. Distinct(s) /\ x \notin Entries(s) => Distinct(z)
  <2> SUFFICES ASSUME Distinct(s), x \notin Entries(s), NEW i \in DOMAIN z,
                      NEW j \in DOMAIN z, z[i] = z[j]
               PROVE  i = j
    BY DEF Distinct
  <2>1. \A k \in 1 .. Len(s) : s[k] # x
    BY <1>1 DEF Entries
  <2> QED BY <1>1, <2>1 DEF Distinct
<1>4. z # <<>>
  BY <1>1
<1> QED BY <1>1, <1>2, <1>3, <1>4 DEF z

\* A sequence that loses its first entry.
LEMMA TailIs ==
  ASSUME NEW A, NEW s \in Seq(A), s # <<>>
  PROVE  /\ Tail(s) \in Seq(A) /\ Head(s) \in Entries(s) /\ Head(s) \in A
         /\ Distinct(s) =>
              Distinct(Tail(s)) /\ Entries(Tail(s)) = Entries(s) \ {Head(s)}
<1> DEFINE z == Tail(s)
<1>1. /\ z \in Seq(A) /\ Len(z) = Len(s) - 1 /\ Head(s) = s[1] /\ Head(s) \in A
      /\ \A i \in 1 .. Len(s) - 1 : z[i] = s[i + 1]
      /\ DOMAIN s = 1 .. Len(s) /\ DOMAIN z = 1 .. Len(s) - 1 /\ Len(s) \in Nat \ {0}
  OBVIOUS
<1> HIDE DEF z
<1>2. 1 \in DOMAIN s /\ Head(s) \in Entries(s)
  BY <1>1 DEF Entries
<1>3. ASSUME Distinct(s)
      PROVE  Distinct(z) /\ Entries(z) = Entries(s) \ {Head(s)}
  <2>1. ASSUME NEW i \in DOMAIN z, NEW j \in DOMAIN z, z[i] = z[j]
        PROVE  i = j
    <3>1. i + 1 \in DOMAIN s /\ j + 1 \in DOMAIN s /\ s[i + 1] = s[j + 1]
      BY <1>1, <2>1
    <3>2. i + 1 = j + 1
      BY <1>3, <3>1 DEF Distinct
    <3> QED BY <1>1, <3>2
  <2>2. ASSUME NEW y \in Entries(z)
        PROVE  y \in Entries(s) /\ y # Head(s)
    <3>1. PICK i \in DOMAIN z : y = z[i]
      BY DEF Entries
    <3>2. i + 1 \in DOMAIN s /\ y = s[i + 1] /\ i + 1 # 1
      BY <1>1, <3>1
    <3> QED BY <1>1, <1>2, <1>3, <3>2 DEF Entries, Distinct
  <2>3. ASSUME NEW y \in Entries(s), y # Head(s)
        PROVE  y \in Entries(z)
    <3>1. PICK i \in DOMAIN s : y = s[i]
      BY DEF Entries
    <3>2. i - 1 \in DOMAIN z /\ z[i - 1] = y
      BY <1>1, <2>3, <3>1
    <3> QED BY <3>2 DEF Entries
  <2> QED BY <2>1, <2>2, <2>3 DEF Distinct
<1> QED BY <1>1, <1>2, <1>3 DEF z

\* The empty sequence lies within every other; what lies within the first n
\* entries lies within the first n + 1.
LEMMA WithinStarts ==
  ASSUME NEW s
  PROVE  Within(<<>>, s, 0)
<1> DEFINE p == [i \in DOMAIN <<>> |-> 0]
<1>1. DOMAIN <<>> = {}
  OBVIOUS
<1>2. p \in [DOMAIN <<>> -> 1 .. 0]
  BY <1>1
<1> HIDE DEF p
<1> QED BY <1>1, <1>2 DEF Within

LEMMA WithinMore ==
  ASSUME NEW x, NEW s, NEW n \in Nat, Within(x, s, n)
  PROVE  Within(x, s, n + 1)
<1>1. PICK p \in [DOMAIN x -> 1 .. n] :
        /\ \A i \in DOMAIN x : x[i] = s[p[i]]
        /\ \A i, j \in DOMAIN x : i < j => p[i] < p[j]
  BY DEF Within
<1>2. p \in [DOMAIN x -> 1 .. n + 1]
  OBVIOUS
<1> QED BY <1>1, <1>2 DEF Within

\* What lies within a sequence and goes on with its next entry.
LEMMA WithinAppend ==
  ASSUME NEW A, NEW x \in Seq(A), NEW s, NEW n \in Nat, s[n + 1] \in A, Within(x, s, n)
  PROVE  Within(Append(x, s[n + 1]), s, n + 1)
<1> DEFINE z == Append(x, s[n + 1])
<1>1. PICK p \in [DOMAIN x -> 1 .. n] :
        /\ \A i \in DOMAIN x : x[i] = s[p[i]]
        /\ \A i, j \in DOMAIN x : i < j => p[i] < p[j]
  BY DEF Within
<1>2. /\ Len(x) \in Nat /\ DOMAIN x = 1 .. Len(x) /\ DOMAIN z = 1 .. Len(x) + 1
      /\ \A i \in 1 .. Len(x) : z[i] = x[i]
      /\ z[Len(x) + 1] = s[n + 1]
  OBVIOUS
<1> HIDE DEF z
<1> DEFINE q == [i \in DOMAIN z |-> IF i = Len(x) + 1 THEN n + 1 ELSE p[i]]
<1>3. \A i \in DOMAIN z : i = Len(x) + 1 \/ i \in DOMAIN x
  BY <1>2
<1>4. q \in [DOMAIN z -> 1 .. n + 1]
  BY <1>1, <1>3
<1>5. \A i \in DOMAIN z : z[i] = s[q[i]]
  BY <1>1, <1>2, <1>3
<1>6. \A i, j \in DOMAIN z : i < j => q[i] < q[j]
  <2> SUFFICES ASSUME NEW i \in DOMAIN z, NEW j \in DOMAIN z, i < j
               PROVE  q[i] < q[j]
    OBVIOUS
  <2>1. i \in DOMAIN x /\ i # Len(x) + 1 /\ p[i] \in 1 .. n
    BY <1>2, <1>1
  <2>2. q[i] = p[i]
    BY <2>1
  <2>3. CASE j = Len(x) + 1
    BY <2>1, <2>2, <2>3
  <2>4. CASE j # Len(x) + 1
    BY <1>1, <1>3, <2>1, <2>2, <2>4
  <2> QED BY <2>3, <2>4
<1> HIDE DEF q
<1>7. Within(z, s, n + 1)
  BY <1>4, <1>5, <1>6 DEF Within
<1> QED BY <1>7 DEF z

\* What lies within a sequence without repetitions has none.
LEMMA WithinDistinct ==
  ASSUME NEW A, NEW x \in Seq(A), NEW s \in Seq(A), Within(x, s, Len(s)), Distinct(s)
  PROVE  Distinct(x)
<1>1. PICK p \in [DOMAIN x -> 1 .. Len(s)] :
        /\ \A i \in DOMAIN x : x[i] = s[p[i]]
        /\ \A i, j \in DOMAIN x : i < j => p[i] < p[j]
  BY DEF Within
<1> SUFFICES ASSUME NEW i \in DOMAIN x, NEW j \in DOMAIN x, x[i] = x[j]
             PROVE  i = j
  BY DEF Distinct
<1>2. p[i] = p[j] /\ p[i] \in Nat
  BY <1>1 DEF Distinct
<1>3. ~ (i < j) /\ ~ (j < i)
  BY <1>1, <1>2
<1>4. i \in Int /\ j \in Int
  OBVIOUS
<1> QED BY <1>3, <1>4

\* A sequence that keeps the entries in S.
LEMMA StayingIs ==
  ASSUME NEW A, NEW s \in Seq(A), NEW S
  PROVE  /\ Staying(s, S) \in Seq(A)
         /\ Entries(Staying(s, S)) = Entries(s) \cap S
         /\ Within(Staying(s, S), s, Len(s))
         /\ Distinct(s) => Distinct(Staying(s, S))
<1> DEFINE N == Len(s)
           keep(f, i) == IF i = 0 THEN <<>>
                         ELSE IF s[i] \in S THEN Append(f[i - 1], s[i]) ELSE f[i - 1]
           k == CHOOSE f : f = [i \in 0 .. N |-> keep(f, i)]
           upto(n) == {s[i] : i \in 1 .. n}
           good(x, n) == /\ x \in Seq(A) /\ Entries(x) = upto(n) \cap S
                         /\ Within(x, s, n)
           D == {n \in Nat : n <= N =>
                   \E f : /\ f = [i \in 0 .. n |-> keep(f, i)]
                          /\ \A i \in 0 .. n : good(f[i], i)}
<1>1. N \in Nat /\ DOMAIN s = 1 .. N
  OBVIOUS
<1>2. 0 \in D
  <2> DEFINE f == [i \in 0 .. 0 |-> <<>>]
  <2>1. f = [i \in 0 .. 0 |-> keep(f, i)]
    OBVIOUS
  <2>2. good(<<>>, 0)
    BY WithinStarts DEF Entries
  <2>3. f[0] = <<>>
    OBVIOUS
  <2> HIDE DEF f, good, keep
  <2>4. \A i \in 0 .. 0 : good(f[i], i)
    BY <2>2, <2>3
  <2> QED BY <2>1, <2>4
<1>3. ASSUME NEW n \in Nat, n \in D
      PROVE  n + 1 \in D
  <2> SUFFICES ASSUME n + 1 <= N
               PROVE  \E f : /\ f = [i \in 0 .. n + 1 |-> keep(f, i)]
                             /\ \A i \in 0 .. n + 1 : good(f[i], i)
    <3> HIDE DEF keep, good
    <3> QED OBVIOUS
  <2>1. PICK f : /\ f = [i \in 0 .. n |-> keep(f, i)]
                 /\ \A i \in 0 .. n : good(f[i], i)
    <3>1. n <= N
      BY <1>1
    <3> HIDE DEF keep, good
    <3> QED BY <1>3, <3>1
  <2> DEFINE x == keep(f, n + 1)
             g == [i \in 0 .. n + 1 |-> IF i = n + 1 THEN x ELSE f[i]]
  <2>2. good(f[n], n) /\ s[n + 1] \in A /\ n + 1 \in DOMAIN s
    <3>1. n \in 0 .. n /\ n + 1 \in 1 .. N
      BY <1>1
    <3>2. good(f[n], n)
      <4> HIDE DEF keep, good
      <4> QED BY <2>1, <3>1
    <3> QED BY <1>1, <3>1, <3>2
  <2>3. /\ \A i \in 0 .. n : g[i] = f[i]
        /\ g[n + 1] = x
    OBVIOUS
  <2>4. \A i \in 0 .. n + 1 : g[i] = keep(g, i)
    <3> SUFFICES ASSUME NEW i \in 0 .. n + 1 PROVE g[i] = keep(g, i)
      OBVIOUS
    <3>1. i # 0 => i - 1 \in 0 .. n /\ g[i - 1] = f[i - 1]
      BY <2>3
    <3>2. keep(g, i) = keep(f, i)
      BY <3>1
    <3>3. i # n + 1 => f[i] = keep(f, i)
      <4>1. i # n + 1 => i \in 0 .. n
        OBVIOUS
      <4> HIDE DEF keep, good
      <4> QED BY <2>1, <4>1
    <3> QED BY <2>3, <3>2, <3>3
  <2>5. upto(n + 1) = upto(n) \cup {s[n + 1]}
    <3>1. \A i : i \in 1 .. n + 1 <=> i \in 1 .. n \/ i = n + 1
      OBVIOUS
    <3> QED BY <3>1
  <2>6. good(x, n + 1)
    <3> HIDE DEF upto
    <3>1. CASE s[n + 1] \in S
      <4>1. x = Append(f[n], s[n + 1])
        BY <3>1
      <4>2. Within(x, s, n + 1)
        BY <2>2, <4>1, WithinAppend
      <4> QED BY <2>2, <2>5, <3>1, <4>1, <4>2, AppendIs
    <3>2. CASE s[n + 1] \notin S
      <4>1. x = f[n]
        BY <3>2
      <4>2. Within(x, s, n + 1)
        BY <2>2, <4>1, WithinMore
      <4> QED BY <2>2, <2>5, <3>2, <4>1, <4>2
    <3> QED BY <3>1, <3>2
  <2>7. \A i \in 0 .. n + 1 : good(g[i], i)
    <3> HIDE DEF good, x, g
    <3> QED BY <2>1, <2>3, <2>6
  <2>8. g = [i \in 0 .. n + 1 |-> keep(g, i)]
    <3>1. DOMAIN g = 0 .. n + 1 /\ g = [i \in 0 .. n + 1 |-> g[i]]
      OBVIOUS
    <3> HIDE DEF g, keep
    <3> QED BY <2>4, <3>1
  <2> HIDE DEF good, g, keep
  <2> QED BY <2>7, <2>8
<1>4. N \in D
  <2> HIDE DEF D
  <2> QED BY <1>1, <1>2, <1>3, NatSets
<1>5. PICK f : /\ f = [i \in 0 .. N |-> keep(f, i)]
               /\ \A i \in 0 .. N : good(f[i], i)
  <2> HIDE DEF good, keep
  <2> QED BY <1>4
<1>6. k = [i \in 0 .. N |-> keep(k, i)]
  <2> HIDE DEF keep
  <2> QED BY <1>5
<1>7. \A i \in 0 .. N : k[i] = f[i]
  <2> DEFINE E == {i \in Nat : i <= N => k[i] = f[i]}
  <2>1. k[0] = <<>> /\ f[0] = <<>>
    <3>1. 0 \in 0 .. N
      BY <1>1
    <3>2. k[0] = keep(k, 0) /\ f[0] = keep(f, 0)
      <4> HIDE DEF keep, k
      <4> QED BY <1>5, <1>6, <3>1
    <3> HIDE DEF k
    <3> QED BY <3>2
  <2>2. ASSUME NEW n \in Nat, n \in E
        PROVE  n + 1 \in E
    <3> SUFFICES ASSUME n + 1 <= N PROVE k[n + 1] = f[n + 1]
      OBVIOUS
    <3>1. n + 1 \in 0 .. N /\ k[n] = f[n] /\ (n + 1) - 1 = n /\ n + 1 # 0
      BY <1>1, <2>2
    <3>2. k[n + 1] = keep(k, n + 1) /\ f[n + 1] = keep(f, n + 1)
      <4> HIDE DEF keep, k
      <4> QED BY <1>5, <1>6, <3>1
    <3> HIDE DEF k
    <3> QED BY <3>1, <3>2
  <2>3. Nat \subseteq E
    <3>1. 0 \in E
      BY <2>1
    <3> HIDE DEF E
    <3> QED BY <2>2, <3>1, NatSets
  <2> QED BY <1>1, <2>3
<1>8. Staying(s, S) = k[N]
  BY DEF Staying
<1>9. good(Staying(s, S), N)
  <2>1. N \in 0 .. N
    BY <1>1
  <2> HIDE DEF k, good, keep
  <2> QED BY <1>5, <1>7, <1>8, <2>1
<1>10. Distinct(s) => Distinct(Staying(s, S))
  BY <1>1, <1>9, WithinDistinct
<1> QED BY <1>1, <1>9, <1>10 DEF Entries
=============================================================================
