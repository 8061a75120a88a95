--------------------------- MODULE BufReaderProofs ---------------------------
(***************************************************************************)
(* The pool's classes; the readers' windows, the ownership of the buffers  *)
(* and the streams that are read, for any pool, any sizes and any number   *)
(* of readers; and that buffers are long enough, for sizes that fit.       *)
(*                                                                         *)
(* Only the last depends on the capacities of the buffers: a buffer that   *)
(* is too short makes Alloc panic and is never read into.                  *)
(***************************************************************************)
EXTENDS BufReader, FiniteSetTheorems, WellFoundedInduction, TLAPS

------------------------------------------------------------------------------
(* The classes of the pool, and the table from sizes to classes. *)

\* Sets of numbers have least elements.
LEMMA LeastElement ==
  ASSUME NEW T \in SUBSET Nat, T # {}
  PROVE  \E x \in T : \A y \in T : x <= y
<1> DEFINE R == {ss \in Nat \X Nat : ss[1] < ss[2]}
<1>1. OpToRel(<, Nat) = R
  BY DEF OpToRel
<1>2. IsWellFoundedOn(R, Nat)
  BY <1>1, NatLessThanWellFounded
<1>3. \A x, y \in Nat : y < x => <<y, x>> \in R
  OBVIOUS
<1> HIDE DEF R
<1>4. PICK x \in T : \A y \in T : ~ (<<y, x>> \in R)
  BY <1>2, WFMin
<1>5. ASSUME NEW y \in T PROVE x <= y
  <2>1. x \in Nat /\ y \in Nat
    OBVIOUS
  <2>2. ~(y < x)
    BY <1>3, <1>4, <2>1
  <2> QED
    BY <2>1, <2>2
<1> QED
  BY <1>5

\* Induction over the natural numbers, for a set of them.
LEMMA SetInduction ==
  ASSUME NEW T \in SUBSET Nat, 0 \in T, \A n \in T : n + 1 \in T
  PROVE  \A n \in Nat : n \in T
<1> SUFFICES ASSUME NEW n \in Nat, n \notin T PROVE FALSE
  OBVIOUS
<1>1. PICK x \in Nat \ T : \A y \in Nat \ T : x <= y
  BY LeastElement
<1>2. x # 0 /\ x - 1 \in Nat
  BY <1>1
<1>3. x - 1 \in T
  BY <1>1, <1>2
<1>4. (x - 1) + 1 = x
  BY <1>1
<1> QED
  BY <1>1, <1>3, <1>4

\* h holds the sums of a, d[1], ..., d[n].
Sums(h, n, a, d) == h[0] = a /\ \A k \in 1..n : h[k] = h[k - 1] + d[k]

\* The sums of a, d[1], d[2], ... exist up to any number,
LEMMA PartialSums ==
  ASSUME NEW a \in Nat, NEW d \in [Nat -> Nat]
  PROVE  \A n \in Nat : \E h \in [0..n -> Nat] : Sums(h, n, a, d)
<1> DEFINE T == {n \in Nat : \E h \in [0..n -> Nat] : Sums(h, n, a, d)}
<1>1. 0 \in T
  <2> DEFINE h == [k \in 0..0 |-> a]
  <2>1. h \in [0..0 -> Nat] /\ Sums(h, 0, a, d)
    BY DEF Sums
  <2> QED
    BY <2>1
<1>2. ASSUME NEW n \in T PROVE n + 1 \in T
  <2>0. n \in Nat /\ \E h \in [0..n -> Nat] : Sums(h, n, a, d)
    BY <1>2
  <2>1. PICK h \in [0..n -> Nat] : Sums(h, n, a, d)
    BY <2>0
  <2> HIDE DEF T
  <2> DEFINE g == [k \in 0..(n + 1) |-> IF k = n + 1 THEN h[n] + d[n + 1] ELSE h[k]]
  <2>2. g \in [0..(n + 1) -> Nat]
    <3> SUFFICES ASSUME NEW k \in 0..(n + 1)
                 PROVE  (IF k = n + 1 THEN h[n] + d[n + 1] ELSE h[k]) \in Nat
      OBVIOUS
    <3>0. n \in 0..n /\ n + 1 \in Nat /\ (k # n + 1 => k \in 0..n)
      BY <2>0
    <3>1. h[n] \in Nat /\ d[n + 1] \in Nat /\ (k # n + 1 => h[k] \in Nat)
      BY <3>0
    <3>a. \A x, y \in Nat : x + y \in Nat
      OBVIOUS
    <3>2. h[n] + d[n + 1] \in Nat
      BY <3>1, <3>a, Zenon
    <3> QED
      BY <3>1, <3>2
  <2>3. Sums(g, n + 1, a, d)
    <3>1. g[0] = a
      BY <2>0, <2>1 DEF Sums
    <3>2. ASSUME NEW k \in 1..(n + 1) PROVE g[k] = g[k - 1] + d[k]
      <4>1. k - 1 \in 0..n /\ g[k - 1] = h[k - 1]
        BY <2>0
      <4>2. CASE k = n + 1
        BY <2>0, <4>1, <4>2
      <4>3. CASE k # n + 1
        BY <2>0, <2>1, <4>1, <4>3 DEF Sums
      <4> QED
        BY <4>2, <4>3
    <3> QED
      BY <3>1, <3>2 DEF Sums
  <2> HIDE DEF g
  <2>4. n + 1 \in Nat
    BY <2>0
  <2> QED
    BY <2>2, <2>3, <2>4 DEF T
<1> HIDE DEF T
<1>3. \A n \in Nat : n \in T
  <2>1. T \in SUBSET Nat
    BY DEF T
  <2> QED
    BY <1>1, <1>2, <2>1, SetInduction
<1> QED
  BY <1>3 DEF T

\* and longer ones go on from shorter ones,
LEMMA SumsAgree ==
  ASSUME NEW a \in Nat, NEW d \in [Nat -> Nat], NEW n \in Nat,
         NEW g \in [0..n -> Nat], NEW h \in [0..(n + 1) -> Nat],
         Sums(g, n, a, d), Sums(h, n + 1, a, d)
  PROVE  g[n] = h[n]
<1> DEFINE T == {k \in Nat : k \in 0..n => g[k] = h[k]}
<1>1. 0 \in T
  BY DEF Sums
<1>2. ASSUME NEW k \in T PROVE k + 1 \in T
  <2> SUFFICES ASSUME k + 1 \in 0..n PROVE g[k + 1] = h[k + 1]
    OBVIOUS
  <2>1. g[k] = h[k]
    OBVIOUS
  <2>2. k + 1 \in 1..n /\ k + 1 \in 1..(n + 1) /\ (k + 1) - 1 = k
    OBVIOUS
  <2>3. g[k + 1] = g[k] + d[k + 1]
    BY <2>2 DEF Sums
  <2>4. h[k + 1] = h[k] + d[k + 1]
    BY <2>2 DEF Sums
  <2> QED
    BY <2>1, <2>3, <2>4
<1>3. T \in SUBSET Nat
  OBVIOUS
<1> HIDE DEF T
<1>4. n \in T
  BY <1>1, <1>2, <1>3, SetInduction
<1>5. n \in 0..n
  OBVIOUS
<1> QED
  BY <1>4, <1>5 DEF T

\* so that there is a function of all of them.
LEMMA SumsExist ==
  ASSUME NEW a \in Nat, NEW d \in [Nat -> Nat]
  PROVE  \E g \in [Nat -> Nat] : g[0] = a /\ \A k \in Nat : g[k + 1] = g[k] + d[k + 1]
<1> DEFINE H(n) == CHOOSE h \in [0..n -> Nat] : Sums(h, n, a, d)
           g == [n \in Nat |-> H(n)[n]]
<1>1. \A n \in Nat : H(n) \in [0..n -> Nat] /\ Sums(H(n), n, a, d)
  BY PartialSums
<1> HIDE DEF H
<1>2. g \in [Nat -> Nat]
  BY <1>1
<1>3. g[0] = a
  BY <1>1 DEF Sums
<1>4. ASSUME NEW k \in Nat PROVE g[k + 1] = g[k] + d[k + 1]
  <2>1. H(k) \in [0..k -> Nat] /\ Sums(H(k), k, a, d)
        /\ H(k + 1) \in [0..(k + 1) -> Nat] /\ Sums(H(k + 1), k + 1, a, d)
    BY <1>1
  <2>2. H(k)[k] = H(k + 1)[k]
    <3> DEFINE p == H(k)
               q == H(k + 1)
    <3>1. /\ p \in [0..k -> Nat] /\ Sums(p, k, a, d)
          /\ q \in [0..(k + 1) -> Nat] /\ Sums(q, k + 1, a, d)
      BY <2>1
    <3> HIDE DEF p, q
    <3>2. p[k] = q[k]
      BY <3>1, SumsAgree
    <3> QED
      BY <3>2 DEF p, q
  <2>3. H(k + 1)[k + 1] = H(k + 1)[k] + d[k + 1]
    <3>1. k + 1 \in 1..(k + 1) /\ (k + 1) - 1 = k
      OBVIOUS
    <3> QED
      BY <2>1, <3>1 DEF Sums
  <2> QED
    BY <2>2, <2>3
<1> HIDE DEF g
<1> QED
  BY <1>2, <1>3, <1>4

\* A class is at least MinSize longer than the one before.
LEMMA StepType ==
  /\ \A k \in Nat : Step(k) \in Nat /\ Step(k) >= MinSize
  /\ Step(0) = MinSize
<1>1. \A k \in Nat : k \div Factor \in Nat
  BY ParametersAssumption
<1>2. ASSUME NEW e \in Nat PROVE MinSize * (e * 2 + 1) \in Nat /\ MinSize * (e * 2 + 1) >= MinSize
  BY <1>2, ParametersAssumption
<1>3. 0 \div Factor = 0
  BY ParametersAssumption
<1>4. Step(0) = MinSize
  BY <1>3, ParametersAssumption DEF Step
<1> QED
  BY <1>1, <1>2, <1>4 DEF Step

\* The sums of the steps, which both loops of NewSyncPool compute.
LEMMA StepSums ==
  ASSUME NEW a \in Nat
  PROVE  \E g \in [Nat -> Nat] : g[0] = a /\ \A k \in Nat : g[k + 1] = g[k] + Step(k + 1)
<1> DEFINE d == [k \in Nat |-> Step(k)]
<1>1. d \in [Nat -> Nat]
  BY StepType
<1>2. PICK g \in [Nat -> Nat] : g[0] = a /\ \A k \in Nat : g[k + 1] = g[k] + d[k + 1]
  <2> HIDE DEF d
  <2> QED
    BY <1>1, SumsExist
<1>3. \A k \in Nat : k + 1 \in Nat /\ d[k + 1] = Step(k + 1)
  OBVIOUS
<1> HIDE DEF d
<1> QED
  BY <1>2, <1>3

\* What is such a sum is a natural number.
LEMMA SumsType ==
  ASSUME NEW f, f = [k \in Nat |-> f[k]], f[0] \in Nat,
         \A k \in Nat : f[k + 1] = f[k] + Step(k + 1)
  PROVE  f \in [Nat -> Nat]
<1> DEFINE T == {k \in Nat : f[k] \in Nat}
<1>1. 0 \in T
  OBVIOUS
<1>2. ASSUME NEW k \in T PROVE k + 1 \in T
  <2>1. k \in Nat /\ k + 1 \in Nat /\ f[k] \in Nat
    OBVIOUS
  <2>2. Step(k + 1) \in Nat
    BY <2>1, StepType
  <2>3. f[k + 1] = f[k] + Step(k + 1)
    BY <2>1
  <2>4. f[k + 1] \in Nat
    BY <2>1, <2>2, <2>3
  <2> QED
    BY <2>1, <2>4
<1>3. T \in SUBSET Nat
  OBVIOUS
<1> HIDE DEF T
<1>4. \A k \in Nat : k \in T
  BY <1>1, <1>2, <1>3, SetInduction
<1>5. \A k \in Nat : f[k] \in Nat
  BY <1>4 DEF T
<1> QED
  BY <1>5

\* The sizes that the first loop of NewSyncPool runs through.
LEMMA CountedRec ==
  /\ Counted \in [Nat -> Nat] /\ Counted[0] = MinSize
  /\ \A k \in Nat : Counted[k + 1] = Counted[k] + Step(k + 1)
<1> DEFINE Rhs(g, k) == IF k = 0 THEN MinSize ELSE g[k - 1] + Step(k)
           Eq(g) == g = [k \in Nat |-> Rhs(g, k)]
<1>0. MinSize \in Nat /\ Step(0) = MinSize /\ MinSize \in Nat
  BY StepType, ParametersAssumption
<1>1. PICK g \in [Nat -> Nat] : g[0] = MinSize /\ \A k \in Nat : g[k + 1] = g[k] + Step(k + 1)
  BY <1>0, StepSums
<1>2. Eq(g)
  <2>1. ASSUME NEW k \in Nat PROVE g[k] = Rhs(g, k)
    <3>1. CASE k = 0
      BY <1>0, <1>1, <3>1
    <3>2. CASE k # 0
      <4>1. k - 1 \in Nat /\ (k - 1) + 1 = k
        BY <3>2
      <4>2. g[k] = g[k - 1] + Step(k)
        BY <1>1, <4>1
      <4> QED
        BY <3>2, <4>2
    <3> QED
      BY <3>1, <3>2
  <2> HIDE DEF Rhs
  <2> QED
    BY <2>1
<1>3. Counted = CHOOSE f : Eq(f)
  BY DEF Counted
<1>4. Eq(Counted)
  <2> HIDE DEF Eq
  <2> QED
    BY <1>2, <1>3
<1>5. ASSUME NEW k \in Nat PROVE Counted[k] = Rhs(Counted, k)
  <2> HIDE DEF Rhs
  <2> QED
    BY <1>4
<1>6. Counted[0] = MinSize
  BY <1>0, <1>5
<1>7. ASSUME NEW k \in Nat PROVE Counted[k + 1] = Counted[k] + Step(k + 1)
  <2>1. k + 1 \in Nat /\ k + 1 # 0 /\ (k + 1) - 1 = k
    OBVIOUS
  <2> QED
    BY <1>5, <2>1
<1>8. Counted = [k \in Nat |-> Counted[k]]
  <2> HIDE DEF Rhs
  <2> QED
    BY <1>4
<1>9. Counted[0] \in Nat
  BY <1>0, <1>6
<1>10. Counted \in [Nat -> Nat]
  BY <1>7, <1>8, <1>9, SumsType
<1> QED
  BY <1>6, <1>7, <1>10

\* The sizes that its second loop runs through.
LEMMA ChunkRec ==
  /\ Chunk \in [Nat -> Nat] /\ Chunk[0] = MinSize + MinSize
  /\ \A k \in Nat : Chunk[k + 1] = Chunk[k] + Step(k + 1)
<1> DEFINE Rhs(g, k) == (IF k = 0 THEN MinSize ELSE g[k - 1]) + Step(k)
           Eq(g) == g = [k \in Nat |-> Rhs(g, k)]
<1>0. MinSize \in Nat /\ Step(0) = MinSize /\ MinSize + MinSize \in Nat
  BY StepType, ParametersAssumption
<1>1. PICK g \in [Nat -> Nat] : /\ g[0] = MinSize + MinSize
                                /\ \A k \in Nat : g[k + 1] = g[k] + Step(k + 1)
  BY <1>0, StepSums
<1>2. Eq(g)
  <2>1. ASSUME NEW k \in Nat PROVE g[k] = Rhs(g, k)
    <3>1. CASE k = 0
      BY <1>0, <1>1, <3>1
    <3>2. CASE k # 0
      <4>1. k - 1 \in Nat /\ (k - 1) + 1 = k
        BY <3>2
      <4>2. g[k] = g[k - 1] + Step(k)
        BY <1>1, <4>1
      <4> QED
        BY <3>2, <4>2
    <3> QED
      BY <3>1, <3>2
  <2> HIDE DEF Rhs
  <2> QED
    BY <2>1
<1>3. Chunk = CHOOSE f : Eq(f)
  BY DEF Chunk
<1>4. Eq(Chunk)
  <2> HIDE DEF Eq
  <2> QED
    BY <1>2, <1>3
<1>5. ASSUME NEW k \in Nat PROVE Chunk[k] = Rhs(Chunk, k)
  <2> HIDE DEF Rhs
  <2> QED
    BY <1>4
<1>6. Chunk[0] = MinSize + MinSize
  BY <1>0, <1>5
<1>7. ASSUME NEW k \in Nat PROVE Chunk[k + 1] = Chunk[k] + Step(k + 1)
  <2>1. k + 1 \in Nat /\ k + 1 # 0 /\ (k + 1) - 1 = k
    OBVIOUS
  <2> QED
    BY <1>5, <2>1
<1>8. Chunk = [k \in Nat |-> Chunk[k]]
  <2> HIDE DEF Rhs
  <2> QED
    BY <1>4
<1>9. Chunk[0] \in Nat
  BY <1>0, <1>6
<1>10. Chunk \in [Nat -> Nat]
  BY <1>7, <1>8, <1>9, SumsType
<1> QED
  BY <1>6, <1>7, <1>10

\* The second loop is MinSize ahead of the first.
LEMMA ChunkIsCounted == \A k \in Nat : Chunk[k] = Counted[k] + MinSize
<1> DEFINE T == {k \in Nat : Chunk[k] = Counted[k] + MinSize}
<1>1. 0 \in T
  BY CountedRec, ChunkRec
<1>2. ASSUME NEW k \in T PROVE k + 1 \in T
  <2>1. k \in Nat /\ k + 1 \in Nat /\ Chunk[k] = Counted[k] + MinSize
    OBVIOUS
  <2>2. /\ Chunk[k + 1] = Chunk[k] + Step(k + 1) /\ Counted[k + 1] = Counted[k] + Step(k + 1)
        /\ Step(k + 1) \in Nat /\ Counted[k] \in Nat /\ MinSize \in Nat
    BY <2>1, CountedRec, ChunkRec, StepType, ParametersAssumption
  <2>3. Chunk[k + 1] = Counted[k + 1] + MinSize
    BY <2>1, <2>2
  <2> QED
    BY <2>1, <2>3
<1>3. T \in SUBSET Nat
  OBVIOUS
<1> HIDE DEF T
<1>4. \A k \in Nat : k \in T
  BY <1>1, <1>2, <1>3, SetInduction
<1> QED
  BY <1>4 DEF T

\* The sizes grow by MinSize at least.
LEMMA CountedGrows ==
  /\ \A k \in Nat : Counted[k + 1] >= Counted[k] + MinSize
  /\ \A j, k \in Nat : j <= k => Counted[j] <= Counted[k]
  /\ \A k \in Nat : Counted[k] >= (k + 1) * MinSize
<1>0. MinSize \in Nat /\ MinSize >= 1
  BY ParametersAssumption
<1>1. ASSUME NEW k \in Nat PROVE Counted[k + 1] >= Counted[k] + MinSize
  <2>1. k + 1 \in Nat /\ Counted[k] \in Nat /\ Counted[k + 1] = Counted[k] + Step(k + 1)
    BY CountedRec
  <2>2. Step(k + 1) \in Nat /\ Step(k + 1) >= MinSize
    BY <2>1, StepType
  <2> QED
    BY <1>0, <2>1, <2>2
<1>2. ASSUME NEW j \in Nat, NEW k \in Nat, j <= k PROVE Counted[j] <= Counted[k]
  <2> DEFINE T == {m \in Nat : Counted[j] <= Counted[j + m]}
  <2>1. 0 \in T
    <3>1. j + 0 = j /\ Counted[j] \in Nat
      BY CountedRec
    <3> QED
      BY <3>1
  <2>2. ASSUME NEW m \in T PROVE m + 1 \in T
    <3>1. m \in Nat /\ m + 1 \in Nat /\ j + m \in Nat /\ j + (m + 1) = (j + m) + 1
          /\ Counted[j] <= Counted[j + m]
      OBVIOUS
    <3>2. /\ Counted[(j + m) + 1] >= Counted[j + m] + MinSize /\ Counted[j + m] \in Nat
          /\ Counted[j] \in Nat /\ Counted[(j + m) + 1] \in Nat
      BY <1>1, <3>1, CountedRec
    <3>3. Counted[j] <= Counted[j + (m + 1)]
      BY <1>0, <3>1, <3>2
    <3> QED
      BY <3>1, <3>3
  <2>3. T \in SUBSET Nat
    OBVIOUS
  <2> HIDE DEF T
  <2>4. k - j \in Nat /\ j + (k - j) = k
    BY <1>2
  <2>5. k - j \in T
    BY <2>1, <2>2, <2>3, <2>4, SetInduction
  <2> QED
    BY <2>4, <2>5 DEF T
<1>3. \A k \in Nat : Counted[k] >= (k + 1) * MinSize
  <2> DEFINE T == {k \in Nat : Counted[k] >= (k + 1) * MinSize}
  <2>1. 0 \in T
    BY <1>0, CountedRec
  <2>2. ASSUME NEW k \in T PROVE k + 1 \in T
    <3>1. k \in Nat /\ k + 1 \in Nat /\ Counted[k] >= (k + 1) * MinSize
      OBVIOUS
    <3>2. Counted[k + 1] >= Counted[k] + MinSize /\ Counted[k] \in Nat /\ Counted[k + 1] \in Nat
      BY <1>1, <3>1, CountedRec
    <3>3. ((k + 1) + 1) * MinSize = (k + 1) * MinSize + MinSize /\ (k + 1) * MinSize \in Nat
      BY <1>0, <3>1
    <3>4. Counted[k + 1] >= ((k + 1) + 1) * MinSize
      BY <1>0, <3>1, <3>2, <3>3
    <3> QED
      BY <3>1, <3>4
  <2>3. T \in SUBSET Nat
    OBVIOUS
  <2> HIDE DEF T
  <2>4. \A k \in Nat : k \in T
    BY <2>1, <2>2, <2>3, SetInduction
  <2> QED
    BY <2>4 DEF T
<1> QED
  BY <1>1, <1>2, <1>3

\* The first loop ends, and counts the sizes up to MaxSize.
LEMMA Counting ==
  \E n \in Nat \ {0} :
    /\ Cardinality({k \in 0..(MaxSize \div MinSize) : Counted[k] <= MaxSize}) = n
    /\ Counted[n - 1] <= MaxSize /\ Counted[n] > MaxSize
<1> DEFINE D == MaxSize \div MinSize
           T == {k \in Nat : Counted[k] > MaxSize}
<1>0. MinSize \in Nat /\ MinSize >= 1 /\ MaxSize \in Nat /\ MinSize <= MaxSize
  BY ParametersAssumption
<1>1. D \in Nat /\ (D + 1) * MinSize > MaxSize
  BY <1>0
<1> HIDE DEF D
<1>2. D \in T
  <2>1. Counted[D] >= (D + 1) * MinSize /\ Counted[D] \in Nat
    BY <1>1, CountedGrows, CountedRec
  <2>2. (D + 1) * MinSize \in Nat
    BY <1>0, <1>1
  <2> QED
    BY <1>0, <1>1, <2>1, <2>2
<1>3. T \in SUBSET Nat /\ T # {}
  BY <1>2
<1>4. PICK n \in T : \A k \in T : n <= k
  <2> HIDE DEF T
  <2> QED
    BY <1>3, LeastElement
<1>5. n \in Nat /\ Counted[n] > MaxSize /\ n <= D
  BY <1>2, <1>4
<1>6. n # 0
  BY <1>0, <1>5, CountedRec
<1>7. n - 1 \in Nat
  BY <1>5, <1>6
<1>8. \A k \in Nat : k < n => Counted[k] <= MaxSize
  <2> SUFFICES ASSUME NEW k \in Nat, k < n PROVE Counted[k] <= MaxSize
    OBVIOUS
  <2>1. k \notin T
    BY <1>4, <1>5
  <2>2. Counted[k] \in Nat
    BY CountedRec
  <2> QED
    BY <1>0, <2>1, <2>2
<1>9. \A k \in Nat : k >= n => Counted[k] > MaxSize
  <2> SUFFICES ASSUME NEW k \in Nat, k >= n PROVE Counted[k] > MaxSize
    OBVIOUS
  <2>1. Counted[n] <= Counted[k] /\ Counted[n] \in Nat /\ Counted[k] \in Nat
    BY <1>5, CountedGrows, CountedRec
  <2> QED
    BY <1>0, <1>5, <2>1
<1>10. {k \in 0..D : Counted[k] <= MaxSize} = 0..(n - 1)
  <2>1. ASSUME NEW k \in 0..D, Counted[k] <= MaxSize PROVE k \in 0..(n - 1)
    <3>1. k \in Nat /\ Counted[k] \in Nat
      BY <1>1, CountedRec
    <3>2. ~ (k >= n)
      BY <1>0, <1>9, <2>1, <3>1
    <3> QED
      BY <1>5, <3>1, <3>2
  <2>2. ASSUME NEW k \in 0..(n - 1) PROVE k \in 0..D /\ Counted[k] <= MaxSize
    <3>1. k \in Nat /\ k < n /\ k <= D
      BY <1>1, <1>5, <1>7
    <3> QED
      BY <1>1, <1>8, <3>1
  <2> QED
    BY <2>1, <2>2
<1>11. Cardinality(0..(n - 1)) = n
  <2>1. Cardinality(0..(n - 1)) = (n - 1) - 0 + 1
    BY <1>7, FS_Interval
  <2> QED
    BY <1>5, <2>1
<1>12. Counted[n - 1] <= MaxSize
  BY <1>5, <1>7, <1>8
<1> HIDE DEF T
<1>13. n \in Nat \ {0}
  BY <1>5, <1>6
<1>14. Cardinality({k \in 0..D : Counted[k] <= MaxSize}) = n
  BY <1>10, <1>11
<1> QED
  BY <1>5, <1>12, <1>13, <1>14 DEF D

\* There is a class; the sizes grow to MaxSize, which is the last one's.
LEMMA ClassFacts ==
  /\ ClassCount \in Nat \ {0}
  /\ ClassSize \in [Classes -> 1..MaxSize]
  /\ ClassSize[ClassCount - 1] = MaxSize
  /\ \A j, k \in Classes : j <= k => ClassSize[j] <= ClassSize[k]
  /\ \A k \in Classes : ClassSize[k] < MaxSize =>
       k + 1 \in Classes /\ ClassSize[k] < ClassSize[k + 1]
<1>0. MinSize \in Nat /\ MinSize >= 1 /\ MaxSize \in Nat /\ MinSize <= MaxSize
  BY ParametersAssumption
<1>1. PICK n \in Nat \ {0} :
        /\ Cardinality({k \in 0..(MaxSize \div MinSize) : Counted[k] <= MaxSize}) = n
        /\ Counted[n - 1] <= MaxSize /\ Counted[n] > MaxSize
  BY Counting
<1>2. ClassCount = IF Counted[n - 1] < MaxSize THEN n + 1 ELSE n
  BY <1>1 DEF ClassCount
<1>3. n \in Nat /\ n - 1 \in Nat /\ n >= 1
  OBVIOUS
<1>4. /\ Counted[n - 1] \in Nat /\ Counted[n] \in Nat
      /\ Chunk[n - 1] = Counted[n - 1] + MinSize /\ Chunk[n] = Counted[n] + MinSize
  BY <1>3, CountedRec, ChunkIsCounted
<1>5. ClassCount \in Nat \ {0}
  BY <1>2, <1>3
<1>6. Chunk[ClassCount - 1] >= MaxSize
  <2>1. CASE Counted[n - 1] < MaxSize
    <3>1. ClassCount - 1 = n
      BY <1>2, <1>3, <2>1
    <3> QED
      BY <1>0, <1>1, <1>4, <3>1
  <2>2. CASE ~ (Counted[n - 1] < MaxSize)
    <3>1. ClassCount - 1 = n - 1
      BY <1>2, <1>3, <2>2
    <3> QED
      BY <1>0, <1>4, <2>2, <3>1
  <2> QED
    BY <2>1, <2>2
<1>7. \A k \in Classes : k \in Nat
  BY <1>5 DEF Classes
<1>8. ClassCount - 1 \in Classes
  BY <1>5 DEF Classes
<1>9. \A k \in Classes : ClassSize[k] = IF Chunk[k] < MaxSize THEN Chunk[k] ELSE MaxSize
  BY DEF ClassSize
<1>10. \A k \in Nat : Chunk[k] \in Nat
  BY ChunkRec
<1>11. \A k \in Classes : Chunk[k] \in Nat /\ Chunk[k] >= 1
  <2> SUFFICES ASSUME NEW k \in Classes PROVE Chunk[k] \in Nat /\ Chunk[k] >= 1
    OBVIOUS
  <2>1. k \in Nat /\ Counted[k] \in Nat /\ Chunk[k] = Counted[k] + MinSize
    BY <1>7, CountedRec, ChunkIsCounted
  <2> QED
    BY <1>0, <2>1
<1>12. \A k \in Classes : ClassSize[k] \in 1..MaxSize
  BY <1>0, <1>9, <1>11
<1>13. ClassSize \in [Classes -> 1..MaxSize]
  <2>1. ClassSize = [k \in Classes |-> ClassSize[k]]
    BY DEF ClassSize
  <2> QED
    BY <1>12, <2>1
<1>14. ClassSize[ClassCount - 1] = MaxSize
  BY <1>0, <1>6, <1>8, <1>9, <1>11
<1>15. ASSUME NEW j \in Classes, NEW k \in Classes, j <= k PROVE ClassSize[j] <= ClassSize[k]
  <2>1. /\ j \in Nat /\ k \in Nat /\ Chunk[j] = Counted[j] + MinSize
        /\ Chunk[k] = Counted[k] + MinSize /\ Counted[j] \in Nat /\ Counted[k] \in Nat
    BY <1>7, CountedRec, ChunkIsCounted
  <2>2. Counted[j] <= Counted[k]
    BY <1>15, <2>1, CountedGrows
  <2>3. Chunk[j] <= Chunk[k] /\ Chunk[j] \in Nat /\ Chunk[k] \in Nat
    BY <1>0, <2>1, <2>2
  <2> QED
    BY <1>0, <1>9, <2>3
<1>16. ASSUME NEW k \in Classes, ClassSize[k] < MaxSize
       PROVE  k + 1 \in Classes /\ ClassSize[k] < ClassSize[k + 1]
  <2>1. k \in Nat /\ k <= ClassCount - 1 /\ k # ClassCount - 1
    BY <1>0, <1>5, <1>14, <1>16 DEF Classes
  <2>2. k + 1 \in Classes
    BY <1>5, <2>1 DEF Classes
  <2>3. /\ Chunk[k] = Counted[k] + MinSize /\ Chunk[k + 1] = Counted[k + 1] + MinSize
        /\ Counted[k] \in Nat /\ Counted[k + 1] \in Nat
        /\ Counted[k + 1] >= Counted[k] + MinSize
    <3>1. k + 1 \in Nat
      BY <2>1
    <3> QED
      BY <2>1, <3>1, CountedRec, CountedGrows, ChunkIsCounted
  <2>4. Chunk[k] < Chunk[k + 1] /\ Chunk[k] \in Nat /\ Chunk[k + 1] \in Nat
    BY <1>0, <2>3
  <2>5. ClassSize[k] = Chunk[k]
    BY <1>0, <1>9, <1>16, <2>4
  <2>6. ClassSize[k] < ClassSize[k + 1]
    BY <1>0, <1>9, <1>16, <2>2, <2>4, <2>5
  <2> QED
    BY <2>2, <2>6
<1> QED
  BY <1>5, <1>13, <1>14, <1>15, <1>16

\* Every size up to MaxSize is entered for some class, and for a last one,
LEMMA LastFill ==
  ASSUME NEW i \in 0..MaxSize
  PROVE  \E k \in Classes : Fills(k, i) /\ \A j \in Classes : Fills(j, i) => j <= k
<1> DEFINE Last == ClassCount - 1
           Long == {k \in Nat : k \in Classes /\ i <= ClassSize[k]}
           Room == {d \in Nat : Last - d \in Classes /\ Fills(Last - d, i)}
<1>0. MaxSize \in Nat /\ i \in Nat /\ i <= MaxSize
  BY ParametersAssumption
<1>1. Last \in Nat /\ Classes = 0..Last /\ ClassSize[Last] = MaxSize
  BY ClassFacts DEF Classes
<1>2. \A k \in Classes : k \in Nat /\ ClassSize[k] \in Nat /\ k <= Last
  <2>1. \A k \in Classes : ClassSize[k] \in 1..MaxSize
    BY ClassFacts
  <2> QED
    BY <1>0, <1>1, <2>1
<1> HIDE DEF Last
<1>3. Last \in Long
  BY <1>0, <1>1
<1>4. Long \in SUBSET Nat /\ Long # {}
  BY <1>3
<1>5. PICK k \in Long : \A j \in Long : k <= j
  <2> HIDE DEF Long
  <2> QED
    BY <1>4, LeastElement
<1>6. k \in Nat /\ k \in Classes /\ i <= ClassSize[k]
  OBVIOUS
<1>7. Fills(k, i)
  <2>1. CASE k = 0
    BY <1>6, <2>1 DEF Fills
  <2>2. CASE k > 0
    <3>1. k - 1 \in Nat /\ k - 1 \in Classes /\ k - 1 < k
      BY <1>1, <1>6, <2>2
    <3>2. k - 1 \notin Long
      BY <1>5, <1>6, <3>1
    <3>3. ~ (i <= ClassSize[k - 1]) /\ ClassSize[k - 1] \in Nat
      BY <1>2, <3>1, <3>2
    <3>4. ClassSize[k - 1] <= i
      BY <1>0, <3>3
    <3> QED
      BY <1>6, <3>4 DEF Fills
  <2> QED
    BY <1>6, <2>1, <2>2
<1> HIDE DEF Long
<1>8. Last - k \in Room
  <2>1. Last - k \in Nat /\ Last - (Last - k) = k
    BY <1>1, <1>2, <1>6
  <2> QED
    BY <1>6, <1>7, <2>1
<1>9. Room \in SUBSET Nat /\ Room # {}
  BY <1>8
<1>10. PICK d \in Room : \A e \in Room : d <= e
  <2> HIDE DEF Room
  <2> QED
    BY <1>9, LeastElement
<1>11. d \in Nat /\ Last - d \in Classes /\ Fills(Last - d, i)
  OBVIOUS
<1>12. ASSUME NEW j \in Classes, Fills(j, i) PROVE j <= Last - d
  <2>1. j \in Nat /\ Last - j \in Nat /\ Last - (Last - j) = j
    BY <1>1, <1>2
  <2>2. Last - j \in Room
    BY <1>12, <2>1
  <2>3. d <= Last - j
    BY <1>10, <2>2
  <2> QED
    BY <1>1, <1>11, <2>1, <2>3
<1> QED
  BY <1>11, <1>12

\* so that the table names a class for it, the last one if a byte holds it.
LEMMA LookupFacts ==
  ASSUME NEW i \in 0..MaxSize
  PROVE  /\ SizeLookup(i) \in Classes
         /\ ClassCount <= 256 =>
              /\ Fills(SizeLookup(i), i)
              /\ \A j \in Classes : Fills(j, i) => j <= SizeLookup(i)
<1> DEFINE Named(k) == /\ Fills(k, i) \/ k = 0
                       /\ \A j \in Classes : Fills(j, i) => j <= k
<1>1. PICK m \in Classes : Fills(m, i) /\ \A j \in Classes : Fills(j, i) => j <= m
  BY LastFill
<1>2. ClassCount \in Nat \ {0} /\ Classes = 0..(ClassCount - 1)
  BY ClassFacts DEF Classes
<1>3. \E k \in Classes : Named(k)
  BY <1>1
<1>4. PICK k \in Classes : k = (CHOOSE c \in Classes : Named(c)) /\ Named(k)
  <2> HIDE DEF Named
  <2> QED
    BY <1>3
<1>5. SizeLookup(i) = k % 256
  BY <1>4 DEF SizeLookup
<1>6. k \in Nat /\ k <= ClassCount - 1 /\ m \in Nat
  BY <1>2
<1>7. k = m
  BY <1>1, <1>4, <1>6
<1>8. k % 256 \in Nat /\ k % 256 <= k
  BY <1>6
<1>9. SizeLookup(i) \in Classes
  BY <1>2, <1>5, <1>6, <1>8
<1>10. ASSUME ClassCount <= 256 PROVE SizeLookup(i) = m
  <2>1. k < 256
    BY <1>2, <1>6, <1>10
  <2>2. k % 256 = k
    BY <1>6, <2>1
  <2> QED
    BY <1>5, <1>7, <2>2
<1> QED
  BY <1>1, <1>9, <1>10

\* A new buffer has the size that is asked for, if a byte holds the class.
LEMMA CapacityFacts ==
  ASSUME NEW size \in Nat
  PROVE  /\ Capacity(size) \in Nat
         /\ size > 0 => Capacity(size) > 0
         /\ size \in 1..MaxSize => Capacity(size) \in 1..MaxSize
         /\ size > MaxSize => Capacity(size) = size
         /\ ClassCount <= 256 => Capacity(size) >= size
<1>0. MaxSize \in Nat
  BY ParametersAssumption
<1>1. CASE size \in 1..MaxSize
  <2>1. size \in 0..MaxSize
    BY <1>0, <1>1
  <2>2. SizeLookup(size) \in Classes
    BY <2>1, LookupFacts
  <2>3. ClassSize[SizeLookup(size)] \in 1..MaxSize
    BY <2>2, ClassFacts
  <2>4. Capacity(size) = ClassSize[SizeLookup(size)]
    BY <1>1 DEF Capacity
  <2>5. ClassCount <= 256 => size <= ClassSize[SizeLookup(size)]
    BY <2>1, LookupFacts DEF Fills
  <2> QED
    BY <1>0, <1>1, <2>3, <2>4, <2>5
<1>2. CASE size \notin 1..MaxSize
  <2>1. Capacity(size) = size
    BY <1>2 DEF Capacity
  <2> QED
    BY <1>0, <1>2, <2>1
<1> QED
  BY <1>1, <1>2

\* SyncPool.Free files a buffer under its own length, where the table names the
\* next class: unless it has MaxSize, a buffer that was made for one class is
\* always filed one class higher.  There Alloc may hand it out for a size that
\* it is too short for, which is why AllocFits depends on the sizes.
THEOREM FiledOneHigher ==
  ASSUME ClassCount <= 256, NEW size \in 1..MaxSize, Capacity(size) < MaxSize
  PROVE  ReturnsTo(size) = SizeLookup(size) + 1
<1> DEFINE k == SizeLookup(size)
           c == Capacity(size)
<1>0. MaxSize \in Nat
  BY ParametersAssumption
<1>1. k \in Classes /\ c = ClassSize[k]
  <2>1. size \in 0..MaxSize
    BY <1>0
  <2> QED
    BY <2>1, LookupFacts DEF Capacity
<1>2. ClassCount \in Nat /\ Classes = 0..(ClassCount - 1)
  BY ClassFacts DEF Classes
<1>3. c \in 1..MaxSize /\ c \in 0..MaxSize
  BY <1>0, <1>1, ClassFacts
<1>4. k + 1 \in Classes /\ ClassSize[k] < ClassSize[k + 1]
  BY <1>1, ClassFacts
<1>5. ReturnsTo(size) = SizeLookup(c)
  BY DEF ReturnsTo
<1>6. SizeLookup(c) \in Classes /\ Fills(SizeLookup(c), c)
      /\ \A j \in Classes : Fills(j, c) => j <= SizeLookup(c)
  <2> HIDE DEF c
  <2> QED
    BY <1>3, LookupFacts
<1> HIDE DEF k, c
<1>7. k \in Nat /\ k + 1 > 0 /\ (k + 1) - 1 = k
  BY <1>1, <1>2
<1>8. ClassSize[k + 1] \in 1..MaxSize
  BY <1>4, ClassFacts
<1>9. Fills(k + 1, c)
  BY <1>0, <1>1, <1>3, <1>4, <1>7, <1>8 DEF Fills
<1>10. k + 1 <= SizeLookup(c)
  BY <1>4, <1>6, <1>9
<1>11. ASSUME SizeLookup(c) > k + 1 PROVE FALSE
  <2>1. SizeLookup(c) \in Nat /\ SizeLookup(c) - 1 \in Classes /\ k + 1 <= SizeLookup(c) - 1
        /\ SizeLookup(c) > 0
    BY <1>2, <1>6, <1>7, <1>11
  <2>2. ClassSize[SizeLookup(c) - 1] <= c
    BY <1>6, <2>1 DEF Fills
  <2>3. ClassSize[k + 1] <= ClassSize[SizeLookup(c) - 1]
    BY <1>4, <2>1, ClassFacts
  <2>4. ClassSize[SizeLookup(c) - 1] \in 1..MaxSize
    BY <2>1, ClassFacts
  <2> QED
    BY <1>0, <1>1, <1>3, <1>4, <1>8, <2>2, <2>3, <2>4
<1>12. SizeLookup(c) \in Nat
  BY <1>2, <1>6
<1>13. SizeLookup(c) = k + 1
  BY <1>7, <1>10, <1>11, <1>12
<1> QED
  BY <1>5, <1>13 DEF k

------------------------------------------------------------------------------
(* The readers. *)

Live == {"idle", "swap", "reading", "failed"}

ReaderType ==
  [pc : Points, buf : Bufs \union {NoBuf}, old : Bufs \union {NoBuf}, len : Nat,
   r : Nat, w : Nat, want : Nat, got : Nat, pos : Nat]

Types ==
  /\ classes \in [Classes -> SUBSET Bufs]
  /\ content \in [Bufs -> [of : Readers \union {NoBuf}, at : Int]]
  /\ rd \in [Readers -> ReaderType]

\* Where a reader x has its buffers, and that there is room in them.
Holds(x) ==
  /\ x.pc \in Live => x.buf \in Bufs /\ x.len >= 1
  /\ x.old # NoBuf <=> x.pc = "swap"
  /\ x.old # NoBuf => x.old # x.buf

Window(x) ==
  /\ x.r <= x.w /\ x.w <= x.len
  /\ x.pc \in {"swap", "reading"} => x.want + x.r <= x.len

Sound(x) == x \in ReaderType /\ Holds(x) /\ Window(x)

Local == Types /\ \A q \in Readers : Sound(rd[q])

------------------------------------------------------------------------------
\* Init gives every reader and buffer a value of its type.
LEMMA InitLocal == Init => Local /\ BufferHasOneOwner /\ ReadsOwnStream
<1> SUFFICES ASSUME Init PROVE Local /\ BufferHasOneOwner /\ ReadsOwnStream
  OBVIOUS
<1>1. \A q \in Readers : rd[q] = Closed("none")
  BY DEF Init
<1>2. Closed("none") \in ReaderType
  BY DEF Closed, ReaderType, Points
<1>3. Local
  BY <1>1, <1>2, ReaderAssumption DEF Init, Local, Types, Sound, Holds, Window, Live, Closed, Blank
<1>4. BufferHasOneOwner
  BY <1>1 DEF Init, BufferHasOneOwner, Owned, Pooled, Closed
<1>5. ReadsOwnStream
  BY <1>1 DEF ReadsOwnStream, Closed
<1> QED
  BY <1>3, <1>4, <1>5

\* The pool's operations keep the classes' type.
LEMMA AllocType ==
  ASSUME Types, NEW b \in Bufs, NEW size, Alloc(b, size)
  PROVE  classes' \in [Classes -> SUBSET Bufs]
BY DEF Types, Alloc

LEMMA FreeType ==
  ASSUME Types, NEW b \in Bufs, Free(b)
  PROVE  /\ classes' \in [Classes -> SUBSET Bufs]
         /\ content' \in [Bufs -> [of : Readers \union {NoBuf}, at : Int]]
<1>1. CASE cap[b] <= MaxSize /\ classes' = [classes EXCEPT ![SizeLookup(cap[b])] = @ \union {b}]
           /\ UNCHANGED <<cap, content>>
  BY <1>1 DEF Types
<1>2. CASE Collect(b) /\ UNCHANGED classes
  BY <1>2 DEF Types, Collect, Blank
<1> QED
  BY <1>1, <1>2 DEF Free

\* A step changes one reader only, so only that one has to be looked at.
LEMMA OneChanges ==
  ASSUME Types, NEW q \in Readers, NEW new \in ReaderType, Becomes(q, new)
  PROVE  /\ rd' \in [Readers -> ReaderType] /\ rd'[q] = new
         /\ \A p \in Readers : p # q => rd'[p] = rd[p]
BY DEF Types, Becomes

LEMMA LocalSuffices ==
  ASSUME Local, NEW q \in Readers, NEW new, Becomes(q, new), Sound(new),
         classes' \in [Classes -> SUBSET Bufs],
         content' \in [Bufs -> [of : Readers \union {NoBuf}, at : Int]]
  PROVE  Local'
<1>1. /\ rd' \in [Readers -> ReaderType] /\ rd'[q] = new
      /\ \A p \in Readers : p # q => rd'[p] = rd[p]
  BY OneChanges DEF Local, Sound
<1>2. \A p \in Readers : Sound(rd'[p])
  BY <1>1 DEF Local
<1> QED
  BY <1>1, <1>2 DEF Local, Types, Sound, Holds, Window

\* Every step of a reader keeps its window in its buffer.
LEMMA LocalReader ==
  ASSUME Local, BufferHasOneOwner, NEW q \in Readers, ReaderStep(q)
  PROVE  Local'
<1> DEFINE x == rd[q]
<1>0. /\ Types /\ Sound(x) /\ x \in ReaderType
      /\ x.r \in Nat /\ x.w \in Nat /\ x.len \in Nat /\ x.want \in Nat
      /\ x.got \in Nat /\ x.pos \in Nat
  BY DEF Local, Sound, ReaderType
<1>a. Unread(q) \in Nat /\ Unread(q) = x.w - x.r
  BY <1>0 DEF Unread, Sound, Window
<1>b. ASSUME UNCHANGED classes PROVE classes' \in [Classes -> SUBSET Bufs]
  BY <1>0, <1>b DEF Types
<1>c. ASSUME UNCHANGED content
      PROVE content' \in [Bufs -> [of : Readers \union {NoBuf}, at : Int]]
  BY <1>0, <1>c DEF Types
<1>d. NoBuf \notin Bufs /\ InitialSize \in Nat \ {0} /\ Slack \in Nat /\ MaxStream \in Nat
      /\ \A n \in Reads : n \in Nat /\ n >= 1
  BY ReaderAssumption
<1>1. CASE NewReader(q)
  <2>1. PICK b \in Bufs :
          /\ Alloc(b, InitialSize)
          /\ Becomes(q, IF cap'[b] < InitialSize THEN Closed("panicked")
                        ELSE [Closed("idle") EXCEPT !.buf = b, !.len = InitialSize])
    BY <1>1 DEF NewReader
  <2> DEFINE new == [Closed("idle") EXCEPT !.buf = b, !.len = InitialSize]
  <2>2. Sound(Closed("panicked"))
    BY <1>d DEF Closed, Sound, ReaderType, Holds, Window, Live, Points
  <2>6. Sound(new)
    <3> DEFINE c == Closed("idle")
    <3>1. /\ c \in ReaderType /\ c.pc = "idle" /\ c.old = NoBuf
          /\ c.r = 0 /\ c.w = 0
      BY DEF Closed, ReaderType, Points
    <3> HIDE DEF c
    <3>2. new \in ReaderType
      BY <1>d, <3>1 DEF ReaderType, c
    <3>3. /\ new.r = 0 /\ new.w = 0 /\ new.len = InitialSize /\ new.pc = "idle"
          /\ new.buf = b /\ new.old = NoBuf
      BY <3>1 DEF ReaderType, c
    <3> HIDE DEF new
    <3> QED
      BY <1>d, <3>2, <3>3 DEF Sound, Holds, Window, Live
  <2>3. /\ classes' \in [Classes -> SUBSET Bufs]
        /\ content' \in [Bufs -> [of : Readers \union {NoBuf}, at : Int]]
    BY <1>0, <1>1, <1>c, <2>1, AllocType DEF NewReader
  <2>4. CASE Becomes(q, Closed("panicked"))
    BY <2>2, <2>3, <2>4, LocalSuffices
  <2>5. CASE Becomes(q, new)
    BY <2>3, <2>5, <2>6, LocalSuffices
  <2> QED
    BY <2>1, <2>4, <2>5
<1>2. CASE FreeOld(q)
  <2> DEFINE new == [x EXCEPT !.pc = "reading", !.old = NoBuf]
  <2>1. x.old \in Bufs /\ x.pc = "swap"
    BY <1>0, <1>2 DEF FreeOld, At, Sound, Holds, ReaderType
  <2>2. Sound(new)
    <3>1. new \in ReaderType
      BY <1>0, <2>1 DEF ReaderType, Points
    <3>2. /\ new.r = x.r /\ new.w = x.w /\ new.len = x.len /\ new.pc = "reading"
          /\ new.want = x.want /\ new.buf = x.buf /\ new.old = NoBuf
      BY <1>0 DEF ReaderType
    <3> HIDE DEF new
    <3> QED
      BY <1>0, <2>1, <3>1, <3>2 DEF Sound, Holds, Window, Live
  <2> QED
    BY <1>0, <1>2, <2>1, <2>2, FreeType, LocalSuffices DEF FreeOld
<1>3. CASE ReadByte(q)
  <2> DEFINE start == IF x.w = x.len THEN 0 ELSE x.w
             new == [x EXCEPT !.pc = "reading", !.want = 1, !.r = start, !.w = start]
  <2>1. start \in Nat /\ start + 1 <= x.len /\ x.old = NoBuf /\ x.buf \in Bufs
    BY <1>0, <1>3 DEF ReadByte, At, Sound, Holds, Live, Window
  <2> HIDE DEF start
  <2>2. Sound(new)
    <3>1. new \in ReaderType
      BY <1>0, <2>1 DEF ReaderType, Points
    <3>2. /\ new.r = start /\ new.w = start /\ new.len = x.len /\ new.pc = "reading"
          /\ new.want = 1 /\ new.buf = x.buf /\ new.old = x.old
      BY <1>0 DEF ReaderType
    <3> HIDE DEF new
    <3> QED
      BY <1>0, <2>1, <3>1, <3>2 DEF Sound, Holds, Window, Live
  <2> USE DEF start
  <2> QED
    BY <1>3, <1>b, <1>c, <2>2, LocalSuffices DEF ReadByte
<1>4. CASE ReadFails(q)
  <2>1. Sound([x EXCEPT !.pc = "failed"])
    BY <1>0, <1>4 DEF ReadFails, At, Sound, ReaderType, Holds, Window, Live, Points
  <2> QED
    BY <1>4, <1>b, <1>c, <2>1, LocalSuffices DEF ReadFails
<1>5. CASE Close(q)
  <2>1. Sound(Closed("closed")) /\ x.buf \in Bufs
    BY <1>0, <1>5 DEF Close, Closed, Sound, ReaderType, Holds, Window, Live, Points
  <2> QED
    BY <1>0, <1>5, <2>1, FreeType, LocalSuffices DEF Close
<1>6. ASSUME NEW n \in Reads, ReadBuffered(q, n)
      PROVE  Local'
  <2> DEFINE new == [x EXCEPT !.r = @ + n, !.got = @ + n]
  <2>1. /\ x.r + n <= x.w /\ x.pc = "idle" /\ n \in Nat
        /\ x.r + n \in Nat /\ x.got + n \in Nat
    BY <1>0, <1>a, <1>d, <1>6 DEF ReadBuffered, At
  <2>2. Sound(new)
    <3>1. new \in ReaderType
      BY <1>0, <2>1 DEF ReaderType
    <3>2. /\ new.r = x.r + n /\ new.w = x.w /\ new.len = x.len /\ new.pc = x.pc
          /\ new.buf = x.buf /\ new.old = x.old
      BY <1>0 DEF ReaderType
    <3> HIDE DEF new
    <3> QED
      BY <1>0, <2>1, <3>1, <3>2 DEF Sound, Holds, Window, Live
  <2> QED
    BY <1>6, <1>b, <1>c, <2>2, LocalSuffices DEF ReadBuffered
<1>7. ASSUME NEW n \in Reads, Compact(q, n)
      PROVE  Local'
  <2> DEFINE new == [x EXCEPT !.pc = "reading", !.want = n, !.r = 0, !.w = Unread(q)]
  <2>1. /\ Unread(q) <= x.len /\ n <= x.len /\ x.pc = "idle" /\ n \in Nat
        /\ x.buf \in Bufs /\ x.old = NoBuf /\ x.len >= 1
    BY <1>0, <1>a, <1>d, <1>7 DEF Compact, At, Needed, Sound, Holds, Live
  <2>2. Sound(new)
    <3>1. new \in ReaderType
      BY <1>0, <1>a, <2>1 DEF ReaderType, Points
    <3>2. /\ new.r = 0 /\ new.w = Unread(q) /\ new.len = x.len /\ new.pc = "reading"
          /\ new.want = n /\ new.buf = x.buf /\ new.old = x.old
      BY <1>0 DEF ReaderType
    <3> HIDE DEF new
    <3> QED
      BY <1>0, <1>a, <2>1, <3>1, <3>2 DEF Sound, Holds, Window, Live
  <2>3. content' \in [Bufs -> [of : Readers \union {NoBuf}, at : Int]]
    BY <1>0, <1>7, <2>1 DEF Compact, Types
  <2> QED
    BY <1>7, <1>b, <2>2, <2>3, LocalSuffices DEF Compact
<1>8. ASSUME NEW n \in Reads, Grow(q, n)
      PROVE  Local'
  <2> DEFINE new(b, size) == [x EXCEPT !.pc = "swap", !.want = n, !.r = 0, !.w = Unread(q),
                                       !.buf = b, !.old = x.buf, !.len = size]
             bad == [x EXCEPT !.pc = "panicked"]
  <2>1. PICK size \in Powers, b \in Bufs :
          /\ NextPowerOfTwo(Needed(q, n) + Slack, size) /\ Alloc(b, size)
          /\ Becomes(q, IF cap'[b] < size THEN bad ELSE new(b, size))
          /\ content' = [content EXCEPT ![b] = [content[x.buf] EXCEPT !.at = @ + x.r]]
    BY <1>8 DEF Grow
  <2>2. x.pc = "idle" /\ x.buf \in Bufs /\ x.old = NoBuf
    BY <1>0, <1>8 DEF Grow, At, Sound, Holds, Live
  <2>3. size \in Nat /\ size >= n + Unread(q) /\ size >= 1 /\ n \in Nat
    BY <1>a, <1>d, <2>1, ReaderAssumption DEF NextPowerOfTwo, Needed
  <2>4. b # x.buf
    BY <2>1 DEF Alloc, Owned, Pooled, BufferHasOneOwner
  <2>5. Sound(new(b, size))
    <3> DEFINE y == new(b, size)
    <3>1. y \in ReaderType
      BY <1>0, <1>a, <2>2, <2>3 DEF ReaderType, Points
    <3>2. /\ y.r = 0 /\ y.w = Unread(q) /\ y.len = size /\ y.pc = "swap"
          /\ y.want = n /\ y.buf = b /\ y.old = x.buf
      BY <1>0 DEF ReaderType
    <3> HIDE DEF y
    <3>3. Sound(y)
      BY <1>a, <1>d, <2>2, <2>3, <2>4, <3>1, <3>2 DEF Sound, Holds, Window, Live
    <3> QED
      BY <3>3 DEF y
  <2>6. Sound(bad)
    BY <1>0, <2>2 DEF Sound, ReaderType, Holds, Window, Live, Points
  <2>7. content' \in [Bufs -> [of : Readers \union {NoBuf}, at : Int]]
    BY <1>0, <2>1, <2>2 DEF Types
  <2>8. classes' \in [Classes -> SUBSET Bufs]
    BY <1>0, <2>1, AllocType
  <2> HIDE DEF new, bad
  <2> QED
    BY <2>1, <2>5, <2>6, <2>7, <2>8, LocalSuffices
<1>9. ASSUME NEW k \in 1..MaxStream, Deliver(q, k)
      PROVE  Local'
  <2> DEFINE new == [x EXCEPT !.pc = "idle", !.w = @ + k, !.pos = @ + k,
                              !.r = @ + x.want, !.got = @ + x.want]
  <2>1. /\ x.r + x.want <= x.w + k /\ x.w + k <= x.len /\ k \in Nat
        /\ x.w + k \in Nat /\ x.pos + k \in Nat
        /\ x.r + x.want \in Nat /\ x.got + x.want \in Nat
        /\ x.pc = "reading" /\ x.buf \in Bufs /\ x.old = NoBuf /\ x.len >= 1
    BY <1>0, <1>a, <1>d, <1>9 DEF Deliver, At, Sound, Holds, Live
  <2>2. Sound(new)
    <3>1. new \in ReaderType
      BY <1>0, <2>1 DEF ReaderType, Points
    <3>2. /\ new.r = x.r + x.want /\ new.w = x.w + k /\ new.len = x.len
          /\ new.pc = "idle" /\ new.buf = x.buf /\ new.old = x.old
      BY <1>0 DEF ReaderType
    <3> HIDE DEF new
    <3> QED
      BY <1>0, <2>1, <3>1, <3>2 DEF Sound, Holds, Window, Live
  <2>3. content' \in [Bufs -> [of : Readers \union {NoBuf}, at : Int]]
    BY <1>0, <1>9, <2>1 DEF Deliver, Types
  <2> QED
    BY <1>9, <1>b, <2>2, <2>3, LocalSuffices DEF Deliver
<1> QED
  BY <1>1, <1>2, <1>3, <1>4, <1>5, <1>6, <1>7, <1>8, <1>9 DEF ReaderStep

------------------------------------------------------------------------------
Mine(q) == {rd[q].buf, rd[q].old}

\* A reader may take the buffer that it has been allocated.
LEMMA Takes ==
  ASSUME Local, BufferHasOneOwner, NEW q \in Readers, NEW b \in Bufs, NEW size, Alloc(b, size),
         Mine(q)' \subseteq Mine(q) \union {b, NoBuf},
         \A p \in Readers : p # q => rd'[p] = rd[p]
  PROVE  BufferHasOneOwner'
<1>0. NoBuf \notin Bufs /\ classes \in [Classes -> SUBSET Bufs]
  BY ReaderAssumption DEF Local, Types
<1>1. /\ \A p \in Readers : b \notin Mine(p)
      /\ \A k \in Classes : classes'[k] \subseteq classes[k] /\ b \notin classes'[k]
  BY <1>0 DEF Alloc, BufferHasOneOwner, Owned, Pooled, Mine
<1>2. \A p \in Readers : p # q => Mine(p)' = Mine(p)
  BY DEF Mine
<1>3. \A p, o \in Readers : p # o => (Mine(p) \intersect Mine(o))' \subseteq {NoBuf}
  <2>1. \A p, o \in Readers : p # o => Mine(p) \intersect Mine(o) \subseteq {NoBuf}
    BY DEF BufferHasOneOwner, Mine
  <2> QED
    BY <1>1, <1>2, <2>1
<1>4. \A p \in Readers, k \in Classes : Mine(p)' \intersect classes'[k] = {}
  <2>1. \A p \in Readers, k \in Classes : Mine(p) \intersect classes[k] = {}
    BY DEF BufferHasOneOwner, Owned, Pooled, Mine
  <2> QED
    BY <1>0, <1>1, <1>2, <2>1
<1>5. \A j, k \in Classes : j # k => classes'[j] \intersect classes'[k] = {}
  BY <1>1 DEF BufferHasOneOwner
<1> QED
  BY <1>3, <1>4, <1>5 DEF BufferHasOneOwner, Owned, Pooled, Mine

\* A reader may free a buffer that it lets go.
LEMMA Gives ==
  ASSUME Local, BufferHasOneOwner, NEW q \in Readers, NEW b \in Bufs, Free(b),
         b \in Mine(q), Mine(q)' \subseteq (Mine(q) \ {b}) \union {NoBuf},
         \A p \in Readers : p # q => rd'[p] = rd[p]
  PROVE  BufferHasOneOwner'
<1>0. NoBuf \notin Bufs /\ classes \in [Classes -> SUBSET Bufs]
  BY ReaderAssumption DEF Local, Types
<1>1. /\ \A p \in Readers : p # q => Mine(p)' = Mine(p) /\ b \notin Mine(p)
      /\ b \notin Mine(q)'
  BY <1>0 DEF Mine, BufferHasOneOwner
<1>2. \A k \in Classes : b \notin classes[k]
  BY DEF BufferHasOneOwner, Owned, Pooled, Mine
<1>3. /\ \A k \in Classes : classes'[k] \subseteq classes[k] \union {b}
      /\ \A j, k \in Classes : j # k => b \notin classes'[j] \/ b \notin classes'[k]
  BY <1>0, <1>2 DEF Free, Collect
<1>4. \A p, o \in Readers : p # o => (Mine(p) \intersect Mine(o))' \subseteq {NoBuf}
  <2>1. \A p, o \in Readers : p # o => Mine(p) \intersect Mine(o) \subseteq {NoBuf}
    BY DEF BufferHasOneOwner, Mine
  <2> QED
    BY <1>1, <2>1
<1>5. \A p \in Readers, k \in Classes : Mine(p)' \intersect classes'[k] = {}
  <2>1. \A p \in Readers, k \in Classes : Mine(p) \intersect classes[k] = {}
    BY DEF BufferHasOneOwner, Owned, Pooled, Mine
  <2> QED
    BY <1>0, <1>1, <1>3, <2>1
<1>6. \A j, k \in Classes : j # k => classes'[j] \intersect classes'[k] = {}
  BY <1>3 DEF BufferHasOneOwner
<1> QED
  BY <1>4, <1>5, <1>6 DEF BufferHasOneOwner, Owned, Pooled, Mine

\* What a step of q does to the buffers: nothing, or it takes one and panics
\* only if that is too short, or it frees one of its own.
Rests(q) ==
  /\ UNCHANGED <<cap, classes>> /\ rd'[q].pc # "panicked"
  /\ rd'[q].buf = rd[q].buf /\ rd'[q].old = rd[q].old

Taken(q, b, size) ==
  /\ Alloc(b, size) /\ Mine(q)' \subseteq Mine(q) \union {b, NoBuf}
  /\ rd'[q].pc = "panicked" => cap'[b] < size

Given(q, b) ==
  /\ Free(b) /\ rd'[q].pc # "panicked"
  /\ b \in Mine(q) /\ Mine(q)' \subseteq (Mine(q) \ {b}) \union {NoBuf}

Moves(q) ==
  /\ \A p \in Readers : p # q => rd'[p] = rd[p]
  /\ \/ Rests(q)
     \/ \E b \in Bufs, size \in AllocSizes : Taken(q, b, size)
     \/ \E b \in Bufs : Given(q, b)

\* Every operation of Reader is one of these.
LEMMA ReaderMoves ==
  ASSUME Local, NEW q \in Readers, ReaderStep(q)
  PROVE  Moves(q)
<1> DEFINE x == rd[q]
<1>0. /\ rd \in [Readers -> ReaderType] /\ x \in ReaderType /\ NoBuf \notin Bufs
      /\ Holds(x)
  BY ReaderAssumption DEF Local, Types, Sound
<1>a. ASSUME NEW new, Becomes(q, new)
      PROVE  rd'[q] = new /\ \A p \in Readers : p # q => rd'[p] = rd[p]
  BY <1>0, <1>a DEF Becomes
<1>b. ASSUME NEW new, Becomes(q, new), new.buf = x.buf, new.old = x.old, new.pc # "panicked",
             UNCHANGED <<cap, classes>>
      PROVE  Moves(q)
  BY <1>a, <1>b DEF Moves, Rests
<1>1. CASE NewReader(q)
  <2>1. PICK b \in Bufs :
          /\ Alloc(b, InitialSize)
          /\ Becomes(q, IF cap'[b] < InitialSize THEN Closed("panicked")
                        ELSE [Closed("idle") EXCEPT !.buf = b, !.len = InitialSize])
    BY <1>1 DEF NewReader
  <2> DEFINE new == [Closed("idle") EXCEPT !.buf = b, !.len = InitialSize]
  <2>2. /\ new.buf = b /\ new.old = NoBuf /\ new.pc = "idle"
        /\ Closed("panicked").buf = NoBuf /\ Closed("panicked").old = NoBuf
    BY DEF Closed
  <2> HIDE DEF new
  <2>3. \/ cap'[b] < InitialSize /\ rd'[q] = Closed("panicked")
        \/ rd'[q] = new
    BY <1>a, <2>1 DEF new
  <2>4. \A p \in Readers : p # q => rd'[p] = rd[p]
    BY <1>a, <2>1
  <2>5. Mine(q)' \subseteq {b, NoBuf}
    BY <2>2, <2>3 DEF Mine
  <2>6. InitialSize \in AllocSizes
    BY DEF AllocSizes
  <2>7. Taken(q, b, InitialSize)
    BY <2>1, <2>2, <2>3, <2>5 DEF Taken
  <2> QED
    BY <2>4, <2>6, <2>7 DEF Moves
<1>2. CASE FreeOld(q)
  <2> DEFINE new == [x EXCEPT !.pc = "reading", !.old = NoBuf]
  <2>1. x.old \in Bufs /\ x.old # x.buf
    BY <1>0, <1>2 DEF FreeOld, At, Holds, ReaderType
  <2>2. /\ new.buf = x.buf /\ new.old = NoBuf /\ new.pc = "reading"
        /\ Becomes(q, new) /\ Free(x.old)
    BY <1>0, <1>2 DEF FreeOld, ReaderType
  <2> HIDE DEF new
  <2>3. Mine(q)' \subseteq (Mine(q) \ {x.old}) \union {NoBuf} /\ x.old \in Mine(q)
    BY <1>a, <2>1, <2>2 DEF Mine
  <2>4. Given(q, x.old)
    BY <1>a, <2>2, <2>3 DEF Given
  <2> QED
    BY <1>a, <2>1, <2>2, <2>4 DEF Moves
<1>3. CASE ReadByte(q)
  <2> DEFINE start == IF x.w = x.len THEN 0 ELSE x.w
             new == [x EXCEPT !.pc = "reading", !.want = 1, !.r = start, !.w = start]
  <2>1. new.buf = x.buf /\ new.old = x.old /\ new.pc = "reading"
    BY <1>0 DEF ReaderType
  <2>2. Becomes(q, new) /\ UNCHANGED <<cap, classes>>
    BY <1>3 DEF ReadByte
  <2> HIDE DEF new
  <2> QED
    BY <1>b, <2>1, <2>2
<1>4. CASE ReadFails(q)
  <2> DEFINE new == [x EXCEPT !.pc = "failed"]
  <2>1. new.buf = x.buf /\ new.old = x.old /\ new.pc = "failed"
    BY <1>0 DEF ReaderType
  <2>2. Becomes(q, new) /\ UNCHANGED <<cap, classes>>
    BY <1>4 DEF ReadFails
  <2> HIDE DEF new
  <2> QED
    BY <1>b, <2>1, <2>2
<1>5. CASE Close(q)
  <2>1. /\ x.buf \in Bufs /\ x.pc # "swap" /\ Free(x.buf) /\ Becomes(q, Closed("closed"))
        /\ Closed("closed").pc = "closed"
    BY <1>0, <1>5 DEF Close, ReaderType, Closed
  <2>2. Mine(q)' \subseteq {NoBuf} /\ x.buf \in Mine(q)
    BY <1>a, <2>1 DEF Mine, Closed
  <2>3. Given(q, x.buf)
    <3>1. NoBuf # x.buf /\ rd'[q].pc = "closed"
      BY <1>0, <1>a, <2>1
    <3> QED
      BY <2>1, <2>2, <3>1 DEF Given
  <2> QED
    BY <1>a, <2>1, <2>3 DEF Moves
<1>6. ASSUME NEW n \in Reads, ReadBuffered(q, n) \/ Compact(q, n)
      PROVE  Moves(q)
  <2> DEFINE buffered == [x EXCEPT !.r = @ + n, !.got = @ + n]
             moved == [x EXCEPT !.pc = "reading", !.want = n, !.r = 0, !.w = Unread(q)]
  <2>1. /\ buffered.buf = x.buf /\ buffered.old = x.old /\ buffered.pc = x.pc
        /\ moved.buf = x.buf /\ moved.old = x.old /\ moved.pc = "reading"
    BY <1>0 DEF ReaderType
  <2>2. Becomes(q, buffered) \/ Becomes(q, moved)
    BY <1>6 DEF ReadBuffered, Compact
  <2>3. UNCHANGED <<cap, classes>> /\ x.pc = "idle"
    BY <1>6 DEF ReadBuffered, Compact, At
  <2> HIDE DEF buffered, moved
  <2> QED
    BY <1>b, <2>1, <2>2, <2>3
<1>7. ASSUME NEW n \in Reads, Grow(q, n)
      PROVE  Moves(q)
  <2> DEFINE new(b, size) == [x EXCEPT !.pc = "swap", !.want = n, !.r = 0, !.w = Unread(q),
                                       !.buf = b, !.old = x.buf, !.len = size]
             bad == [x EXCEPT !.pc = "panicked"]
  <2>1. PICK size \in Powers, b \in Bufs :
          /\ NextPowerOfTwo(Needed(q, n) + Slack, size) /\ Alloc(b, size)
          /\ Becomes(q, IF cap'[b] < size THEN bad ELSE new(b, size))
    BY <1>7 DEF Grow
  <2>2. /\ new(b, size).buf = b /\ new(b, size).old = x.buf /\ new(b, size).pc = "swap"
        /\ bad.buf = x.buf /\ bad.old = x.old
    BY <1>0 DEF ReaderType
  <2> HIDE DEF new, bad
  <2>3. (cap'[b] < size /\ rd'[q] = bad) \/ rd'[q] = new(b, size)
    BY <1>a, <2>1
  <2>4. Mine(q)' \subseteq Mine(q) \union {b, NoBuf}
    BY <2>2, <2>3 DEF Mine
  <2>5. size \in AllocSizes
    <3>1. Unread(q) \in Nat /\ n \in Nat /\ n >= 1 /\ Slack \in Nat /\ size \in Nat
      BY ReaderAssumption DEF Local, Sound, ReaderType, Window, Unread
    <3>2. size # 0
      BY <2>1, <3>1 DEF NextPowerOfTwo, Needed
    <3> QED
      BY <3>2 DEF AllocSizes
  <2>6. Taken(q, b, size)
    BY <2>1, <2>2, <2>3, <2>4 DEF Taken
  <2>7. \A p \in Readers : p # q => rd'[p] = rd[p]
    BY <1>a, <2>1
  <2> QED
    BY <2>5, <2>6, <2>7 DEF Moves
<1>8. ASSUME NEW k \in 1..MaxStream, Deliver(q, k)
      PROVE  Moves(q)
  <2> DEFINE new == [x EXCEPT !.pc = "idle", !.w = @ + k, !.pos = @ + k,
                              !.r = @ + x.want, !.got = @ + x.want]
  <2>1. new.buf = x.buf /\ new.old = x.old /\ new.pc = "idle"
    BY <1>0 DEF ReaderType
  <2>2. Becomes(q, new) /\ UNCHANGED <<cap, classes>>
    BY <1>8 DEF Deliver
  <2> HIDE DEF new
  <2> QED
    BY <1>b, <2>1, <2>2
<1> QED
  BY <1>1, <1>2, <1>3, <1>4, <1>5, <1>6, <1>7, <1>8 DEF ReaderStep

\* Every step of a reader keeps every buffer with one owner.
LEMMA OwnerReader ==
  ASSUME Local, BufferHasOneOwner, NEW q \in Readers, ReaderStep(q)
  PROVE  BufferHasOneOwner'
<1>0. Moves(q)
  BY ReaderMoves
<1>1. \A p \in Readers : p # q => rd'[p] = rd[p]
  BY <1>0 DEF Moves
<1>2. CASE Rests(q)
  <2>1. \A p \in Readers : rd'[p].buf = rd[p].buf /\ rd'[p].old = rd[p].old
    BY <1>1, <1>2 DEF Rests
  <2>2. classes' = classes
    BY <1>2 DEF Rests
  <2>3. Owned' = Owned
    BY <2>1 DEF Owned
  <2>4. Pooled' = Pooled
    BY <2>2 DEF Pooled
  <2>5. (Owned \intersect Pooled = {})'
    BY <2>3, <2>4 DEF BufferHasOneOwner
  <2>6. \A p, o \in Readers : p # o =>
          {rd'[p].buf, rd'[p].old} \intersect {rd'[o].buf, rd'[o].old} \subseteq {NoBuf}
    <3> TAKE p, o \in Readers
    <3>1. {rd'[p].buf, rd'[p].old} = {rd[p].buf, rd[p].old}
          /\ {rd'[o].buf, rd'[o].old} = {rd[o].buf, rd[o].old}
      BY <2>1
    <3> QED
      BY <3>1, Zenon DEF BufferHasOneOwner
  <2>7. \A j, k \in Classes : j # k => classes'[j] \intersect classes'[k] = {}
    BY <2>2 DEF BufferHasOneOwner
  <2> QED
    BY <2>5, <2>6, <2>7, Zenon DEF BufferHasOneOwner
<1>3. ASSUME NEW b \in Bufs, NEW size \in AllocSizes, Taken(q, b, size)
      PROVE  BufferHasOneOwner'
  BY <1>1, <1>3, Takes DEF Taken
<1>4. ASSUME NEW b \in Bufs, Given(q, b) PROVE BufferHasOneOwner'
  BY <1>1, <1>4, Gives DEF Given
<1> QED
  BY <1>0, <1>2, <1>3, <1>4 DEF Moves

------------------------------------------------------------------------------
Reading == {"idle", "swap", "reading"}

\* What ReadsOwnStream says of one reader x and what is written in its buffer.
Aligned(x, q, written) ==
  x.pc \in Reading =>
    /\ x.pos - x.got = x.w - x.r
    /\ (x.pc = "idle" /\ x.got > 0) \/ x.w - x.r > 0 =>
         written = [of |-> q, at |-> x.pos - x.w]

LEMMA StreamOfEach ==
  ReadsOwnStream <=> \A q \in Readers : Aligned(rd[q], q, content[rd[q].buf])
BY DEF ReadsOwnStream, Aligned, Reading, At, Unread

\* No reader's step touches what another reader has in its buffer.
LEMMA OthersKeep ==
  ASSUME Local, BufferHasOneOwner, NEW q \in Readers, ReaderStep(q),
         NEW p \in Readers, p # q, rd[p].pc \in Reading
  PROVE  rd'[p] = rd[p] /\ content'[rd[p].buf] = content[rd[p].buf]
<1>0. /\ rd \in [Readers -> ReaderType] /\ NoBuf \notin Bufs /\ rd[p].buf \in Bufs
      /\ Holds(rd[q]) /\ rd[q] \in ReaderType
      /\ content \in [Bufs -> [of : Readers \union {NoBuf}, at : Int]]
  BY ReaderAssumption DEF Local, Types, Sound, Holds, Reading, Live
<1>1. rd'[p] = rd[p]
  BY <1>0 DEF ReaderStep, NewReader, FreeOld, ReadByte, ReadFails, Close, ReadBuffered, Compact,
              Grow, Deliver, Becomes
<1>2. rd[p].buf # rd[q].buf /\ rd[p].buf # rd[q].old
  BY <1>0 DEF BufferHasOneOwner
<1>3. ASSUME NEW b, Free(b), b # rd[p].buf PROVE content'[rd[p].buf] = content[rd[p].buf]
  BY <1>0, <1>3 DEF Free, Collect
<1>4. ASSUME NEW b \in Bufs, NEW size, Alloc(b, size) PROVE b # rd[p].buf
  BY <1>0, <1>4 DEF Alloc, BufferHasOneOwner, Owned, Pooled
<1>5. CASE FreeOld(q) \/ Close(q)
  BY <1>1, <1>2, <1>3, <1>5 DEF FreeOld, Close
<1>6. CASE NewReader(q) \/ ReadByte(q) \/ ReadFails(q) \/ \E n \in Reads : ReadBuffered(q, n)
  BY <1>1, <1>6 DEF NewReader, ReadByte, ReadFails, ReadBuffered
<1>7. ASSUME NEW n \in Reads, Compact(q, n) PROVE content'[rd[p].buf] = content[rd[p].buf]
  BY <1>0, <1>2, <1>7 DEF Compact
<1>8. ASSUME NEW n \in Reads, Grow(q, n) PROVE content'[rd[p].buf] = content[rd[p].buf]
  <2>1. PICK size \in Powers, b \in Bufs :
          /\ Alloc(b, size)
          /\ content' = [content EXCEPT ![b] = [content[rd[q].buf] EXCEPT !.at = @ + rd[q].r]]
    BY <1>8 DEF Grow
  <2> QED
    BY <1>0, <1>4, <2>1
<1>9. ASSUME NEW k \in 1..MaxStream, Deliver(q, k) PROVE content'[rd[p].buf] = content[rd[p].buf]
  BY <1>0, <1>2, <1>9 DEF Deliver
<1> QED
  BY <1>1, <1>5, <1>6, <1>7, <1>8, <1>9 DEF ReaderStep

\* A reader's own step keeps its buffer in line with its connection.
LEMMA OwnKept ==
  ASSUME Local, BufferHasOneOwner, NEW q \in Readers, ReaderStep(q),
         Aligned(rd[q], q, content[rd[q].buf])
  PROVE  Aligned(rd[q], q, content[rd[q].buf])'
<1> DEFINE x == rd[q]
           old == content[x.buf]
<1>0. /\ rd \in [Readers -> ReaderType] /\ x \in ReaderType /\ Holds(x) /\ Window(x)
      /\ x.r \in Nat /\ x.w \in Nat /\ x.len \in Nat /\ x.want \in Nat
      /\ x.got \in Nat /\ x.pos \in Nat
      /\ content \in [Bufs -> [of : Readers \union {NoBuf}, at : Int]]
  BY DEF Local, Types, Sound, ReaderType
<1>a. ASSUME NEW new, Becomes(q, new) PROVE rd'[q] = new
  BY <1>0, <1>a DEF Becomes
<1>b. ASSUME NEW new, Becomes(q, new), Aligned(new, q, content'[new.buf])
      PROVE  Aligned(rd[q], q, content[rd[q].buf])'
  BY <1>a, <1>b DEF Aligned
<1>c. \A n \in Reads : n \in Nat /\ n >= 1
  BY ReaderAssumption
<1>1. CASE NewReader(q)
  <2>1. PICK b \in Bufs :
          Becomes(q, IF cap'[b] < InitialSize THEN Closed("panicked")
                     ELSE [Closed("idle") EXCEPT !.buf = b, !.len = InitialSize])
    BY <1>1 DEF NewReader
  <2> DEFINE new == [Closed("idle") EXCEPT !.buf = b, !.len = InitialSize]
  <2>2. new.pos = 0 /\ new.got = 0 /\ new.w = 0 /\ new.r = 0
    BY DEF Closed
  <2>3. Closed("panicked").pc = "panicked"
    BY DEF Closed
  <2> HIDE DEF new
  <2>4. Aligned(new, q, content'[new.buf])
    BY <2>2 DEF Aligned
  <2>5. Aligned(Closed("panicked"), q, content'[Closed("panicked").buf])
    BY <2>3 DEF Aligned, Reading
  <2>6. Becomes(q, Closed("panicked")) \/ Becomes(q, new)
    BY <2>1 DEF new
  <2> QED
    BY <1>b, <2>4, <2>5, <2>6
<1>2. CASE FreeOld(q)
  <2> DEFINE new == [x EXCEPT !.pc = "reading", !.old = NoBuf]
  <2>1. /\ x.pc = "swap" /\ x.old # x.buf /\ x.buf \in Bufs
        /\ Free(x.old) /\ Becomes(q, new)
    BY <1>0, <1>2 DEF FreeOld, At, Holds, Live
  <2>2. content'[x.buf] = old
    BY <1>0, <2>1 DEF Free, Collect
  <2>3. /\ new.pc = "reading" /\ new.pos = x.pos /\ new.got = x.got /\ new.w = x.w
        /\ new.r = x.r /\ new.buf = x.buf
    BY <1>0 DEF ReaderType
  <2> HIDE DEF new
  <2>4. Aligned(new, q, content'[new.buf])
    BY <2>1, <2>2, <2>3 DEF Aligned, Reading
  <2> QED
    BY <1>b, <2>1, <2>4
<1>3. CASE ReadByte(q)
  <2> DEFINE start == IF x.w = x.len THEN 0 ELSE x.w
             new == [x EXCEPT !.pc = "reading", !.want = 1, !.r = start, !.w = start]
  <2>1. x.pc = "idle" /\ x.w - x.r = 0 /\ Becomes(q, new) /\ start \in Nat
    BY <1>0, <1>3 DEF ReadByte, At, Unread
  <2> HIDE DEF start
  <2>2. /\ new.pc = "reading" /\ new.pos = x.pos /\ new.got = x.got /\ new.w = start
        /\ new.r = start
    BY <1>0 DEF ReaderType
  <2> HIDE DEF new
  <2>3. Aligned(new, q, content'[new.buf])
    BY <1>0, <2>1, <2>2 DEF Aligned, Reading
  <2> QED
    BY <1>b, <2>1, <2>3
<1>4. CASE ReadFails(q)
  <2>1. [x EXCEPT !.pc = "failed"].pc = "failed"
    BY <1>0 DEF ReaderType
  <2> QED
    BY <1>4, <1>b, <2>1 DEF ReadFails, Aligned, Reading
<1>5. CASE Close(q)
  <2>1. Closed("closed").pc = "closed"
    BY DEF Closed
  <2> QED
    BY <1>5, <1>b, <2>1 DEF Close, Aligned, Reading
<1>6. ASSUME NEW n \in Reads, ReadBuffered(q, n)
      PROVE  Aligned(rd[q], q, content[rd[q].buf])'
  <2> DEFINE new == [x EXCEPT !.r = @ + n, !.got = @ + n]
  <2>1. /\ x.pc = "idle" /\ x.w - x.r >= n /\ Becomes(q, new) /\ content' = content
        /\ n \in Nat /\ n >= 1
    BY <1>0, <1>c, <1>6 DEF ReadBuffered, At, Unread
  <2>2. /\ new.pc = x.pc /\ new.pos = x.pos /\ new.got = x.got + n /\ new.w = x.w
        /\ new.r = x.r + n /\ new.buf = x.buf
    BY <1>0 DEF ReaderType
  <2> HIDE DEF new
  <2>3. old = [of |-> q, at |-> x.pos - x.w] /\ x.pos - x.got = x.w - x.r
    BY <1>0, <2>1 DEF Aligned, Reading
  <2>4. new.pos - new.got = new.w - new.r
    BY <1>0, <2>1, <2>2, <2>3
  <2>5. Aligned(new, q, content'[new.buf])
    BY <2>1, <2>2, <2>3, <2>4 DEF Aligned
  <2> QED
    BY <1>b, <2>1, <2>5
<1>7. ASSUME NEW n \in Reads, Compact(q, n)
      PROVE  Aligned(rd[q], q, content[rd[q].buf])'
  <2> DEFINE new == [x EXCEPT !.pc = "reading", !.want = n, !.r = 0, !.w = Unread(q)]
  <2>1. /\ x.pc = "idle" /\ x.buf \in Bufs /\ Becomes(q, new) /\ Unread(q) = x.w - x.r
        /\ content' = [content EXCEPT ![x.buf].at = @ + x.r]
    BY <1>0, <1>7 DEF Compact, At, Unread, Holds, Live
  <2>2. /\ new.pc = "reading" /\ new.pos = x.pos /\ new.got = x.got /\ new.w = x.w - x.r
        /\ new.r = 0 /\ new.buf = x.buf
    BY <1>0, <2>1 DEF ReaderType
  <2> HIDE DEF new
  <2>3. x.pos - x.got = x.w - x.r
    BY <2>1 DEF Aligned, Reading
  <2>4. ASSUME x.w - x.r > 0 PROVE content'[x.buf] = [of |-> q, at |-> x.pos - (x.w - x.r)]
    <3>1. old = [of |-> q, at |-> x.pos - x.w]
      BY <2>1, <2>4 DEF Aligned, Reading
    <3>2. content'[x.buf] = [old EXCEPT !.at = @ + x.r]
      BY <1>0, <2>1
    <3> QED
      BY <1>0, <3>1, <3>2
  <2>5. Aligned(new, q, content'[new.buf])
    BY <1>0, <2>2, <2>3, <2>4 DEF Aligned
  <2> QED
    BY <1>b, <2>1, <2>5
<1>8. ASSUME NEW n \in Reads, Grow(q, n)
      PROVE  Aligned(rd[q], q, content[rd[q].buf])'
  <2> DEFINE new(b, size) == [x EXCEPT !.pc = "swap", !.want = n, !.r = 0, !.w = Unread(q),
                                       !.buf = b, !.old = x.buf, !.len = size]
             bad == [x EXCEPT !.pc = "panicked"]
  <2>1. PICK size \in Powers, b \in Bufs :
          /\ Becomes(q, IF cap'[b] < size THEN bad ELSE new(b, size))
          /\ content' = [content EXCEPT ![b] = [old EXCEPT !.at = @ + x.r]]
    BY <1>8 DEF Grow
  <2>2. x.pc = "idle" /\ x.buf \in Bufs /\ Unread(q) = x.w - x.r
    BY <1>0, <1>8 DEF Grow, At, Unread, Holds, Live
  <2> DEFINE y == new(b, size)
  <2>3. /\ y.pc = "swap" /\ y.pos = x.pos /\ y.got = x.got /\ y.w = x.w - x.r
        /\ y.r = 0 /\ y.buf = b /\ bad.pc = "panicked"
    BY <1>0, <2>2 DEF ReaderType
  <2>4. Becomes(q, bad) \/ Becomes(q, y)
    BY <2>1
  <2> HIDE DEF y, new, bad
  <2>5. x.pos - x.got = x.w - x.r
    BY <2>2 DEF Aligned, Reading
  <2>6. ASSUME x.w - x.r > 0 PROVE content'[b] = [of |-> q, at |-> x.pos - (x.w - x.r)]
    <3>1. old = [of |-> q, at |-> x.pos - x.w]
      BY <2>2, <2>6 DEF Aligned, Reading
    <3>2. content'[b] = [old EXCEPT !.at = @ + x.r]
      BY <1>0, <2>1
    <3> QED
      BY <1>0, <3>1, <3>2
  <2>7. Aligned(y, q, content'[y.buf])
    BY <1>0, <2>3, <2>5, <2>6 DEF Aligned
  <2>8. Aligned(bad, q, content'[bad.buf])
    BY <2>3 DEF Aligned, Reading
  <2> QED
    BY <1>b, <2>4, <2>7, <2>8
<1>9. ASSUME NEW k \in 1..MaxStream, Deliver(q, k)
      PROVE  Aligned(rd[q], q, content[rd[q].buf])'
  <2> DEFINE new == [x EXCEPT !.pc = "idle", !.w = @ + k, !.pos = @ + k,
                              !.r = @ + x.want, !.got = @ + x.want]
  <2>1. /\ x.pc = "reading" /\ x.buf \in Bufs /\ Becomes(q, new) /\ k \in Nat
        /\ content' = [content EXCEPT ![x.buf] = [of |-> q, at |-> x.pos - x.w]]
    BY <1>0, <1>9, ReaderAssumption DEF Deliver, At, Holds, Live
  <2>2. /\ new.pc = "idle" /\ new.pos = x.pos + k /\ new.got = x.got + x.want
        /\ new.w = x.w + k /\ new.r = x.r + x.want /\ new.buf = x.buf
    BY <1>0 DEF ReaderType
  <2> HIDE DEF new
  <2>3. content'[x.buf] = [of |-> q, at |-> x.pos - x.w]
    BY <1>0, <2>1
  <2>4. x.pos - x.got = x.w - x.r
    BY <2>1 DEF Aligned, Reading
  <2>5. new.pos - new.got = new.w - new.r /\ new.pos - new.w = x.pos - x.w
    <3>1. x.pos \in Int /\ x.got \in Int /\ x.w \in Int /\ x.r \in Int /\ x.want \in Int /\ k \in Int
      BY <1>0 DEF ReaderType
    <3>2. /\ (x.pos + k) - (x.got + x.want) = (x.w + k) - (x.r + x.want)
          /\ (x.pos + k) - (x.w + k) = x.pos - x.w
      BY <2>4, <3>1
    <3> QED
      BY <2>2, <3>2, Zenon
  <2>6. Aligned(new, q, content'[new.buf])
    BY <2>2, <2>3, <2>5 DEF Aligned
  <2> QED
    BY <1>b, <2>1, <2>6
<1> QED
  BY <1>1, <1>2, <1>3, <1>4, <1>5, <1>6, <1>7, <1>8, <1>9 DEF ReaderStep

------------------------------------------------------------------------------
\* sync.Pool gives up free buffers only.
LEMMA DropKeeps ==
  ASSUME Local, BufferHasOneOwner, ReadsOwnStream, NEW k \in Classes, NEW b \in Bufs, Drop(k, b)
  PROVE  (Local /\ BufferHasOneOwner /\ ReadsOwnStream)'
<1>0. /\ Types /\ NoBuf \notin Bufs /\ rd' = rd
      /\ \A q \in Readers : rd[q].pc \in Reading => rd[q].buf \in Bufs
  BY ReaderAssumption DEF Local, Drop, Sound, Holds, Live, Reading
<1>1. Local'
  BY <1>0 DEF Local, Types, Drop, Collect, Blank, Sound, Holds, Window
<1>2. BufferHasOneOwner'
  <2>1. \A j \in Classes : classes'[j] \subseteq classes[j]
    BY <1>0 DEF Types, Drop
  <2>2. Owned' = Owned
    BY <1>0 DEF Owned
  <2>3. Pooled' \subseteq Pooled
    BY <2>1 DEF Pooled
  <2>4. (Owned \intersect Pooled = {})'
    BY <2>2, <2>3 DEF BufferHasOneOwner
  <2>5. \A j, l \in Classes : j # l => classes'[j] \intersect classes'[l] = {}
    BY <2>1 DEF BufferHasOneOwner
  <2> QED
    BY <1>0, <2>4, <2>5 DEF BufferHasOneOwner
<1>3. \A q \in Readers : rd[q].buf # b
  BY DEF BufferHasOneOwner, Owned, Pooled, Drop
<1>4. \A q \in Readers : rd[q].pc \in Reading => content'[rd[q].buf] = content[rd[q].buf]
  BY <1>0, <1>3 DEF Drop, Collect, Types
<1>5. ReadsOwnStream'
  BY <1>0, <1>4 DEF ReadsOwnStream, Reading, At, Unread
<1> QED
  BY <1>1, <1>2, <1>5

IndInv == Local /\ BufferHasOneOwner /\ ReadsOwnStream

\* Every step keeps the inductive invariant.
LEMMA InvariantStep == IndInv /\ [Next]_vars => IndInv'
<1> SUFFICES ASSUME IndInv, [Next]_vars PROVE IndInv'
  OBVIOUS
<1>1. ASSUME NEW q \in Readers, ReaderStep(q) PROVE IndInv'
  <2>1. Local' /\ BufferHasOneOwner'
    BY <1>1, LocalReader, OwnerReader DEF IndInv
  <2>2. \A p \in Readers : Aligned(rd[p], p, content[rd[p].buf])
    BY StreamOfEach DEF IndInv
  <2>3. Aligned(rd[q], q, content[rd[q].buf])'
    BY <1>1, <2>2, OwnKept DEF IndInv
  <2>4. ASSUME NEW p \in Readers, p # q PROVE Aligned(rd[p], p, content[rd[p].buf])'
    <3>1. rd'[p] = rd[p]
      BY <1>1, <2>4 DEF IndInv, Local, Types, ReaderStep, NewReader, FreeOld, ReadByte, ReadFails,
         Close, ReadBuffered, Compact, Grow, Deliver, Becomes
    <3>2. CASE rd[p].pc \in Reading
      BY <1>1, <2>2, <2>4, <3>2, OthersKeep DEF IndInv, Aligned
    <3>3. CASE rd[p].pc \notin Reading
      BY <3>1, <3>3 DEF Aligned
    <3> QED
      BY <3>2, <3>3
  <2>5. ReadsOwnStream'
    BY <2>3, <2>4 DEF ReadsOwnStream, Aligned, Reading, At, Unread
  <2> QED
    BY <2>1, <2>5 DEF IndInv
<1>2. ASSUME NEW k \in Classes, NEW b \in Bufs, Drop(k, b) PROVE IndInv'
  BY <1>2, DropKeeps DEF IndInv
<1>3. CASE UNCHANGED vars
  <2>1. Local'
    BY <1>3 DEF IndInv, vars, Local, Types, Sound, Holds, Window
  <2>2. BufferHasOneOwner'
    BY <1>3 DEF IndInv, vars, BufferHasOneOwner, Owned, Pooled
  <2>3. ReadsOwnStream'
    BY <1>3 DEF IndInv, vars, ReadsOwnStream, At, Unread
  <2> QED
    BY <2>1, <2>2, <2>3 DEF IndInv
<1> QED
  BY <1>1, <1>2, <1>3 DEF Next

\* The inductive invariant holds throughout.
LEMMA Invariant == Spec => []IndInv
<1>1. Init => IndInv
  BY InitLocal DEF IndInv
<1> QED
  BY <1>1, InvariantStep, PTL DEF Spec

------------------------------------------------------------------------------
\* Capacities are numbers.
CapType == cap \in [Bufs -> Nat]

\* Alloc and Free give a buffer the length of a class or of what is asked for.
LEMMA CapStep == IndInv /\ CapType /\ [Next]_vars => CapType'
<1> SUFFICES ASSUME IndInv, CapType, [Next]_vars PROVE CapType'
  OBVIOUS
<1>1. ASSUME NEW b \in Bufs, NEW size \in AllocSizes, Alloc(b, size) PROVE CapType'
  <2>1. size \in Nat
    BY ReaderAssumption DEF AllocSizes
  <2>2. Capacity(size) \in Nat
    BY <2>1, CapacityFacts
  <2> QED
    BY <1>1, <2>2 DEF Alloc, CapType
<1>2. ASSUME NEW b \in Bufs, Free(b) PROVE CapType'
  BY <1>2 DEF Free, Collect, CapType
<1>3. ASSUME NEW q \in Readers, ReaderStep(q) PROVE CapType'
  <2>1. Moves(q)
    BY <1>3, ReaderMoves DEF IndInv
  <2>2. CASE UNCHANGED cap
    BY <2>2 DEF CapType
  <2> QED
    BY <1>1, <1>2, <2>1, <2>2 DEF Moves, Rests, Taken, Given
<1>4. ASSUME NEW k \in Classes, NEW b \in Bufs, Drop(k, b) PROVE CapType'
  BY <1>4 DEF Drop, Collect, CapType
<1>5. CASE UNCHANGED vars
  BY <1>5 DEF vars, CapType
<1> QED
  BY <1>3, <1>4, <1>5 DEF Next

\* Capacities stay numbers, in the pool and out of it.
LEMMA CapInvariant == Spec => []CapType
<1>1. Init => CapType
  BY DEF Init, CapType
<1> QED
  BY <1>1, CapStep, Invariant, PTL DEF Spec

------------------------------------------------------------------------------
\* The buffers of the readers were allocated for sizes that they ask for, and
\* those in a class for sizes whose buffers are filed there.
HeldFit ==
  \A q \in Readers : \A b \in Mine(q) \ {NoBuf} : \E s \in AllocSizes : cap[b] = Capacity(s)

PooledFit ==
  \A k \in Classes : \A b \in classes[k] :
    \E s \in AllocSizes \intersect 1..MaxSize : cap[b] = Capacity(s) /\ k = ReturnsTo(s)

FitInv == CapType /\ HeldFit /\ PooledFit /\ AllocFits

\* A buffer that is allocated is long enough.
LEMMA TakesFit ==
  ASSUME Fitting, IndInv, FitInv, NEW q \in Readers, NEW b \in Bufs, NEW size \in AllocSizes,
         Alloc(b, size), Mine(q)' \subseteq Mine(q) \union {b, NoBuf},
         \A p \in Readers : p # q => rd'[p] = rd[p]
  PROVE  HeldFit' /\ PooledFit' /\ cap'[b] \in Nat /\ cap'[b] >= size
<1>0. /\ size \in Nat /\ classes \in [Classes -> SUBSET Bufs] /\ cap \in [Bufs -> Nat]
      /\ BufferHasOneOwner
  BY ReaderAssumption DEF AllocSizes, IndInv, Local, Types, FitInv, CapType
<1>1. \A p \in Readers : p # q => Mine(p)' = Mine(p)
  BY DEF Mine
<1>2. CASE /\ b \in Bufs \ (Owned \union Pooled)
           /\ cap' = [cap EXCEPT ![b] = Capacity(size)] /\ UNCHANGED classes
  <2>1. cap'[b] = Capacity(size) /\ \A c : c # b /\ c \in Bufs => cap'[c] = cap[c]
    BY <1>0, <1>2
  <2>2. Capacity(size) \in Nat /\ Capacity(size) >= size
    BY <1>0, CapacityFacts DEF Fitting
  <2>3. /\ \A p \in Readers : b \notin Mine(p)
        /\ \A k \in Classes : b \notin classes[k]
    BY <1>2 DEF Owned, Pooled, Mine
  <2>4. HeldFit'
    <3> SUFFICES ASSUME NEW p \in Readers, NEW c \in Mine(p)' \ {NoBuf}
                 PROVE  \E s \in AllocSizes : cap'[c] = Capacity(s)
      BY DEF HeldFit, Mine
    <3>1. CASE c = b
      BY <2>1, <3>1
    <3>2. CASE c # b
      <4>1. c \in Mine(p)
        BY <1>1, <3>2
      <4>2. c \in Bufs
        BY <4>1 DEF IndInv, Local, Types, ReaderType, Mine
      <4> QED
        BY <2>1, <3>2, <4>1, <4>2 DEF FitInv, HeldFit
    <3> QED
      BY <3>1, <3>2
  <2>5. PooledFit'
    <3> SUFFICES ASSUME NEW k \in Classes, NEW c \in classes[k]
                 PROVE  \E s \in AllocSizes \intersect 1..MaxSize :
                          cap'[c] = Capacity(s) /\ k = ReturnsTo(s)
      BY <1>2 DEF PooledFit
    <3>1. c # b /\ c \in Bufs
      BY <1>0, <2>3
    <3> QED
      BY <2>1, <3>1 DEF FitInv, PooledFit
  <2> QED
    BY <2>1, <2>2, <2>4, <2>5
<1>3. ASSUME size \in 1..MaxSize, UNCHANGED cap,
             NEW k \in Classes, k = SizeLookup(size), b \in classes[k],
             classes' = [classes EXCEPT ![k] = @ \ {b}]
      PROVE  HeldFit' /\ PooledFit' /\ cap'[b] \in Nat /\ cap'[b] >= size
  <2>1. PICK s \in AllocSizes \intersect 1..MaxSize : cap[b] = Capacity(s) /\ k = ReturnsTo(s)
    BY <1>3 DEF FitInv, PooledFit
  <2>2. Capacity(s) >= size
    BY <1>3, <2>1 DEF Fitting, SizesFit
  <2>3. HeldFit'
    <3> SUFFICES ASSUME NEW p \in Readers, NEW c \in Mine(p)' \ {NoBuf}
                 PROVE  \E t \in AllocSizes : cap'[c] = Capacity(t)
      BY DEF HeldFit, Mine
    <3>1. CASE c = b
      BY <1>3, <2>1, <3>1
    <3>2. CASE c # b
      BY <1>1, <1>3, <3>2 DEF FitInv, HeldFit
    <3> QED
      BY <3>1, <3>2
  <2>4. \A j \in Classes : classes'[j] \subseteq classes[j]
    BY <1>0, <1>3
  <2>5. PooledFit'
    BY <1>3, <2>4 DEF FitInv, PooledFit
  <2> QED
    BY <1>0, <1>3, <2>1, <2>2, <2>3, <2>5
<1> QED
  BY <1>2, <1>3 DEF Alloc

\* A buffer that is freed goes where buffers of its size belong.
LEMMA GivesFit ==
  ASSUME IndInv, FitInv, NEW q \in Readers, NEW b \in Bufs, Free(b),
         b \in Mine(q), Mine(q)' \subseteq (Mine(q) \ {b}) \union {NoBuf},
         \A p \in Readers : p # q => rd'[p] = rd[p]
  PROVE  HeldFit' /\ PooledFit'
<1>0. /\ NoBuf \notin Bufs /\ classes \in [Classes -> SUBSET Bufs] /\ cap \in [Bufs -> Nat]
      /\ BufferHasOneOwner /\ MaxSize \in Nat
  BY ReaderAssumption, ParametersAssumption DEF IndInv, Local, Types, FitInv, CapType
<1>1. \A p \in Readers : /\ Mine(p)' \subseteq Mine(p) \union {NoBuf}
                         /\ b \notin Mine(p)'
  <2>1. \A p \in Readers : p # q => Mine(p)' = Mine(p) /\ b \notin Mine(p)
    BY <1>0 DEF Mine, BufferHasOneOwner
  <2> QED
    BY <1>0, <2>1
<1>2. \A k \in Classes : b \notin classes[k]
  BY <1>0 DEF BufferHasOneOwner, Owned, Pooled, Mine
<1>3. \A c \in Bufs : c # b => cap'[c] = cap[c]
  BY <1>0 DEF Free, Collect
<1>4. HeldFit'
  <2> SUFFICES ASSUME NEW p \in Readers, NEW c \in Mine(p)' \ {NoBuf}
               PROVE  \E t \in AllocSizes : cap'[c] = Capacity(t)
    BY DEF HeldFit, Mine
  <2>1. c \in Mine(p) /\ c # b
    BY <1>1
  <2>2. c \in Bufs
    BY <2>1 DEF IndInv, Local, Types, ReaderType, Mine
  <2> QED
    BY <1>3, <2>1, <2>2 DEF FitInv, HeldFit
<1>5. PooledFit'
  <2> SUFFICES ASSUME NEW k \in Classes, NEW c \in classes'[k]
               PROVE  \E s \in AllocSizes \intersect 1..MaxSize :
                        cap'[c] = Capacity(s) /\ k = ReturnsTo(s)
    BY DEF PooledFit
  <2>1. CASE c \in classes[k]
    BY <1>0, <1>2, <1>3, <2>1 DEF FitInv, PooledFit
  <2>2. CASE c \notin classes[k]
    <3>1. /\ cap[b] <= MaxSize /\ cap' = cap
          /\ classes' = [classes EXCEPT ![SizeLookup(cap[b])] = @ \union {b}]
      BY <2>2 DEF Free
    <3>2. c = b /\ k = SizeLookup(cap[b])
      BY <1>0, <2>2, <3>1
    <3>3. PICK s \in AllocSizes : cap[b] = Capacity(s)
      BY <1>0 DEF FitInv, HeldFit
    <3>4. s \in Nat /\ s >= 1
      BY ReaderAssumption DEF AllocSizes
    <3>5. s \in 1..MaxSize
      BY <1>0, <3>1, <3>3, <3>4, CapacityFacts
    <3> QED
      BY <3>1, <3>2, <3>3, <3>5 DEF ReturnsTo
  <2> QED
    BY <2>1, <2>2
<1> QED
  BY <1>4, <1>5

\* Every step keeps the lengths in line with the sizes.
LEMMA FitStep ==
  ASSUME Fitting
  PROVE  IndInv /\ FitInv /\ [Next]_vars => FitInv'
<1> SUFFICES ASSUME IndInv, FitInv, [Next]_vars PROVE FitInv'
  OBVIOUS
<1>1. CapType'
  BY CapStep DEF FitInv
<1>2. ASSUME NEW q \in Readers, ReaderStep(q) PROVE FitInv'
  <2>0. Moves(q)
    BY <1>2, ReaderMoves DEF IndInv
  <2>1. \A p \in Readers : p # q => rd'[p] = rd[p]
    BY <2>0 DEF Moves
  <2>2. ASSUME rd'[q].pc # "panicked" PROVE AllocFits'
    BY <2>1, <2>2 DEF FitInv, AllocFits, At
  <2>3. CASE Rests(q)
    <3>1. \A p \in Readers : rd'[p].buf = rd[p].buf /\ rd'[p].old = rd[p].old
      BY <2>1, <2>3 DEF Rests
    <3>2. HeldFit' /\ PooledFit'
      BY <2>3, <3>1 DEF Rests, FitInv, HeldFit, PooledFit, Mine
    <3> QED
      BY <1>1, <2>2, <2>3, <3>2 DEF Rests, FitInv
  <2>4. ASSUME NEW b \in Bufs, NEW size \in AllocSizes, Taken(q, b, size)
        PROVE  FitInv'
    <3>1. HeldFit' /\ PooledFit' /\ cap'[b] \in Nat /\ cap'[b] >= size
      BY <2>1, <2>4, TakesFit DEF Taken
    <3>2. size \in Nat
      BY ReaderAssumption DEF AllocSizes
    <3>3. rd'[q].pc # "panicked"
      BY <2>4, <3>1, <3>2 DEF Taken
    <3> QED
      BY <1>1, <2>2, <3>1, <3>3 DEF FitInv
  <2>5. ASSUME NEW b \in Bufs, Given(q, b) PROVE FitInv'
    <3>1. HeldFit' /\ PooledFit'
      BY <2>1, <2>5, GivesFit DEF Given
    <3> QED
      BY <1>1, <2>2, <2>5, <3>1 DEF Given, FitInv
  <2> QED
    BY <2>0, <2>3, <2>4, <2>5 DEF Moves
<1>3. ASSUME NEW k \in Classes, NEW b \in Bufs, Drop(k, b) PROVE FitInv'
  <2>1. /\ classes \in [Classes -> SUBSET Bufs] /\ cap \in [Bufs -> Nat] /\ rd' = rd
        /\ BufferHasOneOwner /\ b \in classes[k]
    BY <1>3 DEF IndInv, Local, Types, FitInv, CapType, Drop
  <2>2. \A c \in Bufs : c # b => cap'[c] = cap[c]
    BY <1>3, <2>1 DEF Drop, Collect
  <2>3. \A q \in Readers : b \notin Mine(q)
    BY <2>1 DEF BufferHasOneOwner, Owned, Pooled, Mine
  <2>4. \A j \in Classes : classes'[j] \subseteq classes[j] /\ b \notin classes'[j]
    BY <1>3, <2>1 DEF Drop, BufferHasOneOwner
  <2>5. \A q \in Readers : Mine(q) \subseteq Bufs \union {NoBuf}
    BY DEF IndInv, Local, Types, ReaderType, Mine
  <2>6. HeldFit'
    <3> SUFFICES ASSUME NEW p \in Readers, NEW c \in Mine(p) \ {NoBuf}
                 PROVE  \E t \in AllocSizes : cap'[c] = Capacity(t)
      BY <2>1 DEF HeldFit, Mine
    <3> QED
      BY <2>2, <2>3, <2>5 DEF FitInv, HeldFit
  <2>7. PooledFit'
    <3> SUFFICES ASSUME NEW j \in Classes, NEW c \in classes'[j]
                 PROVE  \E s \in AllocSizes \intersect 1..MaxSize :
                          cap'[c] = Capacity(s) /\ j = ReturnsTo(s)
      BY DEF PooledFit
    <3>1. c \in classes[j] /\ c # b /\ c \in Bufs
      BY <2>1, <2>4
    <3> QED
      BY <2>2, <3>1 DEF FitInv, PooledFit
  <2>8. AllocFits'
    BY <2>1 DEF FitInv, AllocFits, At
  <2> QED
    BY <1>1, <2>6, <2>7, <2>8 DEF FitInv
<1>4. CASE UNCHANGED vars
  BY <1>1, <1>4 DEF vars, FitInv, HeldFit, PooledFit, Mine, AllocFits, At
<1> QED
  BY <1>2, <1>3, <1>4 DEF Next

\* At first there are no buffers.
LEMMA FitInit == Init => FitInv
<1> SUFFICES ASSUME Init PROVE FitInv
  OBVIOUS
<1>1. \A q \in Readers : rd[q] = Closed("none")
  BY DEF Init
<1>2. HeldFit /\ AllocFits
  BY <1>1 DEF HeldFit, AllocFits, Mine, Closed, At
<1>3. CapType /\ PooledFit
  BY DEF Init, CapType, PooledFit
<1> QED
  BY <1>2, <1>3 DEF FitInv

------------------------------------------------------------------------------
\* Reader.ReadFull and ReadByte keep r and w in the buffer, and readAtLeast
\* has room for what it waits for, whatever the sizes and the pool.
THEOREM WindowsInBounds == Spec => []WindowInBounds
<1>1. IndInv => WindowInBounds
  BY DEF IndInv, Local, Sound, Window, WindowInBounds
<1> QED
  BY <1>1, Invariant, PTL

\* SyncPool.Alloc and Free never give two readers the same buffer.
THEOREM BuffersHaveOneOwner == Spec => []BufferHasOneOwner
<1>1. IndInv => BufferHasOneOwner
  BY DEF IndInv
<1> QED
  BY <1>1, Invariant, PTL

\* ReadFull and ReadByte return the next bytes of their own connection, which
\* stay as they are until the next call.
THEOREM ReadersKeepStream == Spec => []ReadsOwnStream
<1>1. IndInv => ReadsOwnStream
  BY DEF IndInv
<1> QED
  BY <1>1, Invariant, PTL

\* The state of the pool and of the readers keeps its type, for any parameters.
THEOREM TypeCorrect == Spec => []TypeOK
<1>1. IndInv /\ CapType => TypeOK
  BY DEF IndInv, Local, Types, ReaderType, CapType, TypeOK
<1> QED
  BY <1>1, Invariant, CapInvariant, PTL

\* SyncPool.Alloc never panics on a buffer that is too short, if the classes are
\* no more than a byte can number and the sizes that are asked for fit each
\* other: no freed buffer is filed where a longer one of them is looked for.
THEOREM AllocsFit == Fitting => (Spec => []AllocFits)
<1> SUFFICES ASSUME Fitting PROVE Spec => []AllocFits
  OBVIOUS
<1>1. FitInv => AllocFits
  BY DEF FitInv
<1>2. IndInv /\ FitInv /\ [Next]_vars => FitInv'
  BY FitStep
<1> QED
  BY <1>1, <1>2, FitInit, Invariant, PTL DEF Spec
==============================================================================
