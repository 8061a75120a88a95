------------------------------ MODULE SyncPool -------------------------------
(***************************************************************************)
(* The size classes of the buffer pool, as NewSyncPool computes them from  *)
(* its three parameters, and the table from sizes to classes.              *)
(***************************************************************************)
EXTENDS Integers, FiniteSets

CONSTANTS
  MinSize,  \* minimum chunk size
  MaxSize,  \* maximum chunk size
  Factor    \* how many classes share a step

\* Anything else is answered with ErrInvalidSize.
ASSUME ParametersAssumption ==
  /\ MinSize \in Nat \ {0} /\ MaxSize \in Nat /\ MaxSize >= MinSize
  /\ Factor \in Nat \ {0}

Step(k) == MinSize * ((k \div Factor) * 2 + 1)

\* The first loop counts classes; it adds the step of the next class.
Counted[k \in Nat] == IF k = 0 THEN MinSize ELSE Counted[k - 1] + Step(k)

ClassCount ==
  LET n == Cardinality({k \in 0..(MaxSize \div MinSize) : Counted[k] <= MaxSize})
  IN  IF Counted[n - 1] < MaxSize THEN n + 1 ELSE n

Classes == 0..(ClassCount - 1)

\* The second loop sets the sizes; it adds the step of the class itself.
Chunk[k \in Nat] == (IF k = 0 THEN MinSize ELSE Chunk[k - 1]) + Step(k)

ClassSize == [k \in Classes |-> IF Chunk[k] < MaxSize THEN Chunk[k] ELSE MaxSize]

\* Mutant: the last size of a class is left to the next class only.
FillsExclusive(k, i) == (k > 0 => ClassSize[k - 1] <= i) /\ i < ClassSize[k]

\* The sizes for which class k is entered in the table.
Fills(k, i) == (k > 0 => ClassSize[k - 1] <= i) /\ i <= ClassSize[k]

\* The last class that fills an entry stays; the table holds bytes.
SizeLookup(i) ==
  (CHOOSE k \in Classes : /\ Fills(k, i) \/ k = 0
                          /\ \A j \in Classes : Fills(j, i) => j <= k) % 256

\* The classes between which a buffer wanders: where Alloc looks for one of
\* this size, how long it is if it is new, and where Free files it.
Capacity(size)  == IF size \in 1..MaxSize THEN ClassSize[SizeLookup(size)] ELSE size
ReturnsTo(size) == SizeLookup(Capacity(size))

\* A buffer that was allocated for one of the sizes and freed is never handed
\* out for another of them that it is too short for.
SizesFit(sizes) ==
  \A s, t \in sizes \intersect 1..MaxSize :
    ReturnsTo(s) = SizeLookup(t) => Capacity(s) >= t
==============================================================================
