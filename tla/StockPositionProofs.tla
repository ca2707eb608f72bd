------------------------ MODULE StockPositionProofs ------------------------
(***************************************************************************)
(* Lemmas that the proofs about positions and accounts rest on.             *)
(*                                                                         *)
(* First, what a proof needs to know of SumFunctionOnSet, the sum of the    *)
(* values of a function over a finite set: the sum of no values is zero,    *)
(* one value may be taken out whichever it is, and so changing one value    *)
(* changes the sum by as much.  SumFunctionOnSet is a fold, that is a       *)
(* CHOOSE of a recursive function on the subsets; induction is by a         *)
(* smallest counterexample, which exists because inclusion is well-founded. *)
(* Then induction over the natural numbers and recursive sequences, with a  *)
(* set and a function where a predicate and an operator would stand.        *)
(*                                                                         *)
(* Last, what the operators of StockPosition do to the lots of a position:  *)
(* how OnOrderDone sorts them, how far its loop goes and what it takes from *)
(* each, and what its final clear leaves.                                   *)
(***************************************************************************)
EXTENDS StockPosition, FiniteSets, Functions, FiniteSetTheorems, SequenceTheorems, TLAPS

(* Of the subsets of a finite set that have a property, one has no strict   *)
(* subset with it.                                                         *)
LEMMA SmallestSubset ==
  ASSUME NEW S, IsFiniteSet(S), NEW B, B \subseteq SUBSET S, B # {}
  PROVE  \E T \in B : \A U \in B : U \subseteq T => U = T
<1>1. IsWellFoundedOn(StrictSubsetOrdering(S), SUBSET S)
  BY FS_StrictSubsetOrderingWellFounded, FS_FiniteSubsetsOfFinite
<1>2. PICK T \in B : \A U \in B : <<U, T>> \notin StrictSubsetOrdering(S)
  BY <1>1, WFMin
<1>3. ASSUME NEW U \in B, U \subseteq T, U # T PROVE FALSE
  BY <1>2, <1>3 DEF StrictSubsetOrdering
<1>. QED
  BY <1>2, <1>3

-----------------------------------------------------------------------------
(* The recursive function behind the sum.                                   *)

Pick(T) == CHOOSE x \in T : TRUE

SumsOver(f, S, h) ==
  h = [T \in SUBSET S |-> IF T = {} THEN 0 ELSE f[Pick(T)] + h[T \ {Pick(T)}]]

LEMMA PickIn == ASSUME NEW T, T # {} PROVE Pick(T) \in T
BY DEF Pick

LEMMA SumIsChosen ==
  ASSUME NEW f, NEW S
  PROVE  SumFunctionOnSet(f, S) = (CHOOSE h : SumsOver(f, S, h))[S]
BY DEF SumFunctionOnSet, FoldFunctionOnSet, MapThenFoldSet, SumsOver, Pick

(* A solution for S gives the values of any solution for a subset of S.     *)
LEMMA SumsAgree ==
  ASSUME NEW f, NEW S, IsFiniteSet(S), NEW R \in SUBSET S,
         NEW h, SumsOver(f, S, h), NEW k, SumsOver(f, R, k)
  PROVE  \A T \in SUBSET R : h[T] = k[T]
<1>. DEFINE B == {T \in SUBSET R : h[T] # k[T]}
<1>. SUFFICES ASSUME B # {} PROVE FALSE
  OBVIOUS
<1>0. IsFiniteSet(R)
  BY FS_Subset
<1>1. PICK T \in B : \A U \in B : U \subseteq T => U = T
  <2>1. B \subseteq SUBSET R
    OBVIOUS
  <2>. HIDE DEF B
  <2>. QED
    BY <1>0, <2>1, SmallestSubset
<1>2. T \in SUBSET R /\ T \in SUBSET S /\ h[T] # k[T]
  BY <1>1
<1>3. T # {}
  BY <1>2 DEF SumsOver
<1>. DEFINE p == Pick(T)
<1>4. p \in T
  BY <1>3, PickIn
<1>5. T \ {p} \in SUBSET R /\ T \ {p} # T
  BY <1>2, <1>4
<1>6. h[T \ {p}] = k[T \ {p}]
  BY <1>1, <1>5
<1>7. h[T] = f[p] + h[T \ {p}] /\ k[T] = f[p] + k[T \ {p}]
  BY <1>2, <1>3 DEF SumsOver
<1>. QED
  BY <1>2, <1>6, <1>7

(* There is a solution: the values of the strict subsets, and one more.     *)
LEMMA SumsExist ==
  ASSUME NEW f, NEW S, IsFiniteSet(S)
  PROVE  \E h : SumsOver(f, S, h)
<1>. DEFINE B == {T \in SUBSET S : ~ \E h : SumsOver(f, T, h)}
<1>. SUFFICES ASSUME B # {} PROVE FALSE
  OBVIOUS
<1>1. PICK T \in B : \A U \in B : U \subseteq T => U = T
  <2>1. B \subseteq SUBSET S
    OBVIOUS
  <2>. HIDE DEF B
  <2>. QED
    BY <2>1, SmallestSubset
<1>2. T \in SUBSET S /\ IsFiniteSet(T)
  BY <1>1, FS_Subset
<1>3. \A U \in SUBSET T : U # T => \E h : SumsOver(f, U, h)
  BY <1>1, <1>2
<1>. DEFINE sol(U) == CHOOSE h : SumsOver(f, U, h)
            val(U) == IF U = {} THEN 0 ELSE f[Pick(U)] + sol(U \ {Pick(U)})[U \ {Pick(U)}]
            k == [U \in SUBSET T |-> val(U)]
<1>4. \A U \in SUBSET T : U # T => SumsOver(f, U, sol(U))
  BY <1>3
<1>5. \A U \in SUBSET T : U # T => sol(U)[U] = val(U)
  <2>0. \A U \in SUBSET T : U # T /\ U = {} => sol(U)[U] = val(U)
    <3>. HIDE DEF sol
    <3>. QED
      BY <1>4 DEF SumsOver
  <2>. SUFFICES ASSUME NEW U \in SUBSET T, U # T, U # {} PROVE sol(U)[U] = val(U)
    BY <2>0
  <2>. DEFINE V == U \ {Pick(U)}
  <2>1. V \in SUBSET U /\ V # T /\ V \in SUBSET T
    OBVIOUS
  <2>2. SumsOver(f, U, sol(U)) /\ SumsOver(f, V, sol(V)) /\ IsFiniteSet(U)
    BY <1>2, <1>4, <2>1, FS_Subset
  <2>3. V \in SUBSET V
    OBVIOUS
  <2>4. sol(U)[V] = sol(V)[V]
    <3>. HIDE DEF sol, V
    <3>. QED
      BY <2>1, <2>2, <2>3, SumsAgree
  <2>5. sol(U)[U] = f[Pick(U)] + sol(U)[V]
    <3>1. U \in SUBSET U
      OBVIOUS
    <3>. HIDE DEF sol
    <3>. QED
      BY <2>2, <3>1 DEF SumsOver
  <2>. QED
    BY <2>4, <2>5
<1>. HIDE DEF sol
<1>6. \A U \in SUBSET T :
        val(U) = IF U = {} THEN 0 ELSE f[Pick(U)] + k[U \ {Pick(U)}]
  <2>. SUFFICES ASSUME NEW U \in SUBSET T, U # {}
                PROVE  val(U) = f[Pick(U)] + k[U \ {Pick(U)}]
    OBVIOUS
  <2>. DEFINE V == U \ {Pick(U)}
  <2>1. V \in SUBSET T /\ V # T
    BY PickIn
  <2>2. sol(V)[V] = val(V) /\ k[V] = val(V)
    BY <1>5, <2>1
  <2>. QED
    BY <2>2
<1>7. SumsOver(f, T, k)
  <2>. HIDE DEF val
  <2>1. \A U \in SUBSET T : k[U] = val(U)
    OBVIOUS
  <2>2. k = [U \in SUBSET T |-> IF U = {} THEN 0 ELSE f[Pick(U)] + k[U \ {Pick(U)}]]
    BY <1>6, <2>1
  <2>. QED
    BY <2>2 DEF SumsOver
<1>. QED
  BY <1>1, <1>7

-----------------------------------------------------------------------------
(* The facts to be used elsewhere.                                          *)

LEMMA SumEmpty ==
  ASSUME NEW f
  PROVE  SumFunctionOnSet(f, {}) = 0
<1>1. \E h : SumsOver(f, {}, h)
  BY FS_EmptySet, SumsExist
<1>. DEFINE k == CHOOSE h : SumsOver(f, {}, h)
<1>2. SumsOver(f, {}, k)
  BY <1>1
<1>. HIDE DEF k
<1>3. k[{}] = 0
  BY <1>2 DEF SumsOver
<1>. QED
  BY <1>3, SumIsChosen DEF k

LEMMA SumPicked ==
  ASSUME NEW f, NEW S, IsFiniteSet(S), S # {}
  PROVE  SumFunctionOnSet(f, S) = f[Pick(S)] + SumFunctionOnSet(f, S \ {Pick(S)})
<1>. DEFINE R == S \ {Pick(S)}
            h == CHOOSE h : SumsOver(f, S, h)
            k == CHOOSE k : SumsOver(f, R, k)
<1>1. IsFiniteSet(R) /\ R \in SUBSET S
  BY FS_Subset
<1>2. SumsOver(f, S, h)
  BY SumsExist
<1>3. SumsOver(f, R, k)
  <2>. HIDE DEF R
  <2>. QED
    BY <1>1, SumsExist
<1>4. SumFunctionOnSet(f, S) = h[S] /\ SumFunctionOnSet(f, R) = k[R]
  BY SumIsChosen
<1>. HIDE DEF h, k
<1>5. h[S] = f[Pick(S)] + h[R]
  BY <1>2 DEF SumsOver
<1>. HIDE DEF R
<1>6. h[R] = k[R]
  <2>1. R \in SUBSET R
    OBVIOUS
  <2>. QED
    BY <1>1, <1>2, <1>3, <2>1, SumsAgree
<1>. QED
  BY <1>4, <1>5, <1>6 DEF R

(* The sum of integers is one.                                              *)
LEMMA SumType ==
  ASSUME NEW f, NEW S, IsFiniteSet(S), \A x \in S : f[x] \in Int
  PROVE  SumFunctionOnSet(f, S) \in Int
<1>. DEFINE B == {T \in SUBSET S : SumFunctionOnSet(f, T) \notin Int}
<1>. SUFFICES ASSUME B # {} PROVE FALSE
  OBVIOUS
<1>1. PICK T \in B : \A U \in B : U \subseteq T => U = T
  <2>1. B \subseteq SUBSET S
    OBVIOUS
  <2>. HIDE DEF B
  <2>. QED
    BY <2>1, SmallestSubset
<1>2. T \in SUBSET S /\ IsFiniteSet(T) /\ SumFunctionOnSet(f, T) \notin Int
  BY <1>1, FS_Subset
<1>3. T # {}
  BY <1>2, SumEmpty
<1>. DEFINE p == Pick(T)
<1>4. p \in T /\ f[p] \in Int
  BY <1>2, <1>3, PickIn
<1>5. SumFunctionOnSet(f, T \ {p}) \in Int
  BY <1>1, <1>2, <1>4
<1>6. SumFunctionOnSet(f, T) = f[p] + SumFunctionOnSet(f, T \ {p})
  BY <1>2, <1>3, SumPicked
<1>. QED
  BY <1>2, <1>4, <1>5, <1>6

(* Any one of the values may be taken out.                                  *)
LEMMA SumSplit ==
  ASSUME NEW f, NEW S, IsFiniteSet(S), \A x \in S : f[x] \in Int, NEW x \in S
  PROVE  SumFunctionOnSet(f, S) = f[x] + SumFunctionOnSet(f, S \ {x})
<1>. DEFINE Splits(T) ==
              \A y \in T : SumFunctionOnSet(f, T) = f[y] + SumFunctionOnSet(f, T \ {y})
            B == {T \in SUBSET S : ~Splits(T)}
<1>. SUFFICES ASSUME B # {} PROVE FALSE
  OBVIOUS
<1>1. PICK T \in B : \A U \in B : U \subseteq T => U = T
  <2>1. B \subseteq SUBSET S
    OBVIOUS
  <2>. HIDE DEF B
  <2>. QED
    BY <2>1, SmallestSubset
<1>2. T \in SUBSET S /\ IsFiniteSet(T)
  BY <1>1, FS_Subset
<1>3. PICK y \in T : SumFunctionOnSet(f, T) # f[y] + SumFunctionOnSet(f, T \ {y})
  BY <1>1
<1>. DEFINE p == Pick(T)
<1>4. p \in T
  BY <1>3, PickIn
<1>5. SumFunctionOnSet(f, T) = f[p] + SumFunctionOnSet(f, T \ {p})
  BY <1>2, <1>3, SumPicked
<1>6. y # p
  BY <1>3, <1>5
<1>. HIDE DEF p
<1>. DEFINE rest == T \ {p, y}
<1>7. /\ T \ {p} \in SUBSET S /\ T \ {p} # T /\ y \in T \ {p}
      /\ T \ {y} \in SUBSET S /\ T \ {y} # T /\ p \in T \ {y}
      /\ (T \ {p}) \ {y} = rest /\ (T \ {y}) \ {p} = rest
  BY <1>2, <1>3, <1>4, <1>6
<1>8. Splits(T \ {p}) /\ Splits(T \ {y})
  BY <1>1, <1>7
<1>9. /\ SumFunctionOnSet(f, T \ {p}) = f[y] + SumFunctionOnSet(f, rest)
      /\ SumFunctionOnSet(f, T \ {y}) = f[p] + SumFunctionOnSet(f, rest)
  BY <1>7, <1>8
<1>10. SumFunctionOnSet(f, rest) \in Int /\ f[p] \in Int /\ f[y] \in Int
  <2>1. IsFiniteSet(rest) /\ rest \subseteq S
    BY <1>2, FS_Subset
  <2>. HIDE DEF rest
  <2>. QED
    BY <1>2, <1>3, <1>4, <2>1, SumType
<1>. QED
  BY <1>3, <1>5, <1>9, <1>10

(* The sum depends on the values in the set only.                           *)
LEMMA SumSame ==
  ASSUME NEW f, NEW g, NEW S, IsFiniteSet(S), \A x \in S : f[x] = g[x]
  PROVE  SumFunctionOnSet(f, S) = SumFunctionOnSet(g, S)
<1>. DEFINE B == {T \in SUBSET S : SumFunctionOnSet(f, T) # SumFunctionOnSet(g, T)}
<1>. SUFFICES ASSUME B # {} PROVE FALSE
  OBVIOUS
<1>1. PICK T \in B : \A U \in B : U \subseteq T => U = T
  <2>1. B \subseteq SUBSET S
    OBVIOUS
  <2>. HIDE DEF B
  <2>. QED
    BY <2>1, SmallestSubset
<1>2. /\ T \in SUBSET S /\ IsFiniteSet(T)
      /\ SumFunctionOnSet(f, T) # SumFunctionOnSet(g, T)
  BY <1>1, FS_Subset
<1>3. T # {}
  BY <1>2, SumEmpty
<1>. DEFINE p == Pick(T)
<1>4. p \in T /\ f[p] = g[p]
  BY <1>2, <1>3, PickIn
<1>5. SumFunctionOnSet(f, T \ {p}) = SumFunctionOnSet(g, T \ {p})
  BY <1>1, <1>2, <1>4
<1>6. /\ SumFunctionOnSet(f, T) = f[p] + SumFunctionOnSet(f, T \ {p})
      /\ SumFunctionOnSet(g, T) = g[p] + SumFunctionOnSet(g, T \ {p})
  BY <1>2, <1>3, SumPicked
<1>. QED
  BY <1>2, <1>4, <1>5, <1>6

(* Changing one value changes the sum by as much.                           *)
LEMMA SumChanged ==
  ASSUME NEW f, NEW g, NEW S, IsFiniteSet(S),
         \A x \in S : f[x] \in Int /\ g[x] \in Int,
         NEW y \in S, \A x \in S \ {y} : g[x] = f[x]
  PROVE  SumFunctionOnSet(g, S) = SumFunctionOnSet(f, S) - f[y] + g[y]
<1>. DEFINE rest == S \ {y}
<1>1. IsFiniteSet(rest) /\ rest \subseteq S
  BY FS_Subset
<1>2. /\ SumFunctionOnSet(f, S) = f[y] + SumFunctionOnSet(f, rest)
      /\ SumFunctionOnSet(g, S) = g[y] + SumFunctionOnSet(g, rest)
  BY SumSplit
<1>3. SumFunctionOnSet(f, rest) = SumFunctionOnSet(g, rest)
  <2>1. \A x \in rest : f[x] = g[x]
    OBVIOUS
  <2>. HIDE DEF rest
  <2>. QED
    BY <1>1, <2>1, SumSame
<1>4. SumFunctionOnSet(f, rest) \in Int
  <2>. HIDE DEF rest
  <2>. QED
    BY <1>1, SumType
<1>. QED
  BY <1>2, <1>3, <1>4

(* The sum of zeros, ...                                                    *)
LEMMA SumOfZeros ==
  ASSUME NEW f, NEW S, IsFiniteSet(S), \A x \in S : f[x] = 0
  PROVE  SumFunctionOnSet(f, S) = 0
<1>. DEFINE B == {T \in SUBSET S : SumFunctionOnSet(f, T) # 0}
<1>. SUFFICES ASSUME B # {} PROVE FALSE
  OBVIOUS
<1>1. PICK T \in B : \A U \in B : U \subseteq T => U = T
  <2>1. B \subseteq SUBSET S
    OBVIOUS
  <2>. HIDE DEF B
  <2>. QED
    BY <2>1, SmallestSubset
<1>2. T \in SUBSET S /\ IsFiniteSet(T) /\ SumFunctionOnSet(f, T) # 0
  BY <1>1, FS_Subset
<1>3. T # {}
  BY <1>2, SumEmpty
<1>. DEFINE p == Pick(T)
<1>4. p \in T /\ f[p] = 0
  BY <1>2, <1>3, PickIn
<1>5. SumFunctionOnSet(f, T \ {p}) = 0
  BY <1>1, <1>2, <1>4
<1>. QED
  BY <1>2, <1>3, <1>4, <1>5, SumPicked

(* ... of natural numbers ...                                               *)
LEMMA SumOfNats ==
  ASSUME NEW f, NEW S, IsFiniteSet(S), \A x \in S : f[x] \in Nat
  PROVE  SumFunctionOnSet(f, S) \in Nat
<1>. DEFINE B == {T \in SUBSET S : SumFunctionOnSet(f, T) \notin Nat}
<1>. SUFFICES ASSUME B # {} PROVE FALSE
  OBVIOUS
<1>1. PICK T \in B : \A U \in B : U \subseteq T => U = T
  <2>1. B \subseteq SUBSET S
    OBVIOUS
  <2>. HIDE DEF B
  <2>. QED
    BY <2>1, SmallestSubset
<1>2. T \in SUBSET S /\ IsFiniteSet(T) /\ SumFunctionOnSet(f, T) \notin Nat
  BY <1>1, FS_Subset
<1>3. T # {}
  BY <1>2, SumEmpty
<1>. DEFINE p == Pick(T)
<1>4. p \in T /\ f[p] \in Nat
  BY <1>2, <1>3, PickIn
<1>5. SumFunctionOnSet(f, T \ {p}) \in Nat
  BY <1>1, <1>2, <1>4
<1>6. SumFunctionOnSet(f, T) = f[p] + SumFunctionOnSet(f, T \ {p})
  BY <1>2, <1>3, SumPicked
<1>. QED
  BY <1>2, <1>4, <1>5, <1>6

(* ... no one of which exceeds it.                                          *)
LEMMA SumCovers ==
  ASSUME NEW f, NEW S, IsFiniteSet(S), \A x \in S : f[x] \in Nat, NEW y \in S
  PROVE  f[y] <= SumFunctionOnSet(f, S)
<1>. DEFINE rest == S \ {y}
<1>1. IsFiniteSet(rest) /\ rest \subseteq S
  BY FS_Subset
<1>2. SumFunctionOnSet(f, S) = f[y] + SumFunctionOnSet(f, rest)
  BY SumSplit
<1>3. SumFunctionOnSet(f, rest) \in Nat
  <2>. HIDE DEF rest
  <2>. QED
    BY <1>1, SumOfNats
<1>. QED
  BY <1>2, <1>3

(* The sum of values of at most c is at most c times as many.               *)
LEMMA SumBounded ==
  ASSUME NEW f, NEW S, IsFiniteSet(S), NEW c \in Nat, \A x \in S : f[x] \in 0 .. c
  PROVE  SumFunctionOnSet(f, S) <= Cardinality(S) * c
<1>. DEFINE B == {T \in SUBSET S : ~(SumFunctionOnSet(f, T) <= Cardinality(T) * c)}
<1>. SUFFICES ASSUME B # {} PROVE FALSE
  BY FS_CardinalityType
<1>1. PICK T \in B : \A U \in B : U \subseteq T => U = T
  <2>1. B \subseteq SUBSET S
    OBVIOUS
  <2>. HIDE DEF B
  <2>. QED
    BY <2>1, SmallestSubset
<1>2. /\ T \in SUBSET S /\ IsFiniteSet(T)
      /\ ~(SumFunctionOnSet(f, T) <= Cardinality(T) * c)
  BY <1>1, FS_Subset
<1>3. T # {}
  <2>1. SumFunctionOnSet(f, {}) = 0 /\ Cardinality({}) = 0
    BY SumEmpty, FS_EmptySet
  <2>. QED
    BY <1>2, <2>1
<1>. DEFINE p == Pick(T)
            R == T \ {p}
<1>4. p \in T /\ f[p] \in 0 .. c /\ R \in SUBSET S /\ R # T
  BY <1>2, <1>3, PickIn
<1>5. SumFunctionOnSet(f, R) <= Cardinality(R) * c
  BY <1>1, <1>4
<1>6. SumFunctionOnSet(f, T) = f[p] + SumFunctionOnSet(f, R)
  BY <1>2, <1>3, SumPicked
<1>. HIDE DEF p
<1>7. Cardinality(T) = Cardinality(R) + 1 /\ Cardinality(R) \in Nat
  <2>1. Cardinality(T) \in Nat /\ Cardinality(R) = Cardinality(T) - 1 /\ IsFiniteSet(R)
    BY <1>2, <1>4, FS_RemoveElement, FS_CardinalityType
  <2>2. Cardinality(R) \in Nat
    BY <2>1, FS_CardinalityType
  <2>. QED
    BY <2>1, <2>2
<1>8. SumFunctionOnSet(f, R) \in Nat
  <2>1. IsFiniteSet(R) /\ \A x \in R : f[x] \in Nat
    BY <1>2, <1>4, FS_Subset
  <2>. HIDE DEF R
  <2>. QED
    BY <2>1, SumOfNats
<1>. HIDE DEF R
<1>9. PICK k \in Nat : k = Cardinality(R)
  BY <1>7
<1>10. (k + 1) * c = k * c + c /\ k * c \in Nat
  BY <1>9
<1>. QED
  BY <1>2, <1>4, <1>5, <1>6, <1>7, <1>8, <1>9, <1>10
(* Where no value is greater, the sum is not either.                        *)
LEMMA SumDominated ==
  ASSUME NEW f, NEW g, NEW S, IsFiniteSet(S),
         \A x \in S : f[x] \in Int /\ g[x] \in Int /\ f[x] <= g[x]
  PROVE  SumFunctionOnSet(f, S) <= SumFunctionOnSet(g, S)
<1>. DEFINE B == {T \in SUBSET S : ~(SumFunctionOnSet(f, T) <= SumFunctionOnSet(g, T))}
<1>. SUFFICES ASSUME B # {} PROVE FALSE
  OBVIOUS
<1>1. PICK T \in B : \A U \in B : U \subseteq T => U = T
  <2>1. B \subseteq SUBSET S
    OBVIOUS
  <2>. HIDE DEF B
  <2>. QED
    BY <2>1, SmallestSubset
<1>2. /\ T \in SUBSET S /\ IsFiniteSet(T)
      /\ ~(SumFunctionOnSet(f, T) <= SumFunctionOnSet(g, T))
  BY <1>1, FS_Subset
<1>3. T # {}
  BY <1>2, SumEmpty
<1>. DEFINE p == Pick(T)
            R == T \ {p}
<1>4. p \in T /\ f[p] \in Int /\ g[p] \in Int /\ f[p] <= g[p]
  BY <1>2, <1>3, PickIn
<1>5. SumFunctionOnSet(f, R) <= SumFunctionOnSet(g, R)
  BY <1>1, <1>2, <1>4
<1>6. /\ SumFunctionOnSet(f, T) = f[p] + SumFunctionOnSet(f, R)
      /\ SumFunctionOnSet(g, T) = g[p] + SumFunctionOnSet(g, R)
  BY <1>2, <1>3, SumPicked
<1>7. SumFunctionOnSet(f, R) \in Int /\ SumFunctionOnSet(g, R) \in Int
  <2>1. IsFiniteSet(R) /\ R \subseteq S
    BY <1>2, FS_Subset
  <2>. HIDE DEF R
  <2>. QED
    BY <2>1, SumType
<1>. QED
  BY <1>2, <1>4, <1>5, <1>6, <1>7

(* What is zero need not be added.                                          *)
LEMMA SumIgnoresZeros ==
  ASSUME NEW f, NEW S, IsFiniteSet(S), NEW R \in SUBSET S,
         \A x \in S : f[x] \in Int, \A x \in S \ R : f[x] = 0
  PROVE  SumFunctionOnSet(f, S) = SumFunctionOnSet(f, R)
<1>. DEFINE sum(T) == SumFunctionOnSet(f, R \cup T)
            B == {T \in SUBSET (S \ R) : sum(T) # sum({})}
<1>1. S = R \cup (S \ R) /\ R = R \cup {}
  OBVIOUS
<1>. SUFFICES ASSUME B # {} PROVE FALSE
  BY <1>1
<1>2. PICK T \in B : \A U \in B : U \subseteq T => U = T
  <2>1. B \subseteq SUBSET S
    OBVIOUS
  <2>. HIDE DEF B
  <2>. QED
    BY <2>1, SmallestSubset
<1>3. T \subseteq S \ R /\ sum(T) # sum({})
  BY <1>2
<1>4. PICK x \in T : x \in S \ R
  BY <1>3
<1>5. sum(T \ {x}) = sum({})
  <2>1. T \ {x} \notin B
    BY <1>2, <1>4
  <2>. QED
    BY <1>3, <2>1
<1>6. sum(T) = f[x] + sum(T \ {x})
  <2>1. (R \cup T) \ {x} = R \cup (T \ {x}) /\ x \in R \cup T /\ R \cup T \in SUBSET S
    BY <1>3, <1>4
  <2>2. IsFiniteSet(R \cup T) /\ \A y \in R \cup T : f[y] \in Int
    BY <2>1, FS_Subset
  <2>. QED
    BY <2>1, <2>2, SumSplit
<1>7. sum(T \ {x}) \in Int
  <2>1. R \cup (T \ {x}) \in SUBSET S
    BY <1>3
  <2>2. IsFiniteSet(R \cup (T \ {x})) /\ \A y \in R \cup (T \ {x}) : f[y] \in Int
    BY <2>1, FS_Subset
  <2>. QED
    BY <2>2, SumType
<1>. QED
  BY <1>3, <1>4, <1>5, <1>6, <1>7

(* The same values under other names have the same sum.                     *)
LEMMA SumRenamed ==
  ASSUME NEW f, NEW g, NEW S, IsFiniteSet(S), NEW e, NEW names,
         \A x, y \in S : e[x] = e[y] => x = y,
         \A x \in S : e[x] \in names, \A z \in names : \E x \in S : e[x] = z,
         \A x \in S : g[x] = f[e[x]] /\ g[x] \in Int
  PROVE  SumFunctionOnSet(g, S) = SumFunctionOnSet(f, names)
<1>. DEFINE Image(T) == {e[x] : x \in T}
            Good(T) == /\ IsFiniteSet(Image(T))
                       /\ SumFunctionOnSet(g, T) = SumFunctionOnSet(f, Image(T))
            B == {T \in SUBSET S : ~Good(T)}
<1>0. names = Image(S)
  OBVIOUS
<1>. SUFFICES ASSUME B # {} PROVE FALSE
  BY <1>0
<1>1. PICK T \in B : \A U \in B : U \subseteq T => U = T
  <2>1. B \subseteq SUBSET S
    OBVIOUS
  <2>. HIDE DEF B
  <2>. QED
    BY <2>1, SmallestSubset
<1>2. T \in SUBSET S /\ IsFiniteSet(T) /\ ~Good(T)
  BY <1>1, FS_Subset
<1>3. T # {}
  <2>1. Image({}) = {}
    OBVIOUS
  <2>2. Good({})
    BY <2>1, SumEmpty, FS_EmptySet
  <2>. QED
    BY <1>2, <2>2
<1>. DEFINE p == Pick(T)
            R == T \ {p}
<1>4. p \in T /\ g[p] \in Int /\ g[p] = f[e[p]]
  BY <1>2, <1>3, PickIn
<1>5. Good(R)
  <2>1. R \in SUBSET S /\ R \subseteq T /\ R # T
    BY <1>2, <1>4
  <2>2. R \notin B
    <3>. HIDE DEF B, R
    <3>. QED
      BY <1>1, <2>1
  <2>. HIDE DEF Good
  <2>. QED
    BY <2>1, <2>2
<1>. HIDE DEF p
<1>6. Image(T) = Image(R) \cup {e[p]} /\ e[p] \notin Image(R)
  BY <1>2, <1>4
<1>7. Image(T) \ {e[p]} = Image(R) /\ e[p] \in Image(T)
  BY <1>6
<1>8. IsFiniteSet(Image(T))
  <2>. DEFINE I == Image(R)
  <2>1. IsFiniteSet(I)
    BY <1>5
  <2>. HIDE DEF I
  <2>2. IsFiniteSet(I \cup {e[p]})
    BY <2>1, FS_AddElement
  <2>. QED
    BY <1>6, <2>2 DEF I
<1>9. SumFunctionOnSet(f, Image(T)) = f[e[p]] + SumFunctionOnSet(f, Image(R))
  <2>1. \A y \in Image(T) : f[y] \in Int
    BY <1>2
  <2>. DEFINE I == Image(T)
  <2>2. IsFiniteSet(I) /\ (\A y \in I : f[y] \in Int) /\ e[p] \in I /\ I \ {e[p]} = Image(R)
    BY <1>7, <1>8, <2>1
  <2>. HIDE DEF I
  <2>3. SumFunctionOnSet(f, I) = f[e[p]] + SumFunctionOnSet(f, I \ {e[p]})
    BY <2>2, SumSplit
  <2>. QED
    BY <2>2, <2>3 DEF I
<1>10. SumFunctionOnSet(g, T) = g[p] + SumFunctionOnSet(g, R)
  BY <1>2, <1>3, SumPicked DEF p
<1>. QED
  BY <1>2, <1>4, <1>5, <1>8, <1>9, <1>10

-----------------------------------------------------------------------------
(* SetToSeq lists the elements of a finite set, each once.                  *)
LEMMA SetToSeqLists ==
  ASSUME NEW S, IsFiniteSet(S)
  PROVE  /\ SetToSeq(S) \in Seq(S)
         /\ IsFiniteSet(DOMAIN SetToSeq(S))
         /\ \A i, j \in DOMAIN SetToSeq(S) : SetToSeq(S)[i] = SetToSeq(S)[j] => i = j
         /\ \A i \in DOMAIN SetToSeq(S) : SetToSeq(S)[i] \in S
         /\ \A x \in S : \E i \in DOMAIN SetToSeq(S) : SetToSeq(S)[i] = x
<1>. DEFINE n == Cardinality(S)
            lists(f) == f \in [1 .. n -> S] /\ IsInjective(f)
<1>1. PICK m \in Nat : ExistsBijection(1 .. m, S)
  BY FS_NatBijection
<1>2. m = n /\ n \in Nat
  BY <1>1, FS_CountingElements
<1>3. \E f : lists(f)
  BY <1>1, <1>2 DEF ExistsBijection, Bijection, Injection
<1>. DEFINE list == SetToSeq(S)
<1>4. list \in [1 .. n -> S] /\ IsInjective(list)
  BY <1>3 DEF SetToSeq
<1>. HIDE DEF list, n
<1>5. IsFiniteSet(1 .. n) /\ Cardinality(1 .. n) = Cardinality(S)
  <2>1. IsFiniteSet(1 .. n) /\ Cardinality(1 .. n) = IF 1 > n THEN 0 ELSE n - 1 + 1
    BY <1>2, FS_Interval
  <2>. QED
    BY <1>2, <2>1 DEF n
<1>6. list \in Surjection(1 .. n, S)
  <2>1. list \in Injection(1 .. n, S)
    BY <1>4 DEF Injection
  <2>. QED
    BY <1>5, <2>1, FS_Injection
<1>7. DOMAIN list = 1 .. n /\ list \in Seq(S)
  BY <1>2, <1>4
<1>8. \A i, j \in DOMAIN list : list[i] = list[j] => i = j
  BY <1>4 DEF IsInjective
<1>9. /\ \A i \in DOMAIN list : list[i] \in S
      /\ \A x \in S : \E i \in DOMAIN list : list[i] = x
  BY <1>4, <1>6, <1>7 DEF Surjection
<1>. QED
  BY <1>5, <1>7, <1>8, <1>9 DEF list

-----------------------------------------------------------------------------
(* Counting up.  A set stands for the property, so that no operator has to  *)
(* be a parameter.                                                         *)

LEMMA CountingUp ==
  ASSUME NEW P, 0 \in P, \A i \in Nat : i \in P => i + 1 \in P
  PROVE  Nat \subseteq P
<1>. SUFFICES ASSUME NEW k \in Nat, k \notin P PROVE FALSE
  OBVIOUS
<1>. DEFINE B == {T \in SUBSET (1 .. k) : \E i \in 0 .. k : T = 1 .. i /\ i \notin P}
<1>1. IsFiniteSet(1 .. k)
  BY FS_Interval
<1>2. B # {}
  <2>1. 1 .. k \in SUBSET (1 .. k) /\ k \in 0 .. k
    OBVIOUS
  <2>. QED
    BY <2>1
<1>3. PICK T \in B : \A U \in B : U \subseteq T => U = T
  <2>1. B \subseteq SUBSET (1 .. k)
    OBVIOUS
  <2>. DEFINE S == 1 .. k
  <2>2. IsFiniteSet(S) /\ B \subseteq SUBSET S
    BY <1>1, <2>1
  <2>. HIDE DEF B, S
  <2>. QED
    BY <1>2, <2>2, SmallestSubset
<1>4. PICK i \in 0 .. k : T = 1 .. i /\ i \notin P
  BY <1>3
<1>5. i # 0
  BY <1>4
<1>6. i - 1 \in P
  <2>. SUFFICES ASSUME i - 1 \notin P PROVE FALSE
    OBVIOUS
  <2>1. i - 1 \in 0 .. k /\ 1 .. (i - 1) \in SUBSET (1 .. k)
    BY <1>5
  <2>2. 1 .. (i - 1) \in B
    BY <2>1
  <2>3. 1 .. (i - 1) \subseteq T /\ i \in T /\ i \notin 1 .. (i - 1)
    BY <1>4, <1>5
  <2>. QED
    BY <1>3, <2>2, <2>3
<1>7. i - 1 \in Nat /\ (i - 1) + 1 = i
  BY <1>5
<1>. QED
  BY <1>4, <1>6, <1>7

(* A set of numbers has a least one.                                       *)
LEMMA FirstOne ==
  ASSUME NEW S, S \subseteq Nat, S # {}
  PROVE  \E k \in S : \A j \in S : k <= j
<1>. SUFFICES ASSUME \A k \in S : \E j \in S : j < k PROVE FALSE
  OBVIOUS
<1>. DEFINE P == {k \in Nat : \A j \in 0 .. k : j \notin S}
<1>1. 0 \in P
  OBVIOUS
<1>2. ASSUME NEW k \in Nat, k \in P PROVE k + 1 \in P
  <2>1. \A j \in 0 .. k + 1 : j = k + 1 \/ j \in 0 .. k
    OBVIOUS
  <2>2. k + 1 \notin S
    <3>. SUFFICES ASSUME k + 1 \in S PROVE FALSE
      OBVIOUS
    <3>1. PICK j \in S : j < k + 1
      OBVIOUS
    <3>2. j \in 0 .. k
      BY <3>1
    <3>. QED
      BY <1>2, <3>2
  <2>. QED
    BY <1>2, <2>1, <2>2
<1>3. Nat \subseteq P
  <2>. HIDE DEF P
  <2>. QED
    BY <1>1, <1>2, CountingUp
<1>4. PICK k \in S : k \in Nat
  OBVIOUS
<1>5. k \in P /\ k \in 0 .. k
  BY <1>3, <1>4
<1>. QED
  BY <1>5

(* A sequence of values, each computed from the one before by a function.   *)
Computes(h, g, first, n) ==
  h[0] = first /\ \A i \in 1 .. n : h[i] = g[<<i, h[i - 1]>>]

LEMMA ComputationExists ==
  ASSUME NEW V, NEW first \in V, NEW g \in [Nat \X V -> V], NEW n \in Nat
  PROVE  \E h \in [0 .. n -> V] : Computes(h, g, first, n)
<1>. DEFINE P == {k \in Nat : \E h \in [0 .. k -> V] : Computes(h, g, first, k)}
<1>1. 0 \in P
  <2>. DEFINE h == [i \in 0 .. 0 |-> first]
  <2>1. h \in [0 .. 0 -> V] /\ Computes(h, g, first, 0)
    BY DEF Computes
  <2>. QED
    BY <2>1
<1>2. ASSUME NEW k \in Nat, k \in P PROVE k + 1 \in P
  <2>1. PICK h \in [0 .. k -> V] : Computes(h, g, first, k)
    BY <1>2
  <2>. DEFINE e == [i \in 0 .. k + 1 |-> IF i = k + 1 THEN g[<<k + 1, h[k]>>] ELSE h[i]]
  <2>2. e \in [0 .. k + 1 -> V]
    <3>1. g[<<k + 1, h[k]>>] \in V
      OBVIOUS
    <3>2. \A i \in 0 .. k + 1 : i # k + 1 => h[i] \in V
      OBVIOUS
    <3>. QED
      BY <3>1, <3>2
  <2>3. e[0] = first
    BY <2>1 DEF Computes
  <2>4. ASSUME NEW i \in 1 .. k + 1 PROVE e[i] = g[<<i, e[i - 1]>>]
    <3>1. CASE i = k + 1
      <4>1. e[k + 1] = g[<<k + 1, h[k]>>] /\ e[k] = h[k]
        OBVIOUS
      <4>2. i - 1 = k
        BY <3>1
      <4>. QED
        BY <3>1, <4>1, <4>2
    <3>2. CASE i # k + 1
      <4>1. i \in 1 .. k /\ e[i] = h[i] /\ e[i - 1] = h[i - 1]
        BY <3>2
      <4>. QED
        BY <2>1, <4>1 DEF Computes
    <3>. QED
      BY <3>1, <3>2
  <2>5. Computes(e, g, first, k + 1)
    <3>. HIDE DEF e
    <3>. QED
      BY <2>3, <2>4 DEF Computes
  <2>. HIDE DEF e
  <2>. QED
    BY <2>2, <2>5
<1>3. Nat \subseteq P
  <2>. HIDE DEF P
  <2>. QED
    BY <1>1, <1>2, CountingUp
<1>. QED
  BY <1>3

-----------------------------------------------------------------------------
(* Lots of any kind, with whatever else they carry.                         *)
LotKind(V) ==
  \A lot \in V :
    /\ lot.count \in Int /\ lot.price \in Int
    /\ \A c \in Int : LET changed == [lot EXCEPT !.count = c]
                      IN  changed \in V /\ changed.count = c /\ changed.price = lot.price

Counts(lots) == [i \in DOMAIN lots |-> lots[i].count]

LEMMA DomainFinite ==
  ASSUME NEW V, NEW lots \in Seq(V)
  PROVE  DOMAIN lots = 1 .. Len(lots) /\ IsFiniteSet(DOMAIN lots) /\ Len(lots) \in Nat
BY FS_Interval

LEMMA CountsSum ==
  ASSUME NEW V, LotKind(V), NEW lots \in Seq(V)
  PROVE  SumFunction(Counts(lots)) \in Int
<1>1. \A i \in DOMAIN lots : Counts(lots)[i] \in Int
  BY DEF LotKind, Counts
<1>2. DOMAIN Counts(lots) = DOMAIN lots
  BY DEF Counts
<1>. HIDE DEF Counts
<1>. QED
  BY <1>1, <1>2, DomainFinite, SumType DEF SumFunction

-----------------------------------------------------------------------------
(* The sort.  Rank is where a stable sort would put a lot: it shows that    *)
(* there is an order std::sort may choose.                                  *)

Before(lots, i) ==
  {j \in DOMAIN lots :
     \/ lots[j].price < lots[i].price
     \/ lots[j].price = lots[i].price /\ j < i}

Rank(lots, i) == Cardinality(Before(lots, i)) + 1

LEMMA RankType ==
  ASSUME NEW V, LotKind(V), NEW lots \in Seq(V), NEW i \in DOMAIN lots
  PROVE  IsFiniteSet(Before(lots, i)) /\ Rank(lots, i) \in DOMAIN lots
<1>1. /\ DOMAIN lots = 1 .. Len(lots) /\ IsFiniteSet(DOMAIN lots) /\ Len(lots) \in Nat
      /\ Cardinality(DOMAIN lots) = Len(lots)
  <2>1. DOMAIN lots = 1 .. Len(lots) /\ Len(lots) \in Nat
    OBVIOUS
  <2>2. IsFiniteSet(DOMAIN lots)
    BY DomainFinite
  <2>3. \A n \in Nat : Cardinality(1 .. n) = n
    BY FS_Interval
  <2>. QED
    BY <2>1, <2>2, <2>3
<1>2. Before(lots, i) \subseteq DOMAIN lots \ {i}
  BY DEF Before, LotKind
<1>. DEFINE D == DOMAIN lots
<1>3. IsFiniteSet(D \ {i}) /\ Cardinality(D \ {i}) = Cardinality(D) - 1
  BY <1>1, FS_RemoveElement
<1>4. IsFiniteSet(Before(lots, i)) /\ Cardinality(Before(lots, i)) <= Cardinality(D \ {i})
  BY <1>2, <1>3, FS_Subset
<1>5. Cardinality(Before(lots, i)) \in Nat
  BY <1>4, FS_CardinalityType
<1>6. Rank(lots, i) \in 1 .. Len(lots)
  BY <1>1, <1>3, <1>4, <1>5 DEF Rank
<1>. QED
  BY <1>1, <1>4, <1>6

LEMMA RankGrows ==
  ASSUME NEW V, LotKind(V), NEW lots \in Seq(V),
         NEW i \in DOMAIN lots, NEW j \in DOMAIN lots, j \in Before(lots, i)
  PROVE  Rank(lots, j) < Rank(lots, i)
<1>1. Before(lots, j) \subseteq Before(lots, i)
  BY DEF Before, LotKind
<1>2. j \notin Before(lots, j)
  BY DEF Before, LotKind
<1>3. IsFiniteSet(Before(lots, i)) /\ IsFiniteSet(Before(lots, j))
  BY RankType
<1>4. /\ Cardinality(Before(lots, j)) <= Cardinality(Before(lots, i))
      /\ Cardinality(Before(lots, j)) = Cardinality(Before(lots, i))
           => Before(lots, j) = Before(lots, i)
  BY <1>1, <1>3, FS_Subset
<1>5. Cardinality(Before(lots, i)) \in Nat /\ Cardinality(Before(lots, j)) \in Nat
  BY <1>3, FS_CardinalityType
<1>. QED
  BY <1>2, <1>4, <1>5 DEF Rank

SortsLots(lots, p) ==
  \A i, j \in DOMAIN lots : i < j => ~Cheaper(lots[p[j]], lots[p[i]])

LEMMA SortExists ==
  ASSUME NEW V, LotKind(V), NEW lots \in Seq(V)
  PROVE  \E p \in Bijection(DOMAIN lots, DOMAIN lots) : SortsLots(lots, p)
<1>. DEFINE D == DOMAIN lots
            r == [i \in D |-> Rank(lots, i)]
<1>1. IsFiniteSet(D) /\ D \subseteq Int
  BY DomainFinite
<1>2. r \in [D -> D]
  BY RankType
<1>3. \A i, j \in D : i # j => j \in Before(lots, i) \/ i \in Before(lots, j)
  BY <1>1 DEF Before, LotKind
<1>4. \A i, j \in D : j \in Before(lots, i) => r[j] < r[i]
  BY RankGrows
<1>5. \A i, j \in D : r[i] = r[j] => i = j
  <2>. HIDE DEF r
  <2>. QED
    BY <1>1, <1>2, <1>3, <1>4
<1>. HIDE DEF r
<1>6. r \in Surjection(D, D)
  <2>1. r \in Injection(D, D)
    BY <1>2, <1>5 DEF Injection, IsInjective
  <2>. HIDE DEF D
  <2>. QED
    BY <1>1, <2>1, FS_Injection
<1>. DEFINE p == [k \in D |-> CHOOSE i \in D : r[i] = k]
<1>7. \A k \in D : p[k] \in D /\ r[p[k]] = k
  BY <1>6 DEF Surjection
<1>. HIDE DEF p
<1>8. p \in [D -> D]
  BY <1>7 DEF p
<1>9. \A i \in D : p[r[i]] = i
  BY <1>2, <1>5, <1>7
<1>10. p \in Bijection(D, D)
  BY <1>2, <1>7, <1>8, <1>9 DEF Bijection, Injection, Surjection, IsInjective
<1>11. ASSUME NEW i \in D, NEW j \in D, i < j PROVE ~Cheaper(lots[p[j]], lots[p[i]])
  <2>. SUFFICES ASSUME Cheaper(lots[p[j]], lots[p[i]]) PROVE FALSE
    OBVIOUS
  <2>1. p[j] \in Before(lots, p[i])
    BY <1>7 DEF Before, Cheaper
  <2>2. r[p[j]] < r[p[i]]
    BY <1>4, <1>7, <2>1
  <2>. QED
    BY <1>1, <1>7, <1>11, <2>2
<1>. QED
  BY <1>10, <1>11 DEF SortsLots
(* What std::sort promises: the same lots, in the order of comp.            *)
Sorts(sorted, lots) ==
  /\ \E p \in Bijection(DOMAIN lots, DOMAIN lots) :
       \A i \in DOMAIN lots : sorted[i] = lots[p[i]]
  /\ \A i, j \in DOMAIN lots : i < j => ~Cheaper(sorted[j], sorted[i])

LEMMA SortedLotsSorts ==
  ASSUME NEW V, LotKind(V), NEW lots \in Seq(V)
  PROVE  /\ SortedLots(lots) \in Seq(V) /\ Len(SortedLots(lots)) = Len(lots)
         /\ DOMAIN SortedLots(lots) = DOMAIN lots
         /\ Sorts(SortedLots(lots), lots)
<1>. DEFINE D == DOMAIN lots
            p == CHOOSE p \in Bijection(D, D) : SortsLots(lots, p)
            s == [i \in D |-> lots[p[i]]]
<1>1. p \in Bijection(D, D) /\ SortsLots(lots, p)
  BY SortExists
<1>2. SortedLots(lots) = s
  BY DEF SortedLots, SortsLots
<1>. HIDE DEF p
<1>3. D = 1 .. Len(lots) /\ Len(lots) \in Nat /\ \A i \in D : lots[i] \in V
  BY DomainFinite
<1>4. \A i \in D : p[i] \in D
  BY <1>1 DEF Bijection, Injection
<1>5. s \in [1 .. Len(lots) -> V]
  BY <1>3, <1>4
<1>6. s \in Seq(V) /\ Len(s) = Len(lots) /\ DOMAIN s = D
  <2>1. s \in Seq(V)
    <3>. HIDE DEF s
    <3>. QED
      BY <1>3, <1>5
  <2>2. DOMAIN s = 1 .. Len(lots)
    BY <1>3
  <2>3. Len(s) = Len(lots)
    <3>. HIDE DEF s
    <3>. QED
      BY <1>3, <2>1, <2>2
  <2>. QED
    BY <1>3, <2>1, <2>3
<1>7. Sorts(s, lots)
  BY <1>1 DEF Sorts, SortsLots
<1>. QED
  BY <1>2, <1>6, <1>7

LEMMA SortedLotsSum ==
  ASSUME NEW V, LotKind(V), NEW lots \in Seq(V)
  PROVE  SumFunction(Counts(SortedLots(lots))) = SumFunction(Counts(lots))
<1>. DEFINE D == DOMAIN lots
            s == SortedLots(lots)
            f == Counts(lots)
            g == Counts(s)
<1>1. DOMAIN s = D /\ Sorts(s, lots) /\ s \in Seq(V) /\ IsFiniteSet(D)
  BY SortedLotsSorts, DomainFinite
<1>2. PICK p \in Bijection(D, D) : \A i \in D : s[i] = lots[p[i]]
  BY <1>1 DEF Sorts
<1>3. /\ \A i \in D : p[i] \in D
      /\ \A i, j \in D : p[i] = p[j] => i = j
      /\ \A j \in D : \E i \in D : p[i] = j
  BY DEF Bijection, Injection, Surjection, IsInjective
<1>. HIDE DEF s
<1>4. \A i \in D : g[i] = f[p[i]] /\ g[i] \in Int
  <2>. SUFFICES ASSUME NEW i \in D PROVE g[i] = f[p[i]] /\ g[i] \in Int
    OBVIOUS
  <2>1. s[i] = lots[p[i]] /\ s[i] \in V /\ p[i] \in DOMAIN lots
    BY <1>1, <1>2, <1>3
  <2>2. g[i] = s[i].count /\ f[p[i]] = lots[p[i]].count
    BY <1>1, <2>1 DEF Counts
  <2>. QED
    BY <2>1, <2>2 DEF LotKind
<1>6. DOMAIN f = D /\ DOMAIN g = D
  BY <1>1 DEF Counts
<1>. HIDE DEF f, g, D
<1>7. SumFunctionOnSet(g, D) = SumFunctionOnSet(f, D)
  <2>1. IsFiniteSet(D)
    BY <1>1
  <2>2. \A x, y \in D : p[x] = p[y] => x = y
    BY <1>3
  <2>3. \A x \in D : p[x] \in D
    BY <1>3
  <2>4. \A z \in D : \E x \in D : p[x] = z
    BY <1>3
  <2>5. \A x \in D : g[x] = f[p[x]] /\ g[x] \in Int
    BY <1>4
  <2>. QED
    BY ONLY <2>1, <2>2, <2>3, <2>4, <2>5, SumRenamed
<1>. QED
  BY <1>6, <1>7 DEF SumFunction, f, g, s

-----------------------------------------------------------------------------
(* The loop of OnOrderDone.                                                 *)

LEMMA DemandIs ==
  ASSUME NEW V, LotKind(V), NEW lots \in Seq(V), NEW n \in Int
  PROVE  /\ \A i \in DOMAIN lots : Demand(lots, n)[i] \in Int
         /\ lots # <<>> => Demand(lots, n)[1] = n
         /\ \A i \in DOMAIN lots :
              i # 1 => Demand(lots, n)[i] = Demand(lots, n)[i - 1] - lots[i - 1].count
<1>. DEFINE D == DOMAIN lots
            IsDemand(m) ==
              m = [i \in D |-> IF i = 1 THEN n ELSE m[i - 1] - lots[i - 1].count]
            g == [q \in Nat \X Int |-> IF q[1] \in D THEN q[2] - lots[q[1]].count ELSE q[2]]
<1>1. D = 1 .. Len(lots) /\ Len(lots) \in Nat /\ \A i \in D : lots[i].count \in Int
  BY DomainFinite DEF LotKind
<1>2. g \in [Nat \X Int -> Int]
  BY <1>1
<1>3. PICK h \in [0 .. Len(lots) -> Int] : Computes(h, g, n, Len(lots))
  <2>. HIDE DEF g
  <2>. QED
    BY <1>1, <1>2, ComputationExists
<1>. DEFINE w == [i \in D |-> h[i - 1]]
<1>4. h[0] = n /\ \A i \in D : h[i] = h[i - 1] - lots[i].count
  <2>1. \A i \in D : h[i] = g[<<i, h[i - 1]>>]
    BY <1>1, <1>3 DEF Computes
  <2>2. \A i \in D : i \in Nat /\ h[i - 1] \in Int
    BY <1>1
  <2>3. \A i \in D : g[<<i, h[i - 1]>>] = h[i - 1] - lots[i].count
    BY <2>2
  <2>. QED
    BY <1>3, <2>1, <2>3 DEF Computes
<1>5. IsDemand(w)
  <2>1. \A i \in D : w[i] = IF i = 1 THEN n ELSE w[i - 1] - lots[i - 1].count
    <3>. SUFFICES ASSUME NEW i \in D
                  PROVE  w[i] = IF i = 1 THEN n ELSE w[i - 1] - lots[i - 1].count
      OBVIOUS
    <3>1. CASE i = 1
      BY <1>4, <3>1
    <3>2. CASE i # 1
      <4>1. i - 1 \in D
        BY <1>1, <3>2
      <4>2. w[i] = h[i - 1] /\ w[i - 1] = h[(i - 1) - 1]
        BY <4>1
      <4>3. h[i - 1] = h[(i - 1) - 1] - lots[i - 1].count
        BY <1>4, <4>1
      <4>. QED
        BY <3>2, <4>2, <4>3
    <3>. QED
      BY <3>1, <3>2
  <2>2. w = [i \in D |-> w[i]]
    OBVIOUS
  <2>. HIDE DEF w
  <2>. QED
    BY <2>1, <2>2
<1>. DEFINE m == CHOOSE m : IsDemand(m)
<1>6. IsDemand(m) /\ Demand(lots, n) = m
  <2>1. \E x : IsDemand(x)
    BY <1>5
  <2>2. IsDemand(m)
    <3>. HIDE DEF IsDemand
    <3>. QED
      BY <2>1
  <2>. QED
    BY <2>2 DEF Demand
<1>. HIDE DEF m
<1>7. /\ \A i \in D : m[i] = IF i = 1 THEN n ELSE m[i - 1] - lots[i - 1].count
  BY <1>6
<1>8. \A k \in Nat : k \in D => m[k] \in Int
  <2>. DEFINE P == {k \in Nat : k \in D => m[k] \in Int}
  <2>1. 0 \in P
    BY <1>1
  <2>2. ASSUME NEW k \in Nat, k \in P PROVE k + 1 \in P
    <3>. SUFFICES ASSUME k + 1 \in D PROVE m[k + 1] \in Int
      OBVIOUS
    <3>1. CASE k = 0
      BY <1>7, <3>1
    <3>2. CASE k # 0
      <4>1. k \in D /\ (k + 1) - 1 = k /\ k + 1 # 1
        BY <1>1, <3>2
      <4>2. m[k] \in Int /\ lots[k].count \in Int
        BY <1>1, <2>2, <4>1
      <4>3. m[k + 1] = m[k] - lots[k].count
        BY <1>7, <4>1
      <4>. QED
        BY <4>2, <4>3
    <3>. QED
      BY <3>1, <3>2
  <2>3. Nat \subseteq P
    <3>. HIDE DEF P
    <3>. QED
      BY <2>1, <2>2, CountingUp
  <2>. QED
    BY <2>3
<1>9. lots # <<>> => 1 \in D
  BY <1>1
<1>10. D \subseteq Nat
  BY <1>1
<1>. HIDE DEF D, IsDemand
<1>11. \A i \in D : m[i] \in Int
  BY <1>8, <1>10
<1>12. lots # <<>> => m[1] = n
  BY <1>7, <1>9
<1>13. \A i \in D : i # 1 => m[i] = m[i - 1] - lots[i - 1].count
  BY <1>7
<1>. QED
  BY <1>6, <1>11, <1>12, <1>13 DEF D
(* The loop stops behind the first lot that keeps what it has, or at the    *)
(* end; what it asks of every lot is no less than nothing.                  *)
LEMMA VisitedIs ==
  ASSUME NEW V, LotKind(V), NEW lots \in Seq(V), NEW n \in Nat
  PROVE  /\ Visited(lots, n) \in 0 .. Len(lots)
         /\ lots # <<>> => Visited(lots, n) >= 1
         /\ \A i \in DOMAIN lots :
              i < Visited(lots, n) => lots[i].count - Demand(lots, n)[i] < 0
         /\ \A i \in DOMAIN lots : i <= Visited(lots, n) => Demand(lots, n)[i] >= 0
<1>. DEFINE D == DOMAIN lots
            m == Demand(lots, n)
            v == Visited(lots, n)
            stops == {i \in D : lots[i].count - m[i] >= 0}
<1>1. D = 1 .. Len(lots) /\ Len(lots) \in Nat /\ \A i \in D : lots[i].count \in Int
  BY DomainFinite DEF LotKind
<1>2. /\ \A i \in D : m[i] \in Int
      /\ lots # <<>> => m[1] = n
      /\ \A i \in D : i # 1 => m[i] = m[i - 1] - lots[i - 1].count
  BY DemandIs
<1>3. v = IF stops = {} THEN Len(lots) ELSE CHOOSE i \in stops : \A j \in stops : i <= j
  BY DEF Visited
<1>4. stops # {} => \E i \in stops : \A j \in stops : i <= j
  <2>. DEFINE B == {T \in SUBSET D : \E i \in stops : T = 1 .. i}
  <2>. SUFFICES ASSUME stops # {} PROVE \E i \in stops : \A j \in stops : i <= j
    OBVIOUS
  <2>1. PICK k \in stops : TRUE
    OBVIOUS
  <2>2. 1 .. k \in B
    BY <1>1, <2>1
  <2>3. PICK T \in B : \A U \in B : U \subseteq T => U = T
    <3>1. IsFiniteSet(D) /\ B \subseteq SUBSET D /\ B # {}
      BY <2>2, DomainFinite
    <3>. HIDE DEF B, D
    <3>. QED
      BY <3>1, SmallestSubset
  <2>4. PICK i \in stops : T = 1 .. i
    BY <2>3
  <2>5. ASSUME NEW j \in stops PROVE i <= j
    <3>. SUFFICES ASSUME j < i PROVE FALSE
      BY <1>1, <2>4
    <3>1. 1 .. j \in B
      BY <1>1
    <3>2. 1 .. j \subseteq T /\ i \in T /\ i \notin 1 .. j
      BY <1>1, <2>4
    <3>. QED
      BY <2>3, <3>1, <3>2
  <2>. QED
    BY <2>5
<1>5. \/ stops = {} /\ v = Len(lots)
      \/ v \in stops /\ \A j \in stops : v <= j
  <2>. HIDE DEF stops, v
  <2>. QED
    BY <1>3, <1>4
<1>6. v \in 0 .. Len(lots) /\ (lots # <<>> => v >= 1)
  BY <1>1, <1>5
<1>. HIDE DEF v, m
<1>7. \A i \in D : i < v => lots[i].count - m[i] < 0
  <2>1. ASSUME NEW i \in D, i < v PROVE i \notin stops
    BY <1>1, <1>5, <2>1
  <2>. QED
    BY <1>1, <1>2, <2>1
<1>8. \A i \in D : i <= v => m[i] >= 0
  <2>. SUFFICES ASSUME NEW i \in D, i <= v PROVE m[i] >= 0
    OBVIOUS
  <2>1. CASE i = 1
    BY <1>1, <1>2, <2>1
  <2>2. CASE i # 1
    <3>1. i - 1 \in D /\ i - 1 < v
      BY <1>1, <1>6, <2>2
    <3>2. lots[i - 1].count - m[i - 1] < 0 /\ m[i - 1] \in Int /\ lots[i - 1].count \in Int
      BY <1>1, <1>2, <1>7, <3>1
    <3>. QED
      BY <1>2, <2>2, <3>2
  <2>. QED
    BY <2>1, <2>2
<1>. QED
  BY <1>6, <1>7, <1>8 DEF m, v

(* What a sale leaves of each lot.                                          *)
LEMMA SellLotsIs ==
  ASSUME NEW V, LotKind(V), NEW lots \in Seq(V), NEW n \in Nat
  PROVE  /\ SellLots(lots, n) \in Seq(V) /\ Len(SellLots(lots, n)) = Len(lots)
         /\ DOMAIN SellLots(lots, n) = DOMAIN lots
         /\ \A i \in DOMAIN lots :
              SellLots(lots, n)[i] =
                IF i <= Visited(lots, n)
                THEN [lots[i] EXCEPT !.count = @ - Demand(lots, n)[i]]
                ELSE lots[i]
         /\ \A i \in DOMAIN lots :
              SellLots(lots, n)[i].count =
                IF i <= Visited(lots, n) THEN lots[i].count - Demand(lots, n)[i]
                                         ELSE lots[i].count
<1>. DEFINE D == DOMAIN lots
            m == Demand(lots, n)
            v == Visited(lots, n)
            sold(i) == IF i <= v THEN [lots[i] EXCEPT !.count = @ - m[i]] ELSE lots[i]
            s == [i \in D |-> sold(i)]
<1>1. SellLots(lots, n) = s
  BY DEF SellLots
<1>2. D = 1 .. Len(lots) /\ Len(lots) \in Nat /\ \A i \in D : lots[i] \in V
  BY DomainFinite
<1>3. \A i \in D : m[i] \in Int /\ lots[i].count \in Int /\ lots[i].count - m[i] \in Int
  <2>1. \A i \in D : m[i] \in Int
    BY DemandIs
  <2>2. \A i \in D : lots[i].count \in Int
    BY <1>2 DEF LotKind
  <2>. HIDE DEF m
  <2>. QED
    BY <2>1, <2>2
<1>. HIDE DEF m, v
<1>4. ASSUME NEW i \in D
      PROVE  /\ sold(i) \in V
             /\ sold(i).count = IF i <= v THEN lots[i].count - m[i] ELSE lots[i].count
  <2>1. lots[i] \in V /\ lots[i].count - m[i] \in Int
    BY <1>2, <1>3
  <2>2. LET changed == [lots[i] EXCEPT !.count = lots[i].count - m[i]]
        IN  changed \in V /\ changed.count = lots[i].count - m[i]
    BY <2>1 DEF LotKind
  <2>3. CASE i <= v
    BY <2>2, <2>3
  <2>4. CASE ~(i <= v)
    BY <2>1, <2>4
  <2>. QED
    BY <2>3, <2>4
<1>. HIDE DEF sold
<1>5. s \in [1 .. Len(lots) -> V] /\ DOMAIN s = D /\ \A i \in D : s[i] = sold(i)
  BY <1>2, <1>4
<1>6. s \in Seq(V) /\ Len(s) = Len(lots)
  <2>. HIDE DEF s
  <2>. QED
    BY <1>2, <1>5
<1>. QED
  BY <1>1, <1>4, <1>5, <1>6 DEF sold, m, v

(* A sale takes at least its shares from the lots: all it asks for from the *)
(* first one, and no less than nothing from the others.                     *)
LEMMA SaleTakesShares ==
  ASSUME NEW V, LotKind(V), NEW lots \in Seq(V), lots # <<>>, NEW n \in Nat
  PROVE  SumFunction(Counts(SellLots(lots, n))) <= SumFunction(Counts(lots)) - n
<1>. DEFINE D == DOMAIN lots
            f == Counts(lots)
            s == SellLots(lots, n)
            g == Counts(s)
            m == Demand(lots, n)
            v == Visited(lots, n)
            e == [f EXCEPT ![1] = @ - n]
<1>1. D = 1 .. Len(lots) /\ Len(lots) \in Nat /\ IsFiniteSet(D)
      /\ \A i \in D : lots[i].count \in Int
  BY DomainFinite DEF LotKind
<1>2. 1 \in D
  BY <1>1
<1>3. /\ DOMAIN s = D /\ \A i \in D : s[i].count = IF i <= v THEN lots[i].count - m[i]
                                                  ELSE lots[i].count
  BY SellLotsIs
<1>4. m[1] = n /\ \A i \in D : m[i] \in Int
  BY DemandIs
<1>5. v >= 1 /\ v \in Int /\ \A i \in D : i <= v => m[i] >= 0
  BY VisitedIs, <1>1
<1>6. DOMAIN f = D /\ DOMAIN g = D /\ DOMAIN e = D
  BY <1>3 DEF Counts
<1>. HIDE DEF m, v, s
<1>7. \A i \in D : f[i] = lots[i].count /\ g[i] = s[i].count
  BY <1>3 DEF Counts
<1>8. \A i \in D : /\ f[i] \in Int /\ g[i] \in Int /\ e[i] \in Int
                   /\ g[i] <= e[i] /\ (i # 1 => e[i] = f[i])
  <2>. SUFFICES ASSUME NEW i \in D
                PROVE  /\ f[i] \in Int /\ g[i] \in Int /\ e[i] \in Int
                       /\ g[i] <= e[i] /\ (i # 1 => e[i] = f[i])
    OBVIOUS
  <2>1. e[i] = IF i = 1 THEN f[1] - n ELSE f[i]
    BY <1>2, <1>6
  <2>2. f[i] \in Int /\ g[i] = IF i <= v THEN f[i] - m[i] ELSE f[i]
    BY <1>1, <1>3, <1>7
  <2>3. m[i] \in Int /\ (i <= v => m[i] >= 0)
    BY <1>4, <1>5
  <2>. HIDE DEF e, f, g
  <2>4. CASE i = 1
    BY <1>4, <1>5, <2>1, <2>2, <2>4
  <2>5. CASE i # 1
    BY <2>1, <2>2, <2>3, <2>5
  <2>. QED
    BY <2>4, <2>5
<1>9. e[1] = f[1] - n
  BY <1>2, <1>6
<1>. HIDE DEF e, f, g, D
<1>10. SumFunctionOnSet(g, D) <= SumFunctionOnSet(e, D)
  <2>1. \A i \in D : g[i] \in Int /\ e[i] \in Int /\ g[i] <= e[i]
    BY <1>8
  <2>. QED
    BY <1>1, <2>1, SumDominated
<1>11. SumFunctionOnSet(e, D) = SumFunctionOnSet(f, D) - f[1] + e[1]
  <2>1. /\ \A x \in D : f[x] \in Int /\ e[x] \in Int
        /\ \A x \in D \ {1} : e[x] = f[x]
    BY <1>8
  <2>2. IsFiniteSet(D)
    BY <1>1
  <2>. QED
    BY ONLY <1>2, <2>1, <2>2, SumChanged
<1>12. SumFunctionOnSet(f, D) \in Int /\ SumFunctionOnSet(g, D) \in Int /\ f[1] \in Int
  BY <1>1, <1>2, <1>8, SumType
<1>13. SumFunctionOnSet(g, D) <= SumFunctionOnSet(f, D) - n
  BY <1>8, <1>2, <1>9, <1>10, <1>11, <1>12
<1>. QED
  BY <1>6, <1>13 DEF SumFunction, f, g, s
-----------------------------------------------------------------------------
(* A lot more.                                                              *)

LEMMA AppendedSum ==
  ASSUME NEW V, LotKind(V), NEW lots \in Seq(V), NEW lot \in V
  PROVE  SumFunction(Counts(Append(lots, lot))) = lot.count + SumFunction(Counts(lots))
<1>. DEFINE a == Append(lots, lot)
            S == DOMAIN a
            new == Len(lots) + 1
            f == Counts(lots)
            g == Counts(a)
<1>1. /\ new \in S /\ S \ {new} = DOMAIN lots /\ a \in Seq(V)
      /\ a[new] = lot /\ \A i \in DOMAIN lots : a[i] = lots[i]
  <2>1. DOMAIN lots = 1 .. Len(lots) /\ Len(lots) \in Nat
    BY DomainFinite
  <2>2. /\ a \in Seq(V) /\ Len(a) = new /\ a[new] = lot
        /\ \A i \in 1 .. Len(lots) : a[i] = lots[i]
    BY AppendProperties
  <2>. HIDE DEF a
  <2>3. S = 1 .. new
    BY <2>2, DomainFinite
  <2>. QED
    BY <2>1, <2>2, <2>3
<1>2. IsFiniteSet(S) /\ IsFiniteSet(DOMAIN lots)
  BY <1>1, DomainFinite
<1>3. (\A i \in S : g[i] \in Int) /\ DOMAIN g = S
  BY <1>1 DEF Counts, LotKind
<1>4. g[new] = lot.count /\ (\A i \in DOMAIN lots : g[i] = f[i]) /\ DOMAIN f = DOMAIN lots
  BY <1>1 DEF Counts
<1>. HIDE DEF f, g, S, a, new
<1>5. SumFunctionOnSet(g, S) = g[new] + SumFunctionOnSet(g, S \ {new})
  BY ONLY <1>1, <1>2, <1>3, SumSplit
<1>6. SumFunctionOnSet(g, DOMAIN lots) = SumFunctionOnSet(f, DOMAIN lots)
  BY <1>2, <1>4, SumSame
<1>. QED
  BY <1>1, <1>3, <1>4, <1>5, <1>6 DEF SumFunction, f, g, a

-----------------------------------------------------------------------------
(* The final clear, lot by lot.                                             *)

Clears(t, lots) ==
  /\ t[0] = <<>>
  /\ \A i \in DOMAIN lots :
       t[i] = IF HasShares(lots[i]) THEN Append(t[i - 1], lots[i]) ELSE t[i - 1]

LEMMA ClearedLotsIs ==
  ASSUME NEW V, NEW lots \in Seq(V)
  PROVE  \E t \in [0 .. Len(lots) -> Seq(V)] :
           Clears(t, lots) /\ ClearedLots(lots) = t[Len(lots)]
<1>. DEFINE n == Len(lots)
            W == Seq(V)
            IsCleared(t) ==
              t = [i \in 0 .. n |->
                     IF i = 0 THEN <<>>
                     ELSE IF HasShares(lots[i]) THEN Append(t[i - 1], lots[i]) ELSE t[i - 1]]
            pushed(q) == IF q[1] \in 1 .. n /\ HasShares(lots[q[1]])
                         THEN Append(q[2], lots[q[1]]) ELSE q[2]
            g == [q \in Nat \X W |-> pushed(q)]
<1>1. n \in Nat /\ DOMAIN lots = 1 .. n /\ \A i \in 1 .. n : lots[i] \in V
  OBVIOUS
<1>2. g \in [Nat \X W -> W]
  <2>1. \A q \in Nat \X W : pushed(q) \in W
    BY <1>1
  <2>. HIDE DEF pushed
  <2>. QED
    BY <2>1
<1>3. <<>> \in W
  OBVIOUS
<1>4. PICK h \in [0 .. n -> W] : Computes(h, g, <<>>, n)
  <2>. HIDE DEF g, W, n
  <2>. QED
    BY <1>1, <1>2, <1>3, ComputationExists
<1>5. h[0] = <<>> /\ \A i \in 1 .. n :
        h[i] = IF HasShares(lots[i]) THEN Append(h[i - 1], lots[i]) ELSE h[i - 1]
  <2>1. h[0] = <<>> /\ \A i \in 1 .. n : h[i] = g[<<i, h[i - 1]>>]
    BY <1>4 DEF Computes
  <2>. SUFFICES ASSUME NEW i \in 1 .. n
                PROVE  h[i] = IF HasShares(lots[i]) THEN Append(h[i - 1], lots[i]) ELSE h[i - 1]
    BY <2>1
  <2>2. <<i, h[i - 1]>> \in Nat \X W
    <3>. HIDE DEF W, n
    <3>1. i \in Nat /\ i - 1 \in 0 .. n
      BY <1>1
    <3>2. h[i - 1] \in W
      BY <3>1
    <3>. QED
      BY <3>1, <3>2
  <2>3. g[<<i, h[i - 1]>>] = pushed(<<i, h[i - 1]>>)
    BY <2>2
  <2>. QED
    BY <2>1, <2>3
<1>6. IsCleared(h)
  <2>. DEFINE body(i) == IF i = 0 THEN <<>>
                         ELSE IF HasShares(lots[i]) THEN Append(h[i - 1], lots[i]) ELSE h[i - 1]
  <2>1. \A i \in 0 .. n : h[i] = body(i)
    <3>. HIDE DEF W, n, IsCleared, g
    <3>1. \A i \in 0 .. n : i = 0 \/ i \in 1 .. n
      BY <1>1
    <3>2. \A i \in 1 .. n : i # 0
      OBVIOUS
    <3>3. \A i \in 1 .. n : h[i] = body(i)
      BY <1>5, <3>2
    <3>. QED
      BY <1>5, <3>1, <3>3
  <2>2. h = [i \in 0 .. n |-> h[i]]
    BY <1>4
  <2>3. h = [i \in 0 .. n |-> body(i)]
    <3>. HIDE DEF body
    <3>. QED
      BY <2>1, <2>2
  <2>. QED
    BY <2>3
<1>. DEFINE t == CHOOSE t : IsCleared(t)
<1>7. IsCleared(t) /\ ClearedLots(lots) = t[n]
  <2>1. IsCleared(t)
    <3>. HIDE DEF IsCleared
    <3>. QED
      BY <1>6
  <2>. QED
    BY <2>1 DEF ClearedLots
<1>. HIDE DEF t
<1>8. /\ DOMAIN t = 0 .. n /\ t[0] = <<>>
      /\ \A i \in 1 .. n : t[i] = IF HasShares(lots[i]) THEN Append(t[i - 1], lots[i])
                                  ELSE t[i - 1]
  <2>. DEFINE body(i) == IF i = 0 THEN <<>>
                         ELSE IF HasShares(lots[i]) THEN Append(t[i - 1], lots[i]) ELSE t[i - 1]
  <2>1. t = [i \in 0 .. n |-> body(i)]
    BY <1>7
  <2>. HIDE DEF body, n
  <2>2. DOMAIN t = 0 .. n /\ \A i \in 0 .. n : t[i] = body(i)
    BY <2>1
  <2>3. 0 \in 0 .. n /\ \A i \in 1 .. n : i \in 0 .. n /\ i # 0
    BY <1>1
  <2>. QED
    BY <2>2, <2>3 DEF body
<1>9. t \in [0 .. n -> W]
  <2>. DEFINE P == {k \in Nat : k \in 0 .. n => t[k] \in W}
  <2>1. 0 \in P
    BY <1>3, <1>8
  <2>2. ASSUME NEW k \in Nat, k \in P PROVE k + 1 \in P
    <3>. SUFFICES ASSUME k + 1 \in 0 .. n PROVE t[k + 1] \in W
      OBVIOUS
    <3>1. k + 1 \in 1 .. n /\ k \in 0 .. n /\ (k + 1) - 1 = k
      BY <1>1
    <3>2. t[k] \in W /\ lots[k + 1] \in V
      BY <1>1, <2>2, <3>1
    <3>3. t[k + 1] = IF HasShares(lots[k + 1]) THEN Append(t[k], lots[k + 1]) ELSE t[k]
      BY <1>8, <3>1
    <3>4. Append(t[k], lots[k + 1]) \in W
      BY <3>2
    <3>. QED
      BY <3>2, <3>3, <3>4
  <2>3. Nat \subseteq P
    <3>. HIDE DEF P
    <3>. QED
      BY <2>1, <2>2, CountingUp
  <2>4. \A k \in 0 .. n : t[k] \in W
    BY <1>1, <2>3
  <2>5. t = [i \in 0 .. n |-> t[i]]
    <3>. HIDE DEF n, W
    <3>. QED
      BY <1>7
  <2>. HIDE DEF P, W
  <2>. QED
    BY <2>4, <2>5
<1>. QED
  BY <1>1, <1>7, <1>8, <1>9 DEF Clears

(* Lots without shares count for nothing, so the clear does not change the  *)
(* sum; it keeps only lots with shares, and each of them.                   *)
LEMMA ClearedLotsKeeps ==
  ASSUME NEW V, LotKind(V), NEW lots \in Seq(V)
  PROVE  /\ ClearedLots(lots) \in Seq(V)
         /\ SumFunction(Counts(ClearedLots(lots))) = SumFunction(Counts(lots))
         /\ {ClearedLots(lots)[i] : i \in DOMAIN ClearedLots(lots)}
              = {lot \in {lots[i] : i \in DOMAIN lots} : HasShares(lot)}
<1>. DEFINE n == Len(lots)
            f == Counts(lots)
            All(s) == {s[i] : i \in DOMAIN s}
            total(s) == SumFunction(Counts(s))
<1>1. PICK t \in [0 .. n -> Seq(V)] : Clears(t, lots) /\ ClearedLots(lots) = t[n]
  BY ClearedLotsIs
<1>2. n \in Nat /\ DOMAIN lots = 1 .. n /\ \A i \in 1 .. n : lots[i] \in V /\ lots[i].count \in Int
  BY DEF LotKind
<1>3. /\ t[0] = <<>>
      /\ \A i \in 1 .. n : t[i] = IF HasShares(lots[i]) THEN Append(t[i - 1], lots[i])
                                  ELSE t[i - 1]
  BY <1>1, <1>2 DEF Clears
<1>4. f \in [1 .. n -> Int] /\ \A i \in 1 .. n : f[i] = lots[i].count
  BY <1>2 DEF Counts
<1>. HIDE DEF n, f
<1>. DEFINE Kept(k) == /\ total(t[k]) = SumFunctionOnSet(f, 1 .. k)
                       /\ All(t[k]) = {lot \in {lots[i] : i \in 1 .. k} : HasShares(lot)}
            P == {k \in Nat : k \in 0 .. n => Kept(k)}
<1>5. 0 \in P
  <2>1. 1 .. 0 = {} /\ DOMAIN <<>> = {}
    OBVIOUS
  <2>2. Counts(<<>>) = [i \in {} |-> <<>>[i].count]
    BY <2>1 DEF Counts
  <2>3. total(<<>>) = 0
    BY <2>2, SumEmpty DEF SumFunction
  <2>4. SumFunctionOnSet(f, 1 .. 0) = 0
    BY <2>1, SumEmpty
  <2>5. All(<<>>) = {lot \in {lots[i] : i \in 1 .. 0} : HasShares(lot)}
    BY <2>1
  <2>. QED
    BY <1>3, <2>3, <2>4, <2>5
<1>6. ASSUME NEW k \in Nat, k \in P PROVE k + 1 \in P
  <2>. SUFFICES ASSUME k + 1 \in 0 .. n PROVE Kept(k + 1)
    OBVIOUS
  <2>1. k + 1 \in 1 .. n /\ k \in 0 .. n /\ (k + 1) - 1 = k /\ Kept(k)
    <3>. HIDE DEF Kept
    <3>. QED
      BY <1>2, <1>6
  <2>. DEFINE lot == lots[k + 1]
              s == t[k]
  <2>2. t[k + 1] = IF HasShares(lot) THEN Append(s, lot) ELSE s
    BY <1>3, <2>1
  <2>3. s \in Seq(V) /\ lot \in V /\ lot.count \in Int /\ f[k + 1] = lot.count
    BY <1>1, <1>2, <1>4, <2>1
  <2>4. SumFunctionOnSet(f, 1 .. (k + 1)) = lot.count + SumFunctionOnSet(f, 1 .. k)
    <3>. DEFINE S == 1 .. (k + 1)
    <3>1. IsFiniteSet(S) /\ k + 1 \in S /\ S \ {k + 1} = 1 .. k
      <4>1. IsFiniteSet(S)
        BY FS_Interval
      <4>2. k + 1 \in S /\ S \ {k + 1} = 1 .. k
        OBVIOUS
      <4>. QED
        BY <4>1, <4>2
    <3>2. \A i \in S : f[i] \in Int
      <4>1. S \subseteq 1 .. n
        BY ONLY <1>2, <2>1
      <4>. QED
        BY <1>4, <4>1
    <3>. HIDE DEF S
    <3>3. SumFunctionOnSet(f, S) = f[k + 1] + SumFunctionOnSet(f, S \ {k + 1})
      BY ONLY <3>1, <3>2, SumSplit
    <3>. QED
      BY <2>3, <3>1, <3>3 DEF S
  <2>5. {lots[i] : i \in 1 .. (k + 1)} = {lots[i] : i \in 1 .. k} \cup {lot}
    <3>1. 1 .. (k + 1) = (1 .. k) \cup {k + 1}
      OBVIOUS
    <3>. QED
      BY <3>1
  <2>6. CASE ~HasShares(lot)
    <3>1. t[k + 1] = s /\ lot.count = 0
      BY <2>2, <2>6 DEF HasShares
    <3>2. SumFunctionOnSet(f, 1 .. k) \in Int
      BY <2>1, <2>3, CountsSum
    <3>. QED
      BY <2>1, <2>4, <2>5, <2>6, <3>1, <3>2
  <2>7. CASE HasShares(lot)
    <3>. DEFINE a == Append(s, lot)
    <3>1. t[k + 1] = a
      BY <2>2, <2>7
    <3>2. /\ DOMAIN a = DOMAIN s \cup {Len(s) + 1} /\ Len(s) + 1 \notin DOMAIN s
          /\ Len(s) + 1 \in DOMAIN a
          /\ a[Len(s) + 1] = lot /\ (\A i \in DOMAIN s : a[i] = s[i])
          /\ a \in Seq(V)
      BY <2>3
    <3>3. All(a) = All(s) \cup {lot}
      <4>. HIDE DEF a
      <4>. QED
        BY <3>2
    <3>4. total(a) = lot.count + total(s)
      BY <2>3, AppendedSum
    <3>5. total(s) \in Int
      BY <2>3, CountsSum
    <3>6. total(t[k + 1]) = SumFunctionOnSet(f, 1 .. (k + 1))
      <4>1. total(s) = SumFunctionOnSet(f, 1 .. k)
        BY <2>1
      <4>. HIDE DEF a, total, f, lot, s
      <4>. QED
        BY ONLY <2>4, <3>1, <3>4, <4>1
    <3>7. All(t[k + 1]) = {l \in {lots[i] : i \in 1 .. (k + 1)} : HasShares(l)}
      <4>1. All(s) = {l \in {lots[i] : i \in 1 .. k} : HasShares(l)}
        BY <2>1
      <4>. HIDE DEF a, All, lot, s
      <4>. QED
        BY ONLY <2>5, <2>7, <3>1, <3>3, <4>1
    <3>. QED
      BY ONLY <3>6, <3>7 DEF Kept
  <2>. QED
    BY <2>6, <2>7
<1>7. Nat \subseteq P
  <2>. HIDE DEF P
  <2>. QED
    BY <1>5, <1>6, CountingUp
<1>8. Kept(n)
  BY <1>2, <1>7
<1>9. t[n] \in Seq(V)
  BY <1>2
<1>10. total(t[n]) = SumFunction(Counts(lots))
  <2>1. SumFunction(f) = SumFunctionOnSet(f, DOMAIN f) /\ DOMAIN f = 1 .. n
    BY <1>4 DEF SumFunction
  <2>2. total(t[n]) = SumFunctionOnSet(f, 1 .. n)
    BY <1>8
  <2>. HIDE DEF total
  <2>3. total(t[n]) = SumFunction(f)
    BY ONLY <2>1, <2>2
  <2>. QED
    BY ONLY <2>3 DEF f
<1>11. All(t[n]) = {lot \in {lots[i] : i \in DOMAIN lots} : HasShares(lot)}
  BY <1>2, <1>8
<1>. QED
  BY ONLY <1>1, <1>9, <1>10, <1>11

(* The clear makes no two lots one: what tells them apart still does.       *)
LEMMA ClearedLotsApart ==
  ASSUME NEW V, NEW lots \in Seq(V), NEW key,
         \A i, j \in DOMAIN lots : key[lots[i]] = key[lots[j]] => i = j
  PROVE  \A i, j \in DOMAIN ClearedLots(lots) :
           key[ClearedLots(lots)[i]] = key[ClearedLots(lots)[j]] => i = j
<1>. DEFINE n == Len(lots)
            Apart(s) == \A i, j \in DOMAIN s : key[s[i]] = key[s[j]] => i = j
<1>1. PICK t \in [0 .. n -> Seq(V)] : Clears(t, lots) /\ ClearedLots(lots) = t[n]
  BY ClearedLotsIs
<1>2. n \in Nat /\ DOMAIN lots = 1 .. n /\ \A i \in 1 .. n : lots[i] \in V
  BY DomainFinite
<1>3. /\ t[0] = <<>>
      /\ \A i \in 1 .. n : t[i] = IF HasShares(lots[i]) THEN Append(t[i - 1], lots[i])
                                  ELSE t[i - 1]
  BY <1>1, <1>2 DEF Clears
<1>4. \A i, j \in 1 .. n : key[lots[i]] = key[lots[j]] => i = j
  BY <1>2
<1>. HIDE DEF n
<1>. DEFINE Kept(k) == /\ \A a \in DOMAIN t[k] : \E i \in 1 .. k : t[k][a] = lots[i]
                       /\ Apart(t[k])
            P == {k \in Nat : k \in 0 .. n => Kept(k)}
<1>5. 0 \in P
  BY <1>3
<1>6. ASSUME NEW k \in Nat, k \in P PROVE k + 1 \in P
  <2>. SUFFICES ASSUME k + 1 \in 0 .. n PROVE Kept(k + 1)
    OBVIOUS
  <2>1. k + 1 \in 1 .. n /\ k \in 0 .. n /\ (k + 1) - 1 = k /\ Kept(k)
    <3>. HIDE DEF Kept
    <3>. QED
      BY <1>2, <1>6
  <2>. DEFINE lot == lots[k + 1]
              s == t[k]
              a == Append(s, lot)
  <2>2. t[k + 1] = IF HasShares(lot) THEN a ELSE s
    BY <1>3, <2>1
  <2>3. s \in Seq(V) /\ lot \in V
    BY <1>1, <1>2, <2>1
  <2>4. \A i \in 1 .. k : i \in 1 .. (k + 1) /\ i \in 1 .. n /\ i # k + 1
    BY <1>2, <2>1
  <2>5. CASE ~HasShares(lot)
    <3>1. t[k + 1] = s
      BY <2>2, <2>5
    <3>. QED
      BY <2>1, <2>4, <3>1
  <2>6. CASE HasShares(lot)
    <3>1. t[k + 1] = a
      BY <2>2, <2>6
    <3>2. /\ DOMAIN s = 1 .. Len(s) /\ Len(s) \in Nat
          /\ a \in Seq(V) /\ Len(a) = Len(s) + 1 /\ a[Len(s) + 1] = lot
          /\ \A i \in 1 .. Len(s) : a[i] = s[i]
      BY <2>3, DomainFinite, AppendProperties
    <3>. HIDE DEF a, lot
    <3>3. DOMAIN a = 1 .. Len(s) + 1
      BY <3>2, DomainFinite
    <3>4. \A b \in DOMAIN a :
                 \/ b \in DOMAIN s /\ a[b] = s[b]
                 \/ b = Len(s) + 1 /\ a[b] = lot
      BY <3>2, <3>3
    <3>5. \A b \in DOMAIN a : \E i \in 1 .. (k + 1) : a[b] = lots[i]
      <4>1. k + 1 \in 1 .. (k + 1)
        OBVIOUS
      <4>. QED
        BY <2>1, <2>4, <3>4, <4>1 DEF lot
    <3>6. \A b \in DOMAIN s : key[s[b]] # key[lot]
      <4>. SUFFICES ASSUME NEW b \in DOMAIN s, key[s[b]] = key[lot] PROVE FALSE
        OBVIOUS
      <4>1. PICK i \in 1 .. k : s[b] = lots[i]
        BY <2>1
      <4>. QED
        BY <1>4, <2>1, <2>4, <4>1 DEF lot
    <3>7. Apart(a)
      BY <2>1, <3>4, <3>6
    <3>. QED
      BY <3>1, <3>5, <3>7
  <2>. QED
    BY <2>5, <2>6
<1>7. Nat \subseteq P
  <2>. HIDE DEF P
  <2>. QED
    BY <1>5, <1>6, CountingUp
<1>8. Kept(n)
  BY <1>2, <1>7
<1>. QED
  BY <1>1, <1>8

-----------------------------------------------------------------------------
(* A total next to the lots agrees with them until a sale takes more from a *)
(* lot than it has: from then on some lot is below zero.                    *)

SumsUp(lots, total) ==
  \/ \E i \in DOMAIN lots : lots[i].count < 0
  \/ SumFunction(Counts(lots)) = total

LEMMA EmptySumsUp ==
  /\ SumFunction(Counts(<<>>)) = 0
  /\ \A total : SumsUp(<<>>, total) <=> total = 0
<1>1. DOMAIN Counts(<<>>) = {}
  BY DEF Counts
<1>2. SumFunction(Counts(<<>>)) = 0
  BY <1>1, SumEmpty DEF SumFunction
<1>. QED
  BY <1>2 DEF SumsUp

LEMMA AppendSumsUp ==
  ASSUME NEW V, LotKind(V), NEW lots \in Seq(V), NEW lot \in V,
         NEW total \in Int, SumsUp(lots, total)
  PROVE  SumsUp(Append(lots, lot), total + lot.count)
<1>. DEFINE a == Append(lots, lot)
<1>1. SumFunction(Counts(a)) = lot.count + SumFunction(Counts(lots))
  BY AppendedSum
<1>2. lot.count \in Int
  BY DEF LotKind
<1>3. /\ DOMAIN lots = 1 .. Len(lots) /\ Len(lots) \in Nat
      /\ a \in Seq(V) /\ Len(a) = Len(lots) + 1
      /\ \A i \in 1 .. Len(lots) : a[i] = lots[i]
  BY DomainFinite, AppendProperties
<1>4. DOMAIN a = 1 .. Len(lots) + 1
  BY <1>3, DomainFinite
<1>. HIDE DEF a
<1>5. \A i \in DOMAIN lots : i \in DOMAIN a /\ a[i] = lots[i]
  BY <1>3, <1>4
<1>6. SumsUp(a, total + lot.count)
  BY <1>1, <1>2, <1>5 DEF SumsUp
<1>. QED
  BY <1>6 DEF a

(* A sale that leaves no lot below zero ended at the first lot, which had   *)
(* as many shares as were sold.                                            *)
LEMMA SaleTakesExactly ==
  ASSUME NEW V, LotKind(V), NEW lots \in Seq(V), NEW n \in Nat, lots = <<>> => n = 0,
         \A i \in DOMAIN lots : SellLots(lots, n)[i].count >= 0
  PROVE  /\ \A i \in DOMAIN lots : lots[i].count >= 0
         /\ SumFunction(Counts(SellLots(lots, n))) = SumFunction(Counts(lots)) - n
<1>. DEFINE D == DOMAIN lots
            f == Counts(lots)
            s == SellLots(lots, n)
            g == Counts(s)
            m == Demand(lots, n)
            v == Visited(lots, n)
<1>1. D = 1 .. Len(lots) /\ Len(lots) \in Nat /\ IsFiniteSet(D)
      /\ \A i \in D : lots[i].count \in Int
  BY DomainFinite DEF LotKind
<1>2. /\ DOMAIN s = D /\ \A i \in D : s[i].count = IF i <= v THEN lots[i].count - m[i]
                                                  ELSE lots[i].count
  BY SellLotsIs
<1>3. /\ v \in 0 .. Len(lots) /\ (lots # <<>> => v >= 1 /\ m[1] = n)
      /\ \A i \in D : i < v => lots[i].count - m[i] < 0
      /\ \A i \in D : m[i] \in Int
  <2>1. n \in Int
    OBVIOUS
  <2>2. (lots # <<>> => m[1] = n) /\ \A i \in D : m[i] \in Int
    BY <2>1, DemandIs
  <2>3. /\ v \in 0 .. Len(lots) /\ (lots # <<>> => v >= 1)
        /\ \A i \in D : i < v => lots[i].count - m[i] < 0
    BY VisitedIs
  <2>. QED
    BY <2>2, <2>3
<1>4. \A i \in D : s[i].count >= 0
  OBVIOUS
<1>5. DOMAIN f = D /\ DOMAIN g = D /\ \A i \in D : f[i] = lots[i].count /\ g[i] = s[i].count
  BY <1>2 DEF Counts
<1>. HIDE DEF m, v, s, f, g
<1>6. CASE lots = <<>>
  <2>1. D = {} /\ n = 0
    BY <1>6
  <2>2. SumFunctionOnSet(f, {}) = 0 /\ SumFunctionOnSet(g, {}) = 0
    BY SumEmpty
  <2>. HIDE DEF D
  <2>3. SumFunction(f) = 0 /\ SumFunction(g) = 0
    BY <1>5, <2>1, <2>2 DEF SumFunction
  <2>4. \A i \in D : lots[i].count >= 0
    BY <2>1
  <2>. QED
    BY <2>1, <2>3, <2>4 DEF f, g, s, D
<1>7. CASE lots # <<>>
  <2>1. 1 \in D
    BY <1>1, <1>7
  <2>2. v = 1 /\ m[1] = n
    <3>1. ~(1 < v)
      <4>. SUFFICES ASSUME 1 < v PROVE FALSE
        OBVIOUS
      <4>1. lots[1].count - m[1] < 0 /\ lots[1].count \in Int /\ m[1] \in Int
        BY <1>1, <1>3, <2>1
      <4>2. 1 <= v
        BY <1>1, <1>3
      <4>3. s[1].count = lots[1].count - m[1] /\ s[1].count >= 0
        BY <1>2, <1>4, <2>1, <4>2
      <4>. QED
        BY <4>1, <4>3
    <3>. QED
      BY <1>1, <1>3, <1>7, <3>1
  <2>3. /\ g[1] = f[1] - n /\ g[1] >= 0
        /\ \A i \in D : f[i] \in Int /\ g[i] \in Int
        /\ \A i \in D \ {1} : g[i] = f[i] /\ g[i] >= 0
    <3>1. \A i \in D : f[i] \in Int /\ g[i] = IF i <= 1 THEN f[i] - m[i] ELSE f[i]
      BY <1>1, <1>2, <1>5, <2>2
    <3>2. \A i \in D \ {1} : ~(i <= 1)
      BY <1>1
    <3>3. \A i \in D : g[i] >= 0
      BY <1>4, <1>5
    <3>4. \A i \in D : m[i] \in Int
      BY <1>3
    <3>. HIDE DEF D
    <3>5. g[1] = f[1] - n
      BY <2>1, <2>2, <3>1
    <3>6. \A i \in D \ {1} : g[i] = f[i]
      BY <3>1, <3>2
    <3>7. \A i \in D : g[i] \in Int
      BY <3>1, <3>4
    <3>. QED
      BY <2>1, <3>1, <3>3, <3>5, <3>6, <3>7
  <2>. HIDE DEF D
  <2>4. SumFunctionOnSet(g, D) = SumFunctionOnSet(f, D) - f[1] + g[1]
    <3>1. IsFiniteSet(D)
      BY <1>1
    <3>2. \A i \in D \ {1} : g[i] = f[i]
      BY <2>3
    <3>3. \A i \in D : f[i] \in Int /\ g[i] \in Int
      BY <2>3
    <3>. QED
      BY ONLY <2>1, <3>1, <3>2, <3>3, SumChanged
  <2>5. SumFunctionOnSet(f, D) \in Int
    BY <1>1, <2>3, SumType
  <2>6. SumFunctionOnSet(g, D) = SumFunctionOnSet(f, D) - n
    BY <2>1, <2>3, <2>4, <2>5
  <2>7. \A i \in D : f[i] >= 0
    <3>1. f[1] \in Int /\ f[1] >= 0
      BY <2>1, <2>3
    <3>. QED
      BY <2>3, <3>1
  <2>8. \A i \in D : lots[i].count >= 0
    BY <1>5, <2>7
  <2>. QED
    BY <1>5, <2>6, <2>8 DEF SumFunction, f, g, s, D
<1>. QED
  BY <1>6, <1>7

LEMMA SaleSumsUp ==
  ASSUME NEW V, LotKind(V), NEW lots \in Seq(V), NEW n \in Nat, lots = <<>> => n = 0,
         NEW total \in Int, SumsUp(lots, total)
  PROVE  /\ ClearedLots(SellLots(SortedLots(lots), n)) \in Seq(V)
         /\ SumsUp(ClearedLots(SellLots(SortedLots(lots), n)), total - n)
<1>. DEFINE D == DOMAIN lots
            sorted == SortedLots(lots)
            sold == SellLots(sorted, n)
            left == ClearedLots(sold)
<1>1. /\ sorted \in Seq(V) /\ DOMAIN sorted = D /\ Len(sorted) = Len(lots)
      /\ Sorts(sorted, lots) /\ SumFunction(Counts(sorted)) = SumFunction(Counts(lots))
  BY SortedLotsSorts, SortedLotsSum
<1>2. PICK p \in Bijection(D, D) : \A i \in D : sorted[i] = lots[p[i]]
  BY <1>1 DEF Sorts
<1>3. \A j \in D : \E i \in D : p[i] = j
  BY DEF Bijection, Surjection
<1>4. sorted = <<>> => n = 0
  <2>1. Len(lots) \in Nat /\ (Len(lots) = 0 => lots = <<>>)
    BY DomainFinite, EmptySeq
  <2>. HIDE DEF sorted
  <2>2. sorted = <<>> => Len(sorted) = 0
    OBVIOUS
  <2>. QED
    BY <1>1, <2>1, <2>2
<1>. HIDE DEF sorted
<1>5. sold \in Seq(V) /\ DOMAIN sold = D
  BY <1>1, SellLotsIs
<1>6. /\ left \in Seq(V) /\ SumFunction(Counts(left)) = SumFunction(Counts(sold))
      /\ {left[k] : k \in DOMAIN left} = {lot \in {sold[k] : k \in DOMAIN sold} : HasShares(lot)}
  BY <1>5, ClearedLotsKeeps
<1>7. \A k \in D : sold[k].count \in Int /\ lots[k].count \in Int
  BY <1>5 DEF LotKind
<1>. HIDE DEF left
<1>8. SumsUp(left, total - n)
  <2>. SUFFICES ASSUME \A k \in DOMAIN left : ~(left[k].count < 0)
                PROVE  SumFunction(Counts(left)) = total - n
    BY DEF SumsUp
  <2>1. \A k \in D : sold[k].count >= 0
    <3>. SUFFICES ASSUME NEW k \in D, sold[k].count < 0 PROVE FALSE
      BY <1>7
    <3>1. HasShares(sold[k])
      BY <1>7 DEF HasShares
    <3>2. sold[k] \in {left[q] : q \in DOMAIN left}
      BY <1>5, <1>6, <3>1
    <3>. QED
      BY <3>2
  <2>2. /\ \A i \in D : sorted[i].count >= 0
        /\ SumFunction(Counts(sold)) = SumFunction(Counts(sorted)) - n
    BY <1>1, <1>4, <2>1, SaleTakesExactly
  <2>. HIDE DEF sold, D
  <2>3. \A j \in D : lots[j].count >= 0
    BY <1>2, <1>3, <2>2
  <2>4. SumFunction(Counts(lots)) = total
    <3>1. \A j \in D : ~(lots[j].count < 0)
      BY <1>7, <2>3
    <3>. QED
      BY <3>1 DEF SumsUp, D
  <2>. QED
    BY <1>1, <1>6, <2>2, <2>4
<1>. QED
  BY <1>6, <1>8 DEF left, sold, sorted
=============================================================================
