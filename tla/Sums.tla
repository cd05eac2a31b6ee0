-------------------------------- MODULE Sums --------------------------------
(***************************************************************************)
(* Facts about sums over finite sets, as the counters of the queue need    *)
(* them.  The induction is on the least counterexample.                    *)
(***************************************************************************)
EXTENDS FiniteSetsExt, FiniteSetTheorems, WellFoundedInduction, TLAPS

SumOf(f, S) == MapThenSumSet(LAMBDA x : f[x], S)

-----------------------------------------------------------------------------
(* The recursive function behind the sum.                                  *)

Picked(s) == CHOOSE x \in s : TRUE
Added(f, g, s) == IF s = {} THEN 0 ELSE f[Picked(s)] + g[s \ {Picked(s)}]
IsFold(f, g, S) == g = [s \in SUBSET S |-> Added(f, g, s)]

LEMMA LeastNat ==
    ASSUME NEW T \in SUBSET Nat, T # {}
    PROVE  \E m \in T : \A n \in T : m <= n
  <1>1. IsWellFoundedOn(OpToRel(<, Nat), Nat)
    BY NatLessThanWellFounded
  <1>2. \E m \in T : \A n \in T : <<n, m>> \notin OpToRel(<, Nat)
    BY <1>1, WFMin
  <1>3. \A m, n \in T : <<n, m>> \notin OpToRel(<, Nat) => m <= n
    BY DEF OpToRel
  <1> QED
    BY <1>2, <1>3

\* A property of finite sets fails first at some set: it holds of all the smaller ones.
LEMMA LeastSet ==
    ASSUME NEW C, NEW U \in C, \A s \in C : IsFiniteSet(s)
    PROVE  \E s \in C : \A t \in C : Cardinality(s) <= Cardinality(t)
  <1> DEFINE T == {Cardinality(s) : s \in C}
  <1>1. T \in SUBSET Nat /\ T # {}
    BY FS_CardinalityType
  <1> HIDE DEF T
  <1>2. PICK m \in T : \A n \in T : m <= n
    BY <1>1, LeastNat
  <1> QED
    BY <1>2 DEF T

LEMMA PickedIn ==
    ASSUME NEW s, s # {}, IsFiniteSet(s)
    PROVE  /\ Picked(s) \in s /\ IsFiniteSet(s \ {Picked(s)})
           /\ Cardinality(s \ {Picked(s)}) < Cardinality(s)
  <1>1. Picked(s) \in s
    BY DEF Picked
  <1>2. IsFiniteSet(s \ {Picked(s)}) /\ Cardinality(s \ {Picked(s)}) = Cardinality(s) - 1
    BY <1>1, FS_RemoveElement
  <1>3. Cardinality(s) \in Nat
    BY FS_CardinalityType
  <1> QED
    BY <1>1, <1>2, <1>3

LEMMA FoldUnique ==
    ASSUME NEW f, NEW g, NEW h, NEW S, NEW T, IsFold(f, g, S), IsFold(f, h, T),
           NEW U, U \subseteq S, U \subseteq T, IsFiniteSet(U)
    PROVE  g[U] = h[U]
  <1> DEFINE C == {s \in SUBSET U : g[s] # h[s]}
  <1> SUFFICES ASSUME U \in C
               PROVE  FALSE
    OBVIOUS
  <1>1. \A s \in C : IsFiniteSet(s)
    BY FS_Subset
  <1>2. PICK s \in C : \A t \in C : Cardinality(s) <= Cardinality(t)
    BY <1>1, LeastSet
  <1>3. g[s] = Added(f, g, s) /\ h[s] = Added(f, h, s)
    BY <1>2 DEF IsFold
  <1>4. s # {}
    BY <1>2, <1>3 DEF Added
  <1>5. /\ s \ {Picked(s)} \in SUBSET U
        /\ Cardinality(s \ {Picked(s)}) < Cardinality(s)
        /\ Cardinality(s) \in Nat /\ Cardinality(s \ {Picked(s)}) \in Nat
    BY <1>1, <1>2, <1>4, PickedIn, FS_CardinalityType
  <1>6. g[s \ {Picked(s)}] = h[s \ {Picked(s)}]
    BY <1>2, <1>5
  <1> QED
    BY <1>2, <1>3, <1>6 DEF Added

LEMMA FoldExists ==
    ASSUME NEW f, NEW S, IsFiniteSet(S)
    PROVE  \E g : IsFold(f, g, S)
  <1> DEFINE C == {T \in SUBSET S : ~ \E g : IsFold(f, g, T)}
  <1> SUFFICES ASSUME S \in C
               PROVE  FALSE
    OBVIOUS
  <1>1. \A T \in C : IsFiniteSet(T)
    BY FS_Subset
  <1>2. PICK T \in C : \A t \in C : Cardinality(T) <= Cardinality(t)
    BY <1>1, LeastSet
  <1>3. ASSUME NEW s \in SUBSET T, s # T
        PROVE  \E g : IsFold(f, g, s)
    <2>1. Cardinality(s) \in Nat /\ Cardinality(T) \in Nat
      BY <1>1, <1>2, FS_Subset, FS_CardinalityType
    <2>2. Cardinality(s) <= Cardinality(T) /\ Cardinality(s) # Cardinality(T)
      BY <1>1, <1>2, <1>3, FS_Subset
    <2> QED
      BY <1>2, <2>1, <2>2
  <1> DEFINE part(s) == CHOOSE g : IsFold(f, g, s)
             h == [s \in SUBSET T |-> IF s = {} THEN 0
                                      ELSE f[Picked(s)] + part(s \ {Picked(s)})[s \ {Picked(s)}]]
  <1>4. ASSUME NEW s \in SUBSET T, s # T
        PROVE  IsFold(f, part(s), s) /\ IsFiniteSet(s)
    BY <1>1, <1>2, <1>3, <1>4, FS_Subset
  <1> HIDE DEF part
  <1>5. ASSUME NEW s \in SUBSET T, s # T
        PROVE  h[s] = part(s)[s]
    <2>1. part(s)[s] = Added(f, part(s), s)
      BY <1>4, <1>5 DEF IsFold
    <2>2. CASE s = {}
      BY <2>1, <2>2 DEF Added
    <2>3. CASE s # {}
      <3> DEFINE u == s \ {Picked(s)}
      <3>1. u \in SUBSET T /\ u # T /\ u \subseteq s
        BY <1>5, <2>3 DEF Picked
      <3>2. IsFold(f, part(u), u) /\ IsFold(f, part(s), s) /\ IsFiniteSet(u)
        BY <1>4, <1>5, <3>1
      <3>3. part(u)[u] = part(s)[u]
        BY <3>1, <3>2, FoldUnique
      <3> QED
        BY <2>1, <2>3, <3>3 DEF Added
    <2> QED
      BY <2>2, <2>3
  <1>6. ASSUME NEW s \in SUBSET T
        PROVE  h[s] = Added(f, h, s)
    <2>1. CASE s = {}
      BY <2>1 DEF Added
    <2>2. CASE s # {}
      <3> DEFINE u == s \ {Picked(s)}
      <3>1. u \in SUBSET T /\ u # T
        BY <2>2 DEF Picked
      <3>2. h[u] = part(u)[u]
        BY <1>5, <3>1
      <3> QED
        BY <2>2, <3>2 DEF Added
    <2> QED
      BY <2>1, <2>2
  <1>7. h = [s \in SUBSET T |-> h[s]]
    OBVIOUS
  <1> HIDE DEF h
  <1>8. IsFold(f, h, T)
    BY <1>6, <1>7 DEF IsFold
  <1> QED
    BY <1>2, <1>8

-----------------------------------------------------------------------------
(* The sum.                                                                *)

LEMMA SumIsFold ==
    ASSUME NEW f, NEW g, NEW S, IsFold(f, g, S), NEW T \in SUBSET S, IsFiniteSet(S)
    PROVE  SumOf(f, T) = g[T]
  <1> DEFINE h == CHOOSE k : IsFold(f, k, T)
  <1>1. SumOf(f, T) = h[T]
    BY DEF SumOf, IsFold, Added, Picked, MapThenSumSet, MapThenFoldSet
  <1>2. IsFiniteSet(T)
    BY FS_Subset
  <1>3. IsFold(f, h, T)
    BY <1>2, FoldExists
  <1> HIDE DEF h
  <1> QED
    BY <1>1, <1>2, <1>3, FoldUnique

LEMMA SumEmpty ==
    ASSUME NEW f
    PROVE  SumOf(f, {}) = 0
  <1>1. PICK g : IsFold(f, g, {})
    BY FoldExists, FS_EmptySet
  <1>2. SumOf(f, {}) = g[{}]
    BY <1>1, SumIsFold, FS_EmptySet
  <1> QED
    BY <1>1, <1>2 DEF IsFold, Added

LEMMA SumPicked ==
    ASSUME NEW f, NEW S, IsFiniteSet(S), S # {}
    PROVE  SumOf(f, S) = f[Picked(S)] + SumOf(f, S \ {Picked(S)})
  <1>1. PICK g : IsFold(f, g, S)
    BY FoldExists
  <1>2. SumOf(f, S) = g[S] /\ SumOf(f, S \ {Picked(S)}) = g[S \ {Picked(S)}]
    BY <1>1, SumIsFold
  <1> QED
    BY <1>1, <1>2 DEF IsFold, Added

LEMMA SumType ==
    ASSUME NEW f, NEW S, IsFiniteSet(S), \A x \in S : f[x] \in Nat
    PROVE  SumOf(f, S) \in Nat
  <1> DEFINE C == {T \in SUBSET S : SumOf(f, T) \notin Nat}
  <1> SUFFICES ASSUME S \in C
               PROVE  FALSE
    OBVIOUS
  <1>1. \A T \in C : IsFiniteSet(T)
    BY FS_Subset
  <1>2. PICK T \in C : \A t \in C : Cardinality(T) <= Cardinality(t)
    BY <1>1, LeastSet
  <1>3. T # {} /\ IsFiniteSet(T)
    BY <1>1, <1>2, SumEmpty
  <1>4. /\ Picked(T) \in T /\ IsFiniteSet(T \ {Picked(T)})
        /\ Cardinality(T \ {Picked(T)}) < Cardinality(T)
    BY <1>3, PickedIn
  <1>5. Cardinality(T) \in Nat /\ Cardinality(T \ {Picked(T)}) \in Nat
    BY <1>3, <1>4, FS_CardinalityType
  <1>6. SumOf(f, T \ {Picked(T)}) \in Nat
    BY <1>2, <1>4, <1>5
  <1>7. SumOf(f, T) = f[Picked(T)] + SumOf(f, T \ {Picked(T)})
    BY <1>3, SumPicked
  <1> QED
    BY <1>2, <1>4, <1>6, <1>7

LEMMA SumZero ==
    ASSUME NEW f, NEW S, IsFiniteSet(S), \A x \in S : f[x] = 0
    PROVE  SumOf(f, S) = 0
  <1> DEFINE C == {T \in SUBSET S : SumOf(f, T) # 0}
  <1> SUFFICES ASSUME S \in C
               PROVE  FALSE
    OBVIOUS
  <1>1. \A T \in C : IsFiniteSet(T)
    BY FS_Subset
  <1>2. PICK T \in C : \A t \in C : Cardinality(T) <= Cardinality(t)
    BY <1>1, LeastSet
  <1>3. T # {} /\ IsFiniteSet(T)
    BY <1>1, <1>2, SumEmpty
  <1>4. /\ Picked(T) \in T /\ IsFiniteSet(T \ {Picked(T)})
        /\ Cardinality(T \ {Picked(T)}) < Cardinality(T)
    BY <1>3, PickedIn
  <1>5. Cardinality(T) \in Nat /\ Cardinality(T \ {Picked(T)}) \in Nat
    BY <1>3, <1>4, FS_CardinalityType
  <1>6. SumOf(f, T \ {Picked(T)}) = 0
    BY <1>2, <1>4, <1>5
  <1>7. SumOf(f, T) = f[Picked(T)] + SumOf(f, T \ {Picked(T)})
    BY <1>3, SumPicked
  <1> QED
    BY <1>2, <1>4, <1>6, <1>7

\* Any element may be taken out first.
LEMMA SumWithout ==
    ASSUME NEW f, NEW S, IsFiniteSet(S), \A x \in S : f[x] \in Nat, NEW y \in S
    PROVE  SumOf(f, S) = f[y] + SumOf(f, S \ {y})
  <1> DEFINE C == {T \in SUBSET S : \E x \in T : SumOf(f, T) # f[x] + SumOf(f, T \ {x})}
  <1> SUFFICES ASSUME S \in C
               PROVE  FALSE
    OBVIOUS
  <1>1. \A T \in C : IsFiniteSet(T)
    BY FS_Subset
  <1>2. PICK T \in C : \A t \in C : Cardinality(T) <= Cardinality(t)
    BY <1>1, LeastSet
  <1>3. PICK x \in T : SumOf(f, T) # f[x] + SumOf(f, T \ {x})
    BY <1>2
  <1> DEFINE p == Picked(T)
             T1 == T \ {p}
             T2 == T \ {x}
             T3 == T1 \ {x}
  <1>4. IsFiniteSet(T) /\ T \in SUBSET S
    BY <1>1, <1>2
  <1>5. /\ p \in T /\ SumOf(f, T) = f[p] + SumOf(f, T1)
    BY <1>3, <1>4, PickedIn, SumPicked
  <1> HIDE DEF p
  <1>6. x # p
    BY <1>3, <1>5
  <1>7. /\ IsFiniteSet(T1) /\ Cardinality(T1) = Cardinality(T) - 1
        /\ IsFiniteSet(T2) /\ Cardinality(T2) = Cardinality(T) - 1
        /\ Cardinality(T) \in Nat
    BY <1>3, <1>4, <1>5, FS_RemoveElement, FS_CardinalityType
  <1>8. T1 \notin C /\ T2 \notin C
    <2>1. \A t \in C : Cardinality(T) <= Cardinality(t)
      BY <1>2
    <2> HIDE DEF C, T1, T2
    <2> QED
      BY <1>7, <2>1
  <1>9. SumOf(f, T1) = f[x] + SumOf(f, T3)
    BY <1>3, <1>4, <1>6, <1>8
  <1>10. SumOf(f, T2) = f[p] + SumOf(f, T2 \ {p})
    BY <1>4, <1>5, <1>6, <1>8
  <1>11. T2 \ {p} = T3
    OBVIOUS
  <1>12. SumOf(f, T3) \in Nat /\ f[x] \in Nat /\ f[p] \in Nat
    BY <1>3, <1>4, <1>5, FS_Subset, SumType
  <1>13. SumOf(f, T) # f[x] + SumOf(f, T2)
    BY <1>3
  <1> HIDE DEF T1, T2, T3
  <1>14. SumOf(f, T2) = f[p] + SumOf(f, T3)
    BY <1>10, <1>11
  <1> QED
    BY <1>5, <1>9, <1>12, <1>13, <1>14

\* More terms, larger sum; and the sums are equal only when the further terms are zero.
LEMMA SumSubset ==
    ASSUME NEW f, NEW S, IsFiniteSet(S), \A x \in S : f[x] \in Nat, NEW R \in SUBSET S
    PROVE  /\ SumOf(f, R) <= SumOf(f, S)
           /\ SumOf(f, R) = SumOf(f, S) => \A x \in S \ R : f[x] = 0
  <1> DEFINE Fine(T) == /\ SumOf(f, R) <= SumOf(f, T)
                        /\ SumOf(f, R) = SumOf(f, T) => \A x \in T \ R : f[x] = 0
             C == {T \in SUBSET S : R \subseteq T /\ ~ Fine(T)}
  <1> SUFFICES ASSUME S \in C
               PROVE  FALSE
    OBVIOUS
  <1>1. \A T \in C : IsFiniteSet(T)
    BY FS_Subset
  <1>2. PICK T \in C : \A t \in C : Cardinality(T) <= Cardinality(t)
    BY <1>1, LeastSet
  <1>3. IsFiniteSet(T) /\ T \in SUBSET S /\ ~ Fine(T) /\ R \subseteq T
    BY <1>1, <1>2
  <1>4. \A U \in SUBSET S : SumOf(f, U) \in Nat
    BY FS_Subset, SumType
  <1>5. T # R
    BY <1>3, <1>4
  <1>6. PICK x \in T : x \notin R
    BY <1>3, <1>5
  <1> DEFINE T1 == T \ {x}
  <1>7. Cardinality(T) \in Nat /\ Cardinality(T1) = Cardinality(T) - 1
    BY <1>3, <1>6, FS_RemoveElement, FS_CardinalityType
  <1>8. T1 \notin C
    <2> HIDE DEF C, T1
    <2> QED
      BY <1>2, <1>7
  <1>9. Fine(T1)
    BY <1>3, <1>6, <1>8
  <1>10. SumOf(f, T) = f[x] + SumOf(f, T1)
    BY <1>3, <1>6, SumWithout
  <1>11. SumOf(f, T1) \in Nat /\ f[x] \in Nat /\ SumOf(f, R) \in Nat
    BY <1>3, <1>4, <1>6
  <1>12. \A y \in T \ R : y = x \/ y \in T1 \ R
    OBVIOUS
  <1> HIDE DEF T1
  <1> QED
    BY <1>3, <1>9, <1>10, <1>11, <1>12
=============================================================================
