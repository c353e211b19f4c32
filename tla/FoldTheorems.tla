---------------------------- MODULE FoldTheorems ----------------------------
(***************************************************************************)
(* What the folds of the community modules compute, for every finite set.  *)
(* MapThenFoldSet is a recursive function on the subsets of its set that   *)
(* takes the elements in the order CHOOSE gives them; for an operator that *)
(* does not care about the order it is the fold a reader has in mind.      *)
(* Values, Base and Op are those of the sums of the other modules.         *)
(*                                                                         *)
(* The induction is over data, and is done by a least counterexample       *)
(* (WFMin), which takes a set where the induction rules take an operator.  *)
(***************************************************************************)
EXTENDS Integers, FiniteSets, Folds, FiniteSetTheorems, WellFoundedInduction, TLAPS

CONSTANTS Values, Base, Op(_, _)

\* The order of two operands does not matter.
Orderless ==
    /\ Base \in Values
    /\ \A a, b \in Values : Op(a, b) \in Values
    /\ \A a, b, c \in Values : Op(a, Op(b, c)) = Op(b, Op(a, c))

Any(s) == CHOOSE x \in s : TRUE

Fold(f, S) == MapThenFoldSet(Op, Base, LAMBDA k : f[k], LAMBDA s : CHOOSE x \in s : TRUE, S)

Step(f, g, s) == IF s = {} THEN Base ELSE Op(f[Any(s)], g[s \ {Any(s)}])

Iter(f, S) == CHOOSE g : g = [s \in SUBSET S |-> Step(f, g, s)]

-----------------------------------------------------------------------------
\* Among the subsets of a finite set that fail, one has no failing part: the least
\* counterexample that stands for induction over subsets.
LEMMA LeastSubset ==
    ASSUME NEW S, IsFiniteSet(S), NEW Bad, Bad \subseteq SUBSET S, Bad # {}
    PROVE  \E T \in Bad : \A U \in SUBSET T : U # T => U \notin Bad
<1>1. Bad \subseteq FiniteSubsetsOf(S)
  BY FS_FiniteSubsetsOfFinite
<1>2. PICK T \in Bad : \A U \in Bad : <<U, T>> \notin StrictSubsetOrdering(S)
  BY <1>1, FS_StrictSubsetOrderingWellFounded, WFMin
<1>3. \A U \in SUBSET T : U # T => U \notin Bad
  BY <1>2 DEF StrictSubsetOrdering
<1> QED BY <1>2, <1>3

\* The least counterexample among the natural numbers.
LEMMA LeastNat ==
    ASSUME NEW Bad, Bad \subseteq Nat, Bad # {}
    PROVE  \E n \in Bad : \A m \in Bad : n <= m
<1>1. PICK k \in Bad : TRUE
  OBVIOUS
<1> DEFINE Below == {0..m : m \in {n \in Bad : n <= k}}
<1>2. IsFiniteSet(0..k)
  BY FS_Interval
<1>3. Below \subseteq SUBSET (0..k) /\ 0..k \in Below
  OBVIOUS
<1>4. PICK T \in Below : \A U \in SUBSET T : U # T => U \notin Below
  <2> DEFINE I == 0..k
  <2>1. IsFiniteSet(I) /\ Below \subseteq SUBSET I /\ Below # {}
    BY <1>2, <1>3
  <2> HIDE DEF Below, I
  <2> QED BY <2>1, LeastSubset
<1>5. PICK n \in Bad : n <= k /\ T = 0..n
  OBVIOUS
<1>6. ASSUME NEW m \in Bad, m < n PROVE FALSE
  <2>1. 0..m \subseteq T /\ 0..m # T /\ 0..m \in Below
    BY <1>5, <1>6
  <2> QED BY <2>1, <1>4
<1> QED BY <1>6

\* A finite set of integers that is not empty has a greatest element.
LEMMA Greatest ==
    ASSUME NEW S, IsFiniteSet(S), S \subseteq Int, S # {}
    PROVE  \E m \in S : \A k \in S : m >= k
<1> DEFINE Bad == {T \in SUBSET S : T # {} /\ ~\E m \in T : \A k \in T : m >= k}
<1> SUFFICES ASSUME Bad # {} PROVE FALSE
  OBVIOUS
<1>1. PICK T \in Bad : \A V \in SUBSET T : V # T => V \notin Bad
  <2>1. Bad \subseteq SUBSET S
    OBVIOUS
  <2> HIDE DEF Bad
  <2> QED BY <2>1, LeastSubset
<1>2. PICK x \in T : TRUE
  BY <1>1
<1>3. T \ {x} # {}
  BY <1>1, <1>2
<1>4. PICK m \in T \ {x} : \A k \in T \ {x} : m >= k
  BY <1>1, <1>2, <1>3
<1>5. T \subseteq Int
  BY <1>1
<1>6. CASE m >= x
  <2>1. \A k \in T : m >= k
    BY <1>4, <1>6
  <2> QED BY <2>1, <1>1, <1>4
<1>7. CASE ~(m >= x)
  <2>1. \A k \in T : x >= k
    BY <1>2, <1>4, <1>5, <1>7
  <2> QED BY <2>1, <1>1, <1>2
<1> QED BY <1>6, <1>7

\* The fold of the community modules is the recursion named here.
LEMMA FoldIsIter == \A f, S : Fold(f, S) = Iter(f, S)[S]
  BY DEF Fold, MapThenFoldSet, Iter, Step, Any

\* The element that the recursion takes is one of the set.
LEMMA AnyIn == \A s : s # {} => Any(s) \in s
  BY DEF Any

\* The recursion has a solution: one for subsets of up to n elements extends to
\* those of n + 1.
LEMMA Solvable ==
    ASSUME NEW S, IsFiniteSet(S), NEW f
    PROVE  \E g : g = [s \in SUBSET S |-> Step(f, g, s)]
<1> DEFINE Upto(n) == {s \in SUBSET S : Cardinality(s) <= n}
           Solved(n) == \E g : g = [s \in Upto(n) |-> Step(f, g, s)]
<1>0. \A s \in SUBSET S : IsFiniteSet(s) /\ Cardinality(s) \in Nat /\ Cardinality(s) <= Cardinality(S)
  BY FS_Subset, FS_CardinalityType
<1>1. Solved(0)
  <2>1. \A s \in Upto(0) : s = {}
    BY <1>0, FS_EmptySet
  <2>2. [s \in Upto(0) |-> Base] = [s \in Upto(0) |-> Step(f, [t \in Upto(0) |-> Base], s)]
    BY <2>1 DEF Step
  <2> QED BY <2>2
<1>2. ASSUME NEW n \in Nat, Solved(n) PROVE Solved(n + 1)
  <2>1. PICK g : g = [s \in Upto(n) |-> Step(f, g, s)]
    BY <1>2
  <2> DEFINE h == [s \in Upto(n + 1) |-> Step(f, g, s)]
  <2>2. ASSUME NEW s \in Upto(n + 1) PROVE Step(f, g, s) = Step(f, h, s)
    <3>1. CASE s = {}
      BY <3>1 DEF Step
    <3>2. CASE s # {}
      <4>1. Any(s) \in s
        BY <3>2, AnyIn
      <4>2. s \ {Any(s)} \in Upto(n) /\ s \ {Any(s)} \in Upto(n + 1)
        <5>1. Cardinality(s \ {Any(s)}) = Cardinality(s) - 1
          BY <4>1, <1>0, FS_RemoveElement
        <5> QED BY <5>1, <1>0
      <4>3. h[s \ {Any(s)}] = g[s \ {Any(s)}]
        BY <4>2, <2>1
      <4> QED BY <3>2, <4>3 DEF Step
    <3> QED BY <3>1, <3>2
  <2>3. h = [s \in Upto(n + 1) |-> Step(f, h, s)]
    BY <2>2
  <2> HIDE DEF h
  <2> QED BY <2>3
<1> HIDE DEF Solved
<1>3. \A n \in Nat : Solved(n)
  <2> SUFFICES ASSUME {n \in Nat : ~Solved(n)} # {} PROVE FALSE
    OBVIOUS
  <2>1. PICK n \in {k \in Nat : ~Solved(k)} : \A m \in {k \in Nat : ~Solved(k)} : n <= m
    BY LeastNat
  <2>2. n # 0
    BY <1>1, <2>1
  <2>3. n - 1 \in Nat /\ Solved(n - 1)
    BY <2>1, <2>2
  <2> QED BY <2>1, <2>3, <1>2
<1>4. Solved(Cardinality(S)) /\ Upto(Cardinality(S)) = SUBSET S
  BY <1>0, <1>3, FS_CardinalityType
<1> QED BY <1>4 DEF Solved

\* The recursion is the function that its equation describes.
LEMMA IterSolves ==
    ASSUME NEW S, IsFiniteSet(S), NEW f
    PROVE  /\ Iter(f, S) = [s \in SUBSET S |-> Step(f, Iter(f, S), s)]
           /\ \A s \in SUBSET S : Iter(f, S)[s] = Step(f, Iter(f, S), s)
<1>1. Iter(f, S) = [s \in SUBSET S |-> Step(f, Iter(f, S), s)]
  BY Solvable DEF Iter
<1> QED BY <1>1

\* The set the recursion started from does not matter.
LEMMA IterOfPart ==
    ASSUME NEW S, IsFiniteSet(S), NEW f, NEW U \in SUBSET S
    PROVE  \A T \in SUBSET U : Iter(f, U)[T] = Iter(f, S)[T]
<1> DEFINE Bad == {T \in SUBSET U : Iter(f, U)[T] # Iter(f, S)[T]}
<1>0. IsFiniteSet(U)
  BY FS_Subset
<1> SUFFICES ASSUME Bad # {} PROVE FALSE
  OBVIOUS
<1>1. PICK T \in Bad : \A V \in SUBSET T : V # T => V \notin Bad
  <2>1. Bad \subseteq SUBSET U
    OBVIOUS
  <2> HIDE DEF Bad
  <2> QED BY <1>0, <2>1, LeastSubset
<1>2. /\ Iter(f, U)[T] = Step(f, Iter(f, U), T)
      /\ Iter(f, S)[T] = Step(f, Iter(f, S), T)
  <2>1. T \in SUBSET U /\ T \in SUBSET S
    BY <1>1
  <2> QED BY <2>1, <1>0, IterSolves
<1>3. T # {}
  BY <1>1, <1>2 DEF Step
<1>4. Iter(f, U)[T \ {Any(T)}] = Iter(f, S)[T \ {Any(T)}]
  BY <1>1, <1>3, AnyIn
<1> QED BY <1>1, <1>2, <1>3, <1>4 DEF Step

-----------------------------------------------------------------------------
\* The fold of nothing.
LEMMA FoldEmpty == \A f : Fold(f, {}) = Base
  BY FoldIsIter, IterSolves, FS_EmptySet DEF Step

\* A fold takes one element, the one CHOOSE gives, before the others.
LEMMA FoldChosen ==
    ASSUME NEW S, IsFiniteSet(S), S # {}, NEW f
    PROVE  Fold(f, S) = Op(f[Any(S)], Fold(f, S \ {Any(S)}))
<1>1. Iter(f, S)[S] = Op(f[Any(S)], Iter(f, S)[S \ {Any(S)}])
  BY IterSolves DEF Step
<1>2. Iter(f, S)[S \ {Any(S)}] = Iter(f, S \ {Any(S)})[S \ {Any(S)}]
  BY IterOfPart
<1> QED BY <1>1, <1>2, FoldIsIter

\* A fold of values is a value.
LEMMA FoldType ==
    ASSUME Orderless, NEW S, IsFiniteSet(S), NEW f, \A x \in S : f[x] \in Values
    PROVE  Fold(f, S) \in Values
<1> DEFINE Bad == {T \in SUBSET S : Fold(f, T) \notin Values}
<1> SUFFICES ASSUME Bad # {} PROVE FALSE
  OBVIOUS
<1>1. PICK T \in Bad : \A V \in SUBSET T : V # T => V \notin Bad
  <2>1. Bad \subseteq SUBSET S
    OBVIOUS
  <2> HIDE DEF Bad
  <2> QED BY <2>1, LeastSubset
<1>2. T # {}
  BY <1>1, FoldEmpty DEF Orderless
<1>3. Any(T) \in T /\ IsFiniteSet(T)
  BY <1>1, <1>2, AnyIn, FS_Subset
<1>4. Fold(f, T \ {Any(T)}) \in Values
  BY <1>1, <1>3
<1>5. Fold(f, T) = Op(f[Any(T)], Fold(f, T \ {Any(T)})) /\ f[Any(T)] \in Values
  BY <1>1, <1>2, <1>3, FoldChosen
<1> QED BY <1>1, <1>4, <1>5 DEF Orderless

\* Only the values on the set matter.
LEMMA FoldSame ==
    ASSUME NEW S, IsFiniteSet(S), NEW f, NEW g, \A x \in S : f[x] = g[x]
    PROVE  Fold(f, S) = Fold(g, S)
<1> DEFINE Bad == {T \in SUBSET S : Fold(f, T) # Fold(g, T)}
<1> SUFFICES ASSUME Bad # {} PROVE FALSE
  OBVIOUS
<1>1. PICK T \in Bad : \A V \in SUBSET T : V # T => V \notin Bad
  <2>1. Bad \subseteq SUBSET S
    OBVIOUS
  <2> HIDE DEF Bad
  <2> QED BY <2>1, LeastSubset
<1>2. T # {}
  BY <1>1, FoldEmpty
<1>3. Any(T) \in T /\ IsFiniteSet(T)
  BY <1>1, <1>2, AnyIn, FS_Subset
<1>4. Fold(f, T \ {Any(T)}) = Fold(g, T \ {Any(T)})
  BY <1>1, <1>3
<1>5. f[Any(T)] = g[Any(T)]
  BY <1>1, <1>3
<1> QED BY <1>1, <1>2, <1>3, <1>4, <1>5, FoldChosen

\* The fold of as many bases as one likes.
LEMMA FoldBase ==
    ASSUME Op(Base, Base) = Base, NEW S, IsFiniteSet(S), NEW f, \A x \in S : f[x] = Base
    PROVE  Fold(f, S) = Base
<1> DEFINE Bad == {T \in SUBSET S : Fold(f, T) # Base}
<1> SUFFICES ASSUME Bad # {} PROVE FALSE
  OBVIOUS
<1>1. PICK T \in Bad : \A V \in SUBSET T : V # T => V \notin Bad
  <2>1. Bad \subseteq SUBSET S
    OBVIOUS
  <2> HIDE DEF Bad
  <2> QED BY <2>1, LeastSubset
<1>2. T # {}
  BY <1>1, FoldEmpty
<1>3. Any(T) \in T /\ IsFiniteSet(T)
  BY <1>1, <1>2, AnyIn, FS_Subset
<1>4. Fold(f, T \ {Any(T)}) = Base /\ f[Any(T)] = Base
  BY <1>1, <1>3
<1> QED BY <1>1, <1>2, <1>3, <1>4, FoldChosen

\* Any element may be taken out first.
THEOREM FoldRemove ==
    ASSUME Orderless, NEW S, IsFiniteSet(S), NEW f, \A x \in S : f[x] \in Values
    PROVE  \A x \in S : Fold(f, S) = Op(f[x], Fold(f, S \ {x}))
<1> DEFINE Bad == {T \in SUBSET S : \E x \in T : Fold(f, T) # Op(f[x], Fold(f, T \ {x}))}
<1> SUFFICES ASSUME Bad # {} PROVE FALSE
  OBVIOUS
<1>1. PICK T \in Bad : \A V \in SUBSET T : V # T => V \notin Bad
  <2>1. Bad \subseteq SUBSET S
    OBVIOUS
  <2> HIDE DEF Bad
  <2> QED BY <2>1, LeastSubset
<1>2. PICK x \in T : Fold(f, T) # Op(f[x], Fold(f, T \ {x}))
  BY <1>1
<1> DEFINE c == Any(T)
<1>3. c \in T /\ IsFiniteSet(T) /\ T \subseteq S
  BY <1>1, <1>2, AnyIn, FS_Subset
<1>4. Fold(f, T) = Op(f[c], Fold(f, T \ {c}))
  BY <1>2, <1>3, FoldChosen
<1>5. c # x
  BY <1>2, <1>4
<1>6. Fold(f, T \ {c}) = Op(f[x], Fold(f, (T \ {c}) \ {x}))
  <2>1. T \ {c} \notin Bad /\ x \in T \ {c} /\ T \ {c} \subseteq S
    BY <1>1, <1>3, <1>5
  <2> QED BY <2>1
<1>7. Fold(f, T \ {x}) = Op(f[c], Fold(f, (T \ {x}) \ {c}))
  <2>1. T \ {x} \notin Bad /\ c \in T \ {x} /\ T \ {x} \subseteq S
    BY <1>1, <1>2, <1>3, <1>5
  <2> QED BY <2>1
<1>8. (T \ {c}) \ {x} = (T \ {x}) \ {c}
  OBVIOUS
<1>9. Fold(f, (T \ {x}) \ {c}) \in Values /\ f[c] \in Values /\ f[x] \in Values
  <2>1. IsFiniteSet((T \ {x}) \ {c}) /\ (T \ {x}) \ {c} \subseteq S
    BY <1>3, FS_RemoveElement
  <2> HIDE DEF c
  <2> QED BY <2>1, <1>2, <1>3, FoldType
<1>10. Op(f[c], Op(f[x], Fold(f, (T \ {x}) \ {c}))) = Op(f[x], Op(f[c], Fold(f, (T \ {x}) \ {c})))
  BY <1>9 DEF Orderless
<1> QED BY <1>2, <1>4, <1>6, <1>7, <1>8, <1>10

\* One element more: its value is added to the fold of the others.
THEOREM FoldAdd ==
    ASSUME Orderless, NEW S, IsFiniteSet(S), NEW x, x \notin S,
           NEW f, \A y \in S \cup {x} : f[y] \in Values
    PROVE  Fold(f, S \cup {x}) = Op(f[x], Fold(f, S))
<1>1. IsFiniteSet(S \cup {x}) /\ (S \cup {x}) \ {x} = S
  BY FS_AddElement
<1> QED BY <1>1, FoldRemove

\* One value changes.
THEOREM FoldChange ==
    ASSUME Orderless, NEW S, IsFiniteSet(S), NEW f, NEW g, NEW x \in S,
           \A y \in S : f[y] \in Values /\ g[y] \in Values,
           \A y \in S \ {x} : f[y] = g[y]
    PROVE  /\ Fold(f, S) = Op(f[x], Fold(f, S \ {x}))
           /\ Fold(g, S) = Op(g[x], Fold(f, S \ {x}))
           /\ Fold(f, S \ {x}) \in Values
<1>1. IsFiniteSet(S \ {x})
  BY FS_RemoveElement
<1>2. Fold(f, S \ {x}) = Fold(g, S \ {x})
  BY <1>1, FoldSame
<1>3. Fold(f, S \ {x}) \in Values
  BY <1>1, FoldType
<1> QED BY <1>2, <1>3, FoldRemove
=============================================================================
