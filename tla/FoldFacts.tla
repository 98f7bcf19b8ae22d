------------------------------- MODULE FoldFacts -------------------------------
(***************************************************************************)
(* Folds of an operator over a finite set whose elements are taken in some *)
(* order, of which the folds of the community modules are instances: a     *)
(* module that folds takes an INSTANCE of this one, with the operator that *)
(* is folded and the order in which elements are taken.                    *)
(***************************************************************************)
EXTENDS Integers, Sequences, FiniteSets, FiniteSetTheorems, WellFoundedInduction, TLAPS

CONSTANTS Op(_, _),  \* what is done to the result so far and the next value
          Latest(_)    \* the element of a set that is folded last

\* The value of x is h[x].
FoldOver(base, h, S) ==
    LET iter[t \in SUBSET S] ==
            IF t = {} THEN base ELSE Op(iter[t \ {Latest(t)}], h[Latest(t)])
    IN  iter

\* The fold over a subset, on the way to that over the set.
Upto(base, h, S, t) == FoldOver(base, h, S)[t]

Fold(base, h, S) == Upto(base, h, S, S)

IsIter(g, base, h, S) ==
    g = [t \in SUBSET S |-> IF t = {} THEN base ELSE Op(g[t \ {Latest(t)}], h[Latest(t)])]

Ordered(S) == IsFiniteSet(S) /\ \A t \in SUBSET S : t # {} => Latest(t) \in t

-----------------------------------------------------------------------------

\* What holds of 0 and of the successor of each number it holds of holds of all.
LEMMA AllNumbers ==
    ASSUME NEW T, T \subseteq Nat, 0 \in T, \A n \in T : n + 1 \in T
    PROVE  T = Nat
<1> DEFINE R == OpToRel(<, Nat)
           U == Nat \ T
<1>1. IsWellFoundedOn(R, Nat)
  BY NatLessThanWellFounded
<1> SUFFICES ASSUME U # {} PROVE FALSE
  OBVIOUS
<1>2. PICK x \in U : \A y \in U : ~ (<<y, x>> \in R)
  <2> HIDE DEF R
  <2> QED BY <1>1, WFMin
<1>3. x - 1 \in Nat /\ x - 1 < x /\ x = (x - 1) + 1
  <2>1. x \in Nat /\ x # 0
    BY <1>2
  <2> QED BY <2>1
<1>4. <<x - 1, x>> \in R
  BY <1>2, <1>3, Zenon DEF OpToRel
<1>5. x - 1 \in T
  BY <1>2, <1>3, <1>4
<1> QED BY <1>2, <1>3, <1>5

\* What holds of the empty set, and of a set and an element more of a finite set, holds
\* of the finite set.
THEOREM SetInduction ==
    ASSUME NEW S, IsFiniteSet(S), NEW P, {} \in P,
           \A t \in P : \A x \in S : t \subseteq S /\ x \notin t => t \union {x} \in P
    PROVE  S \in P
<1> DEFINE T == {k \in Nat : \A t \in SUBSET S : Cardinality(t) = k => t \in P}
<1>1. ASSUME NEW t \in SUBSET S
      PROVE  IsFiniteSet(t) /\ Cardinality(t) \in Nat
  BY FS_Subset, FS_CardinalityType
<1>2. 0 \in T
  <2>1. ASSUME NEW t \in SUBSET S, Cardinality(t) = 0 PROVE t \in P
    <3>1. t = {}
      BY <1>1, <2>1, FS_EmptySet
    <3> QED BY <3>1
  <2> QED BY <2>1
<1>3. ASSUME NEW k \in T PROVE k + 1 \in T
  <2>1. ASSUME NEW t \in SUBSET S, Cardinality(t) = k + 1 PROVE t \in P
    <3>1. k \in Nat /\ t # {}
      <4>1. k \in Nat /\ k + 1 # 0
        OBVIOUS
      <4> QED BY <4>1, <2>1, FS_EmptySet
    <3>2. PICK x \in t : TRUE
      BY <3>1
    <3> DEFINE u == t \ {x}
    <3>3. u \in SUBSET S /\ x \in S /\ x \notin u /\ u \union {x} = t
      OBVIOUS
    <3>4. Cardinality(u) = Cardinality(t) - 1
      BY <1>1, FS_RemoveElement
    <3>5. Cardinality(u) = k
      <4> HIDE DEF u, T
      <4> QED BY <2>1, <3>1, <3>4
    <3>6. u \in P
      <4> HIDE DEF u
      <4> QED BY <3>3, <3>5
    <3> HIDE DEF u, T
    <3> QED BY <3>3, <3>6
  <2> QED BY <2>1
<1>4. T = Nat
  <2>1. T \subseteq Nat
    OBVIOUS
  <2> HIDE DEF T
  <2> QED BY <2>1, <1>2, <1>3, AllNumbers
<1>5. Cardinality(S) \in Nat
  BY FS_CardinalityType
<1> QED BY <1>4, <1>5

LEMMA Smaller ==
    ASSUME NEW S, Ordered(S), NEW t \in SUBSET S, t # {}
    PROVE  /\ IsFiniteSet(t) /\ Cardinality(t) \in Nat /\ Ordered(t)
           /\ Latest(t) \in t /\ t \ {Latest(t)} \in SUBSET S
           /\ Cardinality(t \ {Latest(t)}) = Cardinality(t) - 1
           /\ Cardinality(t) > 0
<1>1. IsFiniteSet(t) /\ Ordered(t) /\ Latest(t) \in t
  BY FS_Subset DEF Ordered
<1>2. Cardinality(t) \in Nat /\ Cardinality(t) # 0
  BY <1>1, FS_EmptySet, FS_CardinalityType
<1>3. Cardinality(t \ {Latest(t)}) = Cardinality(t) - 1
  BY <1>1, FS_RemoveElement
<1> QED BY <1>1, <1>2, <1>3

LEMMA IterExists ==
    ASSUME NEW base, NEW h, NEW S, Ordered(S)
    PROVE  \E g : IsIter(g, base, h, S)
<1> DEFINE Small(k) == {t \in SUBSET S : Cardinality(t) <= k}
           Step(g, t) == IF t = {} THEN base ELSE Op(g[t \ {Latest(t)}], h[Latest(t)])
           T == {k \in Nat : \E g : g = [t \in Small(k) |-> Step(g, t)]}
<1>1. 0 \in T
  <2> DEFINE g == [t \in Small(0) |-> base]
  <2>1. ASSUME NEW t \in Small(0) PROVE t = {}
    <3> SUFFICES ASSUME t # {} PROVE FALSE
      OBVIOUS
    <3>1. Cardinality(t) > 0 /\ Cardinality(t) \in Nat
      BY Smaller
    <3> QED BY <3>1
  <2>2. g = [t \in Small(0) |-> Step(g, t)]
    BY <2>1
  <2> QED BY <2>2
<1>2. ASSUME NEW k \in T PROVE k + 1 \in T
  <2>1. PICK g : g = [t \in Small(k) |-> Step(g, t)]
    OBVIOUS
  <2> DEFINE f == [t \in Small(k + 1) |-> Step(g, t)]
  <2>2. ASSUME NEW t \in Small(k + 1), t # {}
        PROVE  f[t \ {Latest(t)}] = g[t \ {Latest(t)}]
    <3> DEFINE u == t \ {Latest(t)}
    <3>1. u \in Small(k) /\ u \in Small(k + 1)
      <4>1. /\ Cardinality(t) \in Nat /\ u \in SUBSET S
            /\ Cardinality(u) = Cardinality(t) - 1
        BY <2>2, Smaller
      <4>2. Cardinality(t) <= k + 1 /\ k \in Nat
        OBVIOUS
      <4> HIDE DEF u
      <4> QED BY <4>1, <4>2
    <3>2. g[u] = Step(g, u)
      <4> HIDE DEF u, Step, Small
      <4> QED BY <3>1, <2>1
    <3>3. f[u] = Step(g, u)
      <4> HIDE DEF u, Step, Small
      <4> QED BY <3>1
    <3> QED BY <3>2, <3>3
  <2>3. ASSUME NEW t \in Small(k + 1) PROVE Step(g, t) = Step(f, t)
    BY <2>2
  <2>4. f = [t \in Small(k + 1) |-> Step(f, t)]
    <3> HIDE DEF Step, Small
    <3> QED BY <2>3
  <2>5. k + 1 \in Nat
    OBVIOUS
  <2> HIDE DEF f, Small, Step
  <2> QED BY <2>4, <2>5
<1>3. T = Nat
  <2>1. T \subseteq Nat
    OBVIOUS
  <2> HIDE DEF T
  <2> QED BY <2>1, <1>1, <1>2, AllNumbers
<1>4. Cardinality(S) \in T
  BY <1>3, FS_CardinalityType DEF Ordered
<1>5. Small(Cardinality(S)) = SUBSET S
  BY FS_Subset, FS_CardinalityType DEF Ordered
<1>6. PICK g : g = [t \in SUBSET S |-> Step(g, t)]
  BY <1>4, <1>5
<1>7. IsIter(g, base, h, S)
  BY <1>6, Zenon DEF IsIter
<1> QED BY <1>7

LEMMA IterUnfolds ==
    ASSUME NEW base, NEW h, NEW S, Ordered(S), NEW t \in SUBSET S
    PROVE  /\ t = {} => Upto(base, h, S, t) = base
           /\ t # {} => Upto(base, h, S, t) =
                            Op(Upto(base, h, S, t \ {Latest(t)}), h[Latest(t)])
<1> DEFINE iter == CHOOSE g : IsIter(g, base, h, S)
<1>1. IsIter(iter, base, h, S)
  BY IterExists, Zenon
<1>2. iter = FoldOver(base, h, S)
  BY Zenon DEF FoldOver, IsIter
<1> HIDE DEF iter
<1> QED BY <1>1, <1>2 DEF IsIter, Upto

Agree(g, h, U) == \A x \in U : g[x] = h[x]

\* Values outside of a set, and elements of a larger one, do not matter.
LEMMA FoldIsLocal ==
    ASSUME NEW base, NEW h, NEW g, NEW S, NEW U, Ordered(S), U \subseteq S, Agree(g, h, U)
    PROVE  Fold(base, g, U) = Upto(base, h, S, U)
<1> DEFINE F(t) == Upto(base, g, U, t)
           H(t) == Upto(base, h, S, t)
           T == {k \in Nat : \A t \in SUBSET U : Cardinality(t) = k => F(t) = H(t)}
<1>0. Ordered(U)
  BY FS_Subset DEF Ordered
<1>1. ASSUME NEW t \in SUBSET U
      PROVE  /\ t = {} => F(t) = base /\ H(t) = base
             /\ t # {} => /\ F(t) = Op(F(t \ {Latest(t)}), h[Latest(t)])
                          /\ H(t) = Op(H(t \ {Latest(t)}), h[Latest(t)])
  <2>1. /\ t = {} => F(t) = base
        /\ t # {} => F(t) = Op(F(t \ {Latest(t)}), g[Latest(t)])
    BY <1>0, IterUnfolds
  <2>2. t \in SUBSET S
    OBVIOUS
  <2>3. /\ t = {} => H(t) = base
        /\ t # {} => H(t) = Op(H(t \ {Latest(t)}), h[Latest(t)])
    BY <2>2, IterUnfolds
  <2>4. t # {} => g[Latest(t)] = h[Latest(t)]
    BY <1>0 DEF Ordered, Agree
  <2> HIDE DEF F, H
  <2> QED BY <2>1, <2>3, <2>4
<1> HIDE DEF F, H
<1>2. 0 \in T
  <2>1. ASSUME NEW t \in SUBSET U, Cardinality(t) = 0 PROVE F(t) = H(t)
    <3>1. t = {}
      <4> SUFFICES ASSUME t # {} PROVE FALSE
        OBVIOUS
      <4>1. Cardinality(t) > 0
        BY <1>0, Smaller
      <4> QED BY <2>1, <4>1
    <3> QED BY <3>1, <1>1
  <2> QED BY <2>1
<1>3. ASSUME NEW k \in T PROVE k + 1 \in T
  <2>1. ASSUME NEW t \in SUBSET U, Cardinality(t) = k + 1 PROVE F(t) = H(t)
    <3>1. t # {}
      BY <2>1, FS_EmptySet
    <3>2. t \ {Latest(t)} \in SUBSET U /\ Cardinality(t \ {Latest(t)}) = k
      <4> HIDE DEF T
      <4>1. k \in Nat
        BY DEF T
      <4>2. /\ t \ {Latest(t)} \in SUBSET U
            /\ Cardinality(t \ {Latest(t)}) = Cardinality(t) - 1
        BY <1>0, <3>1, Smaller
      <4> QED BY <2>1, <4>1, <4>2
    <3>3. F(t \ {Latest(t)}) = H(t \ {Latest(t)})
      BY <3>2
    <3> QED BY <3>1, <3>3, <1>1
  <2> QED BY <2>1
<1>4. T = Nat
  <2>1. T \subseteq Nat
    OBVIOUS
  <2> HIDE DEF T
  <2> QED BY <2>1, <1>2, <1>3, AllNumbers
<1>5. Cardinality(U) \in Nat
  BY <1>0, FS_CardinalityType DEF Ordered
<1>6. F(U) = H(U)
  BY <1>4, <1>5
<1> QED BY <1>6 DEF Fold, F, H

\* A fold is its operator on the fold of all but the last and the last.
THEOREM FoldUnfolds ==
    ASSUME NEW base, NEW h, NEW S, Ordered(S)
    PROVE  /\ S = {} => Fold(base, h, S) = base
           /\ S # {} => Fold(base, h, S) = Op(Fold(base, h, S \ {Latest(S)}), h[Latest(S)])
<1>0. Ordered(S)
  BY DEF Ordered
<1>1. S = {} => Fold(base, h, S) = base
  BY <1>0, IterUnfolds DEF Fold
<1>2. ASSUME S # {} PROVE Fold(base, h, S) = Op(Fold(base, h, S \ {Latest(S)}), h[Latest(S)])
  <2>1. Fold(base, h, S \ {Latest(S)}) = Upto(base, h, S, S \ {Latest(S)})
    <3> DEFINE U == S \ {Latest(S)}
    <3>1. U \subseteq S /\ Agree(h, h, U)
      BY DEF Agree
    <3> HIDE DEF U
    <3>2. Fold(base, h, U) = Upto(base, h, S, U)
      BY <1>0, <3>1, FoldIsLocal
    <3> QED BY <3>2 DEF U
  <2> QED BY <1>0, <1>2, <2>1, IterUnfolds DEF Fold
<1> QED BY <1>1, <1>2

Closed(R, h, S) == \A r \in R, x \in S : Op(r, h[x]) \in R

\* What the operator preserves holds of the fold.
THEOREM FoldType ==
    ASSUME NEW R, NEW base \in R, NEW h, NEW S, Ordered(S),
           Closed(R, h, S)
    PROVE  Fold(base, h, S) \in R
<1> DEFINE F(t) == Upto(base, h, S, t)
           T == {k \in Nat : \A t \in SUBSET S : Cardinality(t) = k => F(t) \in R}
<1>0. Ordered(S)
  BY DEF Ordered
<1>1. ASSUME NEW t \in SUBSET S
      PROVE  /\ t = {} => F(t) = base
             /\ t # {} => F(t) = Op(F(t \ {Latest(t)}), h[Latest(t)])
  BY <1>0, IterUnfolds
<1> HIDE DEF F
<1>2. 0 \in T
  <2>1. ASSUME NEW t \in SUBSET S, Cardinality(t) = 0 PROVE F(t) \in R
    <3>1. t = {}
      <4> SUFFICES ASSUME t # {} PROVE FALSE
        OBVIOUS
      <4>1. Cardinality(t) > 0
        BY Smaller
      <4> QED BY <2>1, <4>1
    <3> QED BY <3>1, <1>1
  <2> QED BY <2>1
<1>3. ASSUME NEW k \in T PROVE k + 1 \in T
  <2>1. ASSUME NEW t \in SUBSET S, Cardinality(t) = k + 1 PROVE F(t) \in R
    <3>1. t # {}
      <4>1. k + 1 # 0
        OBVIOUS
      <4> QED BY <4>1, <2>1, FS_EmptySet
    <3>2. /\ t \ {Latest(t)} \in SUBSET S /\ Cardinality(t \ {Latest(t)}) = k
          /\ Latest(t) \in S
      <4> HIDE DEF T
      <4>1. k \in Nat
        BY DEF T
      <4>2. /\ t \ {Latest(t)} \in SUBSET S /\ Latest(t) \in t
            /\ Cardinality(t \ {Latest(t)}) = Cardinality(t) - 1
        BY <1>0, <3>1, Smaller
      <4> QED BY <2>1, <4>1, <4>2
    <3>3. F(t \ {Latest(t)}) \in R
      BY <3>2
    <3> QED BY <3>1, <3>2, <3>3, <1>1 DEF Closed
  <2> QED BY <2>1
<1>4. T = Nat
  <2>1. T \subseteq Nat
    OBVIOUS
  <2> HIDE DEF T
  <2> QED BY <2>1, <1>2, <1>3, AllNumbers
<1>5. Cardinality(S) \in Nat
  BY FS_CardinalityType DEF Ordered
<1> QED BY <1>4, <1>5 DEF Fold, F

\* What holds of nothing and the base, and goes with an element from a part of the set
\* and its result to the larger part and its result, holds of the set and the fold.
Relates(R, h, S) ==
    \A t \in SUBSET S, x \in S : \A r :
        x \notin t /\ <<t, r>> \in R => <<t \union {x}, Op(r, h[x])>> \in R

THEOREM FoldRelates ==
    ASSUME NEW base, NEW h, NEW S, Ordered(S), NEW R, <<{}, base>> \in R, Relates(R, h, S)
    PROVE  <<S, Fold(base, h, S)>> \in R
<1> DEFINE F(t) == Upto(base, h, S, t)
           T == {k \in Nat : \A t \in SUBSET S : Cardinality(t) = k => <<t, F(t)>> \in R}
<1>1. ASSUME NEW t \in SUBSET S
      PROVE  /\ t = {} => F(t) = base
             /\ t # {} => F(t) = Op(F(t \ {Latest(t)}), h[Latest(t)])
  BY IterUnfolds
<1> HIDE DEF F
<1>2. 0 \in T
  <2>1. ASSUME NEW t \in SUBSET S, Cardinality(t) = 0 PROVE <<t, F(t)>> \in R
    <3>1. t = {}
      <4> SUFFICES ASSUME t # {} PROVE FALSE
        OBVIOUS
      <4>1. Cardinality(t) > 0
        BY Smaller
      <4> QED BY <2>1, <4>1
    <3>2. F(t) = base
      BY <3>1, <1>1
    <3> QED BY <3>1, <3>2
  <2> QED BY <2>1
<1>3. ASSUME NEW k \in T PROVE k + 1 \in T
  <2>1. ASSUME NEW t \in SUBSET S, Cardinality(t) = k + 1 PROVE <<t, F(t)>> \in R
    <3> DEFINE x == Latest(t)
               u == t \ {x}
    <3>1. t # {}
      <4>1. k + 1 # 0
        OBVIOUS
      <4> QED BY <4>1, <2>1, FS_EmptySet
    <3>2. u \in SUBSET S /\ Cardinality(u) = k /\ x \in S /\ x \notin u /\ u \union {x} = t
      <4> HIDE DEF T
      <4>1. k \in Nat
        BY DEF T
      <4>2. /\ t \ {Latest(t)} \in SUBSET S /\ Latest(t) \in t
            /\ Cardinality(t \ {Latest(t)}) = Cardinality(t) - 1
        BY <3>1, Smaller
      <4> QED BY <2>1, <4>1, <4>2
    <3>3. F(t) = Op(F(u), h[x])
      BY <3>1, <1>1
    <3>4. <<u, F(u)>> \in R
      <4> HIDE DEF u
      <4> QED BY <3>2
    <3> HIDE DEF x, u
    <3>5. <<u \union {x}, Op(F(u), h[x])>> \in R
      BY <3>2, <3>4 DEF Relates
    <3> QED BY <3>2, <3>3, <3>5
  <2> QED BY <2>1
<1>4. T = Nat
  <2>1. T \subseteq Nat
    OBVIOUS
  <2> HIDE DEF T
  <2> QED BY <2>1, <1>2, <1>3, AllNumbers
<1>5. Cardinality(S) \in Nat
  BY FS_CardinalityType DEF Ordered
<1> QED BY <1>4, <1>5 DEF Fold, F

\* If the order of two values does not matter, any element may be taken last.
Commutes(R, h, S) ==
    \A r \in R : \A x, y \in S : Op(Op(r, h[x]), h[y]) = Op(Op(r, h[y]), h[x])

THEOREM FoldCommutes ==
    ASSUME NEW R, NEW base \in R, NEW h, NEW S, Ordered(S), Closed(R, h, S), Commutes(R, h, S),
           NEW z \in S
    PROVE  Fold(base, h, S) = Op(Fold(base, h, S \ {z}), h[z])
<1> DEFINE F(t) == Upto(base, h, S, t)
           T == {k \in Nat : \A t \in SUBSET S : Cardinality(t) = k =>
                                \A x \in t : F(t) = Op(F(t \ {x}), h[x])}
<1>1. ASSUME NEW t \in SUBSET S
      PROVE  t # {} => F(t) = Op(F(t \ {Latest(t)}), h[Latest(t)])
  BY IterUnfolds
<1>2. ASSUME NEW t \in SUBSET S
      PROVE  F(t) \in R
  <2>1. Ordered(t) /\ Closed(R, h, t)
    BY FS_Subset DEF Ordered, Closed
  <2>2. Fold(base, h, t) \in R
    BY <2>1, FoldType
  <2>3. Agree(h, h, t)
    BY DEF Agree
  <2>4. Fold(base, h, t) = F(t)
    BY <2>3, FoldIsLocal
  <2> QED BY <2>2, <2>4
<1> HIDE DEF F
<1>3. 0 \in T
  <2>1. ASSUME NEW t \in SUBSET S, Cardinality(t) = 0, NEW x \in t PROVE FALSE
    <3>1. Cardinality(t) > 0
      BY Smaller
    <3> QED BY <2>1, <3>1
  <2> QED BY <2>1
<1>4. ASSUME NEW k \in T PROVE k + 1 \in T
  <2>1. ASSUME NEW t \in SUBSET S, Cardinality(t) = k + 1, NEW x \in t
        PROVE  F(t) = Op(F(t \ {x}), h[x])
    <3> DEFINE y == Latest(t)
    <3>1. /\ k \in Nat /\ y \in t /\ IsFiniteSet(t)
          /\ F(t) = Op(F(t \ {y}), h[y])
      <4>1. t # {} /\ k \in Nat
        OBVIOUS
      <4> QED BY <4>1, <1>1, Smaller
    <3> HIDE DEF y, T
    <3>2. CASE x = y
      BY <3>1, <3>2
    <3>3. CASE x # y
      <4>1. /\ t \ {x} \in SUBSET S /\ t \ {y} \in SUBSET S
            /\ Cardinality(t \ {x}) = k /\ Cardinality(t \ {y}) = k
        <5>1. Cardinality(t \ {x}) = Cardinality(t) - 1
          BY <3>1, FS_RemoveElement
        <5>2. Cardinality(t \ {y}) = Cardinality(t) - 1
          BY <3>1, FS_RemoveElement
        <5> QED BY <2>1, <3>1, <5>1, <5>2
      <4>2. y \in t \ {x} /\ x \in t \ {y} /\ (t \ {x}) \ {y} = (t \ {y}) \ {x}
        BY <3>1, <3>3
      <4> DEFINE u == (t \ {y}) \ {x}
                 a == t \ {x}
                 b == t \ {y}
      <4> HIDE DEF a, b, u
      <4>3. \A s \in SUBSET S : Cardinality(s) = k => \A e \in s : F(s) = Op(F(s \ {e}), h[e])
        BY DEF T
      <4>4. F(a) = Op(F(u), h[y])
        BY <4>1, <4>2, <4>3 DEF a, u
      <4>5. F(b) = Op(F(u), h[x])
        BY <4>1, <4>2, <4>3 DEF b, u
      <4>6. F(u) \in R
        <5>1. u \in SUBSET S
          BY DEF u
        <5> QED BY <5>1, <1>2
      <4>7. Op(Op(F(u), h[x]), h[y]) = Op(Op(F(u), h[y]), h[x])
        BY <3>1, <4>6 DEF Commutes
      <4>8. F(t) = Op(F(b), h[y])
        BY <3>1 DEF b
      <4> QED BY <4>4, <4>5, <4>7, <4>8 DEF a
    <3> QED BY <3>2, <3>3
  <2> QED BY <2>1
<1>5. T = Nat
  <2>1. T \subseteq Nat
    OBVIOUS
  <2> HIDE DEF T
  <2> QED BY <2>1, <1>3, <1>4, AllNumbers
<1>6. Cardinality(S) \in Nat
  BY FS_CardinalityType DEF Ordered
<1>7. F(S) = Op(F(S \ {z}), h[z])
  BY <1>5, <1>6
<1>8. Fold(base, h, S \ {z}) = F(S \ {z})
  <2> DEFINE U == S \ {z}
  <2>1. U \subseteq S /\ Agree(h, h, U)
    BY DEF Agree
  <2> HIDE DEF U
  <2>2. Fold(base, h, U) = Upto(base, h, S, U)
    BY <2>1, FoldIsLocal
  <2> QED BY <2>2 DEF U, F
<1> QED BY <1>7, <1>8 DEF Fold, F

\* What holds of the empty sequence, and of a sequence and an element more, holds of all.
THEOREM SequenceInduction ==
    ASSUME NEW X, NEW P, <<>> \in P,
           \A s \in Seq(X) : \A x \in X : s \in P => Append(s, x) \in P
    PROVE  Seq(X) \subseteq P
<1> DEFINE T == {k \in Nat : \A s \in Seq(X) : Len(s) = k => s \in P}
<1>1. 0 \in T
  <2>1. ASSUME NEW s \in Seq(X), Len(s) = 0 PROVE s \in P
    <3>1. s = <<>>
      BY <2>1
    <3> QED BY <3>1
  <2> QED BY <2>1
<1>2. ASSUME NEW k \in T PROVE k + 1 \in T
  <2>1. ASSUME NEW s \in Seq(X), Len(s) = k + 1 PROVE s \in P
    <3> DEFINE r == SubSeq(s, 1, k)
               x == s[k + 1]
    <3>1. k \in Nat
      OBVIOUS
    <3>2. r \in Seq(X) /\ Len(r) = k /\ x \in X
      BY <2>1, <3>1
    <3>3. s = Append(r, x)
      BY <2>1, <3>1
    <3>4. r \in P
      <4> HIDE DEF r
      <4> QED BY <3>2
    <3> HIDE DEF r, x
    <3> QED BY <3>2, <3>3, <3>4
  <2> QED BY <2>1
<1>3. T = Nat
  <2>1. T \subseteq Nat
    OBVIOUS
  <2> HIDE DEF T
  <2> QED BY <2>1, <1>1, <1>2, AllNumbers
<1>4. \A s \in Seq(X) : Len(s) \in Nat
  OBVIOUS
<1> QED BY <1>3, <1>4

-----------------------------------------------------------------------------
(* Folds along a sequence, whose last element is folded last.              *)

LEMMA HasGreatest ==
    ASSUME NEW n \in Nat, NEW t \in SUBSET (1..n), t # {}
    PROVE  \E x \in t : \A y \in t : y <= x
<1> DEFINE T == {k \in Nat : \A u \in SUBSET (1..k) :
                                u # {} => \E x \in u : \A y \in u : y <= x}
<1>1. 0 \in T
  <2>1. ASSUME NEW u \in SUBSET (1..0), u # {} PROVE FALSE
    <3>1. 1..0 = {}
      OBVIOUS
    <3> QED BY <2>1, <3>1
  <2> QED BY <2>1
<1>2. ASSUME NEW k \in T PROVE k + 1 \in T
  <2>1. ASSUME NEW u \in SUBSET (1..k + 1), u # {}
        PROVE  \E x \in u : \A y \in u : y <= x
    <3>1. CASE k + 1 \in u
      BY <3>1
    <3>2. CASE k + 1 \notin u
      <4>1. u \in SUBSET (1..k)
        BY <3>2
      <4> QED BY <4>1, <2>1
    <3> QED BY <3>1, <3>2
  <2> QED BY <2>1
<1>3. T = Nat
  <2>1. T \subseteq Nat
    OBVIOUS
  <2> HIDE DEF T
  <2> QED BY <2>1, <1>1, <1>2, AllNumbers
<1> QED BY <1>3

Rightmost(n) == \A t \in SUBSET (1..n) : t # {} => Latest(t) \in t /\ \A y \in t : y <= Latest(t)

THEOREM FoldAlong ==
    ASSUME NEW base, NEW s, NEW n \in Nat, Rightmost(n)
    PROVE  /\ n = 0 => Fold(base, s, 1..n) = base
           /\ n > 0 => Fold(base, s, 1..n) = Op(Fold(base, s, 1..n - 1), s[n])
<1>1. Ordered(1..n)
  BY FS_Interval DEF Ordered, Rightmost
<1>2. n = 0 => 1..n = {}
  OBVIOUS
<1>3. ASSUME n > 0 PROVE 1..n # {} /\ Latest(1..n) = n /\ (1..n) \ {n} = 1..n - 1
  <2>1. n \in 1..n
    BY <1>3
  <2>2. Latest(1..n) \in 1..n /\ n <= Latest(1..n)
    BY <2>1 DEF Rightmost
  <2> QED BY <2>1, <2>2
<1>4. n = 0 => Fold(base, s, 1..n) = base
  BY <1>1, <1>2, FoldUnfolds
<1>5. ASSUME n > 0 PROVE Fold(base, s, 1..n) = Op(Fold(base, s, 1..n - 1), s[n])
  <2> DEFINE U == 1..n
  <2>1. U # {} /\ Ordered(U) /\ Latest(U) = n /\ U \ {n} = 1..n - 1
    BY <1>1, <1>3, <1>5
  <2> HIDE DEF U
  <2>2. Fold(base, s, U) = Op(Fold(base, s, U \ {Latest(U)}), s[Latest(U)])
    BY <2>1, FoldUnfolds
  <2> QED BY <2>1, <2>2 DEF U
<1> QED BY <1>4, <1>5

AlwaysRightmost == \A n \in Nat : Rightmost(n)

\* The fold over each number of elements of a sequence from that over one less.
THEOREM FoldSteps ==
    ASSUME NEW base, NEW s, NEW n \in Nat, AlwaysRightmost
    PROVE  /\ Fold(base, s, 1..0) = base
           /\ Fold(base, s, 1..n + 1) = Op(Fold(base, s, 1..n), s[n + 1])
<1>1. 0 \in Nat /\ n + 1 \in Nat /\ n + 1 > 0 /\ (n + 1) - 1 = n
  OBVIOUS
<1>2. Rightmost(0) /\ Rightmost(n + 1)
  BY <1>1 DEF AlwaysRightmost
<1>3. Fold(base, s, 1..0) = base
  BY <1>1, <1>2, FoldAlong
<1>4. Fold(base, s, 1..n + 1) = Op(Fold(base, s, 1..n), s[n + 1])
  <2> DEFINE k == n + 1
  <2>1. k \in Nat /\ k > 0 /\ k - 1 = n /\ Rightmost(k)
    BY <1>1, <1>2
  <2> HIDE DEF k
  <2>2. Fold(base, s, 1..k) = Op(Fold(base, s, 1..k - 1), s[k])
    BY <2>1, FoldAlong
  <2> QED BY <2>1, <2>2 DEF k
<1> QED BY <1>3, <1>4

LEMMA OrderedInterval ==
    ASSUME NEW n \in Nat, AlwaysRightmost
    PROVE  Ordered(1..n)
<1>1. IsFiniteSet(1..n)
  BY FS_Interval
<1>2. Rightmost(n)
  BY DEF AlwaysRightmost
<1> QED BY <1>1, <1>2 DEF Ordered, Rightmost

\* A fold over the first elements is that over the sequence of them.
THEOREM FoldOfPrefix ==
    ASSUME NEW base, NEW r, NEW s, NEW n \in Nat, AlwaysRightmost, Agree(r, s, 1..n)
    PROVE  Fold(base, r, 1..n) = Fold(base, s, 1..n)
<1>1. Ordered(1..n)
  BY OrderedInterval
<1>2. Agree(s, s, 1..n)
  BY DEF Agree
<1>3. Fold(base, r, 1..n) = Upto(base, s, 1..n, 1..n)
  BY <1>1, FoldIsLocal
<1> QED BY <1>3 DEF Fold

\* Folds along no sequence, and along a sequence with an element more.
THEOREM FoldOfNothing ==
    ASSUME NEW base, AlwaysRightmost
    PROVE  Fold(base, <<>>, DOMAIN <<>>) = base
<1>1. DOMAIN <<>> = 1..0 /\ 0 \in Nat
  OBVIOUS
<1> QED BY <1>1, FoldSteps

THEOREM FoldAppends ==
    ASSUME NEW base, NEW X, NEW s \in Seq(X), NEW x \in X, AlwaysRightmost
    PROVE  Fold(base, Append(s, x), DOMAIN Append(s, x)) = Op(Fold(base, s, DOMAIN s), x)
<1> DEFINE n == Len(s)
           t == Append(s, x)
<1>1. /\ n \in Nat /\ DOMAIN s = 1..n /\ DOMAIN t = 1..n + 1 /\ t[n + 1] = x
      /\ \A i \in 1..n : s[i] = t[i]
  OBVIOUS
<1> HIDE DEF n, t
<1>2. Fold(base, t, 1..n + 1) = Op(Fold(base, t, 1..n), t[n + 1])
  BY <1>1, FoldSteps
<1>3. Agree(s, t, 1..n)
  BY <1>1 DEF Agree
<1>4. Fold(base, s, 1..n) = Fold(base, t, 1..n)
  BY <1>1, <1>3, FoldOfPrefix
<1>5. Fold(base, t, DOMAIN t) = Op(Fold(base, s, DOMAIN s), x)
  BY <1>1, <1>2, <1>4
<1> QED BY <1>5 DEF t
================================================================================
