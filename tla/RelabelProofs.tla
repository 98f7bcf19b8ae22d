----------------------------- MODULE RelabelProofs -----------------------------
(***************************************************************************)
(* Proofs about Relabel, for any two files of any records, each policy and *)
(* each score limit.                                                       *)
(*                                                                         *)
(* conflict-report is a fold of the lines: each line adds one to one count *)
(* and at most a vote for each engine/weight pair, and its mirror image    *)
(* adds the same (ReportingInv).  The answers that a merge keeps are       *)
(* followed question by question along the fold of the incoming ones, and  *)
(* each record that comes out is what became of the one that went in       *)
(* (MergingInv).  And dataset-diff is sums over groups of lines: what they *)
(* add up to follows by induction over the parts of a finite set           *)
(* (DiffOfExtension).                                                      *)
(***************************************************************************)
EXTENDS Relabel, FiniteSetTheorems, SequenceTheorems, WellFoundedInduction, TLAPS

-----------------------------------------------------------------------------
(* Totals.                                                                 *)

AnyOf(s) == CHOOSE x \in s : TRUE
Plus(soFar, number) == number + soFar
OverTotals == INSTANCE FoldFacts WITH Op <- Plus, Latest <- AnyOf

LEMMA SubsetInduction ==
    ASSUME NEW S, IsFiniteSet(S), NEW P, {} \in P,
           \A t \in P : \A x \in S : t \subseteq S /\ x \notin t => t \union {x} \in P
    PROVE  S \in P
<1>1. OverTotals!IsFiniteSet(S)
  BY Zenon DEF OverTotals!IsFiniteSet, IsFiniteSet
<1> QED BY <1>1, OverTotals!SetInduction

LEMMA TotalsAreOrdered ==
    ASSUME NEW S, IsFiniteSet(S)
    PROVE  OverTotals!Ordered(S)
<1>1. \A t \in SUBSET S : t # {} => AnyOf(t) \in t
  BY DEF AnyOf
<1>2. OverTotals!IsFiniteSet(S)
  BY Zenon DEF OverTotals!IsFiniteSet, IsFiniteSet
<1> QED BY <1>1, <1>2 DEF OverTotals!Ordered

LEMMA TotalIsFold ==
    ASSUME NEW h
    PROVE  Total(h) = OverTotals!Fold(0, h, DOMAIN h)
BY DEF Total, FoldFunction, FoldFunctionOnSet, MapThenFoldSet, OverTotals!Fold,
       OverTotals!Upto, OverTotals!FoldOver, Plus, AnyOf

\* A function with finitely many integer values.
Summable(h) == IsFiniteSet(DOMAIN h) /\ \A x \in DOMAIN h : h[x] \in Int

LEMMA TotalIsNumber ==
    ASSUME NEW h, Summable(h)
    PROVE  Total(h) \in Int
<1> DEFINE S == DOMAIN h
<1>1. OverTotals!Ordered(S) /\ \A x \in S : h[x] \in Int
  BY TotalsAreOrdered DEF Summable
<1>2. OverTotals!Closed(Int, h, S)
  BY <1>1 DEF OverTotals!Closed, Plus
<1> HIDE DEF S
<1>3. OverTotals!Fold(0, h, S) \in Int
  BY <1>1, <1>2, OverTotals!FoldType
<1> QED BY <1>3, TotalIsFold DEF S

LEMMA TotalOfNothing ==
    ASSUME NEW h, DOMAIN h = {}
    PROVE  Total(h) = 0
<1>1. OverTotals!Ordered({})
  BY FS_EmptySet, TotalsAreOrdered
<1>2. OverTotals!Fold(0, h, {}) = 0
  BY <1>1, OverTotals!FoldUnfolds
<1> QED BY <1>2, TotalIsFold

\* A total is that of all values but one, and that one.
LEMMA TotalTakes ==
    ASSUME NEW h, Summable(h), NEW z \in DOMAIN h
    PROVE  Total(h) = Total([x \in (DOMAIN h) \ {z} |-> h[x]]) + h[z]
<1> DEFINE S == DOMAIN h
           U == S \ {z}
           g == [x \in U |-> h[x]]
<1>1. OverTotals!Ordered(S) /\ \A x \in S : h[x] \in Int
  BY TotalsAreOrdered DEF Summable
<1>2. OverTotals!Closed(Int, h, S)
  BY <1>1 DEF OverTotals!Closed, Plus
<1>3. OverTotals!Commutes(Int, h, S)
  BY <1>1 DEF OverTotals!Commutes, Plus
<1>4. OverTotals!Ordered(U)
  BY TotalsAreOrdered, FS_Subset DEF Summable
<1>5. OverTotals!Agree(g, h, U) /\ OverTotals!Agree(h, h, U) /\ U \subseteq S /\ DOMAIN g = U
  BY DEF OverTotals!Agree
<1>6. z \in S /\ 0 \in Int
  OBVIOUS
<1> HIDE DEF S, U, g
<1>7. OverTotals!Fold(0, h, S) = Plus(OverTotals!Fold(0, h, S \ {z}), h[z])
  BY <1>1, <1>2, <1>3, <1>6, OverTotals!FoldCommutes
<1>8. OverTotals!Fold(0, g, U) = OverTotals!Upto(0, h, S, U)
  BY <1>1, <1>5, OverTotals!FoldIsLocal
<1>9. OverTotals!Fold(0, h, U) = OverTotals!Upto(0, h, S, U)
  BY <1>1, <1>5, OverTotals!FoldIsLocal
<1>10. Total(h) = h[z] + OverTotals!Fold(0, h, U)
  BY <1>7, TotalIsFold DEF Plus, S, U
<1>11. Total(g) = OverTotals!Fold(0, h, U)
  BY <1>5, <1>8, <1>9, TotalIsFold
<1>12. Summable(g)
  <2>1. IsFiniteSet(U)
    BY <1>5, FS_Subset DEF Summable, S
  <2> QED BY <1>1, <1>5, <2>1 DEF Summable, g
<1>13. Total(g) \in Int /\ h[z] \in Int
  BY <1>1, <1>6, <1>12, TotalIsNumber
<1>14. Total(h) = Total(g) + h[z]
  BY <1>10, <1>11, <1>13
<1> QED BY <1>14 DEF g, U, S

\* A total with one more value.
LEMMA TotalAdds ==
    ASSUME NEW h, Summable(h), NEW z, z \notin DOMAIN h, NEW v \in Int, NEW g,
           DOMAIN g = (DOMAIN h) \union {z}, g[z] = v, \A x \in DOMAIN h : g[x] = h[x],
           h = [x \in DOMAIN h |-> h[x]]
    PROVE  Summable(g) /\ Total(g) = Total(h) + v
<1>1. IsFiniteSet(DOMAIN g)
  BY FS_AddElement DEF Summable
<1>2. \A x \in DOMAIN g : g[x] \in Int
  BY DEF Summable
<1>3. Summable(g)
  BY <1>1, <1>2 DEF Summable
<1>4. [x \in (DOMAIN g) \ {z} |-> g[x]] = h
  <2>1. (DOMAIN g) \ {z} = DOMAIN h
    OBVIOUS
  <2> QED BY <2>1
<1>5. Total(g) = Total([x \in (DOMAIN g) \ {z} |-> g[x]]) + g[z]
  BY <1>3, TotalTakes
<1> QED BY <1>3, <1>4, <1>5

-----------------------------------------------------------------------------
(* The groups of conflict-report.                                          *)

Tallies == STRING \X STRING \X Nat \X Nat
Votes == STRING \X STRING \X BOOLEAN
Sum(groups, n) == Total([g \in groups |-> g[n]])

Keyed(groups) ==
    /\ IsFiniteSet(groups) /\ groups \subseteq Tallies
    /\ \A g, h \in groups : g[1] = h[1] /\ g[2] = h[2] => g = h

More(vote) == IF vote[3] THEN 1 ELSE 0

LEMMA TallyFields ==
    ASSUME NEW g \in Tallies
    PROVE  /\ g[1] \in STRING /\ g[2] \in STRING /\ g[3] \in Nat /\ g[4] \in Nat
           /\ g = <<g[1], g[2], g[3], g[4]>>
BY DEF Tallies

LEMMA SumsOfGroups ==
    ASSUME NEW groups, Keyed(groups), NEW n \in {3, 4}
    PROVE  /\ Summable([g \in groups |-> g[n]]) /\ Sum(groups, n) \in Int
<1>1. \A g \in groups : g[n] \in Int
  BY TallyFields DEF Keyed
<1>2. Summable([g \in groups |-> g[n]])
  BY <1>1 DEF Summable, Keyed
<1> QED BY <1>2, TotalIsNumber DEF Sum

\* A group more.
LEMMA GroupAdds ==
    ASSUME NEW groups, Keyed(groups), NEW new \in Tallies, new \notin groups,
           \A g \in groups : ~ (g[1] = new[1] /\ g[2] = new[2])
    PROVE  /\ Keyed(groups \union {new})
           /\ Sum(groups \union {new}, 3) = Sum(groups, 3) + new[3]
           /\ Sum(groups \union {new}, 4) = Sum(groups, 4) + new[4]
<1>1. Keyed(groups \union {new})
  <2>1. IsFiniteSet(groups \union {new})
    BY FS_AddElement DEF Keyed
  <2> QED BY <2>1 DEF Keyed
<1>2. ASSUME NEW n \in {3, 4}
      PROVE  Sum(groups \union {new}, n) = Sum(groups, n) + new[n]
  <2> DEFINE h == [g \in groups |-> g[n]]
             k == [g \in groups \union {new} |-> g[n]]
             v == new[n]
  <2>1. Summable(h)
    BY SumsOfGroups
  <2>2. /\ DOMAIN h = groups /\ DOMAIN k = groups \union {new} /\ k[new] = v
        /\ \A g \in groups : k[g] = h[g]
        /\ h = [g \in DOMAIN h |-> h[g]]
    OBVIOUS
  <2>3. v \in Int
    BY TallyFields
  <2> HIDE DEF h, k, v
  <2>4. Total(k) = Total(h) + v
    BY <2>1, <2>2, <2>3, TotalAdds
  <2> QED BY <2>4 DEF Sum, h, k, v
<1> QED BY <1>1, <1>2

LEMMA GroupTakes ==
    ASSUME NEW groups, Keyed(groups), NEW old \in groups
    PROVE  /\ Keyed(groups \ {old})
           /\ Sum(groups, 3) = Sum(groups \ {old}, 3) + old[3]
           /\ Sum(groups, 4) = Sum(groups \ {old}, 4) + old[4]
<1> DEFINE rest == groups \ {old}
<1>1. Keyed(rest)
  <2>1. IsFiniteSet(rest)
    BY FS_Subset DEF Keyed
  <2> QED BY <2>1 DEF Keyed
<1>2. old \in Tallies /\ old \notin rest /\ rest \union {old} = groups
  BY DEF Keyed
<1>3. \A g \in rest : ~ (g[1] = old[1] /\ g[2] = old[2])
  BY DEF Keyed
<1> HIDE DEF rest
<1>4. /\ Sum(rest \union {old}, 3) = Sum(rest, 3) + old[3]
      /\ Sum(rest \union {old}, 4) = Sum(rest, 4) + old[4]
  BY <1>1, <1>2, <1>3, GroupAdds
<1> QED BY <1>1, <1>2, <1>4 DEF rest

\* A vote is counted once, in its group.
LEMMA VoteCounts ==
    ASSUME NEW groups, Keyed(groups), NEW vote \in Votes
    PROVE  /\ Keyed(InGroup(vote, groups))
           /\ Sum(InGroup(vote, groups), 3) = Sum(groups, 3) + 1
           /\ Sum(InGroup(vote, groups), 4) = Sum(groups, 4) + More(vote)
<1> DEFINE old == {g \in groups : g[1] = vote[1] /\ g[2] = vote[2]}
           more == More(vote)
<1>1. vote[1] \in STRING /\ vote[2] \in STRING /\ more \in Nat
  BY DEF Votes, More
<1>2. /\ old = {} => InGroup(vote, groups) = groups \union {<<vote[1], vote[2], 1, more>>}
      /\ \A g : old = {g} => InGroup(vote, groups) =
                     (groups \ {g}) \union {<<vote[1], vote[2], g[3] + 1, g[4] + more>>}
  BY DEF InGroup, More
<1>3. CASE old = {}
  <2> DEFINE new == <<vote[1], vote[2], 1, more>>
  <2>1. new \in Tallies /\ new[1] = vote[1] /\ new[2] = vote[2] /\ new[3] = 1 /\ new[4] = more
    BY <1>1 DEF Tallies
  <2>2. new \notin groups /\ \A g \in groups : ~ (g[1] = new[1] /\ g[2] = new[2])
    BY <1>3, <2>1
  <2> HIDE DEF new, more
  <2>3. /\ Keyed(groups \union {new})
        /\ Sum(groups \union {new}, 3) = Sum(groups, 3) + new[3]
        /\ Sum(groups \union {new}, 4) = Sum(groups, 4) + new[4]
    BY <2>1, <2>2, GroupAdds
  <2> QED BY <1>2, <1>3, <2>1, <2>3 DEF new, more
<1>4. ASSUME NEW o \in old
      PROVE  /\ Keyed(InGroup(vote, groups))
             /\ Sum(InGroup(vote, groups), 3) = Sum(groups, 3) + 1
             /\ Sum(InGroup(vote, groups), 4) = Sum(groups, 4) + more
  <2> DEFINE rest == groups \ {o}
             new == <<vote[1], vote[2], o[3] + 1, o[4] + more>>
  <2>1. o \in groups /\ o[1] = vote[1] /\ o[2] = vote[2] /\ o[3] \in Nat /\ o[4] \in Nat
    BY TallyFields DEF Keyed
  <2>2. old = {o}
    BY <2>1 DEF Keyed
  <2>3. /\ new \in Tallies /\ new[1] = vote[1] /\ new[2] = vote[2]
        /\ new[3] = o[3] + 1 /\ new[4] = o[4] + more
    BY <1>1, <2>1 DEF Tallies
  <2>4. InGroup(vote, groups) = rest \union {new}
    BY <1>2, <2>2
  <2>5. /\ Keyed(rest)
        /\ Sum(groups, 3) = Sum(rest, 3) + o[3]
        /\ Sum(groups, 4) = Sum(rest, 4) + o[4]
    BY <2>1, GroupTakes
  <2>6. \A g \in rest : ~ (g[1] = new[1] /\ g[2] = new[2])
    BY <2>1, <2>3 DEF Keyed
  <2>7. new \notin rest
    BY <2>6
  <2>8. Sum(rest, 3) \in Int /\ Sum(rest, 4) \in Int
    BY <2>5, SumsOfGroups
  <2> HIDE DEF rest, new, old, more
  <2>9. /\ Keyed(rest \union {new})
        /\ Sum(rest \union {new}, 3) = Sum(rest, 3) + new[3]
        /\ Sum(rest \union {new}, 4) = Sum(rest, 4) + new[4]
    BY <2>3, <2>5, <2>6, <2>7, GroupAdds
  <2> QED BY <1>1, <2>1, <2>3, <2>4, <2>5, <2>8, <2>9
<1> QED BY <1>3, <1>4

-----------------------------------------------------------------------------
(* One record of conflict-report.                                          *)

CountVote(groups, vote) == InGroup(vote, groups)
OverVotes == INSTANCE FoldFacts WITH Op <- CountVote, Latest <- AnyOf

LEMMA VotesAreOrdered ==
    ASSUME NEW S, IsFiniteSet(S)
    PROVE  OverVotes!Ordered(S)
<1>1. \A t \in SUBSET S : t # {} => AnyOf(t) \in t
  BY DEF AnyOf
<1>2. OverVotes!IsFiniteSet(S)
  BY Zenon DEF OverVotes!IsFiniteSet, IsFiniteSet
<1> QED BY <1>1, <1>2 DEF OverVotes!Ordered

\* The groups after the votes of a record.
LEMMA VotesCount ==
    ASSUME NEW groups, Keyed(groups), NEW S, IsFiniteSet(S), NEW vote \in [S -> Votes],
           NEW against, against = {i \in S : vote[i][3]}
    PROVE  LET after == FoldFunction(InGroup, groups, vote)
           IN  /\ Keyed(after)
               /\ Sum(after, 3) = Sum(groups, 3) + Cardinality(S)
               /\ Sum(after, 4) = Sum(groups, 4) + Cardinality(against)
<1> DEFINE Holds(t, r) == /\ Keyed(r)
                          /\ Sum(r, 3) = Sum(groups, 3) + Cardinality(t)
                          /\ Sum(r, 4) = Sum(groups, 4) + Cardinality(t \intersect against)
           R == {p \in (SUBSET S) \X (SUBSET Tallies) : Holds(p[1], p[2])}
           after == OverVotes!Fold(groups, vote, S)
<1>1. FoldFunction(InGroup, groups, vote) = after
  BY DEF FoldFunction, FoldFunctionOnSet, MapThenFoldSet, OverVotes!Fold,
         OverVotes!Upto, OverVotes!FoldOver, CountVote, AnyOf
<1>2. OverVotes!Ordered(S)
  BY VotesAreOrdered
<1>3. Sum(groups, 3) \in Int /\ Sum(groups, 4) \in Int
  BY SumsOfGroups
<1>4. <<{}, groups>> \in R
  <2>1. Cardinality({}) = 0 /\ {} \intersect against = {}
    BY FS_EmptySet
  <2>2. Holds({}, groups)
    BY <1>3, <2>1
  <2>3. groups \in SUBSET Tallies
    BY DEF Keyed
  <2> HIDE DEF Holds
  <2> QED BY <2>2, <2>3
<1>5. ASSUME NEW t \in SUBSET S, NEW x \in S, NEW r, x \notin t, <<t, r>> \in R
      PROVE  <<t \union {x}, CountVote(r, vote[x])>> \in R
  <2> DEFINE u == t \union {x}
             q == InGroup(vote[x], r)
  <2>1. Holds(t, r)
    <3> HIDE DEF Holds
    <3> QED BY <1>5
  <2>2. vote[x] \in Votes
    OBVIOUS
  <2>3. /\ Keyed(q) /\ Sum(q, 3) = Sum(r, 3) + 1 /\ Sum(q, 4) = Sum(r, 4) + More(vote[x])
    BY <2>1, <2>2, VoteCounts
  <2>4. IsFiniteSet(t) /\ Cardinality(t) \in Nat /\ Cardinality(u) = Cardinality(t) + 1
    BY <1>5, FS_Subset, FS_AddElement, FS_CardinalityType
  <2>5. /\ Cardinality(t \intersect against) \in Nat
        /\ Cardinality(u \intersect against) = Cardinality(t \intersect against) + More(vote[x])
    <3>1. IsFiniteSet(t \intersect against) /\ x \notin t \intersect against
      BY <1>5, <2>4, FS_Subset
    <3>2. CASE vote[x][3]
      <4>1. u \intersect against = (t \intersect against) \union {x}
        BY <3>2
      <4> QED BY <3>1, <3>2, <4>1, FS_AddElement, FS_CardinalityType DEF More
    <3>3. CASE ~ vote[x][3]
      <4>1. u \intersect against = t \intersect against
        BY <3>3
      <4>2. Cardinality(t \intersect against) \in Nat
        BY <3>1, FS_CardinalityType
      <4>3. More(vote[x]) = 0
        BY <3>3 DEF More
      <4> DEFINE n == Cardinality(t \intersect against)
      <4>4. n \in Nat /\ Cardinality(u \intersect against) = n
        BY <4>1, <4>2
      <4> HIDE DEF n
      <4>5. n + More(vote[x]) = n
        BY <4>3, <4>4
      <4> QED BY <4>4, <4>5 DEF n
    <3> QED BY <3>2, <3>3
  <2>6. More(vote[x]) \in Int
    BY DEF More
  <2>7. u \in SUBSET S /\ q \in SUBSET Tallies
    BY <2>3 DEF Keyed
  <2> HIDE DEF u, q
  <2>8. Holds(u, q)
    BY <1>3, <2>1, <2>3, <2>4, <2>5, <2>6
  <2>9. <<u, q>> \in R
    <3> HIDE DEF Holds
    <3> QED BY <2>7, <2>8
  <2> QED BY <2>9 DEF u, q, CountVote
<1>6. OverVotes!Relates(R, vote, S)
  <2> HIDE DEF R
  <2> QED BY <1>5 DEF OverVotes!Relates
<1>7. <<S, after>> \in R
  <2> HIDE DEF R, after
  <2>1. <<S, OverVotes!Fold(groups, vote, S)>> \in R
    BY <1>2, <1>4, <1>6, OverVotes!FoldRelates
  <2> QED BY <2>1 DEF after
<1>8. Holds(S, after)
  <2> HIDE DEF Holds, after
  <2> QED BY <1>7
<1>9. S \intersect against = against
  OBVIOUS
<1> QED BY <1>1, <1>8, <1>9

LEMMA VotesAreFinite ==
    ASSUME NEW obs \in Seq(Answers)
    PROVE  IsFiniteSet(DeepestOf(obs)) /\ DeepestOf(obs) \subseteq DOMAIN obs
<1>1. DOMAIN obs = 1..Len(obs) /\ Len(obs) \in Nat
  OBVIOUS
<1>2. IsFiniteSet(DOMAIN obs)
  BY <1>1, FS_Interval
<1> QED BY <1>2, FS_Subset DEF DeepestOf

-----------------------------------------------------------------------------
(* The answers with one of some keys.                                      *)

OverRetained == INSTANCE FoldFacts WITH Op <- Retain, Latest <- Max
OverPrimary == INSTANCE FoldFacts WITH Op <- PreferPrimary, Latest <- Max
OverSecondary == INSTANCE FoldFacts WITH Op <- PreferSecondary, Latest <- Max
OverJudged == INSTANCE FoldFacts WITH Op <- JudgedMirrored, Latest <- Max

LEMMA LastIsGreatest ==
    ASSUME NEW n \in Nat
    PROVE  \A t \in SUBSET (1..n) : t # {} => Max(t) \in t /\ \A y \in t : y <= Max(t)
<1> SUFFICES ASSUME NEW t \in SUBSET (1..n), t # {}
             PROVE  Max(t) \in t /\ \A y \in t : y <= Max(t)
  OBVIOUS
<1>1. \E x \in t : \A y \in t : y <= x
  BY OverRetained!HasGreatest
<1>2. \E x \in t : \A y \in t : x >= y
  BY <1>1
<1>3. Max(t) \in t /\ \A y \in t : Max(t) >= y
  BY <1>2 DEF Max
<1> QED BY <1>3

LEMMA AllRightmost ==
    /\ OverRetained!AlwaysRightmost /\ OverPrimary!AlwaysRightmost
    /\ OverSecondary!AlwaysRightmost /\ OverJudged!AlwaysRightmost
BY LastIsGreatest DEF OverRetained!AlwaysRightmost, OverRetained!Rightmost,
   OverPrimary!AlwaysRightmost, OverPrimary!Rightmost, OverSecondary!AlwaysRightmost,
   OverSecondary!Rightmost, OverJudged!AlwaysRightmost, OverJudged!Rightmost

Nothing(keys) == [keys |-> keys, obs |-> <<>>]

LEMMA RetainFolds ==
    ASSUME NEW base
    PROVE  /\ FoldLeft(Retain, base, <<>>) = base
           /\ \A obs \in Seq(Answers), o \in Answers :
                  FoldLeft(Retain, base, Append(obs, o)) = Retain(FoldLeft(Retain, base, obs), o)
<1>1. \A s : FoldLeft(Retain, base, s) = OverRetained!Fold(base, s, DOMAIN s)
  BY DEF FoldLeft, MapThenFoldSet, OverRetained!Fold, OverRetained!Upto, OverRetained!FoldOver
<1>2. OverRetained!Fold(base, <<>>, DOMAIN <<>>) = base
  BY AllRightmost, OverRetained!FoldOfNothing
<1>3. ASSUME NEW obs \in Seq(Answers), NEW o \in Answers
      PROVE  FoldLeft(Retain, base, Append(obs, o)) = Retain(FoldLeft(Retain, base, obs), o)
  <2>1. OverRetained!Fold(base, Append(obs, o), DOMAIN Append(obs, o)) =
            Retain(OverRetained!Fold(base, obs, DOMAIN obs), o)
    BY AllRightmost, OverRetained!FoldAppends
  <2> QED BY <1>1, <2>1
<1> QED BY <1>1, <1>2, <1>3

LEMMA RetainType ==
    ASSUME NEW keys
    PROVE  \A obs \in Seq(Answers) :
               FoldLeft(Retain, Nothing(keys), obs) \in [keys : {keys}, obs : Seq(Answers)]
<1> DEFINE R == [keys : {keys}, obs : Seq(Answers)]
           P == {obs \in Seq(Answers) : FoldLeft(Retain, Nothing(keys), obs) \in R}
<1>1. <<>> \in P
  <2>1. Nothing(keys) \in R
    BY DEF Nothing
  <2>2. FoldLeft(Retain, Nothing(keys), <<>>) = Nothing(keys)
    BY RetainFolds
  <2>3. <<>> \in Seq(Answers)
    OBVIOUS
  <2> HIDE DEF R
  <2> QED BY <2>1, <2>2, <2>3
<1>2. ASSUME NEW s \in Seq(Answers), NEW o \in Answers, s \in P
      PROVE  Append(s, o) \in P
  <2> DEFINE left == FoldLeft(Retain, Nothing(keys), s)
  <2>1. left \in R
    BY <1>2
  <2>2. FoldLeft(Retain, Nothing(keys), Append(s, o)) = Retain(left, o)
    BY RetainFolds
  <2> HIDE DEF left
  <2>3. Retain(left, o) \in R
    <3>1. left.keys = keys /\ left.obs \in Seq(Answers)
      BY <2>1
    <3>2. Append(left.obs, o) \in Seq(Answers)
      BY <3>1
    <3>3. [left EXCEPT !.obs = Append(left.obs, o)] \in R
      BY <2>1, <3>2
    <3> QED BY <2>1, <3>3 DEF Retain
  <2>4. Append(s, o) \in Seq(Answers)
    OBVIOUS
  <2> HIDE DEF R
  <2> QED BY <2>2, <2>3, <2>4 DEF left
<1>3. Seq(Answers) \subseteq P
  <2> HIDE DEF P
  <2> QED BY <1>1, <1>2, OverRetained!SequenceInduction
<1> QED BY <1>3

LEMMA OnlyOfNothing == \A keys : Only(<<>>, keys) = <<>>
<1> SUFFICES ASSUME NEW keys PROVE Only(<<>>, keys) = <<>>
  OBVIOUS
<1>1. FoldLeft(Retain, Nothing(keys), <<>>) = Nothing(keys)
  BY RetainFolds
<1> QED BY <1>1 DEF Only, Nothing

LEMMA OnlyUnfolds ==
    ASSUME NEW keys, NEW obs \in Seq(Answers)
    PROVE  /\ Only(obs, keys) \in Seq(Answers)
           /\ \A o \in Answers : Only(Append(obs, o), keys) =
                  IF Key(o) \in keys THEN Append(Only(obs, keys), o) ELSE Only(obs, keys)
<1> DEFINE left == FoldLeft(Retain, Nothing(keys), obs)
<1>1. left \in [keys : {keys}, obs : Seq(Answers)]
  BY RetainType
<1>2. \A s : Only(s, keys) = FoldLeft(Retain, Nothing(keys), s).obs
  BY DEF Only, Nothing
<1>3. Only(obs, keys) = left.obs
  BY <1>2
<1>4. ASSUME NEW o \in Answers
      PROVE  Only(Append(obs, o), keys) =
                 IF Key(o) \in keys THEN Append(left.obs, o) ELSE left.obs
  <2>1. FoldLeft(Retain, Nothing(keys), Append(obs, o)) = Retain(left, o)
    BY RetainFolds
  <2>2. Only(Append(obs, o), keys) = Retain(left, o).obs
    BY <1>2, <2>1
  <2> HIDE DEF left
  <2>3. Retain(left, o).obs = IF Key(o) \in keys THEN Append(left.obs, o) ELSE left.obs
    BY <1>1 DEF Retain
  <2> QED BY <2>2, <2>3
<1> HIDE DEF left
<1> QED BY <1>1, <1>3, <1>4

LEMMA KeysUnfold ==
    ASSUME NEW obs \in Seq(Answers), NEW o \in Answers
    PROVE  Keys(<<>>) = {} /\ Keys(Append(obs, o)) = Keys(obs) \union {Key(o)}
<1>1. Keys(<<>>) = {}
  BY DEF Keys
<1>2. /\ DOMAIN Append(obs, o) = (DOMAIN obs) \union {Len(obs) + 1}
      /\ Append(obs, o)[Len(obs) + 1] = o
      /\ \A i \in DOMAIN obs : Append(obs, o)[i] = obs[i]
  OBVIOUS
<1>3. Keys(Append(obs, o)) = Keys(obs) \union {Key(o)}
  BY <1>2 DEF Keys
<1> QED BY <1>1, <1>3

\* What is retained has the keys of the answers that were asked for, and those of one key
\* are untouched.
LEMMA OnlyKeeps ==
    ASSUME NEW keys
    PROVE  \A obs \in Seq(Answers) :
               /\ Keys(Only(obs, keys)) = Keys(obs) \intersect keys
               /\ \A k : Only(Only(obs, keys), {k}) =
                             IF k \in keys THEN Only(obs, {k}) ELSE <<>>
<1> DEFINE Good(obs) == /\ Keys(Only(obs, keys)) = Keys(obs) \intersect keys
                        /\ \A k : Only(Only(obs, keys), {k}) =
                                      IF k \in keys THEN Only(obs, {k}) ELSE <<>>
           P == {obs \in Seq(Answers) : Good(obs)}
<1>1. <<>> \in P
  <2>1. \A K : Only(<<>>, K) = <<>>
    BY OnlyOfNothing
  <2>2. Keys(<<>>) = {}
    BY DEF Keys
  <2>3. Good(<<>>)
    BY <2>1, <2>2
  <2> HIDE DEF Good
  <2> QED BY <2>3
<1>2. ASSUME NEW s \in Seq(Answers), NEW o \in Answers, s \in P
      PROVE  Append(s, o) \in P
  <2> DEFINE t == Append(s, o)
             r == Only(s, keys)
  <2>1. Good(s)
    <3> HIDE DEF Good
    <3> QED BY <1>2
  <2>2. r \in Seq(Answers) /\ t \in Seq(Answers)
    BY OnlyUnfolds
  <2>3. Keys(t) = Keys(s) \union {Key(o)}
    BY KeysUnfold
  <2>4. \A k : Only(t, {k}) = IF k = Key(o) THEN Append(Only(s, {k}), o) ELSE Only(s, {k})
    BY OnlyUnfolds
  <2>5. CASE Key(o) \in keys
    <3>1. Only(t, keys) = Append(r, o)
      BY <2>5, OnlyUnfolds
    <3>2. Keys(Append(r, o)) = Keys(r) \union {Key(o)}
      BY <2>2, KeysUnfold
    <3>3. \A k : Only(Append(r, o), {k}) =
                     IF k = Key(o) THEN Append(Only(r, {k}), o) ELSE Only(r, {k})
      BY <2>2, OnlyUnfolds
    <3> HIDE DEF t
    <3>4. Keys(Only(t, keys)) = Keys(t) \intersect keys
      BY <2>1, <2>3, <2>5, <3>1, <3>2
    <3>5. ASSUME NEW k
          PROVE  Only(Only(t, keys), {k}) = IF k \in keys THEN Only(t, {k}) ELSE <<>>
      <4>1. Only(r, {k}) = IF k \in keys THEN Only(s, {k}) ELSE <<>>
        BY <2>1
      <4> HIDE DEF r
      <4> QED BY <2>4, <2>5, <3>1, <3>3, <4>1
    <3> QED BY <2>2, <3>4, <3>5 DEF t
  <2>6. CASE Key(o) \notin keys
    <3>1. Only(t, keys) = r
      BY <2>6, OnlyUnfolds
    <3> HIDE DEF t
    <3>2. Keys(Only(t, keys)) = Keys(t) \intersect keys
      BY <2>1, <2>3, <2>6, <3>1
    <3>3. ASSUME NEW k
          PROVE  Only(Only(t, keys), {k}) = IF k \in keys THEN Only(t, {k}) ELSE <<>>
      <4>1. Only(r, {k}) = IF k \in keys THEN Only(s, {k}) ELSE <<>>
        BY <2>1
      <4> HIDE DEF r
      <4> QED BY <2>4, <2>6, <3>1, <4>1
    <3> QED BY <2>2, <3>2, <3>3 DEF t
  <2> QED BY <2>5, <2>6
<1>3. Seq(Answers) \subseteq P
  <2> HIDE DEF P
  <2> QED BY <1>1, <1>2, OverRetained!SequenceInduction
<1> QED BY <1>3

-----------------------------------------------------------------------------
(* Merged answers.                                                         *)

LEMMA OnlyIsEmpty ==
    ASSUME NEW obs \in Seq(Answers), NEW k
    PROVE  Only(obs, {k}) = <<>> <=> k \notin Keys(obs)
<1>1. Only(obs, {k}) \in Seq(Answers) /\ Keys(Only(obs, {k})) = Keys(obs) \intersect {k}
  BY OnlyUnfolds, OnlyKeeps
<1>2. ASSUME NEW s \in Seq(Answers)
      PROVE  s = <<>> <=> Keys(s) = {}
  <2>1. s = <<>> <=> DOMAIN s = {}
    OBVIOUS
  <2> QED BY <2>1 DEF Keys
<1> QED BY <1>1, <1>2

LEMMA MergeFolds ==
    ASSUME NEW base
    PROVE  /\ FoldLeft(PreferPrimary, base, <<>>) = base
           /\ FoldLeft(PreferSecondary, base, <<>>) = base
           /\ \A obs \in Seq(Answers), o \in Answers :
                  /\ FoldLeft(PreferPrimary, base, Append(obs, o)) =
                         PreferPrimary(FoldLeft(PreferPrimary, base, obs), o)
                  /\ FoldLeft(PreferSecondary, base, Append(obs, o)) =
                         PreferSecondary(FoldLeft(PreferSecondary, base, obs), o)
<1>1. /\ \A s : FoldLeft(PreferPrimary, base, s) = OverPrimary!Fold(base, s, DOMAIN s)
      /\ \A s : FoldLeft(PreferSecondary, base, s) = OverSecondary!Fold(base, s, DOMAIN s)
  BY DEF FoldLeft, MapThenFoldSet, OverPrimary!Fold, OverPrimary!Upto, OverPrimary!FoldOver,
         OverSecondary!Fold, OverSecondary!Upto, OverSecondary!FoldOver
<1>2. /\ OverPrimary!Fold(base, <<>>, DOMAIN <<>>) = base
      /\ OverSecondary!Fold(base, <<>>, DOMAIN <<>>) = base
  BY AllRightmost, OverPrimary!FoldOfNothing, OverSecondary!FoldOfNothing
<1>3. ASSUME NEW obs \in Seq(Answers), NEW o \in Answers
      PROVE  /\ FoldLeft(PreferPrimary, base, Append(obs, o)) =
                    PreferPrimary(FoldLeft(PreferPrimary, base, obs), o)
             /\ FoldLeft(PreferSecondary, base, Append(obs, o)) =
                    PreferSecondary(FoldLeft(PreferSecondary, base, obs), o)
  <2>1. OverPrimary!Fold(base, Append(obs, o), DOMAIN Append(obs, o)) =
            PreferPrimary(OverPrimary!Fold(base, obs, DOMAIN obs), o)
    BY AllRightmost, OverPrimary!FoldAppends
  <2>2. OverSecondary!Fold(base, Append(obs, o), DOMAIN Append(obs, o)) =
            PreferSecondary(OverSecondary!Fold(base, obs, DOMAIN obs), o)
    BY AllRightmost, OverSecondary!FoldAppends
  <2> QED BY <1>1, <2>1, <2>2
<1> QED BY <1>1, <1>2, <1>3

Accs == [obs : Seq(Answers), collisions : Nat]
Start(base) == [obs |-> base, collisions |-> 0]

LEMMA AccFields ==
    ASSUME NEW acc \in Accs, NEW s \in Seq(Answers)
    PROVE  /\ acc.obs \in Seq(Answers) /\ acc.collisions \in Nat
           /\ [acc EXCEPT !.collisions = acc.collisions + 1] \in Accs
           /\ [acc EXCEPT !.collisions = acc.collisions + 1].obs = acc.obs
           /\ [acc EXCEPT !.obs = s] \in Accs
           /\ [acc EXCEPT !.obs = s].obs = s
           /\ [obs |-> s, collisions |-> acc.collisions + 1] \in Accs
BY DEF Accs

\* What an answer more does to the answers of one key.
LEMMA AppendToOnly ==
    ASSUME NEW s \in Seq(Answers), NEW o \in Answers, NEW k
    PROVE  /\ k # Key(o) => Only(Append(s, o), {k}) = Only(s, {k})
           /\ k = Key(o) => Only(Append(s, o), {k}) = Append(Only(s, {k}), o)
BY OnlyUnfolds

LEMMA Ends ==
    ASSUME NEW s \in Seq(Answers), NEW o \in Answers
    PROVE  /\ Append(<<>>, o) = <<o>> /\ SubSeq(<<o>>, 1, 1) = <<o>>
           /\ Append(s, o) # <<>> /\ Last(Append(s, o)) = o
           /\ s # <<>> => SubSeq(Append(s, o), 1, 1) = SubSeq(s, 1, 1)
<1>0. ASSUME NEW q \in Seq(Answers), q # <<>>
      PROVE  SubSeq(q, 1, 1) = <<q[1]>>
  <2>1. Len(q) \in Nat /\ Len(q) >= 1 /\ q[1] \in Answers
    BY <1>0
  <2> DEFINE one == <<q[1]>>
             sub == SubSeq(q, 1, 1)
  <2>2. one \in Seq(Answers) /\ Len(one) = 1 /\ one[1] = q[1]
    BY <2>1
  <2>3. sub \in Seq(Answers) /\ Len(sub) = 1 /\ sub[1] = q[1]
    BY <2>1, SubSeqProperties
  <2>4. \A i \in 1..1 : sub[i] = one[i]
    BY <2>2, <2>3
  <2> HIDE DEF one, sub
  <2>5. sub = one
    BY <2>2, <2>3, <2>4, SeqEqual
  <2> QED BY <2>5 DEF one, sub
<1>1. Append(<<>>, o) = <<o>> /\ SubSeq(<<o>>, 1, 1) = <<o>> /\ Append(s, o) # <<>>
  <2>0. /\ Append(<<>>, o) \in Seq(Answers) /\ Len(Append(<<>>, o)) = 1
        /\ Append(<<>>, o)[1] = o
        /\ <<o>> \in Seq(Answers) /\ Len(<<o>>) = 1 /\ <<o>>[1] = o
    OBVIOUS
  <2> DEFINE a == Append(<<>>, o)
             b == <<o>>
  <2>a. \A i \in 1..Len(a) : a[i] = b[i]
    BY <2>0
  <2>b. a \in Seq(Answers) /\ b \in Seq(Answers) /\ Len(a) = Len(b)
    BY <2>0
  <2>c. a = b
    <3> HIDE DEF a, b
    <3> QED BY <2>a, <2>b, SeqEqual
  <2>d. Append(s, o) # <<>>
    <3>1. Len(Append(s, o)) = Len(s) + 1 /\ Len(s) \in Nat
      OBVIOUS
    <3>2. Len(s) + 1 # 0 /\ Len(<<>>) = 0
      BY <3>1
    <3> QED BY <3>1, <3>2
  <2>1. Append(<<>>, o) = <<o>> /\ Append(s, o) # <<>>
    BY <2>c, <2>d
  <2>2. <<o>> \in Seq(Answers) /\ <<o>> # <<>> /\ <<o>>[1] = o
    OBVIOUS
  <2>3. SubSeq(<<o>>, 1, 1) = <<<<o>>[1]>>
    BY <2>2, <1>0
  <2> QED BY <2>1, <2>2, <2>3
<1>2. Last(Append(s, o)) = o
  BY DEF Last
<1>3. ASSUME s # <<>> PROVE SubSeq(Append(s, o), 1, 1) = SubSeq(s, 1, 1)
  <2>1. Len(s) \in Nat /\ Len(s) >= 1
    BY <1>3
  <2>2. Append(s, o)[1] = s[1]
    BY <2>1
  <2>3. Append(s, o) \in Seq(Answers)
    OBVIOUS
  <2>4. SubSeq(Append(s, o), 1, 1) = <<Append(s, o)[1]>>
    BY <1>0, <1>1, <2>3
  <2>5. SubSeq(s, 1, 1) = <<s[1]>>
    BY <1>0, <1>3
  <2> QED BY <2>2, <2>4, <2>5
<1> QED BY <1>1, <1>2, <1>3

PrimaryKeeps(base, other) ==
    LET acc == FoldLeft(PreferPrimary, Start(base), other)
    IN  /\ acc \in Accs /\ Keys(acc.obs) = Keys(base) \union Keys(other)
        /\ \A k \in Keys(base) \union Keys(other) :
               Only(acc.obs, {k}) = IF Only(base, {k}) = <<>>
                                    THEN SubSeq(Only(other, {k}), 1, 1) ELSE Only(base, {k})

LEMMA PreferPrimaryKeeps ==
    ASSUME NEW base \in Seq(Answers)
    PROVE  \A other \in Seq(Answers) : PrimaryKeeps(base, other)
<1> DEFINE P == {s \in Seq(Answers) : PrimaryKeeps(base, s)}
<1>1. <<>> \in P
  <2>1. FoldLeft(PreferPrimary, Start(base), <<>>) = Start(base)
    BY MergeFolds
  <2>2. Start(base) \in Accs /\ Start(base).obs = base
    BY DEF Start, Accs
  <2>3. Keys(<<>>) = {} /\ \A k : Only(<<>>, k) = <<>>
    BY OnlyOfNothing DEF Keys
  <2>5. \A k \in Keys(base) : Only(base, {k}) # <<>>
    BY OnlyIsEmpty
  <2>6. PrimaryKeeps(base, <<>>)
    BY <2>1, <2>2, <2>3, <2>5 DEF PrimaryKeeps
  <2> QED BY <2>6
<1>2. ASSUME NEW s \in Seq(Answers), NEW o \in Answers, s \in P
      PROVE  Append(s, o) \in P
  <2> DEFINE acc == FoldLeft(PreferPrimary, Start(base), s)
             next == FoldLeft(PreferPrimary, Start(base), Append(s, o))
             t == Append(s, o)
             key == Key(o)
  <2>1. /\ acc \in Accs /\ Keys(acc.obs) = Keys(base) \union Keys(s)
        /\ \A k \in Keys(base) \union Keys(s) :
               Only(acc.obs, {k}) = IF Only(base, {k}) = <<>>
                                    THEN SubSeq(Only(s, {k}), 1, 1) ELSE Only(base, {k})
    BY <1>2 DEF PrimaryKeeps
  <2>2. next = PreferPrimary(acc, o)
    BY ZenonT(40), MergeFolds
  <2>3. t \in Seq(Answers) /\ Keys(t) = Keys(s) \union {key}
    BY KeysUnfold
  <2>4. \A k : /\ k # key => Only(t, {k}) = Only(s, {k})
               /\ k = key => Only(t, {k}) = Append(Only(s, {k}), o)
    BY AppendToOnly
  <2>5. \A k : Only(s, {k}) \in Seq(Answers)
    BY OnlyUnfolds
  <2> HIDE DEF acc, next, t, key
  <2>6. CASE key \in Keys(acc.obs)
    <3>1. next = [acc EXCEPT !.collisions = acc.collisions + 1]
      BY <2>2, <2>6 DEF PreferPrimary, key
    <3>2. next \in Accs /\ next.obs = acc.obs
      BY <2>1, <3>1, AccFields
    <3>3. Keys(next.obs) = Keys(base) \union Keys(t)
      BY <2>1, <2>3, <2>6, <3>2
    <3>4. ASSUME NEW k \in Keys(base) \union Keys(t)
          PROVE  Only(next.obs, {k}) =
                     IF Only(base, {k}) = <<>> THEN SubSeq(Only(t, {k}), 1, 1)
                                               ELSE Only(base, {k})
      <4>1. CASE k # key \/ Only(base, {k}) # <<>>
        BY <2>1, <2>3, <2>4, <2>6, <3>2, <4>1
      <4>2. CASE k = key /\ Only(base, {k}) = <<>>
        <5>1. k \notin Keys(base)
          BY <4>2, OnlyIsEmpty
        <5>2. k \in Keys(s)
          BY <2>1, <2>6, <4>2, <5>1
        <5>3. Only(s, {k}) # <<>>
          BY <5>2, OnlyIsEmpty
        <5>4. SubSeq(Append(Only(s, {k}), o), 1, 1) = SubSeq(Only(s, {k}), 1, 1)
          BY <2>5, <5>3, Ends
        <5> QED BY <2>1, <2>4, <3>2, <4>2, <5>2, <5>4
      <4> QED BY <4>1, <4>2
    <3>5. PrimaryKeeps(base, t)
      BY <3>2, <3>3, <3>4 DEF PrimaryKeeps, next, t
    <3> QED BY <2>3, <3>5 DEF t
  <2>7. CASE key \notin Keys(acc.obs)
    <3>1. next = [acc EXCEPT !.obs = Append(acc.obs, o)]
      BY <2>2, <2>7 DEF PreferPrimary, Append1, key
    <3>2. Append(acc.obs, o) \in Seq(Answers) /\ acc.obs \in Seq(Answers)
      <4>1. acc.obs \in Seq(Answers)
        BY <2>1 DEF Accs
      <4> QED BY <4>1
    <3>0. \A k : /\ k # key => Only(Append(acc.obs, o), {k}) = Only(acc.obs, {k})
                 /\ k = key => Only(Append(acc.obs, o), {k}) = Append(Only(acc.obs, {k}), o)
      BY <3>2, AppendToOnly DEF key
    <3>3. next \in Accs /\ next.obs = Append(acc.obs, o)
      BY <2>1, <3>1, <3>2, AccFields
    <3>4. Keys(next.obs) = Keys(base) \union Keys(t)
      BY <2>1, <2>3, <3>2, <3>3, KeysUnfold DEF key
    <3>5. ASSUME NEW k \in Keys(base) \union Keys(t)
          PROVE  Only(next.obs, {k}) =
                     IF Only(base, {k}) = <<>> THEN SubSeq(Only(t, {k}), 1, 1)
                                               ELSE Only(base, {k})
      <4>1. CASE k # key
        <5>1. Only(next.obs, {k}) = Only(acc.obs, {k})
          BY <3>0, <3>3, <4>1
        <5>2. k \in Keys(base) \union Keys(s)
          BY <2>3, <4>1
        <5> QED BY <2>1, <2>4, <4>1, <5>1, <5>2
      <4>2. CASE k = key
        <5>1. k \notin Keys(base) /\ k \notin Keys(s) /\ k \notin Keys(acc.obs)
          BY <2>1, <2>7, <4>2
        <5>2. Only(base, {k}) = <<>> /\ Only(s, {k}) = <<>> /\ Only(acc.obs, {k}) = <<>>
          BY <3>2, <5>1, OnlyIsEmpty
        <5>3. Only(next.obs, {k}) = Append(<<>>, o)
          BY <3>0, <3>3, <4>2, <5>2
        <5>4. Only(t, {k}) = Append(<<>>, o)
          BY <2>4, <4>2, <5>2
        <5>5. SubSeq(Append(<<>>, o), 1, 1) = Append(<<>>, o)
          BY Ends
        <5> QED BY <5>2, <5>3, <5>4, <5>5
      <4> QED BY <4>1, <4>2
    <3>6. PrimaryKeeps(base, t)
      BY <3>3, <3>4, <3>5 DEF PrimaryKeeps, next, t
    <3> QED BY <2>3, <3>6 DEF t
  <2> QED BY <2>6, <2>7
<1>3. Seq(Answers) \subseteq P
  <2> HIDE DEF P
  <2> QED BY <1>1, <1>2, OverRetained!SequenceInduction
<1> QED BY <1>3

SecondaryKeeps(base, other) ==
    LET acc == FoldLeft(PreferSecondary, Start(base), other)
    IN  /\ acc \in Accs /\ Keys(acc.obs) = Keys(base) \union Keys(other)
        /\ \A k : Only(acc.obs, {k}) =
                      IF Only(other, {k}) = <<>> THEN Only(base, {k})
                                                 ELSE <<Last(Only(other, {k}))>>

LEMMA PreferSecondaryKeeps ==
    ASSUME NEW base \in Seq(Answers)
    PROVE  \A other \in Seq(Answers) : SecondaryKeeps(base, other)
<1> DEFINE P == {s \in Seq(Answers) : SecondaryKeeps(base, s)}
<1>1. <<>> \in P
  <2>1. FoldLeft(PreferSecondary, Start(base), <<>>) = Start(base)
    BY MergeFolds
  <2>2. Start(base) \in Accs /\ Start(base).obs = base
    BY DEF Start, Accs
  <2>3. Keys(<<>>) = {} /\ \A k : Only(<<>>, k) = <<>>
    BY OnlyOfNothing DEF Keys
  <2>4. SecondaryKeeps(base, <<>>)
    BY <2>1, <2>2, <2>3 DEF SecondaryKeeps
  <2> QED BY <2>4
<1>2. ASSUME NEW s \in Seq(Answers), NEW o \in Answers, s \in P
      PROVE  Append(s, o) \in P
  <2> DEFINE acc == FoldLeft(PreferSecondary, Start(base), s)
             next == FoldLeft(PreferSecondary, Start(base), Append(s, o))
             t == Append(s, o)
             key == Key(o)
             rest == Only(acc.obs, Keys(acc.obs) \ {key})
  <2>1. /\ acc \in Accs /\ Keys(acc.obs) = Keys(base) \union Keys(s)
        /\ \A k : Only(acc.obs, {k}) =
                      IF Only(s, {k}) = <<>> THEN Only(base, {k})
                                             ELSE <<Last(Only(s, {k}))>>
    BY <1>2 DEF SecondaryKeeps
  <2>2. next = PreferSecondary(acc, o)
    BY ZenonT(40), MergeFolds
  <2>3. t \in Seq(Answers) /\ Keys(t) = Keys(s) \union {key}
    BY KeysUnfold
  <2>4. \A k : /\ k # key => Only(t, {k}) = Only(s, {k})
               /\ k = key => Only(t, {k}) = Append(Only(s, {k}), o)
    BY AppendToOnly
  <2>5. \A k : Only(s, {k}) \in Seq(Answers)
    BY OnlyUnfolds
  <2>6. \A k : k = key => Only(t, {k}) # <<>> /\ Last(Only(t, {k})) = o
    <3> SUFFICES ASSUME NEW k, k = key PROVE Only(t, {k}) # <<>> /\ Last(Only(t, {k})) = o
      OBVIOUS
    <3>1. Only(t, {k}) = Append(Only(s, {k}), o)
      BY <2>4
    <3>2. Append(Only(s, {k}), o) # <<>> /\ Last(Append(Only(s, {k}), o)) = o
      BY <2>5, Ends
    <3> QED BY <3>1, <3>2
  <2>7. acc.obs \in Seq(Answers)
    BY <2>1 DEF Accs
  \* Whether or not there was one, the new answer is the only one of its key.
  <2>8. \E left \in Seq(Answers) :
            /\ next \in Accs /\ next.obs = Append(left, o)
            /\ Keys(left) = Keys(acc.obs) \ {key}
            /\ \A k : Only(left, {k}) = IF k = key THEN <<>> ELSE Only(acc.obs, {k})
    <3> HIDE DEF acc, next, t, key
    <3>1. CASE key \in Keys(acc.obs)
      <4>1. next = [obs |-> Append(rest, o), collisions |-> acc.collisions + 1]
        BY <2>2, <3>1 DEF PreferSecondary, key
      <4>2. rest \in Seq(Answers)
        BY <2>7, OnlyUnfolds
      <4>3. /\ Keys(rest) = Keys(acc.obs) \ {key}
            /\ \A k : Only(rest, {k}) =
                          IF k \in Keys(acc.obs) \ {key} THEN Only(acc.obs, {k}) ELSE <<>>
        <5>1. Keys(acc.obs) \intersect (Keys(acc.obs) \ {key}) = Keys(acc.obs) \ {key}
          OBVIOUS
        <5> QED BY <2>7, <5>1, OnlyKeeps
      <4>4. \A k : k \notin Keys(acc.obs) => Only(acc.obs, {k}) = <<>>
        BY <2>7, OnlyIsEmpty
      <4> HIDE DEF rest
      <4>5. \A k : Only(rest, {k}) = IF k = key THEN <<>> ELSE Only(acc.obs, {k})
        BY <4>3, <4>4
      <4>6. Append(rest, o) \in Seq(Answers)
        BY <4>2
      <4>7. next \in Accs /\ next.obs = Append(rest, o)
        BY <2>1, <4>1, <4>6, AccFields
      <4> QED BY <4>2, <4>3, <4>5, <4>7
    <3>2. CASE key \notin Keys(acc.obs)
      <4>1. next = [acc EXCEPT !.obs = Append(acc.obs, o)]
        BY <2>2, <3>2 DEF PreferSecondary, Append1, key
      <4>2. Append(acc.obs, o) \in Seq(Answers)
        BY <2>7
      <4>3. next \in Accs /\ next.obs = Append(acc.obs, o)
        BY <2>1, <4>1, <4>2, AccFields
      <4>4. Only(acc.obs, {key}) = <<>>
        BY <2>7, <3>2, OnlyIsEmpty
      <4>5. Keys(acc.obs) = Keys(acc.obs) \ {key}
        BY <3>2
      <4> QED BY <2>7, <4>3, <4>4, <4>5
    <3> QED BY <3>1, <3>2
  <2> HIDE DEF acc, next, t, key, rest
  <2>9. PICK left \in Seq(Answers) :
            /\ next \in Accs /\ next.obs = Append(left, o)
            /\ Keys(left) = Keys(acc.obs) \ {key}
            /\ \A k : Only(left, {k}) = IF k = key THEN <<>> ELSE Only(acc.obs, {k})
    BY <2>8
  <2>10. Keys(next.obs) = Keys(base) \union Keys(t)
    <3>1. Keys(next.obs) = Keys(left) \union {key}
      BY <2>9, KeysUnfold DEF key
    <3> QED BY <2>1, <2>3, <2>9, <3>1
  <2>11. ASSUME NEW k
         PROVE  Only(next.obs, {k}) = IF Only(t, {k}) = <<>> THEN Only(base, {k})
                                                             ELSE <<Last(Only(t, {k}))>>
    <3>0. \A j : /\ j # key => Only(Append(left, o), {j}) = Only(left, {j})
                 /\ j = key => Only(Append(left, o), {j}) = Append(Only(left, {j}), o)
      BY <2>9, AppendToOnly DEF key
    <3>1. CASE k # key
      <4>1. Only(next.obs, {k}) = Only(acc.obs, {k})
        BY <2>9, <3>0, <3>1
      <4> QED BY <2>1, <2>4, <3>1, <4>1
    <3>2. CASE k = key
      <4>1. Only(next.obs, {k}) = Append(<<>>, o)
        BY <2>9, <3>0, <3>2
      <4>2. Append(<<>>, o) = <<o>>
        BY Ends
      <4> QED BY <2>6, <3>2, <4>1, <4>2
    <3> QED BY <3>1, <3>2
  <2>12. SecondaryKeeps(base, t)
    BY <2>9, <2>10, <2>11 DEF SecondaryKeeps, next, t
  <2> QED BY <2>3, <2>12 DEF t
<1>3. Seq(Answers) \subseteq P
  <2> HIDE DEF P
  <2> QED BY <1>1, <1>2, OverRetained!SequenceInduction
<1> QED BY <1>3

LEMMA BothKeep ==
    ASSUME NEW base \in Seq(Answers)
    PROVE  \A other \in Seq(Answers) :
               /\ Keys(base \o other) = Keys(base) \union Keys(other)
               /\ \A k : Only(base \o other, {k}) = Only(base, {k}) \o Only(other, {k})
<1> DEFINE Good(s) == /\ Keys(base \o s) = Keys(base) \union Keys(s)
                      /\ \A k : Only(base \o s, {k}) = Only(base, {k}) \o Only(s, {k})
           P == {s \in Seq(Answers) : Good(s)}
<1>0. \A k : Only(base, {k}) \in Seq(Answers)
  BY OnlyUnfolds
<1>1. <<>> \in P
  <2>1. base \o <<>> = base /\ \A s \in Seq(Answers) : s \o <<>> = s
    OBVIOUS
  <2>2. Keys(<<>>) = {} /\ \A k : Only(<<>>, k) = <<>>
    BY OnlyOfNothing DEF Keys
  <2>3. Good(<<>>)
    BY <1>0, <2>1, <2>2
  <2>4. <<>> \in Seq(Answers)
    OBVIOUS
  <2> HIDE DEF Good
  <2> QED BY <2>3, <2>4
<1>2. ASSUME NEW s \in Seq(Answers), NEW o \in Answers, s \in P
      PROVE  Append(s, o) \in P
  <2>1. Good(s)
    <3> HIDE DEF Good
    <3> QED BY <1>2
  <2> DEFINE both == base \o s
             t == Append(s, o)
  <2>2. both \in Seq(Answers) /\ t \in Seq(Answers) /\ base \o t = Append(both, o)
    OBVIOUS
  <2>3. Keys(Append(both, o)) = Keys(both) \union {Key(o)} /\ Keys(t) = Keys(s) \union {Key(o)}
    BY <2>2, KeysUnfold
  <2>4. ASSUME NEW k
        PROVE  Only(Append(both, o), {k}) = Only(base, {k}) \o Only(t, {k})
    <3>1. Only(both, {k}) = Only(base, {k}) \o Only(s, {k})
      BY <2>1
    <3>2. Only(s, {k}) \in Seq(Answers) /\ Only(base, {k}) \in Seq(Answers)
      BY OnlyUnfolds
    <3>3. /\ k # Key(o) => /\ Only(Append(both, o), {k}) = Only(both, {k})
                           /\ Only(t, {k}) = Only(s, {k})
          /\ k = Key(o) => /\ Only(Append(both, o), {k}) = Append(Only(both, {k}), o)
                           /\ Only(t, {k}) = Append(Only(s, {k}), o)
      BY <2>2, AppendToOnly
    <3>4. Append(Only(base, {k}) \o Only(s, {k}), o) = Only(base, {k}) \o Append(Only(s, {k}), o)
      <4> DEFINE a == Only(base, {k})
                 b == Only(s, {k})
      <4>1. a \in Seq(Answers) /\ b \in Seq(Answers) /\ <<o>> \in Seq(Answers)
        BY <3>2
      <4> HIDE DEF a, b
      <4>2. a \o b \in Seq(Answers)
        BY <4>1
      <4>3. Append(a \o b, o) = (a \o b) \o <<o>> /\ Append(b, o) = b \o <<o>>
        BY <4>1, <4>2, AppendIsConcat
      <4>4. (a \o b) \o <<o>> = a \o (b \o <<o>>)
        BY SMTT(40), <4>1, ConcatAssociative
      <4> QED BY <4>3, <4>4 DEF a, b
    <3> HIDE DEF both, t
    <3> QED BY <3>1, <3>3, <3>4
  <2> HIDE DEF both
  <2>5. Good(t)
    BY <2>1, <2>2, <2>3, <2>4 DEF both
  <2> HIDE DEF Good, t
  <2>6. t \in P
    BY <2>2, <2>5
  <2> QED BY <2>6 DEF t
<1>3. Seq(Answers) \subseteq P
  <2> HIDE DEF P
  <2> QED BY <1>1, <1>2, OverRetained!SequenceInduction
<1> QED BY <1>3

\* A merge answers every question that was answered, with the answers that outlast it.
LEMMA MergeAnswers ==
    ASSUME policy \in Policies, NEW base \in Seq(Answers), NEW other \in Seq(Answers)
    PROVE  LET m == MergeObservationsInto(base, other).obs
           IN  /\ m \in Seq(Answers)
               /\ MergeObservationsInto(base, other).collisions \in Nat
               /\ Keys(m) = Keys(base) \union Keys(other)
               /\ policy = "keep-both" => m = base \o other
               /\ \A k \in Keys(m) :
                      Only(m, {k}) = Outlasts(Only(base, {k}), Only(other, {k}))
<1> DEFINE into == MergeObservationsInto(base, other)
<1>1. CASE policy = "keep-both"
  <2>1. into = [Start(base) EXCEPT !.obs = base \o other]
    BY <1>1 DEF MergeObservationsInto, Start
  <2>2. into.obs = base \o other /\ into.collisions = 0
    BY <2>1 DEF Start
  <2>3. base \o other \in Seq(Answers)
    OBVIOUS
  <2>4. /\ Keys(base \o other) = Keys(base) \union Keys(other)
        /\ \A k : Only(base \o other, {k}) = Only(base, {k}) \o Only(other, {k})
    BY BothKeep
  <2>5. \A s, t : Outlasts(s, t) = s \o t
    BY <1>1 DEF Outlasts
  <2>6. into.obs \in Seq(Answers) /\ into.collisions \in Nat
    BY <2>2, <2>3
  <2>7. /\ Keys(into.obs) = Keys(base) \union Keys(other)
        /\ \A k : Only(into.obs, {k}) = Outlasts(Only(base, {k}), Only(other, {k}))
    <3> HIDE DEF into
    <3> QED BY <2>2, <2>4, <2>5
  <2> QED BY <2>2, <2>6, <2>7
<1>2. CASE policy = "prefer-primary"
  <2>1. into = FoldLeft(PreferPrimary, Start(base), other)
    BY <1>2 DEF MergeObservationsInto, Start
  <2>2. PrimaryKeeps(base, other)
    BY PreferPrimaryKeeps
  <2>3. \A s, t : Outlasts(s, t) = IF s = <<>> THEN SubSeq(t, 1, 1) ELSE s
    BY <1>2 DEF Outlasts
  <2>4. into.obs \in Seq(Answers) /\ into.collisions \in Nat
    BY <2>1, <2>2, AccFields DEF PrimaryKeeps
  <2>5. /\ Keys(into.obs) = Keys(base) \union Keys(other)
        /\ \A k \in Keys(into.obs) :
               Only(into.obs, {k}) = Outlasts(Only(base, {k}), Only(other, {k}))
    BY <2>1, <2>2, <2>3 DEF PrimaryKeeps
  <2> QED BY <1>2, <2>4, <2>5
<1>3. CASE policy = "prefer-secondary"
  <2>1. into = FoldLeft(PreferSecondary, Start(base), other)
    BY <1>3 DEF MergeObservationsInto, Start
  <2>2. SecondaryKeeps(base, other)
    BY PreferSecondaryKeeps
  <2>3. \A s, t : Outlasts(s, t) = IF t = <<>> THEN s ELSE <<Last(t)>>
    BY <1>3 DEF Outlasts
  <2>4. into.obs \in Seq(Answers) /\ into.collisions \in Nat
    BY <2>1, <2>2, AccFields DEF SecondaryKeeps
  <2>5. /\ Keys(into.obs) = Keys(base) \union Keys(other)
        /\ \A k : Only(into.obs, {k}) = Outlasts(Only(base, {k}), Only(other, {k}))
    BY <2>1, <2>2, <2>3 DEF SecondaryKeeps
  <2> QED BY <1>3, <2>4, <2>5
<1> QED BY <1>1, <1>2, <1>3 DEF Policies

-----------------------------------------------------------------------------
(* The report of a record more.                                            *)

Reports == [noResult : Nat, drawn : Nat, decisive : Nat, noCp : Nat, deadband : Nat,
            evaluated : Nat, conflicts : Nat, groups : SUBSET Tallies]
LineCount(r) == r.noResult + r.drawn + r.decisive
CpCount(r) == r.evaluated + r.deadband
PairCount(rec) == Cardinality(ScoredPairs(rec))

AddsUp(r) ==
    /\ r \in Reports /\ Keyed(r.groups) /\ r.decisive <= r.noCp + CpCount(r)
    /\ r.evaluated = Sum(r.groups, 3) /\ r.conflicts = Sum(r.groups, 4)

LEMMA LabelledFields ==
    ASSUME NEW rec \in LabelledRecords
    PROVE  /\ rec.occurrence \in STRING /\ rec.black \in BOOLEAN /\ rec.stable \in BOOLEAN
           /\ rec.result \in {"black", "white", "draw", "none"} /\ rec.obs \in Seq(Answers)
BY DEF LabelledRecords

\* An answer is judged, undecided or has no score.
Nested(V, S, J, A) == IsFiniteSet(V) /\ S \subseteq V /\ J \subseteq S /\ A \subseteq J

LEMMA PartsOfScores ==
    ASSUME NEW S, IsFiniteSet(S), NEW J \in SUBSET S
    PROVE  Cardinality(S) = Cardinality(S \ J) + Cardinality(J)
<1>1. IsFiniteSet(J) /\ S \cap J = J
  BY FS_Subset
<1>2. Cardinality(S \ J) = Cardinality(S) - Cardinality(J)
  BY <1>1, FS_Difference
<1>3. Cardinality(S) \in Nat /\ Cardinality(J) \in Nat
  BY <1>1, FS_CardinalityType
<1> QED BY <1>2, <1>3

LEMMA PartsOfVotes ==
    ASSUME NEW V, NEW S, NEW J, NEW A, Nested(V, S, J, A)
    PROVE  /\ IsFiniteSet(J)
           /\ Cardinality(V) \in Nat /\ Cardinality(V \ S) \in Nat
           /\ Cardinality(S \ J) \in Nat /\ Cardinality(J) \in Nat /\ Cardinality(A) \in Nat
           /\ Cardinality(V) = Cardinality(V \ S) + Cardinality(S \ J) + Cardinality(J)
<1>0. IsFiniteSet(V) /\ S \subseteq V /\ J \subseteq S /\ A \subseteq J
  BY DEF Nested
<1>1. IsFiniteSet(S) /\ IsFiniteSet(J) /\ IsFiniteSet(A)
  <2>1. IsFiniteSet(S)
    BY <1>0, FS_Subset
  <2>2. IsFiniteSet(J)
    BY <1>0, <2>1, FS_Subset
  <2> QED BY <1>0, <2>1, <2>2, FS_Subset
<1>2. /\ IsFiniteSet(V \ S) /\ IsFiniteSet(S \ J)
      /\ Cardinality(V \ S) = Cardinality(V) - Cardinality(V \cap S)
      /\ Cardinality(S \ J) = Cardinality(S) - Cardinality(S \cap J)
  BY <1>0, <1>1, FS_Difference
<1>3. V \cap S = S /\ S \cap J = J
  BY <1>0
<1>4. /\ Cardinality(V) \in Nat /\ Cardinality(V \ S) \in Nat /\ Cardinality(S) \in Nat
      /\ Cardinality(S \ J) \in Nat /\ Cardinality(J) \in Nat /\ Cardinality(A) \in Nat
  <2>1. \A T : IsFiniteSet(T) => Cardinality(T) \in Nat
    BY FS_CardinalityType
  <2> QED BY <1>0, <1>1, <1>2, <2>1
<1>5. /\ Cardinality(V \ S) = Cardinality(V) - Cardinality(S)
      /\ Cardinality(S \ J) = Cardinality(S) - Cardinality(J)
  BY <1>2, <1>3
<1>6. Cardinality(V) = Cardinality(V \ S) + Cardinality(S \ J) + Cardinality(J)
  BY <1>4, <1>5
<1> QED BY <1>1, <1>4, <1>6

VotesOf(rec) == DeepestOf(rec.obs)
ScoredOf(rec) == {i \in VotesOf(rec) : ~rec.obs[i].mate}
JudgedOf(rec) == {i \in ScoredOf(rec) : ~InDeadband(rec, rec.obs[i])}
AgainstOf(rec) == {i \in JudgedOf(rec) : Conflict(rec, rec.obs[i])}
VoteOf(rec) == [i \in JudgedOf(rec) |->
                   <<rec.obs[i].engine, rec.obs[i].weight, i \in AgainstOf(rec)>>]
Unscored(rec) ==
    IF VotesOf(rec) = {} THEN 1 ELSE Cardinality(VotesOf(rec) \ ScoredOf(rec))

LEMMA DecidedFields ==
    ASSUME NEW r \in Reports, NEW rec \in LabelledRecords
    PROVE  Decided(r, rec) =
               [noResult |-> r.noResult, drawn |-> r.drawn, decisive |-> r.decisive + 1,
                noCp |-> r.noCp + Unscored(rec),
                deadband |-> r.deadband + Cardinality(ScoredOf(rec) \ JudgedOf(rec)),
                evaluated |-> r.evaluated + Cardinality(JudgedOf(rec)),
                conflicts |-> r.conflicts + Cardinality(AgainstOf(rec)),
                groups |-> FoldFunction(InGroup, r.groups, VoteOf(rec))]
<1> DEFINE new == [decisive |-> r.decisive + 1, noCp |-> r.noCp + Unscored(rec),
                   deadband |-> r.deadband + Cardinality(ScoredOf(rec) \ JudgedOf(rec)),
                   evaluated |-> r.evaluated + Cardinality(JudgedOf(rec)),
                   conflicts |-> r.conflicts + Cardinality(AgainstOf(rec)),
                   groups |-> FoldFunction(InGroup, r.groups, VoteOf(rec))]
<1>1. Decided(r, rec) =
          [r EXCEPT !.decisive = new.decisive, !.noCp = new.noCp, !.deadband = new.deadband,
                    !.evaluated = new.evaluated, !.conflicts = new.conflicts,
                    !.groups = new.groups]
  BY DEF Decided, VotesOf, ScoredOf, JudgedOf, AgainstOf, VoteOf, Unscored
<1> HIDE DEF new
<1>2. Decided(r, rec) =
          [noResult |-> r.noResult, drawn |-> r.drawn, decisive |-> new.decisive,
           noCp |-> new.noCp, deadband |-> new.deadband, evaluated |-> new.evaluated,
           conflicts |-> new.conflicts, groups |-> new.groups]
  BY <1>1 DEF Reports
<1> QED BY <1>2 DEF new

\* The scores that are counted are of different engines.
LEMMA ScoredAreApart ==
    ASSUME NEW rec \in LabelledRecords, rec.result \in {"black", "white"}
    PROVE  PairCount(rec) \in Nat /\ Cardinality(ScoredOf(rec)) <= PairCount(rec)
<1> DEFINE D == {i \in DOMAIN rec.obs : ~rec.obs[i].mate}
           S == ScoredOf(rec)
           P == ScoredPairs(rec)
           f == [i \in D |-> <<rec.obs[i].engine, rec.obs[i].weight>>]
           g == [i \in S |-> <<rec.obs[i].engine, rec.obs[i].weight>>]
<1>1. /\ S \subseteq D /\ IsFiniteSet(D) /\ \A i \in DOMAIN rec.obs : rec.obs[i].depth \in Nat
  <2>1. rec.obs \in Seq(Answers)
    BY LabelledFields
  <2>2. DOMAIN rec.obs = 1..Len(rec.obs) /\ Len(rec.obs) \in Nat
    BY <2>1
  <2>3. IsFiniteSet(D)
    <3>1. PICK n \in Nat : DOMAIN rec.obs = 1..n
      BY <2>2
    <3>2. IsFiniteSet(1..n)
      BY FS_Interval
    <3>3. IsFiniteSet(DOMAIN rec.obs)
      BY <3>1, <3>2
    <3> QED BY <3>3, FS_Subset
  <2>4. \A i \in DOMAIN rec.obs : rec.obs[i] \in Answers
    BY <2>1
  <2> QED BY <2>3, <2>4 DEF ScoredOf, VotesOf, DeepestOf, Answers
<1>2. P = {<<rec.obs[i].engine, rec.obs[i].weight>> : i \in D}
  BY DEF ScoredPairs
<1>3. IsFiniteSet(P)
  <2>1. f \in Surjection(D, P)
    BY <1>2 DEF Surjection
  <2> HIDE DEF f, D, P
  <2> QED BY <1>1, <2>1, FS_Surjection
<1>4. \A i \in S : g[i] \in P
  BY <1>1, <1>2
<1>5. ASSUME NEW i \in S, NEW j \in S, g[i] = g[j] PROVE i = j
  <2>1. rec.obs[i].engine = rec.obs[j].engine
    BY <1>5
  <2>2. i \in DOMAIN rec.obs /\ j \in DOMAIN rec.obs /\ i \in Nat /\ j \in Nat
    <3>1. rec.obs \in Seq(Answers)
      BY LabelledFields
    <3> QED BY <1>1, <3>1
  <2>3. /\ rec.obs[j].depth < rec.obs[i].depth \/ (rec.obs[j].depth = rec.obs[i].depth /\ i <= j)
        /\ rec.obs[i].depth < rec.obs[j].depth \/ (rec.obs[i].depth = rec.obs[j].depth /\ j <= i)
    BY <2>1, <2>2 DEF ScoredOf, VotesOf, DeepestOf
  <2> QED BY <1>1, <2>2, <2>3
<1>6. g \in Injection(S, P)
  <2>1. g \in [S -> P]
    BY <1>4
  <2>2. \A i, j \in S : g[i] = g[j] => i = j
    BY <1>5
  <2> HIDE DEF g, S, P
  <2> QED BY <2>1, <2>2 DEF Injection, IsInjective
<1>7. PairCount(rec) \in Nat
  BY <1>3, FS_CardinalityType DEF PairCount
<1>8. Cardinality(S) <= Cardinality(P)
  <2> HIDE DEF g, S, P
  <2> QED BY <1>3, <1>6, FS_Injection
<1> QED BY <1>7, <1>8 DEF PairCount

\* What is decided of a record adds up.
LEMMA DecidedAdds ==
    ASSUME NEW r, AddsUp(r), NEW rec \in LabelledRecords, rec.result \in {"black", "white"}
    PROVE  /\ AddsUp(Decided(r, rec))
           /\ LineCount(Decided(r, rec)) = LineCount(r) + 1
           /\ CpCount(Decided(r, rec)) <= CpCount(r) + PairCount(rec)
<1> DEFINE V == VotesOf(rec)
           S == ScoredOf(rec)
           J == JudgedOf(rec)
           A == AgainstOf(rec)
           vote == VoteOf(rec)
           after == FoldFunction(InGroup, r.groups, vote)
           q == Decided(r, rec)
<1>1. rec.obs \in Seq(Answers)
  BY LabelledFields
<1>2. IsFiniteSet(V) /\ V \subseteq DOMAIN rec.obs
  BY <1>1, VotesAreFinite DEF VotesOf
<1>3. S \in SUBSET V /\ J \in SUBSET S /\ A \in SUBSET J
  BY DEF ScoredOf, JudgedOf, AgainstOf
<1>4. /\ IsFiniteSet(J)
      /\ Cardinality(V) \in Nat /\ Cardinality(V \ S) \in Nat
      /\ Cardinality(S \ J) \in Nat /\ Cardinality(J) \in Nat /\ Cardinality(A) \in Nat
      /\ Cardinality(V) = Cardinality(V \ S) + Cardinality(S \ J) + Cardinality(J)
      /\ Cardinality(S) = Cardinality(S \ J) + Cardinality(J)
  <2> HIDE DEF V, S, J, A
  <2>1. Nested(V, S, J, A)
    BY <1>2, <1>3 DEF Nested
  <2>2. /\ IsFiniteSet(J)
        /\ Cardinality(V) \in Nat /\ Cardinality(V \ S) \in Nat
        /\ Cardinality(S \ J) \in Nat /\ Cardinality(J) \in Nat /\ Cardinality(A) \in Nat
        /\ Cardinality(V) = Cardinality(V \ S) + Cardinality(S \ J) + Cardinality(J)
    BY <2>1, PartsOfVotes
  <2>3. Cardinality(S) = Cardinality(S \ J) + Cardinality(J)
    BY <1>2, <1>3, FS_Subset, PartsOfScores
  <2> QED BY <2>2, <2>3
<1>5. vote \in [J -> Votes] /\ A = {i \in J : vote[i][3]}
  <2>1. ASSUME NEW i \in J
        PROVE  /\ rec.obs[i].engine \in STRING /\ rec.obs[i].weight \in STRING
               /\ (i \in A) \in BOOLEAN
               /\ vote[i] = <<rec.obs[i].engine, rec.obs[i].weight, i \in A>>
    <3>1. i \in DOMAIN rec.obs
      BY <1>2, <1>3
    <3>2. rec.obs[i] \in Answers
      BY <1>1, <3>1
    <3>3. rec.obs[i].engine \in STRING /\ rec.obs[i].weight \in STRING
      BY <3>2 DEF Answers
    <3>4. vote[i] = <<rec.obs[i].engine, rec.obs[i].weight, i \in A>>
      BY Zenon DEF VoteOf
    <3> QED BY <3>3, <3>4
  <2>2. \A i \in J : vote[i] \in Votes
    <3> HIDE DEF J, A, vote
    <3>1. \A a, b \in STRING, c \in BOOLEAN : <<a, b, c>> \in Votes
      BY DEF Votes
    <3> QED BY <2>1, <3>1, Zenon
  <2>3. vote \in [J -> Votes]
    BY <2>2 DEF VoteOf
  <2>4. ASSUME NEW i \in J PROVE vote[i][3] <=> i \in A
    <3> DEFINE a == rec.obs[i].engine
               b == rec.obs[i].weight
               c == i \in A
    <3>1. vote[i] = <<a, b, c>>
      BY <2>1
    <3>2. c \in BOOLEAN
      BY <2>1
    <3> HIDE DEF a, b, c, vote
    <3>3. vote[i][3] = c
      BY <3>1
    <3> QED BY <3>2, <3>3 DEF c
  <2> HIDE DEF J, A, vote
  <2>5. A = {i \in J : vote[i][3]}
    BY <1>3, <2>4
  <2> QED BY <2>3, <2>5
<1>6. /\ Keyed(after)
      /\ Sum(after, 3) = Sum(r.groups, 3) + Cardinality(J)
      /\ Sum(after, 4) = Sum(r.groups, 4) + Cardinality(A)
  <2> HIDE DEF J, A, vote
  <2> QED BY <1>4, <1>5, VotesCount DEF AddsUp
<1>7. Unscored(rec) \in Nat /\ Unscored(rec) + Cardinality(S \ J) + Cardinality(J) >= 1
  <2>1. CASE V = {}
    <3>1. Unscored(rec) = 1
      BY <2>1 DEF Unscored
    <3> HIDE DEF V, S, J, A
    <3> QED BY <1>4, <3>1
  <2>2. CASE V # {}
    <3>1. Unscored(rec) = Cardinality(V \ S)
      BY <2>2 DEF Unscored
    <3> HIDE DEF V, S, J, A
    <3>2. Cardinality(V) # 0
      BY <1>2, <2>2, FS_EmptySet
    <3> QED BY <1>4, <3>1, <3>2
  <2> QED BY <2>1, <2>2
<1>8. /\ q.noResult = r.noResult /\ q.drawn = r.drawn /\ q.decisive = r.decisive + 1
      /\ q.noCp = r.noCp + Unscored(rec) /\ q.deadband = r.deadband + Cardinality(S \ J)
      /\ q.evaluated = r.evaluated + Cardinality(J)
      /\ q.conflicts = r.conflicts + Cardinality(A) /\ q.groups = after
      /\ q = [noResult |-> q.noResult, drawn |-> q.drawn, decisive |-> q.decisive,
              noCp |-> q.noCp, deadband |-> q.deadband, evaluated |-> q.evaluated,
              conflicts |-> q.conflicts, groups |-> q.groups]
  <2>1. r \in Reports
    BY DEF AddsUp
  <2> HIDE DEF S, J, A, vote
  <2> QED BY <2>1, DecidedFields DEF S, J, A, vote
<1>9. /\ r.noResult \in Nat /\ r.drawn \in Nat /\ r.decisive \in Nat /\ r.noCp \in Nat
      /\ r.deadband \in Nat /\ r.evaluated \in Nat /\ r.conflicts \in Nat
      /\ r.evaluated = Sum(r.groups, 3) /\ r.conflicts = Sum(r.groups, 4)
  BY DEF AddsUp, Reports
<1> HIDE DEF V, S, J, A, vote, after, q
<1>10. q \in Reports
  <2>1. /\ q.noResult \in Nat /\ q.drawn \in Nat /\ q.decisive \in Nat /\ q.noCp \in Nat
        /\ q.deadband \in Nat /\ q.evaluated \in Nat /\ q.conflicts \in Nat
    BY <1>4, <1>7, <1>8, <1>9
  <2>2. q.groups \in SUBSET Tallies
    BY <1>6, <1>8 DEF Keyed
  <2> QED BY <1>8, <2>1, <2>2 DEF Reports
<1>11. q.evaluated = Sum(q.groups, 3) /\ q.conflicts = Sum(q.groups, 4) /\ Keyed(q.groups)
  BY <1>6, <1>8, <1>9
<1>12. LineCount(q) = LineCount(r) + 1 /\ q.decisive <= q.noCp + CpCount(q)
  <2>1. r.decisive <= r.noCp + CpCount(r)
    BY DEF AddsUp
  <2> QED BY <1>4, <1>7, <1>8, <1>9, <2>1 DEF LineCount, CpCount
<1>13. CpCount(q) <= CpCount(r) + PairCount(rec)
  <2>1. PairCount(rec) \in Nat /\ Cardinality(S) <= PairCount(rec)
    BY ScoredAreApart DEF S
  <2>2. CpCount(q) = CpCount(r) + Cardinality(S)
    BY <1>4, <1>8, <1>9 DEF CpCount
  <2> QED BY <1>4, <1>9, <2>1, <2>2 DEF CpCount
<1> QED BY <1>10, <1>11, <1>12, <1>13 DEF AddsUp, q

LEMMA JudgedAdds ==
    ASSUME NEW r, AddsUp(r), NEW rec \in LabelledRecords
    PROVE  /\ AddsUp(Judged(r, rec))
           /\ LineCount(Judged(r, rec)) = LineCount(r) + 1
           /\ CpCount(Judged(r, rec)) <= CpCount(r) + PairCount(rec)
<1>0. r \in Reports /\ rec.result \in {"black", "white", "draw", "none"}
  BY LabelledFields DEF AddsUp
<1>1. CASE rec.result = "none"
  <2> DEFINE q == [r EXCEPT !.noResult = r.noResult + 1]
  <2>1. Judged(r, rec) = q
    BY <1>1 DEF Judged
  <2>2. PairCount(rec) = 0
    BY <1>1, FS_EmptySet DEF PairCount, ScoredPairs
  <2>3. AddsUp(q) /\ LineCount(q) = LineCount(r) + 1 /\ CpCount(q) <= CpCount(r) + 0
    BY <1>0 DEF AddsUp, LineCount, CpCount, Reports
  <2> QED BY <2>1, <2>2, <2>3
<1>2. CASE rec.result = "draw"
  <2> DEFINE q == [r EXCEPT !.drawn = r.drawn + 1]
  <2>1. Judged(r, rec) = q
    BY <1>2 DEF Judged
  <2>2. PairCount(rec) = 0
    BY <1>2, FS_EmptySet DEF PairCount, ScoredPairs
  <2>3. AddsUp(q) /\ LineCount(q) = LineCount(r) + 1 /\ CpCount(q) <= CpCount(r) + 0
    BY <1>0 DEF AddsUp, LineCount, CpCount, Reports
  <2> QED BY <2>1, <2>2, <2>3
<1>3. CASE rec.result \in {"black", "white"}
  <2>1. Judged(r, rec) = Decided(r, rec)
    BY <1>3 DEF Judged
  <2> QED BY <1>3, <2>1, DecidedAdds
<1> QED BY <1>0, <1>1, <1>2, <1>3

-----------------------------------------------------------------------------
(* Colors exchanged.                                                       *)

LEMMA MirroredFields ==
    ASSUME NEW rec \in LabelledRecords
    PROVE  /\ Mirrored(rec) \in LabelledRecords /\ Mirrored(rec).obs = rec.obs
           /\ Mirrored(rec).black = ~ rec.black
           /\ rec.result = "black" => Mirrored(rec).result = "white"
           /\ rec.result = "white" => Mirrored(rec).result = "black"
           /\ rec.result \in {"draw", "none"} => Mirrored(rec).result = rec.result
BY DEF Mirrored, LabelledRecords

LEMMA ScoresMirror ==
    ASSUME NEW rec \in LabelledRecords, rec.result \in {"black", "white"}, NEW o \in Answers
    PROVE  /\ InDeadband(Mirrored(rec), o) <=> InDeadband(rec, o)
           /\ Conflict(Mirrored(rec), o) <=> Conflict(rec, o)
<1> DEFINE mir == Mirrored(rec)
<1>1. /\ mir.black = ~ rec.black /\ rec.black \in BOOLEAN
      /\ rec.result = "black" => mir.result = "white"
      /\ rec.result = "white" => mir.result = "black"
  BY MirroredFields, LabelledFields
<1>2. o.cp \in Int /\ MinAbsCp \in Int
  BY RelabelAssumption DEF Answers
<1> HIDE DEF mir
<1>3. BlackScore(rec, o) \in Int /\ BlackScore(mir, o) = -BlackScore(rec, o)
  <2>1. CASE rec.black
    BY <1>1, <1>2, <2>1 DEF BlackScore
  <2>2. CASE ~ rec.black
    <3> DEFINE c == o.cp
    <3>1. c \in Int /\ BlackScore(rec, o) = -c /\ BlackScore(mir, o) = c
      BY <1>1, <1>2, <2>2 DEF BlackScore
    <3> HIDE DEF c
    <3> QED BY <3>1
  <2> QED BY <2>1, <2>2
<1>4. InDeadband(mir, o) <=> InDeadband(rec, o)
  BY <1>2, <1>3 DEF InDeadband
<1>5. Conflict(mir, o) <=> Conflict(rec, o)
  BY <1>1, <1>3 DEF Conflict
<1> QED BY <1>4, <1>5 DEF mir

LEMMA MirroredAlike ==
    ASSUME NEW r \in Reports, NEW rec \in LabelledRecords
    PROVE  JudgedMirrored(r, rec) = Judged(r, rec)
<1> DEFINE mir == Mirrored(rec)
<1>1. /\ mir \in LabelledRecords /\ mir.obs = rec.obs
      /\ rec.result = "black" => mir.result = "white"
      /\ rec.result = "white" => mir.result = "black"
      /\ rec.result \in {"draw", "none"} => mir.result = rec.result
  BY MirroredFields
<1>2. rec.obs \in Seq(Answers) /\ rec.result \in {"black", "white", "draw", "none"}
  BY LabelledFields
<1>3. CASE rec.result \in {"draw", "none"}
  <2> HIDE DEF mir
  <2>1. Judged(r, mir) = Judged(r, rec)
    BY <1>1, <1>3 DEF Judged
  <2> QED BY <2>1 DEF JudgedMirrored, mir
<1>4. CASE rec.result \in {"black", "white"}
  <2>1. VotesOf(mir) = VotesOf(rec) /\ VotesOf(rec) \subseteq DOMAIN rec.obs
    BY <1>1 DEF VotesOf, DeepestOf
  <2>2. \A i \in DOMAIN rec.obs :
            /\ InDeadband(mir, mir.obs[i]) <=> InDeadband(rec, rec.obs[i])
            /\ Conflict(mir, mir.obs[i]) <=> Conflict(rec, rec.obs[i])
    <3> SUFFICES ASSUME NEW i \in DOMAIN rec.obs
                 PROVE  /\ InDeadband(mir, mir.obs[i]) <=> InDeadband(rec, rec.obs[i])
                        /\ Conflict(mir, mir.obs[i]) <=> Conflict(rec, rec.obs[i])
      OBVIOUS
    <3>1. rec.obs[i] \in Answers /\ mir.obs[i] = rec.obs[i]
      BY <1>1, <1>2
    <3> QED BY <1>4, <3>1, ScoresMirror
  <2> HIDE DEF mir
  <2>3. ScoredOf(mir) = ScoredOf(rec)
    BY <1>1, <2>1 DEF ScoredOf
  <2>4. JudgedOf(mir) = JudgedOf(rec)
    <3>1. \A i \in ScoredOf(rec) : InDeadband(mir, mir.obs[i]) <=> InDeadband(rec, rec.obs[i])
      BY <2>1, <2>2 DEF ScoredOf
    <3> QED BY <2>3, <3>1 DEF JudgedOf
  <2>5. AgainstOf(mir) = AgainstOf(rec)
    <3>1. \A i \in JudgedOf(rec) : Conflict(mir, mir.obs[i]) <=> Conflict(rec, rec.obs[i])
      BY <2>1, <2>2 DEF JudgedOf, ScoredOf
    <3> QED BY <2>4, <3>1 DEF AgainstOf
  <2>6. VoteOf(mir) = VoteOf(rec)
    BY <1>1, <2>4, <2>5, Zenon DEF VoteOf
  <2>7. Unscored(mir) = Unscored(rec)
    BY <2>1, <2>3 DEF Unscored
  <2>8. Decided(r, mir) = Decided(r, rec)
    BY <1>1, <2>3, <2>4, <2>5, <2>6, <2>7, DecidedFields
  <2>9. Judged(r, mir) = Decided(r, mir) /\ Judged(r, rec) = Decided(r, rec)
    BY <1>1, <1>4 DEF Judged
  <2> QED BY <2>8, <2>9 DEF JudgedMirrored, mir
<1> QED BY <1>2, <1>3, <1>4

-----------------------------------------------------------------------------
(* The report of the first records of a file.                              *)

ReportOf(file, n, r) ==
    /\ n <= Len(file) /\ AddsUp(r) /\ LineCount(r) = n
    /\ CpCount(r) <= Total([i \in 1..n |-> PairCount(file[i])])
    /\ r = FoldLeft(JudgedMirrored, NoReport, SubSeq(file, 1, n))

\* g is h with the value v of z more.
OneMore(h, g, z, v) ==
    /\ Summable(h) /\ z \notin DOMAIN h /\ v \in Int
    /\ DOMAIN g = (DOMAIN h) \union {z} /\ g[z] = v
    /\ \A x \in DOMAIN h : g[x] = h[x]
    /\ h = [x \in DOMAIN h |-> h[x]]

LEMMA OneMoreAdds ==
    ASSUME NEW h, NEW g, NEW z, NEW v, OneMore(h, g, z, v)
    PROVE  Summable(g) /\ Total(g) = Total(h) + v
<1>1. Summable(h)
  BY DEF OneMore
<1>2. z \notin DOMAIN h
  BY DEF OneMore
<1>3. v \in Int
  BY DEF OneMore
<1>4. DOMAIN g = (DOMAIN h) \union {z}
  BY DEF OneMore
<1>5. g[z] = v
  BY DEF OneMore
<1>6. \A x \in DOMAIN h : g[x] = h[x]
  BY DEF OneMore
<1>7. h = [x \in DOMAIN h |-> h[x]]
  BY DEF OneMore
<1> QED BY <1>1, <1>2, <1>3, <1>4, <1>5, <1>6, <1>7, TotalAdds

LEMMA PairsAreCounted ==
    ASSUME NEW rec \in LabelledRecords
    PROVE  PairCount(rec) \in Nat
<1>1. CASE rec.result \in {"black", "white"}
  BY <1>1, ScoredAreApart
<1>2. CASE rec.result \notin {"black", "white"}
  BY <1>2, FS_EmptySet DEF PairCount, ScoredPairs
<1> QED BY <1>1, <1>2

LEMMA JudgedFolds ==
    /\ FoldLeft(JudgedMirrored, NoReport, <<>>) = NoReport
    /\ \A file \in Seq(LabelledRecords), rec \in LabelledRecords :
           FoldLeft(JudgedMirrored, NoReport, Append(file, rec)) =
               JudgedMirrored(FoldLeft(JudgedMirrored, NoReport, file), rec)
<1>1. \A s : FoldLeft(JudgedMirrored, NoReport, s) = OverJudged!Fold(NoReport, s, DOMAIN s)
  BY DEF FoldLeft, MapThenFoldSet, OverJudged!Fold, OverJudged!Upto, OverJudged!FoldOver
<1>2. OverJudged!Fold(NoReport, <<>>, DOMAIN <<>>) = NoReport
  BY AllRightmost, OverJudged!FoldOfNothing
<1>3. ASSUME NEW file \in Seq(LabelledRecords), NEW rec \in LabelledRecords
      PROVE  FoldLeft(JudgedMirrored, NoReport, Append(file, rec)) =
                 JudgedMirrored(FoldLeft(JudgedMirrored, NoReport, file), rec)
  <2>1. OverJudged!Fold(NoReport, Append(file, rec), DOMAIN Append(file, rec)) =
            JudgedMirrored(OverJudged!Fold(NoReport, file, DOMAIN file), rec)
    BY AllRightmost, OverJudged!FoldAppends
  <2> QED BY <1>1, <2>1
<1> QED BY <1>1, <1>2, <1>3

\* The first elements and the next.
LEMMA PrefixGrows ==
    ASSUME NEW X, NEW s \in Seq(X), NEW n \in Nat, n < Len(s)
    PROVE  /\ s[n + 1] \in X /\ SubSeq(s, 1, n) \in Seq(X)
           /\ SubSeq(s, 1, n + 1) = Append(SubSeq(s, 1, n), s[n + 1])
<1> DEFINE p == SubSeq(s, 1, n)
           q == SubSeq(s, 1, n + 1)
           t == Append(p, s[n + 1])
<1>1. /\ Len(s) \in Nat /\ n \in Int /\ n + 1 \in Int /\ 1 \in Int
      /\ \A i \in 1..n + 1 : s[i] \in X
      /\ \A i \in 1..n : s[i] \in X
  OBVIOUS
<1>2. p \in Seq(X) /\ Len(p) = n /\ \A i \in 1..n : p[i] = s[i]
  <2>1. /\ p \in Seq(X) /\ Len(p) = IF 1 <= n THEN n - 1 + 1 ELSE 0
        /\ \A i \in 1..n - 1 + 1 : p[i] = s[1 + i - 1]
    BY <1>1, SubSeqProperties
  <2> HIDE DEF p
  <2> QED BY <2>1
<1>3. q \in Seq(X) /\ Len(q) = n + 1 /\ \A i \in 1..n + 1 : q[i] = s[i]
  <2> DEFINE m == n + 1
  <2>1. m \in Nat /\ m >= 1 /\ m = n + 1
    OBVIOUS
  <2> HIDE DEF m
  <2>2. /\ SubSeq(s, 1, m) \in Seq(X) /\ Len(SubSeq(s, 1, m)) = IF 1 <= m THEN m - 1 + 1 ELSE 0
        /\ \A i \in 1..m - 1 + 1 : SubSeq(s, 1, m)[i] = s[1 + i - 1]
    BY <1>1, <2>1, SubSeqProperties
  <2>3. SubSeq(s, 1, m) = q
    BY <2>1
  <2> HIDE DEF q
  <2>4. q \in Seq(X) /\ Len(q) = m /\ \A i \in 1..m : q[i] = s[i]
    BY <2>1, <2>2, <2>3
  <2> QED BY <2>1, <2>4
<1>4. s[n + 1] \in X
  BY <1>1
<1> HIDE DEF p, q
<1>5. /\ t \in Seq(X) /\ Len(t) = n + 1 /\ t[n + 1] = s[n + 1]
      /\ \A i \in 1..n : t[i] = p[i]
  BY <1>2, <1>4
<1>6. \A i \in 1..n + 1 : q[i] = t[i]
  BY <1>2, <1>3, <1>5
<1> HIDE DEF t
<1>7. q = t
  BY <1>3, <1>5, <1>6, SeqEqual
<1> QED BY <1>2, <1>4, <1>7 DEF p, q, t

LEMMA ReportStarts ==
    ASSUME NEW file \in Seq(LabelledRecords)
    PROVE  ReportOf(file, 0, NoReport)
<1>1. AddsUp(NoReport) /\ LineCount(NoReport) = 0 /\ CpCount(NoReport) = 0
  <2>1. NoReport \in Reports
    BY DEF NoReport, Reports
  <2>2. NoReport.groups = {} /\ NoReport.evaluated = 0 /\ NoReport.conflicts = 0
    BY DEF NoReport
  <2>3. Keyed({})
    BY FS_EmptySet DEF Keyed
  <2>4. Sum({}, 3) = 0 /\ Sum({}, 4) = 0
    BY TotalOfNothing DEF Sum
  <2>5. /\ LineCount(NoReport) = 0 /\ CpCount(NoReport) = 0
        /\ NoReport.decisive <= NoReport.noCp + CpCount(NoReport)
    BY DEF LineCount, CpCount, NoReport
  <2> QED BY <2>1, <2>2, <2>3, <2>4, <2>5 DEF AddsUp
<1>2. Total([i \in 1..0 |-> PairCount(file[i])]) = 0
  BY TotalOfNothing
<1>3. SubSeq(file, 1, 0) = <<>>
  BY SubSeqEmpty
<1>4. FoldLeft(JudgedMirrored, NoReport, SubSeq(file, 1, 0)) = NoReport
  BY <1>3, JudgedFolds
<1>5. 0 <= Len(file)
  OBVIOUS
<1> QED BY <1>1, <1>2, <1>4, <1>5 DEF ReportOf

LEMMA ReportSteps ==
    ASSUME NEW file \in Seq(LabelledRecords), NEW n \in Nat, n < Len(file),
           NEW r, ReportOf(file, n, r)
    PROVE  ReportOf(file, n + 1, Judged(r, file[n + 1]))
<1> DEFINE rec == file[n + 1]
           p == SubSeq(file, 1, n)
           h == [i \in 1..n |-> PairCount(file[i])]
           g == [i \in 1..n + 1 |-> PairCount(file[i])]
<1>1. rec \in LabelledRecords /\ p \in Seq(LabelledRecords)
      /\ SubSeq(file, 1, n + 1) = Append(p, rec)
  BY PrefixGrows
<1>2. /\ AddsUp(r) /\ LineCount(r) = n /\ CpCount(r) <= Total(h)
      /\ r = FoldLeft(JudgedMirrored, NoReport, p)
  BY DEF ReportOf
<1>3. \A i \in 1..n + 1 : PairCount(file[i]) \in Int
  <2>1. \A i \in 1..n + 1 : file[i] \in LabelledRecords
    OBVIOUS
  <2>2. \A x \in LabelledRecords : PairCount(x) \in Int
    BY PairsAreCounted
  <2> QED BY <2>1, <2>2
<1>4. Summable(h) /\ Total(g) = Total(h) + PairCount(rec)
  <2>1. IsFiniteSet(1..n)
    BY FS_Interval
  <2>2. Summable(h)
    BY <1>3, <2>1 DEF Summable
  <2> DEFINE z == n + 1
             v == PairCount(rec)
  <2>3. /\ z \notin DOMAIN h /\ DOMAIN g = (DOMAIN h) \union {z}
        /\ g[z] = v /\ \A x \in DOMAIN h : g[x] = h[x]
        /\ h = [x \in DOMAIN h |-> h[x]]
    OBVIOUS
  <2>4. v \in Int
    <3>1. PairCount(rec) \in Nat
      <4> HIDE DEF rec, g, h, p, z, v
      <4> QED BY <1>1, PairsAreCounted, Zenon
    <3>2. v \in Nat
      BY <3>1
    <3> HIDE DEF v
    <3> QED BY <3>2
  <2> HIDE DEF g, h, z, v, rec, p
  <2>5. Total(g) = Total(h) + v
    <3>1. OneMore(h, g, z, v)
      BY <2>2, <2>3, <2>4, Zenon DEF OneMore
    <3> QED BY <3>1, OneMoreAdds
  <2> QED BY <2>2, <2>5 DEF v
<1>5. /\ AddsUp(Judged(r, rec)) /\ LineCount(Judged(r, rec)) = n + 1
      /\ CpCount(Judged(r, rec)) <= Total(h) + PairCount(rec)
  <2>1. /\ AddsUp(Judged(r, rec)) /\ LineCount(Judged(r, rec)) = n + 1
        /\ CpCount(Judged(r, rec)) <= CpCount(r) + PairCount(rec)
    BY <1>1, <1>2, JudgedAdds
  <2>2. \A q : AddsUp(q) => CpCount(q) \in Int
    BY DEF AddsUp, Reports, CpCount
  <2>3. Total(h) \in Int /\ PairCount(rec) \in Int
    BY <1>1, <1>4, TotalIsNumber, PairsAreCounted
  <2>4. CpCount(r) \in Int /\ CpCount(Judged(r, rec)) \in Int
    BY <1>2, <2>1, <2>2
  <2> HIDE DEF h, rec
  <2> QED BY <1>2, <2>1, <2>3, <2>4
<1>6. FoldLeft(JudgedMirrored, NoReport, SubSeq(file, 1, n + 1)) = Judged(r, rec)
  <2> HIDE DEF p, rec
  <2>1. FoldLeft(JudgedMirrored, NoReport, Append(p, rec)) = JudgedMirrored(r, rec)
    BY <1>1, <1>2, JudgedFolds
  <2>2. JudgedMirrored(r, rec) = Judged(r, rec)
    BY <1>1, <1>2, MirroredAlike DEF AddsUp
  <2> QED BY <1>1, <2>1, <2>2
<1>7. n + 1 <= Len(file)
  OBVIOUS
<1> HIDE DEF p, h, rec
<1> QED BY <1>4, <1>5, <1>6, <1>7 DEF ReportOf, rec

-----------------------------------------------------------------------------
(* merge-observations and conflict-report.                                 *)

RelabelTypes ==
    /\ phase \in {"merge", "rest", "diff", "conflicts", "end"} /\ policy \in Policies
    /\ primary \in Seq(LabelledRecords) /\ secondary \in Seq(LabelledRecords)
    /\ merged \in Seq(LabelledRecords)
    /\ cursor \in Nat

Reporting ==
    /\ phase \notin {"conflicts", "end"} => report = NoReport
    /\ phase = "diff" => cursor = 0
    /\ phase \in {"conflicts", "end"} => ReportOf(merged, cursor, report)
    /\ phase = "end" => cursor = Len(merged)

ReportingInv == RelabelTypes /\ Reporting

LEMMA FilesAreSequences == Files \subseteq Seq(LabelledRecords)
<1> SUFFICES ASSUME NEW f \in Files PROVE f \in Seq(LabelledRecords)
  OBVIOUS
<1>1. PICK n \in 0..MaxFile : f \in [1..n -> Positions]
  BY DEF Files
<1>2. n \in Nat /\ \A i \in 1..n : f[i] \in LabelledRecords
  BY <1>1, RelabelAssumption
<1>3. f \in [1..n -> LabelledRecords]
  BY <1>1, <1>2
<1> QED BY <1>2, <1>3

LEMMA WithAnswersFields ==
    ASSUME NEW rec \in LabelledRecords, NEW obs \in Seq(Answers)
    PROVE  /\ WithAnswers(rec, obs) \in LabelledRecords
           /\ WithAnswers(rec, obs).occurrence = rec.occurrence
           /\ WithAnswers(rec, obs).obs = obs
           /\ WithAnswers(rec, obs).stable = FALSE
BY DEF WithAnswers, LabelledRecords

\* A merged record.
LEMMA MergedRecord ==
    ASSUME RelabelTypes, NEW rec \in LabelledRecords, NEW i \in Partner(rec)
    PROVE  LET into == MergeObservationsInto(rec.obs, secondary[i].obs)
           IN  /\ i \in DOMAIN secondary
               /\ rec.obs \in Seq(Answers) /\ secondary[i].obs \in Seq(Answers)
               /\ into.obs \in Seq(Answers) /\ into.collisions \in Nat
               /\ WithAnswers(rec, into.obs) \in LabelledRecords
<1>1. i \in DOMAIN secondary
  BY DEF Partner
<1>2. secondary[i] \in LabelledRecords
  BY <1>1 DEF RelabelTypes
<1>3. rec.obs \in Seq(Answers) /\ secondary[i].obs \in Seq(Answers)
  BY <1>2, LabelledFields
<1> DEFINE into == MergeObservationsInto(rec.obs, secondary[i].obs)
<1>4. into.obs \in Seq(Answers) /\ into.collisions \in Nat
  BY <1>3, MergeAnswers DEF RelabelTypes
<1> HIDE DEF into
<1>5. WithAnswers(rec, into.obs) \in LabelledRecords
  BY <1>4, WithAnswersFields
<1> QED BY <1>1, <1>3, <1>4, <1>5 DEF into

LEMMA ReportingInit == RelabelInit => ReportingInv
<1> SUFFICES ASSUME RelabelInit PROVE ReportingInv
  OBVIOUS
<1>1. primary \in Seq(LabelledRecords) /\ secondary \in Seq(LabelledRecords)
  BY FilesAreSequences DEF RelabelInit
<1>2. merged \in Seq(LabelledRecords) /\ cursor \in Nat
  BY DEF RelabelInit
<1> QED BY <1>1, <1>2 DEF RelabelInit, ReportingInv, RelabelTypes, Reporting

LEMMA ReportingNext == ReportingInv /\ [RelabelNext]_relabelVars => ReportingInv'
<1> SUFFICES ASSUME RelabelTypes, Reporting, [RelabelNext]_relabelVars
             PROVE  RelabelTypes' /\ Reporting'
  BY DEF ReportingInv
<1>1. CASE MergePrimary
  <2>1. \E rec \in LabelledRecords : merged' = Append(merged, rec)
    <3> DEFINE rec == primary[cursor + 1]
    <3>1. rec \in LabelledRecords
      <4>1. cursor \in Nat /\ cursor < Len(primary) /\ primary \in Seq(LabelledRecords)
        BY <1>1 DEF MergePrimary, RelabelTypes
      <4> QED BY <4>1
    <3>2. CASE Partner(rec) = {}
      <4>1. merged' = Append(merged, rec)
        BY <1>1, <3>2 DEF MergePrimary
      <4> QED BY <3>1, <4>1
    <3>3. CASE Partner(rec) # {}
      <4>1. PICK i \in Partner(rec) :
                merged' = Append(merged,
                    WithAnswers(rec, MergeObservationsInto(rec.obs, secondary[i].obs).obs))
        BY <1>1, <3>3 DEF MergePrimary
      <4> HIDE DEF rec
      <4> QED BY <3>1, <4>1, MergedRecord
    <3> QED BY <3>2, <3>3
  <2>2. PICK rec \in LabelledRecords : merged' = Append(merged, rec)
    BY <2>1
  <2>3. merged' \in Seq(LabelledRecords)
    BY <2>2 DEF RelabelTypes
  <2>4. /\ phase = "merge" /\ cursor' = cursor + 1
        /\ UNCHANGED <<phase, policy, primary, secondary, report>>
    BY <1>1 DEF MergePrimary
  <2> QED BY <2>3, <2>4 DEF RelabelTypes, Reporting
<1>2. CASE PrimaryRead
  BY <1>2 DEF PrimaryRead, RelabelTypes, Reporting
<1>3. CASE MergeRest
  <2>1. /\ phase = "rest" /\ cursor' = cursor + 1 /\ cursor < Len(secondary)
        /\ UNCHANGED <<phase, policy, primary, secondary, report>>
        /\ merged' = merged \/ merged' = Append(merged, secondary[cursor + 1])
    BY <1>3 DEF MergeRest
  <2>2. secondary[cursor + 1] \in LabelledRecords
    BY <2>1 DEF RelabelTypes
  <2>3. merged' \in Seq(LabelledRecords)
    BY <2>1, <2>2 DEF RelabelTypes
  <2> QED BY <2>1, <2>3 DEF RelabelTypes, Reporting
<1>4. CASE MergeCommit
  BY <1>4 DEF MergeCommit, RelabelTypes, Reporting
<1>5. CASE DatasetDiff
  <2>1. /\ phase = "diff" /\ phase' = "conflicts"
        /\ UNCHANGED <<policy, primary, secondary, cursor, merged, report>>
    BY <1>5 DEF DatasetDiff
  <2>2. cursor = 0 /\ report = NoReport
    BY <2>1 DEF Reporting
  <2>3. ReportOf(merged, 0, NoReport)
    BY ReportStarts DEF RelabelTypes
  <2>4. ReportOf(merged, cursor, report)'
    BY <2>1, <2>2, <2>3
  <2> QED BY <2>1, <2>2, <2>4 DEF RelabelTypes, Reporting
<1>6. CASE ConflictLine
  <2>1. /\ phase = "conflicts" /\ cursor < Len(merged) /\ cursor' = cursor + 1
        /\ report' = Judged(report, merged[cursor + 1])
        /\ UNCHANGED <<phase, policy, primary, secondary, merged>>
    BY <1>6 DEF ConflictLine
  <2>2. ReportOf(merged, cursor, report) /\ cursor \in Nat /\ merged \in Seq(LabelledRecords)
    BY <2>1 DEF Reporting, RelabelTypes
  <2>3. ReportOf(merged, cursor + 1, Judged(report, merged[cursor + 1]))
    BY <2>1, <2>2, ReportSteps
  <2>4. ReportOf(merged, cursor, report)'
    BY <2>1, <2>3
  <2> QED BY <2>1, <2>2, <2>4 DEF RelabelTypes, Reporting
<1>7. CASE ConflictEnd
  <2>1. /\ phase = "conflicts" /\ cursor = Len(merged) /\ phase' = "end"
        /\ UNCHANGED <<policy, primary, secondary, cursor, merged, report>>
    BY <1>7 DEF ConflictEnd
  <2>2. ReportOf(merged, cursor, report)
    BY <2>1 DEF Reporting
  <2>3. ReportOf(merged, cursor, report)'
    BY <2>1, <2>2
  <2> QED BY <2>1, <2>3 DEF RelabelTypes, Reporting
<1>8. CASE UNCHANGED relabelVars
  <2>1. UNCHANGED <<phase, policy, primary, secondary, cursor, merged, report>>
    BY <1>8 DEF relabelVars
  <2>2. ReportOf(merged, cursor, report)' <=> ReportOf(merged, cursor, report)
    BY <2>1
  <2> QED BY <2>1, <2>2 DEF RelabelTypes, Reporting
<1> QED BY <1>1, <1>2, <1>3, <1>4, <1>5, <1>6, <1>7, <1>8 DEF RelabelNext

\* A report that is done adds up.
LEMMA ReportingAddsUp == ReportingInv => ConflictsAddUp
<1> SUFFICES ASSUME RelabelTypes, Reporting, phase = "end"
             PROVE  /\ Len(merged) = report.noResult + report.drawn + report.decisive
                    /\ report.decisive <= report.noCp + Voted
                    /\ Voted <=
                           Total([i \in DOMAIN merged |-> Cardinality(ScoredPairs(merged[i]))])
                    /\ report.evaluated = Total([g \in report.groups |-> g[3]])
                    /\ report.conflicts = Total([g \in report.groups |-> g[4]])
                    /\ FoldLeft(JudgedMirrored, NoReport, merged) = report
  BY DEF ReportingInv, ConflictsAddUp
<1>1. ReportOf(merged, Len(merged), report) /\ merged \in Seq(LabelledRecords)
  BY DEF RelabelTypes, Reporting
<1>2. SubSeq(merged, 1, Len(merged)) = merged /\ DOMAIN merged = 1..Len(merged)
  BY <1>1, SubSeqFull
<1>3. /\ LineCount(report) = Len(merged)
      /\ CpCount(report) <= Total([i \in 1..Len(merged) |-> PairCount(merged[i])])
      /\ report = FoldLeft(JudgedMirrored, NoReport, merged)
  BY <1>1, <1>2 DEF ReportOf
<1>4. report.evaluated = Sum(report.groups, 3) /\ report.conflicts = Sum(report.groups, 4)
  BY <1>1 DEF ReportOf, AddsUp
<1>5. Voted <= Total([i \in DOMAIN merged |-> Cardinality(ScoredPairs(merged[i]))])
  BY <1>2, <1>3 DEF CpCount, Voted, PairCount
<1>6. report.decisive <= report.noCp + Voted
  BY <1>1 DEF ReportOf, AddsUp, CpCount, Voted
<1> QED BY <1>3, <1>4, <1>5, <1>6 DEF LineCount, Sum

\* Every line is in one count, a decisive one in the counts of answers, no pair of engine
\* and weight has two votes on a record, the groups add up to the totals, and the report
\* does not see colors (diagnostics.rs 758 and 802), for any two files and each policy.
THEOREM ConflictsAlwaysAddUp == RelabelSpec => []ConflictsAddUp
<1>1. RelabelInit => ReportingInv
  BY ReportingInit
<1>2. ReportingInv /\ [RelabelNext]_relabelVars => ReportingInv'
  BY ReportingNext
<1>3. ReportingInv => ConflictsAddUp
  BY ReportingAddsUp
<1> QED BY <1>1, <1>2, <1>3, PTL DEF RelabelSpec

-----------------------------------------------------------------------------
(* What merge-observations keeps.                                          *)

\* What becomes of a record of the first file.
Survives(p, q) ==
    LET s == {secondary[i].obs : i \in Partner(p)}
    IN  /\ q.occurrence = p.occurrence
        /\ q.stable => p.stable /\ q.obs = p.obs
        /\ s = {} => q = p
        /\ \A t \in s :
             /\ Keys(q.obs) = Keys(p.obs) \union Keys(t)
             /\ policy = "keep-both" => q.obs = p.obs \o t
             /\ \A k \in Keys(q.obs) :
                    Only(q.obs, {k}) = Outlasts(Only(p.obs, {k}), Only(t, {k}))

Survivors == {pair \in LabelledRecords \X LabelledRecords : Survives(pair[1], pair[2])}
Partners == [rec \in LabelledRecords |-> Partner(rec)]

\* How many records of either file are done with.
Met == IF phase = "merge" THEN cursor ELSE Len(primary)
GoneBy == IF phase = "merge" THEN 0 ELSE IF phase = "rest" THEN cursor ELSE Len(secondary)

AloneIn(n) == {i \in 1..n : Partners[primary[i]] = {}}

Counting ==
    /\ counts.both \in Nat /\ counts.primaryOnly \in Nat
    /\ counts.secondaryOnly \in Nat /\ counts.collisions \in Nat
    /\ counts = [both |-> counts.both, primaryOnly |-> counts.primaryOnly,
                 secondaryOnly |-> counts.secondaryOnly, collisions |-> counts.collisions]
    /\ counts.both + counts.primaryOnly = Met
    /\ counts.primaryOnly = Cardinality(AloneIn(Met))
    /\ phase = "merge" => counts.secondaryOnly = 0
    /\ Len(merged) = Met + counts.secondaryOnly

Keeping ==
    /\ Met <= Len(primary) /\ GoneBy <= Len(secondary)
    /\ \A n \in 1..Met : <<primary[n], merged[n]>> \in Survivors
    /\ \A i \in consumed : \E n \in 1..Met : i \in Partners[primary[n]]
    /\ \A i \in 1..GoneBy :
           \/ i \in consumed
           \/ \E n \in Len(primary) + 1..Len(merged) : merged[n] = secondary[i]

MergingInv == ReportingInv /\ Counting /\ Keeping

LEMMA PartnerIsOne ==
    ASSUME NEW rec, NEW i \in Partner(rec), secondary \in Seq(LabelledRecords)
    PROVE  Partner(rec) = {i}
<1>1. ASSUME NEW j \in Partner(rec) PROVE j = i
  <2>1. i \in Nat /\ j \in Nat /\ i <= j /\ j <= i
    BY DEF Partner
  <2> QED BY <2>1
<1> QED BY <1>1

LEMMA AloneAdds ==
    ASSUME NEW n \in Nat
    PROVE  /\ Cardinality(AloneIn(n)) \in Nat
           /\ Partners[primary[n + 1]] = {} =>
                  Cardinality(AloneIn(n + 1)) = Cardinality(AloneIn(n)) + 1
           /\ Partners[primary[n + 1]] # {} => AloneIn(n + 1) = AloneIn(n)
<1>1. IsFiniteSet(AloneIn(n))
  <2>1. IsFiniteSet(1..n)
    BY FS_Interval
  <2>2. AloneIn(n) \in SUBSET (1..n)
    BY DEF AloneIn
  <2> QED BY <2>1, <2>2, FS_Subset
<1>2. Partners[primary[n + 1]] = {} => AloneIn(n + 1) = AloneIn(n) \union {n + 1}
  BY DEF AloneIn
<1>3. n + 1 \notin AloneIn(n)
  BY DEF AloneIn
<1>4. Cardinality(AloneIn(n) \union {n + 1}) = Cardinality(AloneIn(n)) + 1
  BY <1>1, <1>3, FS_AddElement
<1>5. Partners[primary[n + 1]] # {} => AloneIn(n + 1) = AloneIn(n)
  BY DEF AloneIn
<1>6. Cardinality(AloneIn(n)) \in Nat
  BY <1>1, FS_CardinalityType
<1> QED BY <1>2, <1>4, <1>5, <1>6

\* A record that is merged, and one that is not, survives.
LEMMA MergedSurvives ==
    ASSUME RelabelTypes, NEW rec \in LabelledRecords, NEW i \in Partner(rec)
    PROVE  <<rec, WithAnswers(rec, MergeObservationsInto(rec.obs, secondary[i].obs).obs)>>
               \in Survivors
<1> DEFINE m == MergeObservationsInto(rec.obs, secondary[i].obs).obs
           q == WithAnswers(rec, m)
           t == secondary[i].obs
<1>1. rec.obs \in Seq(Answers) /\ t \in Seq(Answers) /\ m \in Seq(Answers) /\ q \in LabelledRecords
  BY MergedRecord
<1>2. q.occurrence = rec.occurrence /\ q.obs = m /\ q.stable = FALSE
  <2> HIDE DEF m
  <2> QED BY <1>1, WithAnswersFields
<1>3. /\ Keys(m) = Keys(rec.obs) \union Keys(t)
      /\ policy = "keep-both" => m = rec.obs \o t
      /\ \A k \in Keys(m) : Only(m, {k}) = Outlasts(Only(rec.obs, {k}), Only(t, {k}))
  <2>1. policy \in Policies
    BY DEF RelabelTypes
  <2> HIDE DEF t
  <2> QED BY <1>1, <2>1, MergeAnswers DEF t
<1>4. Partner(rec) = {i}
  BY PartnerIsOne DEF RelabelTypes
<1>5. {secondary[j].obs : j \in Partner(rec)} = {t}
  BY <1>4
<1> HIDE DEF m, q, t
<1>6. Survives(rec, q)
  BY <1>2, <1>3, <1>5 DEF Survives
<1> QED BY <1>1, <1>6 DEF Survivors, q, m

LEMMA AloneSurvives ==
    ASSUME NEW rec \in LabelledRecords, Partner(rec) = {}
    PROVE  <<rec, rec>> \in Survivors
<1>1. {secondary[i].obs : i \in Partner(rec)} = {}
  OBVIOUS
<1>2. Survives(rec, rec)
  BY <1>1 DEF Survives
<1> QED BY <1>2 DEF Survivors

LEMMA SurvivorsStay ==
    ASSUME UNCHANGED <<policy, secondary>>
    PROVE  Survivors' = Survivors /\ Partners' = Partners
BY DEF Survivors, Survives, Partners, Partner, Outlasts

LEMMA MergingInit == RelabelInit => MergingInv
<1> SUFFICES ASSUME RelabelInit PROVE Counting /\ Keeping
  BY ReportingInit DEF MergingInv
<1>1. /\ phase = "merge" /\ cursor = 0 /\ consumed = {} /\ merged = <<>> /\ counts = NoCounts
      /\ primary \in Seq(LabelledRecords) /\ secondary \in Seq(LabelledRecords)
  BY FilesAreSequences DEF RelabelInit
<1>2. Met = 0 /\ GoneBy = 0
  BY <1>1 DEF Met, GoneBy
<1>3. Cardinality(AloneIn(0)) = 0
  <2>1. AloneIn(0) = {}
    BY DEF AloneIn
  <2> QED BY <2>1, FS_EmptySet
<1>4. Counting
  BY <1>1, <1>2, <1>3 DEF Counting, NoCounts
<1>5. Keeping
  BY <1>1, <1>2 DEF Keeping
<1> QED BY <1>4, <1>5

LEMMA PrimaryMerges ==
    ASSUME MergingInv, MergePrimary
    PROVE  Counting' /\ Keeping'
<1>n. PICK n \in Nat : n = cursor
  BY DEF MergingInv, ReportingInv, RelabelTypes
<1>1. /\ phase = "merge" /\ n \in Nat /\ n < Len(primary) /\ cursor' = n + 1
      /\ primary \in Seq(LabelledRecords) /\ secondary \in Seq(LabelledRecords)
      /\ merged \in Seq(LabelledRecords) /\ RelabelTypes
      /\ UNCHANGED <<phase, policy, primary, secondary>>
  BY <1>n DEF MergePrimary, MergingInv, ReportingInv, RelabelTypes
<1>r. primary[n + 1] \in LabelledRecords
  BY <1>1
<1>2. PICK rec \in LabelledRecords : rec = primary[n + 1]
  BY <1>r
<1>3. Met = n /\ Met' = n + 1 /\ GoneBy = 0 /\ GoneBy' = 0
  BY <1>n, <1>1 DEF Met, GoneBy
<1>4. Survivors' = Survivors /\ Partners' = Partners /\ Partners[rec] = Partner(rec)
  <2>1. Survivors' = Survivors /\ Partners' = Partners
    BY <1>1, SurvivorsStay
  <2> QED BY <1>2, <2>1 DEF Partners
<1>5. /\ counts.both \in Nat /\ counts.primaryOnly \in Nat
      /\ counts.secondaryOnly = 0 /\ counts.collisions \in Nat
      /\ counts = [both |-> counts.both, primaryOnly |-> counts.primaryOnly,
                   secondaryOnly |-> counts.secondaryOnly, collisions |-> counts.collisions]
      /\ counts.both + counts.primaryOnly = n
      /\ counts.primaryOnly = Cardinality(AloneIn(n)) /\ Len(merged) = n
  BY <1>1, <1>3 DEF MergingInv, Counting
<1>6. AloneIn(n + 1)' = AloneIn(n + 1)
  BY <1>1, <1>4 DEF AloneIn
<1>7. \E q \in LabelledRecords :
          /\ merged' = Append(merged, q) /\ <<rec, q>> \in Survivors
          /\ consumed' \subseteq consumed \union Partner(rec)
          /\ \/ /\ Partner(rec) # {}
                /\ \E c \in Nat :
                     counts' = [counts EXCEPT !.both = @ + 1, !.collisions = @ + c]
             \/ /\ Partner(rec) = {}
                /\ counts' = [counts EXCEPT !.primaryOnly = @ + 1]
  <2>1. CASE Partner(rec) = {}
    <3>1. /\ merged' = Append(merged, rec) /\ consumed' = consumed
          /\ counts' = [counts EXCEPT !.primaryOnly = @ + 1]
      BY <1>n, <1>2, <2>1 DEF MergePrimary
    <3>2. <<rec, rec>> \in Survivors
      BY <1>2, <2>1, AloneSurvives
    <3> QED BY <1>2, <2>1, <3>1, <3>2
  <2>2. CASE Partner(rec) # {}
    <3>1. PICK i \in Partner(rec) :
              LET into == MergeObservationsInto(rec.obs, secondary[i].obs)
              IN  /\ consumed' = consumed \union {i}
                  /\ merged' = Append(merged, WithAnswers(rec, into.obs))
                  /\ counts' = [counts EXCEPT !.both = @ + 1,
                                              !.collisions = @ + into.collisions]
      BY <1>n, <1>2, <2>2 DEF MergePrimary
    <3> DEFINE into == MergeObservationsInto(rec.obs, secondary[i].obs)
               q == WithAnswers(rec, into.obs)
    <3>2. q \in LabelledRecords /\ into.collisions \in Nat
      BY <1>1, <1>2, MergedRecord
    <3>3. <<rec, q>> \in Survivors
      BY <1>1, <1>2, MergedSurvives
    <3>4. consumed' \subseteq consumed \union Partner(rec) /\ merged' = Append(merged, q)
      BY <3>1
    <3>5. counts' = [counts EXCEPT !.both = @ + 1, !.collisions = @ + into.collisions]
      BY <3>1
    <3> HIDE DEF into, q
    <3> QED BY <2>2, <3>2, <3>3, <3>4, <3>5
  <2> QED BY <2>1, <2>2
<1>8. PICK q \in LabelledRecords :
          /\ merged' = Append(merged, q) /\ <<rec, q>> \in Survivors
          /\ consumed' \subseteq consumed \union Partner(rec)
          /\ \/ /\ Partner(rec) # {}
                /\ \E c \in Nat :
                     counts' = [counts EXCEPT !.both = @ + 1, !.collisions = @ + c]
             \/ /\ Partner(rec) = {}
                /\ counts' = [counts EXCEPT !.primaryOnly = @ + 1]
  BY <1>7
<1>9. /\ Len(merged') = n + 1 /\ merged'[n + 1] = q
      /\ \A i \in 1..n : merged'[i] = merged[i]
  <2>1. merged \in Seq(LabelledRecords) /\ Len(merged) = n /\ merged' = Append(merged, q)
    BY <1>1, <1>5, <1>8
  <2> QED BY <2>1
<1>10. Counting'
  <2>1. CASE Partner(rec) # {}
    <3>1. PICK c \in Nat : counts' = [counts EXCEPT !.both = @ + 1, !.collisions = @ + c]
      BY <1>8, <2>1
    <3>2. /\ counts'.both = counts.both + 1 /\ counts'.primaryOnly = counts.primaryOnly
          /\ counts'.secondaryOnly = 0 /\ counts'.collisions = counts.collisions + c
          /\ counts' = [both |-> counts'.both, primaryOnly |-> counts'.primaryOnly,
                        secondaryOnly |-> counts'.secondaryOnly,
                        collisions |-> counts'.collisions]
      BY <1>5, <3>1
    <3>3. Cardinality(AloneIn(n + 1)) = Cardinality(AloneIn(n))
      BY <1>2, <1>4, <2>1, AloneAdds
    <3>4. counts'.primaryOnly = Cardinality(AloneIn(Met)')
      BY <1>3, <1>5, <1>6, <3>2, <3>3
    <3> QED BY SMTT(40), <1>1, <1>3, <1>5, <1>9, <3>2, <3>4 DEF Counting
  <2>2. CASE Partner(rec) = {}
    <3>1. counts' = [counts EXCEPT !.primaryOnly = @ + 1]
      BY <1>8, <2>2
    <3>2. /\ counts'.both = counts.both /\ counts'.primaryOnly = counts.primaryOnly + 1
          /\ counts'.secondaryOnly = 0 /\ counts'.collisions = counts.collisions
          /\ counts' = [both |-> counts'.both, primaryOnly |-> counts'.primaryOnly,
                        secondaryOnly |-> counts'.secondaryOnly,
                        collisions |-> counts'.collisions]
      BY <1>5, <3>1
    <3>3. Cardinality(AloneIn(n + 1)) = Cardinality(AloneIn(n)) + 1
      BY <1>2, <1>4, <2>2, AloneAdds
    <3>4. counts'.primaryOnly = Cardinality(AloneIn(Met)')
      BY <1>3, <1>5, <1>6, <3>2, <3>3
    <3> QED BY <1>1, <1>3, <1>5, <1>9, <3>2, <3>4 DEF Counting
  <2> QED BY <2>1, <2>2
<1>11. Keeping'
  <2>1. \A i \in 1..n : <<primary[i], merged[i]>> \in Survivors
    BY <1>3 DEF MergingInv, Keeping
  <2>2. \A i \in 1..n + 1 : <<primary'[i], merged'[i]>> \in Survivors'
    <3> SUFFICES ASSUME NEW i \in 1..n + 1 PROVE <<primary[i], merged'[i]>> \in Survivors
      BY <1>1, <1>4
    <3>1. CASE i = n + 1
      BY <1>2, <1>8, <1>9, <3>1
    <3>2. CASE i # n + 1
      <4>1. i \in 1..n
        BY <3>2
      <4> QED BY <1>9, <2>1, <4>1
    <3> QED BY <3>1, <3>2
  <2>3. \A i \in consumed : \E m \in 1..n : i \in Partners[primary[m]]
    BY <1>3 DEF MergingInv, Keeping
  <2>4. \A i \in consumed' : \E m \in 1..n + 1 : i \in Partners'[primary'[m]]
    <3> SUFFICES ASSUME NEW i \in consumed'
                 PROVE  \E m \in 1..n + 1 : i \in Partners[primary[m]]
      BY <1>1, <1>4
    <3>1. CASE i \in consumed
      <4>1. PICK m \in 1..n : i \in Partners[primary[m]]
        BY <2>3, <3>1
      <4>2. m \in 1..n + 1
        OBVIOUS
      <4> QED BY <4>1, <4>2
    <3>2. CASE i \in Partner(rec)
      <4>1. n + 1 \in 1..n + 1
        OBVIOUS
      <4> QED BY <1>2, <1>4, <3>2, <4>1
    <3> QED BY <1>8, <3>1, <3>2
  <2>5. n + 1 <= Len(primary)' /\ 0 <= Len(secondary)'
    BY <1>1
  <2> QED BY <1>3, <2>2, <2>4, <2>5 DEF Keeping
<1> QED BY <1>10, <1>11

LEMMA RestMerges ==
    ASSUME MergingInv, MergeRest
    PROVE  Counting' /\ Keeping'
<1>n. PICK n \in Nat : n = cursor
  BY DEF MergingInv, ReportingInv, RelabelTypes
<1>1. /\ phase = "rest" /\ n < Len(secondary) /\ cursor' = n + 1
      /\ primary \in Seq(LabelledRecords) /\ secondary \in Seq(LabelledRecords)
      /\ merged \in Seq(LabelledRecords) /\ Len(primary) \in Nat /\ Len(merged) \in Nat
      /\ UNCHANGED <<phase, policy, primary, secondary, consumed>>
  BY <1>n DEF MergeRest, MergingInv, ReportingInv, RelabelTypes
<1>2. /\ Met = Len(primary) /\ Met' = Met /\ GoneBy = n /\ GoneBy' = n + 1 /\ Met \in Nat
  BY <1>n, <1>1 DEF Met, GoneBy
<1>3. Survivors' = Survivors /\ Partners' = Partners /\ AloneIn(Met)' = AloneIn(Met)
  <2>1. Survivors' = Survivors /\ Partners' = Partners
    BY <1>1, SurvivorsStay
  <2> QED BY <1>1, <1>2, <2>1 DEF AloneIn
<1>4. /\ counts.both \in Nat /\ counts.primaryOnly \in Nat
      /\ counts.secondaryOnly \in Nat /\ counts.collisions \in Nat
      /\ counts = [both |-> counts.both, primaryOnly |-> counts.primaryOnly,
                   secondaryOnly |-> counts.secondaryOnly, collisions |-> counts.collisions]
      /\ counts.both + counts.primaryOnly = Met
      /\ counts.primaryOnly = Cardinality(AloneIn(Met))
      /\ Len(merged) = Met + counts.secondaryOnly
  BY DEF MergingInv, Counting
<1>5. /\ Met <= Len(primary)
      /\ \A i \in 1..Met : <<primary[i], merged[i]>> \in Survivors
      /\ \A i \in consumed : \E m \in 1..Met : i \in Partners[primary[m]]
      /\ \A i \in 1..n : \/ i \in consumed
                         \/ \E m \in Len(primary) + 1..Len(merged) : merged[m] = secondary[i]
  BY <1>2 DEF MergingInv, Keeping
<1>6. CASE n + 1 \in consumed
  <2>1. merged' = merged /\ counts' = counts
    BY <1>n, <1>6 DEF MergeRest
  <2>2. Counting'
    BY <1>1, <1>2, <1>3, <1>4, <2>1 DEF Counting
  <2>3. \A i \in 1..n + 1 : \/ i \in consumed
                            \/ \E m \in Len(primary) + 1..Len(merged) :
                                   merged[m] = secondary[i]
    <3> SUFFICES ASSUME NEW i \in 1..n + 1, i # n + 1
                 PROVE  \/ i \in consumed
                        \/ \E m \in Len(primary) + 1..Len(merged) : merged[m] = secondary[i]
      BY <1>6
    <3>1. i \in 1..n
      OBVIOUS
    <3> QED BY <1>5, <3>1
  <2>8. n + 1 <= Len(secondary)
    BY <1>1
  <2>4. Keeping'
    BY <1>1, <1>2, <1>3, <1>5, <2>1, <2>3, <2>8 DEF Keeping
  <2> QED BY <2>2, <2>4
<1>7. CASE n + 1 \notin consumed
  <2>0. secondary[n + 1] \in LabelledRecords
    BY <1>1
  <2>1. /\ merged' = Append(merged, secondary[n + 1])
        /\ counts' = [counts EXCEPT !.secondaryOnly = @ + 1]
    BY <1>n, <1>7 DEF MergeRest
  <2>2. /\ Len(merged') = Len(merged) + 1 /\ merged'[Len(merged) + 1] = secondary[n + 1]
        /\ \A i \in 1..Len(merged) : merged'[i] = merged[i]
    BY <1>1, <2>0, <2>1
  <2>3. /\ counts'.both = counts.both /\ counts'.primaryOnly = counts.primaryOnly
        /\ counts'.secondaryOnly = counts.secondaryOnly + 1
        /\ counts'.collisions = counts.collisions
        /\ counts' = [both |-> counts'.both, primaryOnly |-> counts'.primaryOnly,
                      secondaryOnly |-> counts'.secondaryOnly,
                      collisions |-> counts'.collisions]
    BY <1>4, <2>1
  <2>a. /\ counts'.both \in Nat /\ counts'.primaryOnly \in Nat
        /\ counts'.secondaryOnly \in Nat /\ counts'.collisions \in Nat
        /\ counts'.both + counts'.primaryOnly = Met
    BY <1>4, <2>3
  <2>c. Len(merged') = Met + counts'.secondaryOnly
    <3> DEFINE a == Len(merged)
               b == counts.secondaryOnly
    <3>1. a \in Nat /\ b \in Nat /\ Met \in Nat /\ a = Met + b
      BY <1>1, <1>2, <1>4
    <3>2. Len(merged') = a + 1 /\ counts'.secondaryOnly = b + 1
      BY <2>2, <2>3
    <3> HIDE DEF a, b
    <3>3. a + 1 = Met + (b + 1)
      BY <3>1
    <3> QED BY <3>2, <3>3
  <2>b. counts'.primaryOnly = Cardinality(AloneIn(Met)')
    BY <1>3, <1>4, <2>3
  <2>4. Counting'
    BY <1>1, <1>2, <2>3, <2>a, <2>b, <2>c DEF Counting
  <2>5. \A i \in 1..Met : <<primary[i], merged'[i]>> \in Survivors
    <3> SUFFICES ASSUME NEW i \in 1..Met PROVE <<primary[i], merged'[i]>> \in Survivors
      OBVIOUS
    <3>1. i \in 1..Len(merged)
      BY <1>2, <1>4
    <3> QED BY <1>5, <2>2, <3>1
  <2>6. \A i \in 1..n + 1 : \/ i \in consumed
                            \/ \E m \in Len(primary) + 1..Len(merged') :
                                   merged'[m] = secondary[i]
    <3> SUFFICES ASSUME NEW i \in 1..n + 1, i \notin consumed
                 PROVE  \E m \in Len(primary) + 1..Len(merged') : merged'[m] = secondary[i]
      OBVIOUS
    <3>1. CASE i = n + 1
      <4>1. Len(merged) + 1 \in Len(primary) + 1..Len(merged')
        <5> DEFINE a == Len(merged)
                   b == Len(primary)
                   c == counts.secondaryOnly
        <5>1. a \in Nat /\ b \in Nat /\ c \in Nat /\ a = b + c /\ Len(merged') = a + 1
          BY <1>1, <1>2, <1>4, <2>2
        <5> HIDE DEF a, b, c
        <5>2. a + 1 \in b + 1..a + 1
          BY <5>1
        <5> QED BY <5>1, <5>2 DEF a, b
      <4> QED BY <2>2, <3>1, <4>1
    <3>2. CASE i # n + 1
      <4>1. i \in 1..n
        BY <3>2
      <4>2. PICK m \in Len(primary) + 1..Len(merged) : merged[m] = secondary[i]
        BY <1>5, <4>1
      <4>3. m \in 1..Len(merged) /\ m \in Len(primary) + 1..Len(merged')
        BY <1>1, <2>2
      <4> QED BY <2>2, <4>2, <4>3
    <3> QED BY <3>1, <3>2
  <2>7. \A i \in consumed : \E m \in 1..Met : i \in Partners[primary[m]]
    BY <1>5
  <2>8. n + 1 <= Len(secondary)
    BY <1>1
  <2>9. Keeping'
    BY <1>1, <1>2, <1>3, <1>5, <2>5, <2>6, <2>7, <2>8 DEF Keeping
  <2> QED BY <2>4, <2>9
<1> QED BY <1>6, <1>7

\* A step that leaves the files alone.
LEMMA MergeStays ==
    ASSUME MergingInv, UNCHANGED <<policy, primary, secondary, consumed, merged, counts>>,
           Met' = Met, GoneBy' = GoneBy, phase' # "merge" \/ phase = "merge"
    PROVE  Counting' /\ Keeping'
<1>1. Survivors' = Survivors /\ Partners' = Partners
  BY SurvivorsStay
<1>2. AloneIn(Met)' = AloneIn(Met)
  BY <1>1 DEF AloneIn
<1>3. Counting'
  BY <1>2 DEF MergingInv, Counting
<1>4. Keeping'
  BY <1>1 DEF MergingInv, Keeping
<1> QED BY <1>3, <1>4

LEMMA MergingNext == MergingInv /\ [RelabelNext]_relabelVars => MergingInv'
<1> SUFFICES ASSUME MergingInv, [RelabelNext]_relabelVars
             PROVE  Counting' /\ Keeping'
  BY ReportingNext DEF MergingInv
<1>1. CASE MergePrimary
  BY <1>1, PrimaryMerges
<1>2. CASE PrimaryRead
  <2>1. UNCHANGED <<policy, primary, secondary, consumed, merged, counts>>
    BY <1>2 DEF PrimaryRead
  <2>2. Met' = Met /\ GoneBy' = GoneBy /\ phase' # "merge"
    BY <1>2 DEF PrimaryRead, Met, GoneBy
  <2> QED BY <2>1, <2>2, MergeStays
<1>3. CASE MergeRest
  BY <1>3, RestMerges
<1>4. CASE MergeCommit
  <2>1. UNCHANGED <<policy, primary, secondary, consumed, merged, counts>>
    BY <1>4 DEF MergeCommit
  <2>2. Met' = Met /\ GoneBy' = GoneBy /\ phase' # "merge"
    BY <1>4 DEF MergeCommit, Met, GoneBy
  <2> QED BY <2>1, <2>2, MergeStays
<1>5. CASE DatasetDiff
  <2>1. UNCHANGED <<policy, primary, secondary, consumed, merged, counts>>
    BY <1>5 DEF DatasetDiff
  <2>2. Met' = Met /\ GoneBy' = GoneBy /\ phase' # "merge"
    BY <1>5 DEF DatasetDiff, Met, GoneBy
  <2> QED BY <2>1, <2>2, MergeStays
<1>6. CASE ConflictLine
  <2>1. UNCHANGED <<policy, primary, secondary, consumed, merged, counts>>
    BY <1>6 DEF ConflictLine
  <2>2. Met' = Met /\ GoneBy' = GoneBy /\ phase' # "merge"
    BY <1>6 DEF ConflictLine, Met, GoneBy
  <2> QED BY <2>1, <2>2, MergeStays
<1>7. CASE ConflictEnd
  <2>1. UNCHANGED <<policy, primary, secondary, consumed, merged, counts>>
    BY <1>7 DEF ConflictEnd
  <2>2. Met' = Met /\ GoneBy' = GoneBy /\ phase' # "merge"
    BY <1>7 DEF ConflictEnd, Met, GoneBy
  <2> QED BY <2>1, <2>2, MergeStays
<1>8. CASE UNCHANGED relabelVars
  <2>1. UNCHANGED <<phase, cursor, policy, primary, secondary, consumed, merged, counts>>
    BY <1>8 DEF relabelVars
  <2>2. Met' = Met /\ GoneBy' = GoneBy /\ (phase' # "merge" \/ phase = "merge")
    BY <2>1 DEF Met, GoneBy
  <2> QED BY <2>1, <2>2, MergeStays
<1> QED BY <1>1, <1>2, <1>3, <1>4, <1>5, <1>6, <1>7, <1>8 DEF RelabelNext

LEMMA MergedRecordsSurvive == MergingInv => RecordsSurvive
<1> SUFFICES ASSUME MergingInv, phase = "diff"
             PROVE  RecordsSurvive
  BY DEF RecordsSurvive
<1>1. /\ primary \in Seq(LabelledRecords) /\ secondary \in Seq(LabelledRecords)
      /\ Met = Len(primary) /\ GoneBy = Len(secondary)
  BY DEF MergingInv, ReportingInv, RelabelTypes, Met, GoneBy
<1>2. \A n \in DOMAIN primary : Survives(primary[n], merged[n])
  <2> SUFFICES ASSUME NEW n \in DOMAIN primary PROVE Survives(primary[n], merged[n])
    OBVIOUS
  <2>1. n \in 1..Met
    BY <1>1
  <2>2. PICK pair \in Survivors : pair = <<primary[n], merged[n]>>
    BY <2>1 DEF MergingInv, Keeping
  <2>3. Survives(pair[1], pair[2]) /\ pair[1] = primary[n] /\ pair[2] = merged[n]
    BY <2>2 DEF Survivors
  <2> QED BY <2>3
<1>3. \A i \in DOMAIN secondary :
          \/ \E n \in DOMAIN primary : i \in Partner(primary[n])
          \/ \E n \in Len(primary) + 1..Len(merged) : merged[n] = secondary[i]
  <2> SUFFICES ASSUME NEW i \in DOMAIN secondary,
                      ~ \E n \in Len(primary) + 1..Len(merged) : merged[n] = secondary[i]
               PROVE  \E n \in DOMAIN primary : i \in Partner(primary[n])
    OBVIOUS
  <2>1. i \in 1..GoneBy
    BY <1>1
  <2>2. i \in consumed
    BY <2>1 DEF MergingInv, Keeping
  <2>3. PICK n \in 1..Met : i \in Partners[primary[n]]
    BY <2>2 DEF MergingInv, Keeping
  <2>4. n \in DOMAIN primary /\ primary[n] \in LabelledRecords
    BY <1>1
  <2>5. Partners[primary[n]] = Partner(primary[n])
    BY <2>4 DEF Partners
  <2> QED BY <2>3, <2>4, <2>5
<1>4. Len(merged) = counts.both + counts.primaryOnly + counts.secondaryOnly
  BY DEF MergingInv, Counting
<1> QED BY <1>2, <1>3, <1>4 DEF RecordsSurvive, Survives

-----------------------------------------------------------------------------
(* Totals over parts of a set.                                             *)

Part(h, t) == [x \in t |-> h[x]]

LEMMA PartAdds ==
    ASSUME NEW h, Summable(h), NEW t, t \subseteq DOMAIN h
    PROVE  /\ Summable(Part(h, t)) /\ Total(Part(h, t)) \in Int
           /\ Total(Part(h, {})) = 0
           /\ \A x \in DOMAIN h : x \notin t =>
                  h[x] \in Int /\ Total(Part(h, t \union {x})) = Total(Part(h, t)) + h[x]
<1>1. Summable(Part(h, t))
  BY FS_Subset DEF Summable, Part
<1>2. Total(Part(h, t)) \in Int
  BY <1>1, TotalIsNumber
<1>3. Total(Part(h, {})) = 0
  BY TotalOfNothing DEF Part
<1>4. ASSUME NEW x \in DOMAIN h, x \notin t
      PROVE  h[x] \in Int /\ Total(Part(h, t \union {x})) = Total(Part(h, t)) + h[x]
  <2> DEFINE a == Part(h, t)
             b == Part(h, t \union {x})
             v == h[x]
  <2>1. v \in Int
    BY DEF Summable
  <2>2. /\ Summable(a) /\ x \notin DOMAIN a
        /\ DOMAIN b = (DOMAIN a) \union {x} /\ b[x] = v
        /\ \A y \in DOMAIN a : b[y] = a[y]
        /\ a = [y \in DOMAIN a |-> a[y]]
    BY <1>1, <1>4 DEF Part
  <2> HIDE DEF a, b, v
  <2>3. OneMore(a, b, x, v)
    BY <2>1, <2>2, Zenon DEF OneMore
  <2>4. Total(b) = Total(a) + v
    BY <2>3, OneMoreAdds
  <2> QED BY <2>1, <2>4 DEF a, b, v
<1> QED BY <1>1, <1>2, <1>3, <1>4

IsNumbers(h, S) == h = [x \in S |-> h[x]] /\ \A x \in S : h[x] \in Int

LEMMA NumbersAreSummable ==
    ASSUME NEW S, IsFiniteSet(S), NEW h, IsNumbers(h, S)
    PROVE  Summable(h) /\ DOMAIN h = S /\ Part(h, S) = h /\ Total(h) \in Int
<1>1. DOMAIN h = S /\ Part(h, S) = h /\ Summable(h)
  BY DEF IsNumbers, Summable, Part
<1> QED BY <1>1, TotalIsNumber

LEMMA TotalsAreMonotone ==
    ASSUME NEW S, IsFiniteSet(S), NEW f, NEW g, IsNumbers(f, S), IsNumbers(g, S),
           \A x \in S : f[x] <= g[x]
    PROVE  Total(f) <= Total(g)
<1> DEFINE P == {t \in SUBSET S : Total(Part(f, t)) <= Total(Part(g, t))}
<1>1. Summable(f) /\ Summable(g) /\ DOMAIN f = S /\ DOMAIN g = S /\ Part(f, S) = f /\ Part(g, S) = g
  BY NumbersAreSummable
<1>2. {} \in P
  <2>1. Total(Part(f, {})) = 0 /\ Total(Part(g, {})) = 0
    BY <1>1, PartAdds
  <2> QED BY <2>1
<1>3. ASSUME NEW t \in P, NEW x \in S, t \subseteq S, x \notin t
      PROVE  t \union {x} \in P
  <2>1. /\ Total(Part(f, t)) \in Int /\ f[x] \in Int
        /\ Total(Part(f, t \union {x})) = Total(Part(f, t)) + f[x]
    BY <1>1, <1>3, PartAdds
  <2>2. /\ Total(Part(g, t)) \in Int /\ g[x] \in Int
        /\ Total(Part(g, t \union {x})) = Total(Part(g, t)) + g[x]
    BY <1>1, <1>3, PartAdds
  <2>3. Total(Part(f, t)) <= Total(Part(g, t)) /\ f[x] <= g[x]
    OBVIOUS
  <2>4. Total(Part(f, t \union {x})) <= Total(Part(g, t \union {x}))
    BY <2>1, <2>2, <2>3
  <2> QED BY <2>4
<1>4. S \in P
  <2> HIDE DEF P
  <2> QED BY <1>2, <1>3, SubsetInduction
<1> QED BY <1>1, <1>4

LEMMA TotalsAdd ==
    ASSUME NEW S, IsFiniteSet(S), NEW f, NEW g, NEW h,
           IsNumbers(f, S), IsNumbers(g, S), IsNumbers(h, S), \A x \in S : h[x] = f[x] + g[x]
    PROVE  Total(h) = Total(f) + Total(g)
<1> DEFINE P == {t \in SUBSET S : Total(Part(h, t)) = Total(Part(f, t)) + Total(Part(g, t))}
<1>1. /\ Summable(f) /\ DOMAIN f = S /\ Part(f, S) = f
      /\ Summable(g) /\ DOMAIN g = S /\ Part(g, S) = g
      /\ Summable(h) /\ DOMAIN h = S /\ Part(h, S) = h
  BY NumbersAreSummable
<1>2. {} \in P
  <2>1. Total(Part(f, {})) = 0 /\ Total(Part(g, {})) = 0 /\ Total(Part(h, {})) = 0
    BY <1>1, PartAdds
  <2> QED BY <2>1
<1>3. ASSUME NEW t \in P, NEW x \in S, t \subseteq S, x \notin t
      PROVE  t \union {x} \in P
  <2>1. /\ Total(Part(f, t)) \in Int /\ f[x] \in Int
        /\ Total(Part(f, t \union {x})) = Total(Part(f, t)) + f[x]
    BY <1>1, <1>3, PartAdds
  <2>2. /\ Total(Part(g, t)) \in Int /\ g[x] \in Int
        /\ Total(Part(g, t \union {x})) = Total(Part(g, t)) + g[x]
    BY <1>1, <1>3, PartAdds
  <2>3. /\ Total(Part(h, t)) \in Int /\ h[x] \in Int
        /\ Total(Part(h, t \union {x})) = Total(Part(h, t)) + h[x]
    BY <1>1, <1>3, PartAdds
  <2>4. Total(Part(h, t)) = Total(Part(f, t)) + Total(Part(g, t)) /\ h[x] = f[x] + g[x]
    OBVIOUS
  <2>5. Total(Part(h, t \union {x})) = Total(Part(f, t \union {x})) + Total(Part(g, t \union {x}))
    BY <2>1, <2>2, <2>3, <2>4
  <2> QED BY <2>5
<1>4. S \in P
  <2> HIDE DEF P
  <2> QED BY <1>2, <1>3, SubsetInduction
<1> QED BY <1>1, <1>4

LEMMA TotalOfZeros ==
    ASSUME NEW S, IsFiniteSet(S), NEW h, IsNumbers(h, S), \A x \in S : h[x] = 0
    PROVE  Total(h) = 0
<1>1. Total(h) = Total(h) + Total(h)
  BY TotalsAdd
<1> DEFINE n == Total(h)
<1>2. n \in Int
  BY NumbersAreSummable
<1>3. n = n + n
  BY <1>1
<1> HIDE DEF n
<1>4. n = 0
  BY <1>2, <1>3
<1> QED BY <1>4 DEF n

\* Of nonnegative numbers the part has no more than all.
LEMMA PartsAreLess ==
    ASSUME NEW T, IsFiniteSet(T), NEW S \in SUBSET T, NEW h, IsNumbers(h, T),
           \A x \in T : h[x] >= 0
    PROVE  Total(Part(h, S)) <= Total(h)
<1> DEFINE P == {t \in SUBSET (T \ S) : Total(Part(h, S)) <= Total(Part(h, S \union t))}
<1>1. Summable(h) /\ DOMAIN h = T /\ Part(h, T) = h
  BY NumbersAreSummable
<1>2. {} \in P
  <2>1. S \union {} = S
    OBVIOUS
  <2>2. Total(Part(h, S)) \in Int
    BY <1>1, PartAdds
  <2> QED BY <2>1, <2>2
<1>3. ASSUME NEW t \in P, NEW x \in T \ S, t \subseteq T \ S, x \notin t
      PROVE  t \union {x} \in P
  <2> DEFINE u == S \union t
  <2>1. u \subseteq T /\ x \notin u /\ x \in T /\ S \union (t \union {x}) = u \union {x}
    BY <1>3
  <2>2. Total(Part(h, S)) <= Total(Part(h, u)) /\ Total(Part(h, S)) \in Int
    BY <1>1, PartAdds
  <2> HIDE DEF u
  <2>3. /\ Total(Part(h, u)) \in Int /\ h[x] \in Int
        /\ Total(Part(h, u \union {x})) = Total(Part(h, u)) + h[x]
    BY <1>1, <2>1, PartAdds
  <2>4. h[x] >= 0
    BY <2>1
  <2>5. Total(Part(h, S)) <= Total(Part(h, u \union {x}))
    BY <2>2, <2>3, <2>4
  <2>6. t \union {x} \in SUBSET (T \ S)
    BY <1>3
  <2> QED BY <2>1, <2>5, <2>6
<1>4. T \ S \in P
  <2>1. IsFiniteSet(T \ S)
    BY FS_Subset
  <2> HIDE DEF P
  <2> QED BY <1>2, <1>3, <2>1, SubsetInduction
<1>5. S \union (T \ S) = T
  OBVIOUS
<1> QED BY <1>1, <1>4, <1>5

\* The numbers of elements with each key add up to those with any.
CountsByKey(D, S, key) == [x \in S |-> Cardinality({i \in D : key[i] = x})]
WithKeyIn(D, S, key) == {i \in D : key[i] \in S}

LEMMA KeysPartition ==
    ASSUME NEW D, IsFiniteSet(D), NEW S, IsFiniteSet(S), NEW key
    PROVE  /\ IsNumbers(CountsByKey(D, S, key), S)
           /\ Total(CountsByKey(D, S, key)) = Cardinality(WithKeyIn(D, S, key))
<1> DEFINE h == CountsByKey(D, S, key)
           Of(t) == {i \in D : key[i] \in t}
           P == {t \in SUBSET S : Total(Part(h, t)) = Cardinality(Of(t))}
<1>0. \A t : IsFiniteSet(Of(t)) /\ Cardinality(Of(t)) \in Nat
  <2> SUFFICES ASSUME NEW t PROVE IsFiniteSet(Of(t)) /\ Cardinality(Of(t)) \in Nat
    OBVIOUS
  <2>1. Of(t) \in SUBSET D
    OBVIOUS
  <2> HIDE DEF Of
  <2>2. IsFiniteSet(Of(t))
    BY <2>1, FS_Subset
  <2> QED BY <2>2, FS_CardinalityType
<1>1. \A x \in S : h[x] = Cardinality(Of({x})) /\ h[x] \in Nat
  <2> SUFFICES ASSUME NEW x \in S PROVE h[x] = Cardinality(Of({x})) /\ h[x] \in Nat
    OBVIOUS
  <2>1. Of({x}) = {i \in D : key[i] = x}
    OBVIOUS
  <2>2. h[x] = Cardinality(Of({x}))
    BY <2>1 DEF CountsByKey
  <2> HIDE DEF Of
  <2> QED BY <1>0, <2>2
<1>2. IsNumbers(h, S)
  <2>1. h = [x \in S |-> h[x]]
    BY DEF CountsByKey
  <2> HIDE DEF h, Of
  <2>2. ASSUME NEW x \in S PROVE h[x] \in Int
    <3>1. h[x] \in Nat
      BY <1>1
    <3> QED BY <3>1
  <2> QED BY <2>1, <2>2, Zenon DEF IsNumbers
<1>w. Of(S) = WithKeyIn(D, S, key)
  BY DEF WithKeyIn
<1> HIDE DEF h
<1>3. Summable(h) /\ DOMAIN h = S /\ Part(h, S) = h
  BY <1>2, NumbersAreSummable
<1>4. {} \in P
  <2>1. Total(Part(h, {})) = 0
    BY <1>3, PartAdds
  <2>2. Of({}) = {}
    OBVIOUS
  <2>3. Cardinality(Of({})) = 0
    BY <2>2, FS_EmptySet
  <2> HIDE DEF Of
  <2> QED BY <2>1, <2>3
<1>5. ASSUME NEW t \in P, NEW x \in S, t \subseteq S, x \notin t
      PROVE  t \union {x} \in P
  <2>1. /\ Total(Part(h, t)) \in Int /\ h[x] \in Int
        /\ Total(Part(h, t \union {x})) = Total(Part(h, t)) + h[x]
    BY <1>3, <1>5, PartAdds
  <2>2. Of(t \union {x}) = Of(t) \union Of({x}) /\ Of(t) \intersect Of({x}) = {}
    BY <1>5
  <2>3. Total(Part(h, t)) = Cardinality(Of(t))
    OBVIOUS
  <2> HIDE DEF Of
  <2>4. Cardinality(Of(t) \union Of({x})) =
            Cardinality(Of(t)) + Cardinality(Of({x})) - Cardinality(Of(t) \intersect Of({x}))
    BY <1>0, FS_Union
  <2>5. Cardinality(Of(t) \intersect Of({x})) = 0
    BY <2>2, FS_EmptySet
  <2>6. Cardinality(Of(t \union {x})) = Cardinality(Of(t)) + h[x]
    <3> DEFINE a == Cardinality(Of(t))
               b == Cardinality(Of({x}))
    <3>1. a \in Nat /\ b \in Nat /\ b = h[x]
      BY <1>0, <1>1
    <3>2. Cardinality(Of(t) \union Of({x})) = a + b - 0
      BY <2>4, <2>5
    <3>3. Cardinality(Of(t \union {x})) = a + b - 0
      BY <2>2, <3>2
    <3> HIDE DEF a, b
    <3>4. Cardinality(Of(t \union {x})) = a + h[x]
      BY <3>1, <3>3
    <3> QED BY <3>4 DEF a
  <2>7. Total(Part(h, t \union {x})) = Cardinality(Of(t \union {x}))
    BY <2>1, <2>3, <2>6
  <2> QED BY <2>7
<1>6. S \in P
  <2> HIDE DEF P
  <2> QED BY <1>4, <1>5, SubsetInduction
<1>7. Total(h) = Cardinality(Of(S))
  <2> HIDE DEF Of
  <2> QED BY <1>3, <1>6
<1> HIDE DEF Of
<1> QED BY <1>w, <1>2, <1>7 DEF h

\* A total does not depend on how its values are named.
LEMMA TotalsRename ==
    ASSUME NEW S, IsFiniteSet(S), NEW T, NEW r \in [S -> T], NEW h, IsNumbers(h, T),
           IsFiniteSet(T), NEW g, g = [x \in S |-> h[r[x]]],
           \A x, y \in S : r[x] = r[y] => x = y,
           \A z \in T : \E x \in S : r[x] = z
    PROVE  Total(g) = Total(h)
<1> DEFINE Of(t) == {z \in T : \E x \in t : r[x] = z}
           P == {t \in SUBSET S : Total(Part(g, t)) = Total(Part(h, Of(t)))}
<1>1. IsNumbers(g, S)
  BY DEF IsNumbers
<1>2. /\ Summable(g) /\ DOMAIN g = S /\ Part(g, S) = g
      /\ Summable(h) /\ DOMAIN h = T /\ Part(h, T) = h
  BY <1>1, NumbersAreSummable
<1>3. {} \in P
  <2>1. Total(Part(g, {})) = 0 /\ Total(Part(h, {})) = 0
    BY <1>2, PartAdds
  <2>2. Of({}) = {}
    OBVIOUS
  <2> HIDE DEF Of
  <2> QED BY <2>1, <2>2
<1>4. ASSUME NEW t \in P, NEW x \in S, t \subseteq S, x \notin t
      PROVE  t \union {x} \in P
  <2>1. /\ Total(Part(g, t)) \in Int /\ g[x] \in Int
        /\ Total(Part(g, t \union {x})) = Total(Part(g, t)) + g[x]
    BY <1>2, <1>4, PartAdds
  <2>2. Of(t \union {x}) = Of(t) \union {r[x]} /\ r[x] \notin Of(t) /\ r[x] \in T
        /\ Of(t) \subseteq T
    BY <1>4
  <2>3. Total(Part(g, t)) = Total(Part(h, Of(t))) /\ g[x] = h[r[x]]
    OBVIOUS
  <2> HIDE DEF Of
  <2>4. Total(Part(h, Of(t) \union {r[x]})) = Total(Part(h, Of(t))) + h[r[x]]
    BY <1>2, <2>2, PartAdds
  <2>5. Total(Part(g, t \union {x})) = Total(Part(h, Of(t \union {x})))
    BY <2>1, <2>2, <2>3, <2>4
  <2> QED BY <2>5
<1>5. S \in P
  <2> HIDE DEF P
  <2> QED BY <1>3, <1>4, SubsetInduction
<1>6. Of(S) = T
  OBVIOUS
<1> HIDE DEF Of
<1> QED BY <1>2, <1>5, <1>6

-----------------------------------------------------------------------------
(* dataset-diff, by occurrence.                                            *)

AllOf(a, b) == Range(a) \union Range(b)
OccurrencesOf(a, b) == {rec.occurrence : rec \in AllOf(a, b)}
GroupAt(a, b, o) == {rec \in AllOf(a, b) : rec.occurrence = o}
SameOf(a, b, o) == Total([rec \in GroupAt(a, b, o) |-> Less(Times(a, rec), Times(b, rec))])
Had(file, a, b, o) == Total([rec \in GroupAt(a, b, o) |-> Times(file, rec)])
LeftOf(file, a, b, o) == Had(file, a, b, o) - SameOf(a, b, o)
ChangedOf(a, b, o) == Less(LeftOf(a, a, b, o), LeftOf(b, a, b, o))

UnchangedLines(a, b) == Total([o \in OccurrencesOf(a, b) |-> SameOf(a, b, o)])
ChangedLines(a, b) == Total([o \in OccurrencesOf(a, b) |-> ChangedOf(a, b, o)])
Surplus(file, a, b) ==
    Total([o \in OccurrencesOf(a, b) |-> LeftOf(file, a, b, o) - ChangedOf(a, b, o)])

LEMMA DiffIs ==
    ASSUME NEW a, NEW b
    PROVE  Diff(a, b) = [unchanged |-> UnchangedLines(a, b), changed |-> ChangedLines(a, b),
                         removed |-> Surplus(a, a, b), added |-> Surplus(b, a, b),
                         observations |-> Observations(b) - Observations(a)]
BY DEF Diff, SumOver, AllOf, OccurrencesOf, GroupAt, SameOf, Had, LeftOf, ChangedOf, UnchangedLines,
       ChangedLines, Surplus

LinesOf(file, o) == {i \in DOMAIN file : file[i].occurrence = o}

LEMMA FileFacts ==
    ASSUME NEW file \in Seq(LabelledRecords)
    PROVE  /\ IsFiniteSet(DOMAIN file) /\ IsFiniteSet(Range(file))
           /\ \A rec : Times(file, rec) \in Nat
           /\ \A o : Cardinality(LinesOf(file, o)) \in Nat
<1>1. IsFiniteSet(DOMAIN file)
  <2>1. DOMAIN file = 1..Len(file) /\ Len(file) \in Nat
    OBVIOUS
  <2> QED BY <2>1, FS_Interval
<1>2. IsFiniteSet(Range(file))
  <2> DEFINE D == DOMAIN file
             R == Range(file)
             f == [i \in D |-> file[i]]
  <2>1. f \in Surjection(D, R)
    <3>1. f \in [D -> R]
      BY DEF Range
    <3>2. \A y \in R : \E i \in D : f[i] = y
      BY DEF Range
    <3> HIDE DEF D, R, f
    <3> QED BY <3>1, <3>2 DEF Surjection
  <2> HIDE DEF D, R, f
  <2>2. IsFiniteSet(R)
    BY <1>1, <2>1, FS_Surjection DEF D
  <2> QED BY <2>2 DEF R
<1>3. ASSUME NEW S \in SUBSET (DOMAIN file) PROVE Cardinality(S) \in Nat
  BY <1>1, FS_Subset, FS_CardinalityType
<1>4. ASSUME NEW rec PROVE Times(file, rec) \in Nat
  <2>1. {i \in DOMAIN file : file[i] = rec} \in SUBSET (DOMAIN file)
    OBVIOUS
  <2> QED BY <1>3, <2>1 DEF Times
<1>5. ASSUME NEW o PROVE Cardinality(LinesOf(file, o)) \in Nat
  <2>1. LinesOf(file, o) \in SUBSET (DOMAIN file)
    BY DEF LinesOf
  <2> QED BY <1>3, <2>1
<1> QED BY <1>1, <1>2, <1>4, <1>5

LEMMA GroupsAreFinite ==
    ASSUME NEW a \in Seq(LabelledRecords), NEW b \in Seq(LabelledRecords)
    PROVE  /\ IsFiniteSet(OccurrencesOf(a, b)) /\ \A o : IsFiniteSet(GroupAt(a, b, o))
<1>1. IsFiniteSet(AllOf(a, b))
  BY FileFacts, FS_Union DEF AllOf
<1>2. IsFiniteSet(OccurrencesOf(a, b))
  <2> DEFINE D == AllOf(a, b)
             R == OccurrencesOf(a, b)
             f == [rec \in D |-> rec.occurrence]
  <2>1. f \in Surjection(D, R)
    <3>1. f \in [D -> R]
      BY DEF OccurrencesOf
    <3>2. \A y \in R : \E rec \in D : f[rec] = y
      BY DEF OccurrencesOf
    <3> HIDE DEF D, R, f
    <3> QED BY <3>1, <3>2 DEF Surjection
  <2> HIDE DEF D, R, f
  <2>2. IsFiniteSet(R)
    BY <1>1, <2>1, FS_Surjection DEF D
  <2> QED BY <2>2 DEF R
<1>3. ASSUME NEW o PROVE IsFiniteSet(GroupAt(a, b, o))
  <2>1. GroupAt(a, b, o) \in SUBSET AllOf(a, b)
    BY DEF GroupAt
  <2> QED BY <1>1, <2>1, FS_Subset
<1> QED BY <1>2, <1>3

\* The records of a group are as many as its lines.
LEMMA HadCounts ==
    ASSUME NEW a \in Seq(LabelledRecords), NEW b \in Seq(LabelledRecords), NEW o,
           NEW file \in {a, b}
    PROVE  Had(file, a, b, o) = Cardinality(LinesOf(file, o))
<1> DEFINE D == DOMAIN file
           S == GroupAt(a, b, o)
           h == CountsByKey(D, S, file)
<1>1. IsFiniteSet(D) /\ IsFiniteSet(S)
  BY FileFacts, GroupsAreFinite
<1>2. WithKeyIn(D, S, file) = LinesOf(file, o)
  BY DEF GroupAt, AllOf, LinesOf, Range, WithKeyIn
<1>3. Had(file, a, b, o) = Total(h)
  BY DEF Had, Times, CountsByKey
<1> HIDE DEF D, S
<1>4. Total(h) = Cardinality(WithKeyIn(D, S, file))
  BY <1>1, KeysPartition
<1> QED BY <1>2, <1>3, <1>4

\* Each line is in the group of its occurrence.
LEMMA LinesAddUp ==
    ASSUME NEW a \in Seq(LabelledRecords), NEW b \in Seq(LabelledRecords),
           NEW file \in {a, b}
    PROVE  Total([o \in OccurrencesOf(a, b) |-> Cardinality(LinesOf(file, o))]) = Len(file)
<1> DEFINE D == DOMAIN file
           S == OccurrencesOf(a, b)
           key == [i \in D |-> file[i].occurrence]
           h == CountsByKey(D, S, key)
<1>1. IsFiniteSet(D) /\ IsFiniteSet(S)
  BY FileFacts, GroupsAreFinite
<1>2. WithKeyIn(D, S, key) = D
  BY DEF OccurrencesOf, AllOf, Range, WithKeyIn
<1>3. \A o : LinesOf(file, o) = {i \in D : key[i] = o}
  BY DEF LinesOf
<1>4. h = [o \in S |-> Cardinality(LinesOf(file, o))]
  BY <1>3 DEF CountsByKey
<1>5. D = 1..Len(file) /\ Len(file) \in Nat
  OBVIOUS
<1>6. Cardinality(D) = Len(file)
  <2> DEFINE n == Len(file)
  <2>1. n \in Nat /\ 1 \in Int /\ n \in Int /\ D = 1..n
    BY <1>5
  <2> HIDE DEF n, D
  <2>2. Cardinality(1..n) = IF 1 <= n THEN n - 1 + 1 ELSE 0
    BY <2>1, FS_Interval
  <2>3. Cardinality(D) = n
    BY <2>1, <2>2
  <2> QED BY <2>3 DEF n
<1> HIDE DEF D, S, key
<1>7. Total(h) = Cardinality(WithKeyIn(D, S, key))
  BY <1>1, KeysPartition
<1> QED BY <1>2, <1>4, <1>6, <1>7 DEF S

LEMMA LessOrEqual ==
    ASSUME NEW m \in Int, NEW n \in Int
    PROVE  Less(m, n) \in Int /\ Less(m, n) = Less(n, m) /\ (m <= n => Less(m, n) = m)
BY DEF Less

LEMMA SameIsNumber ==
    ASSUME NEW a \in Seq(LabelledRecords), NEW b \in Seq(LabelledRecords), NEW o
    PROVE  /\ IsNumbers([rec \in GroupAt(a, b, o) |-> Less(Times(a, rec), Times(b, rec))],
                        GroupAt(a, b, o))
           /\ SameOf(a, b, o) \in Int
<1> DEFINE S == GroupAt(a, b, o)
           h == [rec \in S |-> Less(Times(a, rec), Times(b, rec))]
<1>1. \A rec : Less(Times(a, rec), Times(b, rec)) \in Int
  BY FileFacts DEF Less
<1>2. IsNumbers(h, S)
  BY <1>1 DEF IsNumbers
<1>3. IsFiniteSet(S)
  BY GroupsAreFinite
<1>4. SameOf(a, b, o) = Total(h)
  BY DEF SameOf
<1> HIDE DEF S, h
<1>5. Total(h) \in Int
  BY <1>2, <1>3, NumbersAreSummable
<1> QED BY <1>2, <1>4, <1>5 DEF h, S

\* What a group has in common, and what is left of either side.
LEMMA GroupNumbers ==
    ASSUME NEW a \in Seq(LabelledRecords), NEW b \in Seq(LabelledRecords), NEW o
    PROVE  /\ SameOf(a, b, o) \in Int
           /\ LeftOf(a, a, b, o) = Cardinality(LinesOf(a, o)) - SameOf(a, b, o)
           /\ LeftOf(b, a, b, o) = Cardinality(LinesOf(b, o)) - SameOf(a, b, o)
           /\ Cardinality(LinesOf(a, o)) \in Nat /\ Cardinality(LinesOf(b, o)) \in Nat
           /\ ChangedOf(a, b, o) \in Int
           /\ LeftOf(a, a, b, o) \in Int /\ LeftOf(b, a, b, o) \in Int
<1>1. Cardinality(LinesOf(a, o)) \in Nat /\ Cardinality(LinesOf(b, o)) \in Nat
  BY FileFacts
<1>2. SameOf(a, b, o) \in Int
  BY SameIsNumber
<1>3. /\ LeftOf(a, a, b, o) = Cardinality(LinesOf(a, o)) - SameOf(a, b, o)
      /\ LeftOf(b, a, b, o) = Cardinality(LinesOf(b, o)) - SameOf(a, b, o)
  BY HadCounts DEF LeftOf
<1>4. LeftOf(a, a, b, o) \in Int /\ LeftOf(b, a, b, o) \in Int
  BY <1>1, <1>2, <1>3
<1>5. ChangedOf(a, b, o) \in Int
  BY <1>4, LessOrEqual DEF ChangedOf
<1> QED BY <1>1, <1>2, <1>3, <1>4, <1>5

\* b is a with lines added and lines replaced by lines of the same occurrence.
Extends(a, b) == /\ Len(a) <= Len(b)
                 /\ \A i \in 1..Len(a) : b[i].occurrence = a[i].occurrence

LEMMA LinesStay ==
    ASSUME NEW a \in Seq(LabelledRecords), NEW b \in Seq(LabelledRecords), Extends(a, b), NEW o
    PROVE  /\ Cardinality(LinesOf(a, o)) <= Cardinality(LinesOf(b, o))
           /\ ChangedOf(a, b, o) = LeftOf(a, a, b, o)
<1>1. LinesOf(a, o) \subseteq LinesOf(b, o)
  BY DEF LinesOf, Extends
<1>2. IsFiniteSet(LinesOf(b, o))
  <2>1. LinesOf(b, o) \in SUBSET DOMAIN b
    BY DEF LinesOf
  <2> QED BY <2>1, FileFacts, FS_Subset
<1>3. Cardinality(LinesOf(a, o)) <= Cardinality(LinesOf(b, o))
  BY <1>1, <1>2, FS_Subset
<1> DEFINE m == Cardinality(LinesOf(a, o))
           n == Cardinality(LinesOf(b, o))
           s == SameOf(a, b, o)
           l == LeftOf(a, a, b, o)
           r == LeftOf(b, a, b, o)
<1>4. s \in Int /\ m \in Nat /\ n \in Nat /\ l = m - s /\ r = n - s
  BY GroupNumbers
<1>5. m <= n
  BY <1>3
<1> HIDE DEF m, n, s, l, r
<1>6. l \in Int /\ r \in Int /\ l <= r
  BY <1>4, <1>5
<1>7. Less(l, r) = l
  BY <1>6, LessOrEqual
<1> QED BY <1>3, <1>7 DEF l, r, ChangedOf

LinesBy(file, a, b) == [o \in OccurrencesOf(a, b) |-> Cardinality(LinesOf(file, o))]
SameBy(a, b) == [o \in OccurrencesOf(a, b) |-> SameOf(a, b, o)]
ChangedBy(a, b) == [o \in OccurrencesOf(a, b) |-> ChangedOf(a, b, o)]
SurplusBy(file, a, b) ==
    [o \in OccurrencesOf(a, b) |-> LeftOf(file, a, b, o) - ChangedOf(a, b, o)]

LEMMA DiffNumbers ==
    ASSUME NEW a \in Seq(LabelledRecords), NEW b \in Seq(LabelledRecords),
           NEW S, S = OccurrencesOf(a, b)
    PROVE  /\ IsFiniteSet(S)
           /\ IsNumbers(LinesBy(a, a, b), S) /\ IsNumbers(LinesBy(b, a, b), S)
           /\ IsNumbers(SameBy(a, b), S) /\ IsNumbers(ChangedBy(a, b), S)
           /\ IsNumbers(SurplusBy(a, a, b), S) /\ IsNumbers(SurplusBy(b, a, b), S)
<1>1. IsFiniteSet(S)
  BY GroupsAreFinite
<1>2. IsNumbers(LinesBy(a, a, b), S) /\ IsNumbers(LinesBy(b, a, b), S)
  BY GroupNumbers DEF IsNumbers, LinesBy
<1>3. IsNumbers(SameBy(a, b), S) /\ IsNumbers(ChangedBy(a, b), S)
  BY GroupNumbers DEF IsNumbers, SameBy, ChangedBy
<1>4. \A o : /\ LeftOf(a, a, b, o) - ChangedOf(a, b, o) \in Int
             /\ LeftOf(b, a, b, o) - ChangedOf(a, b, o) \in Int
  <2> SUFFICES ASSUME NEW o
               PROVE  /\ LeftOf(a, a, b, o) - ChangedOf(a, b, o) \in Int
                      /\ LeftOf(b, a, b, o) - ChangedOf(a, b, o) \in Int
    OBVIOUS
  <2>1. /\ ChangedOf(a, b, o) \in Int
        /\ LeftOf(a, a, b, o) \in Int /\ LeftOf(b, a, b, o) \in Int
    BY GroupNumbers
  <2> QED BY <2>1
<1>5. IsNumbers(SurplusBy(a, a, b), S) /\ IsNumbers(SurplusBy(b, a, b), S)
  BY <1>4 DEF IsNumbers, SurplusBy
<1> QED BY <1>1, <1>2, <1>3, <1>5

\* A diff with an extension removes nothing, adds what is longer, and each line of the
\* first file is either the same or changed.
LEMMA DiffOfExtension ==
    ASSUME NEW a \in Seq(LabelledRecords), NEW b \in Seq(LabelledRecords), Extends(a, b)
    PROVE  /\ Surplus(a, a, b) = 0
           /\ Surplus(b, a, b) = Len(b) - Len(a)
           /\ UnchangedLines(a, b) + ChangedLines(a, b) = Len(a)
           /\ UnchangedLines(a, b) \in Int /\ ChangedLines(a, b) \in Int
<1> DEFINE S == OccurrencesOf(a, b)
           la == LinesBy(a, a, b)
           lb == LinesBy(b, a, b)
           same == SameBy(a, b)
           moved == ChangedBy(a, b)
           less == SurplusBy(a, a, b)
           more == SurplusBy(b, a, b)
<1>1. /\ IsFiniteSet(S) /\ IsNumbers(la, S) /\ IsNumbers(lb, S) /\ IsNumbers(same, S)
      /\ IsNumbers(moved, S) /\ IsNumbers(less, S) /\ IsNumbers(more, S)
  BY DiffNumbers
<1>2. ASSUME NEW o \in S
      PROVE  less[o] = 0 /\ la[o] = same[o] + moved[o] /\ lb[o] = la[o] + more[o]
  <2> DEFINE m == Cardinality(LinesOf(a, o))
             n == Cardinality(LinesOf(b, o))
             s == SameOf(a, b, o)
             l == LeftOf(a, a, b, o)
             r == LeftOf(b, a, b, o)
             c == ChangedOf(a, b, o)
  <2>1. /\ s \in Int /\ m \in Nat /\ n \in Nat /\ l = m - s /\ r = n - s
    BY GroupNumbers
  <2>2. c = l
    BY LinesStay
  <2>3. /\ less[o] = l - c /\ la[o] = m /\ same[o] = s /\ moved[o] = c /\ lb[o] = n
        /\ more[o] = r - c
    BY DEF SurplusBy, LinesBy, SameBy, ChangedBy
  <2> HIDE DEF S, la, lb, same, moved, less, more, m, n, s, l, r, c
  <2>4. l - c = 0 /\ m = s + c /\ n = m + (r - c)
    BY <2>1, <2>2
  <2> QED BY <2>3, <2>4
<1>3. /\ Total(la) = Len(a) /\ Total(lb) = Len(b)
  BY LinesAddUp DEF LinesBy
<1>4. /\ Surplus(a, a, b) = Total(less) /\ Surplus(b, a, b) = Total(more)
      /\ UnchangedLines(a, b) = Total(same) /\ ChangedLines(a, b) = Total(moved)
  BY DEF Surplus, UnchangedLines, ChangedLines, SurplusBy, SameBy, ChangedBy
<1> HIDE DEF S, la, lb, same, moved, less, more
<1>5. Total(less) = 0
  BY <1>1, <1>2, TotalOfZeros
<1>6. Total(la) = Total(same) + Total(moved)
  BY <1>1, <1>2, TotalsAdd
<1>7. Total(lb) = Total(la) + Total(more)
  BY <1>1, <1>2, TotalsAdd
<1>8. /\ Total(same) \in Int /\ Total(moved) \in Int /\ Total(more) \in Int
  BY <1>1, NumbersAreSummable
<1>9. Len(a) \in Nat /\ Len(b) \in Nat
  OBVIOUS
<1>10. Total(more) = Len(b) - Len(a)
  BY <1>3, <1>7, <1>8, <1>9
<1> QED BY <1>3, <1>4, <1>5, <1>6, <1>8, <1>10

StillThere(a, b) == {i \in 1..Len(a) : b[i] = a[i]}

LEMMA KeptIsFinite ==
    ASSUME NEW a \in Seq(LabelledRecords), NEW b \in Seq(LabelledRecords), Len(a) <= Len(b)
    PROVE  /\ IsFiniteSet(StillThere(a, b)) /\ StillThere(a, b) \subseteq DOMAIN a /\ StillThere(a, b) \subseteq DOMAIN b
<1>1. StillThere(a, b) \subseteq DOMAIN a /\ StillThere(a, b) \subseteq DOMAIN b
  BY DEF StillThere
<1> QED BY <1>1, FileFacts, FS_Subset

LEMMA KeptOfRecord ==
    ASSUME NEW a \in Seq(LabelledRecords), NEW b \in Seq(LabelledRecords), Len(a) <= Len(b), NEW rec
    PROVE  /\ Cardinality({i \in StillThere(a, b) : a[i] = rec}) <= Less(Times(a, rec), Times(b, rec))
<1> DEFINE E == {i \in StillThere(a, b) : a[i] = rec}
           A == {i \in DOMAIN a : a[i] = rec}
           B == {i \in DOMAIN b : b[i] = rec}
<1>1. E \subseteq A /\ E \subseteq B /\ A \subseteq DOMAIN a /\ B \subseteq DOMAIN b
  BY DEF StillThere
<1>2. IsFiniteSet(DOMAIN a) /\ IsFiniteSet(DOMAIN b)
  BY FileFacts
<1>3. Times(a, rec) = Cardinality(A) /\ Times(b, rec) = Cardinality(B)
  BY DEF Times
<1> HIDE DEF E, A, B
<1>4. IsFiniteSet(A) /\ IsFiniteSet(B)
  BY <1>1, <1>2, FS_Subset
<1>5. Cardinality(E) <= Cardinality(A) /\ Cardinality(E) <= Cardinality(B)
  BY <1>1, <1>4, FS_Subset
<1>6. Cardinality(E) <= Less(Cardinality(A), Cardinality(B))
  BY <1>5 DEF Less
<1> QED BY <1>3, <1>6 DEF E

LEMMA KeptOfOccurrence ==
    ASSUME NEW a \in Seq(LabelledRecords), NEW b \in Seq(LabelledRecords), Len(a) <= Len(b), NEW o
    PROVE  /\ Cardinality({i \in StillThere(a, b) : a[i].occurrence = o}) <= SameOf(a, b, o)
<1> DEFINE E == StillThere(a, b)
           S == GroupAt(a, b, o)
           f == CountsByKey(E, S, a)
           g == [rec \in S |-> Less(Times(a, rec), Times(b, rec))]
<1>1. IsFiniteSet(E) /\ IsFiniteSet(S) /\ E \subseteq DOMAIN a
  BY KeptIsFinite, GroupsAreFinite
<1>2. IsNumbers(g, S)
  BY SameIsNumber
<1>3. \A rec \in S : f[rec] <= g[rec]
  BY KeptOfRecord DEF CountsByKey
<1>4. WithKeyIn(E, S, a) = {i \in E : a[i].occurrence = o}
  BY <1>1 DEF WithKeyIn, GroupAt, AllOf, Range
<1>5. SameOf(a, b, o) = Total(g)
  BY DEF SameOf
<1>6. IsNumbers(f, S) /\ Total(f) = Cardinality(WithKeyIn(E, S, a))
  BY <1>1, KeysPartition
<1> HIDE DEF E, S, f, g
<1>7. Total(f) <= Total(g)
  BY <1>1, <1>2, <1>3, <1>6, TotalsAreMonotone
<1> QED BY <1>4, <1>5, <1>6, <1>7 DEF E

LEMMA KeptIsUnchanged ==
    ASSUME NEW a \in Seq(LabelledRecords), NEW b \in Seq(LabelledRecords), Len(a) <= Len(b)
    PROVE  Cardinality(StillThere(a, b)) <= UnchangedLines(a, b)
<1> DEFINE E == StillThere(a, b)
           S == OccurrencesOf(a, b)
           key == [i \in E |-> a[i].occurrence]
           f == CountsByKey(E, S, key)
           g == SameBy(a, b)
<1>1. IsFiniteSet(E) /\ IsFiniteSet(S) /\ E \subseteq DOMAIN a
  BY KeptIsFinite, GroupsAreFinite
<1>2. IsNumbers(g, S)
  BY DiffNumbers
<1>3. ASSUME NEW o \in S PROVE f[o] <= g[o]
  <2>1. {i \in E : key[i] = o} = {i \in StillThere(a, b) : a[i].occurrence = o}
    OBVIOUS
  <2>2. f[o] = Cardinality({i \in E : key[i] = o})
    BY DEF CountsByKey
  <2>3. g[o] = SameOf(a, b, o)
    BY DEF SameBy
  <2> QED BY <2>1, <2>2, <2>3, KeptOfOccurrence
<1>4. WithKeyIn(E, S, key) = E
  BY <1>1 DEF WithKeyIn, OccurrencesOf, AllOf, Range
<1>5. UnchangedLines(a, b) = Total(g)
  BY DEF UnchangedLines, SameBy
<1>6. IsNumbers(f, S) /\ Total(f) = Cardinality(WithKeyIn(E, S, key))
  BY <1>1, KeysPartition
<1> HIDE DEF E, S, f, g, key
<1>7. Total(f) <= Total(g)
  BY <1>1, <1>2, <1>3, <1>6, TotalsAreMonotone
<1> QED BY <1>4, <1>5, <1>6, <1>7 DEF E

\* The diff the other way round is the mirror image.
LEMMA DiffMirrors ==
    ASSUME NEW a \in Seq(LabelledRecords), NEW b \in Seq(LabelledRecords)
    PROVE  /\ UnchangedLines(b, a) = UnchangedLines(a, b) /\ ChangedLines(b, a) = ChangedLines(a, b)
           /\ Surplus(b, b, a) = Surplus(b, a, b) /\ Surplus(a, b, a) = Surplus(a, a, b)
<1>1. OccurrencesOf(b, a) = OccurrencesOf(a, b) /\ \A o : GroupAt(b, a, o) = GroupAt(a, b, o)
  <2>1. AllOf(b, a) = AllOf(a, b)
    BY DEF AllOf
  <2> QED BY <2>1 DEF OccurrencesOf, GroupAt
<1>2. \A rec : Less(Times(b, rec), Times(a, rec)) = Less(Times(a, rec), Times(b, rec))
  <2> SUFFICES ASSUME NEW rec
               PROVE  Less(Times(b, rec), Times(a, rec)) = Less(Times(a, rec), Times(b, rec))
    OBVIOUS
  <2>1. Times(a, rec) \in Int /\ Times(b, rec) \in Int
    BY FileFacts
  <2> QED BY <2>1, LessOrEqual
<1>3. \A o : SameOf(b, a, o) = SameOf(a, b, o)
  <2> SUFFICES ASSUME NEW o PROVE SameOf(b, a, o) = SameOf(a, b, o)
    OBVIOUS
  <2>1. [rec \in GroupAt(b, a, o) |-> Less(Times(b, rec), Times(a, rec))] =
        [rec \in GroupAt(a, b, o) |-> Less(Times(a, rec), Times(b, rec))]
    BY <1>1, <1>2
  <2> QED BY <2>1 DEF SameOf
<1>4. \A o : LeftOf(a, b, a, o) = LeftOf(a, a, b, o) /\ LeftOf(b, b, a, o) = LeftOf(b, a, b, o)
  BY <1>1, <1>3 DEF LeftOf, Had
<1>5. \A o : ChangedOf(b, a, o) = ChangedOf(a, b, o)
  <2> SUFFICES ASSUME NEW o PROVE ChangedOf(b, a, o) = ChangedOf(a, b, o)
    OBVIOUS
  <2>1. LeftOf(a, a, b, o) \in Int /\ LeftOf(b, a, b, o) \in Int
    BY GroupNumbers
  <2> QED BY <1>4, <2>1, LessOrEqual DEF ChangedOf
<1>6. UnchangedLines(b, a) = UnchangedLines(a, b)
  BY <1>1, <1>3 DEF UnchangedLines
<1>7. ChangedLines(b, a) = ChangedLines(a, b)
  BY <1>1, <1>5 DEF ChangedLines
<1>8. Surplus(b, b, a) = Surplus(b, a, b) /\ Surplus(a, b, a) = Surplus(a, a, b)
  BY <1>1, <1>4, <1>5 DEF Surplus
<1> QED BY <1>6, <1>7, <1>8

\* The diff is of what the files hold, not of the order they hold it in.
LEMMA DiffDependsOn ==
    ASSUME NEW a, NEW b, NEW c, Range(c) = Range(a), \A rec : Times(c, rec) = Times(a, rec),
           Observations(c) = Observations(a)
    PROVE  Diff(c, b) = Diff(a, b)
<1>1. AllOf(c, b) = AllOf(a, b)
  BY DEF AllOf
<1>2. OccurrencesOf(c, b) = OccurrencesOf(a, b) /\ \A o : GroupAt(c, b, o) = GroupAt(a, b, o)
  BY <1>1 DEF OccurrencesOf, GroupAt
<1>3. \A o : SameOf(c, b, o) = SameOf(a, b, o)
  BY <1>2 DEF SameOf
<1>4. \A o : LeftOf(c, c, b, o) = LeftOf(a, a, b, o) /\ LeftOf(b, c, b, o) = LeftOf(b, a, b, o)
  BY <1>2, <1>3 DEF LeftOf, Had
<1>5. \A o : ChangedOf(c, b, o) = ChangedOf(a, b, o)
  BY <1>4 DEF ChangedOf
<1>6. UnchangedLines(c, b) = UnchangedLines(a, b) /\ ChangedLines(c, b) = ChangedLines(a, b)
  BY <1>2, <1>3, <1>5 DEF UnchangedLines, ChangedLines
<1>7. Surplus(c, c, b) = Surplus(a, a, b) /\ Surplus(b, c, b) = Surplus(b, a, b)
  BY <1>2, <1>4, <1>5 DEF Surplus
<1> QED BY <1>6, <1>7, DiffIs

\* The lines of a file backwards are the same lines.
LEMMA ReverseFacts ==
    ASSUME NEW a \in Seq(LabelledRecords)
    PROVE  /\ Reverse(a) \in Seq(LabelledRecords) /\ Len(Reverse(a)) = Len(a)
           /\ \A i \in 1..Len(a) : Reverse(a)[i] = a[Len(a) - i + 1]
           /\ DOMAIN Reverse(a) = DOMAIN a
BY DEF Reverse

LEMMA ReverseRange ==
    ASSUME NEW a \in Seq(LabelledRecords)
    PROVE  Range(Reverse(a)) = Range(a)
<1> DEFINE n == Len(a)
           c == Reverse(a)
<1>1. /\ DOMAIN a = 1..n /\ DOMAIN c = 1..n /\ \A i \in 1..n : c[i] = a[n - i + 1]
      /\ n \in Nat
  BY ReverseFacts
<1> HIDE DEF n, c
<1>2. ASSUME NEW i \in 1..n PROVE n - i + 1 \in 1..n /\ n - (n - i + 1) + 1 = i
  BY <1>1
<1>3. \A i \in 1..n : c[i] \in Range(a)
  BY <1>1, <1>2 DEF Range
<1>4. \A i \in 1..n : a[i] = c[n - i + 1] /\ n - i + 1 \in DOMAIN c
  BY <1>1, <1>2
<1>5. \A i \in 1..n : a[i] \in Range(c)
  BY <1>4 DEF Range
<1>6. Range(c) = Range(a)
  BY <1>1, <1>3, <1>5 DEF Range
<1> QED BY <1>6 DEF c

LEMMA ReverseTimes ==
    ASSUME NEW a \in Seq(LabelledRecords), NEW rec
    PROVE  Times(Reverse(a), rec) = Times(a, rec)
<1> DEFINE n == Len(a)
           c == Reverse(a)
           A == {i \in DOMAIN a : a[i] = rec}
           C == {i \in DOMAIN c : c[i] = rec}
           f == [i \in A |-> n - i + 1]
<1>1. /\ DOMAIN a = 1..n /\ DOMAIN c = 1..n /\ \A i \in 1..n : c[i] = a[n - i + 1]
      /\ n \in Nat
  BY ReverseFacts
<1>2. IsFiniteSet(A)
  <2>1. A \in SUBSET (DOMAIN a)
    OBVIOUS
  <2> QED BY <2>1, FileFacts, FS_Subset
<1>3. Times(c, rec) = Cardinality(C) /\ Times(a, rec) = Cardinality(A)
  BY DEF Times
<1> HIDE DEF n, c
<1>4. \A i \in 1..n : n - i + 1 \in 1..n /\ n - (n - i + 1) + 1 = i
  BY <1>1
<1>5. \A i \in A : i \in 1..n /\ f[i] \in C
  BY <1>1, <1>4
<1>6. \A i, j \in A : f[i] = f[j] => i = j
  BY <1>1, <1>5
<1>7. \A j \in C : \E i \in A : f[i] = j
  <2> SUFFICES ASSUME NEW j \in C PROVE \E i \in A : f[i] = j
    OBVIOUS
  <2>1. j \in 1..n /\ a[n - j + 1] = rec /\ n - j + 1 \in 1..n
    BY <1>1, <1>4
  <2>2. n - j + 1 \in A
    BY <1>1, <2>1
  <2>3. f[n - j + 1] = j
    BY <1>4, <2>1, <2>2
  <2> QED BY <2>2, <2>3
<1> HIDE DEF A, C
<1>8. f \in Bijection(A, C)
  <2>1. f \in [A -> C]
    BY <1>5
  <2> HIDE DEF f
  <2> QED BY <1>6, <1>7, <2>1 DEF Bijection, Injection, Surjection, IsInjective
<1> HIDE DEF f
<1>9. Cardinality(A) = Cardinality(C)
  <2>1. ExistsBijection(A, C)
    BY <1>8 DEF ExistsBijection
  <2> QED BY <1>2, <2>1, FS_Bijection
<1> QED BY <1>3, <1>9 DEF c

AnswersBy(a) == [i \in DOMAIN a |-> Len(a[i].obs)]

LEMMA AnswersAreNumbers ==
    ASSUME NEW a \in Seq(LabelledRecords)
    PROVE  /\ IsNumbers(AnswersBy(a), DOMAIN a) /\ \A i \in DOMAIN a : AnswersBy(a)[i] >= 0
           /\ Observations(a) = Total(AnswersBy(a)) /\ Observations(a) \in Int
<1>1. \A i \in DOMAIN a : Len(a[i].obs) \in Nat
  <2> SUFFICES ASSUME NEW i \in DOMAIN a PROVE Len(a[i].obs) \in Nat
    OBVIOUS
  <2>1. a[i] \in LabelledRecords
    OBVIOUS
  <2>2. a[i].obs \in Seq(Answers)
    BY <2>1 DEF LabelledRecords
  <2> QED BY <2>2
<1>2. IsNumbers(AnswersBy(a), DOMAIN a) /\ \A i \in DOMAIN a : AnswersBy(a)[i] >= 0
  BY <1>1 DEF IsNumbers, AnswersBy
<1>3. Observations(a) = Total(AnswersBy(a))
  BY DEF Observations, AnswersBy
<1>4. IsFiniteSet(DOMAIN a)
  BY FileFacts
<1> QED BY <1>2, <1>3, <1>4, NumbersAreSummable

LEMMA ReverseObservations ==
    ASSUME NEW a \in Seq(LabelledRecords)
    PROVE  Observations(Reverse(a)) = Observations(a)
<1> DEFINE n == Len(a)
           c == Reverse(a)
           D == DOMAIN a
           h == AnswersBy(a)
           g == AnswersBy(c)
           r == [i \in D |-> n - i + 1]
<1>1. /\ D = 1..n /\ DOMAIN c = D /\ \A i \in 1..n : c[i] = a[n - i + 1]
      /\ n \in Nat /\ c \in Seq(LabelledRecords)
  BY ReverseFacts
<1>2. IsFiniteSet(D) /\ IsNumbers(h, D)
  BY FileFacts, AnswersAreNumbers
<1>3. Observations(a) = Total(h)
  BY AnswersAreNumbers
<1>c. Observations(c) = Total(g)
  <2> HIDE DEF c
  <2> QED BY <1>1, AnswersAreNumbers
<1>4. \A i \in D : h[i] = Len(a[i].obs)
  BY DEF AnswersBy
<1> HIDE DEF n, c, h
<1>5. \A i \in 1..n : n - i + 1 \in 1..n /\ n - (n - i + 1) + 1 = i
  BY <1>1
<1>6. g = [i \in D |-> h[r[i]]]
  <2>1. \A i \in D : Len(c[i].obs) = h[r[i]]
    BY <1>1, <1>4, <1>5
  <2> QED BY <1>1, <2>1 DEF AnswersBy
<1>7. \A i, j \in D : r[i] = r[j] => i = j
  BY <1>1
<1>8. \A j \in D : \E i \in D : r[i] = j
  <2> SUFFICES ASSUME NEW j \in D PROVE \E i \in D : r[i] = j
    OBVIOUS
  <2>1. n - j + 1 \in D /\ r[n - j + 1] = j
    BY <1>1, <1>5
  <2> QED BY <2>1
<1>9. r \in [D -> D]
  BY <1>1, <1>5
<1> HIDE DEF D, g, r
<1>10. Total(g) = Total(h)
  BY <1>2, <1>6, <1>7, <1>8, <1>9, TotalsRename
<1> QED BY <1>3, <1>c, <1>10 DEF c

LEMMA DiffOfReverse ==
    ASSUME NEW a \in Seq(LabelledRecords), NEW b
    PROVE  Diff(Reverse(a), b) = Diff(a, b)
BY ReverseRange, ReverseTimes, ReverseObservations, DiffDependsOn

\* If no line has fewer answers, there are no fewer in all.
LEMMA AnswersGrow ==
    ASSUME NEW a \in Seq(LabelledRecords), NEW b \in Seq(LabelledRecords), Len(a) <= Len(b),
           \A i \in 1..Len(a) : Len(a[i].obs) <= Len(b[i].obs)
    PROVE  Observations(b) - Observations(a) >= 0
<1> DEFINE D == DOMAIN a
           T == DOMAIN b
           f == AnswersBy(a)
           h == AnswersBy(b)
           g == Part(h, D)
<1>1. IsFiniteSet(D) /\ IsFiniteSet(T) /\ D \in SUBSET T
  BY FileFacts
<1>2. IsNumbers(f, D) /\ Observations(a) = Total(f) /\ Observations(a) \in Int
  BY AnswersAreNumbers
<1>3. /\ IsNumbers(h, T) /\ Observations(b) = Total(h) /\ Observations(b) \in Int
      /\ \A i \in T : h[i] >= 0
  BY AnswersAreNumbers
<1>4. IsNumbers(g, D)
  <2>1. \A i \in D : h[i] \in Int
    BY <1>1, <1>3 DEF IsNumbers
  <2> HIDE DEF D, h
  <2> QED BY <2>1 DEF IsNumbers, Part
<1>5. \A i \in D : f[i] <= g[i]
  BY <1>1 DEF AnswersBy, Part
<1> HIDE DEF D, T, f, h
<1>6. Total(f) <= Total(g)
  <2> HIDE DEF g
  <2> QED BY <1>1, <1>2, <1>4, <1>5, TotalsAreMonotone
<1>7. Total(g) <= Total(h)
  BY <1>1, <1>3, PartsAreLess
<1>8. Total(g) \in Int
  <2> HIDE DEF g
  <2> QED BY <1>1, <1>4, NumbersAreSummable
<1> QED BY <1>2, <1>3, <1>6, <1>7, <1>8

DiffingInv == /\ MergingInv
              /\ phase \in {"conflicts", "end"} => diff = Diff(primary, merged)

LEMMA DiffingInit == RelabelInit => DiffingInv
<1>1. RelabelInit => phase = "merge"
  BY DEF RelabelInit
<1> QED BY <1>1, MergingInit DEF DiffingInv

LEMMA DiffingNext == DiffingInv /\ [RelabelNext]_relabelVars => DiffingInv'
<1> SUFFICES ASSUME DiffingInv, [RelabelNext]_relabelVars, phase' \in {"conflicts", "end"}
             PROVE  diff' = Diff(primary', merged')
  BY MergingNext DEF DiffingInv
<1>1. CASE DatasetDiff
  BY <1>1 DEF DatasetDiff
<1>2. CASE \/ ConflictLine \/ ConflictEnd \/ UNCHANGED relabelVars
  <2>1. phase \in {"conflicts", "end"} /\ UNCHANGED <<primary, merged, diff>>
    BY <1>2 DEF ConflictLine, ConflictEnd, relabelVars
  <2> QED BY <2>1 DEF DiffingInv
<1>3. CASE \/ MergePrimary \/ PrimaryRead \/ MergeRest \/ MergeCommit
  BY <1>3 DEF MergePrimary, PrimaryRead, MergeRest, MergeCommit
<1> QED BY <1>1, <1>2, <1>3 DEF RelabelNext, relabelVars

\* What comes out starts with what went in.
LEMMA MergeExtends ==
    ASSUME MergingInv, phase # "merge"
    PROVE  /\ primary \in Seq(LabelledRecords) /\ merged \in Seq(LabelledRecords)
           /\ Len(merged) - Len(primary) = counts.secondaryOnly
           /\ Extends(primary, merged)
           /\ \A i \in 1..Len(primary) : Survives(primary[i], merged[i])
<1>1. /\ primary \in Seq(LabelledRecords) /\ secondary \in Seq(LabelledRecords)
      /\ merged \in Seq(LabelledRecords) /\ Met = Len(primary)
  BY DEF MergingInv, ReportingInv, RelabelTypes, Met
<1>2. /\ Len(merged) = Len(primary) + counts.secondaryOnly
      /\ counts.secondaryOnly \in Nat
  BY <1>1 DEF MergingInv, Counting
<1>3. /\ Len(merged) - Len(primary) = counts.secondaryOnly /\ Len(primary) <= Len(merged)
  <2> DEFINE l == Len(primary)
             m == Len(merged)
             c == counts.secondaryOnly
  <2>1. l \in Nat /\ c \in Nat /\ m = l + c
    BY <1>1, <1>2
  <2> HIDE DEF l, m, c
  <2>2. m - l = c /\ l <= m
    BY <2>1
  <2> QED BY <2>2 DEF l, m, c
<1>4. \A i \in 1..Len(primary) : Survives(primary[i], merged[i])
  <2> SUFFICES ASSUME NEW i \in 1..Len(primary) PROVE Survives(primary[i], merged[i])
    OBVIOUS
  <2>1. i \in 1..Met
    BY <1>1
  <2>2. PICK pair \in Survivors : pair = <<primary[i], merged[i]>>
    BY <2>1 DEF MergingInv, Keeping
  <2>3. Survives(pair[1], pair[2]) /\ pair[1] = primary[i] /\ pair[2] = merged[i]
    BY <2>2 DEF Survivors
  <2> QED BY <2>3
<1>5. \A i \in 1..Len(primary) : merged[i].occurrence = primary[i].occurrence
  BY <1>4 DEF Survives
<1> QED BY <1>1, <1>3, <1>4, <1>5 DEF Extends

\* As many lines are changed as merged at most.
LEMMA FewAreChanged ==
    ASSUME MergingInv, phase # "merge"
    PROVE  ChangedLines(primary, merged) <= counts.both
<1> DEFINE l == Len(primary)
           same == UnchangedLines(primary, merged)
           moved == ChangedLines(primary, merged)
           both == counts.both
           only == counts.primaryOnly
           still == Cardinality(StillThere(primary, merged))
<1>1. /\ primary \in Seq(LabelledRecords) /\ merged \in Seq(LabelledRecords)
      /\ Extends(primary, merged) /\ Len(primary) <= Len(merged)
  BY MergeExtends DEF Extends
<1>2. same + moved = l /\ same \in Int /\ moved \in Int /\ l \in Nat
  BY <1>1, DiffOfExtension
<1>3. Met = l
  BY DEF Met
<1>4. /\ both \in Nat /\ only \in Nat /\ both + only = l /\ only = Cardinality(AloneIn(l))
  BY <1>3 DEF MergingInv, Counting
<1>5. AloneIn(l) \subseteq StillThere(primary, merged)
  <2> SUFFICES ASSUME NEW i \in AloneIn(l) PROVE i \in StillThere(primary, merged)
    OBVIOUS
  <2>1. i \in 1..Len(primary) /\ Partners[primary[i]] = {}
    BY DEF AloneIn
  <2>2. primary[i] \in LabelledRecords /\ Survives(primary[i], merged[i])
    BY <1>1, <2>1, MergeExtends
  <2>3. Partner(primary[i]) = {}
    BY <2>1, <2>2 DEF Partners
  <2>4. {secondary[j].obs : j \in Partner(primary[i])} = {}
    BY <2>3
  <2>5. merged[i] = primary[i]
    BY <2>2, <2>4 DEF Survives
  <2> QED BY <2>1, <2>5 DEF StillThere
<1>6. IsFiniteSet(StillThere(primary, merged))
  BY <1>1, KeptIsFinite
<1>7. only <= still /\ still \in Nat
  BY <1>4, <1>5, <1>6, FS_Subset, FS_CardinalityType
<1>8. still <= same
  BY <1>1, KeptIsUnchanged
<1> HIDE DEF l, same, moved, both, only, still
<1>9. moved <= both
  BY <1>2, <1>4, <1>7, <1>8
<1> QED BY <1>9 DEF moved, both

LEMMA BothAreMore ==
    ASSUME MergingInv, phase # "merge", policy = "keep-both"
    PROVE  Observations(merged) - Observations(primary) >= 0
<1>1. /\ primary \in Seq(LabelledRecords) /\ merged \in Seq(LabelledRecords)
      /\ Len(primary) <= Len(merged) /\ secondary \in Seq(LabelledRecords)
  BY MergeExtends DEF Extends, MergingInv, ReportingInv, RelabelTypes
<1>2. ASSUME NEW i \in 1..Len(primary)
      PROVE  Len(primary[i].obs) <= Len(merged[i].obs)
  <2> DEFINE s == {secondary[j].obs : j \in Partner(primary[i])}
  <2>1. primary[i] \in LabelledRecords /\ Survives(primary[i], merged[i])
    BY <1>1, MergeExtends
  <2>2. primary[i].obs \in Seq(Answers)
    BY <2>1 DEF LabelledRecords
  <2>3. CASE s = {}
    <3>1. merged[i] = primary[i]
      BY <2>1, <2>3 DEF Survives
    <3> QED BY <2>2, <3>1
  <2>4. CASE s # {}
    <3>1. PICK j \in Partner(primary[i]) : TRUE
      BY <2>4
    <3>2. secondary[j] \in LabelledRecords
      BY <1>1 DEF Partner
    <3>3. secondary[j].obs \in Seq(Answers) /\ secondary[j].obs \in s
      BY <3>2 DEF LabelledRecords
    <3>4. merged[i].obs = primary[i].obs \o secondary[j].obs
      BY <2>1, <3>3 DEF Survives
    <3> DEFINE a == primary[i].obs
               b == secondary[j].obs
    <3>5. a \in Seq(Answers) /\ b \in Seq(Answers) /\ merged[i].obs = a \o b
      BY <2>2, <3>3, <3>4
    <3> HIDE DEF s, a, b
    <3>6. Len(a) \in Nat /\ Len(b) \in Nat /\ Len(a \o b) = Len(a) + Len(b)
      BY <3>5
    <3>7. Len(a) <= Len(merged[i].obs)
      BY <3>5, <3>6
    <3> QED BY <3>7 DEF a
  <2> QED BY <2>3, <2>4
<1> QED BY <1>1, <1>2, AnswersGrow

LEMMA DiffSees == DiffingInv => DiffSeesTheMerge
<1> SUFFICES ASSUME DiffingInv, phase = "conflicts", cursor = 0 PROVE DiffSeesTheMerge
  BY DEF DiffSeesTheMerge
<1> DEFINE p == primary
           m == merged
<1>1. /\ p \in Seq(LabelledRecords) /\ m \in Seq(LabelledRecords) /\ Extends(p, m)
      /\ Len(m) - Len(p) = counts.secondaryOnly
  BY MergeExtends DEF DiffingInv
<1>2. diff = Diff(p, m)
  BY DEF DiffingInv
<1> DEFINE back == Diff(m, p)
<1>3. /\ diff.unchanged = UnchangedLines(p, m) /\ diff.changed = ChangedLines(p, m)
      /\ diff.removed = Surplus(p, p, m) /\ diff.added = Surplus(m, p, m)
      /\ diff.observations = Observations(m) - Observations(p)
  BY <1>2, DiffIs
<1>4. /\ back.unchanged = UnchangedLines(m, p) /\ back.changed = ChangedLines(m, p)
      /\ back.removed = Surplus(m, m, p) /\ back.added = Surplus(p, m, p)
  BY DiffIs
<1>5. Diff(Reverse(p), m) = Diff(p, m)
  BY <1>1, DiffOfReverse
<1>6. /\ UnchangedLines(m, p) = UnchangedLines(p, m) /\ ChangedLines(m, p) = ChangedLines(p, m)
      /\ Surplus(m, m, p) = Surplus(m, p, m) /\ Surplus(p, m, p) = Surplus(p, p, m)
  BY <1>1, DiffMirrors
<1>7. /\ Surplus(p, p, m) = 0 /\ Surplus(m, p, m) = Len(m) - Len(p)
      /\ UnchangedLines(p, m) + ChangedLines(p, m) = Len(p)
  BY <1>1, DiffOfExtension
<1>8. ChangedLines(p, m) <= counts.both
  BY FewAreChanged DEF DiffingInv
<1>9. policy = "keep-both" => Observations(m) - Observations(p) >= 0
  BY BothAreMore DEF DiffingInv
<1>10. /\ diff.removed = 0 /\ diff.added = counts.secondaryOnly
       /\ diff.unchanged + diff.changed = Len(p) /\ diff.changed <= counts.both
       /\ policy = "keep-both" => diff.observations >= 0
  BY <1>1, <1>3, <1>7, <1>8, <1>9
<1>11. /\ back.unchanged = diff.unchanged /\ back.changed = diff.changed
       /\ back.added = diff.removed /\ back.removed = diff.added
       /\ Diff(Reverse(p), m) = diff
  BY <1>2, <1>3, <1>4, <1>5, <1>6
<1> QED BY <1>10, <1>11 DEF DiffSeesTheMerge

\* merge-observations loses no record and no answered question (ingest.rs:662), and
\* dataset-diff of the two files says so (diagnostics.rs:167), for any two files and
\* each policy.
THEOREM MergeNeverLoses == RelabelSpec => []MergeLosesNothing
<1>1. RelabelInit => DiffingInv
  BY DiffingInit
<1>2. DiffingInv /\ [RelabelNext]_relabelVars => DiffingInv'
  BY DiffingNext
<1>3. DiffingInv => MergeLosesNothing
  BY MergedRecordsSurvive, DiffSees DEF DiffingInv, MergeLosesNothing
<1> QED BY <1>1, <1>2, <1>3, PTL DEF RelabelSpec
=============================================================================
