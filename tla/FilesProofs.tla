----------------------------- MODULE FilesProofs -----------------------------
(***************************************************************************)
(* What becomes of files: the recipe runner, the path gate with its atomic *)
(* writers, and the split bundle.                                          *)
(*                                                                         *)
(* For any recipe, edits and failures: a stage runs on inputs that this    *)
(* run has checked or made; what a commit finds is on the disk wherever it *)
(* or its rollback is killed, and in its place when the rollback did not   *)
(* fail there; and a bundle that verifies holds what the recipe makes.     *)
(*                                                                         *)
(* None is inductive.  Beside where a run and a commit are, the invariant  *)
(* says that every manifest follows from itself: each stage it lists has   *)
(* the identities of its producers there, and recorded what a stage of its *)
(* identity makes of what they recorded.  A reused stage keeps this        *)
(* because a stage with the identity it had before makes what it made      *)
(* before; that a staged file left behind cannot break this is because a   *)
(* stage that a manifest lists has left none (CleanInv).                   *)
(*                                                                         *)
(* What the path gate and the atomic writers leave of the files of a       *)
(* directory, for any number of names, any links and hard links between    *)
(* them, any spellings and any number of outputs: the file a command reads *)
(* is as it was, and so is every name that no output leads to.             *)
(*                                                                         *)
(* A writer replaces a name only where a chain of links ends.  So the      *)
(* links are for ever those of the start (SameLinks), every path leads     *)
(* where it led then (TargetsAgree), and what the gate compared is what    *)
(* the writers replace.                                                    *)
(*                                                                         *)
(* The split bundle, for every set of sources and names, every input,      *)
(* every way the outputs are linked and every number of faults: what the   *)
(* commit and the rollback do to the previous outputs, the bound of the    *)
(* pool of writers, and that every record reaches its file.                *)
(***************************************************************************)
EXTENDS SplitBundle, RecipeRun, PathRoles, NaturalsInduction, WellFoundedInduction,
        FiniteSetTheorems, TLAPS

-----------------------------------------------------------------------------
(* The recipe runner and the path gate.                                    *)

\* What a stage of this identity writes to path p, reading what the list records.
Made(id, p, list) ==
    [path |-> p, recipe |-> id.recipe, external |-> id.external,
     from |-> [q \in {q \in OutputPaths : q[1] \in Producers[p[1]]} |-> list[q[1]].hashes[q]]]

\* The content of output p is a file, and is what the stage writes there, if it does.
Fits(content, id, p, list) ==
    content # NoFile /\ (p \notin Unwritten[id.recipe] => content = Made(id, p, list))

\* An entry for stage s that follows from the entries of its producers.
Follows(entry, s, list) ==
    /\ entry.identity.deps = [p \in Producers[s] |-> list[p].identity]
    /\ \A p \in OutputsOf(s) : Fits(entry.hashes[p], entry.identity, p, list)

\* A list of stages, each following from those before it.
Listed(list) ==
    /\ list \in Seq({list[i] : i \in 1..Len(list)}) /\ Len(list) <= Stages
    /\ \A s \in 1..Len(list) : Follows(list[s], s, list)

\* The plan is the one the recipe and the external input call for.
PlanInv == step # "off" => plan = Planned

\* A stage with the identity it had in the previous manifest makes what it made then.
SameInv ==
    \A s \in 1..Len(stages) :
        previous # NoFile /\ s \in 1..Len(previous.stages)
        /\ previous.stages[s].identity = stages[s].identity
            => \A p \in OutputsOf(s) : previous.stages[s].hashes[p] = stages[s].hashes[p]

\* The stages behind were recorded under their identity in the plan.
NamedInv == step # "off" => \A s \in 1..Len(stages) : stages[s].identity = plan[s].identity

ManifestInv ==
    /\ runJson # NoFile => Listed(runJson.stages)
    /\ previous # NoFile => Listed(previous.stages)
    /\ Listed(stages)

TypeInv ==
    /\ DOMAIN outputs = OutputPaths /\ DOMAIN staging = OutputPaths
    /\ DOMAIN backups = OutputPaths
    /\ step \in {"off", "stage", "commit", "rollback", "failed"} /\ idx \in Nat /\ out \in Nat

\* The stages behind are recorded as they are on disk.
InputsInv ==
    step \in {"stage", "commit"} =>
        /\ idx > 0 /\ Len(stages) = idx - 1
        /\ \A s \in 1..Len(stages) : \A p \in OutputsOf(s) : outputs[p] = stages[s].hashes[p]

\* How far the commit has come.
ProgressInv ==
    step = "commit" =>
        /\ out \in 1..OutputCount[idx] + 1
        /\ renamed = {<<idx, k>> : k \in 1..out - 1}
        /\ saved \subseteq {<<idx, k>> : k \in 1..out}
        /\ \A p \in OutputsOf(idx) :
               Fits(IF p \in renamed THEN outputs[p] ELSE staging[p], plan[idx].identity, p, stages)

\* Where the old content of an output is, in a commit and in its rollback.
OldInv ==
    /\ step \in {"commit", "rollback", "failed"} =>
        /\ idx \in 1..Stages
        /\ renamed \subseteq OutputsOf(idx) /\ saved \subseteq OutputsOf(idx)
        /\ \A p \in OutputsOf(idx) :
            /\ p \in saved => backups[p] = found[p]
            /\ p \notin saved /\ p \notin renamed /\ p \notin slipped => outputs[p] = found[p]
            /\ p \notin saved /\ p \in renamed => found[p] = NoFile
            /\ found[p] \in {NoFile, outputs[p], backups[p]}
    /\ step \notin {"rollback", "failed"} => slipped = {}
    /\ step = "failed" => renamed = {} /\ saved = {}

\* A stage that a manifest lists has nothing left in its staging directory, until
\* the run comes to it.
Clean(s) == \A p \in OutputsOf(s) : staging[p] = NoFile
CleanInv ==
    /\ runJson # NoFile => \A s \in 1..Len(runJson.stages) : Clean(s)
    /\ step # "off" => runJson # NoFile /\ runJson.stages = stages
    /\ step = "stage" /\ previous # NoFile => \A s \in 1..Len(previous.stages) : s >= idx => Clean(s)
    /\ step = "commit" =>
          /\ \A p \in renamed : staging[p] = NoFile
          /\ previous # NoFile => \A s \in 1..Len(previous.stages) :
                                     /\ s > idx => Clean(s)
                                     /\ s = idx => Left(idx) = {}

Inv == ManifestInv /\ TypeInv /\ InputsInv /\ ProgressInv /\ OldInv /\ PlanInv /\ SameInv
       /\ NamedInv /\ CleanInv

\* A set of naturals has a least element.
LEMMA Least ==
    ASSUME NEW T, T \subseteq Nat, T # {}
    PROVE  \E x \in T : \A y \in T : x <= y
<1> DEFINE R == OpToRel(<, Nat)
<1>1. IsWellFoundedOn(R, Nat)
  BY NatLessThanWellFounded
<1> HIDE DEF R
<1>2. PICK x \in T : \A y \in T : ~ (<<y, x>> \in R)
  BY <1>1, WFMin
<1>3. \A y \in T : y < x => <<y, x>> \in R
  BY Zenon DEF R, OpToRel
<1>4. \A y \in T : ~ (y < x)
  BY <1>2, <1>3
<1>5. x \in Nat /\ \A y \in T : y \in Nat
  OBVIOUS
<1>6. \A y \in T : x <= y
  BY <1>4, <1>5
<1> QED BY <1>6

\* The identities of the first n stages.
Identities(g, n) ==
    g = [s \in 1..n |-> StageIdentity(s, [p \in Producers[s] |-> g[p]])]

LEMMA IdentityExtends ==
    ASSUME NEW n \in 1..Stages, NEW g, Identities(g, n - 1)
    PROVE  \E h : Identities(h, n)
<1> DEFINE last == StageIdentity(n, [p \in Producers[n] |-> g[p]])
           h == [s \in 1..n |-> IF s = n THEN last ELSE g[s]]
<1>0. Stages \in Nat
  BY RecipeAssumption
<1>1. \A s \in 1..n : \A p \in Producers[s] : p \in 1..n - 1 /\ h[p] = g[p]
  BY <1>0, RecipeAssumption
<1>2. \A s \in 1..n : [p \in Producers[s] |-> h[p]] = [p \in Producers[s] |-> g[p]]
  BY <1>1
<1>3. \A s \in 1..n : h[s] = StageIdentity(s, [p \in Producers[s] |-> g[p]])
  <2> SUFFICES ASSUME NEW s \in 1..n
               PROVE  h[s] = StageIdentity(s, [p \in Producers[s] |-> g[p]])
    OBVIOUS
  <2>1. CASE s = n
    BY <2>1
  <2>2. CASE s # n
    <3>1. s \in 1..n - 1
      BY <1>0, <2>2
    <3> QED BY <3>1, <2>2 DEF Identities
  <2> QED BY <2>1, <2>2
<1>5. \A s \in 1..n : h[s] = StageIdentity(s, [p \in Producers[s] |-> h[p]])
  BY <1>2, <1>3
<1>6. h = [s \in 1..n |-> h[s]]
  OBVIOUS
<1> HIDE DEF h
<1>7. Identities(h, n)
  BY <1>5, <1>6 DEF Identities
<1> QED BY <1>7

\* The recursive function unfolds: producers come first.
LEMMA IdentityUnfolds ==
    \A s \in 1..Stages : identity[s] = StageIdentity(s, [p \in Producers[s] |-> identity[p]])
<1> DEFINE T == {n \in 0..Stages : ~ \E g : Identities(g, n)}
<1>0. Stages \in Nat
  BY RecipeAssumption
<1>1. T = {}
  <2> SUFFICES ASSUME T # {} PROVE FALSE
    OBVIOUS
  <2>1. T \subseteq Nat
    BY <1>0
  <2>2. PICK n \in T : \A m \in T : n <= m
    <3> HIDE DEF T
    <3> QED BY <2>1, Least
  <2>3. CASE n = 0
    <3> DEFINE g == [s \in 1..0 |-> s]
    <3>1. g = [s \in 1..0 |-> StageIdentity(s, [p \in Producers[s] |-> g[p]])]
      OBVIOUS
    <3> HIDE DEF g
    <3>2. Identities(g, 0)
      BY <3>1 DEF Identities
    <3> QED BY <2>3, <3>2
  <2>4. CASE n # 0
    <3>1. n \in 1..Stages /\ n - 1 \in 0..Stages /\ n - 1 \notin T
      BY <1>0, <2>2, <2>4
    <3>2. \E g : Identities(g, n - 1)
      BY <3>1
    <3> QED BY <3>1, <3>2, IdentityExtends
  <2> QED BY <2>3, <2>4
<1>2. PICK g : Identities(g, Stages)
  BY <1>0, <1>1
<1>3. g = [s \in 1..Stages |-> StageIdentity(s, [p \in Producers[s] |-> g[p]])]
  BY <1>2 DEF Identities
<1>4. identity = [s \in 1..Stages |-> StageIdentity(s, [p \in Producers[s] |-> identity[p]])]
  BY <1>3, Zenon DEF identity
<1> QED BY <1>4

\* What the plan says of a stage.
LEMMA PlannedIdentity ==
    ASSUME NEW s \in 1..Stages
    PROVE  /\ Planned[s].identity.recipe = recipe
           /\ Planned[s].identity.external = IF s \in UsesInput THEN external ELSE NoFile
           /\ Planned[s].identity.deps = [p \in Producers[s] |-> Planned[p].identity]
<1>1. Planned[s].identity = StageIdentity(s, [p \in Producers[s] |-> identity[p]])
  BY IdentityUnfolds DEF Planned
<1>2. Producers[s] \subseteq 1..Stages
  BY RecipeAssumption
<1>3. [p \in Producers[s] |-> Planned[p].identity] = [p \in Producers[s] |-> identity[p]]
  BY <1>2 DEF Planned
<1>4. [q \in Producers[s] |-> [p \in Producers[s] |-> identity[p]][q]]
          = [p \in Producers[s] |-> identity[p]]
  OBVIOUS
<1> QED BY <1>1, <1>3, <1>4 DEF StageIdentity

\* The plan depends on the user's files alone.
LEMMA PlannedStable == UNCHANGED user => Planned' = Planned
BY DEF user, Planned, identity, blocked, StageIdentity

\* An output belongs to one stage.
LEMMA OutputsOfStage ==
    ASSUME NEW s \in 1..Stages
    PROVE  /\ OutputsOf(s) = {<<s, k>> : k \in 1..OutputCount[s]}
           /\ OutputsOf(s) \subseteq OutputPaths
           /\ \A t \in 1..Stages : \A p \in OutputsOf(s) : p \in OutputsOf(t) => s = t
BY RecipeAssumption DEF OutputsOf, OutputPaths

\* A content is a file.
LEMMA MadeIsFile ==
    ASSUME NEW id, NEW p, NEW list
    PROVE  Made(id, p, list) # NoFile
<1>1. "path" \in DOMAIN Made(id, p, list)
  BY DEF Made
<1>2. DOMAIN NoFile = {}
  BY DEF NoFile
<1> QED BY <1>1, <1>2

\* A stage makes what its producers' records say.
LEMMA MadeFrom ==
    ASSUME NEW s \in 1..Stages, NEW p \in OutputsOf(s), NEW id, NEW l, NEW m,
           \A r \in Producers[s] : \A q \in OutputsOf(r) : l[r].hashes[q] = m[r].hashes[q]
    PROVE  Made(id, p, l) = Made(id, p, m)
<1>1. p[1] = s
  BY DEF OutputsOf
<1>2. \A q \in {q \in OutputPaths : q[1] \in Producers[p[1]]} :
          l[q[1]].hashes[q] = m[q[1]].hashes[q]
  BY <1>1 DEF OutputsOf
<1> QED BY <1>2 DEF Made

\* What a stage of the plan makes of outputs that are as recorded.
LEMMA ProduceIsMade ==
    ASSUME NEW s \in 1..Stages, NEW p \in OutputsOf(s), NEW id, NEW list,
           id.recipe = recipe, id.external = IF s \in UsesInput THEN external ELSE NoFile,
           \A r \in Producers[s] : \A q \in OutputsOf(r) : outputs[q] = list[r].hashes[q]
    PROVE  Produce(p, outputs) = Made(id, p, list)
<1>1. p[1] = s
  BY DEF OutputsOf
<1>2. \A q \in {q \in OutputPaths : q[1] \in Producers[p[1]]} :
          outputs[q] = list[q[1]].hashes[q]
  BY <1>1 DEF OutputsOf
<1> QED BY <1>1, <1>2 DEF Made, Produce

LEMMA AppendListed ==
    ASSUME NEW list, Listed(list), Len(list) < Stages, NEW entry,
           Follows(entry, Len(list) + 1, list)
    PROVE  /\ Listed(Append(list, entry)) /\ Len(Append(list, entry)) = Len(list) + 1
           /\ \A i \in 1..Len(list) : Append(list, entry)[i] = list[i]
           /\ Append(list, entry)[Len(list) + 1] = entry
<1> DEFINE S == {list[i] : i \in 1..Len(list)} \union {entry}
           new == Append(list, entry)
<1>1. list \in Seq(S) /\ entry \in S
  BY DEF Listed
<1> HIDE DEF S
<1>2. /\ new \in Seq(S) /\ Len(new) = Len(list) + 1 /\ Len(list) \in Nat
      /\ \A i \in 1..Len(list) : new[i] = list[i]
      /\ new[Len(list) + 1] = entry
  BY <1>1
<1> HIDE DEF new
<1>3. new \in Seq({new[i] : i \in 1..Len(new)}) /\ Len(new) <= Stages
  BY <1>2, RecipeAssumption
<1>4. \A s \in 1..Len(new) : Follows(new[s], s, list) => Follows(new[s], s, new)
  <2> SUFFICES ASSUME NEW s \in 1..Len(new), Follows(new[s], s, list)
               PROVE  Follows(new[s], s, new)
    OBVIOUS
  <2>0. s \in 1..Stages /\ s <= Len(list) + 1
    BY <1>2, <1>3, RecipeAssumption
  <2>1. \A r \in Producers[s] : list[r] = new[r]
    <3>1. \A r \in Producers[s] : r \in 1..Stages /\ r < s
      BY <2>0, RecipeAssumption
    <3> QED BY <1>2, <2>0, <3>1
  <2>2. \A p \in OutputsOf(s) : Made(new[s].identity, p, list) = Made(new[s].identity, p, new)
    BY <2>0, <2>1, MadeFrom
  <2> QED BY <2>1, <2>2 DEF Follows, Fits
<1>5. \A s \in 1..Len(new) : Follows(new[s], s, list)
  BY <1>2 DEF Listed
<1> QED BY <1>2, <1>3, <1>4, <1>5 DEF Listed, new

LEMMA EmptyListed == Listed(<<>>) /\ Len(<<>>) = 0
BY RecipeAssumption DEF Listed

LEMMA InvInit == RecipeInit => Inv
<1> SUFFICES ASSUME RecipeInit PROVE Inv
  OBVIOUS
<1>1. ManifestInv
  BY EmptyListed DEF RecipeInit, ManifestInv
<1>2. TypeInv
  BY DEF RecipeInit, TypeInv
<1> QED
  BY <1>1, <1>2, EmptyListed DEF RecipeInit, Inv, InputsInv, ProgressInv, OldInv, PlanInv,
                                 SameInv, NamedInv, CleanInv

\* Whatever ends the process keeps the invariant, if the disk is one of the recipe's.
LEMMA OffInv ==
    ASSUME Off, DOMAIN outputs' = OutputPaths, DOMAIN staging' = OutputPaths,
           DOMAIN backups' = OutputPaths,
           runJson' # NoFile =>
               Listed(runJson'.stages) /\ \A s \in 1..Len(runJson'.stages) : Clean(s)'
    PROVE  Inv'
<1>1. /\ step' = "off" /\ idx' = 0 /\ out' = 0 /\ previous' = NoFile /\ stages' = <<>>
      /\ slipped' = {}
  BY DEF Off
<1>2. Listed(stages') /\ Len(stages') = 0
  BY <1>1, EmptyListed
<1> QED
  BY <1>1, <1>2 DEF Inv, ManifestInv, TypeInv, InputsInv, ProgressInv, OldInv, PlanInv,
                    SameInv, NamedInv, CleanInv

\* In a run, the producers of the current stage are recorded under their planned identity.
LEMMA PlanDeps ==
    ASSUME Inv, step \in {"stage", "commit"}, idx \in 1..Stages
    PROVE  /\ \A r \in Producers[idx] : r \in 1..Len(stages) /\ r < idx
           /\ plan[idx].identity.deps = [r \in Producers[idx] |-> stages[r].identity]
           /\ plan[idx].identity.recipe = recipe
           /\ plan[idx].identity.external = IF idx \in UsesInput THEN external ELSE NoFile
<1>1. plan = Planned /\ Len(stages) = idx - 1
  BY DEF Inv, PlanInv, InputsInv
<1>2. \A r \in Producers[idx] : r \in 1..Len(stages) /\ r < idx
  BY <1>1, RecipeAssumption
<1>3. \A r \in Producers[idx] : stages[r].identity = Planned[r].identity
  BY <1>1, <1>2 DEF Inv, NamedInv
<1>4. /\ Planned[idx].identity.deps = [r \in Producers[idx] |-> Planned[r].identity]
      /\ Planned[idx].identity.recipe = recipe
      /\ Planned[idx].identity.external = IF idx \in UsesInput THEN external ELSE NoFile
  BY PlannedIdentity
<1> QED BY <1>1, <1>2, <1>3, <1>4

\* What the previous run recorded of a stage with this identity is what it makes now.
LEMMA SameMade ==
    ASSUME Inv, step \in {"stage", "commit"}, idx \in 1..Stages,
           previous # NoFile, idx \in 1..Len(previous.stages),
           previous.stages[idx].identity = plan[idx].identity, NEW p \in OutputsOf(idx)
    PROVE  Fits(previous.stages[idx].hashes[p], plan[idx].identity, p, stages)
<1> DEFINE earlier == previous.stages
<1>1. Follows(earlier[idx], idx, earlier)
  BY DEF Inv, ManifestInv, Listed
<1>2. Fits(earlier[idx].hashes[p], plan[idx].identity, p, earlier)
  BY <1>1 DEF Follows
<1>3. \A r \in Producers[idx] : r \in 1..Len(stages) /\ r \in 1..Len(earlier)
  <2>1. Len(earlier) \in Nat
    BY DEF Inv, ManifestInv, Listed
  <2> QED BY <2>1, PlanDeps, RecipeAssumption
<1>4. [r \in Producers[idx] |-> earlier[r].identity] = [r \in Producers[idx] |-> stages[r].identity]
  BY <1>1, PlanDeps DEF Follows
<1>5. \A r \in Producers[idx] : earlier[r].identity = stages[r].identity
  BY <1>4
<1>6. \A r \in Producers[idx] : \A q \in OutputsOf(r) : earlier[r].hashes[q] = stages[r].hashes[q]
  BY <1>3, <1>5 DEF Inv, SameInv
<1>7. Made(plan[idx].identity, p, earlier) = Made(plan[idx].identity, p, stages)
  BY <1>6, MadeFrom
<1> QED BY <1>2, <1>7 DEF Fits

\* What the stages behind and their outputs keep when one more stage ends.
LEMMA StageInv ==
    ASSUME Inv, TypeInv', step' = "stage", idx' = idx + 1, idx \in 1..Stages,
           step \in {"stage", "commit"}, UNCHANGED <<user, plan, previous, outputs, slipped>>,
           NEW hashes, stages' = Append(stages, Entry(idx, hashes)), runJson'.stages = stages',
           \A p \in OutputsOf(idx) : /\ Fits(hashes[p], plan[idx].identity, p, stages)
                                     /\ outputs[p] = hashes[p],
           previous # NoFile /\ idx \in 1..Len(previous.stages)
           /\ previous.stages[idx].identity = plan[idx].identity
               => \A p \in OutputsOf(idx) : previous.stages[idx].hashes[p] = hashes[p],
           CleanInv'
    PROVE  Inv'
<1> DEFINE entry == Entry(idx, hashes)
<1>1. /\ Len(stages) = idx - 1 /\ idx \in Nat /\ Listed(stages)
      /\ \A s \in 1..Len(stages) : \A p \in OutputsOf(s) : outputs[p] = stages[s].hashes[p]
  BY DEF Inv, InputsInv, TypeInv, ManifestInv
<1>2. entry.hashes = hashes /\ entry.identity = plan[idx].identity
  BY DEF Entry
<1>3. Follows(entry, idx, stages)
  BY <1>2, PlanDeps DEF Follows
<1>4. /\ Len(stages') = idx /\ Listed(stages')
      /\ \A s \in 1..Len(stages) : stages'[s] = stages[s]
      /\ stages'[idx] = entry
  <2>1. Len(stages) < Stages /\ Len(stages) + 1 = idx
    BY <1>1, RecipeAssumption
  <2> HIDE DEF entry
  <2>2. /\ Len(Append(stages, entry)) = Len(stages) + 1 /\ Listed(Append(stages, entry))
        /\ \A s \in 1..Len(stages) : Append(stages, entry)[s] = stages[s]
        /\ Append(stages, entry)[Len(stages) + 1] = entry
    BY <1>1, <1>3, <2>1, AppendListed
  <2> QED BY <2>1, <2>2 DEF entry
<1> HIDE DEF entry
<1>5. ASSUME NEW s \in 1..idx
      PROVE  \/ s \in 1..Len(stages) /\ stages'[s] = stages[s]
             \/ s = idx /\ stages'[s].hashes = hashes /\ stages'[s].identity = plan[idx].identity
  BY <1>1, <1>2, <1>4
<1>6. InputsInv'
  <2>1. \A s \in 1..idx : \A p \in OutputsOf(s) : outputs[p] = stages'[s].hashes[p]
    BY <1>1, <1>5
  <2> QED BY <1>1, <1>4, <2>1 DEF InputsInv, OutputsOf, OutputPaths
<1>7. SameInv'
  <2> SUFFICES ASSUME NEW s \in 1..idx, NEW p \in OutputsOf(s), previous # NoFile,
                      s \in 1..Len(previous.stages),
                      previous.stages[s].identity = stages'[s].identity
               PROVE  previous.stages[s].hashes[p] = stages'[s].hashes[p]
    BY <1>4 DEF SameInv, OutputsOf
  <2>1. CASE s \in 1..Len(stages) /\ stages'[s] = stages[s]
    BY <2>1 DEF Inv, SameInv
  <2>2. CASE s = idx /\ stages'[s].hashes = hashes /\ stages'[s].identity = plan[idx].identity
    BY <2>2
  <2> QED BY <1>5, <2>1, <2>2
<1>8. NamedInv'
  BY <1>4, <1>5 DEF Inv, NamedInv
<1>9. ManifestInv'
  BY <1>4 DEF Inv, ManifestInv
<1>10. PlanInv'
  BY PlannedStable DEF Inv, PlanInv
<1> QED
  BY <1>6, <1>7, <1>8, <1>9, <1>10 DEF Inv, ProgressInv, OldInv

\* Renames of a commit leave the stages behind alone.
LEMMA BehindUntouched ==
    ASSUME Inv, step = "commit",
           \A p \in OutputPaths : p \notin OutputsOf(idx) => outputs'[p] = outputs[p]
    PROVE  \A s \in 1..Len(stages) : \A p \in OutputsOf(s) : outputs'[p] = stages[s].hashes[p]
<1> SUFFICES ASSUME NEW s \in 1..Len(stages), NEW p \in OutputsOf(s)
             PROVE  outputs'[p] = stages[s].hashes[p]
  OBVIOUS
<1>1. /\ idx \in 1..Stages /\ Len(stages) = idx - 1 /\ Stages \in Nat
      /\ outputs[p] = stages[s].hashes[p]
  BY RecipeAssumption DEF Inv, InputsInv, OldInv
<1>2. s \in 1..Stages /\ s # idx
  BY <1>1
<1>3. p \in OutputPaths /\ p \notin OutputsOf(idx)
  BY <1>1, <1>2, OutputsOfStage
<1> QED BY <1>1, <1>3

\* The staging directory of a stage is left alone.
LEMMA StillClean ==
    ASSUME NEW s, UNCHANGED staging PROVE Clean(s)' = Clean(s)
BY DEF Clean, OutputsOf

\* A stage writes to its own staging directory.
LEMMA OthersClean ==
    ASSUME NEW s \in 1..Stages, idx \in 1..Stages, s # idx,
           \A p \in OutputPaths : p \notin OutputsOf(idx) => staging'[p] = staging[p], Clean(s)
    PROVE  Clean(s)'
<1> SUFFICES ASSUME NEW p \in OutputsOf(s) PROVE staging'[p] = NoFile
  BY DEF Clean, OutputsOf
<1>1. p \in OutputPaths /\ p \notin OutputsOf(idx)
  BY OutputsOfStage
<1> QED BY <1>1 DEF Clean

LEMMA AppendLength ==
    ASSUME NEW list, Listed(list), NEW entry
    PROVE  Len(Append(list, entry)) = Len(list) + 1
<1> DEFINE S == {list[i] : i \in 1..Len(list)} \union {entry}
<1>1. list \in Seq(S) /\ entry \in S
  BY DEF Listed
<1> HIDE DEF S
<1> QED BY <1>1

\* run.json is there after a checkpoint.
LEMMA CheckpointIsFile ==
    ASSUME NEW status, NEW done, Checkpoint(status, done)
    PROVE  runJson' # NoFile /\ runJson'.stages = done
<1>1. runJson' = [status |-> status, recipe |-> recipe, stages |-> done]
  BY DEF Checkpoint
<1>2. "status" \in DOMAIN runJson' /\ DOMAIN NoFile = {}
  BY <1>1 DEF NoFile
<1> QED BY <1>1, <1>2

\* A step of the rollback leaves alone what the manifests say.
LEMMA RollbackKeeps ==
    ASSUME Inv, OldInv', step \in {"commit", "rollback"}, step' \in {"rollback", "failed"},
           DOMAIN outputs' = OutputPaths, DOMAIN backups' = OutputPaths,
           UNCHANGED <<user, staging, runJson, idx, plan, previous, stages, out>>
    PROVE  Inv'
<1>1. TypeInv' /\ ManifestInv'
  BY DEF Inv, TypeInv, ManifestInv
<1>2. InputsInv' /\ ProgressInv'
  BY DEF InputsInv, ProgressInv
<1>3. PlanInv' /\ SameInv' /\ NamedInv'
  BY PlannedStable DEF Inv, PlanInv, SameInv, NamedInv, OutputsOf
<1>4. \A s : Clean(s)' = Clean(s)
  BY StillClean
<1>5. CleanInv'
  BY <1>4 DEF Inv, CleanInv
<1> QED BY <1>1, <1>2, <1>3, <1>5 DEF Inv

LEMMA InvNext == Inv /\ [RecipeNext]_recipeVars => Inv'
<1> SUFFICES ASSUME Inv, [RecipeNext]_recipeVars PROVE Inv'
  OBVIOUS
<1> USE DEF ManifestInv, TypeInv
<1>l. /\ runJson # NoFile => Len(runJson.stages) \in Nat /\ Len(runJson.stages) <= Stages
      /\ previous # NoFile => Len(previous.stages) \in Nat /\ Len(previous.stages) <= Stages
      /\ Len(stages) \in Nat /\ Len(stages) <= Stages /\ Stages \in Nat
  BY RecipeAssumption DEF Inv, Listed
<1>s. CASE Start
  <2>1. Listed(stages') /\ stages' = <<>> /\ Len(stages') = 0
    BY <1>s, EmptyListed DEF Start
  <2>2. ManifestInv'
    <3>1. runJson'.stages = <<>>
      BY <1>s DEF Start, Checkpoint
    <3>2. previous' # NoFile => previous' = runJson
      BY <1>s DEF Start
    <3> QED BY <2>1, <3>1, <3>2, EmptyListed DEF Inv
  <2>3. TypeInv'
    BY <1>s DEF Start, Inv
  <2>4. PlanInv'
    BY <1>s, PlannedStable DEF Start, PlanInv
  <2>5. CleanInv'
    <3>1. /\ step' = "stage" /\ stages' = <<>> /\ UNCHANGED staging
          /\ previous' # NoFile => runJson # NoFile /\ previous' = runJson
      BY <1>s DEF Start
    <3>2. runJson' # NoFile /\ runJson'.stages = stages'
      BY <1>s, <3>1, CheckpointIsFile DEF Start
    <3>3. \A s : Clean(s)' = Clean(s)
      BY <3>1, StillClean
    <3> QED BY <2>1, <3>1, <3>2, <3>3 DEF Inv, CleanInv
  <2> QED
    BY <1>s, <2>1, <2>2, <2>3, <2>4, <2>5 DEF Start, Inv, InputsInv, ProgressInv, OldInv,
                                              SameInv, NamedInv
<1>r. CASE ReuseStage
  <2> DEFINE hashes == OldStage(idx).hashes
  <2>1. /\ idx \in 1..Stages /\ step = "stage" /\ Reusable(idx)
        /\ stages' = Append(stages, Entry(idx, hashes)) /\ idx' = idx + 1
        /\ runJson'.stages = stages' /\ step' = "stage"
        /\ UNCHANGED <<user, plan, previous, outputs, staging, slipped>> /\ TypeInv'
    BY <1>r DEF ReuseStage, AtStage, Checkpoint, Inv, InputsInv
  <2>p. /\ previous # NoFile /\ idx \in 1..Len(previous.stages)
        /\ OldStage(idx) = previous.stages[idx]
        /\ previous.stages[idx].identity = plan[idx].identity
    BY <2>1 DEF Reusable, SameStage, OldStage, Inv, Listed
  <2>2. \A p \in OutputsOf(idx) : /\ Fits(hashes[p], plan[idx].identity, p, stages)
                                  /\ outputs[p] = hashes[p]
    BY <2>1, <2>p, SameMade DEF Reusable, Differing
  <2>3. \A p \in OutputsOf(idx) : previous.stages[idx].hashes[p] = hashes[p]
    BY <2>p
  <2>4. CleanInv'
    <3>1. \A s : Clean(s)' = Clean(s)
      BY <2>1, StillClean
    <3>2. Clean(idx)
      BY <2>1, <2>p DEF Inv, CleanInv
    <3>3. Len(stages') = idx
      BY <2>1, <1>l, AppendLength DEF Inv, InputsInv
    <3>4. \A s \in 1..idx : Clean(s)
      <4>1. \A s \in 1..Len(stages) : Clean(s)
        BY <2>1 DEF Inv, CleanInv
      <4>2. \A s \in 1..idx : s \in 1..Len(stages) \/ s = idx
        BY <2>1 DEF Inv, InputsInv
      <4> QED BY <3>2, <4>1, <4>2
    <3>5. runJson' # NoFile
      BY <1>r, CheckpointIsFile DEF ReuseStage
    <3>6. previous # NoFile => \A s \in 1..Len(previous.stages) : s >= idx' => Clean(s)
      BY <2>1, <1>l DEF Inv, CleanInv
    <3> QED BY <2>1, <3>1, <3>3, <3>4, <3>5, <3>6 DEF CleanInv
  <2> HIDE DEF hashes
  <2> QED BY <2>1, <2>2, <2>3, <2>4, StageInv
<1>q. CASE HashFails \/ StageBlocked \/ StageIncomplete \/ StageFails \/ CleanupFails \/ Complete
           \/ Crash \/ ReportFailure
  <2> USE DEF HashFails, StageBlocked, StageIncomplete, StageFails, CleanupFails, Complete, Crash,
              ReportFailure
  <2>1. Off
    BY <1>q
  <2>2. DOMAIN outputs' = OutputPaths /\ DOMAIN staging' = OutputPaths /\ DOMAIN backups' = OutputPaths
    BY <1>q DEF bundleDir, Inv
  <2>3. runJson' # NoFile => Listed(runJson'.stages) /\ \A s \in 1..Len(runJson'.stages) : Clean(s)'
    <3>1. CASE Complete
      <4>1. runJson'.stages = stages /\ UNCHANGED staging /\ step = "stage"
        BY <3>1, CheckpointIsFile
      <4>2. runJson # NoFile /\ runJson.stages = stages
        BY <4>1 DEF Inv, CleanInv
      <4> QED BY <4>1, <4>2, StillClean DEF Inv, CleanInv
    <3>2. CASE StageIncomplete \/ StageFails
      <4>1. /\ UNCHANGED runJson /\ AtStage
            /\ \A p \in OutputPaths : p \notin OutputsOf(idx) => staging'[p] = staging[p]
        BY <3>2 DEF Executable
      <4>2. idx \in 1..Stages /\ runJson.stages = stages /\ Len(stages) = idx - 1 /\ runJson # NoFile
        BY <4>1, <1>l DEF AtStage, Inv, InputsInv, CleanInv
      <4>3. ASSUME NEW s \in 1..Len(runJson.stages) PROVE Clean(s)'
        <5>1. s \in 1..Stages /\ s # idx /\ Clean(s)
          BY <4>2, <1>l DEF Inv, CleanInv
        <5> QED BY <4>1, <4>2, <5>1, OthersClean
      <4> QED BY <4>1, <4>3 DEF Inv
    <3>3. CASE HashFails \/ StageBlocked \/ CleanupFails \/ Crash \/ ReportFailure
      <4>1. UNCHANGED <<runJson, staging>>
        BY <3>3 DEF bundleDir
      <4> QED BY <4>1, StillClean DEF Inv, CleanInv
    <3> QED BY <1>q, <3>1, <3>2, <3>3
  <2> QED BY <2>1, <2>2, <2>3, OffInv
<1>x. CASE RunStage
  <2>1. /\ step = "stage" /\ idx \in 1..Stages /\ step' = "commit" /\ out' = 1
        /\ renamed' = {} /\ saved' = {} /\ idx' = idx
        /\ UNCHANGED <<user, outputs, backups, runJson, plan, previous, stages, slipped>>
        /\ found' = [p \in OutputsOf(idx) |-> outputs[p]]
        /\ DOMAIN staging' = OutputPaths
        /\ \A p \in Left(idx) : staging[p] # NoFile
        /\ \A p \in OutputPaths : staging'[p] = IF p \in OutputsOf(idx) \ Left(idx)
                                                   THEN Produce(p, outputs) ELSE staging[p]
    BY <1>x DEF RunStage, Executable, AtStage, Inv, InputsInv
  <2>2. \A p \in OutputsOf(idx) : Fits(staging'[p], plan[idx].identity, p, stages)
    <3> SUFFICES ASSUME NEW p \in OutputsOf(idx)
                 PROVE  Fits(staging'[p], plan[idx].identity, p, stages)
      OBVIOUS
    <3>1. p \in OutputPaths
      BY <2>1, OutputsOfStage
    <3>2. plan[idx].identity.recipe = recipe
      BY <2>1, PlanDeps
    <3>3. CASE p \in Left(idx)
      <4>1. p \in Unwritten[recipe] /\ staging'[p] # NoFile
        BY <2>1, <3>1, <3>3 DEF Left
      <4> QED BY <3>2, <4>1 DEF Fits
    <3>4. CASE p \notin Left(idx)
      <4>1. staging'[p] = Produce(p, outputs)
        BY <2>1, <3>1, <3>4
      <4>2. \A r \in Producers[idx] : \A q \in OutputsOf(r) : outputs[q] = stages[r].hashes[q]
        BY <2>1, PlanDeps DEF Inv, InputsInv
      <4>3. staging'[p] = Made(plan[idx].identity, p, stages)
        BY <2>1, <4>1, <4>2, PlanDeps, ProduceIsMade
      <4> QED BY <4>3, MadeIsFile DEF Fits
    <3> QED BY <3>3, <3>4
  <2>3. OutputCount[idx] \in Nat \ {0}
    BY <2>1, RecipeAssumption
  <2>4. TypeInv' /\ ManifestInv'
    BY <2>1 DEF Inv
  <2>5. InputsInv'
    BY <2>1 DEF Inv, InputsInv, OutputsOf
  <2>6. ProgressInv'
    BY <2>1, <2>2, <2>3 DEF ProgressInv
  <2>7. OldInv'
    BY <2>1 DEF Inv, OldInv, OutputsOf
  <2>8. PlanInv' /\ SameInv' /\ NamedInv'
    BY <2>1, PlannedStable DEF Inv, PlanInv, SameInv, NamedInv, OutputsOf
  <2>9. CleanInv'
    <3>1. ASSUME NEW s \in 1..Stages, s # idx, Clean(s) PROVE Clean(s)'
      BY <2>1, <3>1, OthersClean
    <3>2. /\ runJson # NoFile /\ runJson.stages = stages /\ Len(stages) = idx - 1
          /\ \A s \in 1..Len(stages) : Clean(s)
          /\ previous # NoFile => \A s \in 1..Len(previous.stages) : s >= idx => Clean(s)
      BY <2>1 DEF Inv, CleanInv, InputsInv
    <3>3. \A s \in 1..Len(stages) : Clean(s)'
      BY <1>l, <2>1, <3>1, <3>2
    <3>4. ASSUME previous # NoFile, NEW s \in 1..Len(previous.stages)
          PROVE  (s > idx => Clean(s)') /\ (s = idx => Left(idx) = {})
      <4>1. s \in 1..Stages /\ s \in Int /\ idx \in Int
        BY <1>l, <2>1, <3>4
      <4>2. s > idx => s >= idx /\ s # idx
        BY <4>1
      <4>3. s = idx => s >= idx
        BY <4>1
      <4>4. s = idx => Left(idx) = {}
        BY <2>1, <3>2, <3>4, <4>3 DEF Clean, Left
      <4> QED BY <3>1, <3>2, <3>4, <4>1, <4>2, <4>4
    <3>5. Left(idx)' = Left(idx)
      BY <2>1 DEF Left, OutputsOf, user
    <3> QED BY <2>1, <3>2, <3>3, <3>4, <3>5 DEF CleanInv
  <2> QED BY <2>4, <2>5, <2>6, <2>7, <2>8, <2>9 DEF Inv
<1>b. CASE BackUpOutput
  <2>1. /\ step = "commit" /\ step' = "commit" /\ idx \in 1..Stages /\ idx' = idx /\ out' = out
        /\ out \in 1..OutputCount[idx] /\ OutputPath \notin saved /\ OutputPath \notin renamed
        /\ UNCHANGED <<user, staging, runJson, plan, previous, stages, renamed, found, slipped>>
        /\ saved' = saved \union {OutputPath}
    BY <1>b, RecipeAssumption DEF BackUpOutput, Committing, OutputPath, Inv, ProgressInv, OldInv
  <2>2. OutputPath \in OutputsOf(idx) /\ OutputPath \in OutputPaths
    BY <2>1, OutputsOfStage DEF OutputPath
  <2>3. /\ DOMAIN outputs' = OutputPaths /\ DOMAIN backups' = OutputPaths
        /\ outputs'[OutputPath] = NoFile /\ backups'[OutputPath] = outputs[OutputPath]
        /\ \A p \in OutputPaths \ {OutputPath} :
               outputs'[p] = outputs[p] /\ backups'[p] = backups[p]
    BY <1>b, <2>2 DEF BackUpOutput, Inv
  <2>4. TypeInv' /\ ManifestInv'
    BY <2>1, <2>3 DEF Inv
  <2>5. InputsInv'
    <3>1. \A s \in 1..Len(stages) : \A p \in OutputsOf(s) : outputs'[p] = stages[s].hashes[p]
      BY <2>1, <2>2, <2>3, BehindUntouched
    <3> QED BY <2>1, <3>1 DEF Inv, InputsInv, OutputsOf
  <2>6. ProgressInv'
    <3>1. renamed' = {<<idx, k>> : k \in 1..out' - 1} /\ out' \in 1..OutputCount[idx] + 1
      BY <2>1 DEF Inv, ProgressInv
    <3>2. saved' \subseteq {<<idx, k>> : k \in 1..out'}
      BY <2>1 DEF Inv, ProgressInv, OutputPath
    <3>3. \A p \in OutputsOf(idx) :
              Fits(IF p \in renamed' THEN outputs'[p] ELSE staging'[p], plan[idx].identity, p, stages)
      BY <2>1, <2>2, <2>3, OutputsOfStage DEF Inv, ProgressInv
    <3> QED BY <2>1, <3>1, <3>2, <3>3 DEF ProgressInv
  <2>7. OldInv'
    <3>1. \A p \in OutputsOf(idx) :
              /\ p \in saved' => backups'[p] = found[p]
              /\ p \notin saved' /\ p \notin renamed /\ p \notin slipped => outputs'[p] = found[p]
              /\ p \notin saved' /\ p \in renamed => found[p] = NoFile
              /\ found[p] \in {NoFile, outputs'[p], backups'[p]}
      <4> SUFFICES ASSUME NEW p \in OutputsOf(idx)
                   PROVE  /\ p \in saved' => backups'[p] = found[p]
                          /\ p \notin saved' /\ p \notin renamed /\ p \notin slipped
                                 => outputs'[p] = found[p]
                          /\ p \notin saved' /\ p \in renamed => found[p] = NoFile
                          /\ found[p] \in {NoFile, outputs'[p], backups'[p]}
        OBVIOUS
      <4>1. p \in OutputPaths
        BY <2>1, OutputsOfStage
      <4>2. /\ p \in saved => backups[p] = found[p]
            /\ p \notin saved /\ p \notin renamed => outputs[p] = found[p]
            /\ p \notin saved /\ p \in renamed => found[p] = NoFile
            /\ found[p] \in {NoFile, outputs[p], backups[p]}
        BY <2>1 DEF Inv, OldInv
      <4> QED BY <2>1, <2>3, <4>1, <4>2
    <3> QED BY <2>1, <2>2, <3>1 DEF Inv, OldInv, OutputsOf
  <2>8. PlanInv' /\ SameInv' /\ NamedInv'
    BY <2>1, PlannedStable DEF Inv, PlanInv, SameInv, NamedInv, OutputsOf
  <2>9. CleanInv'
    <3>1. \A s : Clean(s)' = Clean(s)
      BY <2>1, StillClean
    <3>2. Left(idx)' = Left(idx)
      BY <2>1 DEF Left, OutputsOf, user
    <3> QED BY <2>1, <3>1, <3>2 DEF Inv, CleanInv
  <2> QED BY <2>4, <2>5, <2>6, <2>7, <2>8, <2>9 DEF Inv
<1>c. CASE RenameOutput
  <2>1. /\ step = "commit" /\ step' = "commit" /\ idx \in 1..Stages /\ idx' = idx
        /\ out \in 1..OutputCount[idx] /\ out' = out + 1 /\ OutputPath \notin renamed
        /\ UNCHANGED <<user, runJson, plan, previous, stages, saved, found, slipped>>
        /\ renamed' = renamed \union {OutputPath} /\ outputs[OutputPath] = NoFile
    BY <1>c, RecipeAssumption DEF RenameOutput, Committing, OutputPath, Inv, ProgressInv, OldInv
  <2>2. OutputPath \in OutputsOf(idx) /\ OutputPath \in OutputPaths
    BY <2>1, OutputsOfStage DEF OutputPath
  <2>3. /\ DOMAIN outputs' = OutputPaths /\ DOMAIN backups' = OutputPaths
        /\ DOMAIN staging' = OutputPaths
        /\ outputs'[OutputPath] = staging[OutputPath] /\ staging'[OutputPath] = NoFile
        /\ OutputPath \in saved => backups' = backups
        /\ \A p \in OutputPaths \ {OutputPath} :
               outputs'[p] = outputs[p] /\ backups'[p] = backups[p] /\ staging'[p] = staging[p]
    BY <1>c, <2>2 DEF RenameOutput, Inv
  <2>4. TypeInv' /\ ManifestInv'
    BY <2>1, <2>3 DEF Inv
  <2>5. InputsInv'
    <3>1. \A s \in 1..Len(stages) : \A p \in OutputsOf(s) : outputs'[p] = stages[s].hashes[p]
      BY <2>1, <2>2, <2>3, BehindUntouched
    <3> QED BY <2>1, <3>1 DEF Inv, InputsInv, OutputsOf
  <2>6. ProgressInv'
    <3>1. Fits(staging[OutputPath], plan[idx].identity, OutputPath, stages)
      BY <2>1, <2>2 DEF Inv, ProgressInv
    <3>2. renamed' = {<<idx, k>> : k \in 1..out' - 1}
      BY <2>1 DEF Inv, ProgressInv, OutputPath
    <3>3. saved' \subseteq {<<idx, k>> : k \in 1..out'}
      BY <2>1 DEF Inv, ProgressInv
    <3>4. \A p \in OutputsOf(idx) :
              Fits(IF p \in renamed' THEN outputs'[p] ELSE staging'[p], plan[idx].identity, p, stages)
      BY <2>1, <2>2, <2>3, <3>1, OutputsOfStage DEF Inv, ProgressInv
    <3>5. out' \in 1..OutputCount[idx] + 1
      BY <2>1, RecipeAssumption
    <3> QED BY <2>1, <3>2, <3>3, <3>4, <3>5 DEF ProgressInv
  <2>7. OldInv'
    <3>1. \A p \in OutputsOf(idx) :
              /\ p \in saved => backups'[p] = found[p]
              /\ p \notin saved /\ p \notin renamed' /\ p \notin slipped => outputs'[p] = found[p]
              /\ p \notin saved /\ p \in renamed' => found[p] = NoFile
              /\ found[p] \in {NoFile, outputs'[p], backups'[p]}
      <4> SUFFICES ASSUME NEW p \in OutputsOf(idx)
                   PROVE  /\ p \in saved => backups'[p] = found[p]
                          /\ p \notin saved /\ p \notin renamed' /\ p \notin slipped
                                 => outputs'[p] = found[p]
                          /\ p \notin saved /\ p \in renamed' => found[p] = NoFile
                          /\ found[p] \in {NoFile, outputs'[p], backups'[p]}
        OBVIOUS
      <4>1. p \in OutputPaths
        BY <2>1, OutputsOfStage
      <4>2. /\ p \in saved => backups[p] = found[p]
            /\ p \notin saved /\ p \notin renamed => outputs[p] = found[p]
            /\ p \notin saved /\ p \in renamed => found[p] = NoFile
            /\ found[p] \in {NoFile, outputs[p], backups[p]}
        BY <2>1 DEF Inv, OldInv
      <4> QED BY <2>1, <2>3, <4>1, <4>2
    <3> QED BY <2>1, <2>2, <3>1 DEF Inv, OldInv, OutputsOf
  <2>8. PlanInv' /\ SameInv' /\ NamedInv'
    BY <2>1, PlannedStable DEF Inv, PlanInv, SameInv, NamedInv, OutputsOf
  <2>9. CleanInv'
    <3>1. ASSUME NEW s, Clean(s) PROVE Clean(s)'
      <4> SUFFICES ASSUME NEW p \in OutputsOf(s) PROVE staging'[p] = NoFile
        BY DEF Clean, OutputsOf
      <4>1. p \in OutputPaths /\ staging[p] = NoFile
        BY <3>1 DEF Clean, OutputsOf
      <4> QED BY <2>3, <4>1
    <3>2. Left(idx)' = Left(idx)
      BY <2>1 DEF Left, OutputsOf, user
    <3>3. \A p \in renamed' : staging'[p] = NoFile
      <4>1. \A p \in renamed : p \in OutputPaths /\ staging[p] = NoFile
        BY <2>1, OutputsOfStage DEF Inv, CleanInv, OldInv
      <4> QED BY <2>1, <2>3, <4>1
    <3>4. \A s : Clean(s) => Clean(s)'
      BY <3>1
    <3> QED BY <2>1, <3>2, <3>3, <3>4 DEF Inv, CleanInv
  <2> QED BY <2>4, <2>5, <2>6, <2>7, <2>8, <2>9 DEF Inv
<1>f. CASE RenameFails
  <2>1. /\ step = "commit" /\ step' = "rollback" /\ idx \in 1..Stages /\ idx' = idx /\ out' = out
        /\ UNCHANGED <<user, outputs, staging, runJson, plan, previous, stages, renamed, saved,
                       found, slipped>>
        /\ DOMAIN backups' = OutputPaths
        /\ OutputPath \notin renamed /\ OutputPath \in OutputsOf(idx) /\ slipped = {}
        /\ \A p \in OutputPaths : p \in saved \/ p # OutputPath => backups'[p] = backups[p]
    <3>1. step = "commit" /\ out \in 1..OutputCount[idx] /\ OutputPath = <<idx, out>>
      BY <1>f, RecipeAssumption DEF RenameFails, Committing, OutputPath, Inv, ProgressInv
    <3>2. idx \in 1..Stages /\ renamed = {<<idx, k>> : k \in 1..out - 1} /\ slipped = {}
      BY <3>1 DEF Inv, ProgressInv, OldInv
    <3>3. OutputPath \notin renamed /\ OutputPath \in OutputsOf(idx)
      BY <3>1, <3>2, OutputsOfStage
    <3> QED BY <1>f, <3>1, <3>2, <3>3 DEF RenameFails, Inv
  <2>2. OldInv'
    <3>1. \A p \in OutputsOf(idx) :
              /\ p \in saved => backups'[p] = found[p]
              /\ p \notin saved /\ p \notin renamed /\ p \notin slipped => outputs[p] = found[p]
              /\ p \notin saved /\ p \in renamed => found[p] = NoFile
              /\ found[p] \in {NoFile, outputs[p], backups'[p]}
      <4> SUFFICES ASSUME NEW p \in OutputsOf(idx)
                   PROVE  /\ p \in saved => backups'[p] = found[p]
                          /\ p \notin saved /\ p \notin renamed => outputs[p] = found[p]
                          /\ p \notin saved /\ p \in renamed => found[p] = NoFile
                          /\ found[p] \in {NoFile, outputs[p], backups'[p]}
        OBVIOUS
      <4>1. p \in OutputPaths
        BY <2>1, OutputsOfStage
      <4>2. /\ p \in saved => backups[p] = found[p]
            /\ p \notin saved /\ p \notin renamed => outputs[p] = found[p]
            /\ p \notin saved /\ p \in renamed => found[p] = NoFile
            /\ found[p] \in {NoFile, outputs[p], backups[p]}
        BY <2>1 DEF Inv, OldInv
      <4> QED BY <2>1, <4>1, <4>2
    <3> QED BY <2>1, <3>1 DEF Inv, OldInv, OutputsOf
  <2>3. DOMAIN outputs' = OutputPaths
    BY <2>1 DEF Inv
  <2> HIDE DEF OldInv
  <2> QED BY <2>1, <2>2, <2>3, RollbackKeeps
<1>g. CASE RemoveCommitted
  <2>1. PICK p \in renamed :
            /\ renamed' = renamed \ {p} /\ UNCHANGED backups
            /\ \/ outputs' = [outputs EXCEPT ![p] = NoFile] /\ slipped' = slipped
               \/ outputs' = outputs /\ slipped' = slipped \union {p}
    BY <1>g DEF RemoveCommitted, Slips
  <2>2. /\ step = "rollback" /\ step' = "rollback" /\ UNCHANGED <<idx, saved, found>>
        /\ UNCHANGED <<user, staging, runJson, plan, previous, stages, out>>
    BY <1>g DEF RemoveCommitted
  <2>3. /\ idx \in 1..Stages /\ renamed \subseteq OutputsOf(idx) /\ saved \subseteq OutputsOf(idx)
        /\ OutputsOf(idx) \subseteq OutputPaths
    BY <2>2, OutputsOfStage DEF Inv, OldInv
  <2>4. /\ DOMAIN outputs' = OutputPaths
        /\ \A q \in OutputPaths : q # p => outputs'[q] = outputs[q]
        /\ outputs'[p] = NoFile \/ (outputs'[p] = outputs[p] /\ p \in slipped')
    <3>1. p \in OutputPaths /\ DOMAIN outputs = OutputPaths
      BY <2>1, <2>3 DEF Inv
    <3>2. CASE outputs' = [outputs EXCEPT ![p] = NoFile]
      BY <3>1, <3>2
    <3>3. CASE outputs' = outputs /\ slipped' = slipped \union {p}
      BY <3>1, <3>3
    <3> QED BY <2>1, <3>2, <3>3
  <2>5. OldInv'
    <3>1. ASSUME NEW q \in OutputsOf(idx)
          PROVE  /\ q \in saved => backups[q] = found[q]
                 /\ q \notin saved /\ q \notin renamed' /\ q \notin slipped' => outputs'[q] = found[q]
                 /\ q \notin saved /\ q \in renamed' => found[q] = NoFile
                 /\ found[q] \in {NoFile, outputs'[q], backups[q]}
      <4>1. /\ q \in saved => backups[q] = found[q]
            /\ q \notin saved /\ q \notin renamed /\ q \notin slipped => outputs[q] = found[q]
            /\ q \notin saved /\ q \in renamed => found[q] = NoFile
            /\ found[q] \in {NoFile, outputs[q], backups[q]}
        BY <2>2 DEF Inv, OldInv
      <4>2. CASE q = p
        BY <2>1, <2>4, <4>1, <4>2
      <4>3. CASE q # p
        BY <2>1, <2>3, <2>4, <4>1, <4>3
      <4> QED BY <4>2, <4>3
    <3> QED BY <2>1, <2>2, <2>3, <3>1 DEF OldInv, OutputsOf
  <2> HIDE DEF OldInv
  <2> QED BY <2>1, <2>2, <2>4, <2>5, RollbackKeeps DEF Inv
<1>h. CASE RestoreBackup
  <2>1. PICK p \in saved :
            /\ saved' = saved \ {p}
            /\ \/ /\ outputs' = [outputs EXCEPT ![p] = backups[p]]
                  /\ backups' = [backups EXCEPT ![p] = NoFile]
                  /\ slipped' = slipped
               \/ outputs' = outputs /\ backups' = backups /\ slipped' = slipped \union {p}
    BY <1>h DEF RestoreBackup, Slips
  <2>2. /\ step = "rollback" /\ step' = "rollback" /\ UNCHANGED <<idx, renamed, found>>
        /\ UNCHANGED <<user, staging, runJson, plan, previous, stages, out>> /\ renamed = {}
    BY <1>h DEF RestoreBackup
  <2>3. /\ idx \in 1..Stages /\ renamed \subseteq OutputsOf(idx) /\ saved \subseteq OutputsOf(idx)
        /\ OutputsOf(idx) \subseteq OutputPaths
    BY <2>2, OutputsOfStage DEF Inv, OldInv
  <2>4. /\ DOMAIN outputs' = OutputPaths /\ DOMAIN backups' = OutputPaths
        /\ \A q \in OutputPaths : q # p => outputs'[q] = outputs[q] /\ backups'[q] = backups[q]
        /\ outputs'[p] = backups[p] \/ (backups'[p] = backups[p] /\ p \in slipped')
    <3>1. p \in OutputPaths /\ DOMAIN outputs = OutputPaths /\ DOMAIN backups = OutputPaths
      BY <2>1, <2>3 DEF Inv
    <3>2. CASE /\ outputs' = [outputs EXCEPT ![p] = backups[p]]
               /\ backups' = [backups EXCEPT ![p] = NoFile]
      BY <3>1, <3>2
    <3>3. CASE outputs' = outputs /\ backups' = backups /\ slipped' = slipped \union {p}
      BY <3>1, <3>3
    <3> QED BY <2>1, <3>2, <3>3
  <2>5. OldInv'
    <3>1. ASSUME NEW q \in OutputsOf(idx)
          PROVE  /\ q \in saved' => backups'[q] = found[q]
                 /\ q \notin saved' /\ q \notin renamed /\ q \notin slipped' => outputs'[q] = found[q]
                 /\ q \notin saved' /\ q \in renamed => found[q] = NoFile
                 /\ found[q] \in {NoFile, outputs'[q], backups'[q]}
      <4>1. /\ q \in saved => backups[q] = found[q]
            /\ q \notin saved /\ q \notin renamed /\ q \notin slipped => outputs[q] = found[q]
            /\ q \notin saved /\ q \in renamed => found[q] = NoFile
            /\ found[q] \in {NoFile, outputs[q], backups[q]}
        BY <2>2 DEF Inv, OldInv
      <4>2. CASE q = p
        BY <2>1, <2>2, <2>4, <4>1, <4>2
      <4>3. CASE q # p
        BY <2>1, <2>3, <2>4, <4>1, <4>3
      <4> QED BY <4>2, <4>3
    <3> QED BY <2>1, <2>2, <2>3, <3>1 DEF OldInv, OutputsOf
  <2> HIDE DEF OldInv
  <2> QED BY <2>1, <2>2, <2>4, <2>5, RollbackKeeps DEF Inv
<1>k. CASE RollbackDone
  <2>1. /\ step = "rollback" /\ step' = "failed" /\ renamed = {} /\ saved = {}
        /\ UNCHANGED <<user, outputs, staging, backups, runJson, idx, plan, previous, stages, out,
                       renamed, saved, found, slipped>>
    BY <1>k DEF RollbackDone, bundleDir
  <2>2. OldInv'
    BY <2>1 DEF Inv, OldInv, OutputsOf
  <2> HIDE DEF OldInv
  <2> QED BY <2>1, <2>2, RollbackKeeps DEF Inv
<1>d. CASE StageDone
  <2> DEFINE hashes == [p \in OutputsOf(idx) |-> outputs[p]]
  <2>1. /\ idx \in 1..Stages /\ step = "commit" /\ out > OutputCount[idx]
        /\ step' = "stage" /\ idx' = idx + 1
        /\ UNCHANGED <<user, plan, previous, outputs, staging, slipped>>
        /\ stages' = Append(stages, Entry(idx, hashes)) /\ runJson'.stages = stages'
        /\ TypeInv'
    BY <1>d DEF StageDone, Checkpoint, Inv, InputsInv, ProgressInv, OldInv
  <2>r. OutputsOf(idx) \subseteq renamed
    BY <2>1, OutputsOfStage, RecipeAssumption DEF Inv, ProgressInv
  <2>2. \A p \in OutputsOf(idx) : /\ Fits(hashes[p], plan[idx].identity, p, stages)
                                  /\ outputs[p] = hashes[p]
    BY <2>1, <2>r DEF Inv, ProgressInv
  <2>3. ASSUME previous # NoFile, idx \in 1..Len(previous.stages),
               previous.stages[idx].identity = plan[idx].identity, NEW p \in OutputsOf(idx)
        PROVE  previous.stages[idx].hashes[p] = hashes[p]
    <3>1. Fits(previous.stages[idx].hashes[p], plan[idx].identity, p, stages)
      BY <2>1, <2>3, SameMade
    <3>2. p \notin Unwritten[plan[idx].identity.recipe]
      <4>1. Left(idx) = {}
        BY <2>1, <2>3 DEF Inv, CleanInv
      <4>2. plan[idx].identity.recipe = recipe
        BY <2>1, PlanDeps
      <4> QED BY <4>1, <4>2 DEF Left
    <3> QED BY <2>2, <3>1, <3>2 DEF Fits
  <2>4. CleanInv'
    <3>1. \A s : Clean(s)' = Clean(s)
      BY <2>1, StillClean
    <3>2. Clean(idx)
      BY <2>1, <2>r DEF Inv, CleanInv, Clean
    <3>3. Len(stages') = idx
      BY <2>1, <1>l, AppendLength DEF Inv, InputsInv
    <3>4. \A s \in 1..idx : Clean(s)
      <4>1. \A s \in 1..Len(stages) : Clean(s)
        BY <2>1 DEF Inv, CleanInv
      <4>2. \A s \in 1..idx : s \in 1..Len(stages) \/ s = idx
        BY <2>1 DEF Inv, InputsInv
      <4> QED BY <3>2, <4>1, <4>2
    <3>5. runJson' # NoFile
      BY <1>d, CheckpointIsFile DEF StageDone
    <3>6. previous # NoFile => \A s \in 1..Len(previous.stages) : s >= idx' => Clean(s)
      BY <2>1, <1>l DEF Inv, CleanInv
    <3> QED BY <2>1, <3>1, <3>3, <3>4, <3>5, <3>6 DEF CleanInv
  <2> HIDE DEF hashes
  <2> QED BY <2>1, <2>2, <2>3, <2>4, StageInv
<1>e. CASE Edit
  <2>1. /\ step = "off" /\ UNCHANGED <<staging, backups, runJson, proc>>
        /\ DOMAIN outputs' = OutputPaths
    BY <1>e DEF Edit, user, Inv
  <2>2. CleanInv'
    <3>1. step' = "off" /\ UNCHANGED <<staging, runJson>> /\ \A s : Clean(s)' = Clean(s)
      BY <2>1, StillClean DEF proc
    <3> QED BY <3>1 DEF Inv, CleanInv
  <2> QED BY <2>1, <2>2 DEF proc, Inv, InputsInv, ProgressInv, OldInv, PlanInv, SameInv, NamedInv
<1>u. CASE UNCHANGED recipeVars
  BY <1>u, PlannedStable
     DEF recipeVars, user, bundleDir, proc, Inv, InputsInv, ProgressInv, OldInv, PlanInv,
         SameInv, NamedInv, CleanInv, Clean, Left, OutputsOf
<1> QED
  BY <1>s, <1>r, <1>q, <1>x, <1>b, <1>c, <1>f, <1>g, <1>h, <1>k, <1>d, <1>e, <1>u DEF RecipeNext

THEOREM RecipeInvariant == RecipeSpec => []Inv
BY InvInit, InvNext, PTL DEF RecipeSpec

\* A stage runs on inputs that this run has checked or made (commit_stage_outputs).
THEOREM StagesRunOnCheckedInputs == RecipeSpec => []RunsOnCheckedInputs
<1>1. Inv => RunsOnCheckedInputs
  <2> SUFFICES ASSUME Inv, step = "commit", NEW s \in Producers[idx], NEW p \in OutputsOf(s)
               PROVE  outputs[p] # NoFile /\ outputs[p] = stages[s].hashes[p]
    BY DEF RunsOnCheckedInputs
  <2>1. idx \in 1..Stages /\ Len(stages) = idx - 1 /\ Listed(stages)
    BY DEF Inv, InputsInv, OldInv, ManifestInv
  <2>2. s \in 1..Len(stages)
    BY <2>1, RecipeAssumption
  <2>3. outputs[p] = stages[s].hashes[p]
    BY <2>2 DEF Inv, InputsInv
  <2>4. Follows(stages[s], s, stages)
    BY <2>1, <2>2 DEF Listed
  <2> QED BY <2>3, <2>4 DEF Follows, Fits
<1> QED BY <1>1, RecipeInvariant, PTL

\* What a commit finds is on the disk wherever the commit or its rollback is killed, in its
\* place or in its backup; and after a rollback it is in its place, unless a removal or a
\* rename of the rollback failed for that output (commit_stage_outputs).
THEOREM FailedCommitIsUndone == RecipeSpec => []FailedCommitRestores
<1>1. Inv => FailedCommitRestores
  BY DEF Inv, OldInv, FailedCommitRestores
<1> QED BY <1>1, RecipeInvariant, PTL

\* A bundle that `recipe verify` accepts holds what the recipe makes of the present
\* external input (verify_recipe): each output that its command writes is what the stage makes
\* of those beside it.
THEOREM VerifiedBundleIsReproducible == RecipeSpec => []VerifiedIsReproducible
<1>1. Inv => VerifiedIsReproducible
  <2> SUFFICES ASSUME Inv, Verifies, NEW s \in 1..Stages, NEW k \in 1..OutputCount[s],
                      <<s, k>> \notin Unwritten[recipe]
               PROVE  outputs[<<s, k>>] = Produce(<<s, k>>, outputs)
    BY DEF VerifiedIsReproducible, OutputPaths
  <2> DEFINE list == runJson.stages
  <2>1. /\ Listed(list) /\ Len(list) = Stages /\ list[s].identity = Planned[s].identity
        /\ \A r \in 1..Stages : \A p \in OutputsOf(r) : outputs[p] = list[r].hashes[p]
    BY DEF Inv, ManifestInv, Verifies
  <2>2. <<s, k>> \in OutputsOf(s)
    BY OutputsOfStage
  <2>3. outputs[<<s, k>>] = Made(Planned[s].identity, <<s, k>>, list)
    <3>1. Fits(list[s].hashes[<<s, k>>], Planned[s].identity, <<s, k>>, list)
      BY <2>1, <2>2 DEF Listed, Follows
    <3>2. Planned[s].identity.recipe = recipe
      BY PlannedIdentity
    <3> QED BY <2>1, <2>2, <3>1, <3>2 DEF Fits
  <2>4. Producers[s] \subseteq 1..Stages
    BY RecipeAssumption
  <2> HIDE DEF list
  <2>5. Produce(<<s, k>>, outputs) = Made(Planned[s].identity, <<s, k>>, list)
    <3>1. \A r \in Producers[s] : \A q \in OutputsOf(r) : outputs[q] = list[r].hashes[q]
      BY <2>1, <2>4
    <3>2. /\ Planned[s].identity.recipe = recipe
          /\ Planned[s].identity.external = IF s \in UsesInput THEN external ELSE NoFile
      BY PlannedIdentity
    <3> QED BY <2>2, <3>1, <3>2, ProduceIsMade
  <2> QED BY <2>3, <2>5
<1> QED BY <1>1, RecipeInvariant, PTL

\* There is one such bundle: two disks on which every output is what its stage makes of the
\* others are the same.
THEOREM BundleIsUnique ==
    ASSUME NEW d, NEW e, \A p \in OutputPaths : d[p] = Produce(p, d) /\ e[p] = Produce(p, e)
    PROVE  \A p \in OutputPaths : d[p] = e[p]
<1> DEFINE T == {s \in 1..Stages : \E p \in OutputsOf(s) : d[p] # e[p]}
<1>1. T = {}
  <2> SUFFICES ASSUME T # {} PROVE FALSE
    OBVIOUS
  <2>1. T \subseteq Nat
    BY RecipeAssumption
  <2>2. PICK s \in T : \A r \in T : s <= r
    <3> HIDE DEF T
    <3> QED BY <2>1, Least
  <2>3. PICK p \in OutputsOf(s) : d[p] # e[p]
    BY <2>2
  <2>4. \A r \in Producers[s] : r \in 1..Stages /\ r \notin T
    <3>1. \A r \in Producers[s] : r \in 1..Stages /\ r < s
      BY RecipeAssumption
    <3> QED BY <2>2, <3>1
  <2>5. \A q \in {q \in OutputPaths : q[1] \in Producers[p[1]]} : d[q] = e[q]
    BY <2>3, <2>4 DEF OutputsOf
  <2>6. Produce(p, d) = Produce(p, e)
    BY <2>5 DEF Produce
  <2> QED BY <2>3, <2>6 DEF OutputsOf
<1> QED BY <1>1 DEF OutputsOf, OutputPaths

-----------------------------------------------------------------------------
(* The path gate and the atomic writers.                                   *)

Hops == Cardinality(Names)

LEMMA HopsType == Hops \in Nat
BY PathsAssumption, FS_CardinalityType DEF Hops

-----------------------------------------------------------------------------
(* Following links.                                                        *)

Hop(d, n) == IF d[n][1] = "link" THEN d[n][2] ELSE n

\* f[k] is where k links lead from a name, for k up to n.
LinkFollows(f, d, name, n) ==
    f = [k \in 0..n |-> IF k = 0 THEN name ELSE Hop(d, f[k - 1])]

LEMMA FollowsExtends ==
    ASSUME NEW d, NEW name, NEW n \in Nat \ {0}, NEW f, LinkFollows(f, d, name, n - 1)
    PROVE  \E g : LinkFollows(g, d, name, n)
<1> DEFINE g == [k \in 0..n |-> IF k = n THEN Hop(d, f[n - 1]) ELSE f[k]]
<1>1. f = [k \in 0..n - 1 |-> IF k = 0 THEN name ELSE Hop(d, f[k - 1])]
  BY DEF LinkFollows
<1>2. \A k \in 0..n : g[k] = IF k = 0 THEN name ELSE Hop(d, g[k - 1])
  <2> TAKE k \in 0..n
  <2>1. CASE k = 0
    BY <1>1, <2>1
  <2>2. CASE k = n
    <3>1. n - 1 \in 0..n /\ n - 1 # n /\ n \in 0..n /\ n # 0
      OBVIOUS
    <3>2. g[n - 1] = f[n - 1] /\ g[n] = Hop(d, f[n - 1])
      BY <3>1
    <3> QED BY <2>2, <3>1, <3>2
  <2>3. CASE k # 0 /\ k # n
    <3>1. k \in 0..n - 1 /\ k - 1 \in 0..n /\ k - 1 # n
      BY <2>3
    <3>2. g[k] = f[k] /\ g[k - 1] = f[k - 1]
      BY <2>3, <3>1
    <3>3. f[k] = Hop(d, f[k - 1])
      BY <1>1, <2>3, <3>1
    <3> QED BY <2>3, <3>2, <3>3
  <2> QED BY <2>1, <2>2, <2>3
<1>3. g = [k \in 0..n |-> g[k]]
  OBVIOUS
<1> HIDE DEF g
<1>4. g = [k \in 0..n |-> IF k = 0 THEN name ELSE Hop(d, g[k - 1])]
  BY <1>2, <1>3
<1> QED BY <1>4 DEF LinkFollows

LEMMA FollowsExists ==
    ASSUME NEW d, NEW name, NEW n \in Nat
    PROVE  \E f : LinkFollows(f, d, name, n)
<1> DEFINE T == {m \in Nat : ~ \E f : LinkFollows(f, d, name, m)}
<1> SUFFICES ASSUME T # {} PROVE FALSE
  OBVIOUS
<1>1. PICK m \in T : \A k \in T : m <= k
  <2>1. T \subseteq Nat
    OBVIOUS
  <2> HIDE DEF T
  <2> QED BY <2>1, Least
<1>2. CASE m = 0
  <2> DEFINE f == [k \in 0..0 |-> name]
  <2>1. f = [k \in 0..0 |-> IF k = 0 THEN name ELSE Hop(d, f[k - 1])]
    OBVIOUS
  <2> HIDE DEF f
  <2>2. LinkFollows(f, d, name, 0)
    BY <2>1 DEF LinkFollows
  <2> QED BY <1>2, <2>2
<1>3. CASE m # 0
  <2>1. m \in Nat \ {0} /\ m - 1 \in Nat /\ m - 1 \notin T
    BY <1>1, <1>3
  <2>2. \E f : LinkFollows(f, d, name, m - 1)
    BY <2>1
  <2> QED BY <2>1, <2>2, FollowsExtends
<1> QED BY <1>2, <1>3

LEMMA TargetUnfolds ==
    ASSUME NEW d, NEW name
    PROVE  \E f : LinkFollows(f, d, name, Hops) /\ Target(d, name) = f[Hops]
<1> DEFINE follow == CHOOSE f : f = [k \in 0..Hops |->
                        IF k = 0 THEN name
                        ELSE LET n == f[k - 1] IN IF d[n][1] = "link" THEN d[n][2] ELSE n]
<1>1. PICK f : LinkFollows(f, d, name, Hops)
  BY HopsType, FollowsExists
<1>2. f = [k \in 0..Hops |->
             IF k = 0 THEN name
             ELSE LET n == f[k - 1] IN IF d[n][1] = "link" THEN d[n][2] ELSE n]
  BY <1>1, Zenon DEF LinkFollows, Hop
<1>3. follow = [k \in 0..Hops |->
                  IF k = 0 THEN name
                  ELSE LET n == follow[k - 1] IN IF d[n][1] = "link" THEN d[n][2] ELSE n]
  BY <1>2, Zenon
<1> HIDE DEF follow
<1>4. LinkFollows(follow, d, name, Hops)
  BY <1>3, Zenon DEF LinkFollows, Hop
<1>5. Target(d, name) = follow[Hops]
  BY Zenon DEF Target, follow, Hops
<1> QED BY <1>4, <1>5

LinksClosed(d) == \A n \in Names : d[n][1] = "link" => d[n][2] \in Names

SameLinks(d, e) ==
    \A n \in Names : /\ d[n][1] = "link" <=> e[n][1] = "link"
                     /\ d[n][1] = "link" => d[n] = e[n]

\* Where a path leads is a name, and depends on the links only.
LEMMA TargetsAgree ==
    ASSUME NEW d, NEW e, LinksClosed(d), SameLinks(d, e), NEW name \in Names
    PROVE  Target(d, name) \in Names /\ Target(e, name) = Target(d, name)
<1>1. PICK f : LinkFollows(f, d, name, Hops) /\ Target(d, name) = f[Hops]
  BY TargetUnfolds
<1>2. PICK g : LinkFollows(g, e, name, Hops) /\ Target(e, name) = g[Hops]
  BY TargetUnfolds
<1>3. ASSUME NEW k \in 0..Hops
      PROVE  /\ f[k] = IF k = 0 THEN name ELSE Hop(d, f[k - 1])
             /\ g[k] = IF k = 0 THEN name ELSE Hop(e, g[k - 1])
  BY <1>1, <1>2 DEF LinkFollows
<1> DEFINE Good(k) == f[k] \in Names /\ g[k] = f[k]
           T == {k \in 0..Hops : ~Good(k)}
<1>4. T = {}
  <2> SUFFICES ASSUME T # {} PROVE FALSE
    OBVIOUS
  <2>1. PICK m \in T : \A k \in T : m <= k
    <3>1. T \subseteq Nat
      BY HopsType
    <3> HIDE DEF T
    <3> QED BY <3>1, Least
  <2>2. m # 0
    BY <1>3, HopsType
  <2>3. m \in 0..Hops /\ m - 1 \in 0..Hops /\ m - 1 \notin T
    BY <2>1, <2>2, HopsType
  <2>4. f[m - 1] \in Names /\ g[m - 1] = f[m - 1]
    BY <2>3
  <2>5. Hop(d, f[m - 1]) \in Names /\ Hop(e, f[m - 1]) = Hop(d, f[m - 1])
    BY <2>4 DEF LinksClosed, SameLinks, Hop
  <2>6. Good(m)
    BY <1>3, <2>2, <2>3, <2>4, <2>5
  <2> QED BY <2>6
<1>5. Good(Hops)
  BY <1>4, HopsType
<1> QED BY <1>1, <1>2, <1>5

LEMMA TargetOfNoLink ==
    ASSUME NEW d, NEW name, d[name][1] # "link"
    PROVE  Target(d, name) = name
<1>1. PICK f : LinkFollows(f, d, name, Hops) /\ Target(d, name) = f[Hops]
  BY TargetUnfolds
<1>2. ASSUME NEW k \in 0..Hops
      PROVE  f[k] = IF k = 0 THEN name ELSE Hop(d, f[k - 1])
  BY <1>1 DEF LinkFollows
<1> DEFINE T == {k \in 0..Hops : f[k] # name}
<1>3. T = {}
  <2> SUFFICES ASSUME T # {} PROVE FALSE
    OBVIOUS
  <2>1. PICK m \in T : \A k \in T : m <= k
    <3>1. T \subseteq Nat
      BY HopsType
    <3> HIDE DEF T
    <3> QED BY <3>1, Least
  <2>2. m # 0
    BY <1>2, HopsType
  <2>3. m \in 0..Hops /\ m - 1 \in 0..Hops /\ m - 1 \notin T
    BY <2>1, <2>2, HopsType
  <2>4. f[m] = Hop(d, name)
    BY <1>2, <2>2, <2>3
  <2> QED BY <2>1, <2>4 DEF Hop
<1> QED BY <1>1, <1>3, HopsType

\* A new file where no link was leaves the links as they are.
LEMMA NewFileKeepsLinks ==
    ASSUME NEW D, NEW d \in [Names -> D], NEW e, NEW n \in Names, NEW w,
           SameLinks(d, e), d[n][1] # "link", w[1] # "link"
    PROVE  SameLinks([d EXCEPT ![n] = w], e)
BY DEF SameLinks

\* A name at the end of the links that a writer follows.
LEMMA OpenLeadsToNoLink ==
    ASSUME LinksClosed(dir), NEW p \in PathNames, CanOpen(p)
    PROVE  /\ Target(dir, p.name) \in Names
           /\ dir[Target(dir, p.name)][1] # "link"
<1>1. p.name \in Names
  BY DEF PathNames
<1>2. SameLinks(dir, dir)
  BY DEF SameLinks
<1>3. Target(dir, p.name) \in Names
  BY <1>1, <1>2, TargetsAgree
<1>4. CASE dir[p.name][1] # "link"
  BY <1>3, <1>4, TargetOfNoLink
<1>5. CASE Exists(dir, p)
  BY <1>3, <1>5 DEF Exists, FileAt
<1> QED BY <1>3, <1>4, <1>5 DEF CanOpen

\* What the gate lets pass leads elsewhere than the file that is read.
LEMMA GateKeepsApart ==
    ASSUME NEW p, NEW q, Exists(dir, p), ~Collide(p, q)
    PROVE  Target(dir, q.name) # Target(dir, p.name)
<1>1. CASE Exists(dir, q)
  BY <1>1 DEF Collide, SameFile, FileAt
<1>2. CASE ~Exists(dir, q)
  BY <1>2 DEF Exists, FileAt
<1> QED BY <1>1, <1>2

-----------------------------------------------------------------------------
(* The invariant.                                                          *)

Directories == [Names -> Entries \union {<<"file", "out", i>> : i \in Nat}]

PathsTypeInv ==
    /\ move \in {"validate", "open", "commit", "sidecar", "done", "failed", "refused"}
    /\ dir \in Directories /\ dirBefore \in Directories
    /\ readPath \in PathNames
    /\ writePaths \in Seq(PathNames) /\ Len(writePaths) # 0
    /\ replaced \in Seq(Names) /\ Len(replaced) <= Early
    /\ commits \in Nat
    /\ move = "commit" => Len(replaced) = Early /\ commits <= Early

\* Nothing happens to the directory before the first commit.
UntouchedInv ==
    /\ commits = 0 => dir = dirBefore
    /\ move \in {"validate", "open", "refused"} => commits = 0

\* A writer replaces what its path led to at the start, which is no link.
ReplacedInv ==
    \A i \in 1..Len(replaced) : /\ replaced[i] = Target(dirBefore, writePaths[i].name)
                                /\ dirBefore[replaced[i]][1] # "link"

ChangedInv ==
    \A n \in Names :
        dir[n] # dirBefore[n] => \E i \in DOMAIN writePaths :
                                     Target(dirBefore, writePaths[i].name) = n

\* What the gate saw to.
ApartInv ==
    move \notin {"validate", "refused"} /\ Exists(dirBefore, readPath) =>
        \A i \in DOMAIN writePaths :
            Target(dirBefore, writePaths[i].name) # Target(dirBefore, readPath.name)

PathsInv == /\ PathsTypeInv /\ UntouchedInv /\ SameLinks(dir, dirBefore)
            /\ ReplacedInv /\ ChangedInv /\ ApartInv

\* The kinds of entries, and that links lead to names.
LEMMA DirectoryIs ==
    ASSUME NEW d \in Directories
    PROVE  LinksClosed(d)
<1>1. ASSUME NEW n \in Names, d[n][1] = "link" PROVE d[n][2] \in Names
  <2>1. d[n] \in Entries \union {<<"file", "out", i>> : i \in Nat}
    BY DEF Directories
  <2>2. ~ \E i \in Nat : d[n] = <<"file", "out", i>>
    BY <1>1
  <2>3. d[n] # Missing /\ ~ \E i \in FileIds : d[n] = <<"file", i>>
    BY <1>1 DEF Missing
  <2>4. PICK m \in Names : d[n] = <<"link", m>>
    BY <2>1, <2>2, <2>3 DEF Entries
  <2> QED BY <2>4
<1> QED BY <1>1 DEF LinksClosed

\* In every state, a path leads where it led at the start.
LEMMA LeadsAsBefore ==
    ASSUME PathsTypeInv, SameLinks(dir, dirBefore), NEW p \in PathNames
    PROVE  /\ Target(dirBefore, p.name) \in Names
           /\ Target(dir, p.name) = Target(dirBefore, p.name)
<1>1. LinksClosed(dir) /\ p.name \in Names
  BY DirectoryIs DEF PathsTypeInv, PathNames
<1> QED BY <1>1, TargetsAgree

\* The paths that a command writes.
LEMMA WritePathsAre ==
    ASSUME PathsTypeInv
    PROVE  /\ Len(writePaths) \in Nat \ {0} /\ DOMAIN writePaths = 1..Len(writePaths)
           /\ \A i \in 1..Len(writePaths) : writePaths[i] \in PathNames
           /\ Early \in Nat /\ Early <= Len(writePaths)
<1>1. /\ Len(writePaths) \in Nat \ {0} /\ DOMAIN writePaths = 1..Len(writePaths)
      /\ \A i \in 1..Len(writePaths) : writePaths[i] \in PathNames
  BY DEF PathsTypeInv
<1>2. CASE sidecar
  BY <1>1, <1>2 DEF Early
<1>3. CASE ~sidecar
  BY <1>1, <1>3 DEF Early
<1> QED BY <1>1, <1>2, <1>3

LEMMA InitInv == PathsInit => PathsInv
<1> SUFFICES ASSUME PathsInit PROVE PathsInv
  OBVIOUS
<1>1. PathsTypeInv
  <2>1. PICK n \in 1..MaxWrites : writePaths \in [1..n -> PathNames]
    BY DEF PathsInit
  <2>2. writePaths \in Seq(PathNames) /\ Len(writePaths) = n /\ n \in Nat \ {0}
    BY <2>1, PathsAssumption
  <2>3. Early \in Nat
    <3>1. CASE sidecar
      BY <2>2, <3>1 DEF Early
    <3>2. CASE ~sidecar
      BY <2>2, <3>2 DEF Early
    <3> QED BY <3>1, <3>2
  <2>4. replaced \in Seq(Names) /\ Len(replaced) = 0
    BY DEF PathsInit
  <2>5. dir \in Directories /\ dirBefore \in Directories
    BY DEF PathsInit, Directories
  <2> QED BY <2>2, <2>3, <2>4, <2>5 DEF PathsInit, PathsTypeInv
<1>2. SameLinks(dir, dirBefore) /\ UntouchedInv /\ ReplacedInv /\ ChangedInv /\ ApartInv
  BY DEF PathsInit, SameLinks, UntouchedInv, ReplacedInv, ChangedInv, ApartInv
<1> QED BY <1>1, <1>2 DEF PathsInv

\* A step that does not touch the directory, nor open a writer.
LEMMA NoWrite ==
    ASSUME PathsInv, move' \in {"open", "commit", "sidecar", "done", "failed", "refused"},
           move' = "open" => move = "validate", move' = "commit" => Len(replaced) = Early,
           move' \in {"commit", "refused"} => commits = 0,
           UNCHANGED <<dir, dirBefore, readPath, writePaths, sidecar, replaced, commits>>,
           ApartInv'
    PROVE  PathsInv'
<1>1. Early' = Early
  BY DEF Early
<1>2. Early \in Nat
  BY WritePathsAre DEF PathsInv
<1>3. PathsTypeInv'
  BY <1>1, <1>2 DEF PathsInv, PathsTypeInv
<1>4. UntouchedInv' /\ SameLinks(dir, dirBefore)'
  BY DEF PathsInv, UntouchedInv, SameLinks
<1>5. ReplacedInv' /\ ChangedInv'
  BY DEF PathsInv, ReplacedInv, ChangedInv
<1> QED BY <1>3, <1>4, <1>5 DEF PathsInv

LEMMA ValidateInv ==
    ASSUME PathsInv, ValidatePaths
    PROVE  PathsInv'
<1>1. UNCHANGED <<dir, dirBefore, readPath, writePaths, sidecar, replaced, commits>>
  BY DEF ValidatePaths
<1>2. dir = dirBefore
  BY DEF PathsInv, UntouchedInv, ValidatePaths
<1>3. ApartInv'
  <2>1. CASE move' = "open"
    <3>1. \A i \in DOMAIN writePaths : ~Collide(readPath, writePaths[i])
      BY <2>1 DEF ValidatePaths
    <3>2. Exists(dir, readPath)
      BY <2>1 DEF ValidatePaths
    <3>3. \A i \in DOMAIN writePaths :
              Target(dirBefore, writePaths[i].name) # Target(dirBefore, readPath.name)
      BY <1>2, <3>1, <3>2, GateKeepsApart
    <3> QED BY <1>1, <3>3 DEF ApartInv
  <2>2. CASE move' = "failed"
    <3>1. ~Exists(dirBefore, readPath)
      BY <1>2, <2>2 DEF ValidatePaths
    <3>2. ~Exists(dirBefore, readPath)'
      BY <1>1, <3>1 DEF Exists, FileAt
    <3> QED BY <3>2 DEF ApartInv
  <2>3. CASE move' = "refused"
    BY <2>3 DEF ApartInv
  <2> QED BY <2>1, <2>2, <2>3 DEF ValidatePaths
<1>4. commits = 0 /\ move = "validate" /\ move' \in {"open", "failed", "refused"}
  BY DEF PathsInv, UntouchedInv, ValidatePaths
<1> QED BY <1>1, <1>3, <1>4, NoWrite

LEMMA OpenInv ==
    ASSUME PathsInv, OpenOutput
    PROVE  PathsInv'
<1> DEFINE p == writePaths[Len(replaced) + 1]
<1>1. /\ Len(replaced) \in Nat /\ Len(replaced) < Early
      /\ Early \in Nat /\ Early <= Len(writePaths) /\ Len(writePaths) \in Nat
      /\ \A i \in 1..Len(writePaths) : writePaths[i] \in PathNames
  BY WritePathsAre DEF PathsInv, PathsTypeInv, OpenOutput
<1>2. p \in PathNames
  BY <1>1
<1>3. dir = dirBefore /\ commits = 0
  BY DEF PathsInv, UntouchedInv, OpenOutput
<1>4. Early' = Early
  BY DEF OpenOutput, Early
<1>5. CASE CanOpen(p) /\ replaced' = Append(replaced, Target(dir, p.name)) /\ UNCHANGED move
  <2> DEFINE t == Target(dir, p.name)
  <2>1. LinksClosed(dir)
    BY DirectoryIs DEF PathsInv, PathsTypeInv
  <2>2. t \in Names /\ dir[t][1] # "link" /\ t = Target(dirBefore, p.name)
    BY <1>2, <1>3, <1>5, <2>1, OpenLeadsToNoLink
  <2> HIDE DEF t
  <2>3. replaced' = Append(replaced, t) /\ replaced \in Seq(Names)
    BY <1>5 DEF t, PathsInv, PathsTypeInv
  <2>4. /\ replaced' \in Seq(Names) /\ Len(replaced') = Len(replaced) + 1
        /\ \A i \in 1..Len(replaced) : replaced'[i] = replaced[i]
        /\ replaced'[Len(replaced) + 1] = t
    BY <2>2, <2>3
  <2>5. PathsTypeInv'
    <3>1. Len(replaced') <= Early
      BY <1>1, <2>4
    <3> QED BY <1>4, <1>5, <2>4, <3>1 DEF PathsInv, PathsTypeInv, OpenOutput
  <2>6. ReplacedInv'
    <3>1. \A i \in 1..Len(replaced') : i \in 1..Len(replaced) \/ i = Len(replaced) + 1
      BY <1>1, <2>4
    <3> QED BY <1>3, <2>2, <2>4, <3>1 DEF PathsInv, ReplacedInv, OpenOutput
  <2>7. UntouchedInv' /\ SameLinks(dir, dirBefore)' /\ ChangedInv' /\ ApartInv'
    BY <1>5 DEF PathsInv, UntouchedInv, SameLinks, ChangedInv, ApartInv, Exists, FileAt, OpenOutput
  <2> QED BY <2>5, <2>6, <2>7 DEF PathsInv
<1>6. CASE ~CanOpen(p) /\ move' = "failed" /\ UNCHANGED replaced
  <2>1. UNCHANGED <<dir, dirBefore, readPath, writePaths, sidecar, replaced, commits>>
    BY <1>6 DEF OpenOutput
  <2>2. ApartInv'
    BY <1>6, <2>1 DEF PathsInv, ApartInv, Exists, FileAt, OpenOutput
  <2> QED BY <1>6, <2>1, <2>2, NoWrite
<1> QED BY <1>5, <1>6 DEF OpenOutput

LEMMA ReadOrCommittedInv ==
    ASSUME PathsInv, ReadInput \/ OutputsCommitted
    PROVE  PathsInv'
<1>1. UNCHANGED <<dir, dirBefore, readPath, writePaths, sidecar, replaced, commits>>
  BY DEF ReadInput, OutputsCommitted
<1>2. ApartInv'
  BY <1>1 DEF PathsInv, ApartInv, Exists, FileAt, ReadInput, OutputsCommitted
<1>3. move' = "commit" => Len(replaced) = Early /\ commits = 0
  BY DEF PathsInv, UntouchedInv, ReadInput, OutputsCommitted
<1>4. move' \in {"commit", "sidecar", "done"}
  BY DEF ReadInput, OutputsCommitted
<1> QED BY <1>1, <1>2, <1>3, <1>4, NoWrite

\* A writer that puts the file it made at the name it replaces.
LEMMA Written ==
    ASSUME PathsInv, NEW i \in DOMAIN writePaths, NEW n \in Names, NEW k \in Nat,
           n = Target(dirBefore, writePaths[i].name), dir[n][1] # "link",
           dir' = [dir EXCEPT ![n] = <<"file", "out", k>>],
           UNCHANGED <<dirBefore, readPath, writePaths, replaced>>,
           commits' = commits + 1, move \in {"commit", "sidecar"}, move' \in {"commit", "done"}
    PROVE  /\ dir' \in Directories
           /\ UntouchedInv' /\ SameLinks(dir, dirBefore)'
           /\ ReplacedInv' /\ ChangedInv' /\ ApartInv'
<1>1. dir \in Directories /\ commits \in Nat
  BY DEF PathsInv, PathsTypeInv
<1>2. dir' \in Directories
  BY <1>1 DEF Directories
<1>3. SameLinks(dir, dirBefore)'
  <2> DEFINE w == <<"file", "out", k>>
  <2>1. w[1] # "link" /\ dir' = [dir EXCEPT ![n] = w]
    OBVIOUS
  <2> HIDE DEF w
  <2>2. SameLinks(dir, dirBefore)
    BY DEF PathsInv
  <2>3. SameLinks([dir EXCEPT ![n] = w], dirBefore)
    BY <1>1, <2>1, <2>2, NewFileKeepsLinks DEF Directories
  <2> QED BY <2>1, <2>3
<1>4. ChangedInv'
  <2>1. \A m \in Names : m # n => dir'[m] = dir[m]
    BY <1>1 DEF Directories
  <2> QED BY <2>1 DEF PathsInv, ChangedInv
<1>5. UntouchedInv' /\ ReplacedInv' /\ ApartInv'
  BY <1>1 DEF PathsInv, UntouchedInv, ReplacedInv, ApartInv, Exists, FileAt
<1> QED BY <1>2, <1>3, <1>4, <1>5

LEMMA CommitInv ==
    ASSUME PathsInv, CommitOutput
    PROVE  PathsInv'
<1> DEFINE i == commits + 1
           n == replaced[i]
<1>1. /\ i \in 1..Len(replaced) /\ i \in DOMAIN writePaths /\ i \in Nat
      /\ Early \in Nat /\ i <= Early /\ commits \in Nat
  BY WritePathsAre DEF PathsInv, PathsTypeInv, CommitOutput
<1>2. n \in Names /\ n = Target(dirBefore, writePaths[i].name) /\ dirBefore[n][1] # "link"
  BY <1>1 DEF PathsInv, PathsTypeInv, ReplacedInv
<1>3. dir[n][1] # "link"
  BY <1>2 DEF PathsInv, SameLinks
<1>4. dir' = [dir EXCEPT ![n] = <<"file", "out", i>>] /\ commits' = i
  BY DEF CommitOutput
<1>5. /\ UNCHANGED <<dirBefore, readPath, writePaths, replaced, sidecar>>
      /\ move = "commit" /\ move' = "commit"
  BY DEF CommitOutput
<1> HIDE DEF i, n
<1>6. /\ dir' \in Directories
      /\ UntouchedInv' /\ SameLinks(dir, dirBefore)'
      /\ ReplacedInv' /\ ChangedInv' /\ ApartInv'
  BY <1>1, <1>2, <1>3, <1>4, <1>5, Written DEF i
<1>7. PathsTypeInv'
  <2>1. Early' = Early
    BY <1>5 DEF Early
  <2> QED BY <1>1, <1>4, <1>5, <1>6, <2>1 DEF PathsInv, PathsTypeInv
<1> QED BY <1>6, <1>7 DEF PathsInv

LEMMA SidecarInv ==
    ASSUME PathsInv, WriteSidecar
    PROVE  PathsInv'
<1> DEFINE i == Len(writePaths)
           p == writePaths[i]
           n == Target(dir, p.name)
<1>1. i \in DOMAIN writePaths /\ p \in PathNames /\ i \in Nat
  BY WritePathsAre DEF PathsInv
<1>2. PathsTypeInv /\ SameLinks(dir, dirBefore)
  BY DEF PathsInv
<1>3. n \in Names /\ n = Target(dirBefore, p.name)
  BY <1>1, <1>2, LeadsAsBefore
<1>4. UNCHANGED <<dirBefore, readPath, writePaths, replaced, sidecar>> /\ move = "sidecar"
  BY DEF WriteSidecar
<1>5. CASE /\ CanOpen(p) /\ dir' = [dir EXCEPT ![n] = <<"file", "out", i>>]
           /\ commits' = commits + 1 /\ move' = "done"
  <2>1. dir[n][1] # "link"
    BY <1>1, <1>2, <1>5, DirectoryIs, OpenLeadsToNoLink DEF PathsTypeInv
  <2> HIDE DEF i, p, n
  <2>2. /\ dir' \in Directories
        /\ UntouchedInv' /\ SameLinks(dir, dirBefore)'
        /\ ReplacedInv' /\ ChangedInv' /\ ApartInv'
    BY <1>1, <1>3, <1>4, <1>5, <2>1, Written DEF p
  <2>3. PathsTypeInv'
    <3>1. Early' = Early
      BY <1>4 DEF Early
    <3> QED BY <1>2, <1>4, <1>5, <2>2, <3>1 DEF PathsTypeInv
  <2> QED BY <2>2, <2>3 DEF PathsInv
<1>6. CASE ~CanOpen(p) /\ move' = "failed" /\ UNCHANGED <<dir, commits>>
  <2>1. ApartInv'
    BY <1>4, <1>6 DEF PathsInv, ApartInv, Exists, FileAt
  <2> QED BY <1>4, <1>6, <2>1, NoWrite
<1> QED BY <1>5, <1>6 DEF WriteSidecar

LEMMA StutterInv ==
    ASSUME PathsInv, UNCHANGED pathVars
    PROVE  PathsInv'
<1>1. Early' = Early
  BY DEF pathVars, Early
<1>2. PathsTypeInv'
  BY <1>1 DEF PathsInv, PathsTypeInv, pathVars
<1>3. UntouchedInv' /\ SameLinks(dir, dirBefore)' /\ ReplacedInv'
  BY DEF PathsInv, UntouchedInv, SameLinks, ReplacedInv, pathVars
<1>4. ChangedInv' /\ ApartInv'
  BY DEF PathsInv, ChangedInv, ApartInv, Exists, FileAt, pathVars
<1> QED BY <1>2, <1>3, <1>4 DEF PathsInv

-----------------------------------------------------------------------------
(* The theorems.                                                           *)

\* The links are those of the start, only names that an output leads to have changed, and
\* past the gate no output leads to the file that is read.
THEOREM PathsInvHolds == PathsSpec => []PathsInv
<1>1. PathsInit => PathsInv
  BY InitInv
<1>2. PathsInv /\ [PathsNext]_pathVars => PathsInv'
  BY ValidateInv, OpenInv, ReadOrCommittedInv, CommitInv, SidecarInv, StutterInv DEF PathsNext
<1> QED BY <1>1, <1>2, PTL DEF PathsSpec

\* Whatever the links and spellings, no command touches the file it reads or a name its
\* outputs do not lead to, and none touches anything before its first commit.
THEOREM InputsSurviveHolds == PathsSpec => []InputsSurvive
<1>1. ASSUME PathsInv PROVE InputsSurvive
  <2>1. PathsTypeInv /\ SameLinks(dir, dirBefore) /\ readPath \in PathNames
    BY <1>1 DEF PathsInv, PathsTypeInv
  <2>2. \A i \in DOMAIN writePaths :
            Target(dir, writePaths[i].name) = Target(dirBefore, writePaths[i].name)
    BY <2>1, LeadsAsBefore, WritePathsAre
  <2>3. /\ Target(dirBefore, readPath.name) \in Names
        /\ Target(dir, readPath.name) = Target(dirBefore, readPath.name)
    BY <2>1, LeadsAsBefore
  <2>4. \A n \in Names :
            dir[n] # dirBefore[n] => \E i \in DOMAIN writePaths : Target(dir, writePaths[i].name) = n
    BY <1>1, <2>2 DEF PathsInv, ChangedInv
  <2>5. commits = 0 => dir = dirBefore
    BY <1>1 DEF PathsInv, UntouchedInv
  <2>6. ASSUME Exists(dirBefore, readPath)
        PROVE  FileAt(dir, readPath) = FileAt(dirBefore, readPath)
    <3>1. CASE move \in {"validate", "refused"}
      BY <1>1, <2>5, <3>1 DEF PathsInv, UntouchedInv
    <3>2. CASE move \notin {"validate", "refused"}
      <4>1. dir[Target(dirBefore, readPath.name)] = dirBefore[Target(dirBefore, readPath.name)]
        BY <1>1, <2>3, <2>6, <3>2 DEF PathsInv, ChangedInv, ApartInv
      <4> QED BY <2>3, <4>1 DEF FileAt
    <3> QED BY <3>1, <3>2
  <2> QED BY <2>4, <2>5, <2>6 DEF InputsSurvive
<1> QED BY <1>1, PathsInvHolds, PTL

-----------------------------------------------------------------------------
(* The split bundle.                                                       *)

\* The destinations of the first n entries.
Reached(n) == {target[entries[i]] : i \in {j \in DOMAIN entries : j <= n}}

\* What the first pass leaves: names, the pool and its bound.
ReadingInv ==
    /\ input \in Inputs /\ target \in Targets /\ next \in 1..(Len(input) + 1)
    /\ DOMAIN names \subseteq Sources /\ \A s \in DOMAIN names : names[s] \in Files
    /\ IsFiniteSet(Used)
    /\ opened \subseteq Files
    /\ pool \in Seq([file : opened, buffer : Seq(Nat) \ {<<>>}])
    /\ OpenFilesBounded

\* The entries are the files that were written and, last, the manifest.
EntriesInv ==
    /\ entries \in Seq(Outputs)
    /\ pc = "read" => entries = <<>>
    /\ pc \notin {"read", "failed"} => entries # <<>>
    /\ entries # <<>> =>
          /\ \A i \in DOMAIN entries : entries[i] = Manifest <=> i = Len(entries)
          /\ {entries[i] : i \in 1..(Len(entries) - 1)} = Used

\* Where commit and rollback are, and that no two entries share a destination.
AtInv ==
    /\ pc \in {"read", "prepare", "commit", "rollback", "done", "failed", "killed"}
    /\ faults \in 0..MaxFaults
    /\ at \in 0..(Len(entries) + 1)
    /\ pc \in {"read", "prepare", "failed"} => at = 0
    /\ pc = "commit" => at >= 1
    /\ pc = "rollback" => at <= Len(entries)
    /\ pc = "done" => at = Len(entries) + 1 /\ guarded = {}
    /\ pc \in {"commit", "rollback"} =>
          \A i, j \in DOMAIN entries : i # j => target[entries[i]] # target[entries[j]]

\* The new content of a destination is there from its Install on, and the manifest
\* only behind all others.
ContentInv ==
    /\ at > Len(entries) =>
          \A i \in DOMAIN entries : disk[target[entries[i]]] = Content(entries[i])
    /\ at <= Len(entries) => \A p \in Paths : disk[p].kind # "manifest"
    /\ pc = "commit" =>
          \A i \in DOMAIN entries : i < at => disk[target[entries[i]]] = Content(entries[i])

\* Where the previous content of a path is.
PreviousInv ==
    /\ DOMAIN disk = Paths /\ DOMAIN backup = Paths
    /\ guarded \subseteq Paths /\ committed \subseteq Paths /\ unrestored \subseteq Paths
    /\ \A p \in Paths : old[p] \in {None, Old(p)}
    /\ pc # "done" => \A p \in Paths :
          /\ p \in guarded =>
                /\ p \notin unrestored /\ old[p] # None /\ backup[p] = old[p]
                /\ p \notin committed => disk[p] = None
          /\ p \notin guarded /\ p \notin unrestored =>
                /\ backup[p] = None
                /\ IF p \in committed THEN old[p] = None ELSE disk[p] = old[p]
          /\ p \in unrestored => old[p] = None \/ backup[p] = old[p]

\* Which destinations the commit has touched, and which the rollback still has to.
StagedInv ==
    /\ pc \in {"read", "prepare"} => guarded = {} /\ committed = {}
    /\ pc \in {"read", "prepare", "commit"} => unrestored = {}
    /\ pc = "commit" => committed = Reached(at - 1) /\ guarded \subseteq Reached(at)
    /\ pc = "rollback" => guarded \union (committed \ unrestored) \subseteq Reached(at)
    /\ pc = "failed" => guarded = {} /\ committed \subseteq unrestored

IInv == ReadingInv /\ EntriesInv /\ AtInv /\ ContentInv /\ PreviousInv /\ StagedInv

-----------------------------------------------------------------------------
(* The contents of paths, and the path of an entry.                        *)

LEMMA ContentKinds ==
    /\ \A name : Content(name) # None
    /\ \A name \in Files : Content(name).kind # "manifest"
    /\ \A p : Old(p) # None /\ Old(p).kind # "manifest"
    /\ None.kind # "manifest"
  <1>1. \A name : Content(name).kind \in {"manifest", "records"}
    BY DEF Content, NewManifest, Records
  <1>2. \A name \in Files : Content(name) = Records(staged[name])
    BY SplitAssumption DEF Content
  <1> QED
    BY <1>1, <1>2 DEF None, Old, Records

LEMMA PathOfEntry ==
    ASSUME ReadingInv, EntriesInv
    PROVE  /\ Len(entries) \in Nat /\ DOMAIN entries = 1..Len(entries)
           /\ \A i \in DOMAIN entries : /\ entries[i] \in Outputs
                                        /\ target[entries[i]] \in Paths
  <1>1. target \in [Outputs -> Paths]
    BY SplitAssumption DEF ReadingInv
  <1>2. entries \in Seq(Outputs)
    BY DEF EntriesInv
  <1> QED
    BY <1>1, <1>2

\* SetToSeq is onto.
LEMMA SetToSeqIsOnto ==
    ASSUME NEW S, IsFiniteSet(S)
    PROVE  /\ SetToSeq(S) \in Seq(S)
           /\ {SetToSeq(S)[i] : i \in 1..Len(SetToSeq(S))} = S
  <1> DEFINE n == Cardinality(S)
             f == SetToSeq(S)
  <1>1. n \in Nat /\ ExistsBijection(1..n, S)
    BY FS_CardinalityType
  <1>2. PICK g \in [1..n -> S] : \A a, b \in 1..n : g[a] = g[b] => a = b
    BY <1>1 DEF ExistsBijection, Bijection, Injection, IsInjective
  <1>3. IsInjective(g)
    BY <1>2 DEF IsInjective
  <1>4. f \in [1..n -> S] /\ IsInjective(f)
    BY <1>2, <1>3 DEF SetToSeq
  <1>5. f \in Injection(1..n, S)
    BY <1>4 DEF IsInjective, Injection
  <1>6. IsFiniteSet(1..n) /\ Cardinality(1..n) = n
    BY <1>1, FS_Interval
  <1>7. f \in Surjection(1..n, S)
    BY <1>5, <1>6, FS_Injection
  <1>8. f \in Seq(S) /\ Len(f) = n
    BY <1>1, <1>4
  <1> QED
    BY <1>7, <1>8 DEF Surjection

-----------------------------------------------------------------------------
(* The inductive invariant.                                                *)

LEMMA SplitStart ==
    ASSUME Init
    PROVE  IInv
  <1> USE DEF Init
  <1>1. ReadingInv
    <2>1. Used = {}
      BY DEF Used
    <2>2. IsFiniteSet(Used)
      BY <2>1, FS_EmptySet
    <2>3. next \in 1..(Len(input) + 1)
      BY SplitAssumption
    <2>4. pool = <<>> /\ names = <<>> /\ opened = {}
      OBVIOUS
    <2>5. OpenFilesBounded
      BY <2>4, SplitAssumption DEF OpenFilesBounded
    <2> QED
      BY <2>2, <2>3, <2>4, <2>5 DEF ReadingInv
  <1>2. EntriesInv
    BY DEF EntriesInv
  <1>3. AtInv
    BY SplitAssumption DEF AtInv
  <1>4. \A p \in Paths : disk[p] \in {None, Old(p)}
    OBVIOUS
  <1>5. ContentInv
    BY <1>4, ContentKinds DEF ContentInv
  <1>6. PreviousInv
    BY <1>4 DEF PreviousInv
  <1>7. StagedInv
    BY DEF StagedInv
  <1> QED
    BY <1>1, <1>2, <1>3, <1>5, <1>6, <1>7 DEF IInv

\* A sequence without one of its elements.
LEMMA RemoveAtIsSeq ==
    ASSUME NEW W, NEW s \in Seq(W), NEW k \in 1..Len(s)
    PROVE  /\ RemoveAt(s, k) \in Seq(W) /\ Len(RemoveAt(s, k)) = Len(s) - 1
           /\ \A i \in 1..Len(RemoveAt(s, k)) :
                  RemoveAt(s, k)[i] = s[IF i < k THEN i ELSE i + 1]
  <1> DEFINE a == SubSeq(s, 1, k - 1)
             b == SubSeq(s, k + 1, Len(s))
  <1>1. /\ a \in Seq(W) /\ Len(a) = k - 1
        /\ \A i \in 1..(k - 1) : a[i] = s[i]
    OBVIOUS
  <1>2. /\ b \in Seq(W) /\ Len(b) = Len(s) - k
        /\ \A i \in 1..(Len(s) - k) : b[i] = s[k + i]
    OBVIOUS
  <1>3. RemoveAt(s, k) = a \o b
    BY DEF RemoveAt
  <1> HIDE DEF a, b
  <1>4. a \o b \in Seq(W) /\ Len(a \o b) = Len(a) + Len(b)
    <2>1. a \in Seq(W) /\ b \in Seq(W)
      BY <1>1, <1>2
    <2> QED
      BY <2>1
  <1>5. k \in Nat /\ k > 0 /\ Len(s) \in Nat /\ k <= Len(s)
    OBVIOUS
  <1>6. Len(a \o b) = Len(s) - 1
    BY <1>1, <1>2, <1>4, <1>5
  <1>7. ASSUME NEW i \in 1..(Len(s) - 1)
        PROVE  (a \o b)[i] = s[IF i < k THEN i ELSE i + 1]
    <2>1. (a \o b)[i] = IF i <= Len(a) THEN a[i] ELSE b[i - Len(a)]
      BY <1>1, <1>2, <1>5
    <2>2. CASE i < k
      BY <1>1, <1>5, <2>1, <2>2
    <2>3. CASE ~(i < k)
      <3>1. i - Len(a) \in 1..(Len(s) - k) /\ k + (i - Len(a)) = i + 1
        BY <1>1, <1>5, <2>3
      <3> QED
        BY <1>1, <1>2, <1>5, <2>1, <2>3, <3>1
    <2> QED
      BY <2>2, <2>3
  <1> QED
    BY <1>3, <1>4, <1>6, <1>7

\* The files of a pool are distinct.
DistinctFiles(p) == \A i, j \in 1..Len(p) : p[i].file = p[j].file => i = j

LEMMA AppendWriter ==
    ASSUME NEW W, NEW p \in Seq(W), DistinctFiles(p), NEW w \in W,
           \A i \in 1..Len(p) : p[i].file # w.file
    PROVE  /\ Append(p, w) \in Seq(W) /\ Len(Append(p, w)) = Len(p) + 1
           /\ DistinctFiles(Append(p, w))
  BY DEF DistinctFiles

\* The first pass: a name at most is new, a writer makes room for the next.
Writer(files) == [file : files, buffer : Seq(Nat) \ {<<>>}]

LEMMA WriteLinePool ==
    ASSUME ReadingInv, NEW f \in Files, NEW rec \in Nat, WriteLine(f, rec)
    PROVE  /\ opened' \subseteq Files
           /\ pool' \in Seq([file : opened', buffer : Seq(Nat) \ {<<>>}])
           /\ OpenFilesBounded'
  <1>1. /\ pool \in Seq(Writer(opened)) /\ Len(pool) \in Nat /\ Len(pool) <= MaxOpen
        /\ opened \subseteq Files /\ MaxOpen \in Nat \ {0}
        /\ DistinctFiles(pool)
    <2>1. pool \in Seq(Writer(opened)) /\ opened \subseteq Files
      BY DEF ReadingInv, Writer
    <2>2. Len(pool) <= MaxOpen /\ \A i, j \in DOMAIN pool : pool[i].file = pool[j].file => i = j
      BY DEF ReadingInv, OpenFilesBounded
    <2>3. MaxOpen \in Nat \ {0}
      BY SplitAssumption
    <2> QED
      BY <2>1, <2>2, <2>3 DEF DistinctFiles
  <1>2. SUFFICES /\ opened' \subseteq Files
                 /\ pool' \in Seq(Writer(opened')) /\ Len(pool') <= MaxOpen
                 /\ DistinctFiles(pool')
    <2>1. DOMAIN pool' = 1..Len(pool')
      BY <1>2
    <2> QED
      BY <1>2, <2>1 DEF OpenFilesBounded, Writer, DistinctFiles
  <1>3. CASE Resident(f)
    <2> DEFINE k == CHOOSE j \in DOMAIN pool : pool[j].file = f
               w == [file |-> f, buffer |-> Append(pool[k].buffer, rec)]
               rest == RemoveAt(pool, k)
    <2>1. k \in 1..Len(pool) /\ pool[k].file = f
      <3>1. \E j \in DOMAIN pool : pool[j].file = f
        BY <1>3 DEF Resident
      <3> QED
        BY <1>1, <3>1
    <2>2. pool' = Append(rest, w) /\ opened' = opened
      BY <1>3 DEF WriteLine
    <2> HIDE DEF k
    <2>3. w \in Writer(opened) /\ w.file = f
      <3>1. pool[k] \in Writer(opened)
        BY <1>1, <2>1
      <3>2. PICK g \in opened, b \in Seq(Nat) : pool[k] = [file |-> g, buffer |-> b]
        BY <3>1 DEF Writer
      <3>3. w = [file |-> f, buffer |-> Append(b, rec)] /\ g = f
        BY <2>1, <3>2
      <3>4. Append(b, rec) \in Seq(Nat) /\ Len(Append(b, rec)) # 0
        OBVIOUS
      <3>5. Append(b, rec) # <<>>
        BY <3>4
      <3> QED
        BY <3>2, <3>3, <3>4, <3>5 DEF Writer
    <2>4. /\ rest \in Seq(Writer(opened)) /\ Len(rest) = Len(pool) - 1
          /\ \A i \in 1..Len(rest) : rest[i] = pool[IF i < k THEN i ELSE i + 1]
      BY <1>1, <2>1, RemoveAtIsSeq
    <2> HIDE DEF w, rest
    <2> DEFINE from(i) == IF i < k THEN i ELSE i + 1
    <2>5. /\ \A i \in 1..Len(rest) : from(i) \in 1..Len(pool) /\ from(i) # k
          /\ \A i, j \in 1..Len(rest) : from(i) = from(j) => i = j
      BY <1>1, <2>1, <2>4
    <2>6. \A i \in 1..Len(rest) : rest[i] = pool[from(i)]
      BY <2>4
    <2> HIDE DEF from
    <2>7. DistinctFiles(rest) /\ \A i \in 1..Len(rest) : rest[i].file # w.file
      BY <1>1, <2>1, <2>3, <2>5, <2>6 DEF DistinctFiles
    <2> QED
      BY <1>1, <2>2, <2>3, <2>4, <2>7, AppendWriter
  <1>4. CASE ~Resident(f)
    <2> DEFINE w == [file |-> f, buffer |-> <<rec>>]
    <2>1. pool' = Append(Evict, w) /\ opened' = opened \union {f}
      BY <1>4 DEF WriteLine
    <2>2. \A i \in 1..Len(pool) : pool[i].file # f
      BY <1>1, <1>4 DEF Resident
    <2>3. /\ Evict \in Seq(Writer(opened)) /\ Len(Evict) \in Nat /\ Len(Evict) < MaxOpen
          /\ \E d \in {0, 1} : \A i \in 1..Len(Evict) :
                 i + d \in 1..Len(pool) /\ Evict[i] = pool[i + d]
      <3>1. CASE Len(pool) >= MaxOpen
        <4>1. Evict = Tail(pool) /\ pool # <<>>
          BY <1>1, <3>1 DEF Evict
        <4> QED
          BY <1>1, <3>1, <4>1
      <3>2. CASE ~(Len(pool) >= MaxOpen)
        BY <1>1, <3>2 DEF Evict
      <3> QED
        BY <3>1, <3>2
    <2>4. DistinctFiles(Evict) /\ \A i \in 1..Len(Evict) : Evict[i].file # f
      <3>1. PICK d \in {0, 1} : \A i \in 1..Len(Evict) :
                i + d \in 1..Len(pool) /\ Evict[i] = pool[i + d]
        BY <2>3
      <3>2. \A i, j \in 1..Len(Evict) : Evict[i].file = Evict[j].file => i + d = j + d
        <4> SUFFICES ASSUME NEW i \in 1..Len(Evict), NEW j \in 1..Len(Evict),
                            Evict[i].file = Evict[j].file
                     PROVE  i + d = j + d
          OBVIOUS
        <4>1. pool[i + d].file = pool[j + d].file
          BY <3>1
        <4>2. i + d \in 1..Len(pool) /\ j + d \in 1..Len(pool)
          BY <3>1
        <4> QED
          BY <1>1, <4>1, <4>2 DEF DistinctFiles
      <3>3. \A i, j \in 1..Len(Evict) : i + d = j + d => i = j
        BY <3>1
      <3>4. \A i \in 1..Len(Evict) : Evict[i].file # f
        BY <2>2, <3>1
      <3> QED
        BY <3>2, <3>3, <3>4 DEF DistinctFiles
    <2>5. w \in Writer(opened') /\ w.file = f
      <3>1. <<rec>> \in Seq(Nat) \ {<<>>}
        OBVIOUS
      <3> QED
        BY <2>1, <3>1 DEF Writer
    <2>6. Evict \in Seq(Writer(opened'))
      <3>1. Writer(opened) \subseteq Writer(opened')
        BY <2>1 DEF Writer
      <3> QED
        BY <2>3, <3>1
    <2> HIDE DEF w
    <2> QED
      BY <1>1, <2>1, <2>3, <2>4, <2>5, <2>6, AppendWriter
  <1> QED
    BY <1>3, <1>4

LEMMA SplitRecordInv ==
    ASSUME IInv, SplitRecord
    PROVE  IInv'
  <1>1. /\ pc = "read" /\ next <= Len(input) /\ next' = next + 1
        /\ UNCHANGED <<pc, input, target, bundle, old, faults>>
        /\ ReadingInv /\ entries = <<>> /\ at = 0
    BY DEF SplitRecord, IInv, EntriesInv, AtInv
  <1>2. input \in Seq(Sources) /\ next \in Nat /\ input[next] \in Sources
    BY <1>1, SplitAssumption DEF ReadingInv
  <1>3. PICK f \in FileNames(input[next]) :
            /\ WriteLine(f, next)
            /\ names' = [t \in DOMAIN names \union {input[next]} |->
                             IF t = input[next] THEN f ELSE names[t]]
    BY DEF SplitRecord
  <1>4. f \in Files
    BY <1>1, <1>2, <1>3, SplitAssumption DEF FileNames, ReadingInv
  <1>5. ReadingInv'
    <2>1. /\ opened' \subseteq Files /\ OpenFilesBounded'
          /\ pool' \in Seq([file : opened', buffer : Seq(Nat) \ {<<>>}])
      BY <1>1, <1>2, <1>3, <1>4, WriteLinePool
    <2>2. Used' = Used \/ Used' = Used \union {f}
      <3>1. CASE input[next] \in DOMAIN names
        BY <1>3, <3>1 DEF FileNames, Used
      <3>2. CASE input[next] \notin DOMAIN names
        BY <1>3, <3>2 DEF Used
      <3> QED
        BY <3>1, <3>2
    <2>3. IsFiniteSet(Used')
      BY <1>1, <2>2, FS_AddElement DEF ReadingInv
    <2>4. DOMAIN names' \subseteq Sources /\ \A s \in DOMAIN names' : names'[s] \in Files
      BY <1>1, <1>2, <1>3, <1>4 DEF ReadingInv
    <2>5. next' \in 1..(Len(input') + 1)
      BY <1>1, <1>2 DEF ReadingInv
    <2> QED
      BY <1>1, <2>1, <2>3, <2>4, <2>5 DEF ReadingInv
  <1>6. EntriesInv'
    BY <1>1 DEF IInv, EntriesInv, bundle
  <1>7. AtInv'
    BY <1>1 DEF IInv, AtInv, bundle
  <1>8. ContentInv'
    BY <1>1 DEF IInv, ContentInv, bundle
  <1>9. PreviousInv' /\ StagedInv'
    BY <1>1 DEF IInv, PreviousInv, StagedInv, Reached, bundle
  <1> QED
    BY <1>5, <1>6, <1>7, <1>8, <1>9 DEF IInv

LEMMA FlushAllInv ==
    ASSUME IInv, FlushAll
    PROVE  IInv'
  <1>1. /\ pc = "read" /\ pc' = "prepare" /\ pool' = <<>>
        /\ UNCHANGED <<input, target, next, names, opened, at, disk, backup, guarded,
                       committed, unrestored, old, faults>>
        /\ ReadingInv /\ entries = <<>> /\ at = 0
    BY DEF FlushAll, IInv, EntriesInv, AtInv
  <1>2. Used' = Used
    BY <1>1 DEF Used
  <1>3. entries' = SetToSeq(Used) \o <<Manifest>>
    BY DEF FlushAll, Bundle, Used
  <1>4. /\ SetToSeq(Used) \in Seq(Used)
        /\ {SetToSeq(Used)[i] : i \in 1..Len(SetToSeq(Used))} = Used
        /\ Used \subseteq Files
    BY <1>1, SetToSeqIsOnto DEF ReadingInv, Used
  <1>5. /\ entries' \in Seq(Outputs) /\ Len(entries') = Len(SetToSeq(Used)) + 1
        /\ Len(SetToSeq(Used)) \in Nat
        /\ \A i \in 1..Len(SetToSeq(Used)) : entries'[i] = SetToSeq(Used)[i]
        /\ entries'[Len(entries')] = Manifest
    BY <1>3, <1>4 DEF Outputs
  <1>6. ReadingInv'
    <2>1. OpenFilesBounded'
      BY <1>1, SplitAssumption DEF OpenFilesBounded
    <2> QED
      BY <1>1, <1>2, <2>1 DEF ReadingInv
  <1>7. EntriesInv'
    <2>1. \A i \in 1..(Len(entries') - 1) : entries'[i] \in Files
      BY <1>4, <1>5
    <2>2. \A i \in 1..Len(entries') : entries'[i] = Manifest <=> i = Len(entries')
      BY <1>5, <2>1, SplitAssumption
    <2>3. {entries'[i] : i \in 1..(Len(entries') - 1)} = Used'
      <3>1. Len(entries') - 1 = Len(SetToSeq(Used))
        BY <1>5
      <3>2. {entries'[i] : i \in 1..Len(SetToSeq(Used))} =
                {SetToSeq(Used)[i] : i \in 1..Len(SetToSeq(Used))}
        BY <1>5
      <3> QED
        BY <1>2, <1>4, <3>1, <3>2
    <2> QED
      BY <1>1, <1>5, <2>2, <2>3 DEF EntriesInv
  <1>8. AtInv'
    BY <1>1, <1>5 DEF IInv, AtInv
  <1>9. ContentInv'
    BY <1>1, <1>5 DEF IInv, ContentInv
  <1>10. PreviousInv' /\ StagedInv'
    BY <1>1 DEF IInv, PreviousInv, StagedInv
  <1> QED
    BY <1>6, <1>7, <1>8, <1>9, <1>10 DEF IInv

-----------------------------------------------------------------------------
(* The commit and the rollback leave the records alone.                    *)

LEMMA ReadingUnchanged ==
    ASSUME ReadingInv, UNCHANGED reading
    PROVE  /\ ReadingInv' /\ Used' = Used
           /\ \A name : Content(name)' = Content(name)
  <1>1. Used' = Used
    BY DEF reading, Used
  <1>2. ReadingInv'
    BY <1>1 DEF reading, ReadingInv, OpenFilesBounded
  <1>3. NewManifest' = NewManifest
    BY <1>1 DEF reading, NewManifest
  <1> QED
    BY <1>1, <1>2, <1>3 DEF reading, Content

\* And so does whatever keeps the entries.
LEMMA EntriesUnchanged ==
    ASSUME ReadingInv, EntriesInv, UNCHANGED <<reading, entries>>,
           pc # "read" /\ pc' # "read", pc' # "failed" => pc # "failed"
    PROVE  EntriesInv'
  <1>1. Used' = Used
    BY ReadingUnchanged
  <1> QED
    BY <1>1 DEF EntriesInv

LEMMA ReadFailsInv ==
    ASSUME IInv, ReadFails
    PROVE  IInv'
  <1> USE DEF IInv
  <1>1. /\ pc \in {"read", "prepare"} /\ pc' = "failed"
        /\ UNCHANGED <<reading, bundle, old>> /\ faults' \in 0..MaxFaults
    BY SplitAssumption DEF ReadFails, Fault, AtInv
  <1>2. ReadingInv' /\ Used' = Used /\ \A name : Content(name)' = Content(name)
    BY <1>1, ReadingUnchanged
  <1>3. EntriesInv'
    BY <1>1, <1>2 DEF EntriesInv, bundle
  <1>4. AtInv'
    BY <1>1 DEF AtInv, bundle
  <1>5. ContentInv'
    BY <1>1, <1>2 DEF ContentInv, bundle, reading
  <1>6. PreviousInv' /\ StagedInv'
    BY <1>1 DEF PreviousInv, StagedInv, bundle
  <1> QED
    BY <1>2, <1>3, <1>4, <1>5, <1>6

LEMMA PrepareInv ==
    ASSUME IInv, Prepare
    PROVE  IInv'
  <1> USE DEF IInv
  <1>1. /\ pc = "prepare" /\ pc' = "commit" /\ at' = 1 /\ at = 0
        /\ \A i, j \in DOMAIN entries : i # j => target[entries[i]] # target[entries[j]]
        /\ UNCHANGED <<reading, entries, disk, backup, guarded, committed, unrestored,
                       old, faults>>
    BY DEF Prepare, AtInv
  <1>2. ReadingInv' /\ \A name : Content(name)' = Content(name)
    BY <1>1, ReadingUnchanged
  <1>3. EntriesInv'
    BY <1>1, EntriesUnchanged
  <1>4. Len(entries) \in Nat /\ DOMAIN entries = 1..Len(entries) /\ Len(entries) >= 1
    BY <1>1, PathOfEntry DEF EntriesInv
  <1>5. AtInv'
    BY <1>1, <1>4 DEF AtInv, reading
  <1>6. ContentInv'
    BY <1>1, <1>2, <1>4 DEF ContentInv, reading
  <1>7. PreviousInv'
    BY <1>1 DEF PreviousInv
  <1>8. StagedInv'
    <2>1. Reached(at - 1)' = {}
      BY <1>1, <1>4 DEF Reached
    <2> QED
      BY <1>1, <2>1 DEF StagedInv
  <1> QED
    BY <1>2, <1>3, <1>5, <1>6, <1>7, <1>8

\* What commit and rollback know of the entry they are at.
LEMMA AtEntry ==
    ASSUME IInv, pc \in {"commit", "rollback"}, at \in 1..Len(entries)
    PROVE  /\ at \in DOMAIN entries /\ Path \in Paths
           /\ \A i \in DOMAIN entries : i # at => target[entries[i]] # Path
           /\ at \in Nat /\ Len(entries) \in Nat
           /\ Reached(at) = Reached(at - 1) \union {Path}
           /\ Path \notin Reached(at - 1)
  <1>1. /\ Len(entries) \in Nat /\ DOMAIN entries = 1..Len(entries)
        /\ \A i \in DOMAIN entries : target[entries[i]] \in Paths
    BY PathOfEntry DEF IInv
  <1>2. \A i, j \in DOMAIN entries : i # j => target[entries[i]] # target[entries[j]]
    BY DEF IInv, AtInv
  <1>3. \A i \in DOMAIN entries : i <= at <=> i <= at - 1 \/ i = at
    BY <1>1
  <1>4. \A i \in DOMAIN entries : i <= at - 1 => i # at
    BY <1>1
  <1> QED
    BY <1>1, <1>2, <1>3, <1>4 DEF Path, Reached

LEMMA BackUpInv ==
    ASSUME IInv, BackUp
    PROVE  IInv'
  <1> USE DEF IInv
  <1>1. /\ pc = "commit" /\ pc' = pc /\ at <= Len(entries) /\ disk[Path] # None
        /\ backup' = [backup EXCEPT ![Path] = disk[Path]]
        /\ disk' = [disk EXCEPT ![Path] = None]
        /\ guarded' = guarded \union {Path}
        /\ UNCHANGED <<reading, entries, at, committed, unrestored, old, faults>>
    BY DEF BackUp
  <1>2. at \in 1..Len(entries)
    BY <1>1, PathOfEntry DEF AtInv
  <1>3. ReadingInv' /\ \A name : Content(name)' = Content(name)
    BY <1>1, ReadingUnchanged
  <1>4. EntriesInv'
    BY <1>1, EntriesUnchanged
  <1>5. AtInv'
    BY <1>1 DEF AtInv, reading
  <1>6. \A i \in DOMAIN entries : i < at => disk'[target[entries[i]]] = disk[target[entries[i]]]
    BY <1>1, <1>2, AtEntry, PathOfEntry DEF PreviousInv
  <1>7. ContentInv'
    BY <1>1, <1>2, <1>3, <1>6, AtEntry, ContentKinds DEF ContentInv, PreviousInv, reading
  <1>8. PreviousInv'
    <2>1. Path \in Paths /\ Path \notin committed /\ Path \notin unrestored
      BY <1>1, <1>2, AtEntry DEF StagedInv
    <2>2. Path \notin guarded
      BY <1>1, <2>1 DEF PreviousInv
    <2>3. old[Path] = disk[Path]
      BY <1>1, <2>1, <2>2 DEF PreviousInv
    <2> QED
      BY <1>1, <2>1, <2>2, <2>3 DEF PreviousInv
  <1>9. StagedInv'
    BY <1>1, <1>2, AtEntry DEF StagedInv, Reached, reading
  <1> QED
    BY <1>3, <1>4, <1>5, <1>7, <1>8, <1>9

LEMMA InstallInv ==
    ASSUME IInv, Install
    PROVE  IInv'
  <1> USE DEF IInv
  <1>1. /\ pc = "commit" /\ pc' = pc /\ at <= Len(entries) /\ disk[Path] = None
        /\ disk' = [disk EXCEPT ![Path] = Content(entries[at])]
        /\ committed' = committed \union {Path} /\ at' = at + 1
        /\ UNCHANGED <<reading, entries, backup, guarded, unrestored, old, faults>>
    BY DEF Install
  <1>2. at \in 1..Len(entries)
    BY <1>1, PathOfEntry DEF AtInv
  <1>3. ReadingInv' /\ \A name : Content(name)' = Content(name)
    BY <1>1, ReadingUnchanged
  <1>4. EntriesInv'
    BY <1>1, EntriesUnchanged
  <1>5. AtInv'
    BY <1>1, <1>2, AtEntry DEF AtInv, reading
  <1>6. ContentInv'
    <2>1. \A i \in DOMAIN entries : i <= at => disk'[target[entries[i]]] = Content(entries[i])
      <3>1. \A i \in DOMAIN entries : i <= at => i < at \/ i = at
        BY <1>2, PathOfEntry
      <3> QED
        BY <1>1, <1>2, <3>1, AtEntry, PathOfEntry DEF ContentInv, PreviousInv, Path
    <2>2. at # Len(entries) => entries[at] \in Files
      BY <1>2, PathOfEntry, AtEntry DEF EntriesInv, Outputs
    <2>3. at' <= Len(entries) => \A p \in Paths : disk'[p].kind # "manifest"
      BY <1>1, <1>2, <2>2, AtEntry, ContentKinds DEF ContentInv, PreviousInv
    <2>4. \A i \in DOMAIN entries : i < at' => i <= at
      BY <1>1, <1>2, PathOfEntry
    <2>5. at' > Len(entries) => \A i \in DOMAIN entries : i < at'
      BY <1>1, <1>2, PathOfEntry
    <2> QED
      BY <1>1, <1>3, <2>1, <2>3, <2>4, <2>5 DEF ContentInv, reading
  <1>7. PreviousInv'
    <2>1. Path \in Paths /\ Path \notin committed /\ Path \notin unrestored
      BY <1>1, <1>2, AtEntry DEF StagedInv
    <2> QED
      BY <1>1, <2>1 DEF PreviousInv
  <1>8. StagedInv'
    <2>1. committed' = Reached(at)
      BY <1>1, <1>2, AtEntry DEF StagedInv
    <2>2. Reached(at - 1)' = Reached(at) /\ Reached(at) \subseteq Reached(at)'
      BY <1>1, <1>2, PathOfEntry DEF Reached, reading
    <2> QED
      BY <1>1, <2>1, <2>2 DEF StagedInv
  <1> QED
    BY <1>3, <1>4, <1>5, <1>6, <1>7, <1>8

LEMMA CommitFailsInv ==
    ASSUME IInv, CommitFails
    PROVE  IInv'
  <1> USE DEF IInv
  <1>1. /\ pc = "commit" /\ pc' = "rollback" /\ at <= Len(entries) /\ at' = Len(entries)
        /\ UNCHANGED <<reading, entries, disk, backup, guarded, committed, unrestored, old>>
        /\ faults' \in 0..MaxFaults
    BY SplitAssumption DEF CommitFails, Fault, AtInv
  <1>2. ReadingInv' /\ \A name : Content(name)' = Content(name)
    BY <1>1, ReadingUnchanged
  <1>3. EntriesInv'
    BY <1>1, EntriesUnchanged
  <1>4. AtInv'
    BY <1>1, PathOfEntry DEF AtInv, reading
  <1>5. ContentInv'
    BY <1>1, <1>2, PathOfEntry DEF ContentInv, reading
  <1>6. PreviousInv'
    BY <1>1 DEF PreviousInv
  <1>7. StagedInv'
    <2>1. Reached(at - 1) \subseteq Reached(at)' /\ Reached(at) \subseteq Reached(at)'
      BY <1>1, PathOfEntry DEF Reached, reading
    <2> QED
      BY <1>1, <2>1 DEF StagedInv
  <1> QED
    BY <1>2, <1>3, <1>4, <1>5, <1>6, <1>7

LEMMA FinishInv ==
    ASSUME IInv, Finish
    PROVE  IInv'
  <1> USE DEF IInv
  <1>1. /\ pc = "commit" /\ pc' = "done" /\ at > Len(entries)
        /\ guarded' = {} /\ DOMAIN backup' = Paths
        /\ UNCHANGED <<reading, entries, at, disk, committed, unrestored, old, faults>>
    BY DEF Finish
  <1>2. ReadingInv' /\ \A name : Content(name)' = Content(name)
    BY <1>1, ReadingUnchanged
  <1>3. EntriesInv'
    BY <1>1, EntriesUnchanged
  <1>4. AtInv'
    BY <1>1, PathOfEntry DEF AtInv, reading
  <1>5. ContentInv'
    BY <1>1, <1>2, PathOfEntry DEF ContentInv, reading
  <1>6. PreviousInv' /\ StagedInv'
    BY <1>1 DEF PreviousInv, StagedInv
  <1> QED
    BY <1>2, <1>3, <1>4, <1>5, <1>6

LEMMA RemoveNewInv ==
    ASSUME IInv, RemoveNew
    PROVE  IInv'
  <1> USE DEF IInv
  <1>1. /\ pc = "rollback" /\ pc' = pc /\ at > 0 /\ Path \in committed
        /\ disk' = [disk EXCEPT ![Path] = None] /\ committed' = committed \ {Path}
        /\ UNCHANGED <<reading, entries, at, backup, guarded, unrestored, old, faults>>
    BY DEF RemoveNew
  <1>2. ReadingInv' /\ \A name : Content(name)' = Content(name)
    BY <1>1, ReadingUnchanged
  <1>3. EntriesInv'
    BY <1>1, EntriesUnchanged
  <1>4. AtInv'
    BY <1>1 DEF AtInv, reading
  <1>5. ContentInv'
    BY <1>1, <1>2, ContentKinds, PathOfEntry DEF ContentInv, PreviousInv, AtInv, reading
  <1>6. PreviousInv'
    BY <1>1 DEF PreviousInv
  <1>7. StagedInv'
    BY <1>1 DEF StagedInv, Reached, reading
  <1> QED
    BY <1>2, <1>3, <1>4, <1>5, <1>6, <1>7

LEMMA RestoreOldInv ==
    ASSUME IInv, RestoreOld
    PROVE  IInv'
  <1> USE DEF IInv
  <1>1. /\ pc = "rollback" /\ pc' = pc /\ at > 0 /\ Path \notin committed /\ Path \in guarded
        /\ disk' = [disk EXCEPT ![Path] = backup[Path]]
        /\ backup' = [backup EXCEPT ![Path] = None]
        /\ guarded' = guarded \ {Path} /\ at' = at - 1
        /\ UNCHANGED <<reading, entries, committed, unrestored, old, faults>>
    BY DEF RestoreOld
  <1>2. at \in 1..Len(entries)
    BY <1>1, PathOfEntry DEF AtInv
  <1>3. ReadingInv' /\ \A name : Content(name)' = Content(name)
    BY <1>1, ReadingUnchanged
  <1>4. EntriesInv'
    BY <1>1, EntriesUnchanged
  <1>5. AtInv'
    BY <1>1, <1>2, AtEntry DEF AtInv, reading
  <1>6. backup[Path] = old[Path] /\ backup[Path].kind # "manifest"
    BY <1>1, ContentKinds DEF PreviousInv
  <1>7. ContentInv'
    BY <1>1, <1>2, <1>6, AtEntry DEF ContentInv, PreviousInv
  <1>8. PreviousInv'
    BY <1>1, <1>6 DEF PreviousInv
  <1>9. StagedInv'
    <2>1. Reached(at)' = Reached(at - 1)
      BY <1>1 DEF Reached, reading
    <2> QED
      BY <1>1, <1>2, <2>1, AtEntry DEF StagedInv
  <1> QED
    BY <1>3, <1>4, <1>5, <1>7, <1>8, <1>9

LEMMA NothingToRestoreInv ==
    ASSUME IInv, NothingToRestore
    PROVE  IInv'
  <1> USE DEF IInv
  <1>1. /\ pc = "rollback" /\ pc' = pc /\ at > 0 /\ Path \notin committed /\ Path \notin guarded
        /\ at' = at - 1
        /\ UNCHANGED <<reading, entries, disk, backup, guarded, committed, unrestored,
                       old, faults>>
    BY DEF NothingToRestore
  <1>2. at \in 1..Len(entries)
    BY <1>1, PathOfEntry DEF AtInv
  <1>3. ReadingInv' /\ \A name : Content(name)' = Content(name)
    BY <1>1, ReadingUnchanged
  <1>4. EntriesInv'
    BY <1>1, EntriesUnchanged
  <1>5. AtInv'
    BY <1>1, <1>2, AtEntry DEF AtInv, reading
  <1>6. ContentInv' /\ PreviousInv'
    BY <1>1, <1>2, AtEntry DEF ContentInv, PreviousInv
  <1>7. StagedInv'
    <2>1. Reached(at)' = Reached(at - 1)
      BY <1>1 DEF Reached, reading
    <2> QED
      BY <1>1, <1>2, <2>1, AtEntry DEF StagedInv
  <1> QED
    BY <1>3, <1>4, <1>5, <1>6, <1>7

LEMMA RollbackFailsInv ==
    ASSUME IInv, RollbackFails
    PROVE  IInv'
  <1> USE DEF IInv
  <1>1. /\ pc = "rollback" /\ pc' = pc /\ at > 0 /\ Path \in committed \union guarded
        /\ unrestored' = unrestored \union {Path} /\ guarded' = guarded \ {Path}
        /\ at' = at - 1 /\ faults' \in 0..MaxFaults
        /\ UNCHANGED <<reading, entries, disk, backup, committed, old>>
    BY SplitAssumption DEF RollbackFails, Fault, AtInv
  <1>2. at \in 1..Len(entries)
    BY <1>1, PathOfEntry DEF AtInv
  <1>3. ReadingInv' /\ \A name : Content(name)' = Content(name)
    BY <1>1, ReadingUnchanged
  <1>4. EntriesInv'
    BY <1>1, EntriesUnchanged
  <1>5. AtInv'
    BY <1>1, <1>2, AtEntry DEF AtInv, reading
  <1>6. ContentInv'
    BY <1>1, <1>2, AtEntry DEF ContentInv
  <1>7. PreviousInv'
    <2>1. old[Path] = None \/ backup[Path] = old[Path]
      BY <1>1 DEF PreviousInv
    <2> QED
      BY <1>1, <1>2, <2>1, AtEntry DEF PreviousInv
  <1>8. StagedInv'
    <2>1. Reached(at)' = Reached(at - 1)
      BY <1>1 DEF Reached, reading
    <2> QED
      BY <1>1, <1>2, <2>1, AtEntry DEF StagedInv
  <1> QED
    BY <1>3, <1>4, <1>5, <1>6, <1>7, <1>8

LEMMA RolledBackInv ==
    ASSUME IInv, RolledBack
    PROVE  IInv'
  <1> USE DEF IInv
  <1>1. /\ pc = "rollback" /\ pc' = "failed" /\ at = 0 /\ guarded' = {}
        /\ backup' = [p \in Paths |-> IF p \in guarded THEN None ELSE backup[p]]
        /\ UNCHANGED <<reading, entries, at, disk, committed, unrestored, old, faults>>
    BY DEF RolledBack
  <1>2. ReadingInv' /\ Used' = Used /\ \A name : Content(name)' = Content(name)
    BY <1>1, ReadingUnchanged
  <1>3. EntriesInv'
    BY <1>1, <1>2 DEF EntriesInv
  <1>4. AtInv'
    BY <1>1 DEF AtInv
  <1>5. ContentInv'
    BY <1>1, PathOfEntry DEF ContentInv
  <1>6. guarded = {} /\ committed \subseteq unrestored
    BY <1>1, PathOfEntry DEF StagedInv, Reached
  <1>7. PreviousInv'
    BY <1>1, <1>6 DEF PreviousInv
  <1>8. StagedInv'
    BY <1>1, <1>6 DEF StagedInv
  <1> QED
    BY <1>2, <1>3, <1>4, <1>5, <1>7, <1>8

LEMMA KillInv ==
    ASSUME IInv, Kill
    PROVE  IInv'
  <1> USE DEF IInv
  <1>1. /\ pc \in {"commit", "rollback"} /\ pc' = "killed"
        /\ UNCHANGED <<reading, bundle, old, faults>>
    BY DEF Kill
  <1>2. ReadingInv' /\ \A name : Content(name)' = Content(name)
    BY <1>1, ReadingUnchanged
  <1>3. EntriesInv'
    BY <1>1, EntriesUnchanged DEF bundle
  <1>4. AtInv'
    BY <1>1 DEF AtInv, bundle
  <1>5. ContentInv'
    BY <1>1, <1>2 DEF ContentInv, bundle, reading
  <1>6. PreviousInv' /\ StagedInv'
    BY <1>1 DEF PreviousInv, StagedInv, bundle
  <1> QED
    BY <1>2, <1>3, <1>4, <1>5, <1>6

LEMMA SplitIdle ==
    ASSUME IInv, UNCHANGED vars
    PROVE  IInv'
  <1>1. ReadingInv' /\ Used' = Used /\ \A name : Content(name)' = Content(name)
    BY ReadingUnchanged DEF IInv, vars
  <1>2. EntriesInv' /\ ContentInv'
    BY <1>1 DEF IInv, EntriesInv, ContentInv, vars, bundle, reading
  <1>3. AtInv' /\ PreviousInv' /\ StagedInv'
    BY DEF IInv, AtInv, PreviousInv, StagedInv, Reached, vars, bundle, reading
  <1> QED
    BY <1>1, <1>2, <1>3 DEF IInv

\* The invariant of the bundle, for every input, every link and every fault.
THEOREM Invariance == Spec => []IInv
  <1>1. Init => IInv
    BY SplitStart
  <1>2. IInv /\ [Next]_vars => IInv'
    BY SplitRecordInv, ReadFailsInv, FlushAllInv, PrepareInv, BackUpInv, InstallInv,
       CommitFailsInv, FinishInv, RemoveNewInv, RestoreOldInv, NothingToRestoreInv,
       RollbackFailsInv, RolledBackInv, KillInv, SplitIdle
       DEF Next
  <1> QED
    BY <1>1, <1>2, PTL DEF Spec

-----------------------------------------------------------------------------
(* What follows from it.                                                   *)

\* The variables keep their types, and a backup is guarded just while it is needed.
THEOREM TypeCorrect == Spec => []TypeOK
  <1>1. IInv => TypeOK
    <2> SUFFICES ASSUME IInv PROVE TypeOK
      OBVIOUS
    <2>1. \A i \in DOMAIN pool : pool[i].file \in opened /\ pool[i].buffer # <<>>
      <3>1. pool \in Seq(Writer(opened))
        BY DEF IInv, ReadingInv, Writer
      <3>2. \A i \in DOMAIN pool : pool[i] \in Writer(opened)
        BY <3>1
      <3> QED
        BY <3>2 DEF Writer
    <2>2. {p \in Paths : backup[p] # None /\ pc = "commit"} \subseteq guarded
      BY DEF IInv, PreviousInv, StagedInv
    <2>3. guarded \subseteq {p \in Paths : backup[p] # None}
      BY DEF IInv, PreviousInv, AtInv
    <2> QED
      BY <2>1, <2>2, <2>3 DEF IInv, ReadingInv, EntriesInv, AtInv, PreviousInv, TypeOK
  <1> QED
    BY <1>1, Invariance, PTL

\* --max-open-writers holds for every input: WriterPool evicts before it opens.
THEOREM PoolIsBounded == Spec => []OpenFilesBounded
  <1>1. IInv => OpenFilesBounded
    BY DEF IInv, ReadingInv
  <1> QED
    BY <1>1, Invariance, PTL

\* The new manifest is in place only when every file it describes is, in every state
\* of the commit, of a rollback and after a kill (commit_split_bundle_with).
THEOREM ManifestComesLast == Spec => []ManifestIsLast
  <1>1. IInv => ManifestIsLast
    <2> SUFFICES ASSUME IInv, disk[target[Manifest]].kind = "manifest", NEW f \in Used
                 PROVE  disk[target[f]] = Records(staged[f])
      BY DEF ManifestIsLast
    <2>1. target[Manifest] \in Paths
      BY SplitAssumption DEF IInv, ReadingInv, Outputs
    <2>2. at > Len(entries)
      BY <2>1, PathOfEntry DEF IInv, ContentInv, AtInv
    <2>3. entries # <<>>
      BY <2>2 DEF IInv, AtInv, EntriesInv
    <2>4. PICK i \in 1..(Len(entries) - 1) : entries[i] = f
      BY <2>3 DEF IInv, EntriesInv
    <2>5. i \in DOMAIN entries /\ i # Len(entries)
      <3>1. Len(entries) \in Nat /\ DOMAIN entries = 1..Len(entries)
        BY PathOfEntry DEF IInv
      <3>2. ASSUME NEW n \in Nat, NEW k \in 1..(n - 1)
            PROVE  k \in 1..n /\ k # n
        OBVIOUS
      <3>3. i \in 1..Len(entries) /\ i # Len(entries)
        BY <3>1, <3>2
      <3> QED
        BY <3>1, <3>3
    <2>6. f # Manifest
      BY <2>3, <2>4, <2>5 DEF IInv, EntriesInv
    <2> QED
      BY <2>2, <2>4, <2>5, <2>6 DEF IInv, ContentInv, Content
  <1> QED
    BY <1>1, Invariance, PTL

\* Until the bundle is whole, the previous content of a destination is there or in
\* its backup, whatever fails and wherever the process is killed.
THEOREM NothingIsLost == Spec => []NoOutputLost
  <1>1. IInv => NoOutputLost
    BY DEF IInv, PreviousInv, NoOutputLost
  <1> QED
    BY <1>1, Invariance, PTL

\* A split that fails has put back every destination that it does not name in its
\* error (rollback_split_bundle).
THEOREM FailureIsUndone == Spec => []FailureRestores
  <1>1. IInv => FailureRestores
    BY DEF IInv, PreviousInv, StagedInv, FailureRestores
  <1> QED
    BY <1>1, Invariance, PTL

-----------------------------------------------------------------------------
(* Every record reaches the file of its source.                            *)

\* What the writer of f holds back of it in the pool p: b.
Buffered(p, f, b) ==
    \/ \E i \in 1..Len(p) : p[i].file = f /\ p[i].buffer = b
    \/ (\A i \in 1..Len(p) : p[i].file # f) /\ b = <<>>

\* h holds the records of the first n whose source has the file f, in order.
Holds(h, n, f) ==
    /\ h \in Seq(Nat) /\ InOrder(h)
    /\ \A r : (\E i \in 1..Len(h) : h[i] = r) <=> r \in 1..n /\ names[input[r]] = f

\* What was read is in the staged file or in the pool, and sources do not share a file.
RecordsInv ==
    /\ DOMAIN names = {input[i] : i \in 1..(next - 1)}
    /\ \A s, t \in DOMAIN names : names[s] = names[t] => s = t
    /\ \A f \in Files :
          /\ staged[f] \in Seq(Nat) /\ (f \notin opened => staged[f] = <<>>)
          /\ \A b \in Seq(Nat) : Buffered(pool, f, b) => Holds(staged[f] \o b, next - 1, f)
    /\ pc \in {"prepare", "commit", "rollback", "done"} => next > Len(input) /\ pool = <<>>

LEMMA InitRecords ==
    ASSUME Init
    PROVE  RecordsInv
  <1>1. names = <<>> /\ next = 1 /\ pool = <<>> /\ \A f \in Files : staged[f] = <<>>
    BY DEF Init
  <1>2. ASSUME NEW f \in Files, NEW b \in Seq(Nat), Buffered(pool, f, b)
        PROVE  Holds(staged[f] \o b, next - 1, f)
    <2>1. b = <<>>
      BY <1>1, <1>2 DEF Buffered
    <2>2. staged[f] \o b = <<>>
      BY <1>1, <2>1
    <2>3. <<>> \in Seq(Nat) /\ InOrder(<<>>)
      BY DEF InOrder
    <2> QED
      BY <1>1, <2>2, <2>3 DEF Holds
  <1>3. DOMAIN names = {} /\ {input[i] : i \in 1..(next - 1)} = {}
    BY <1>1
  <1>4. \A f \in Files : staged[f] \in Seq(Nat)
    <2>1. <<>> \in Seq(Nat)
      OBVIOUS
    <2> QED
      BY <1>1, <2>1
  <1>5. pc = "read"
    BY DEF Init
  <1> QED
    BY <1>1, <1>2, <1>3, <1>4, <1>5 DEF RecordsInv

\* One record more in its file.
LEMMA HoldsOneMore ==
    ASSUME NEW h, NEW n \in Nat, NEW f, Holds(h, n, f), input[n + 1] \in DOMAIN names',
           names'[input[n + 1]] = f, input' = input,
           \A r \in 1..n : names'[input[r]] = names[input[r]]
    PROVE  Holds(Append(h, n + 1), n + 1, f)'
  <1> DEFINE m == n + 1
             g == Append(h, m)
  <1>1. /\ h \in Seq(Nat) /\ Len(h) \in Nat
        /\ \A i, j \in 1..Len(h) : i < j => h[i] < h[j]
        /\ \A r : (\E i \in 1..Len(h) : h[i] = r) <=> r \in 1..n /\ names[input[r]] = f
    BY DEF Holds, InOrder
  <1>2. /\ g \in Seq(Nat) /\ Len(g) = Len(h) + 1 /\ g[Len(h) + 1] = m
        /\ \A i \in 1..Len(h) : g[i] = h[i]
    BY <1>1
  <1> HIDE DEF g
  <1>3. \A i \in 1..Len(g) : i \in 1..Len(h) \/ i = Len(h) + 1
    BY <1>1, <1>2
  <1>4. InOrder(g)
    <2> SUFFICES ASSUME NEW i \in 1..Len(g), NEW j \in 1..Len(g), i < j
                 PROVE  g[i] < g[j]
      BY <1>2 DEF InOrder
    <2>1. i \in 1..Len(h)
      BY <1>1, <1>2
    <2>2. CASE j \in 1..Len(h)
      BY <1>1, <1>2, <2>1, <2>2
    <2>3. CASE j = Len(h) + 1
      <3>1. h[i] \in 1..n
        BY <1>1, <2>1
      <3> QED
        BY <1>2, <2>1, <2>3, <3>1
    <2> QED
      BY <1>3, <2>2, <2>3
  <1>5. ASSUME NEW r
        PROVE  (\E i \in 1..Len(g) : g[i] = r) <=> r \in 1..m /\ names'[input[r]] = f
    <2>1. (\E i \in 1..Len(g) : g[i] = r) <=> (\E i \in 1..Len(h) : h[i] = r) \/ r = m
      <3>1. Len(h) + 1 \in 1..Len(g) /\ \A i \in 1..Len(h) : i \in 1..Len(g)
        BY <1>1, <1>2
      <3> QED
        BY <1>2, <1>3, <3>1
    <2>2. r \in 1..m <=> r \in 1..n \/ r = m
      OBVIOUS
    <2> QED
      BY <1>1, <2>1, <2>2
  <1>6. Holds(g, m, f)'
    BY <1>2, <1>4, <1>5 DEF Holds, InOrder
  <1> QED
    BY <1>6 DEF g

LEMMA PoolIs ==
    ASSUME ReadingInv
    PROVE  /\ Len(pool) \in Nat /\ DOMAIN pool = 1..Len(pool) /\ MaxOpen \in Nat \ {0}
           /\ DistinctFiles(pool)
           /\ \A i \in 1..Len(pool) : pool[i].file \in opened /\ pool[i].buffer \in Seq(Nat)
  <1>1. pool \in Seq(Writer(opened))
    BY DEF ReadingInv, Writer
  <1>2. \A i \in 1..Len(pool) : pool[i] \in Writer(opened)
    BY <1>1
  <1>3. Len(pool) \in Nat /\ DOMAIN pool = 1..Len(pool)
    BY <1>1
  <1>4. DistinctFiles(pool)
    BY <1>3 DEF ReadingInv, OpenFilesBounded, DistinctFiles
  <1>5. \A i \in 1..Len(pool) : pool[i].file \in opened /\ pool[i].buffer \in Seq(Nat)
    BY <1>2, Zenon DEF Writer
  <1> QED
    BY <1>3, <1>4, <1>5, SplitAssumption

LEMMA Sequences ==
    ASSUME NEW a \in Seq(Nat), NEW b \in Seq(Nat), NEW r \in Nat
    PROVE  /\ a \o b \in Seq(Nat) /\ a \o <<>> = a
           /\ a \o Append(b, r) = Append(a \o b, r)
           /\ (a \o b) \o <<>> = a \o b
           /\ a \o <<r>> = Append(a \o <<>>, r)
  OBVIOUS

\* A writer takes the record, and another may be flushed for it: together with what its
\* writer holds back, a file gets this record or nothing.
Gains(f, rec, g) ==
    \A c \in Seq(Nat) : Buffered(pool', g, c) =>
        \E b \in Seq(Nat) :
            /\ Buffered(pool, g, b)
            /\ staged'[g] \o c = IF g = f THEN Append(staged[g] \o b, rec) ELSE staged[g] \o b

LEMMA ResidentGains ==
    ASSUME ReadingInv, RecordsInv, NEW f \in Files, NEW rec \in Nat, WriteLine(f, rec),
           Resident(f), NEW g \in Files
    PROVE  Gains(f, rec, g) /\ staged'[g] = staged[g] /\ opened' = opened
  <1> DEFINE k == CHOOSE j \in DOMAIN pool : pool[j].file = f
             w == [file |-> f, buffer |-> Append(pool[k].buffer, rec)]
             rest == RemoveAt(pool, k)
             from(i) == IF i < k THEN i ELSE i + 1
  <1>1. k \in 1..Len(pool) /\ pool[k].file = f /\ pool[k].buffer \in Seq(Nat)
    <2>1. \E j \in DOMAIN pool : pool[j].file = f
      BY DEF Resident
    <2> QED
      BY <2>1, PoolIs
  <1>2. pool' = Append(rest, w) /\ opened' = opened /\ staged' = staged
    BY DEF WriteLine
  <1> HIDE DEF k
  <1>3. /\ rest \in Seq(Writer(opened)) /\ Len(rest) = Len(pool) - 1
        /\ \A i \in 1..Len(rest) : rest[i] = pool[from(i)]
    <2>1. pool \in Seq(Writer(opened))
      BY DEF ReadingInv, Writer
    <2> QED
      BY <1>1, <2>1, RemoveAtIsSeq
  <1>4. w.file = f /\ w.buffer = Append(pool[k].buffer, rec)
    OBVIOUS
  <1> HIDE DEF rest, w
  <1>5. /\ Len(pool') = Len(pool) /\ Len(pool) \in Nat
        /\ \A i \in 1..Len(rest) : pool'[i] = pool[from(i)]
        /\ pool'[Len(pool)] = w
        /\ \A i \in 1..Len(pool) : i \in 1..Len(rest) \/ i = Len(pool)
    BY <1>1, <1>2, <1>3, PoolIs
  <1>6. \A i \in 1..Len(rest) : from(i) \in 1..Len(pool) /\ from(i) # k
    BY <1>1, <1>3, <1>5
  <1>7. \A j \in 1..Len(pool) : j # k => \E i \in 1..Len(rest) : from(i) = j
    <2> SUFFICES ASSUME NEW j \in 1..Len(pool), j # k
                 PROVE  \E i \in 1..Len(rest) : from(i) = j
      OBVIOUS
    <2>1. CASE j < k
      BY <1>1, <1>3, <1>5, <2>1
    <2>2. CASE j > k
      <3>1. j - 1 \in 1..Len(rest) /\ from(j - 1) = j
        BY <1>1, <1>3, <1>5, <2>2
      <3> QED
        BY <3>1
    <2> QED
      BY <1>1, <1>5, <2>1, <2>2
  <1> HIDE DEF from
  <1>8. \A i \in 1..Len(rest) : pool[from(i)].file # f
    BY <1>1, <1>6, PoolIs DEF DistinctFiles
  <1>9. ASSUME NEW c \in Seq(Nat), Buffered(pool', g, c), g = f
        PROVE  \E b \in Seq(Nat) :
                   Buffered(pool, g, b) /\ staged'[g] \o c = Append(staged[g] \o b, rec)
    <2>1. Len(pool) \in 1..Len(pool') /\ pool'[Len(pool)].file = f
      BY <1>1, <1>4, <1>5
    <2>2. PICK i \in 1..Len(pool') : pool'[i].file = f /\ pool'[i].buffer = c
      BY <1>9, <2>1 DEF Buffered
    <2>3. i = Len(pool)
      BY <1>5, <1>8, <2>2
    <2>4. c = Append(pool[k].buffer, rec)
      BY <1>4, <1>5, <2>2, <2>3
    <2>5. Buffered(pool, g, pool[k].buffer)
      BY <1>1, <1>9 DEF Buffered
    <2>6. staged[g] \in Seq(Nat)
      BY DEF RecordsInv
    <2>7. staged[g] \o c = Append(staged[g] \o pool[k].buffer, rec)
      BY <1>1, <2>4, <2>6, Sequences
    <2> QED
      BY <1>1, <1>2, <2>5, <2>7
  <1>10. ASSUME NEW c \in Seq(Nat), Buffered(pool', g, c), g # f
         PROVE  Buffered(pool, g, c)
    <2>1. CASE \E i \in 1..Len(pool') : pool'[i].file = g /\ pool'[i].buffer = c
      <3>1. PICK i \in 1..Len(pool') : pool'[i].file = g /\ pool'[i].buffer = c
        BY <2>1
      <3>2. i \in 1..Len(rest)
        BY <1>4, <1>5, <1>10, <3>1
      <3> QED
        BY <1>5, <1>6, <3>1, <3>2 DEF Buffered
    <2>2. CASE (\A i \in 1..Len(pool') : pool'[i].file # g) /\ c = <<>>
      <3>1. ASSUME NEW j \in 1..Len(pool), pool[j].file = g PROVE FALSE
        <4>1. PICK i \in 1..Len(rest) : from(i) = j
          BY <1>1, <1>7, <1>10, <3>1
        <4>2. i \in 1..Len(pool') /\ pool'[i].file = g
          <5>1. i \in 1..Len(pool')
            BY <1>3, <1>5
          <5>2. pool'[i] = pool[from(i)]
            BY <1>5
          <5> QED
            BY <3>1, <4>1, <5>1, <5>2
        <4> QED
          BY <2>2, <4>2
      <3> QED
        BY <2>2, <3>1 DEF Buffered
    <2> QED
      BY <1>10, <2>1, <2>2 DEF Buffered
  <1>11. Gains(f, rec, g)
    BY <1>2, <1>9, <1>10 DEF Gains
  <1> QED
    BY <1>2, <1>11

LEMMA TailIs ==
    ASSUME NEW W, NEW s \in Seq(W), s # <<>>
    PROVE  /\ Tail(s) \in Seq(W) /\ Len(Tail(s)) = Len(s) - 1 /\ Tail(s) # s
           /\ \A i \in 1..(Len(s) - 1) : Tail(s)[i] = s[i + 1]
           /\ Head(s) = s[1] /\ Len(s) \in Nat \ {0} /\ 1 \in 1..Len(s)
  <1> DEFINE t == Tail(s)
             n == Len(s)
  <1>1. /\ t \in Seq(W) /\ Len(t) = n - 1 /\ n \in Nat
        /\ \A i \in 1..(n - 1) : t[i] = s[i + 1]
    OBVIOUS
  <1>2. n # 0 /\ Head(s) = s[1]
    OBVIOUS
  <1> HIDE DEF t, n
  <1>3. Len(t) # n
    BY <1>1
  <1>4. t # s
    BY <1>3 DEF n
  <1>5. n \in Nat \ {0} /\ 1 \in 1..n
    BY <1>1, <1>2
  <1> QED
    BY <1>1, <1>2, <1>4, <1>5 DEF t, n

LEMMA OneLess ==
    ASSUME NEW n \in Nat \ {0}, NEW m, m = n - 1
    PROVE  /\ \A i \in 1..m : i \in 1..n /\ i + 1 \in 1..n /\ i + 1 # 1 /\ i # n
           /\ \A i \in 1..n : i \in 1..m \/ i = n
           /\ \A i \in 1..n : i # 1 => i - 1 \in 1..m /\ (i - 1) + 1 = i
           /\ n \in 1..n /\ 1 \in 1..n /\ m + 1 = n
  OBVIOUS

LEMMA OpenedGains ==
    ASSUME ReadingInv, RecordsInv, NEW f \in Files, NEW rec \in Nat, WriteLine(f, rec),
           ~Resident(f), NEW g \in Files
    PROVE  /\ Gains(f, rec, g) /\ staged'[g] \in Seq(Nat)
           /\ opened' = opened \union {f}
           /\ g \notin opened' => staged'[g] = <<>>
  <1> DEFINE w == [file |-> f, buffer |-> <<rec>>]
             full == Len(pool) >= MaxOpen
  <1>1. /\ Len(pool) \in Nat /\ DOMAIN pool = 1..Len(pool) /\ MaxOpen \in Nat \ {0}
        /\ DistinctFiles(pool)
        /\ \A i \in 1..Len(pool) : pool[i].file \in opened /\ pool[i].buffer \in Seq(Nat)
    BY PoolIs
  <1>2. pool \in Seq(Writer(opened))
    BY DEF ReadingInv, Writer
  <1>3. /\ pool' = Append(Evict, w) /\ opened' = opened \union {f}
        /\ staged' = [h \in Files |->
                IF h = f /\ f \notin opened THEN <<>>
                ELSE IF Evict # pool /\ h = Head(pool).file
                     THEN staged[h] \o Head(pool).buffer ELSE staged[h]]
    BY DEF WriteLine
  <1>4. w.file = f /\ w.buffer = <<rec>>
    OBVIOUS
  <1> HIDE DEF w
  <1>5. \A i \in 1..Len(pool) : pool[i].file # f
    BY <1>1 DEF Resident
  <1>6. staged[g] \in Seq(Nat) /\ (g \notin opened => staged[g] = <<>>)
    BY DEF RecordsInv
  <1>7. CASE full
    <2>1. /\ Evict \in Seq(Writer(opened)) /\ Len(Evict) = Len(pool) - 1 /\ Evict # pool
          /\ \A i \in 1..Len(Evict) : Evict[i] = pool[i + 1]
          /\ Head(pool) = pool[1] /\ 1 \in 1..Len(pool) /\ Len(pool) \in Nat \ {0}
      <3>1. Evict = Tail(pool) /\ pool # <<>>
        BY <1>1, <1>7 DEF Evict
      <3>2. /\ Tail(pool) \in Seq(Writer(opened)) /\ Len(Tail(pool)) = Len(pool) - 1
            /\ Tail(pool) # pool
            /\ \A i \in 1..(Len(pool) - 1) : Tail(pool)[i] = pool[i + 1]
            /\ Head(pool) = pool[1] /\ 1 \in 1..Len(pool) /\ Len(pool) \in Nat \ {0}
        BY <1>2, <3>1, TailIs
      <3> QED
        BY <3>1, <3>2
    <2>2. /\ Len(pool') = Len(pool) /\ pool'[Len(pool)] = w
          /\ \A i \in 1..Len(Evict) : pool'[i] = pool[i + 1] /\ i + 1 \in 1..Len(pool)
          /\ \A i \in 1..Len(pool) : i \in 1..Len(Evict) \/ i = Len(pool)
      <3>1. /\ Len(pool') = Len(Evict) + 1 /\ pool'[Len(Evict) + 1] = w
            /\ \A i \in 1..Len(Evict) : pool'[i] = Evict[i]
        BY <1>3, <2>1
      <3>2. Len(Evict) + 1 = Len(pool)
        BY <2>1, OneLess
      <3>3. /\ \A i \in 1..Len(Evict) : i + 1 \in 1..Len(pool)
            /\ \A i \in 1..Len(pool) : i \in 1..Len(Evict) \/ i = Len(pool)
        BY <2>1, OneLess
      <3> QED
        BY <2>1, <3>1, <3>2, <3>3
    <2>3. \A i \in 1..Len(Evict) : i \in 1..Len(pool') /\ pool'[i].file # pool[1].file
      <3> SUFFICES ASSUME NEW i \in 1..Len(Evict)
                   PROVE  i \in 1..Len(pool') /\ pool'[i].file # pool[1].file
        OBVIOUS
      <3>1. i \in 1..Len(pool') /\ i + 1 # 1
        BY <2>1, <2>2, OneLess
      <3>2. i + 1 \in 1..Len(pool) /\ pool'[i] = pool[i + 1]
        BY <2>2
      <3>3. pool[i + 1].file # pool[1].file
        BY <1>1, <2>1, <3>1, <3>2 DEF DistinctFiles
      <3> QED
        BY <3>1, <3>2, <3>3
    <2>4. CASE g = f
      <3>1. staged'[g] = staged[g]
        BY <1>3, <1>5, <1>6, <2>1, <2>4
      <3>2. ASSUME NEW c \in Seq(Nat), Buffered(pool', g, c) PROVE c = <<rec>>
        <4>1. Len(pool) \in 1..Len(pool') /\ pool'[Len(pool)].file = f
          <5>1. Len(pool) \in 1..Len(pool')
            BY <2>1, <2>2, OneLess
          <5> QED
            BY <1>4, <2>2, <5>1
        <4>2. PICK i \in 1..Len(pool') : pool'[i].file = f /\ pool'[i].buffer = c
          BY <2>4, <3>2, <4>1 DEF Buffered
        <4>3. i = Len(pool)
          BY <1>5, <2>2, <4>2
        <4> QED
          BY <1>4, <2>2, <4>2, <4>3
      <3>3. Buffered(pool, g, <<>>) /\ <<>> \in Seq(Nat)
        BY <1>5, <2>4 DEF Buffered
      <3>4. staged[g] \o <<rec>> = Append(staged[g] \o <<>>, rec)
        BY <1>6, <3>3, Sequences
      <3>5. Gains(f, rec, g)
        BY <2>4, <3>1, <3>2, <3>3, <3>4 DEF Gains
      <3> QED
        BY <1>3, <1>6, <2>4, <3>1, <3>5
    <2>5. CASE g # f /\ g = pool[1].file
      <3>1. staged'[g] = staged[g] \o pool[1].buffer
        BY <1>3, <2>1, <2>5
      <3>2. \A i \in 1..Len(pool') : pool'[i].file # g
        BY <1>4, <2>2, <2>3, <2>5
      <3>3. \A c : Buffered(pool', g, c) => c = <<>>
        BY <3>2 DEF Buffered
      <3>4. Buffered(pool, g, pool[1].buffer) /\ pool[1].buffer \in Seq(Nat)
        BY <1>1, <2>1, <2>5 DEF Buffered
      <3>5. /\ (staged[g] \o pool[1].buffer) \o <<>> = staged[g] \o pool[1].buffer
            /\ staged[g] \o pool[1].buffer \in Seq(Nat)
        BY <1>6, <3>4, Sequences
      <3>6. Gains(f, rec, g)
        BY <2>5, <3>1, <3>3, <3>4, <3>5 DEF Gains
      <3> QED
        BY <1>1, <1>3, <2>1, <2>5, <3>1, <3>5, <3>6
    <2>6. CASE g # f /\ g # pool[1].file
      <3>1. staged'[g] = staged[g]
        BY <1>3, <2>1, <2>6
      <3>2. ASSUME NEW c, Buffered(pool', g, c) PROVE Buffered(pool, g, c)
        <4>1. CASE \E i \in 1..Len(pool') : pool'[i].file = g /\ pool'[i].buffer = c
          <5>1. PICK i \in 1..Len(pool') : pool'[i].file = g /\ pool'[i].buffer = c
            BY <4>1
          <5>2. i \in 1..Len(Evict)
            BY <1>4, <2>2, <2>6, <5>1
          <5> QED
            BY <2>2, <5>1, <5>2 DEF Buffered
        <4>2. CASE (\A i \in 1..Len(pool') : pool'[i].file # g) /\ c = <<>>
          <5>1. ASSUME NEW j \in 1..Len(pool), pool[j].file = g PROVE FALSE
            <6>1. j # 1
              BY <2>6, <5>1
            <6>2. j - 1 \in 1..Len(Evict) /\ (j - 1) + 1 = j
              BY <2>1, <6>1, OneLess
            <6>3. pool'[j - 1] = pool[j] /\ j - 1 \in 1..Len(pool')
              BY <2>2, <2>3, <6>2
            <6> QED
              BY <4>2, <5>1, <6>3
          <5> QED
            BY <4>2, <5>1 DEF Buffered
        <4> QED
          BY <3>2, <4>1, <4>2 DEF Buffered
      <3>3. Gains(f, rec, g)
        BY <2>6, <3>1, <3>2 DEF Gains
      <3> QED
        BY <1>3, <1>6, <3>1, <3>3
    <2> QED
      BY <2>4, <2>5, <2>6
  <1>8. CASE ~full
    <2>1. Evict = pool
      BY <1>8 DEF Evict
    <2>2. /\ Len(pool') = Len(pool) + 1 /\ pool'[Len(pool) + 1] = w
          /\ \A i \in 1..Len(pool) : pool'[i] = pool[i] /\ i \in 1..Len(pool')
          /\ \A i \in 1..Len(pool') : i \in 1..Len(pool) \/ i = Len(pool) + 1
          /\ Len(pool) + 1 \in 1..Len(pool')
      BY <1>1, <1>2, <1>3, <2>1
    <2>3. staged'[g] = staged[g]
      BY <1>3, <1>6, <2>1
    <2>4. CASE g = f
      <3>1. ASSUME NEW c \in Seq(Nat), Buffered(pool', g, c) PROVE c = <<rec>>
        <4>1. PICK i \in 1..Len(pool') : pool'[i].file = f /\ pool'[i].buffer = c
          BY <1>4, <2>2, <2>4, <3>1 DEF Buffered
        <4>2. i = Len(pool) + 1
          BY <1>5, <2>2, <4>1
        <4> QED
          BY <1>4, <2>2, <4>1, <4>2
      <3>2. Buffered(pool, g, <<>>) /\ <<>> \in Seq(Nat)
        BY <1>5, <2>4 DEF Buffered
      <3>3. staged[g] \o <<rec>> = Append(staged[g] \o <<>>, rec)
        BY <1>6, <3>2, Sequences
      <3> QED
        BY <1>3, <1>6, <2>3, <2>4, <3>1, <3>2, <3>3 DEF Gains
    <2>5. CASE g # f
      <3>1. ASSUME NEW c, Buffered(pool', g, c) PROVE Buffered(pool, g, c)
        <4>1. CASE \E i \in 1..Len(pool') : pool'[i].file = g /\ pool'[i].buffer = c
          BY <1>4, <2>2, <2>5, <4>1 DEF Buffered
        <4>2. CASE (\A i \in 1..Len(pool') : pool'[i].file # g) /\ c = <<>>
          BY <2>2, <4>2 DEF Buffered
        <4> QED
          BY <3>1, <4>1, <4>2 DEF Buffered
      <3>2. Gains(f, rec, g)
        BY <2>3, <2>5, <3>1 DEF Gains
      <3> QED
        BY <1>3, <1>6, <2>3, <3>2
    <2> QED
      BY <2>4, <2>5
  <1> QED
    BY <1>7, <1>8

\* The record read goes where its source goes, and no source takes the file of another.
LEMMA SplitRecordRecords ==
    ASSUME IInv, RecordsInv, SplitRecord
    PROVE  RecordsInv'
  <1> DEFINE s == input[next]
  <1>1. /\ pc = "read" /\ pc' = "read" /\ next <= Len(input) /\ next' = next + 1
        /\ input' = input /\ ReadingInv
    BY DEF SplitRecord, IInv
  <1>2. /\ input \in Seq(Sources) /\ Len(input) \in Nat /\ next \in 1..Len(input)
        /\ next \in Nat \ {0}
    BY <1>1, SplitAssumption DEF ReadingInv
  <1>3. PICK f \in FileNames(s) :
            /\ WriteLine(f, next)
            /\ names' = [t \in DOMAIN names \union {s} |-> IF t = s THEN f ELSE names[t]]
    BY DEF SplitRecord
  <1>4. f \in Files /\ s \in Sources
    BY <1>1, <1>2, <1>3, SplitAssumption DEF FileNames, ReadingInv
  <1>5. IF s \in DOMAIN names THEN f = names[s] ELSE \A t \in DOMAIN names : names[t] # f
    BY <1>3 DEF FileNames, Owned
  <1>6. /\ DOMAIN names' = DOMAIN names \union {s} /\ names'[s] = f
        /\ \A t \in DOMAIN names : names'[t] = names[t]
    BY <1>3, <1>5
  <1>7. DOMAIN names = {input[i] : i \in 1..(next - 1)}
    BY DEF RecordsInv
  <1> HIDE DEF s
  <1>8. DOMAIN names' = {input'[i] : i \in 1..(next' - 1)}
    <2>1. \A i : i \in 1..(next' - 1) <=> i \in 1..(next - 1) \/ i = next
      BY <1>1, <1>2
    <2> QED
      BY <1>1, <1>6, <1>7, <2>1 DEF s
  <1>9. \A t, u \in DOMAIN names' : names'[t] = names'[u] => t = u
    <2>1. \A t, u \in DOMAIN names : names[t] = names[u] => t = u
      BY DEF RecordsInv
    <2> QED
      BY <1>5, <1>6, <2>1
  <1>10. ASSUME NEW g \in Files
         PROVE  /\ Gains(f, next, g) /\ staged'[g] \in Seq(Nat)
                /\ g \notin opened' => staged'[g] = <<>>
    <2>1. next \in Nat /\ WriteLine(f, next)
      BY <1>2, <1>3
    <2>2. CASE Resident(f)
      BY <1>1, <1>4, <2>1, <2>2, ResidentGains DEF RecordsInv
    <2>3. CASE ~Resident(f)
      BY <1>1, <1>4, <2>1, <2>3, OpenedGains
    <2> QED
      BY <2>2, <2>3
  <1>11. ASSUME NEW g \in Files, NEW c \in Seq(Nat), Buffered(pool', g, c)
         PROVE  Holds(staged[g] \o c, next - 1, g)'
    <2>1. PICK b \in Seq(Nat) :
              /\ Buffered(pool, g, b)
              /\ staged'[g] \o c = IF g = f THEN Append(staged[g] \o b, next) ELSE staged[g] \o b
      BY <1>10, <1>11 DEF Gains
    <2>2. PICK n \in Nat : n = next - 1
      BY <1>2
    <2>3. PICK h : h = staged[g] \o b
      OBVIOUS
    <2>4. Holds(h, n, g)
      BY <2>1, <2>2, <2>3 DEF RecordsInv
    <2>5. /\ n + 1 = next /\ next' - 1 = n + 1 /\ input[n + 1] = s
          /\ \A r \in 1..n : r \in 1..(next - 1) /\ input[r] \in DOMAIN names
      BY <1>1, <1>2, <1>7, <2>2 DEF s
    <2>6. \A r \in 1..n : names'[input[r]] = names[input[r]]
      BY <1>6, <2>5
    <2>7. CASE g = f
      <3>1. Holds(Append(h, n + 1), n + 1, g)'
        BY <1>1, <1>6, <2>4, <2>5, <2>6, <2>7, HoldsOneMore
      <3>2. staged'[g] \o c = Append(h, n + 1)
        BY <2>1, <2>3, <2>5, <2>7
      <3> QED
        BY <2>5, <3>1, <3>2
    <2>8. CASE g # f
      <3>1. staged'[g] \o c = h
        BY <2>1, <2>3, <2>8
      <3>2. ASSUME NEW r
            PROVE  (\E i \in 1..Len(h) : h[i] = r) <=> r \in 1..(n + 1) /\ names'[input[r]] = g
        <4>1. (\E i \in 1..Len(h) : h[i] = r) <=> r \in 1..n /\ names[input[r]] = g
          BY <2>4 DEF Holds
        <4>2. r \in 1..(n + 1) <=> r \in 1..n \/ r = n + 1
          BY <2>2
        <4> QED
          BY <1>6, <2>5, <2>6, <2>8, <4>1, <4>2
      <3>3. h \in Seq(Nat) /\ InOrder(h)
        BY <2>4 DEF Holds
      <3>4. Holds(h, n + 1, g)'
        BY <1>1, <3>2, <3>3 DEF Holds, InOrder
      <3> QED
        BY <2>5, <3>1, <3>4
    <2> QED
      BY <2>7, <2>8
  <1> QED
    BY <1>1, <1>8, <1>9, <1>10, <1>11 DEF RecordsInv

\* What the writers held back is in the files.
LEMMA FlushAllRecords ==
    ASSUME IInv, RecordsInv, FlushAll
    PROVE  RecordsInv'
  <1>1. /\ UNCHANGED <<input, next, names, opened>> /\ pool' = <<>> /\ next > Len(input)
        /\ ReadingInv /\ pc' = "prepare"
    BY DEF FlushAll, IInv
  <1>2. ASSUME NEW f \in Files
        PROVE  /\ \E b \in Seq(Nat) : Buffered(pool, f, b) /\ staged'[f] = staged[f] \o b
               /\ f \notin opened => staged'[f] = <<>>
    <2> DEFINE resident == {i \in DOMAIN pool : pool[i].file = f}
    <2>1. staged'[f] = IF resident = {} THEN staged[f]
                       ELSE staged[f] \o pool[CHOOSE i \in resident : TRUE].buffer
      BY DEF FlushAll
    <2>2. staged[f] \in Seq(Nat) /\ (f \notin opened => staged[f] = <<>>)
      BY DEF RecordsInv
    <2>3. CASE resident = {}
      <3>1. Buffered(pool, f, <<>>) /\ <<>> \in Seq(Nat)
        BY <1>1, <2>3, PoolIs DEF Buffered
      <3>2. staged[f] \o <<>> = staged[f]
        BY <2>2
      <3> QED
        BY <2>1, <2>2, <2>3, <3>1, <3>2
    <2>4. CASE resident # {}
      <3>1. PICK i \in resident : i = CHOOSE j \in resident : TRUE
        BY <2>4
      <3>2. staged'[f] = staged[f] \o pool[i].buffer
        BY <2>1, <2>4, <3>1
      <3>3. pool[i].buffer \in Seq(Nat) /\ f \in opened /\ Buffered(pool, f, pool[i].buffer)
        BY <1>1, <3>1, PoolIs DEF Buffered
      <3> QED
        BY <3>2, <3>3
    <2> QED
      BY <2>3, <2>4
  <1>3. ASSUME NEW f \in Files
        PROVE  /\ staged'[f] \in Seq(Nat)
               /\ \A c \in Seq(Nat) : Buffered(pool', f, c) =>
                      Holds(staged[f] \o c, next - 1, f)'
    <2>1. PICK b \in Seq(Nat) : Buffered(pool, f, b) /\ staged'[f] = staged[f] \o b
      BY <1>2
    <2>2. PICK h : h = staged[f] \o b
      OBVIOUS
    <2>3. Holds(h, next - 1, f)
      BY <2>1, <2>2 DEF RecordsInv
    <2>4. h \in Seq(Nat) /\ staged'[f] = h
      BY <2>1, <2>2, <2>3 DEF Holds
    <2>5. Holds(h, next - 1, f)'
      BY <1>1, <2>3 DEF Holds, InOrder
    <2>6. ASSUME NEW c, Buffered(pool', f, c) PROVE staged'[f] \o c = h
      <3>1. c = <<>>
        BY <1>1, <2>6 DEF Buffered
      <3> QED
        BY <2>4, <3>1
    <2> QED
      BY <2>4, <2>5, <2>6
  <1> QED
    BY <1>1, <1>2, <1>3 DEF RecordsInv

LEMMA RecordsKept ==
    ASSUME RecordsInv, UNCHANGED <<input, next, names, pool, opened, staged>>,
           pc' \in {"prepare", "commit", "rollback", "done"} =>
               pc = pc' \/ pc \in {"prepare", "commit", "rollback", "done"}
    PROVE  RecordsInv'
  <1>1. ASSUME NEW f \in Files, NEW b \in Seq(Nat), Buffered(pool', f, b)
        PROVE  Holds(staged[f] \o b, next - 1, f)'
    <2>1. PICK h : h = staged[f] \o b
      OBVIOUS
    <2>2. Holds(h, next - 1, f)
      BY <1>1, <2>1 DEF RecordsInv
    <2>3. Holds(h, next - 1, f)'
      BY <2>2 DEF Holds, InOrder
    <2> QED
      BY <2>1, <2>3
  <1> QED
    BY <1>1 DEF RecordsInv

LEMMA NextRecords ==
    ASSUME IInv, RecordsInv, [Next]_vars
    PROVE  RecordsInv'
  <1>1. CASE ReadFails \/ Prepare \/ BackUp \/ Install \/ CommitFails \/ Finish
    BY <1>1, RecordsKept
       DEF ReadFails, Prepare, BackUp, Install, CommitFails, Finish, reading
  <1>2. CASE RemoveNew \/ RestoreOld \/ NothingToRestore \/ RollbackFails \/ RolledBack \/ Kill
    BY <1>2, RecordsKept
       DEF RemoveNew, RestoreOld, NothingToRestore, RollbackFails, RolledBack, Kill, reading
  <1>3. CASE UNCHANGED vars
    BY <1>3, RecordsKept DEF vars, reading
  <1> QED
    BY <1>1, <1>2, <1>3, SplitRecordRecords, FlushAllRecords DEF Next

\* A split that reports success has put every record, once and in input order, into the
\* file of its source, through however many evictions, and the manifest describes the
\* files that are there.
THEOREM SplitCompletes == Spec => []SplitIsComplete
  <1>1. ASSUME IInv, RecordsInv, pc = "done"
        PROVE  SplitIsComplete
    <2>1. /\ ReadingInv /\ EntriesInv /\ at = Len(entries) + 1 /\ entries # <<>>
          /\ pool = <<>> /\ next > Len(input)
      BY <1>1 DEF IInv, AtInv, EntriesInv, RecordsInv
    <2>2. Len(entries) \in Nat \ {0} /\ DOMAIN entries = 1..Len(entries)
      <3>1. Len(entries) \in Nat /\ DOMAIN entries = 1..Len(entries) /\ entries \in Seq(Outputs)
        BY <2>1, PathOfEntry DEF EntriesInv
      <3>2. Len(entries) # 0
        BY <2>1, <3>1
      <3> QED
        BY <3>1, <3>2
    <2>3. \A i \in DOMAIN entries : disk[target[entries[i]]] = Content(entries[i])
      BY <1>1, <2>1, <2>2 DEF IInv, ContentInv
    <2>4. \A i \in 1..(Len(entries) - 1) : i \in DOMAIN entries
      BY <2>2
    <2>5. disk[target[Manifest]] = NewManifest
      <3>1. Len(entries) \in DOMAIN entries /\ entries[Len(entries)] = Manifest
        BY <2>1, <2>2 DEF EntriesInv
      <3> QED
        BY <2>3, <3>1 DEF Content
    <2>6. /\ next - 1 = Len(input) /\ DOMAIN input = 1..Len(input)
      <3>1. input \in Seq(Sources) /\ next \in 1..(Len(input) + 1)
        BY <2>1, SplitAssumption DEF ReadingInv
      <3> QED
        BY <2>1, <3>1
    <2>7. DOMAIN names = {input[i] : i \in DOMAIN input}
      BY <1>1, <2>6 DEF RecordsInv
    <2>8. ASSUME NEW s \in DOMAIN names
          PROVE  HoldsRecordsOf(disk[target[names[s]]], s)
      <3> DEFINE f == names[s]
                 h == staged[f]
      <3>1. f \in Files /\ f \in Used /\ f # Manifest
        BY <2>1, SplitAssumption DEF ReadingInv, Used
      <3>2. disk[target[f]] = Records(h)
        <4>1. PICK i \in 1..(Len(entries) - 1) : entries[i] = f
          BY <2>1, <3>1 DEF EntriesInv
        <4> QED
          BY <2>3, <2>4, <3>1, <4>1 DEF Content
      <3>3. Buffered(pool, f, <<>>) /\ <<>> \in Seq(Nat)
        BY <2>1 DEF Buffered
      <3>4. h \in Seq(Nat) /\ Holds(h \o <<>>, next - 1, f)
        BY <1>1, <3>1, <3>3 DEF RecordsInv
      <3>5. Holds(h, Len(input), f)
        BY <2>6, <3>4
      <3>6. \A r \in 1..Len(input) : names[input[r]] = f <=> input[r] = s
        BY <1>1, <2>6, <2>7 DEF RecordsInv
      <3> HIDE DEF f, h
      <3>7. {h[i] : i \in DOMAIN h} = {r \in DOMAIN input : input[r] = s}
        <4>1. DOMAIN h = 1..Len(h)
          BY <3>4
        <4>2. \A r : (\E i \in 1..Len(h) : h[i] = r) <=> r \in 1..Len(input) /\ input[r] = s
          BY <3>5, <3>6 DEF Holds
        <4> QED
          BY <2>6, <4>1, <4>2
      <3>8. /\ disk[target[f]].kind = "records" /\ disk[target[f]].data = h /\ InOrder(h)
        BY <3>2, <3>5 DEF Records, Holds
      <3>9. HoldsRecordsOf(disk[target[f]], s)
        BY <3>7, <3>8 DEF HoldsRecordsOf
      <3> QED
        BY <3>9 DEF f
    <2> QED
      BY <2>5, <2>7, <2>8 DEF SplitIsComplete
  <1>2. IInv /\ RecordsInv => SplitIsComplete
    BY <1>1 DEF SplitIsComplete
  <1>3. Init => RecordsInv
    BY InitRecords
  <1>4. IInv /\ RecordsInv /\ [Next]_vars => RecordsInv'
    BY NextRecords
  <1> QED
    BY <1>2, <1>3, <1>4, Invariance, PTL DEF Spec
=============================================================================
