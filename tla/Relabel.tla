-------------------------------- MODULE Relabel --------------------------------
(***************************************************************************)
(* Two labelled files of the same positions: merge-observations joins the  *)
(* answers of both, dataset-diff tells what that did to the first file, and*)
(* conflict-report compares the answers with the results of the games.     *)
(*                                                                         *)
(* A record is                                                             *)
(*   occurrence (its SFEN, path and ply), black (Black is to move), result *)
(*   ("black", "white", "draw" or "none"), stable (it has a stability      *)
(*   score) and obs, a sequence of observations of                         *)
(*   engine, depth, request (version, requested depth, limit and nodes),   *)
(*   weight, mate and cp, in the frame of the side to move.                *)
(* Broken lines are skipped by load_records and left out here.             *)
(***************************************************************************)
EXTENDS Integers, Sequences, FiniteSets, SequencesExt, Functions

Answers == [engine : STRING, depth : Nat, request : Nat, weight : STRING, mate : BOOLEAN,
            cp : Int]
LabelledRecords == [occurrence : STRING, black : BOOLEAN,
                    result : {"black", "white", "draw", "none"}, stable : BOOLEAN,
                    obs : Seq(Answers)]

CONSTANTS Positions,     \* the records that a line may hold
          MaxFile,       \* bound: records of either file
          MinAbsCp       \* conflict-report --min-abs-cp

ASSUME RelabelAssumption ==
    MinAbsCp \in Nat /\ MaxFile \in Nat /\ Positions \subseteq LabelledRecords

Policies == {"keep-both", "prefer-primary", "prefer-secondary"}

VARIABLES
    phase,       \* "merge", "rest", "diff", "conflicts", "end"
    policy,
    primary, secondary,
    cursor,      \* the records of the file in hand that are done
    consumed,    \* the places of secondary that a primary record has met
    merged,      \* the output of merge-observations
    counts,      \* both, primaryOnly, secondaryOnly, collisions
    diff,        \* dataset-diff --match-by occurrence of primary and merged
    report       \* conflict-report of merged

relabelVars ==
    <<phase, policy, primary, secondary, cursor, consumed, merged, counts, diff, report>>

-----------------------------------------------------------------------------
(* merge_observations_into.                                                *)

Key(o) == <<o.engine, o.depth, o.request>>
Keys(obs) == {Key(obs[i]) : i \in DOMAIN obs}

\* retain: the answers with one of the keys, in their order.
Retain(kept, o) == IF Key(o) \in kept.keys THEN [kept EXCEPT !.obs = Append(@, o)] ELSE kept
Only(obs, keys) == FoldLeft(Retain, [keys |-> keys, obs |-> <<>>], obs).obs

Append1(acc, o) == [acc EXCEPT !.obs = Append(@, o)]

\* An answer to a question that the base has an answer to is dropped.
PreferPrimary(acc, o) ==
    IF Key(o) \in Keys(acc.obs) THEN [acc EXCEPT !.collisions = @ + 1] ELSE Append1(acc, o)

\* It replaces every answer that the base has.
PreferSecondary(acc, o) ==
    IF Key(o) \in Keys(acc.obs)
    THEN [obs |-> Append(Only(acc.obs, Keys(acc.obs) \ {Key(o)}), o),
          collisions |-> acc.collisions + 1]
    ELSE Append1(acc, o)

MergeObservationsInto(base, incoming) ==
    LET start == [obs |-> base, collisions |-> 0]
    IN  CASE policy = "keep-both"        -> [start EXCEPT !.obs = base \o incoming]
          [] policy = "prefer-primary"   -> FoldLeft(PreferPrimary, start, incoming)
          [] policy = "prefer-secondary" -> FoldLeft(PreferSecondary, start, incoming)

-----------------------------------------------------------------------------
(* merge-observations.                                                     *)

NoCounts == [both |-> 0, primaryOnly |-> 0, secondaryOnly |-> 0, collisions |-> 0]
NoDiff == [unchanged |-> 0, changed |-> 0, added |-> 0, removed |-> 0, observations |-> 0]
NoReport == [noResult |-> 0, drawn |-> 0, decisive |-> 0, noCp |-> 0, deadband |-> 0,
             evaluated |-> 0, conflicts |-> 0, groups |-> {}]

Files == UNION {[1..n -> Positions] : n \in 0..MaxFile}

RelabelInit ==
    /\ phase = "merge"
    /\ policy \in Policies
    /\ primary \in Files /\ secondary \in Files
    /\ cursor = 0 /\ consumed = {} /\ merged = <<>> /\ counts = NoCounts
    /\ diff = NoDiff /\ report = NoReport

\* secondary_by_key: of several records of one occurrence the last.
Partner(rec) ==
    LET same == {i \in DOMAIN secondary : secondary[i].occurrence = rec.occurrence}
    IN  {i \in same : \A j \in same : j <= i}

\* Mutation: the stability score outlives the answers it was made of.
WithAnswersKeepingScore(rec, obs) == [rec EXCEPT !.obs = obs]

\* A merged record has no stability score.
WithAnswers(rec, obs) == [rec EXCEPT !.obs = obs, !.stable = FALSE]

MergePrimary ==
    /\ phase = "merge" /\ cursor < Len(primary)
    /\ cursor' = cursor + 1
    /\ LET rec == primary[cursor + 1]
       IN  \/ \E i \in Partner(rec) :
                LET into == MergeObservationsInto(rec.obs, secondary[i].obs)
                IN  /\ consumed' = consumed \union {i}
                    /\ merged' = Append(merged, WithAnswers(rec, into.obs))
                    /\ counts' = [counts EXCEPT !.both = @ + 1,
                                                !.collisions = @ + into.collisions]
           \/ /\ Partner(rec) = {}
              /\ merged' = Append(merged, rec)
              /\ counts' = [counts EXCEPT !.primaryOnly = @ + 1]
              /\ UNCHANGED consumed
    /\ UNCHANGED <<phase, policy, primary, secondary, diff, report>>

PrimaryRead ==
    /\ phase = "merge" /\ cursor = Len(primary)
    /\ phase' = "rest" /\ cursor' = 0
    /\ UNCHANGED <<policy, primary, secondary, consumed, merged, counts, diff, report>>

\* What no primary record has met follows in the order of its file.
MergeRest ==
    /\ phase = "rest" /\ cursor < Len(secondary)
    /\ cursor' = cursor + 1
    /\ IF cursor + 1 \in consumed THEN UNCHANGED <<merged, counts>>
       ELSE /\ merged' = Append(merged, secondary[cursor + 1])
            /\ counts' = [counts EXCEPT !.secondaryOnly = @ + 1]
    /\ UNCHANGED <<phase, policy, primary, secondary, consumed, diff, report>>

MergeCommit ==
    /\ phase = "rest" /\ cursor = Len(secondary)
    /\ phase' = "diff" /\ cursor' = 0
    /\ UNCHANGED <<policy, primary, secondary, consumed, merged, counts, diff, report>>

-----------------------------------------------------------------------------
(* dataset-diff.                                                           *)

\* Mutation: equal records of a file are one.
TimesOnce(file, rec) == IF rec \in Range(file) THEN 1 ELSE 0

\* records_by_serialized_form: how often a file has a record.
Times(file, rec) == Cardinality({i \in DOMAIN file : file[i] = rec})
Total(numbers) == FoldFunction(+, 0, numbers)
SumOver(S, f(_)) == Total([x \in S |-> f(x)])
Observations(file) == Total([i \in DOMAIN file |-> Len(file[i].obs)])
Less(m, n) == IF m < n THEN m ELSE n

\* Equal records of one occurrence cancel; what is left of either side is paired as
\* changed, and the rest of the longer side is added or removed.
Diff(a, b) ==
    LET all == Range(a) \union Range(b)
        occurrences == {rec.occurrence : rec \in all}
        Group(o) == {rec \in all : rec.occurrence = o}
        Unchanged(o) == SumOver(Group(o), LAMBDA rec : Less(Times(a, rec), Times(b, rec)))
        Left(file, o) == SumOver(Group(o), LAMBDA rec : Times(file, rec)) - Unchanged(o)
        Changed(o) == Less(Left(a, o), Left(b, o))
    IN  [unchanged |-> SumOver(occurrences, Unchanged),
         changed   |-> SumOver(occurrences, Changed),
         removed   |-> SumOver(occurrences, LAMBDA o : Left(a, o) - Changed(o)),
         added     |-> SumOver(occurrences, LAMBDA o : Left(b, o) - Changed(o)),
         observations |-> Observations(b) - Observations(a)]

DatasetDiff ==
    /\ phase = "diff"
    /\ phase' = "conflicts"
    /\ diff' = Diff(primary, merged)
    /\ UNCHANGED <<policy, primary, secondary, cursor, consumed, merged, counts, report>>

-----------------------------------------------------------------------------
(* conflict-report.                                                        *)

\* deepest_by_engine: at equal depth the first.
DeepestOf(obs) ==
    {i \in DOMAIN obs : \A j \in DOMAIN obs :
        obs[j].engine = obs[i].engine =>
            obs[j].depth < obs[i].depth \/ (obs[j].depth = obs[i].depth /\ i <= j)}

\* Mutation: the score of the side to move is taken for Black's.
BlackScoreUnturned(rec, o) == o.cp

BlackScore(rec, o) == IF rec.black THEN o.cp ELSE -o.cp

InDeadband(rec, o) == BlackScore(rec, o) \in (-MinAbsCp)..MinAbsCp
Conflict(rec, o) == IF rec.result = "black" THEN BlackScore(rec, o) < 0
                                            ELSE BlackScore(rec, o) > 0

\* The groups are a set of <<engine, weight, evaluated, conflicts>>, a vote is
\* <<engine, weight, whether it conflicts>>.
InGroup(vote, groups) ==
    LET old == {g \in groups : g[1] = vote[1] /\ g[2] = vote[2]}
        more == IF vote[3] THEN 1 ELSE 0
    IN  (groups \ old)
        \union (IF old = {} THEN {<<vote[1], vote[2], 1, more>>}
                ELSE {<<vote[1], vote[2], g[3] + 1, g[4] + more>> : g \in old})

\* The answers of one decisive record: each engine's deepest is counted once.
Decided(r, rec) ==
    LET votes == DeepestOf(rec.obs)
        scored == {i \in votes : ~rec.obs[i].mate}
        judged == {i \in scored : ~InDeadband(rec, rec.obs[i])}
        against == {i \in judged : Conflict(rec, rec.obs[i])}
        vote == [i \in judged |->
                    <<rec.obs[i].engine, rec.obs[i].weight, i \in against>>]
    IN  [r EXCEPT !.decisive = @ + 1,
                  !.noCp = @ + (IF votes = {} THEN 1 ELSE Cardinality(votes \ scored)),
                  !.deadband = @ + Cardinality(scored \ judged),
                  !.evaluated = @ + Cardinality(judged),
                  !.conflicts = @ + Cardinality(against),
                  !.groups = FoldFunction(InGroup, @, vote)]

Judged(r, rec) ==
    CASE rec.result = "none" -> [r EXCEPT !.noResult = @ + 1]
      [] rec.result = "draw" -> [r EXCEPT !.drawn = @ + 1]
      [] OTHER -> Decided(r, rec)

ConflictLine ==
    /\ phase = "conflicts" /\ cursor < Len(merged)
    /\ cursor' = cursor + 1
    /\ report' = Judged(report, merged[cursor + 1])
    /\ UNCHANGED <<phase, policy, primary, secondary, consumed, merged, counts, diff>>

ConflictEnd ==
    /\ phase = "conflicts" /\ cursor = Len(merged)
    /\ phase' = "end"
    /\ UNCHANGED <<policy, primary, secondary, cursor, consumed, merged, counts, diff, report>>

RelabelNext == \/ MergePrimary \/ PrimaryRead \/ MergeRest \/ MergeCommit
               \/ DatasetDiff \/ ConflictLine \/ ConflictEnd
               \/ phase = "end" /\ UNCHANGED relabelVars

RelabelSpec == RelabelInit /\ [][RelabelNext]_relabelVars

-----------------------------------------------------------------------------
(* Properties.                                                             *)

\* What is left of the answers of the base and of the other file to one question.
Outlasts(base, other) ==
    CASE policy = "keep-both" -> base \o other
      [] policy = "prefer-primary" -> IF base = <<>> THEN SubSeq(other, 1, 1) ELSE base
      [] policy = "prefer-secondary" -> IF other = <<>> THEN base ELSE <<Last(other)>>

\* merge-observations loses no record and no answered question (ingest.rs:662): every
\* primary record comes out in its place, every secondary record is merged or comes
\* out itself; every question that either file answers is answered: by all answers of
\* both in order, or by all of the primary's if it is preferred or alone, or by one of
\* the secondary's (main.rs:220).  A stability score is of the answers it stands by
\* (ingest.rs:697).
RecordsSurvive ==
    phase = "diff" =>
        /\ \A n \in DOMAIN primary :
               LET p == primary[n].obs
                   m == merged[n].obs
                   s == {secondary[i].obs : i \in Partner(primary[n])}
               IN  /\ merged[n].occurrence = primary[n].occurrence
                   /\ merged[n].stable => primary[n].stable /\ m = p
                   /\ s = {} => merged[n] = primary[n]
                   /\ \A t \in s :
                        /\ Keys(m) = Keys(p) \union Keys(t)
                        /\ policy = "keep-both" => m = p \o t
                        /\ \A k \in Keys(m) :
                               Only(m, {k}) = Outlasts(Only(p, {k}), Only(t, {k}))
        /\ \A i \in DOMAIN secondary :
               \/ \E n \in DOMAIN primary : i \in Partner(primary[n])
               \/ \E n \in Len(primary) + 1..Len(merged) : merged[n] = secondary[i]
        /\ Len(merged) = counts.both + counts.primaryOnly + counts.secondaryOnly

\* dataset-diff of the first file and the merge sees a merge: no record is removed,
\* as many are added as merge-observations says came from the second file alone, a
\* record that it did not touch is unchanged.  The other way round the diff is the
\* mirror image, and the order of lines means nothing to it (diagnostics.rs:167).
DiffSeesTheMerge ==
    phase = "conflicts" /\ cursor = 0 =>
        LET back == Diff(merged, primary)
        IN  /\ diff.removed = 0 /\ diff.added = counts.secondaryOnly
            /\ diff.unchanged + diff.changed = Len(primary)
            /\ diff.changed <= counts.both
            /\ policy = "keep-both" => diff.observations >= 0
            /\ back.unchanged = diff.unchanged /\ back.changed = diff.changed
            /\ back.added = diff.removed /\ back.removed = diff.added
            /\ Diff(Reverse(primary), merged) = diff

\* merge-observations loses nothing, and dataset-diff says so.
MergeLosesNothing == RecordsSurvive /\ DiffSeesTheMerge

\* The game with its colors exchanged.
Mirrored(rec) ==
    [rec EXCEPT !.black = ~@,
                !.result = CASE @ = "black" -> "white" [] @ = "white" -> "black" [] OTHER -> @]

JudgedMirrored(r, rec) == Judged(r, Mirrored(rec))

\* The engine/weight pairs that have a score to set against the result of the game.
ScoredPairs(rec) ==
    IF rec.result \notin {"black", "white"} THEN {}
    ELSE {<<rec.obs[i].engine, rec.obs[i].weight>> : i \in {i \in DOMAIN rec.obs : ~rec.obs[i].mate}}

\* Scores that were set against a result, those too small to tell included.
Voted == report.evaluated + report.deadband

\* Every line is in one count, a decisive one leaves a trace in the counts of answers, no
\* pair has two votes on a record, and the groups add up to the totals
\* (diagnostics.rs:758).  The report does not see colors: a file of the same games with
\* sides exchanged has the same conflicts (diagnostics.rs:802).
ConflictsAddUp ==
    phase = "end" =>
        /\ Len(merged) = report.noResult + report.drawn + report.decisive
        /\ report.decisive <= report.noCp + Voted
        /\ Voted <= Total([i \in DOMAIN merged |-> Cardinality(ScoredPairs(merged[i]))])
        /\ report.evaluated = Total([g \in report.groups |-> g[3]])
        /\ report.conflicts = Total([g \in report.groups |-> g[4]])
        /\ FoldLeft(JudgedMirrored, NoReport, merged) = report

\* "Compare each record's decisive game result with the deepest CP observation from each
\* engine/weight pair" (diagnostics.rs:749).  deepest_by_engine keeps one observation of
\* an engine, whatever its weight, and a mate if that is the deepest: of two weights of
\* one engine one is not compared, nor is a score below a mate.
EachPairIsCompared ==
    phase = "end" =>
        Voted = Total([i \in DOMAIN merged |-> Cardinality(ScoredPairs(merged[i]))])
=============================================================================
