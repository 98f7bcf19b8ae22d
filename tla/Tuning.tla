-------------------------------- MODULE Tuning --------------------------------
(***************************************************************************)
(* tune, calibrate, filter --preset and audit over one file of labelled    *)
(* records.  tune evaluates a grid of gate thresholds in one pass and      *)
(* writes up to three named configurations; calibrate sweeps each axis     *)
(* alone over the same lines; filter reads the file again with one of the  *)
(* configurations, and audit compares teacher and student in what filter   *)
(* kept.  The four commands share the gates of Quality and nothing else:   *)
(* what one prints is a promise the next one has to keep.                  *)
(*                                                                         *)
(* f64 is the rational it stands for: fractions are compared by their cross*)
(* products, and the distances of pick_balanced by their squares.          *)
(***************************************************************************)
EXTENDS Quality, SequencesExt, Folds

CONSTANTS Labelled,         \* the records that a line may hold
          Broken,          \* a line that is no record
          Bases,           \* the gates that the commands hold fixed
          Axes,            \* margins and swings: the thresholds of either axis, each an
                           \* Option, and which of the two is swept
          Teacher, Students,
          MaxLines         \* bound: lines of the file

IsOption(values) == \A m, n \in values : m = n

ASSUME TuningAssumption ==
    /\ Broken \notin Labelled /\ MaxLines \in Nat
    /\ Labelled \subseteq PositionRecords
    /\ Bases \subseteq QualityConfigs
    /\ \A a \in Axes : /\ a.margins \in Seq(SUBSET Int) /\ a.swings \in Seq(SUBSET Nat)
                       /\ a.margins # <<>> /\ a.swings # <<>>
                       /\ a.sweepMargin \in BOOLEAN /\ a.sweepSwing \in BOOLEAN
                       /\ \A i \in DOMAIN a.margins : IsOption(a.margins[i])
                       /\ \A i \in DOMAIN a.swings : IsOption(a.swings[i])
    /\ IsFiniteSet(Students)

VARIABLES
    stage,     \* "tune", "report", "filter", "audit", "done"
    args,      \* what the commands were called with
    lines,     \* the file
    at,        \* lines read in this pass
    cells,     \* tune: the coverage and audit of each place in the grid
    rows,      \* calibrate: the coverage of each swept value
    preset,    \* --preset-out: label -> candidate
    wanted,    \* the label given to filter
    filtered,  \* filter: total, passed, skipped, reasons, manifest
    kept,      \* filter: the lines of its output
    audited    \* audit's overall statistics

tuneVars == <<stage, args, lines, at, cells, rows, preset, wanted, filtered, kept, audited>>

-----------------------------------------------------------------------------
(* The grid.                                                               *)

\* tune's nested loops, the swing in the inner one: a cell is a pair of places, and
\* Place(n) the n-th of the loops.
Grid == (DOMAIN args.axes.margins) \X (DOMAIN args.axes.swings)
At(k) == [margin |-> args.axes.margins[k[1]], swing |-> args.axes.swings[k[2]]]
GridSize == Len(args.axes.margins) * Len(args.axes.swings)
Place(n) ==
    LET width == Len(args.axes.swings)
    IN  <<((n - 1) \div width) + 1, ((n - 1) % width) + 1>>

\* Mutation: a preset says what was swept and forgets what was held.
ConfigOfSwept(base, t) ==
    [f \in DOMAIN base |->
        CASE f = "minMargin" -> t.margin [] f = "maxSwing" -> t.swing
          [] f = "minObservations" -> 0 [] OTHER -> base[f]]

\* The base with both thresholds of a cell.
Config(base, t) == [base EXCEPT !.minMargin = t.margin, !.maxSwing = t.swing]

\* What write_tune_preset builds again from the cell it picked.
CandidateConfig(base, t) == Config(base, t)

\* calibrate: one row for each value of a swept axis, the other axis as held.
Held(values, swept) == IF swept THEN {} ELSE values[1]
Rows(a) ==
    (IF a.sweepMargin
     THEN [i \in DOMAIN a.margins |->
              [margin |-> a.margins[i], swing |-> Held(a.swings, a.sweepSwing)]]
     ELSE <<>>)
    \o (IF a.sweepSwing
        THEN [i \in DOMAIN a.swings |->
                 [margin |-> Held(a.margins, a.sweepMargin), swing |-> a.swings[i]]]
        ELSE <<>>)

-----------------------------------------------------------------------------
(* CoverageTally and AuditStats.                                           *)

NoCoverage == [total |-> 0, kept |-> 0, dropped |-> 0, reasons |-> [r \in Reasons |-> 0]]

\* CoverageTally::record: only the first reason counts.
Tallied(t, rec, c) ==
    IF Keeps(rec, c)
    THEN [t EXCEPT !.total = @ + 1, !.kept = @ + 1]
    ELSE [t EXCEPT !.total = @ + 1, !.dropped = @ + 1, !.reasons[FirstReason(rec, c)] = @ + 1]

NoAudit == [pairs |-> 0, mismatches |-> 0, errorSum |-> 0, errorCount |-> 0, errorMax |-> 0,
            nonExact |-> <<0, 0>>, underreach |-> <<0, 0>>, special |-> <<0, 0>>]

\* AuditStats::record of every pair of a record; pairs <<teacher, student>>.
Audited(a, pairs) ==
    LET errors == {p \in pairs : ScoreError(p) # {}}
        Error(p) == Min(ScoreError(p))
        Both(count, P(_)) ==
            <<count[1] + Cardinality({p \in pairs : P(p.t)}),
              count[2] + Cardinality({p \in pairs : P(p.s)})>>
    IN  [pairs      |-> a.pairs + Cardinality(pairs),
         mismatches |-> a.mismatches + Cardinality({p \in pairs : ~Match(p)}),
         errorSum   |-> a.errorSum + MapThenSumSet(Error, errors),
         errorCount |-> a.errorCount + Cardinality(errors),
         errorMax   |-> Max({a.errorMax} \union {Error(p) : p \in errors}),
         nonExact   |-> Both(a.nonExact, LAMBDA o : ~o.exact),
         underreach |-> Both(a.underreach, Underreached),
         special    |-> Both(a.special, LAMBDA o : o.special)]

-----------------------------------------------------------------------------
(* The Pareto frontier and its three candidates.                           *)

Kept(g, i) == g[i].coverage.kept
Pairs(g, i) == g[i].audit.pairs
Mismatches(g, i) == g[i].audit.mismatches

\* mismatch_rate of i against that of j; every cell has the same total, so that
\* coverage_fraction orders as kept does.
LessMismatch(g, i, j) == Mismatches(g, i) * Pairs(g, j) < Mismatches(g, j) * Pairs(g, i)
SameMismatch(g, i, j) == Mismatches(g, i) * Pairs(g, j) = Mismatches(g, j) * Pairs(g, i)

\* No worse on either axis and better on one.
Dominates(g, i, j) ==
    /\ Kept(g, i) >= Kept(g, j) /\ ~LessMismatch(g, j, i)
    /\ Kept(g, i) > Kept(g, j) \/ LessMismatch(g, i, j)

\* pareto_frontier_indices: cells without a pair are left out.
Frontier(g) ==
    LET candidates == {i \in DOMAIN g : Pairs(g, i) > 0}
    IN  {i \in candidates : \A j \in candidates : ~Dominates(g, j, i)}

\* lexicographic_key, an inactive axis first.
OptionLess(x, y) == \/ x = {} /\ y # {}
                    \/ \E m \in x, n \in y : m < n
KeyLess(s, t) == \/ OptionLess(s.margin, t.margin)
                 \/ s.margin = t.margin /\ OptionLess(s.swing, t.swing)

\* The loops of the three picks over a nonempty frontier, in the order of the grid: a
\* candidate replaces the best so far, an Option, if it is better.
BestOf(frontier, better) ==
    LET best[n \in 0..GridSize] ==
            IF n = 0 THEN {}
            ELSE IF Place(n) \in frontier /\ \A i \in best[n - 1] : <<Place(n), i>> \in better
                 THEN {Place(n)} ELSE best[n - 1]
    IN  best[GridSize]
Pick(frontier, Better(_, _)) ==
    CHOOSE i \in BestOf(frontier, {p \in frontier \X frontier : Better(p[1], p[2])}) : TRUE

\* Mutation: equal cells are not told apart by their thresholds.
FirstInGrid(g, i, j) == FALSE

\* The last criterion of every pick.
TieBreak(g, i, j) == KeyLess(g[i].at, g[j].at)

Broad(g) == Pick(Frontier(g), LAMBDA i, j :
    \/ Kept(g, i) > Kept(g, j)
    \/ Kept(g, i) = Kept(g, j) /\ LessMismatch(g, i, j)
    \/ Kept(g, i) = Kept(g, j) /\ SameMismatch(g, i, j) /\ TieBreak(g, i, j))

Strict(g) == Pick(Frontier(g), LAMBDA i, j :
    \/ LessMismatch(g, i, j)
    \/ SameMismatch(g, i, j) /\ Kept(g, i) > Kept(g, j)
    \/ SameMismatch(g, i, j) /\ Kept(g, i) = Kept(g, j) /\ TieBreak(g, i, j))

\* The square of the distance from the ideal corner with both axes normalized to
\* the frontier's own range, times the squares of both ranges; an axis without a
\* range adds the same to every cell.  Mismatch rates are over one denominator.
Distance(g, i) ==
    LET on == Frontier(g)
        denominator == ProductSet({Pairs(g, j) : j \in on})
        Rate(j) == Mismatches(g, j) * (denominator \div Pairs(g, j))
        most == Max({Kept(g, j) : j \in on})
        least == Min({Rate(j) : j \in on})
        width(values) == Max({1, Max(values) - Min(values)})
        keptWidth == width({Kept(g, j) : j \in on})
        rateWidth == width({Rate(j) : j \in on})
        far == (most - Kept(g, i)) * rateWidth
        wrong == (Rate(i) - least) * keptWidth
    IN  far * far + wrong * wrong

Balanced(g) == Pick(Frontier(g), LAMBDA i, j :
    \/ Distance(g, i) < Distance(g, j)
    \/ Distance(g, i) = Distance(g, j) /\ TieBreak(g, i, j))

\* write_tune_preset: every label resolves, or none if there is no frontier.
Preset(g, base) ==
    LET Candidate(i) ==
            [config |-> CandidateConfig(base, g[i].at), cell |-> i,
             kept |-> Kept(g, i), pairs |-> Pairs(g, i), mismatches |-> Mismatches(g, i)]
    IN  IF Frontier(g) = {} THEN <<>>
        ELSE [broad |-> Candidate(Broad(g)), balanced |-> Candidate(Balanced(g)),
              strict |-> Candidate(Strict(g))]

-----------------------------------------------------------------------------
(* The commands.                                                           *)

NoFilter == [total |-> 0, passed |-> 0, skipped |-> 0,
             reasons |-> [r \in Reasons \union {"parse_error"} |-> 0],
             labelled |-> 0, asked |-> 0, underreach |-> 0]

TuneInit ==
    /\ stage = "tune"
    /\ \E base \in Bases, a \in Axes : args = [base |-> base, axes |-> a]
    /\ lines \in UNION {[1..n -> Labelled \union {Broken}] : n \in 0..MaxLines}
    /\ at = 0
    /\ cells = [k \in Grid |-> [at |-> At(k), coverage |-> NoCoverage, audit |-> NoAudit]]
    /\ rows = [k \in DOMAIN Rows(args.axes) |-> NoCoverage]
    /\ preset = <<>> /\ wanted = "" /\ filtered = NoFilter /\ kept = <<>>
    /\ audited = NoAudit

\* One line of tune's pass, and of calibrate's over the same file; a broken line
\* is in no total.  The audit of a cell is over what the cell keeps.
TuneLine ==
    /\ stage = "tune" /\ at < Len(lines)
    /\ at' = at + 1
    /\ LET rec == lines[at + 1]
       IN  IF rec = Broken THEN UNCHANGED <<cells, rows>>
           ELSE /\ cells' = [k \in Grid |->
                       LET c == Config(args.base, At(k))
                       IN  [cells[k] EXCEPT
                              !.coverage = Tallied(@, rec, c),
                              !.audit = IF Keeps(rec, c)
                                        THEN Audited(@, AuditPairs(rec, Teacher, Students))
                                        ELSE @]]
                /\ rows' = [k \in DOMAIN rows |->
                       Tallied(rows[k], rec, Config(args.base, Rows(args.axes)[k]))]
    /\ UNCHANGED <<stage, args, lines, preset, wanted, filtered, kept, audited>>

\* The CSV, the report and the preset are written at the end of the file.
TuneWrite ==
    /\ stage = "tune" /\ at = Len(lines)
    /\ stage' = "report" /\ at' = 0
    /\ preset' = Preset(cells, args.base)
    /\ UNCHANGED <<args, lines, cells, rows, wanted, filtered, kept, audited>>

\* filter --preset FILE.json:label; a label that is not in the file ends it.
FilterStart ==
    /\ stage = "report"
    /\ wanted' \in {"broad", "balanced", "strict"}
    /\ stage' = IF wanted' \in DOMAIN preset THEN "filter" ELSE "done"
    /\ UNCHANGED <<args, lines, at, cells, rows, preset, filtered, kept, audited>>

FilterConfig == preset[wanted].config

\* permissive_position_record's count and filter's own reason for a broken line.
SkipBroken(f) ==
    [f EXCEPT !.total = @ + 1, !.skipped = @ + 1, !.reasons["parse_error"] = @ + 1]

\* accumulate_coverage over the kept records.
Passed(f, rec) ==
    LET asked == {i \in DOMAIN rec.obs : rec.obs[i].requested # {}}
    IN  [f EXCEPT !.total = @ + 1, !.passed = @ + 1,
                  !.labelled = @ + (IF rec.obs = <<>> THEN 0 ELSE 1),
                  !.asked = @ + Cardinality(asked),
                  !.underreach = @ + Cardinality({i \in asked : Underreached(rec.obs[i])})]

Dropped(f, reason) ==
    [f EXCEPT !.total = @ + 1, !.skipped = @ + 1, !.reasons[reason] = @ + 1]

FilterLine ==
    /\ stage = "filter" /\ at < Len(lines)
    /\ at' = at + 1
    /\ LET rec == lines[at + 1]
       IN  \/ rec = Broken /\ filtered' = SkipBroken(filtered) /\ UNCHANGED kept
           \/ /\ rec # Broken /\ Keeps(rec, FilterConfig)
              /\ filtered' = Passed(filtered, rec) /\ kept' = Append(kept, rec)
           \/ /\ rec # Broken /\ ~Keeps(rec, FilterConfig)
              /\ filtered' = Dropped(filtered, FirstReason(rec, FilterConfig))
              /\ UNCHANGED kept
    /\ UNCHANGED <<stage, args, lines, cells, rows, preset, wanted, audited>>

FilterCommit ==
    /\ stage = "filter" /\ at = Len(lines)
    /\ stage' = "audit" /\ at' = 0
    /\ UNCHANGED <<args, lines, cells, rows, preset, wanted, filtered, kept, audited>>

\* One record of what filter wrote.
AuditLine ==
    /\ stage = "audit" /\ at < Len(kept)
    /\ at' = at + 1
    /\ audited' = Audited(audited, AuditPairs(kept[at + 1], Teacher, Students))
    /\ UNCHANGED <<stage, args, lines, cells, rows, preset, wanted, filtered, kept>>

AuditCommit ==
    /\ stage = "audit" /\ at = Len(kept)
    /\ stage' = "done"
    /\ UNCHANGED <<args, lines, at, cells, rows, preset, wanted, filtered, kept, audited>>

TuneNext == \/ TuneLine \/ TuneWrite \/ FilterStart \/ FilterLine \/ FilterCommit
            \/ AuditLine \/ AuditCommit
            \/ stage = "done" /\ UNCHANGED tuneVars

TuneSpec == TuneInit /\ [][TuneNext]_tuneVars

-----------------------------------------------------------------------------
(* Properties.                                                             *)

\* The four commands say the same of one file.  filter --preset does what tune
\* promised of the candidate (quality.rs:1170): it passes as many records, drops
\* the others for the same reasons, a broken line for its own, and audit of its
\* output has every number of the cell.  If the held gates ask for the requested
\* depth, the manifest of that output counts no observation short of it.  Where one
\* axis is swept, calibrate reports tune's coverage (quality.rs:1281).
CommandsAgree ==
    stage = "done" =>
        /\ args.axes.sweepMargin # args.axes.sweepSwing =>
               rows = [n \in DOMAIN rows |->
                          cells[IF args.axes.sweepMargin THEN <<n, 1>> ELSE <<1, n>>].coverage]
        /\ preset # <<>> =>
               LET cell == cells[preset[wanted].cell]
                   broken == Cardinality({i \in DOMAIN lines : lines[i] = Broken})
               IN  /\ filtered.passed = preset[wanted].kept /\ filtered.passed = Len(kept)
                   /\ filtered.skipped = cell.coverage.dropped + broken
                   /\ filtered.total = Len(lines)
                   /\ \A r \in Reasons : filtered.reasons[r] = cell.coverage.reasons[r]
                   /\ filtered.reasons["parse_error"] = broken
                   /\ audited = cell.audit
                   /\ args.base.reachRequested => filtered.underreach = 0

Reversed(g) ==
    [k \in Grid |-> g[<<Len(args.axes.margins) + 1 - k[1], Len(args.axes.swings) + 1 - k[2]>>]]

\* Every candidate is the best of its kind among all cells with a comparison, and
\* is the same whatever the order of the thresholds on the command line
\* (quality.rs:834): no cell keeps more than broad, none agrees more often than
\* strict, none is as good as one of the three on both axes and better on one, and
\* balanced keeps no more than broad and no less than strict.
CandidatesAreBest ==
    stage = "report" =>
        LET compared == {i \in DOMAIN cells : Pairs(cells, i) > 0}
            chosen == [label \in DOMAIN preset |-> preset[label].cell]
            reversed == Preset(Reversed(cells), args.base)
        IN  /\ (preset = <<>>) <=> (compared = {})
            /\ preset # <<>> =>
                 /\ \A i \in compared :
                        /\ Kept(cells, i) <= Kept(cells, chosen.broad)
                        /\ ~LessMismatch(cells, i, chosen.strict)
                        /\ \A label \in DOMAIN preset : ~Dominates(cells, i, chosen[label])
                 /\ Kept(cells, chosen.strict) <= Kept(cells, chosen.balanced)
                 /\ \A label \in DOMAIN preset :
                        reversed[label].config = preset[label].config

\* No tighter cell keeps a record that a looser one drops, at any point of the
\* pass: coverage falls along both axes of the grid.
Looser(s, t) == /\ \A m \in s.margin : \E n \in t.margin : m <= n
                /\ \A m \in s.swing : \E n \in t.swing : n <= m
TighteningNeverKeepsMore ==
    \A j, k \in Grid :
        Looser(At(j), At(k)) => Kept(cells, k) <= Kept(cells, j)

InOtherFrame(rec) ==
    [rec EXCEPT !.obs = [i \in DOMAIN rec.obs |->
        LET o == rec.obs[i]
        IN  [o EXCEPT !.frame = IF @ = "black" THEN "side" ELSE "black",
                      !.cp = IF rec.black THEN @ ELSE -@]]]
Backwards(rec) == [rec EXCEPT !.obs = Reverse(rec.obs)]
Untied(rec) == \A i, j \in DOMAIN rec.obs :
    i # j /\ rec.obs[i].engine = rec.obs[j].engine =>
        /\ rec.obs[i].depth # rec.obs[j].depth
        /\ rec.obs[i].requested # rec.obs[j].requested \/ rec.obs[i].requested = {}
Compared(rec) ==
    {<<p.student, p.t.engine, Match(p), ScoreError(p)>> :
        p \in AuditPairs(rec, Teacher, Students)}

\* What the gates and the audit say of a record depends on what its observations
\* mean, not on how they are written: not on the frame of the scores (score.rs:5,
\* quality.rs:193), and, where no engine has two answers to one question, not on
\* the order in which engines answered.
ViewsAgree ==
    stage = "tune" =>
      \A i \in {at + 1} \intersect DOMAIN lines : lines[i] # Broken =>
        \A other \in {InOtherFrame(lines[i])}
                     \union (IF Untied(lines[i]) THEN {Backwards(lines[i])} ELSE {}) :
            /\ Compared(other) = Compared(lines[i])
            /\ \A k \in Grid :
                   LET c == Config(args.base, At(k))
                   IN  Decision(other, c) = Decision(lines[i], c)
=============================================================================
