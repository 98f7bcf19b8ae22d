------------------------------- MODULE MCDatasets -------------------------------
(* The commands over the records of a dataset, one family in each behaviour;  *)
(* the others stay in an initial state of theirs.                             *)
EXTENDS Selection, Tuning, Relabel

Plain == [bucket |-> 1, root |-> 1, game |-> 1, ply |-> 1, sfen |-> 1, gates |-> 0,
          doubt |-> 0, eval |-> 0]

\* Selection: what a strategy's key does not read is fixed.
MCRecords ==
    [s \in Strategies |->
        CASE s = "sample" -> {[Plain EXCEPT !.sfen = n] : n \in 1..3}
          [] s = "uncertain" ->
                {[Plain EXCEPT !.sfen = n, !.gates = g] : n \in 1..2, g \in 0..1}
          [] s \in {"balance", "coverage"} ->
                {[Plain EXCEPT !.sfen = n, !.bucket = b] : n \in 1..2, b \in Buckets}
          [] s = "stratify" ->
                {[Plain EXCEPT !.root = n, !.bucket = b] : n \in Roots, b \in Buckets}
          [] s = "hard" ->
                {[Plain EXCEPT !.game = g, !.ply = p, !.eval = e] :
                    g \in Games, p \in 1..2, e \in {Unlabelled, 0, 5}}
                \union {[Plain EXCEPT !.sfen = 2, !.doubt = 1, !.eval = Mate]}]

-----------------------------------------------------------------------------
(* Tuning.                                                                 *)

Answer(engine, depth, cp, move) ==
    [engine |-> engine, depth |-> depth, requested |-> {depth}, mate |-> FALSE, cp |-> cp,
     frame |-> "side", exact |-> TRUE, margin |-> {}, move |-> move, special |-> FALSE,
     salvaged |-> FALSE]
Position(obs) ==
    [phase |-> "opening", black |-> TRUE, inCheck |-> FALSE, hasCapture |-> FALSE,
     obs |-> obs]

\* Two depths that agree, with a wide margin.
Sound == Position(<<Answer("a", 2, 10, "x"),
                    [Answer("a", 4, 30, "x") EXCEPT !.margin = {90}]>>)
\* Two that do not, White to move, a middling margin, a wide swing.
Torn ==
    [Position(<<[Answer("a", 4, 10, "x") EXCEPT !.margin = {60}], Answer("a", 2, 60, "y")>>)
        EXCEPT !.black = FALSE, !.phase = "endgame"]
\* As Torn with a small margin, and the teacher's depth reached by two observations.
Weak ==
    Position(<<Answer("a", 2, 0, "y"), [Answer("a", 4, 15, "x") EXCEPT !.margin = {20}],
               [Answer("a", 4, 15, "y") EXCEPT !.requested = {6}, !.exact = FALSE]>>)
\* Two engines that differ; one resigns.
Engines ==
    [Position(<<Answer("a", 4, 40, "x"), Answer("b", 4, -40, "y"),
                [Answer("b", 2, 0, "-") EXCEPT !.special = TRUE], Answer("a", 2, 40, "x")>>)
        EXCEPT !.hasCapture = TRUE]
\* A salvaged mate short of its depth, and a legacy observation in Black's frame.
Mated ==
    [Position(<<[Answer("a", 3, 0, "x") EXCEPT !.mate = TRUE, !.requested = {4},
                                               !.salvaged = TRUE],
                [Answer("a", 2, -70, "x") EXCEPT !.requested = {}, !.frame = "black"]>>)
        EXCEPT !.black = FALSE, !.inCheck = TRUE]
\* Short of its depth, in the frame of Black.
Short ==
    [Position(<<[Answer("a", 2, -20, "x") EXCEPT !.requested = {4}, !.frame = "black"]>>)
        EXCEPT !.black = FALSE]
Bare == Position(<<>>)

MCLabelled == {Sound, Torn, Weak, Engines, Mated, Short, Bare}

Lenient ==
    [minObservations |-> 0, phases |-> {}, noMate |-> FALSE, noCheck |-> FALSE,
     noCapture |-> FALSE, noSalvaged |-> FALSE, evalMin |-> {}, evalMax |-> {},
     maxSwing |-> {}, minMargin |-> {}, exact |-> FALSE, needMargin |-> FALSE,
     minDepth |-> {}, reachRequested |-> FALSE, allowSalvagedMate |-> FALSE, agree |-> FALSE,
     enginesAgree |-> FALSE, maxEngineSwing |-> {}]
MCBases ==
    {Lenient,
     [Lenient EXCEPT !.minObservations = 1, !.reachRequested = TRUE, !.evalMin = {-30},
                     !.evalMax = {50}],
     [Lenient EXCEPT !.phases = {{"opening"}}, !.noMate = TRUE, !.exact = TRUE,
                     !.enginesAgree = TRUE, !.maxEngineSwing = {50}]}

MCAxes ==
    {[margins |-> <<{0}, {50}, {80}>>, swings |-> <<{}>>, sweepMargin |-> TRUE,
      sweepSwing |-> FALSE],
     [margins |-> <<{50}>>, swings |-> <<{70}, {20}>>, sweepMargin |-> FALSE,
      sweepSwing |-> TRUE],
     [margins |-> <<{80}, {30}>>, swings |-> <<{30}, {60}>>, sweepMargin |-> TRUE,
      sweepSwing |-> TRUE]}

-----------------------------------------------------------------------------
(* Relabel.                                                                *)

Given(engine, depth, weight, cp) ==
    [engine |-> engine, depth |-> depth, request |-> 1, weight |-> weight, mate |-> FALSE,
     cp |-> cp]
Located(occurrence, obs) ==
    [occurrence |-> occurrence, black |-> TRUE, result |-> "black", stable |-> TRUE,
     obs |-> obs]

MCPositions ==
    {Located("x", <<Given("a", 2, "v", 100)>>),
     Located("x", <<Given("a", 2, "w", -100), Given("b", 2, "v", 5)>>),
     Located("x", <<[Given("a", 2, "v", -30) EXCEPT !.request = 2],
                    Given("a", 2, "v", 30), Given("a", 2, "w", 100)>>),
     [Located("y", <<>>) EXCEPT !.stable = FALSE],
     [Located("y", <<Given("a", 4, "v", 100), [Given("b", 2, "v", 0) EXCEPT !.mate = TRUE]>>)
        EXCEPT !.black = FALSE],
     [Located("y", <<Given("a", 2, "v", 100)>>) EXCEPT !.result = "white"],
     [Located("z", <<Given("b", 4, "v", 100)>>) EXCEPT !.result = "draw"]}

-----------------------------------------------------------------------------
VARIABLE family    \* "selection", "tuning" or "relabel"

SelectionIdle == strategy = "sample" /\ quotas = [b \in Buckets |-> 0] /\ Init
TuningIdle ==
    /\ lines = <<>> /\ TuneInit
    /\ args = [base |-> CHOOSE b \in Bases : TRUE, axes |-> CHOOSE a \in Axes : TRUE]
RelabelIdle == policy = "keep-both" /\ primary = <<>> /\ secondary = <<>> /\ RelabelInit

DatasetsInit ==
    \/ family = "selection" /\ Init /\ TuningIdle /\ RelabelIdle
    \/ family = "tuning" /\ SelectionIdle /\ TuneInit /\ RelabelIdle
    \/ family = "relabel" /\ SelectionIdle /\ TuningIdle /\ RelabelInit

DatasetsNext ==
    \/ family = "selection" /\ Next /\ UNCHANGED <<family, tuneVars, relabelVars>>
    \/ family = "tuning" /\ TuneNext /\ UNCHANGED <<family, vars, relabelVars>>
    \/ family = "relabel" /\ RelabelNext /\ UNCHANGED <<family, vars, tuneVars>>

DatasetsSpec == DatasetsInit /\ [][DatasetsNext]_<<family, vars, tuneVars, relabelVars>>
=============================================================================
