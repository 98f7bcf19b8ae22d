-------------------------------- MODULE Quality --------------------------------
(***************************************************************************)
(* The gates of evaluate_quality, the helpers on scores they rest on, and  *)
(* audit's pairing of a teacher's observation with a student's.            *)
(*                                                                         *)
(* An Option is a set of at most one element.  An observation is           *)
(*   engine, depth, requested (Option: requested_depth), mate, cp, frame   *)
(*   ("side" or "black", the perspective of cp), exact (its bound), margin *)
(*   (Option: policy_margin_cp), move, special (resign, win or none, as    *)
(*   recorded or as the token says), salvaged (was_timeout_salvaged)       *)
(* and a record is                                                         *)
(*   phase, black (Black is to move), inCheck, hasCapture, obs.            *)
(***************************************************************************)
EXTENDS Integers, Sequences, FiniteSets, FiniteSetsExt

ObservationRecords ==
    [engine : STRING, depth : Nat, requested : SUBSET Nat, mate : BOOLEAN, cp : Int,
     frame : {"side", "black"}, exact : BOOLEAN, margin : SUBSET Int, move : STRING,
     special : BOOLEAN, salvaged : BOOLEAN]
PositionRecords ==
    [phase : STRING, black : BOOLEAN, inCheck : BOOLEAN, hasCapture : BOOLEAN,
     obs : Seq(ObservationRecords)]

\* Mutation: every cp is taken for the side to move's.
BlackCpAlwaysFlipped(rec, o) == IF rec.black THEN o.cp ELSE -o.cp

\* cp_from_black_perspective_i64; i64 holds the negation of every i32.
BlackCp(rec, o) == IF o.frame = "black" \/ rec.black THEN o.cp ELSE -o.cp

\* score_swing_i64 over the cp scores among some observations (places in obs): the
\* largest of their differences, an i64 that holds them all.
SwingOver(obs, places) ==
    LET cps == {i \in places : ~obs[i].mate}
        differences == {obs[i].cp - obs[j].cp : i, j \in cps}
    IN  IF Cardinality(cps) < 2 THEN {}
        ELSE {d \in differences : \A e \in differences : e <= d}

\* deepest_per_engine: the places of the votes, at equal depth the first.
Deepest(obs) ==
    {i \in DOMAIN obs : \A j \in DOMAIN obs :
        obs[j].engine = obs[i].engine =>
            \/ obs[j].depth < obs[i].depth
            \/ obs[j].depth = obs[i].depth /\ i <= j}

\* ordinary_bestmove_agreement: a special token is no opinion.
Agreement(obs, places) ==
    \A i, j \in places : obs[i].special \/ obs[j].special \/ obs[i].move = obs[j].move

\* requested_depth_underreached
Underreached(o) == ~o.mate /\ \E d \in o.requested : o.depth < d

-----------------------------------------------------------------------------
(* evaluate_quality.                                                       *)

\* QualityConfig; validate_quality_config refuses what these types leave out, but for
\* eval_min above eval_max.
QualityConfigs ==
    [minObservations : Nat, phases : SUBSET SUBSET {"opening", "middlegame", "endgame"},
     noMate : BOOLEAN, noCheck : BOOLEAN, noCapture : BOOLEAN, noSalvaged : BOOLEAN,
     evalMin : SUBSET Int, evalMax : SUBSET Int, maxSwing : SUBSET Nat,
     minMargin : SUBSET Int, exact : BOOLEAN, needMargin : BOOLEAN,
     minDepth : SUBSET (Nat \ {0}), reachRequested : BOOLEAN, allowSalvagedMate : BOOLEAN,
     agree : BOOLEAN, enginesAgree : BOOLEAN, maxEngineSwing : SUBSET Nat]

Gate(reason, configured, fails) ==
    [reason |-> reason, configured |-> configured, fails |-> configured /\ fails]

\* Only margins that were computed can be too small.
MarginTooSmall(obs, c) ==
    \E i \in DOMAIN obs : \E m \in obs[i].margin, min \in c.minMargin : m < min

\* Mutation: what is too steady fails.
SwingTooWideInverted(obs, c) ==
    \E s \in SwingOver(obs, DOMAIN obs), max \in c.maxSwing : s < max

\* The swing is that of the scores as recorded, whatever their frame.
SwingTooWide(obs, c) ==
    \E s \in SwingOver(obs, DOMAIN obs), max \in c.maxSwing : s > max

\* Fell short of what was asked, or is a salvaged mate that did and is not let off.
DepthMissed(o, c) ==
    \/ Underreached(o)
    \/ ~c.allowSalvagedMate /\ o.salvaged /\ o.mate /\ \E d \in o.requested : o.depth < d

\* Every gate in the order in which reasons are reported.
Gates(rec, c) ==
    LET obs == rec.obs
        Some(P(_)) == \E i \in DOMAIN obs : P(obs[i])
    IN  << Gate("min_observations", c.minObservations > 0, Len(obs) < c.minObservations),
           Gate("phase", c.phases # {}, \E ps \in c.phases : rec.phase \notin ps),
           Gate("mate", c.noMate, Some(LAMBDA o : o.mate)),
           Gate("in_check", c.noCheck, rec.inCheck),
           Gate("capture", c.noCapture, rec.hasCapture),
           Gate("timeout_salvaged", c.noSalvaged, Some(LAMBDA o : o.salvaged)),
           Gate("eval_min", c.evalMin # {},
                Some(LAMBDA o : ~o.mate /\ \E min \in c.evalMin : BlackCp(rec, o) < min)),
           Gate("eval_max", c.evalMax # {},
                Some(LAMBDA o : ~o.mate /\ \E max \in c.evalMax : BlackCp(rec, o) > max)),
           Gate("score_swing", c.maxSwing # {}, SwingTooWide(obs, c)),
           Gate("policy_margin", c.minMargin # {}, MarginTooSmall(obs, c)),
           Gate("non_exact_score", c.exact, Some(LAMBDA o : ~o.exact)),
           Gate("missing_policy_margin", c.needMargin, \A i \in DOMAIN obs : obs[i].margin = {}),
           Gate("low_actual_depth", c.minDepth # {},
                Some(LAMBDA o : ~o.mate /\ \E d \in c.minDepth : o.depth < d)),
           Gate("requested_depth_not_reached", c.reachRequested,
                Some(LAMBDA o : DepthMissed(o, c))),
           Gate("bestmove_disagreement", c.agree, ~Agreement(obs, DOMAIN obs)),
           Gate("engine_disagreement", c.enginesAgree, ~Agreement(obs, Deepest(obs))),
           Gate("engine_score_swing", c.maxEngineSwing # {},
                \E s \in SwingOver(obs, Deepest(obs)), max \in c.maxEngineSwing : s > max) >>

Reasons == {"min_observations", "phase", "mate", "in_check", "capture", "timeout_salvaged",
            "eval_min", "eval_max", "score_swing", "policy_margin", "non_exact_score",
            "missing_policy_margin", "low_actual_depth", "requested_depth_not_reached",
            "bestmove_disagreement", "engine_disagreement", "engine_score_swing"}

GatesFailed(rec, c) == LET gates == Gates(rec, c) IN {i \in DOMAIN gates : gates[i].fails}
Keeps(rec, c) == GatesFailed(rec, c) = {}
FirstReason(rec, c) == Gates(rec, c)[Min(GatesFailed(rec, c))].reason

\* All that a QualityDecision says of a record.
Decision(rec, c) ==
    [failed |-> GatesFailed(rec, c),
     configured |-> Cardinality({i \in DOMAIN Gates(rec, c) : Gates(rec, c)[i].configured}),
     swing |-> SwingOver(rec.obs, DOMAIN rec.obs),
     agreement |-> Agreement(rec.obs, DOMAIN rec.obs),
     cps |-> Cardinality({i \in DOMAIN rec.obs : ~rec.obs[i].mate})]

-----------------------------------------------------------------------------
(* compute_audit_pairs.                                                    *)

First(places) == IF places = {} THEN {} ELSE {Min(places)}

\* find_at_depth among one engine's: what was asked for, else what was reached.
FindAtDepth(obs, engine, depth) ==
    LET own == {i \in DOMAIN obs : obs[i].engine = engine}
        asked == {i \in own : obs[i].requested = {depth}}
    IN  IF asked # {} THEN First(asked) ELSE First({i \in own : obs[i].depth = depth})

\* The comparisons of a record: one for each engine and student depth that has both;
\* the teacher is not compared with itself.
AuditPairs(rec, teacher, students) ==
    UNION {{[student |-> d, t |-> rec.obs[t], s |-> rec.obs[s], rec |-> rec] :
                t \in FindAtDepth(rec.obs, e, teacher), s \in FindAtDepth(rec.obs, e, d)} :
           e \in {rec.obs[i].engine : i \in DOMAIN rec.obs}, d \in students \ {teacher}}

\* bestmove_agreement of the two, and the error of their cp in Black's frame.
Match(p) == Agreement(<<p.t, p.s>>, {1, 2})
ScoreError(p) ==
    LET error == BlackCp(p.rec, p.t) - BlackCp(p.rec, p.s)
    IN  IF p.t.mate \/ p.s.mate THEN {} ELSE {IF error < 0 THEN -error ELSE error}
=============================================================================
