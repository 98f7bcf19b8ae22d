----------------------------- MODULE MCTransport -----------------------------
EXTENDS Transport

MCMagic == <<4, 3, 2, 1, 0, 1, 2, 4>>

\* Equal hashes of different values would show as a failure of SummaryMatchesDecoded.
MCHash(value) ==
    FoldLeft(LAMBDA n, s : FoldLeft(LAMBDA m, b : (m * 31 + b + 1) % 46337, n * 37 + 5, s),
             7, value)

Long(n) == [i \in 1..n |-> 2]

Plain ==
    [schema_version |-> SchemaVersion, sfen |-> <<1>>, kind |-> <<0>>, path |-> <<3>>,
     ply |-> 7, root_id |-> <<>>, variation_id |-> <<>>, branch_from_ply |-> <<>>,
     phase |-> "opening", side_to_move |-> "black", in_check |-> FALSE,
     has_capture |-> FALSE, stability |-> <<>>, game_result |-> <<>>, observations |-> <<>>]

Candidate ==
    [multipv |-> 1, bestmove |-> <<1, 2>>, score_kind |-> "cp", score |-> -1,
     score_bound |-> "upperbound", pv |-> <<<< <<3>>, <<>> >>>>]

Observation ==
    [engine |-> <<2>>, engine_version |-> <<<<1, 1>>>>, depth |-> 4,
     requested_depth |-> <<5>>, search_limit_kind |-> "nodes", requested_nodes |-> <<1000>>,
     score_kind |-> "mate", score |-> -648, score_perspective |-> "black",
     score_bound |-> "lowerbound", bestmove |-> <<4>>, bestmove_kind |-> "no_move",
     nodes |-> <<1679615>>, time_ms |-> <<36>>, seldepth |-> <<1295>>, nps |-> <<0>>,
     hashfull |-> <<6>>, pv |-> <<<<>>>>, policy_margin_cp |-> <<647>>,
     candidates |-> <<Candidate>>, was_timeout_salvaged |-> TRUE,
     engine_options_hash |-> <<<<3>>>>, weight_sha256 |-> <<<<0, 4>>>>]

Bare ==
    [Observation EXCEPT !.engine_version = <<>>, !.requested_depth = <<>>,
        !.requested_nodes = <<>>, !.nodes = <<>>, !.time_ms = <<>>, !.seldepth = <<>>,
        !.nps = <<>>, !.hashfull = <<>>, !.pv = <<>>, !.policy_margin_cp = <<>>,
        !.candidates = <<>>, !.engine_options_hash = <<>>, !.weight_sha256 = <<>>]

Full ==
    [Plain EXCEPT !.root_id = <<<<3, 3>>>>, !.variation_id = <<<<1>>>>,
        !.branch_from_ply = <<6>>, !.phase = "endgame", !.side_to_move = "white",
        !.in_check = TRUE,
        !.stability = <<[score_swing_cp |-> <<-300>>, bestmove_agreement |-> TRUE,
                         engine_bestmove_agreement |-> <<FALSE>>,
                         engine_score_swing_cp |-> <<0>>]>>,
        !.game_result = <<[outcome |-> "unknown", result_source |-> <<2>>]>>,
        !.observations = <<Observation>>]

With(o) == [Plain EXCEPT !.observations = <<o>>]

\* Lengths at and past the limits of their prefixes: 5 and 35 bytes.
EdgeRecords ==
    {[Plain EXCEPT !.sfen = Long(n)] : n \in {0, 35, 36}}
    \union {[Plain EXCEPT !.path = Long(n)] : n \in {35, 36}}
    \union {[Plain EXCEPT !.root_id = <<Long(n)>>] : n \in {35, 36}}
    \union {[Plain EXCEPT !.kind = Long(n)] : n \in {5, 6}}
    \union {[Plain EXCEPT !.variation_id = <<Long(n)>>] : n \in {5, 6}}
    \union {[Plain EXCEPT !.game_result = <<[outcome |-> "draw", result_source |-> Long(n)]>>] :
                n \in {5, 6}}
    \union {[Plain EXCEPT !.observations = [i \in 1..n |-> Bare]] : n \in {2, 36}}
    \union {With([Bare EXCEPT !.engine = Long(n)]) : n \in {5, 6}}
    \union {With([Bare EXCEPT !.engine_version = <<Long(6)>>]),
            With([Bare EXCEPT !.bestmove = Long(6)]),
            With([Bare EXCEPT !.pv = <<[i \in 1..36 |-> <<>>]>>]),
            With([Bare EXCEPT !.pv = <<<<Long(5), Long(6)>>>>]),
            With([Bare EXCEPT !.candidates = [i \in 1..36 |-> Candidate]]),
            With([Bare EXCEPT !.candidates = <<Candidate, [Candidate EXCEPT !.pv = <<>>]>>]),
            With([Bare EXCEPT !.candidates = <<[Candidate EXCEPT !.bestmove = Long(6)]>>]),
            With([Bare EXCEPT !.candidates = <<[Candidate EXCEPT !.pv = <<<<Long(6)>>>>]>>]),
            With([Bare EXCEPT !.candidates =
                    <<[Candidate EXCEPT !.pv = <<[i \in 1..36 |-> <<>>]>>]>>]),
            With([Bare EXCEPT !.engine_options_hash = <<Long(6)>>]),
            With([Bare EXCEPT !.weight_sha256 = <<Long(6)>>])}

\* Every tag, and the limits at which the histograms change.
ValueRecords ==
    {[Plain EXCEPT !.schema_version = v] : v \in {MinSchema}}
    \union {[Plain EXCEPT !.phase = "middlegame", !.has_capture = TRUE, !.ply = 1295]}
    \union {[Full EXCEPT !.game_result[1].outcome = w] :
                w \in {"black_wins", "white_wins", "draw"}}
    \union {With([Bare EXCEPT !.bestmove_kind = k, !.score_bound = "exact"]) :
                k \in {"move", "resign", "win"}}
    \union {With([Bare EXCEPT !.search_limit_kind = "depth", !.requested_depth = <<d>>,
                              !.depth = 3]) : d \in {0, 3, 4}}
    \union {With([Bare EXCEPT !.search_limit_kind = "nodes", !.requested_nodes = <<n>>,
                              !.nodes = m]) :
                n \in {0, 8}, m \in {<<>>, <<0>>, <<1>>, <<7>>, <<8>>, <<1048576>>}}

Line(rec) == [kind |-> "record", rec |-> rec]

\* Positions, sources and variations that repeat, more of them than a sketch holds.
Repeating ==
    {Line(Plain), Line([Plain EXCEPT !.path = <<4>>]),
     Line([Plain EXCEPT !.sfen = <<2>>, !.ply = 8]),
     Line([Plain EXCEPT !.sfen = <<4>>, !.path = <<4>>, !.root_id = <<<<3>>>>,
                        !.variation_id = <<<<1>>>>])}

Lines ==
    {Line(Plain), Line([Plain EXCEPT !.sfen = <<2>>, !.ply = 8]),
     Line([Plain EXCEPT !.kind = Long(6)])}
    \union {[kind |-> k] : k \in {"blank", "broken", "future", "unreadable"}}

Files(n, S) == [1..n -> S]

\* Packs of two records, and of one with every field.
MCDamaged ==
    {<<Line(Full)>>,
     <<Line([Plain EXCEPT !.root_id = <<<<4>>>>]), Line([Plain EXCEPT !.in_check = TRUE])>>}

MCInputs ==
    {<<>>} \union {<<Line(r)>> : r \in EdgeRecords \union ValueRecords \union {Full}}
           \union Files(3, Repeating) \union Files(2, Lines) \union MCDamaged

MCReportArgs == {<<"data.jsonl", "data.shgpk">>, <<"data.shgpk", "data.jsonl">>}
=============================================================================
