---------------------------- MODULE QualityReport ----------------------------
(***************************************************************************)
(* The accumulator of shogiesa quality-report (shogiesa-core,              *)
(* quality_report.rs).  It sees one record at a time and keeps counters,   *)
(* the source and root of the record before, and six distinct counts in    *)
(* bounded memory: a set of hashes, of which the largest makes room for a  *)
(* smaller one once SketchSize is reached.                                 *)
(*                                                                         *)
(* The counters of the summary that are keyed are one bag of keys.         *)
(***************************************************************************)
EXTENDS Integers, Sequences, SequencesExt, FiniteSets, FiniteSetsExt, Bags, TLC

CONSTANTS
    Hash(_),        \* SHA-256 of a value, a number: equal only for equal values
    SketchSize,     \* DISTINCT_SKETCH_SIZE
    DepthExact,     \* the last depth with a histogram key of its own (255)
    TopExponent     \* the exponent of the last range of nodes (63)

ASSUME QualityAssumption ==
    /\ SketchSize \in Nat \ {0}
    /\ DepthExact \in Nat /\ TopExponent \in Nat

Kinds == {"games", "roots", "variations", "split_groups", "positions", "occurrences"}

DepthBucket(depth) == IF depth <= DepthExact THEN <<depth, depth>> ELSE <<DepthExact + 1>>

\* <<lower, upper>>, or <<lower>> for the range without an end.
NodeBucket(nodes) ==
    IF nodes = 0 THEN <<0, 0>>
    ELSE LET e == CHOOSE k \in 0..TopExponent :
                    2^k <= nodes /\ (k < TopExponent => nodes < 2^(k + 1))
         IN  IF e = TopExponent THEN <<2^e>> ELSE <<2^e, 2^(e + 1) - 1>>

-----------------------------------------------------------------------------
(* Distinct counts.                                                        *)

\* Mutation: a full sketch is saturated by a value that it holds, too.
InsertSaturating(sketch, value) ==
    LET hash == Hash(value)
        largest == Max(sketch.hashes)
    IN  IF Cardinality(sketch.hashes) < SketchSize
        THEN [sketch EXCEPT !.hashes = @ \union {hash}]
        ELSE [hashes |-> IF hash < largest THEN (sketch.hashes \ {largest}) \union {hash}
                         ELSE sketch.hashes,
              saturated |-> TRUE]

Insert(sketch, value) ==
    LET hash == Hash(value)
        largest == Max(sketch.hashes)
    IN  IF hash \in sketch.hashes THEN sketch
        ELSE IF Cardinality(sketch.hashes) < SketchSize
        THEN [sketch EXCEPT !.hashes = @ \union {hash}]
        ELSE [hashes |-> IF hash < largest THEN (sketch.hashes \ {largest}) \union {hash}
                         ELSE sketch.hashes,
              saturated |-> TRUE]

\* The estimate of a saturated count is a function of the largest hash that is kept; the
\* hash stands for it.
Distinct(sketch) ==
    [exact |-> ~sketch.saturated,
     value |-> IF sketch.saturated THEN Max(sketch.hashes) ELSE Cardinality(sketch.hashes)]

-----------------------------------------------------------------------------
(* What a record adds.                                                     *)

Root(rec) == IF rec.root_id = <<>> THEN rec.path ELSE rec.root_id[1]

\* The values a record puts into each distinct count.
Seen(rec) ==
    [games |-> {<<rec.path>>},
     roots |-> {<<Root(rec)>>},
     split_groups |-> {<<Root(rec)>>},
     positions |-> {<<rec.sfen>>},
     occurrences |-> {<<rec.sfen, rec.path, <<rec.ply>>>>},
     variations |-> {<<Root(rec), rec.variation_id[i]>> : i \in DOMAIN rec.variation_id}]

RecordKeys(rec) ==
    {<<"lineage", IF rec.variation_id = <<>> THEN "mainline" ELSE "variation">>,
     <<"outcome", IF rec.game_result = <<>> THEN "unavailable" ELSE rec.game_result[1].outcome>>}

DepthKeys(o) ==
    {<<"limit", "achieved_present">>}
    \union UNION {{<<"requested_depth", DepthBucket(d)>>, <<"limit", "requested_present">>,
                   <<"limit", IF o.depth >= d THEN "reached_or_exceeded" ELSE "underreached">>} :
                        d \in Range(o.requested_depth)}

NodeKeys(o) ==
    UNION {{<<"limit", "achieved_present">>, <<"achieved_nodes", NodeBucket(n)>>} :
                n \in Range(o.nodes)}
    \union UNION {{<<"requested_nodes", NodeBucket(n)>>, <<"limit", "requested_present">>,
                   <<"limit", IF \E m \in Range(o.nodes) : m >= n
                              THEN "reached_or_exceeded" ELSE "underreached">>} :
                        n \in Range(o.requested_nodes)}

ObservationKeys(o) ==
    {<<"observations", "all">>, <<"score_kind", o.score_kind>>,
     <<"score_perspective", o.score_perspective>>,
     <<"search_limit_kind", o.search_limit_kind>>, <<"achieved_depth", DepthBucket(o.depth)>>}
    \union (IF o.search_limit_kind = "depth" THEN DepthKeys(o) ELSE NodeKeys(o))

-----------------------------------------------------------------------------
(* The builder.                                                            *)

NewBuilder ==
    [accepted |-> 0, rejections |-> EmptyBag, tallies |-> EmptyBag,
     source_sequences |-> 0, root_sequences |-> 0,
     previous_source |-> <<>>, previous_root |-> <<>>,
     sketches |-> [k \in Kinds |-> [hashes |-> {}, saturated |-> FALSE]]]

\* Mutation: the record before is remembered over the boundary of two files.
BeginShardBridging(b) == b

BeginShard(b) == [b EXCEPT !.previous_source = <<>>, !.previous_root = <<>>]

Reject(b, reason) == [b EXCEPT !.rejections = @ (+) SetToBag({reason})]

Observe(b, rec) ==
    [b EXCEPT
        !.accepted = @ + 1,
        !.source_sequences = @ + (IF b.previous_source = <<rec.path>> THEN 0 ELSE 1),
        !.root_sequences = @ + (IF b.previous_root = <<Root(rec)>> THEN 0 ELSE 1),
        !.previous_source = <<rec.path>>,
        !.previous_root = <<Root(rec)>>,
        !.sketches = [k \in Kinds |-> FoldSet(LAMBDA v, sketch : Insert(sketch, v), @[k],
                                              Seen(rec)[k])],
        !.tallies = FoldLeft(LAMBDA bag, o : bag (+) SetToBag(ObservationKeys(o)),
                             @ (+) SetToBag(RecordKeys(rec)), rec.observations)]

Duplicates(b, kind) ==
    LET d == Distinct(b.sketches[kind])
    IN  IF d.exact THEN <<b.accepted - d.value>> ELSE <<>>

Finish(b) ==
    [accepted |-> b.accepted, rejections |-> b.rejections, tallies |-> b.tallies,
     source_sequences |-> b.source_sequences, root_sequences |-> b.root_sequences,
     distinct |-> [k \in Kinds |-> Distinct(b.sketches[k])],
     duplicate_positions |-> Duplicates(b, "positions"),
     duplicate_occurrences |-> Duplicates(b, "occurrences")]

=============================================================================
