----------------------------- MODULE MCKifReader -----------------------------
(* Files with three markers and no unusual line, with fewer markers and more  *)
(* of those, and with blocks that go on well past max_ply.                    *)
EXTENDS KifReader

Config(min, max, every, dedup) == [min |-> min, max |-> max, every |-> every, dedup |-> dedup]
Budget(dests, markers, moves, odd) ==
    [dests |-> dests, markers |-> markers, moves |-> moves, odd |-> odd]

All == Config(1, Unlimited, 1, FALSE)
Early == Config(1, 2, 1, FALSE)
Sparse == Config(2, 3, 2, TRUE)
First == Config(1, 1, 1, FALSE)
Nested == Budget({1}, 3, 2, 0)
Unusual == Budget({1}, 2, 2, 2)
Alike == Budget({1, 2}, 2, 2, 0)
Long == Budget({1}, 2, 3, 0)

MCExtractConfigs == {All, Early, Sparse, First}
MCBudgets == {Nested, Unusual, Alike, Long}
MCCases == {<<All, Unusual>>, <<Early, Nested>>, <<Sparse, Alike>>, <<First, Long>>}
=============================================================================
