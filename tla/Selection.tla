------------------------------ MODULE Selection ------------------------------
(***************************************************************************)
(* The streaming selections: sample (reservoir_sample), balance, stratify  *)
(* (group_aware_fill), select --strategy uncertain, coverage and hard (the *)
(* last with --assume-grouped-by-source).  Each pushes every record of the *)
(* input onto a bounded heap, its own or its bucket's; they differ in the  *)
(* key.  balance and coverage read the input twice.  hard buffers a game   *)
(* until the next one starts, and is compared with the selection that holds*)
(* the whole input in memory, which is select_hard_materialized.           *)
(*                                                                         *)
(* A record is what the keys are made of: its bucket, the game it is from  *)
(* and the root of that game, its ply, a number for its SFEN that orders as*)
(* the SFEN (balance) or its seeded hash does, the fraction of quality     *)
(* gates it passes, the score seen by Black (shifted to be no less than 0),*)
(* and a number doubt that orders as (disagreement, swing).  Indexes count *)
(* from 1.                                                                 *)
(***************************************************************************)
EXTENDS TopK, Integers, Sequences

CONSTANTS Buckets, Roots, Games,
          Records,          \* the records of an input, by strategy
          Counts,           \* --count, --target, or the quota of a bucket
          BlunderThreshold, BlunderWindow,
          MaxDoubt,         \* bound of doubt
          MaxLength         \* bound: records of an input

Strategies == {"sample", "balance", "stratify", "uncertain", "coverage", "hard"}
Streaming == Strategies \ {"hard"}
Unlabelled == -1    \* eval: no observation
Mate == -2          \* eval: the deepest observation is a mate score

ASSUME SelectionAssumption ==
    /\ Buckets # {}
    /\ MaxLength \in Nat /\ MaxDoubt \in Nat /\ BlunderWindow \in Nat
    /\ BlunderThreshold \in Nat /\ Counts \subseteq Nat
    /\ \A s \in Strategies : \A r \in Records[s] :
           /\ r.bucket \in Buckets /\ r.root \in Roots /\ r.game \in Games
           /\ r.ply \in Nat /\ r.sfen \in Nat /\ r.gates \in Nat
           /\ r.doubt \in 0..MaxDoubt /\ r.eval \in Int
    /\ Roots \subseteq Nat

VARIABLES
    pc,        \* "tally", "push", "flush", "done"
    strategy,
    given,     \* balance: --target was given
    quotas,    \* the bound of each bucket in the quota file; else one for all
    input,     \* the records read so far, in either pass
    total,     \* the records pushed, or counted as not in the quota
    ranks,     \* group_rank
    heaps,     \* the heap of each bucket; sample and select use one
    group,     \* hard: the buffered game, as places in the input
    scored,    \* hard: what is left of the game being flushed: places and keys
    place,     \* hard: the place in the input of each index
    seen       \* ghost: the entries pushed, by heap

hardVars == <<group, scored, place>>
vars == <<pc, strategy, given, quotas, input, total, ranks, heaps, hardVars, seen>>

TwoPass == strategy \in {"balance", "coverage"}
Bucketed == strategy \in {"balance", "stratify"}

Init ==
    /\ strategy \in Strategies
    /\ given \in BOOLEAN /\ (strategy = "balance" \/ given)
    /\ pc = IF TwoPass THEN "tally" ELSE "push"
    /\ IF strategy = "stratify"
       THEN \E quoted \in SUBSET Buckets : quotas \in [quoted -> Counts]
       ELSE \E n \in Counts : quotas = [b \in Buckets |-> n]
    /\ input = <<>> /\ total = 0
    /\ ranks = [x \in Buckets \X Roots |-> 0]
    /\ heaps = [b \in Buckets |-> {}] /\ seen = heaps
    /\ group = {} /\ scored = {} /\ place = <<>>

-----------------------------------------------------------------------------
(* The first pass of balance and coverage.                                 *)

BucketSize(b) == Cardinality({i \in DOMAIN input : input[i].bucket = b})
Observed == {input[i].bucket : i \in DOMAIN input}
Sizes == {BucketSize(b) : b \in Observed}

Tally ==
    /\ pc = "tally" /\ Len(input) < MaxLength
    /\ \E r \in Records[strategy] : input' = Append(input, r)
    /\ UNCHANGED <<pc, strategy, given, quotas, total, ranks, heaps, hardVars, seen>>

\* Mutation: without --target nothing is bounded.
SecondPassUnbounded ==
    /\ pc = "tally"
    /\ pc' = "push"
    /\ quotas' = IF given THEN quotas ELSE [b \in Buckets |-> Len(input)]
    /\ UNCHANGED <<strategy, given, input, total, ranks, heaps, hardVars, seen>>

\* Without --target, balance takes the size of the smallest bucket.
SecondPass ==
    /\ pc = "tally"
    /\ pc' = "push"
    /\ \/ given /\ UNCHANGED quotas
       \/ ~given /\ Observed = {} /\ quotas' = [b \in Buckets |-> 0]
       \/ /\ ~given
          /\ \E n \in Sizes : /\ \A m \in Sizes : n <= m
                             /\ quotas' = [b \in Buckets |-> n]
    /\ UNCHANGED <<strategy, given, input, total, ranks, heaps, hardVars, seen>>

-----------------------------------------------------------------------------
(* The pass that selects.                                                  *)

OneHeap == CHOOSE b \in Buckets : TRUE
HeapOf(r) == IF Bucketed THEN r.bucket ELSE OneHeap

\* Mutation: the hash comes before the rank.
MajorByHash(r) ==
    CASE strategy = "stratify"  -> r.root
      [] strategy = "uncertain" -> r.gates
      [] strategy = "coverage"  -> BucketSize(r.bucket)
      [] OTHER -> 0

\* The first part of the key.
Major(r) ==
    CASE strategy = "stratify"  -> ranks[<<r.bucket, r.root>>]
      [] strategy = "uncertain" -> r.gates
      [] strategy = "coverage"  -> BucketSize(r.bucket)
      [] OTHER -> 0

\* The tie-break: a root's number orders as its seeded hash.
Minor(r) == IF strategy = "stratify" THEN r.root ELSE r.sfen

PushEntry(b, entry) ==
    /\ heaps' = [heaps EXCEPT ![b] = PushBounded(@, quotas[b], entry)]
    /\ seen' = [seen EXCEPT ![b] = @ \union {entry}]

\* One record of the input: the rank of its root counts every record of its bucket,
\* kept or not; a bucket without a quota keeps nothing.
Push ==
    /\ pc = "push" /\ strategy \in Streaming
    /\ \E r \in IF TwoPass THEN {input[i] : i \in {total + 1} \intersect DOMAIN input}
                           ELSE Records[strategy] :
           /\ IF TwoPass THEN UNCHANGED input
              ELSE Len(input) < MaxLength /\ input' = Append(input, r)
           /\ IF HeapOf(r) \in DOMAIN quotas
              THEN /\ PushEntry(HeapOf(r), [major |-> Major(r), minor |-> Minor(r),
                                            index |-> total + 1])
                   /\ ranks' = IF strategy = "stratify"
                               THEN [ranks EXCEPT ![<<r.bucket, r.root>>] = @ + 1]
                               ELSE ranks
              ELSE UNCHANGED <<heaps, seen, ranks>>
    /\ total' = total + 1
    /\ UNCHANGED <<pc, strategy, given, quotas, hardVars>>

Finish ==
    /\ pc = "push" /\ strategy \in Streaming
    /\ TwoPass => total = Len(input)
    /\ pc' = "done"
    /\ UNCHANGED <<strategy, given, quotas, input, total, ranks, heaps, hardVars, seen>>

-----------------------------------------------------------------------------
(* select --strategy hard, by games.                                       *)

Abs(n) == IF n < 0 THEN -n ELSE n

\* A finite set in the order of R.
InOrder(S, R) ==
    [i \in 1..Cardinality(S) |->
        CHOOSE x \in S : Cardinality({y \in S : <<y, x>> \in R}) = i - 1]

\* By ply, those of one ply as they were: sort_by_key is stable.
PlyBefore(p, q) == \/ input[p].ply < input[q].ply
                   \/ input[p].ply = input[q].ply /\ p < q

ByPly(places) ==
    InOrder(places, {pair \in places \X places : PlyBefore(pair[1], pair[2])})

\* A swing between neighbours, both with a cp score, that reaches the threshold.
Blunder(game, j) ==
    LET e0 == input[game[j - 1]].eval
        e1 == input[game[j]].eval
    IN  {e0, e1} \intersect {Unlabelled, Mate} = {} /\ Abs(e1 - e0) >= BlunderThreshold

\* The labelled places within the window around a blunder.
BlunderAdjacent(game) ==
    {game[k] : k \in {k \in DOMAIN game :
        /\ input[game[k]].eval # Unlabelled
        /\ \E j \in 2..Len(game) :
               Blunder(game, j) /\ k \in (j - BlunderWindow)..(j + BlunderWindow)}}

\* Reverse(hardness) as a number: harder is smaller.
HardKey(adjacent, p) ==
    (IF p \in adjacent THEN 0 ELSE MaxDoubt + 1) + (MaxDoubt - input[p].doubt)

\* hardness_for_group: every place of the game with its key.
Score(places) ==
    LET adjacent == BlunderAdjacent(ByPly(places))
    IN  {[place |-> p, key |-> HardKey(adjacent, p)] : p \in places}

\* Mutation: a new game does not end the one before it.
NewGameNever(r) == FALSE

\* The path differs from current_path.
NewGame(r) == \E p \in group : r.game # input[p].game

\* A record is buffered; one of another game starts the flush of the buffered one.
Buffer ==
    /\ pc = "push" /\ strategy = "hard" /\ scored = {} /\ Len(input) < MaxLength
    /\ \E r \in Records[strategy] :
           /\ input' = Append(input, r)
           /\ IF NewGame(r) THEN scored' = Score(group) /\ group' = {Len(input) + 1}
              ELSE group' = group \union {Len(input) + 1} /\ UNCHANGED scored
    /\ UNCHANGED <<pc, strategy, given, quotas, total, ranks, heaps, place, seen>>

\* flush_hard_group: the record of the lowest ply that is left is pushed, the first
\* of that ply, as sort_by_key and drain have it.
FlushOne ==
    /\ \E x \in scored :
           /\ \A y \in scored : \/ input[x.place].ply < input[y.place].ply
                                \/ /\ input[x.place].ply = input[y.place].ply
                                   /\ x.place <= y.place
           /\ PushEntry(OneHeap, [major |-> x.key, minor |-> input[x.place].sfen,
                                  index |-> total + 1])
           /\ place' = Append(place, x.place)
           /\ scored' = scored \ {x}
    /\ total' = total + 1
    /\ UNCHANGED <<pc, strategy, given, quotas, input, ranks, group>>

\* The end of the input flushes the last game.
LastGame ==
    /\ pc = "push" /\ strategy = "hard" /\ scored = {}
    /\ scored' = Score(group) /\ group' = {}
    /\ pc' = "flush"
    /\ UNCHANGED <<strategy, given, quotas, input, total, ranks, heaps, place, seen>>

HardDone ==
    /\ pc = "flush" /\ scored = {}
    /\ pc' = "done"
    /\ UNCHANGED <<strategy, given, quotas, input, total, ranks, heaps, hardVars, seen>>

Next == \/ Tally \/ SecondPass \/ Push \/ Finish
        \/ Buffer \/ FlushOne \/ LastGame \/ HardDone
        \/ pc = "done" /\ UNCHANGED vars

Spec == Init /\ [][Next]_vars

-----------------------------------------------------------------------------
(* select_hard_materialized, as a function of the whole input.             *)

Game(p) == {q \in DOMAIN input : input[q].game = input[p].game}

WholeKey(p) == HardKey(BlunderAdjacent(ByPly(Game(p))), p)

MaterializedEntries ==
    {[major |-> WholeKey(p), minor |-> input[p].sfen, index |-> p] : p \in DOMAIN input}

Sorted(entries) == InOrder(entries, {pair \in entries \X entries : Before(pair[1], pair[2])})

Materialized(count) ==
    LET all == Sorted(MaterializedEntries)
    IN  SubSeq(all, 1, IF count < Len(all) THEN count ELSE Len(all))

-----------------------------------------------------------------------------
(* Properties.                                                             *)

\* push_bounded keeps what sorting all that was pushed and truncating it would
\* (heap.rs:35), in every heap, at every point of the stream.
KeepsBest ==
    \A b \in DOMAIN quotas : IsBest(heaps[b], quotas[b], seen[b])

\* group_aware_fill: no root takes a second place in a bucket while another root
\* met in that bucket has none (sampling.rs:53).
NoRootStarved ==
    strategy = "stratify" => \A b \in DOMAIN quotas :
        LET root(e) == input[e.index].root
            twice == \E e, f \in heaps[b] : e # f /\ root(e) = root(f)
        IN  twice => \A s \in seen[b] : \E k \in heaps[b] : root(k) = root(s)

\* balance without --target keeps as many records of every bucket it met, and no
\* fewer than it could: the smallest bucket whole.
BalanceIsEven ==
    pc = "done" /\ strategy = "balance" /\ ~given /\ input # <<>> =>
        /\ \A b, c \in Observed : Cardinality(heaps[b]) = Cardinality(heaps[c])
        /\ \E b \in Observed : Cardinality(heaps[b]) = BucketSize(b)

Grouped == \A p, q, m \in DOMAIN input :
    p < m /\ m < q /\ input[p].game = input[q].game => input[m].game = input[p].game
PlyOrdered == \A p, q \in DOMAIN input :
    p < q /\ input[p].game = input[q].game => input[p].ply <= input[q].ply

\* select --assume-grouped-by-source on an input grouped by game (selection.rs:1090):
\* the ranking is that of the whole input, up to records of equal key, and the same
\* record for record if plies ascend within a game.
HardMatchesMaterialized ==
    pc = "done" /\ strategy = "hard" /\ Grouped =>
        LET streamed == Sorted(heaps[OneHeap])
            whole == Materialized(quotas[OneHeap])
        IN  /\ Len(streamed) = Len(whole)
            /\ \A i \in DOMAIN whole :
                   /\ streamed[i].major = whole[i].major
                   /\ streamed[i].minor = whole[i].minor
                   /\ PlyOrdered => place[streamed[i].index] = whole[i].index
=============================================================================
