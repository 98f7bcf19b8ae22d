------------------------------- MODULE KifProofs -------------------------------
(***************************************************************************)
(* For any file of a game, any configuration and any nesting of its        *)
(* variations, the walk that exports moves and the walk that extracts      *)
(* positions come to the same game, and the moves are those of the tree    *)
(* that the markers describe.                                              *)
(*                                                                         *)
(* The walks are not in the same state: the positions walk ends a block at *)
(* max_ply and the moves walk reads on, so that its snapshots go further.  *)
(* What holds is that a snapshot both have is the same and that the ones   *)
(* only one of them has are of plies that no marker in reach branches from *)
(* (SameTrail).  So each marker finds the same board in both, or is        *)
(* refused by both.                                                        *)
(*                                                                         *)
(* Against the tree, the walk over moves has the last block in hand, and   *)
(* its contexts are the snapshots of blocks still open to a branch: every  *)
(* other block has after it a context that is no more indented (Stacked).  *)
(* So the nearest less indented context is the nearest less indented block.*)
(***************************************************************************)
EXTENDS KifReader, TLAPS, FiniteSetTheorems, SequenceTheorems, WellFoundedInduction

Limited == config.max # Unlimited

(* Types.                                                                  *)

Lines == {Move(d) : d \in Dests} \union OddMoves \union Terminals
             \union {Marker(n, i) : n \in Nat, i \in Nat}
Boards == [first : Colors, moves : Seq(Nat)]
Snapshots == [board : Boards, prev : Nat]
Paths == Seq([id : Nat, at : Nat])
Contexts == [trail : Seq(Snapshots), path : Paths, from : Nat, indent : Nat]
States == [board : Boards, prev : Nat, ply : Nat, checkpoints : Seq(Snapshots),
           path : Paths, count : Nat, contexts : Seq(Contexts), accepting : BOOLEAN,
           stopped : BOOLEAN]

\* A variation has a context, and while it is read its snapshots end where it is.
OwnTrail(s) ==
    /\ s.path = <<>> <=> s.contexts = <<>>
    /\ s.accepting /\ s.path # <<>> => Len(s.contexts[Len(s.contexts)].trail) = s.ply + 1

TypeInv ==
    /\ config \in ExtractConfigs /\ budget \in Budgets /\ file \in Seq(Lines)
    /\ walk = [w \in Walks |-> walk[w]]
    /\ \A w \in Walks : walk[w] \in States /\ OwnTrail(walk[w])
    /\ raw \in Seq([path : Paths, ply : Nat, before : Boards, dest : Nat])
    /\ records \in Seq([path : Paths, ply : Nat, board : Boards])

(* How the walks compare, p over positions and m over moves.               *)

\* The snapshots of one block: the positions walk's are the first of the other's, and
\* where they end earlier, no marker in reach asks for more.
SameTrail(t, u) ==
    /\ Len(t) <= Len(u)
    /\ \A k \in 1..Len(t) : t[k] = u[k]
    /\ t = u \/ (Limited /\ Len(t) >= config.max + 2)

SameContext(c, d) ==
    c.path = d.path /\ c.from = d.from /\ c.indent = d.indent /\ SameTrail(c.trail, d.trail)

Together(p, m) ==
    /\ ~m.stopped /\ p.path = m.path /\ p.count = m.count /\ p.checkpoints = m.checkpoints
    /\ Len(p.contexts) = Len(m.contexts)
    /\ \A i \in 1..Len(p.contexts) : SameContext(p.contexts[i], m.contexts[i])

\* Both read the same block at the same place.
InStep(p, m) ==
    /\ p.board = m.board /\ p.prev = m.prev /\ p.ply = m.ply
    /\ p.path # <<>> =>
           p.contexts[Len(p.contexts)].trail = m.contexts[Len(p.contexts)].trail

\* The moves walk alone reads on.
ReadsOn(m) == m.path # <<>> /\ Limited /\ m.ply > config.max

\* How they compare after a marker or a move.
Aligned(p, m) ==
    /\ p.stopped => Mainline(p)
    /\ ~p.stopped =>
           /\ Together(p, m)
           /\ p.accepting => m.accepting /\ InStep(p, m)
           /\ m.accepting /\ ~p.accepting => ReadsOn(m)

\* A repetition marker on a line of its own ends the block of the moves walk alone; no
\* move follows it in its block.
WalksInv(p, m) ==
    /\ p.stopped => Mainline(p)
    /\ ~p.stopped =>
           /\ Together(p, m)
           /\ p.accepting /\ BlockOpen => m.accepting /\ InStep(p, m)
           /\ m.accepting /\ ~p.accepting => ReadsOn(m)

(* The positions against the moves.                                        *)

After(m) == [m.before EXCEPT !.moves = Append(@, m.dest)]
WantedMoves(rs) == {m \in ToSet(rs) : Wanted(m.ply) /\ (Limited => m.ply <= config.max)}
Whole(rs) == {<<m.path, m.ply, After(m)>> : m \in WantedMoves(rs)}
Found(qs) == {<<r.path, r.ply, r.board>> : r \in ToSet(qs)}
BoardsOf(qs) == {r.board : r \in ToSet(qs)}

PositionsInv(p, rs, qs) ==
    /\ Found(qs) \subseteq Whole(rs)
    /\ ~p.stopped => IF config.dedup THEN BoardsOf(qs) = {After(m) : m \in WantedMoves(rs)}
                     ELSE Found(qs) = Whole(rs)

DistinctInv(qs) ==
    config.dedup => IsFiniteSet(BoardsOf(qs)) /\ Cardinality(BoardsOf(qs)) = Len(qs)

Inv ==
    /\ TypeInv /\ DistinctInv(records)
    /\ MarkersInReach => /\ WalksInv(walk["positions"], walk["moves"])
                         /\ PositionsInv(walk["positions"], raw, records)

-----------------------------------------------------------------------------
(* Facts about the operators.                                              *)

LEMMA Greatest ==
    ASSUME NEW n \in Nat, NEW T, T \subseteq 0..n, T # {}
    PROVE  \E x \in T : \A y \in T : y <= x
<1> DEFINE U == {k \in 0..n : n - k \in T}
           R == OpToRel(<, Nat)
<1>1. IsWellFoundedOn(R, Nat)
  BY NatLessThanWellFounded
<1>2. U \subseteq Nat /\ U # {}
  <2>1. PICK x \in T : TRUE
    OBVIOUS
  <2>2. n - x \in 0..n /\ n - (n - x) = x
    BY <2>1
  <2>3. n - x \in U
    BY <2>1, <2>2
  <2>4. U \subseteq Nat
    OBVIOUS
  <2> HIDE DEF U
  <2> QED BY <2>3, <2>4
<1> HIDE DEF R
<1>3. PICK k \in U : \A j \in U : ~ (<<j, k>> \in R)
  BY <1>1, <1>2, WFMin
<1>4. \A j \in Nat : j < k => <<j, k>> \in R
  BY <1>2, Zenon DEF R, OpToRel
<1>5. \A y \in T : y <= n - k
  <2> SUFFICES ASSUME NEW y \in T, ~ (y <= n - k)
               PROVE  FALSE
    OBVIOUS
  <2>1. n - y \in 0..n /\ n - (n - y) = y /\ n - y < k
    BY <1>3
  <2>2. n - y \in U /\ n - y \in Nat
    BY <2>1
  <2> QED BY <1>3, <1>4, <2>1, <2>2
<1> QED BY <1>3, <1>5

LEMMA AppendFacts ==
    ASSUME NEW S, NEW s \in Seq(S), NEW e \in S
    PROVE  /\ Append(s, e) \in Seq(S) /\ Append(s, e) # <<>>
           /\ Len(Append(s, e)) = Len(s) + 1 /\ Append(s, e)[Len(s) + 1] = e
           /\ \A i \in 1..Len(s) : Append(s, e)[i] = s[i]
OBVIOUS

LEMMA ReplaceFacts ==
    ASSUME NEW S, NEW s \in Seq(S), NEW last \in 1..Len(s), NEW e \in S,
           NEW t, t = [s EXCEPT ![last] = e]
    PROVE  /\ t \in Seq(S) /\ Len(t) = Len(s) /\ t[last] = e
           /\ \A i \in 1..Len(s) : i # last => t[i] = s[i]
OBVIOUS

LEMMA ToSetAppend ==
    ASSUME NEW S, NEW s \in Seq(S), NEW e
    PROVE  ToSet(Append(s, e)) = ToSet(s) \union {e}
<1> DEFINE t == Append(s, e)
<1>1. /\ DOMAIN t = 1..(Len(s) + 1) /\ DOMAIN s = 1..Len(s) /\ Len(s) \in Nat
      /\ \A i \in 1..Len(s) : t[i] = s[i]
      /\ t[Len(s) + 1] = e
  OBVIOUS
<1> HIDE DEF t
<1>2. ToSet(t) \subseteq ToSet(s) \union {e}
  BY <1>1 DEF ToSet
<1>3. ToSet(s) \union {e} \subseteq ToSet(t)
  BY <1>1 DEF ToSet
<1> QED BY <1>2, <1>3 DEF t

\* The last marker is in front of a line that is none.
LEMMA LastMarkerIsBefore ==
    ASSUME NEW line \in Terminals, file \in Seq(Lines), file' = Append(file, line)
    PROVE  ~ BlockOpen'
<1> DEFINE I == {0} \union {i \in DOMAIN file' : file'[i].kind = "marker"}
<1>1. /\ Len(file') = Len(file) + 1 /\ Len(file) \in Nat /\ file'[Len(file) + 1] = line
      /\ line.kind # "marker" /\ DOMAIN file' = 1..(Len(file) + 1)
  BY DEF Terminals, Line
<1>2. I \subseteq 0..Len(file) /\ I # {}
  BY <1>1
<1>3. LastMarker' \in 0..Len(file)
  <2>1. LastMarker' = Max(I)
    BY DEF LastMarker
  <2> HIDE DEF I
  <2>2. PICK x \in I : \A y \in I : y <= x
    BY <1>1, <1>2, Greatest
  <2>3. \A y \in I : x >= y
    BY <1>1, <1>2, <2>2
  <2>4. Max(I) \in I
    BY <2>2, <2>3, Zenon DEF Max
  <2> QED BY <1>2, <2>1, <2>4, Zenon
<1>4. Len(file) + 1 \in (LastMarker' + 1)..Len(file')
  BY <1>1, <1>3
<1> QED BY <1>1, <1>4 DEF BlockOpen

-----------------------------------------------------------------------------
(* Single walks.                                                           *)

LEMMA Fields ==
    ASSUME NEW s \in States
    PROVE  /\ s.board \in Boards /\ s.prev \in Nat /\ s.ply \in Nat
           /\ s.checkpoints \in Seq(Snapshots) /\ s.path \in Paths /\ s.count \in Nat
           /\ s.contexts \in Seq(Contexts) /\ s.accepting \in BOOLEAN
           /\ s.stopped \in BOOLEAN
BY DEF States

LEMMA SnapshotType ==
    ASSUME NEW board \in Boards, NEW dest \in Nat
    PROVE  /\ [board EXCEPT !.moves = Append(@, dest)] \in Boards
           /\ Snapshot(board, dest) \in Snapshots
<1>1. board.moves \in Seq(Nat)
  BY DEF Boards
<1>2. Append(board.moves, dest) \in Seq(Nat)
  BY <1>1
<1>3. [board EXCEPT !.moves = Append(board.moves, dest)] \in Boards
  BY <1>2 DEF Boards
<1> QED BY <1>3 DEF Snapshot, Snapshots

\* A snapshot more in one context.
WithSnapshot(contexts, i, snap) == [contexts EXCEPT ![i].trail = Append(@, snap)]

\* What a played move does to a walk s, field by field: t is the walk after it.
PlayedTo(s, dest, board, t) ==
    /\ t \in States /\ OwnTrail(t)
    /\ t.board = board /\ t.prev = dest /\ t.ply = s.ply + 1 /\ t.path = s.path
    /\ t.count = s.count /\ t.accepting = s.accepting /\ t.stopped = s.stopped
    /\ s.path = <<>> => /\ t.checkpoints = Append(s.checkpoints, Snapshot(board, dest))
                        /\ t.contexts = s.contexts
    /\ s.path # <<>> =>
           /\ t.checkpoints = s.checkpoints
           /\ Len(s.contexts) \in 1..Len(s.contexts)
           /\ t.contexts = WithSnapshot(s.contexts, Len(s.contexts), Snapshot(board, dest))

LEMMA PlayedFields ==
    ASSUME NEW s \in States, OwnTrail(s), s.accepting, NEW dest \in Nat,
           NEW board, board = [s.board EXCEPT !.moves = Append(@, dest)],
           NEW t, t = Played(s, dest)
    PROVE  PlayedTo(s, dest, board, t)
<1>1. board \in Boards /\ Snapshot(board, dest) \in Snapshots
  BY Fields, SnapshotType
<1> DEFINE snap == Snapshot(board, dest)
           moved == [s EXCEPT !.board = board, !.prev = dest, !.ply = @ + 1]
<1>2. CASE s.path = <<>>
  <2>1. t = [moved EXCEPT !.checkpoints = Append(@, snap)]
    BY <1>2 DEF Played, Mainline
  <2>2. /\ s.checkpoints \in Seq(Snapshots) /\ Append(s.checkpoints, snap) \in Seq(Snapshots)
        /\ s.ply + 1 \in Nat /\ s.contexts = <<>>
    BY <1>1, <1>2, Fields DEF OwnTrail
  <2> HIDE DEF snap
  <2>3. t \in States
    BY <1>1, <2>1, <2>2 DEF States
  <2>4. /\ t.board = board /\ t.prev = dest /\ t.ply = s.ply + 1 /\ t.path = s.path
        /\ t.count = s.count /\ t.accepting = s.accepting /\ t.stopped = s.stopped
        /\ t.checkpoints = Append(s.checkpoints, snap) /\ t.contexts = s.contexts
    BY <2>1 DEF States
  <2>5. OwnTrail(t)
    BY <1>2, <2>2, <2>4 DEF OwnTrail
  <2> QED BY <1>2, <2>3, <2>4, <2>5 DEF PlayedTo, snap
<1>3. CASE s.path # <<>>
  <2> DEFINE last == Len(s.contexts)
             trail == s.contexts[last].trail
             contexts == [s.contexts EXCEPT ![last].trail = Append(@, snap)]
  <2>1. t = [moved EXCEPT !.contexts = contexts]
    <3>1. t = [moved EXCEPT !.contexts[last].trail = Append(@, snap)]
      BY <1>3 DEF Played, Mainline
    <3> QED BY <3>1 DEF States
  <2>2. /\ s.contexts \in Seq(Contexts) /\ s.contexts # <<>> /\ s.ply + 1 \in Nat
    BY <1>3, Fields DEF OwnTrail
  <2>3. last \in 1..Len(s.contexts) /\ last \in DOMAIN s.contexts
    BY <2>2
  <2>4. s.contexts[last] \in Contexts
    BY <2>2, <2>3
  <2>5. trail \in Seq(Snapshots)
    BY <2>4 DEF Contexts
  <2>6. /\ Append(trail, snap) \in Seq(Snapshots)
        /\ Len(Append(trail, snap)) = Len(trail) + 1
    BY <1>1, <2>5
  <2>7. /\ contexts = [s.contexts EXCEPT ![last] = [s.contexts[last] EXCEPT !.trail = Append(trail, snap)]]
        /\ [s.contexts[last] EXCEPT !.trail = Append(trail, snap)] \in Contexts
    BY <2>3, <2>4, <2>6 DEF Contexts
  <2>8. /\ contexts \in Seq(Contexts) /\ Len(contexts) = last /\ contexts # <<>>
    BY <2>2, <2>3, <2>7
  <2>9. contexts[last].trail = Append(trail, snap)
    BY <2>2, <2>3, <2>4, <2>7 DEF Contexts
  <2> HIDE DEF contexts, snap, trail
  <2>10. t \in States
    <3>1. moved \in States
      BY <1>1, <2>2 DEF States
    <3> QED BY <2>1, <2>8, <3>1 DEF States
  <2>11. /\ t.board = board /\ t.prev = dest /\ t.ply = s.ply + 1 /\ t.path = s.path
        /\ t.count = s.count /\ t.accepting = s.accepting /\ t.stopped = s.stopped
        /\ t.checkpoints = s.checkpoints /\ t.contexts = contexts
    BY <2>1 DEF States
  <2>12. OwnTrail(t)
    <3>1. Len(trail) = s.ply + 1
      BY <1>3 DEF OwnTrail, trail
    <3>2. Len(t.contexts[Len(t.contexts)].trail) = t.ply + 1
      BY <2>6, <2>8, <2>9, <2>11, <3>1
    <3> QED BY <1>3, <2>8, <2>11, <3>2 DEF OwnTrail
  <2> QED BY <1>3, <2>3, <2>10, <2>11, <2>12 DEF PlayedTo, WithSnapshot, snap, contexts
<1> QED BY <1>2, <1>3

\* The snapshot goes to the last context alone.
Grown(cs, last, snap, ds) ==
    /\ ds \in Seq(Contexts) /\ Len(ds) = Len(cs)
    /\ \A i \in 1..Len(cs) : i # last => ds[i] = cs[i]
    /\ ds[last].path = cs[last].path /\ ds[last].from = cs[last].from
    /\ ds[last].indent = cs[last].indent
    /\ ds[last].trail = Append(cs[last].trail, snap) /\ ds[last].trail \in Seq(Snapshots)
    /\ Len(ds[last].trail) = Len(cs[last].trail) + 1
    /\ \A i \in 1..Len(cs[last].trail) : ds[last].trail[i] = cs[last].trail[i]

LEMMA GrownFields ==
    ASSUME NEW cs \in Seq(Contexts), NEW last \in 1..Len(cs), NEW snap \in Snapshots,
           NEW ds, ds = WithSnapshot(cs, last, snap)
    PROVE  Grown(cs, last, snap, ds)
<1> DEFINE c == cs[last]
           trail == Append(c.trail, snap)
           d == [c EXCEPT !.trail = trail]
<1>1. c \in Contexts
  OBVIOUS
<1>2. c.trail \in Seq(Snapshots)
  BY <1>1 DEF Contexts
<1>3. /\ trail \in Seq(Snapshots) /\ Len(trail) = Len(c.trail) + 1
      /\ \A i \in 1..Len(c.trail) : trail[i] = c.trail[i]
  BY <1>2, AppendFacts
<1> HIDE DEF trail
<1>4. /\ d \in Contexts /\ d.trail = trail /\ d.path = c.path /\ d.from = c.from
      /\ d.indent = c.indent
  BY <1>1, <1>3 DEF Contexts
<1>5. ds = [cs EXCEPT ![last] = d]
  BY DEF WithSnapshot, trail
<1> HIDE DEF c, d
<1>6. /\ ds \in Seq(Contexts) /\ Len(ds) = Len(cs) /\ ds[last] = d
      /\ \A i \in 1..Len(cs) : i # last => ds[i] = cs[i]
  <2>1. d \in Contexts
    BY <1>4
  <2> QED BY <1>5, <2>1, ReplaceFacts
<1> QED BY <1>3, <1>4, <1>6 DEF Grown, c, trail

LEMMA EndedFields ==
    ASSUME NEW s \in States, OwnTrail(s), NEW t, t = EndBlock(s) \/ t = GiveUp(s)
    PROVE  /\ t \in States /\ OwnTrail(t)
           /\ t.board = s.board /\ t.prev = s.prev /\ t.ply = s.ply /\ t.path = s.path
           /\ t.count = s.count /\ t.checkpoints = s.checkpoints /\ t.contexts = s.contexts
BY DEF EndBlock, GiveUp, Mainline, States, OwnTrail

LEMMA EndBlockFields ==
    ASSUME NEW s \in States
    PROVE  EndBlock(s).stopped = s.stopped /\ ~ EndBlock(s).accepting
BY DEF EndBlock, States

LEMMA GiveUpFields ==
    ASSUME NEW s \in States
    PROVE  /\ s.path = <<>> => GiveUp(s).stopped
           /\ s.path # <<>> => GiveUp(s).stopped = s.stopped /\ ~ GiveUp(s).accepting
BY DEF GiveUp, Mainline, EndBlock, States

LEMMA ParentType ==
    ASSUME NEW s \in States, NEW indent \in Nat
    PROVE  Parent(s, indent) \in 0..Len(s.contexts)
<1> DEFINE outer == {i \in DOMAIN s.contexts : indent > s.contexts[i].indent}
<1>1. s.contexts \in Seq(Contexts)
  BY Fields
<1>2. /\ outer \subseteq 1..Len(s.contexts) /\ outer \subseteq 0..Len(s.contexts)
      /\ Len(s.contexts) \in Nat
  BY <1>1
<1>3. CASE outer = {}
  BY <1>2, <1>3 DEF Parent
<1>4. CASE outer # {}
  <2>1. Parent(s, indent) = CHOOSE i \in outer : \A j \in outer : j <= i
    BY <1>4 DEF Parent
  <2> HIDE DEF outer
  <2>2. \E i \in outer : \A j \in outer : j <= i
    BY <1>2, <1>4, Greatest
  <2>3. Parent(s, indent) \in outer
    BY <2>1, <2>2, Zenon
  <2>4. Parent(s, indent) \in 1..Len(s.contexts)
    BY <1>2, <2>3, Zenon
  <2> QED BY <1>2, <2>4
<1> QED BY <1>3, <1>4

Trail(s, k) == IF k = 0 THEN s.checkpoints ELSE s.contexts[k].trail
Accepted(s, k, n) == n \in DOMAIN Trail(s, k) /\ (k # 0 => n > s.contexts[k].from)
PathOf(s, k, n) ==
    Append(IF k = 0 THEN <<>> ELSE s.contexts[k].path, [id |-> s.count + 1, at |-> n])

\* What a marker does to a walk s, field by field: t is the walk after it.
Marked(s, k, n, indent, t) ==
    /\ k \in 0..Len(s.contexts) /\ Trail(s, k) \in Seq(Snapshots)
    /\ t \in States /\ OwnTrail(t)
    /\ t.stopped = s.stopped /\ t.checkpoints = s.checkpoints
    /\ ~ Accepted(s, k, n) => t = EndBlock(s)
    /\ Accepted(s, k, n) =>
           /\ t.accepting /\ t.ply = n - 1 /\ t.count = s.count + 1
           /\ t.board = Trail(s, k)[n].board /\ t.prev = Trail(s, k)[n].prev
           /\ t.path = PathOf(s, k, n) /\ t.path # <<>>
           /\ t.contexts = Append(SubSeq(s.contexts, 1, k),
                  [trail |-> SubSeq(Trail(s, k), 1, n), path |-> PathOf(s, k, n),
                   from |-> n, indent |-> indent])

LEMMA AtMarkerFields ==
    ASSUME NEW s \in States, OwnTrail(s), NEW n \in Nat, NEW indent \in Nat,
           NEW k, k = Parent(s, indent), NEW t, t = AtMarker(s, n, indent)
    PROVE  Marked(s, k, n, indent, t)
<1>1. k \in 0..Len(s.contexts) /\ s.contexts \in Seq(Contexts) /\ Len(s.contexts) \in Nat
  BY ParentType, Fields
<1>2. k # 0 => s.contexts[k] \in Contexts
  BY <1>1
<1>3. Trail(s, k) \in Seq(Snapshots)
  BY <1>2, Fields DEF Trail, Contexts
<1> DEFINE context == [trail |-> SubSeq(Trail(s, k), 1, n), path |-> PathOf(s, k, n),
                       from |-> n, indent |-> indent]
           cut == SubSeq(s.contexts, 1, k)
           stack == Append(cut, context)
<1>4. CASE ~ Accepted(s, k, n)
  <2>1. t = EndBlock(s)
    BY <1>4 DEF AtMarker, Accepted, Trail
  <2>2. t \in States /\ OwnTrail(t) /\ t.checkpoints = s.checkpoints
    BY <2>1, EndedFields
  <2>3. t.stopped = s.stopped
    BY <2>1, EndBlockFields
  <2> QED BY <1>1, <1>3, <1>4, <2>1, <2>2, <2>3 DEF Marked
<1>5. CASE Accepted(s, k, n)
  <2>1. t = [s EXCEPT !.board = Trail(s, k)[n].board, !.prev = Trail(s, k)[n].prev,
                 !.ply = n - 1, !.count = @ + 1, !.path = PathOf(s, k, n),
                 !.accepting = TRUE, !.contexts = stack]
    BY <1>5 DEF AtMarker, Accepted, Trail, PathOf, States
  <2>2. n \in 1..Len(Trail(s, k)) /\ n - 1 \in Nat
    BY <1>3, <1>5 DEF Accepted
  <2>3. Trail(s, k)[n] \in Snapshots
    BY <1>3, <2>2
  <2>4. Trail(s, k)[n].board \in Boards /\ Trail(s, k)[n].prev \in Nat
    BY <2>3 DEF Snapshots
  <2>5. /\ SubSeq(Trail(s, k), 1, n) \in Seq(Snapshots)
        /\ Len(SubSeq(Trail(s, k), 1, n)) = n
    BY <1>3, <2>2
  <2>6. s.count + 1 \in Nat
    BY Fields
  <2>7. PathOf(s, k, n) \in Paths /\ PathOf(s, k, n) # <<>>
    <3>1. (IF k = 0 THEN <<>> ELSE s.contexts[k].path) \in Paths
      BY <1>2 DEF Contexts, Paths
    <3>2. [id |-> s.count + 1, at |-> n] \in [id : Nat, at : Nat]
      BY <2>6
    <3> QED BY <3>1, <3>2, AppendFacts DEF PathOf, Paths
  <2>8. context \in Contexts /\ context.trail = SubSeq(Trail(s, k), 1, n)
    BY <2>5, <2>7 DEF Contexts
  <2> HIDE DEF context
  <2>9. cut \in Seq(Contexts) /\ Len(cut) = k
    BY <1>1
  <2> HIDE DEF cut
  <2>10. /\ stack \in Seq(Contexts) /\ Len(stack) = k + 1 /\ stack # <<>>
         /\ stack[k + 1] = context
    BY <2>8, <2>9, AppendFacts
  <2> HIDE DEF stack
  <2>11. t \in States
    BY <2>1, <2>2, <2>4, <2>6, <2>7, <2>10 DEF States
  <2>12. /\ t.accepting /\ t.ply = n - 1 /\ t.count = s.count + 1
         /\ t.board = Trail(s, k)[n].board /\ t.prev = Trail(s, k)[n].prev
         /\ t.path = PathOf(s, k, n) /\ t.contexts = stack
         /\ t.stopped = s.stopped /\ t.checkpoints = s.checkpoints
    BY <2>1 DEF States
  <2>13. OwnTrail(t)
    <3>1. Len(t.contexts[Len(t.contexts)].trail) = t.ply + 1
      BY <2>2, <2>5, <2>8, <2>10, <2>12
    <3> QED BY <2>7, <2>10, <2>12, <3>1 DEF OwnTrail
  <2> QED BY <1>1, <1>3, <1>5, <2>7, <2>11, <2>12, <2>13 DEF Marked, stack, cut, context
<1> QED BY <1>4, <1>5

-----------------------------------------------------------------------------
(* Both walks.                                                             *)

LEMMA MaxType == ASSUME config \in ExtractConfigs PROVE Limited => config.max \in Nat
BY KifAssumption DEF Limited

\* A marker in reach finds the same snapshot in both, or none in either.
LEMMA MarkerTogether ==
    ASSUME config \in ExtractConfigs, NEW p \in States, NEW m \in States, OwnTrail(p), OwnTrail(m),
           Together(p, m), NEW n \in Nat, NEW indent \in Nat,
           Limited => n <= config.max + 2,
           NEW p2, p2 = AtMarker(p, n, indent), NEW m2, m2 = AtMarker(m, n, indent)
    PROVE  /\ Together(p2, m2) /\ p2.accepting = m2.accepting
           /\ p2.accepting => InStep(p2, m2)
<1> DEFINE k == Parent(p, indent)
           tp == Trail(p, k)
           tm == Trail(m, k)
<1>1. /\ p.contexts \in Seq(Contexts) /\ m.contexts \in Seq(Contexts)
      /\ Len(p.contexts) = Len(m.contexts)
      /\ DOMAIN p.contexts = 1..Len(p.contexts) /\ DOMAIN m.contexts = 1..Len(p.contexts)
      /\ \A i \in 1..Len(p.contexts) : SameContext(p.contexts[i], m.contexts[i])
  BY Fields DEF Together
<1>2. Parent(m, indent) = k
  <2>1. {i \in DOMAIN p.contexts : indent > p.contexts[i].indent} =
            {i \in DOMAIN m.contexts : indent > m.contexts[i].indent}
    BY <1>1 DEF SameContext
  <2> DEFINE best(S) == IF S = {} THEN 0 ELSE CHOOSE i \in S : \A j \in S : j <= i
             outer(s) == {i \in DOMAIN s.contexts : indent > s.contexts[i].indent}
  <2>2. Parent(p, indent) = best(outer(p)) /\ Parent(m, indent) = best(outer(m))
    BY DEF Parent
  <2>3. outer(p) = outer(m)
    BY <2>1
  <2> HIDE DEF best, outer
  <2> QED BY <2>2, <2>3
<1>p. Marked(p, k, n, indent, p2)
  BY AtMarkerFields, Zenon
<1>m. Marked(m, k, n, indent, m2)
  <2>1. k = Parent(m, indent)
    BY <1>2
  <2> HIDE DEF k
  <2> QED BY <2>1, AtMarkerFields, Zenon
<1> HIDE DEF k
<1>3. /\ k \in 0..Len(p.contexts) /\ tp \in Seq(Snapshots) /\ tm \in Seq(Snapshots)
      /\ p2 \in States /\ m2 \in States
      /\ p2.stopped = p.stopped /\ m2.stopped = m.stopped
      /\ p2.checkpoints = p.checkpoints /\ m2.checkpoints = m.checkpoints
  BY <1>p, <1>1, <1>m DEF Marked
<1>4. SameTrail(tp, tm) /\ (k # 0 => p.contexts[k].from = m.contexts[k].from)
  <2>1. CASE k = 0
    <3>1. tp = p.checkpoints /\ tm = m.checkpoints
      BY <2>1 DEF Trail
    <3>2. tp = tm
      BY <3>1 DEF Together
    <3> HIDE DEF tp, tm
    <3> QED BY <1>3, <2>1, <3>2 DEF SameTrail
  <2>2. CASE k # 0
    <3>1. SameContext(p.contexts[k], m.contexts[k])
      BY <1>1, <1>3, <2>2
    <3> QED BY <2>2, <3>1 DEF SameContext, Trail
  <2> QED BY <2>1, <2>2
<1>5. n \in DOMAIN tp <=> n \in DOMAIN tm
  <2> HIDE DEF tp, tm
  <2>1. DOMAIN tp = 1..Len(tp) /\ DOMAIN tm = 1..Len(tm) /\ Len(tp) \in Nat /\ Len(tm) \in Nat
    BY <1>3
  <2>2. Len(tp) <= Len(tm) /\ (tp = tm \/ (Limited /\ Len(tp) >= config.max + 2))
    BY <1>4 DEF SameTrail
  <2>3. CASE tp = tm
    BY <2>3
  <2>4. CASE Limited /\ Len(tp) >= config.max + 2
    BY <2>1, <2>2, <2>4, MaxType
  <2> QED BY <2>2, <2>3, <2>4
<1>6. CASE ~ Accepted(p, k, n)
  <2>1. ~ Accepted(m, k, n)
    BY <1>4, <1>5, <1>6 DEF Accepted
  <2>2. p2 = EndBlock(p) /\ m2 = EndBlock(m)
    BY <1>p, <1>6, <1>m, <2>1 DEF Marked
  <2>3. /\ ~ p2.accepting /\ ~ m2.accepting
        /\ p2.path = p.path /\ p2.count = p.count /\ p2.contexts = p.contexts
        /\ m2.path = m.path /\ m2.count = m.count /\ m2.contexts = m.contexts
    BY <2>2, EndedFields, EndBlockFields
  <2>4. Together(p2, m2)
    BY <1>3, <2>3 DEF Together
  <2> QED BY <1>3, <2>3, <2>4 DEF States
<1>7. CASE Accepted(p, k, n)
  <2>1. Accepted(m, k, n)
    BY <1>4, <1>5, <1>7 DEF Accepted
  <2> DEFINE path == PathOf(p, k, n)
             cp == SubSeq(p.contexts, 1, k)
             cm == SubSeq(m.contexts, 1, k)
             cut == SubSeq(tp, 1, n)
             new == [trail |-> cut, path |-> path, from |-> n, indent |-> indent]
  <2>2. PathOf(m, k, n) = path
    <3>1. k # 0 => p.contexts[k].path = m.contexts[k].path
      BY <1>1, <1>3 DEF SameContext
    <3> QED BY <3>1 DEF PathOf, Together
  <2>3. n \in 1..Len(tp) /\ tp[n] = tm[n] /\ SubSeq(tm, 1, n) = cut /\ SameTrail(cut, cut)
    <3> HIDE DEF tp, tm
    <3>1. n \in 1..Len(tp) /\ Len(tp) \in Nat
      BY <1>3, <1>7 DEF Accepted, tp
    <3>2. Len(tp) <= Len(tm) /\ \A i \in 1..Len(tp) : tp[i] = tm[i]
      BY <1>4 DEF SameTrail
    <3>3. SubSeq(tm, 1, n) = cut
      BY <1>3, <3>1, <3>2
    <3>4. cut \in Seq(Snapshots)
      BY <1>3, <3>1
    <3> HIDE DEF cut
    <3>5. SameTrail(cut, cut)
      BY <3>4 DEF SameTrail
    <3> QED BY <3>1, <3>2, <3>3, <3>5
  <2>4. /\ p2.accepting /\ p2.ply = n - 1 /\ p2.count = p.count + 1
        /\ p2.board = tp[n].board /\ p2.prev = tp[n].prev
        /\ p2.path = path /\ p2.contexts = Append(cp, new)
    BY <1>p, <1>7 DEF Marked
  <2>5. /\ m2.accepting /\ m2.ply = n - 1 /\ m2.count = m.count + 1
        /\ m2.board = tm[n].board /\ m2.prev = tm[n].prev
        /\ m2.path = PathOf(m, k, n)
        /\ m2.contexts = Append(cm, [trail |-> SubSeq(tm, 1, n), path |-> PathOf(m, k, n),
                                     from |-> n, indent |-> indent])
    BY <1>m, <2>1 DEF Marked
  <2>6. m2.path = path /\ m2.contexts = Append(cm, new)
    BY <2>2, <2>3, <2>5
  <2>7. /\ cp \in Seq(Contexts) /\ Len(cp) = k /\ cm \in Seq(Contexts) /\ Len(cm) = k
        /\ \A i \in 1..k : SameContext(cp[i], cm[i])
    <3>1. /\ cp \in Seq(Contexts) /\ Len(cp) = k
          /\ \A i \in 1..k : cp[i] = p.contexts[i]
      BY <1>1, <1>3
    <3>2. /\ cm \in Seq(Contexts) /\ Len(cm) = k
          /\ \A i \in 1..k : cm[i] = m.contexts[i]
      BY <1>1, <1>3
    <3> HIDE DEF cp, cm
    <3> QED BY <1>1, <1>3, <3>1, <3>2
  <2> HIDE DEF cp, cm, tp, tm
  <2>8. SameContext(new, new)
    BY <2>3 DEF SameContext
  <2>9. new \in Contexts
    <3>1. cut \in Seq(Snapshots) /\ path \in Paths
      <4>1. p2.contexts \in Seq(Contexts) /\ p2.path \in Paths
        BY <1>3, Fields
      <4>2. cut \in Seq(Snapshots)
        BY <1>3, <2>3
      <4> QED BY <2>4, <4>1, <4>2
    <3> HIDE DEF cut, path
    <3> QED BY <3>1 DEF Contexts
  <2> HIDE DEF new
  <2>10. /\ Len(p2.contexts) = k + 1 /\ p2.contexts[k + 1] = new
         /\ \A i \in 1..k : p2.contexts[i] = cp[i]
    BY <2>4, <2>7, <2>9, AppendFacts
  <2>11. /\ Len(m2.contexts) = k + 1 /\ m2.contexts[k + 1] = new
         /\ \A i \in 1..k : m2.contexts[i] = cm[i]
    BY <2>6, <2>7, <2>9, AppendFacts
  <2>12. \A i \in 1..(k + 1) : SameContext(p2.contexts[i], m2.contexts[i])
    <3> TAKE i \in 1..(k + 1)
    <3>1. CASE i = k + 1
      BY <2>8, <2>10, <2>11, <3>1
    <3>2. CASE i # k + 1
      <4>1. i \in 1..k
        BY <1>3, <3>2
      <4> QED BY <2>7, <2>10, <2>11, <4>1
    <3> QED BY <3>1, <3>2
  <2>13. Together(p2, m2)
    BY <1>3, <2>4, <2>5, <2>6, <2>10, <2>11, <2>12 DEF Together
  <2>14. InStep(p2, m2)
    <3>1. p2.board = m2.board /\ p2.prev = m2.prev /\ p2.ply = m2.ply
      BY <2>3, <2>4, <2>5
    <3>2. p2.contexts[Len(p2.contexts)] = new /\ m2.contexts[Len(p2.contexts)] = new
      BY <2>10, <2>11
    <3> QED BY <3>1, <3>2 DEF InStep
  <2>15. p2.accepting = m2.accepting
    <3>1. p2.accepting \in BOOLEAN /\ m2.accepting \in BOOLEAN
      BY <1>3, Fields
    <3> QED BY <2>4, <2>5, <3>1
  <2> QED BY <2>13, <2>14, <2>15
<1> QED BY <1>6, <1>7

\* A move that both walks play.
LEMMA PlayedTogether ==
    ASSUME NEW p \in States, NEW m \in States, OwnTrail(p), OwnTrail(m), Together(p, m),
           InStep(p, m), p.accepting, m.accepting, NEW dest \in Nat,
           NEW p2, p2 = Played(p, dest), NEW m2, m2 = Played(m, dest)
    PROVE  Together(p2, m2) /\ InStep(p2, m2)
<1> DEFINE board == [p.board EXCEPT !.moves = Append(@, dest)]
           snap == Snapshot(board, dest)
<1>1. board = [m.board EXCEPT !.moves = Append(@, dest)]
  BY DEF InStep
<1>2. board \in Boards /\ snap \in Snapshots
  BY Fields, SnapshotType
<1> HIDE DEF board
<1>3. PlayedTo(p, dest, board, p2)
  BY PlayedFields, Zenon DEF board
<1>4. PlayedTo(m, dest, board, m2)
  BY <1>1, PlayedFields, Zenon
<1>5. /\ p2.board = m2.board /\ p2.prev = m2.prev /\ p2.ply = m2.ply /\ p2.path = m2.path
      /\ p2.count = m2.count /\ ~ m2.stopped /\ p2.path = p.path
  BY <1>3, <1>4 DEF PlayedTo, Together, InStep
<1>6. CASE p.path = <<>>
  <2>1. /\ p2.checkpoints = m2.checkpoints
        /\ p2.contexts = p.contexts /\ m2.contexts = m.contexts
    BY <1>3, <1>4, <1>6 DEF PlayedTo, Together
  <2> QED BY <1>5, <1>6, <2>1 DEF Together, InStep
<1>7. CASE p.path # <<>>
  <2> DEFINE last == Len(p.contexts)
  <2>1. /\ p2.checkpoints = m2.checkpoints /\ last \in 1..last
        /\ Len(p.contexts) = last /\ Len(m.contexts) = last
        /\ p2.contexts = WithSnapshot(p.contexts, last, snap)
        /\ m2.contexts = WithSnapshot(m.contexts, last, snap)
    BY <1>3, <1>4, <1>7 DEF PlayedTo, Together
  <2>2. Grown(p.contexts, last, snap, p2.contexts) /\ Grown(m.contexts, last, snap, m2.contexts)
    BY <1>2, <2>1, Fields, GrownFields
  <2>3. p.contexts[last].trail = m.contexts[last].trail
    BY <1>7 DEF InStep
  <2>4. \A i \in 1..last : SameContext(p.contexts[i], m.contexts[i])
    BY DEF Together
  <2> HIDE DEF last
  <2>5. p2.contexts[last].trail = m2.contexts[last].trail
    BY <2>2, <2>3 DEF Grown
  <2>6. \A i \in 1..last : SameContext(p2.contexts[i], m2.contexts[i])
    <3> TAKE i \in 1..last
    <3>1. CASE i = last
      <4>1. p2.contexts[last].trail \in Seq(Snapshots)
        BY <2>2 DEF Grown
      <4>2. SameTrail(p2.contexts[last].trail, m2.contexts[last].trail)
        BY <2>5, <4>1 DEF SameTrail
      <4>3. SameContext(p.contexts[last], m.contexts[last])
        BY <2>1, <2>4
      <4> QED BY <2>2, <3>1, <4>2, <4>3 DEF Grown, SameContext
    <3>2. CASE i # last
      <4>1. p2.contexts[i] = p.contexts[i] /\ m2.contexts[i] = m.contexts[i]
        BY <2>1, <2>2, <3>2 DEF Grown
      <4> QED BY <2>4, <4>1
    <3> QED BY <3>1, <3>2
  <2>7. Len(p2.contexts) = last /\ Len(m2.contexts) = last
    BY <2>1, <2>2 DEF Grown
  <2> QED BY <1>5, <2>1, <2>5, <2>6, <2>7 DEF Together, InStep
<1> QED BY <1>6, <1>7

\* A move beyond max_ply, which the moves walk plays alone.
LEMMA PlayedAlone ==
    ASSUME config \in ExtractConfigs, NEW p \in States, NEW m \in States, OwnTrail(p), OwnTrail(m),
           Together(p, m), m.accepting, ReadsOn(m), NEW dest \in Nat,
           NEW m2, m2 = Played(m, dest)
    PROVE  Together(p, m2) /\ ReadsOn(m2)
<1> DEFINE board == [m.board EXCEPT !.moves = Append(@, dest)]
           snap == Snapshot(board, dest)
           last == Len(m.contexts)
<1>1. board \in Boards /\ snap \in Snapshots
  BY Fields, SnapshotType
<1> HIDE DEF board
<1>2. PlayedTo(m, dest, board, m2)
  BY PlayedFields, Zenon DEF board
<1>3. /\ m2.checkpoints = m.checkpoints /\ last \in 1..last
      /\ Len(p.contexts) = last /\ Len(m.contexts) = last
      /\ m2.contexts = WithSnapshot(m.contexts, last, snap)
      /\ m2.path = m.path /\ m2.count = m.count /\ ~ m2.stopped /\ m2.ply = m.ply + 1
  BY <1>2 DEF PlayedTo, Together, ReadsOn
<1>4. Grown(m.contexts, last, snap, m2.contexts)
  BY <1>1, <1>3, Fields, GrownFields
<1>5. \A i \in 1..last : SameContext(p.contexts[i], m.contexts[i])
  BY <1>3 DEF Together
<1>6. Limited /\ config.max \in Nat /\ m.ply \in Nat /\ m.ply > config.max
  BY MaxType, Fields DEF ReadsOn
<1>7. Len(m.contexts[last].trail) = m.ply + 1
  BY DEF OwnTrail, ReadsOn
<1>8. /\ p.contexts[last].trail \in Seq(Snapshots) /\ m.contexts[last].trail \in Seq(Snapshots)
  <2>1. p.contexts[last] \in Contexts /\ m.contexts[last] \in Contexts
    BY <1>3, Fields
  <2> QED BY <2>1 DEF Contexts
<1> HIDE DEF last, snap
<1>9. SameContext(p.contexts[last], m2.contexts[last])
  <2> DEFINE t == p.contexts[last].trail
             u == m.contexts[last].trail
             v == m2.contexts[last].trail
  <2>1. SameContext(p.contexts[last], m.contexts[last])
    BY <1>3, <1>5
  <2>2. SameTrail(t, u)
    BY <2>1 DEF SameContext
  <2>3. Len(v) = Len(u) + 1 /\ \A i \in 1..Len(u) : v[i] = u[i]
    BY <1>4 DEF Grown
  <2> HIDE DEF t, u, v
  <2>4. Len(t) \in Nat /\ Len(u) \in Nat
    BY <1>8 DEF t, u
  <2>5. Len(t) >= config.max + 2
    <3>1. CASE t = u
      BY <1>6, <1>7, <3>1 DEF u
    <3> QED BY <2>2, <3>1 DEF SameTrail
  <2>6. Len(t) <= Len(v) /\ \A i \in 1..Len(t) : t[i] = v[i]
    BY <2>2, <2>3, <2>4 DEF SameTrail
  <2>7. SameTrail(t, v)
    BY <1>6, <2>5, <2>6 DEF SameTrail
  <2> QED BY <1>4, <2>1, <2>7 DEF SameContext, Grown, t, v
<1>10. \A i \in 1..last : SameContext(p.contexts[i], m2.contexts[i])
  <2> TAKE i \in 1..last
  <2>1. CASE i = last
    BY <1>9, <2>1
  <2>2. CASE i # last
    <3>1. m2.contexts[i] = m.contexts[i]
      BY <1>3, <1>4, <2>2 DEF Grown
    <3> QED BY <1>5, <3>1
  <2> QED BY <2>1, <2>2
<1>11. Len(m2.contexts) = last
  BY <1>3, <1>4 DEF Grown
<1>12. Together(p, m2)
  BY <1>3, <1>10, <1>11 DEF Together
<1>13. ReadsOn(m2)
  BY <1>3, <1>6 DEF ReadsOn
<1> QED BY <1>12, <1>13

-----------------------------------------------------------------------------
(* One line.                                                               *)

MoveLines == {Move(d) : d \in Dests} \union OddMoves

LEMMA DestType ==
    ASSUME NEW s \in States, NEW line \in MoveLines, Plays(s, line)
    PROVE  Dest(s, line) \in Nat
<1>1. s.prev \in Nat
  BY Fields
<1>2. CASE line.kind = "same"
  BY <1>1, <1>2 DEF Dest
<1>3. CASE line.kind # "same"
  <2>1. line.kind = "move"
    BY <1>3 DEF Plays
  <2>2. PICK d \in Dests : line = Move(d)
    BY <2>1 DEF MoveLines, OddMoves, Line
  <2> QED BY <1>3, <2>2, KifAssumption DEF Dest, Move
<1> QED BY <1>2, <1>3

\* The board that a played move leads to.
BoardAfter(s, dest) == [s.board EXCEPT !.moves = Append(@, dest)]

\* What a move line does to the walk over moves.
Moved(s, line, t) ==
    /\ t \in States /\ OwnTrail(t)
    /\ ~ Reading(s) => t = s
    /\ Reading(s) /\ ~ Plays(s, line) => t = GiveUp(s)
    /\ Reading(s) /\ Plays(s, line) =>
           /\ Dest(s, line) \in Nat /\ t = Played(s, Dest(s, line))
           /\ PlayedTo(s, Dest(s, line), BoardAfter(s, Dest(s, line)), t)

LEMMA WalkedFields ==
    ASSUME NEW s \in States, OwnTrail(s), NEW line \in MoveLines, NEW t, t = Walked(s, line)
    PROVE  Moved(s, line, t)
<1>1. CASE ~ Reading(s)
  BY <1>1 DEF Walked, Moved
<1>2. CASE Reading(s) /\ ~ Plays(s, line)
  <2>1. t = GiveUp(s)
    BY <1>2 DEF Walked
  <2> QED BY <1>2, <2>1, EndedFields DEF Moved
<1>3. CASE Reading(s) /\ Plays(s, line)
  <2>1. t = Played(s, Dest(s, line)) /\ Dest(s, line) \in Nat /\ s.accepting
    BY <1>3, DestType DEF Walked, Reading
  <2>2. PlayedTo(s, Dest(s, line), BoardAfter(s, Dest(s, line)), t)
    BY <2>1, PlayedFields, Zenon DEF BoardAfter
  <2>3. t \in States /\ OwnTrail(t)
    BY <2>2 DEF PlayedTo
  <2> QED BY <1>3, <2>1, <2>2, <2>3 DEF Moved
<1> QED BY <1>1, <1>2, <1>3

\* A move line that both walks read leads both to the same place.
LEMMA BothMove ==
    ASSUME config \in ExtractConfigs, NEW p \in States, NEW m \in States, OwnTrail(p), OwnTrail(m),
           Aligned(p, m), NEW line \in MoveLines, Reading(p),
           NEW t, t = Walked(p, line), NEW m2, m2 = Walked(m, line)
    PROVE  /\ Reading(m) /\ (Plays(p, line) <=> Plays(m, line))
           /\ Plays(p, line) =>
                  /\ Together(t, m2) /\ InStep(t, m2) /\ ~t.stopped
                  /\ t.accepting /\ m2.accepting
                  /\ t.board = BoardAfter(m, m2.prev)
           /\ ~ Plays(p, line) =>
                  /\ t.stopped => Mainline(t)
                  /\ ~t.stopped => Together(t, m2) /\ ~t.accepting /\ ~m2.accepting
<1>1. Together(p, m) /\ InStep(p, m) /\ p.accepting /\ m.accepting /\ ~p.stopped /\ ~m.stopped
  BY DEF Aligned, Reading, Together
<1>2. Reading(m) /\ p.prev = m.prev /\ p.board = m.board
  BY <1>1 DEF Reading, InStep
<1>3. (Plays(p, line) <=> Plays(m, line)) /\ Dest(p, line) = Dest(m, line)
  BY <1>2 DEF Plays, Dest
<1>4. Moved(p, line, t) /\ Moved(m, line, m2)
  BY WalkedFields
<1>5. CASE Plays(p, line)
  <2>1. PICK dest \in Nat : /\ dest = Dest(m, line)
                            /\ t = Played(p, dest) /\ m2 = Played(m, dest)
                            /\ PlayedTo(p, dest, BoardAfter(p, dest), t)
                            /\ PlayedTo(m, dest, BoardAfter(m, dest), m2)
    BY <1>2, <1>3, <1>4, <1>5 DEF Moved
  <2>2. Together(t, m2) /\ InStep(t, m2)
    BY <1>1, <2>1, PlayedTogether
  <2>3. ~t.stopped /\ t.accepting /\ m2.accepting
    BY <1>1, <2>1 DEF PlayedTo
  <2>4. t.board = BoardAfter(p, dest) /\ m2.prev = dest
    BY <2>1 DEF PlayedTo
  <2>5. BoardAfter(p, dest) = BoardAfter(m, dest)
    BY <1>2 DEF BoardAfter
  <2> QED BY <1>2, <1>3, <1>5, <2>2, <2>3, <2>4, <2>5
<1>6. CASE ~ Plays(p, line)
  <2>1. t = GiveUp(p) /\ m2 = GiveUp(m)
    BY <1>2, <1>3, <1>4, <1>6 DEF Moved
  <2>2. /\ t.path = p.path /\ t.count = p.count /\ t.checkpoints = p.checkpoints
        /\ t.contexts = p.contexts /\ m2.path = m.path /\ m2.count = m.count
        /\ m2.checkpoints = m.checkpoints /\ m2.contexts = m.contexts
    BY <2>1, EndedFields
  <2>3. p.path = m.path
    BY <1>1 DEF Together
  <2>4. CASE p.path = <<>>
    <3>1. t.stopped
      BY <2>1, <2>4, GiveUpFields
    <3> QED BY <1>2, <1>3, <1>6, <2>2, <2>4, <3>1 DEF Mainline
  <2>5. CASE p.path # <<>>
    <3>1. ~t.stopped /\ ~m2.stopped /\ ~t.accepting /\ ~m2.accepting
      BY <1>1, <2>1, <2>3, <2>5, GiveUpFields
    <3>2. Together(t, m2)
      BY <1>1, <2>2, <3>1 DEF Together
    <3> QED BY <1>2, <1>3, <1>6, <3>1, <3>2
  <2> QED BY <2>4, <2>5
<1> QED BY <1>5, <1>6

\* A move line that the moves walk alone reads.
LEMMA OneMoves ==
    ASSUME config \in ExtractConfigs, NEW p \in States, NEW m \in States, OwnTrail(p), OwnTrail(m),
           Aligned(p, m), NEW line \in MoveLines, ~ Reading(p), ~p.stopped,
           NEW m2, m2 = Walked(m, line)
    PROVE  /\ Together(p, m2) /\ ~p.accepting /\ (m2.accepting => ReadsOn(m2))
           /\ Reading(m) /\ Plays(m, line) => Limited /\ m2.ply > config.max
<1>1. Together(p, m) /\ ~p.accepting /\ (m.accepting => ReadsOn(m)) /\ ~m.stopped
  BY DEF Aligned, Reading, Together
<1>2. Moved(m, line, m2)
  BY WalkedFields
<1>3. CASE ~ Reading(m)
  BY <1>1, <1>2, <1>3 DEF Moved
<1>4. CASE Reading(m) /\ ~ Plays(m, line)
  <2>1. m2 = GiveUp(m) /\ m.path # <<>>
    BY <1>1, <1>2, <1>4 DEF Moved, Reading, ReadsOn
  <2>2. /\ m2.path = m.path /\ m2.count = m.count /\ m2.checkpoints = m.checkpoints
        /\ m2.contexts = m.contexts
    BY <2>1, EndedFields
  <2>3. ~m2.stopped /\ ~m2.accepting
    BY <1>1, <2>1, GiveUpFields
  <2>4. Together(p, m2)
    BY <1>1, <2>2, <2>3 DEF Together
  <2> QED BY <1>1, <1>4, <2>3, <2>4
<1>5. CASE Reading(m) /\ Plays(m, line)
  <2>1. PICK dest \in Nat : m2 = Played(m, dest)
    BY <1>2, <1>5 DEF Moved
  <2>2. m.accepting /\ ReadsOn(m)
    BY <1>1, <1>5 DEF Reading
  <2>3. Together(p, m2) /\ ReadsOn(m2)
    BY <1>1, <2>1, <2>2, PlayedAlone
  <2>4. Limited /\ m2.ply > config.max
    BY <2>3 DEF ReadsOn
  <2> QED BY <1>1, <2>3, <2>4
<1> QED BY <1>3, <1>4, <1>5

LEMMA ExtractedFields ==
    ASSUME NEW p \in States, OwnTrail(p), NEW line \in MoveLines,
           NEW t, t = Walked(p, line), NEW p2, p2 = Extracted(p, line)
    PROVE  /\ p2 \in States /\ OwnTrail(p2) /\ t \in States /\ OwnTrail(t)
           /\ p2.path = t.path /\ p2.ply = t.ply /\ p2.board = t.board
           /\ p2 = IF Reading(p) /\ Plays(p, line) /\ PastMaxPly(t) THEN GiveUp(t) ELSE t
           /\ PastMaxPly(p2) <=> PastMaxPly(t)
           /\ ~ Reading(p) => p2 = p
<1>1. Moved(p, line, t)
  BY WalkedFields
<1>2. t \in States /\ OwnTrail(t) /\ (~ Reading(p) => t = p)
  BY <1>1 DEF Moved
<1>3. p2 = IF Reading(p) /\ Plays(p, line) /\ PastMaxPly(t) THEN GiveUp(t) ELSE t
  BY DEF Extracted
<1>4. /\ p2 \in States /\ OwnTrail(p2)
      /\ p2.path = t.path /\ p2.ply = t.ply /\ p2.board = t.board
  BY <1>2, <1>3, EndedFields
<1>5. PastMaxPly(p2) <=> PastMaxPly(t)
  BY <1>4 DEF PastMaxPly
<1> QED BY <1>2, <1>3, <1>4, <1>5

LEMMA MoveAligned ==
    ASSUME config \in ExtractConfigs, NEW p \in States, NEW m \in States, OwnTrail(p), OwnTrail(m),
           Aligned(p, m), NEW line \in MoveLines,
           NEW p2, p2 = Extracted(p, line), NEW m2, m2 = Walked(m, line)
    PROVE  Aligned(p2, m2)
<1> DEFINE t == Walked(p, line)
<1>1. /\ p2 \in States /\ t \in States /\ OwnTrail(t) /\ p2.path = t.path /\ p2.ply = t.ply
      /\ p2 = IF Reading(p) /\ Plays(p, line) /\ PastMaxPly(t) THEN GiveUp(t) ELSE t
      /\ ~ Reading(p) => p2 = p
  BY ExtractedFields
<1>2. CASE p.stopped
  BY <1>1, <1>2 DEF Reading, Aligned
<1>3. CASE ~p.stopped /\ ~ Reading(p)
  <2>1. p2 = p /\ Together(p, m2) /\ ~p.accepting /\ (m2.accepting => ReadsOn(m2))
    BY <1>1, <1>3, OneMoves
  <2> QED BY <1>3, <2>1 DEF Aligned
<1>4. CASE Reading(p) /\ ~ Plays(p, line)
  <2>1. /\ t.stopped => Mainline(t)
        /\ ~t.stopped => Together(t, m2) /\ ~t.accepting /\ ~m2.accepting
    BY <1>4, BothMove
  <2>2. p2 = t
    BY <1>1, <1>4
  <2> HIDE DEF t
  <2> QED BY <2>1, <2>2 DEF Aligned
<1>5. CASE Reading(p) /\ Plays(p, line)
  <2>1. /\ Together(t, m2) /\ InStep(t, m2) /\ ~t.stopped /\ t.accepting /\ m2.accepting
    BY <1>5, BothMove
  <2> HIDE DEF t
  <2>2. CASE ~ PastMaxPly(t)
    <3>1. p2 = t
      BY <1>1, <2>2
    <3> QED BY <2>1, <3>1 DEF Aligned
  <2>3. CASE PastMaxPly(t) /\ t.path = <<>>
    <3>1. p2 = GiveUp(t)
      BY <1>1, <1>5, <2>3
    <3>2. p2.stopped /\ p2.path = <<>>
      BY <1>1, <2>3, <3>1, GiveUpFields
    <3> QED BY <3>2 DEF Aligned, Mainline
  <2>4. CASE PastMaxPly(t) /\ t.path # <<>>
    <3>1. p2 = GiveUp(t)
      BY <1>1, <1>5, <2>4
    <3>2. ~p2.stopped /\ ~p2.accepting
      BY <1>1, <2>1, <2>4, <3>1, GiveUpFields
    <3>3. /\ p2.count = t.count /\ p2.checkpoints = t.checkpoints /\ p2.contexts = t.contexts
      BY <1>1, <3>1, EndedFields
    <3>4. Together(p2, m2)
      BY <1>1, <2>1, <3>3 DEF Together
    <3>5. ReadsOn(m2)
      BY <2>1, <2>4 DEF Together, InStep, ReadsOn, PastMaxPly, Limited
    <3> QED BY <3>2, <3>4, <3>5 DEF Aligned
  <2> QED BY <2>2, <2>3, <2>4
<1> QED BY <1>2, <1>3, <1>4, <1>5 DEF Reading

\* The raw move of the moves walk, and whether the filter of positions lets it through.
RawMove(m, m2) == [path |-> m2.path, ply |-> m2.ply, before |-> m.board, dest |-> m2.prev]
Through(e) == Wanted(e.ply) /\ (Limited => e.ply <= config.max)

\* The position kept after a move line is that of the raw move; none is kept where the
\* filter would let the raw move through.
LEMMA SamePosition ==
    ASSUME config \in ExtractConfigs, NEW p \in States, NEW m \in States, OwnTrail(p), OwnTrail(m),
           Aligned(p, m), ~p.stopped, NEW line \in MoveLines,
           NEW p2, p2 = Extracted(p, line), NEW m2, m2 = Walked(m, line),
           NEW e, e = RawMove(m, m2)
    PROVE  /\ Reading(p) /\ Plays(p, line) /\ ~ PastMaxPly(p2) /\ Wanted(p2.ply) =>
                  /\ Reading(m) /\ Plays(m, line) /\ Through(e)
                  /\ e.path = p2.path /\ e.ply = p2.ply /\ After(e) = p2.board
           /\ Reading(m) /\ Plays(m, line) /\ Through(e) =>
                  Reading(p) /\ Plays(p, line) /\ ~ PastMaxPly(p2) /\ Wanted(p2.ply)
<1>1. e.path = m2.path /\ e.ply = m2.ply /\ After(e) = BoardAfter(m, m2.prev)
  BY DEF RawMove, After, BoardAfter
<1>2. m2.ply \in Nat /\ (Limited => config.max \in Nat)
  <2>1. Moved(m, line, m2)
    BY WalkedFields
  <2>2. m2 \in States
    BY <2>1 DEF Moved
  <2> QED BY <2>2, Fields, MaxType
<1>3. CASE ~ Reading(p)
  <2>1. Reading(m) /\ Plays(m, line) => Limited /\ m2.ply > config.max
    BY <1>3, OneMoves
  <2> QED BY <1>1, <1>2, <1>3, <2>1 DEF Through
<1>4. CASE Reading(p)
  <2> DEFINE t == Walked(p, line)
  <2>1. p2.path = t.path /\ p2.ply = t.ply /\ p2.board = t.board
    BY ExtractedFields
  <2>2. /\ Reading(m) /\ (Plays(p, line) <=> Plays(m, line))
        /\ Plays(p, line) => Together(t, m2) /\ InStep(t, m2) /\ t.board = BoardAfter(m, m2.prev)
    BY <1>4, BothMove
  <2> HIDE DEF t
  <2>3. Plays(p, line) => p2.path = m2.path /\ p2.ply = m2.ply /\ p2.board = BoardAfter(m, m2.prev)
    BY <2>1, <2>2 DEF Together, InStep
  <2>4. Plays(p, line) => (~ PastMaxPly(p2) <=> (Limited => m2.ply <= config.max))
    BY <1>2, <2>3 DEF PastMaxPly, Limited
  <2> QED BY <1>1, <1>4, <2>2, <2>3, <2>4 DEF Through
<1> QED BY <1>3, <1>4

-----------------------------------------------------------------------------
(* The records.                                                            *)

RawMoves == [path : Paths, ply : Nat, before : Boards, dest : Nat]
Positions == [path : Paths, ply : Nat, board : Boards]

LEMMA MoreMoves ==
    ASSUME NEW rs \in Seq(RawMoves), NEW e
    PROVE  /\ Through(e) => WantedMoves(Append(rs, e)) = WantedMoves(rs) \union {e}
           /\ ~ Through(e) => WantedMoves(Append(rs, e)) = WantedMoves(rs)
<1>1. ToSet(Append(rs, e)) = ToSet(rs) \union {e}
  BY ToSetAppend
<1> QED BY <1>1 DEF WantedMoves, Through

\* A move the filter does not let through, or that is behind the end of the positions walk.
LEMMA OnlyMoves ==
    ASSUME NEW rs \in Seq(RawMoves), NEW qs, NEW p, NEW p2, PositionsInv(p, rs, qs), NEW e,
           p.stopped \/ ~ Through(e), p.stopped => p2.stopped
    PROVE  PositionsInv(p2, Append(rs, e), qs)
<1>1. CASE ~ Through(e)
  <2>1. WantedMoves(Append(rs, e)) = WantedMoves(rs)
    BY <1>1, MoreMoves
  <2>2. Whole(Append(rs, e)) = Whole(rs)
    BY <2>1 DEF Whole
  <2> QED BY <2>1, <2>2 DEF PositionsInv
<1>2. CASE Through(e) /\ p.stopped
  <2>1. WantedMoves(rs) \subseteq WantedMoves(Append(rs, e))
    BY <1>2, MoreMoves
  <2>2. Whole(rs) \subseteq Whole(Append(rs, e))
    BY <2>1 DEF Whole
  <2> QED BY <1>2, <2>2 DEF PositionsInv
<1> QED BY <1>1, <1>2

\* A move and its position, which --dedup may drop.
LEMMA MoveAndPosition ==
    ASSUME NEW rs \in Seq(RawMoves), NEW qs \in Seq(Positions), NEW p, NEW p2,
           ~p.stopped, PositionsInv(p, rs, qs), DistinctInv(qs), NEW e, Through(e),
           NEW r, r.path = e.path, r.ply = e.ply, r.board = After(e),
           NEW new, new = (IF config.dedup /\ r.board \in BoardsOf(qs) THEN qs
                                                                    ELSE Append(qs, r))
    PROVE  PositionsInv(p2, Append(rs, e), new)
<1> DEFINE place == <<e.path, e.ply, After(e)>>
<1>1. WantedMoves(Append(rs, e)) = WantedMoves(rs) \union {e}
  BY MoreMoves
<1>2. /\ Whole(Append(rs, e)) = Whole(rs) \union {place}
      /\ {After(m) : m \in WantedMoves(Append(rs, e))} =
             {After(m) : m \in WantedMoves(rs)} \union {After(e)}
  BY <1>1 DEF Whole
<1>3. CASE config.dedup /\ r.board \in BoardsOf(qs)
  <2>1. new = qs /\ BoardsOf(qs) = {After(m) : m \in WantedMoves(rs)} /\ Found(qs) \subseteq Whole(rs)
    BY <1>3 DEF PositionsInv
  <2> QED BY <1>2, <1>3, <2>1 DEF PositionsInv
<1>4. CASE ~ (config.dedup /\ r.board \in BoardsOf(qs))
  <2>1. ToSet(new) = ToSet(qs) \union {r}
    BY <1>4, ToSetAppend
  <2>2. Found(new) = Found(qs) \union {place} /\ BoardsOf(new) = BoardsOf(qs) \union {After(e)}
    BY <2>1 DEF Found, BoardsOf
  <2> QED BY <1>2, <2>2 DEF PositionsInv
<1> QED BY <1>3, <1>4

LEMMA StaysDistinct ==
    ASSUME NEW qs \in Seq(Positions), DistinctInv(qs), NEW r,
           ~ (config.dedup /\ r.board \in BoardsOf(qs))
    PROVE  DistinctInv(Append(qs, r))
<1>1. SUFFICES ASSUME config.dedup
               PROVE  /\ IsFiniteSet(BoardsOf(Append(qs, r)))
                      /\ Cardinality(BoardsOf(Append(qs, r))) = Len(Append(qs, r))
  BY DEF DistinctInv
<1>2. IsFiniteSet(BoardsOf(qs)) /\ Cardinality(BoardsOf(qs)) = Len(qs)
  BY <1>1 DEF DistinctInv
<1>3. ToSet(Append(qs, r)) = ToSet(qs) \union {r}
  BY ToSetAppend
<1>4. BoardsOf(Append(qs, r)) = BoardsOf(qs) \union {r.board}
  BY <1>3 DEF BoardsOf
<1>5. /\ IsFiniteSet(BoardsOf(qs) \union {r.board})
      /\ Cardinality(BoardsOf(qs) \union {r.board}) = Cardinality(BoardsOf(qs)) + 1
  BY <1>1, <1>2, FS_AddElement
<1>6. Len(Append(qs, r)) = Len(qs) + 1
  OBVIOUS
<1> QED BY <1>2, <1>4, <1>5, <1>6

LEMMA SeenIs == ASSUME NEW board PROVE Seen(board) <=> board \in BoardsOf(records)
BY DEF Seen, BoardsOf, ToSet

-----------------------------------------------------------------------------
(* The steps.                                                              *)

LEMMA InitInv == Init => Inv
<1> SUFFICES ASSUME Init PROVE Inv
  OBVIOUS
<1>1. PICK c \in Cases : config = c[1] /\ budget = c[2]
  BY DEF Init
<1>2. config \in ExtractConfigs /\ budget \in Budgets
  BY <1>1, KifAssumption
<1>3. PICK first \in Colors : walk = [w \in Walks |-> Start(first)]
  BY DEF Init
<1> DEFINE s == Start(first)
<1>4. walk["positions"] = s /\ walk["moves"] = s /\ \A w \in Walks : walk[w] = s
  BY <1>3 DEF Walks
<1>5. /\ s.path = <<>> /\ s.contexts = <<>> /\ ~s.stopped /\ s.accepting
  BY DEF Start
<1>6. s \in States
  <2>1. [first |-> first, moves |-> <<>>] \in Boards
    BY DEF Boards
  <2>2. /\ [board |-> [first |-> first, moves |-> <<>>], prev |-> 0] \in Snapshots
        /\ <<>> \in Paths /\ <<>> \in Seq(Contexts)
    BY <2>1 DEF Snapshots, Paths
  <2> QED BY <2>1, <2>2 DEF Start, States, Snapshot
<1>7. OwnTrail(s)
  BY <1>5 DEF OwnTrail
<1>8. file = <<>> /\ raw = <<>> /\ records = <<>>
  BY DEF Init
<1> HIDE DEF s
<1>9. TypeInv
  BY <1>2, <1>3, <1>4, <1>6, <1>7, <1>8 DEF TypeInv
<1>10. ToSet(records) = {} /\ ToSet(raw) = {}
  BY <1>8 DEF ToSet
<1>11. BoardsOf(records) = {} /\ Found(records) = {} /\ WantedMoves(raw) = {}
  BY <1>10 DEF BoardsOf, Found, WantedMoves
<1>12. DistinctInv(records)
  BY <1>8, <1>11, FS_EmptySet DEF DistinctInv
<1>13. PositionsInv(walk["positions"], raw, records)
  BY <1>11 DEF PositionsInv, Whole
<1>14. Together(s, s) /\ InStep(s, s)
  BY <1>5 DEF Together, InStep
<1>15. WalksInv(walk["positions"], walk["moves"])
  BY <1>4, <1>5, <1>14 DEF WalksInv
<1> QED BY <1>9, <1>12, <1>13, <1>15 DEF Inv

LEMMA ReachShrinks ==
    ASSUME file \in Seq(Lines), NEW line, file' = Append(file, line), config' = config,
           MarkersInReach'
    PROVE  /\ MarkersInReach
           /\ line.kind = "marker" => (Limited => line.n <= config.max + 2)
<1>1. /\ DOMAIN file' = 1..(Len(file) + 1) /\ DOMAIN file = 1..Len(file) /\ Len(file) \in Nat
      /\ \A i \in 1..Len(file) : file'[i] = file[i]
      /\ file'[Len(file) + 1] = line
  OBVIOUS
<1>2. Limited => \A i \in 1..(Len(file) + 1) :
                    file'[i].kind = "marker" => file'[i].n <= config.max + 2
  BY <1>1 DEF MarkersInReach, Limited
<1>3. MarkersInReach
  BY <1>1, <1>2 DEF MarkersInReach, Limited
<1>4. Limited /\ line.kind = "marker" => line.n <= config.max + 2
  <2>1. Len(file) + 1 \in 1..(Len(file) + 1)
    BY <1>1
  <2> QED BY <1>1, <1>2, <2>1
<1> QED BY <1>3, <1>4

\* The invariant after a step, in terms of the walks it leads to.
LEMMA AlignedNext ==
    ASSUME config' = config, NEW p2, NEW m2, Aligned(p2, m2),
           walk'["positions"] = p2, walk'["moves"] = m2
    PROVE  WalksInv(walk["positions"], walk["moves"])'
BY DEF Aligned, WalksInv, Together, InStep, ReadsOn, Mainline, SameContext, SameTrail, Limited

LEMMA TogetherNext ==
    ASSUME config' = config, NEW p2, NEW m2, Together(p2, m2),
           walk'["positions"] = p2, walk'["moves"] = m2
    PROVE  Together(walk["positions"], walk["moves"])'
BY DEF Together, SameContext, SameTrail, Limited

LEMMA PositionsNext ==
    ASSUME config' = config, NEW p2, walk'["positions"] = p2, PositionsInv(p2, raw', records')
    PROVE  PositionsInv(walk["positions"], raw, records)'
BY DEF PositionsInv, Found, Whole, WantedMoves, BoardsOf, After, Limited, Wanted

LEMMA WalksType ==
    ASSUME TypeInv, NEW p, p = walk["positions"], NEW m, m = walk["moves"]
    PROVE  p \in States /\ m \in States /\ OwnTrail(p) /\ OwnTrail(m) /\ config \in ExtractConfigs
BY DEF TypeInv, Walks

\* The walks and the file after a step that makes good walks of them.
LEMMA TypeNext ==
    ASSUME TypeInv, UNCHANGED <<config, budget>>, NEW line \in Lines,
           file' = Append(file, line),
           NEW p2 \in States, NEW m2 \in States, OwnTrail(p2), OwnTrail(m2),
           walk' = [w \in Walks |-> IF w = "moves" THEN m2 ELSE p2],
           raw' \in Seq(RawMoves), records' \in Seq(Positions)
    PROVE  TypeInv' /\ walk'["positions"] = p2 /\ walk'["moves"] = m2
<1>1. walk'["positions"] = p2 /\ walk'["moves"] = m2 /\ walk' = [w \in Walks |-> walk'[w]]
  BY DEF Walks
<1>2. file' \in Seq(Lines)
  BY DEF TypeInv
<1>3. \A w \in Walks : walk'[w] \in States /\ OwnTrail(walk'[w])
  BY <1>1 DEF Walks
<1> QED BY <1>1, <1>2, <1>3 DEF TypeInv, RawMoves, Positions, OwnTrail

LEMMA MoveInv == ASSUME Inv, ReadMove PROVE Inv'
<1>1. PICK m, p : m = walk["moves"] /\ p = walk["positions"]
  OBVIOUS
<1>2. PICK line \in {Move(d) : d \in budget.dests} \union OddMoves :
        LET m2 == Walked(m, line)
            p2 == Extracted(p, line)
        IN  /\ Room(line)
            /\ file' = Append(file, line)
            /\ walk' = [w \in Walks |-> IF w = "moves" THEN m2 ELSE p2]
            /\ raw' = IF Reading(m) /\ Plays(m, line)
                      THEN Append(raw, RawMove(m, m2)) ELSE raw
            /\ records' = IF /\ Reading(p) /\ Plays(p, line) /\ ~PastMaxPly(p2)
                             /\ Wanted(p2.ply) /\ ~(config.dedup /\ Seen(p2.board))
                          THEN Append(records, [path |-> p2.path, ply |-> p2.ply,
                                                board |-> p2.board])
                          ELSE records
            /\ UNCHANGED <<config, budget, outcome>>
  BY <1>1 DEF ReadMove, RawMove
<1>3. PICK m2, p2 : m2 = Walked(m, line) /\ p2 = Extracted(p, line)
  OBVIOUS
<1>4. PICK e, r : e = RawMove(m, m2) /\ r = [path |-> p2.path, ply |-> p2.ply, board |-> p2.board]
  OBVIOUS
<1> DEFINE moves == Reading(m) /\ Plays(m, line)
           keeps == Reading(p) /\ Plays(p, line) /\ ~PastMaxPly(p2) /\ Wanted(p2.ply)
           drops == config.dedup /\ r.board \in BoardsOf(records)
<1>5. /\ Room(line) /\ file' = Append(file, line) /\ UNCHANGED <<config, budget>>
      /\ walk' = [w \in Walks |-> IF w = "moves" THEN m2 ELSE p2]
      /\ raw' = IF moves THEN Append(raw, e) ELSE raw
      /\ records' = IF keeps /\ ~drops THEN Append(records, r) ELSE records
  <2>1. Seen(p2.board) <=> r.board \in BoardsOf(records)
    BY <1>4, SeenIs
  <2> QED BY <1>2, <1>3, <1>4, <2>1
<1>6. TypeInv /\ DistinctInv(records)
  BY DEF Inv
<1>7. line \in MoveLines /\ line \in Lines
  <2>1. budget.dests \subseteq Dests
    BY <1>6, KifAssumption DEF TypeInv
  <2> QED BY <2>1 DEF MoveLines, Lines
<1>8. p \in States /\ m \in States /\ OwnTrail(p) /\ OwnTrail(m) /\ config \in ExtractConfigs
  BY <1>1, <1>6, WalksType
<1>9. p2 \in States /\ OwnTrail(p2) /\ m2 \in States /\ OwnTrail(m2)
  <2>1. Moved(m, line, m2)
    BY <1>3, <1>7, <1>8, WalkedFields
  <2> QED BY <1>3, <1>7, <1>8, <2>1, ExtractedFields DEF Moved
<1>10. raw \in Seq(RawMoves) /\ records \in Seq(Positions)
  BY <1>6 DEF TypeInv, RawMoves, Positions
<1>11. e \in RawMoves /\ r \in Positions
  BY <1>4, <1>8, <1>9, Fields DEF RawMove, RawMoves, Positions
<1>12. raw' \in Seq(RawMoves) /\ records' \in Seq(Positions)
  BY <1>5, <1>10, <1>11
<1>13. TypeInv' /\ walk'["positions"] = p2 /\ walk'["moves"] = m2
  BY <1>5, <1>6, <1>7, <1>9, <1>12, TypeNext
<1>14. DistinctInv(records)'
  <2>1. DistinctInv(records')
    BY <1>5, <1>6, <1>10, StaysDistinct
  <2> QED BY <1>5, <2>1 DEF DistinctInv, BoardsOf
<1>15. ASSUME MarkersInReach'
       PROVE  /\ WalksInv(walk["positions"], walk["moves"])'
              /\ PositionsInv(walk["positions"], raw, records)'
  <2>1. MarkersInReach
    BY <1>5, <1>6, <1>15, ReachShrinks DEF TypeInv
  <2>2. WalksInv(p, m) /\ PositionsInv(p, raw, records)
    BY <1>1, <2>1 DEF Inv
  <2>3. BlockOpen
    BY <1>5, <1>7 DEF Room, MoveLines, OddMoves, Move, Line
  <2>4. Aligned(p, m)
    BY <2>2, <2>3 DEF WalksInv, Aligned
  <2>5. Aligned(p2, m2)
    BY <1>3, <1>7, <1>8, <2>4, MoveAligned
  <2>6. PositionsInv(p2, raw', records')
    <3>1. CASE p.stopped
      <4>1. ~ Reading(p) /\ p2 = p
        BY <1>3, <1>7, <1>8, <3>1, ExtractedFields DEF Reading
      <4>2. records' = records
        BY <1>5, <4>1
      <4>3. PositionsInv(p2, Append(raw, e), records)
        BY <1>10, <2>2, <3>1, <4>1, OnlyMoves
      <4> QED BY <1>5, <2>2, <4>1, <4>2, <4>3
    <3>2. CASE ~p.stopped
      <4>1. /\ keeps => /\ moves /\ Through(e)
                        /\ e.path = p2.path /\ e.ply = p2.ply /\ After(e) = p2.board
            /\ moves /\ Through(e) => keeps
        BY <1>3, <1>4, <1>7, <1>8, <2>4, <3>2, SamePosition
      <4>2. CASE keeps
        <5>1. /\ raw' = Append(raw, e)
              /\ records' = IF drops THEN records ELSE Append(records, r)
          BY <1>5, <4>1, <4>2
        <5>2. Through(e) /\ r.path = e.path /\ r.ply = e.ply /\ r.board = After(e)
          BY <1>4, <4>1, <4>2
        <5> HIDE DEF moves, keeps
        <5> QED BY <1>6, <1>10, <2>2, <3>2, <5>1, <5>2, MoveAndPosition
      <4>3. CASE ~keeps /\ moves
        <5>1. raw' = Append(raw, e) /\ records' = records /\ ~ Through(e)
          BY <1>5, <4>1, <4>3
        <5> QED BY <1>10, <2>2, <3>2, <5>1, OnlyMoves
      <4>4. CASE ~keeps /\ ~moves
        <5>1. raw' = raw /\ records' = records
          BY <1>5, <4>4
        <5> QED BY <2>2, <3>2, <5>1 DEF PositionsInv
      <4> QED BY <4>2, <4>3, <4>4
    <3> QED BY <3>1, <3>2
  <2> QED BY <1>5, <1>13, <2>5, <2>6, AlignedNext, PositionsNext
<1> QED BY <1>13, <1>14, <1>15 DEF Inv

\* A line that changes whether a walk accepts, and nothing else of it.
LEMMA EndedTogether ==
    ASSUME NEW p, NEW m, Together(p, m), NEW p2, NEW m2,
           p2.path = p.path, p2.count = p.count, p2.checkpoints = p.checkpoints,
           p2.contexts = p.contexts, m2.path = m.path, m2.count = m.count,
           m2.checkpoints = m.checkpoints, m2.contexts = m.contexts, ~m2.stopped
    PROVE  Together(p2, m2)
BY DEF Together

\* A terminal line for the walk over positions.
TerminalPosition(p, line) ==
    IF p.stopped THEN p
    ELSE CASE line.kind \in {"summary", "resign"} -> EndBlock(p)
           [] line.kind = "drawn" /\ p.accepting -> GiveUp(p)
           [] OTHER -> p

LEMMA TerminalPositionFields ==
    ASSUME NEW p \in States, OwnTrail(p), NEW line \in Terminals,
           NEW p2, p2 = TerminalPosition(p, line)
    PROVE  /\ p2 \in States /\ OwnTrail(p2)
           /\ p2.path = p.path /\ p2.count = p.count
           /\ p2.checkpoints = p.checkpoints /\ p2.contexts = p.contexts
           /\ p.stopped => p2 = p
           /\ p2.stopped => p.stopped \/ Mainline(p2)
<1>1. p2 = p \/ p2 = EndBlock(p) \/ p2 = GiveUp(p)
  BY DEF TerminalPosition
<1>2. /\ p2 \in States /\ OwnTrail(p2)
      /\ p2.path = p.path /\ p2.count = p.count
      /\ p2.checkpoints = p.checkpoints /\ p2.contexts = p.contexts
  BY <1>1, EndedFields
<1>3. /\ EndBlock(p).stopped = p.stopped /\ ~ EndBlock(p).accepting
      /\ p.path = <<>> => GiveUp(p).stopped
      /\ p.path # <<>> => GiveUp(p).stopped = p.stopped /\ ~ GiveUp(p).accepting
  BY EndBlockFields, GiveUpFields
<1>4. p.stopped => p2 = p
  BY DEF TerminalPosition
<1>5. p2.stopped => p.stopped \/ Mainline(p2)
  BY <1>1, <1>2, <1>3 DEF Mainline
<1> QED BY <1>2, <1>4, <1>5

LEMMA TerminalInv == ASSUME Inv, ReadTerminal PROVE Inv'
<1>1. PICK m, p : m = walk["moves"] /\ p = walk["positions"]
  OBVIOUS
<1>2. PICK line \in Terminals :
        LET inline == line.kind \in {"resign", "drawn"}
            seen == ~m.stopped /\ (inline => m.accepting)
        IN  /\ Room(line)
            /\ file' = Append(file, line)
            /\ walk' = [w \in Walks |->
                   IF w = "moves" THEN IF seen THEN EndBlock(m) ELSE m
                   ELSE TerminalPosition(p, line)]
            /\ UNCHANGED <<config, budget, raw, records>>
  BY <1>1 DEF ReadTerminal, TerminalPosition
<1> DEFINE seen == ~m.stopped /\ (line.kind \in {"resign", "drawn"} => m.accepting)
<1>3. PICK m2, p2 : m2 = (IF seen THEN EndBlock(m) ELSE m) /\ p2 = TerminalPosition(p, line)
  OBVIOUS
<1>4. /\ Room(line) /\ file' = Append(file, line)
      /\ walk' = [w \in Walks |-> IF w = "moves" THEN m2 ELSE p2]
      /\ UNCHANGED <<config, budget, raw, records>>
  BY <1>2, <1>3
<1>5. TypeInv /\ DistinctInv(records)
  BY DEF Inv
<1>6. p \in States /\ m \in States /\ OwnTrail(p) /\ OwnTrail(m) /\ config \in ExtractConfigs
  BY <1>1, <1>5, WalksType
<1>7. /\ p2 \in States /\ OwnTrail(p2)
      /\ p2.path = p.path /\ p2.count = p.count
      /\ p2.checkpoints = p.checkpoints /\ p2.contexts = p.contexts
      /\ p.stopped => p2 = p
      /\ p2.stopped => p.stopped \/ Mainline(p2)
  BY <1>3, <1>6, TerminalPositionFields
<1>8. /\ m2 \in States /\ OwnTrail(m2)
      /\ m2.path = m.path /\ m2.count = m.count
      /\ m2.checkpoints = m.checkpoints /\ m2.contexts = m.contexts
      /\ m2.stopped = m.stopped /\ (~m.stopped => ~m2.accepting)
  <2>1. CASE seen
    BY <1>3, <1>6, <2>1, EndedFields, EndBlockFields
  <2>2. CASE ~seen
    BY <1>3, <1>6, <2>2
  <2> QED BY <2>1, <2>2
<1>9. line \in Lines
  BY DEF Lines
<1>10. raw' \in Seq(RawMoves) /\ records' \in Seq(Positions)
  BY <1>4, <1>5 DEF TypeInv, RawMoves, Positions
<1>11. TypeInv' /\ walk'["positions"] = p2 /\ walk'["moves"] = m2
  BY <1>4, <1>5, <1>7, <1>8, <1>9, <1>10, TypeNext
<1>12. DistinctInv(records)'
  BY <1>4, <1>5 DEF DistinctInv, BoardsOf
<1>13. ASSUME MarkersInReach'
       PROVE  /\ WalksInv(walk["positions"], walk["moves"])'
              /\ PositionsInv(walk["positions"], raw, records)'
  <2>1. MarkersInReach
    BY <1>4, <1>5, <1>13, ReachShrinks DEF TypeInv
  <2>2. WalksInv(p, m) /\ PositionsInv(p, raw, records)
    BY <1>1, <2>1 DEF Inv
  <2>3. ~ BlockOpen'
    BY <1>4, <1>5, LastMarkerIsBefore DEF TypeInv
  <2>4. p2.stopped => Mainline(p2)
    BY <1>7, <2>2 DEF WalksInv
  <2>5. ~p2.stopped => Together(p2, m2) /\ ~m2.accepting
    <3> SUFFICES ASSUME ~p2.stopped PROVE Together(p2, m2) /\ ~m2.accepting
      OBVIOUS
    <3>1. ~p.stopped
      BY <1>7
    <3>2. Together(p, m) /\ ~m.stopped
      BY <2>2, <3>1 DEF WalksInv, Together
    <3>3. Together(p2, m2)
      BY <1>7, <1>8, <3>2, EndedTogether
    <3> QED BY <1>8, <3>2, <3>3
  <2>6. WalksInv(walk["positions"], walk["moves"])'
    <3>1. ~p2.stopped => Together(walk["positions"], walk["moves"])'
      BY <1>4, <1>11, <2>5, TogetherNext
    <3> QED BY <1>11, <2>3, <2>4, <2>5, <3>1 DEF WalksInv, Mainline
  <2>7. PositionsInv(p2, raw', records')
    BY <1>4, <1>7, <2>2 DEF PositionsInv
  <2> QED BY <1>4, <1>11, <2>6, <2>7, PositionsNext
<1> QED BY <1>11, <1>12, <1>13 DEF Inv

LEMMA MarkerInv == ASSUME Inv, ReadMarker PROVE Inv'
<1>1. PICK m, p : m = walk["moves"] /\ p = walk["positions"]
  OBVIOUS
<1>2. PICK n \in 0..(budget.moves + 1), indent \in 0..(budget.markers - 1) :
        /\ file' = Append(file, Marker(n, indent))
        /\ walk' = [w \in Walks |->
               IF walk[w].stopped THEN walk[w] ELSE AtMarker(walk[w], n, indent)]
        /\ UNCHANGED <<config, budget, raw, records, outcome>>
  BY DEF ReadMarker
<1>3. TypeInv /\ DistinctInv(records)
  BY DEF Inv
<1>4. n \in Nat /\ indent \in Nat
  <2>1. budget.moves \in Nat /\ budget.markers \in Nat
    BY <1>3, KifAssumption DEF TypeInv
  <2> QED BY <2>1
<1>5. p \in States /\ m \in States /\ OwnTrail(p) /\ OwnTrail(m) /\ config \in ExtractConfigs
  BY <1>1, <1>3, WalksType
<1>6. PICK m2, p2 : /\ m2 = (IF m.stopped THEN m ELSE AtMarker(m, n, indent))
                   /\ p2 = (IF p.stopped THEN p ELSE AtMarker(p, n, indent))
  OBVIOUS
<1>7. walk' = [w \in Walks |-> IF w = "moves" THEN m2 ELSE p2]
  BY <1>1, <1>2, <1>6 DEF Walks
<1>8. \A s \in States : OwnTrail(s) =>
         LET t == AtMarker(s, n, indent)
         IN  t \in States /\ OwnTrail(t) /\ t.stopped = s.stopped
  <2> TAKE s \in States
  <2> HAVE OwnTrail(s)
  <2>1. Marked(s, Parent(s, indent), n, indent, AtMarker(s, n, indent))
    BY <1>4, AtMarkerFields, Zenon
  <2> QED BY <2>1 DEF Marked
<1>9. /\ p2 \in States /\ OwnTrail(p2) /\ p2.stopped = p.stopped
      /\ m2 \in States /\ OwnTrail(m2) /\ m2.stopped = m.stopped
      /\ p.stopped => p2 = p
  BY <1>5, <1>6, <1>8
<1>10. Marker(n, indent) \in Lines /\ Marker(n, indent).kind = "marker" /\ Marker(n, indent).n = n
  BY <1>4 DEF Lines, Marker
<1>11. raw' \in Seq(RawMoves) /\ records' \in Seq(Positions)
  BY <1>2, <1>3 DEF TypeInv, RawMoves, Positions
<1>12. TypeInv' /\ walk'["positions"] = p2 /\ walk'["moves"] = m2
  BY <1>2, <1>3, <1>7, <1>9, <1>10, <1>11, TypeNext
<1>13. DistinctInv(records)'
  BY <1>2, <1>3 DEF DistinctInv, BoardsOf
<1>14. ASSUME MarkersInReach'
       PROVE  /\ WalksInv(walk["positions"], walk["moves"])'
              /\ PositionsInv(walk["positions"], raw, records)'
  <2>1. MarkersInReach /\ (Limited => n <= config.max + 2)
    BY <1>2, <1>3, <1>10, <1>14, ReachShrinks DEF TypeInv
  <2>2. WalksInv(p, m) /\ PositionsInv(p, raw, records)
    BY <1>1, <2>1 DEF Inv
  <2>3. Aligned(p2, m2)
    <3>1. CASE p.stopped
      BY <1>9, <2>2, <3>1 DEF WalksInv, Aligned
    <3>2. CASE ~p.stopped
      <4>1. Together(p, m) /\ ~m.stopped
        BY <2>2, <3>2 DEF WalksInv, Together
      <4>2. p2 = AtMarker(p, n, indent) /\ m2 = AtMarker(m, n, indent)
        BY <1>6, <3>2, <4>1
      <4>3. /\ Together(p2, m2) /\ p2.accepting = m2.accepting
            /\ p2.accepting => InStep(p2, m2)
        BY <1>4, <1>5, <2>1, <4>1, <4>2, MarkerTogether
      <4> QED BY <1>9, <3>2, <4>3 DEF Aligned
    <3> QED BY <3>1, <3>2
  <2>4. PositionsInv(p2, raw', records')
    BY <1>2, <1>9, <2>2 DEF PositionsInv
  <2> QED BY <1>2, <1>12, <2>3, <2>4, AlignedNext, PositionsNext
<1> QED BY <1>12, <1>13, <1>14 DEF Inv

LEMMA StutterInv == ASSUME Inv, UNCHANGED vars PROVE Inv'
<1>1. UNCHANGED <<file, config, budget, walk, raw, records>>
  BY DEF vars
<1>2. TypeInv' /\ DistinctInv(records)' /\ (MarkersInReach' <=> MarkersInReach)
  BY <1>1 DEF Inv, TypeInv, OwnTrail, DistinctInv, BoardsOf, MarkersInReach
<1>3. PositionsInv(walk["positions"], raw, records)' <=>
          PositionsInv(walk["positions"], raw, records)
  BY <1>1 DEF PositionsInv, Found, Whole, BoardsOf, WantedMoves, After, Limited, Wanted
<1>4. BlockOpen' <=> BlockOpen
  BY <1>1 DEF BlockOpen, LastMarker
<1>5. WalksInv(walk["positions"], walk["moves"])' <=>
          WalksInv(walk["positions"], walk["moves"])
  BY <1>1, <1>4 DEF WalksInv, Together, InStep, ReadsOn, Mainline, SameContext, SameTrail, Limited
<1> QED BY <1>2, <1>3, <1>5 DEF Inv

-----------------------------------------------------------------------------
(* Theorems.                                                               *)

\* Types, and how the two walks compare after every line.
THEOREM InvHolds == Spec => []Inv
<1>1. Inv /\ [Next]_vars => Inv'
  BY MoveInv, TerminalInv, MarkerInv, StutterInv DEF Next
<1> QED BY <1>1, InitInv, PTL DEF Spec

\* The positions that extract_from_str keeps are those after the moves of
\* extract_moves_from_str that the filter lets through, for any game and configuration.
THEOREM WalksAgreeHolds == Spec => []WalksAgree
<1>1. Inv => WalksAgree
  <2> SUFFICES ASSUME Inv, MarkersInReach PROVE WalksAgree
    BY DEF WalksAgree
  <2> DEFINE p == walk["positions"]
  <2>1. /\ Found(records) \subseteq Whole(raw)
        /\ ~p.stopped => IF config.dedup
                         THEN BoardsOf(records) = {After(m) : m \in WantedMoves(raw)}
                         ELSE Found(records) = Whole(raw)
        /\ p.stopped => Mainline(p)
        /\ config.dedup => Cardinality(BoardsOf(records)) = Len(records)
    BY DEF Inv, PositionsInv, WalksInv, DistinctInv
  <2> QED BY <2>1 DEF WalksAgree, Found, Whole, BoardsOf, WantedMoves, After, Limited
<1> QED BY <1>1, InvHolds, PTL

-----------------------------------------------------------------------------
(* The moves walk against the tree of the file.                            *)

Blocks == [name : Paths, from : Nat, indent : Nat, line : Seq(Nat \ {0})]
Trees == [open : BOOLEAN, blocks : Seq(Blocks)]

\* The mainline has no name, and the last number of a variation's is its own.
Named(B) ==
    /\ Len(B) >= 1 /\ B[1].name = <<>>
    /\ \A b \in 2..Len(B) : B[b].name # <<>> /\ B[b].name[Len(B[b].name)].id + 1 = b
    /\ \A b \in 1..Len(B) : B[b].from \in 1..(Len(B[b].line) + 1)

\* Snapshots after every move of a line of play.
Previous(line) == IF line = <<>> THEN 0 ELSE line[Len(line)]
Retraces(trail, line) ==
    /\ Len(trail) = Len(line) + 1
    /\ \A k \in 1..Len(trail) : /\ trail[k].board.moves = SubSeq(line, 1, k - 1)
                                /\ trail[k].prev = Previous(SubSeq(line, 1, k - 1))

\* What the walk has in hand is the last block.
InHand(s, B) ==
    LET here == B[Len(B)]
    IN  /\ s.count + 1 = Len(B) /\ s.path = here.name
        /\ s.board.moves = here.line /\ s.prev = Previous(here.line) /\ s.ply = Len(here.line)
        /\ Retraces(s.checkpoints, B[1].line)

\* The block of a context.
BlockOf(c) == c.path[Len(c.path)].id + 1

OfBlock(c, B) ==
    LET b == BlockOf(c)
    IN  /\ c.path # <<>> /\ b \in 2..Len(B)
        /\ c.path = B[b].name /\ c.from = B[b].from /\ c.indent = B[b].indent
        /\ Retraces(c.trail, B[b].line)

\* The contexts are of blocks, in their order up to the last, and a block that has none
\* has after it one that is no more indented: the nearest outer one is never it.
Stacked(cs, B) ==
    /\ \A i \in 1..Len(cs) : OfBlock(cs[i], B)
    /\ \A i, j \in 1..Len(cs) : i < j => BlockOf(cs[i]) < BlockOf(cs[j])
    /\ cs # <<>> => BlockOf(cs[Len(cs)]) = Len(B)
    /\ \A b \in 2..Len(B) :
           \E i \in 1..Len(cs) : BlockOf(cs[i]) >= b /\ cs[i].indent <= B[b].indent

\* A walk that is given up on the mainline has read all of it.
Follows(s, T) ==
    /\ T \in Trees /\ Named(T.blocks)
    /\ s.stopped => Len(T.blocks) # 1 \/ ~T.open
    /\ ~s.stopped => /\ T.open <=> s.accepting
                     /\ InHand(s, T.blocks) /\ Stacked(s.contexts, T.blocks)

\* The moves of blocks and the moves read.
Reached(s, B) == IF s.stopped THEN {1} ELSE 1..Len(B)
Places(block) == {<<block.name, p, SubSeq(block.line, 1, p)>> : p \in block.from..Len(block.line)}
PlaceOf(m) == <<m.path, m.ply, Append(m.before.moves, m.dest)>>
ReadOnce(s, B, rs) ==
    /\ {PlaceOf(m) : m \in ToSet(rs)} = UNION {Places(B[b]) : b \in Reached(s, B)}
    /\ \A i, j \in 1..Len(rs) : rs[i] = rs[j] => i = j

TreeInv ==
    /\ Follows(walk["moves"], TreeOf(file))
    /\ ReadOnce(walk["moves"], TreeOf(file).blocks, raw)

-----------------------------------------------------------------------------
(* Lines of play and their snapshots.                                      *)

LEMMA PrefixFacts ==
    ASSUME NEW S, NEW line \in Seq(S), NEW n \in 0..Len(line)
    PROVE  /\ SubSeq(line, 1, n) \in Seq(S) /\ Len(SubSeq(line, 1, n)) = n
           /\ \A i \in 1..n : SubSeq(line, 1, n)[i] = line[i]
           /\ \A k \in 0..n : SubSeq(SubSeq(line, 1, n), 1, k) = SubSeq(line, 1, k)
           /\ SubSeq(line, 1, Len(line)) = line
<1>1. Len(line) \in Nat /\ \A i \in 1..Len(line) : line[i] \in S
  OBVIOUS
<1>2. ASSUME NEW k \in 0..Len(line)
      PROVE  /\ SubSeq(line, 1, k) \in Seq(S) /\ Len(SubSeq(line, 1, k)) = k
             /\ \A i \in 1..k : SubSeq(line, 1, k)[i] = line[i]
  BY <1>1
<1>3. ASSUME NEW k \in 0..n
      PROVE  SubSeq(SubSeq(line, 1, n), 1, k) = SubSeq(line, 1, k)
  <2> DEFINE cut == SubSeq(line, 1, n)
             s == SubSeq(cut, 1, k)
             t == SubSeq(line, 1, k)
  <2>1. cut \in Seq(S) /\ Len(cut) = n /\ \A i \in 1..n : cut[i] = line[i]
    BY <1>2
  <2>2. t \in Seq(S) /\ Len(t) = k /\ \A i \in 1..k : t[i] = line[i]
    BY <1>2
  <2> HIDE DEF cut
  <2>3. s \in Seq(S) /\ Len(s) = k /\ \A i \in 1..k : s[i] = cut[i]
    BY <2>1
  <2> HIDE DEF s, t
  <2>4. Len(s) = Len(t) /\ \A i \in 1..Len(s) : s[i] = t[i]
    BY <2>1, <2>2, <2>3
  <2>5. s = t
    BY <2>2, <2>3, <2>4, SeqEqual
  <2> QED BY <2>5 DEF s, t, cut
<1>4. SubSeq(line, 1, Len(line)) = line
  BY SubSeqFull
<1> QED BY <1>2, <1>3, <1>4

LEMMA LongerLine ==
    ASSUME NEW S, NEW line \in Seq(S), NEW d \in S, NEW more, more = Append(line, d)
    PROVE  /\ more \in Seq(S) /\ Len(more) = Len(line) + 1 /\ more[Len(more)] = d
           /\ more # <<>>
           /\ \A k \in 0..Len(line) : SubSeq(more, 1, k) = SubSeq(line, 1, k)
           /\ SubSeq(more, 1, Len(more)) = more
<1>1. /\ more \in Seq(S) /\ Len(more) = Len(line) + 1 /\ more[Len(more)] = d /\ more # <<>>
      /\ Len(line) \in Nat /\ \A i \in 1..Len(line) : more[i] = line[i]
  BY AppendFacts
<1>2. ASSUME NEW k \in 0..Len(line)
      PROVE  SubSeq(more, 1, k) = SubSeq(line, 1, k)
  <2> DEFINE s == SubSeq(more, 1, k)
             t == SubSeq(line, 1, k)
  <2>1. t \in Seq(S) /\ Len(t) = k /\ \A i \in 1..k : t[i] = line[i]
    BY PrefixFacts
  <2>2. k \in 0..Len(more)
    BY <1>1
  <2>3. s \in Seq(S) /\ Len(s) = k /\ \A i \in 1..k : s[i] = more[i]
    BY <1>1, <2>2, PrefixFacts
  <2> HIDE DEF s, t
  <2>4. Len(s) = Len(t) /\ \A i \in 1..Len(s) : s[i] = t[i]
    BY <1>1, <2>1, <2>3
  <2>5. s = t
    BY <2>1, <2>3, <2>4, SeqEqual
  <2> QED BY <2>5 DEF s, t
<1>3. SubSeq(more, 1, Len(more)) = more
  BY <1>1, SubSeqFull
<1> QED BY <1>1, <1>2, <1>3

\* The snapshots up to a branch are those of the line up to it.
LEMMA RetraceCut ==
    ASSUME NEW S, NEW line \in Seq(S), NEW trail \in Seq(Snapshots), Retraces(trail, line),
           NEW n \in 1..Len(trail)
    PROVE  Retraces(SubSeq(trail, 1, n), SubSeq(line, 1, n - 1))
<1>1. Len(trail) = Len(line) + 1 /\ Len(line) \in Nat
  BY DEF Retraces
<1>2. n - 1 \in 0..Len(line) /\ n \in 0..Len(trail)
  BY <1>1
<1> DEFINE cut == SubSeq(trail, 1, n)
           before == SubSeq(line, 1, n - 1)
<1>3. Len(cut) = n /\ \A k \in 1..n : cut[k] = trail[k]
  BY <1>2, PrefixFacts
<1>4. Len(before) = n - 1 /\ \A k \in 0..n - 1 : SubSeq(before, 1, k) = SubSeq(line, 1, k)
  BY <1>2, PrefixFacts
<1> HIDE DEF cut, before
<1>5. ASSUME NEW k \in 1..n
      PROVE  /\ cut[k].board.moves = SubSeq(before, 1, k - 1)
             /\ cut[k].prev = Previous(SubSeq(before, 1, k - 1))
  <2>1. k \in 1..Len(trail) /\ k - 1 \in 0..n - 1
    BY <1>1
  <2> QED BY <1>3, <1>4, <2>1 DEF Retraces
<1>6. Retraces(cut, before)
  BY <1>3, <1>4, <1>5 DEF Retraces
<1> QED BY <1>6 DEF cut, before

\* A snapshot more for a move more.
LEMMA RetraceMore ==
    ASSUME NEW S, NEW line \in Seq(S), NEW d \in S, NEW trail \in Seq(Snapshots),
           Retraces(trail, line), NEW snap \in Snapshots,
           snap.board.moves = Append(line, d), snap.prev = d
    PROVE  Retraces(Append(trail, snap), Append(line, d))
<1> DEFINE longer == Append(trail, snap)
<1>0. PICK more : more = Append(line, d)
  OBVIOUS
<1>1. /\ Len(more) = Len(line) + 1 /\ more[Len(more)] = d /\ more # <<>> /\ Len(line) \in Nat
      /\ \A k \in 0..Len(line) : SubSeq(more, 1, k) = SubSeq(line, 1, k)
      /\ SubSeq(more, 1, Len(more)) = more
  BY <1>0, LongerLine
<1>2. /\ Len(longer) = Len(trail) + 1 /\ longer[Len(trail) + 1] = snap
      /\ \A k \in 1..Len(trail) : longer[k] = trail[k]
  BY AppendFacts
<1>3. Len(trail) = Len(line) + 1
  BY DEF Retraces
<1>4. snap.board.moves = more
  BY <1>0
<1> HIDE DEF longer
<1>5. ASSUME NEW k \in 1..Len(longer)
      PROVE  /\ longer[k].board.moves = SubSeq(more, 1, k - 1)
             /\ longer[k].prev = Previous(SubSeq(more, 1, k - 1))
  <2>1. CASE k = Len(longer)
    <3>1. longer[k] = snap /\ SubSeq(more, 1, k - 1) = more
      BY <1>1, <1>2, <1>3, <2>1
    <3>2. Previous(more) = d
      BY <1>1 DEF Previous
    <3> QED BY <1>4, <3>1, <3>2
  <2>2. CASE k # Len(longer)
    <3>1. k \in 1..Len(trail) /\ k - 1 \in 0..Len(line)
      BY <1>2, <1>3, <2>2
    <3>2. longer[k] = trail[k] /\ SubSeq(more, 1, k - 1) = SubSeq(line, 1, k - 1)
      BY <1>1, <1>2, <3>1
    <3> QED BY <3>1, <3>2 DEF Retraces
  <2> QED BY <2>1, <2>2
<1>6. Len(longer) = Len(more) + 1
  BY <1>1, <1>2, <1>3
<1>7. Retraces(longer, more)
  BY <1>5, <1>6 DEF Retraces
<1> QED BY <1>0, <1>7 DEF longer

-----------------------------------------------------------------------------
(* The tree of a file, line by line.                                       *)

LEMMA LeastOf ==
    ASSUME NEW T, T \subseteq Nat, T # {}
    PROVE  \E x \in T : \A y \in T : x <= y
<1> DEFINE R == OpToRel(<, Nat)
<1>1. IsWellFoundedOn(R, Nat)
  BY NatLessThanWellFounded
<1> HIDE DEF R
<1>2. PICK x \in T : \A y \in T : ~ (<<y, x>> \in R)
  BY <1>1, WFMin
<1>3. \A y \in T : y < x => <<y, x>> \in R
  BY Zenon DEF R, OpToRel
<1>4. \A y \in T : ~ (y < x)
  BY <1>2, <1>3
<1>5. x \in Nat /\ \A y \in T : y \in Nat
  OBVIOUS
<1>6. \A y \in T : x <= y
  BY <1>4, <1>5
<1> QED BY <1>6

\* The trees of the first lines, up to n of them.
TreesOf(f, lines, n) ==
    f = [k \in 0..n |-> IF k = 0 THEN Root ELSE Read(f[k - 1], lines[k])]

LEMMA TreesExtend ==
    ASSUME NEW lines, NEW n \in Nat \ {0}, NEW f, TreesOf(f, lines, n - 1)
    PROVE  \E g : TreesOf(g, lines, n)
<1> DEFINE g == [k \in 0..n |-> IF k = n THEN Read(f[n - 1], lines[n]) ELSE f[k]]
<1>1. f = [k \in 0..n - 1 |-> IF k = 0 THEN Root ELSE Read(f[k - 1], lines[k])]
  BY DEF TreesOf
<1>2. \A k \in 0..n : g[k] = IF k = 0 THEN Root ELSE Read(g[k - 1], lines[k])
  <2> TAKE k \in 0..n
  <2>1. CASE k = 0
    BY <1>1, <2>1
  <2>2. CASE k = n
    <3>1. n - 1 \in 0..n /\ n - 1 # n /\ n \in 0..n /\ n # 0
      OBVIOUS
    <3>2. g[n - 1] = f[n - 1] /\ g[n] = Read(f[n - 1], lines[n])
      BY <3>1
    <3> QED BY <2>2, <3>1, <3>2
  <2>3. CASE k # 0 /\ k # n
    <3>1. k \in 0..n - 1 /\ k - 1 \in 0..n /\ k - 1 # n
      BY <2>3
    <3>2. g[k] = f[k] /\ g[k - 1] = f[k - 1]
      BY <2>3, <3>1
    <3>3. f[k] = Read(f[k - 1], lines[k])
      BY <1>1, <2>3, <3>1
    <3> QED BY <2>3, <3>2, <3>3
  <2> QED BY <2>1, <2>2, <2>3
<1>3. g = [k \in 0..n |-> g[k]]
  OBVIOUS
<1> HIDE DEF g
<1>4. g = [k \in 0..n |-> IF k = 0 THEN Root ELSE Read(g[k - 1], lines[k])]
  BY <1>2, <1>3
<1> QED BY <1>4 DEF TreesOf

LEMMA TreesExist ==
    ASSUME NEW lines, NEW n \in Nat
    PROVE  \E f : TreesOf(f, lines, n)
<1> DEFINE T == {m \in Nat : ~ \E f : TreesOf(f, lines, m)}
<1> SUFFICES ASSUME T # {} PROVE FALSE
  OBVIOUS
<1>1. PICK m \in T : \A k \in T : m <= k
  <2>1. T \subseteq Nat
    OBVIOUS
  <2> HIDE DEF T
  <2> QED BY <2>1, LeastOf
<1>2. m # 0
  <2> DEFINE f == [k \in 0..0 |-> Root]
  <2>1. f = [k \in 0..0 |-> IF k = 0 THEN Root ELSE Read(f[k - 1], lines[k])]
    OBVIOUS
  <2> HIDE DEF f
  <2>2. TreesOf(f, lines, 0)
    BY <2>1 DEF TreesOf
  <2> QED BY <2>2
<1>3. m - 1 \in Nat /\ m \in Nat \ {0} /\ ~ (m <= m - 1)
  BY <1>2
<1>4. \E f : TreesOf(f, lines, m - 1)
  BY <1>1, <1>3
<1> QED BY <1>3, <1>4, TreesExtend

LEMMA TreeIsLast ==
    ASSUME NEW lines, Len(lines) \in Nat
    PROVE  \E f : TreesOf(f, lines, Len(lines)) /\ TreeOf(lines) = f[Len(lines)]
<1> DEFINE tree == CHOOSE f : f = [k \in 0..Len(lines) |->
                        IF k = 0 THEN Root ELSE Read(f[k - 1], lines[k])]
<1>1. PICK f : TreesOf(f, lines, Len(lines))
  BY TreesExist
<1>2. f = [k \in 0..Len(lines) |-> IF k = 0 THEN Root ELSE Read(f[k - 1], lines[k])]
  BY <1>1, Zenon DEF TreesOf
<1>3. tree = [k \in 0..Len(lines) |-> IF k = 0 THEN Root ELSE Read(tree[k - 1], lines[k])]
  BY <1>2, Zenon
<1> HIDE DEF tree
<1>4. TreesOf(tree, lines, Len(lines))
  BY <1>3, Zenon DEF TreesOf
<1>5. TreeOf(lines) = tree[Len(lines)]
  BY Zenon DEF TreeOf, tree
<1> QED BY <1>4, <1>5

LEMMA TreeUnfolds ==
    ASSUME NEW S, NEW lines \in Seq(S), NEW line \in S
    PROVE  TreeOf(Append(lines, line)) = Read(TreeOf(lines), line)
<1> DEFINE more == Append(lines, line)
           n == Len(lines)
<1>1. /\ n \in Nat /\ Len(more) = n + 1 /\ more[n + 1] = line
      /\ \A k \in 1..n : more[k] = lines[k]
  OBVIOUS
<1> HIDE DEF more, n
<1>2. PICK f : TreesOf(f, lines, n) /\ TreeOf(lines) = f[n]
  BY <1>1, TreeIsLast DEF n
<1>3. PICK g : TreesOf(g, more, n + 1) /\ TreeOf(more) = g[n + 1]
  BY <1>1, TreeIsLast
<1>4. ASSUME NEW k \in 0..n
      PROVE  f[k] = IF k = 0 THEN Root ELSE Read(f[k - 1], lines[k])
  BY <1>2 DEF TreesOf
<1>5. ASSUME NEW k \in 0..n + 1
      PROVE  g[k] = IF k = 0 THEN Root ELSE Read(g[k - 1], more[k])
  BY <1>3 DEF TreesOf
<1>6. \A k \in 0..n : f[k] = g[k]
  <2> DEFINE T == {k \in 0..n : f[k] # g[k]}
  <2> SUFFICES ASSUME T # {} PROVE FALSE
    OBVIOUS
  <2>1. PICK m \in T : \A k \in T : m <= k
    <3>1. T \subseteq Nat
      BY <1>1
    <3> HIDE DEF T
    <3> QED BY <3>1, LeastOf
  <2>2. m \in 0..n /\ m \in 0..n + 1
    BY <1>1
  <2>3. m # 0
    BY <1>4, <1>5, <2>2
  <2>4. m - 1 \in 0..n /\ ~ (m <= m - 1) /\ m \in 1..n
    BY <1>1, <2>2, <2>3
  <2>5. f[m - 1] = g[m - 1]
    BY <2>1, <2>4
  <2>6. f[m] = Read(f[m - 1], lines[m]) /\ g[m] = Read(g[m - 1], more[m])
    BY <1>4, <1>5, <2>2, <2>3
  <2> QED BY <1>1, <2>4, <2>5, <2>6
<1>7. g[n + 1] = Read(g[n], line)
  <2>1. n + 1 \in 0..n + 1 /\ n + 1 # 0 /\ (n + 1) - 1 = n
    BY <1>1
  <2> QED BY <1>1, <1>5, <2>1
<1>8. f[n] = g[n]
  BY <1>1, <1>6
<1> QED BY <1>2, <1>3, <1>7, <1>8 DEF more

LEMMA TreeOfNothing == TreeOf(<<>>) = Root
<1>1. Len(<<>>) \in Nat /\ Len(<<>>) = 0
  OBVIOUS
<1>2. PICK f : TreesOf(f, <<>>, 0) /\ TreeOf(<<>>) = f[0]
  BY <1>1, TreeIsLast
<1> QED BY <1>2 DEF TreesOf

-----------------------------------------------------------------------------
(* One line of the tree.                                                   *)

LEMMA BlockFields ==
    ASSUME NEW B \in Seq(Blocks), NEW b \in 1..Len(B)
    PROVE  /\ B[b] \in Blocks /\ B[b].name \in Paths /\ B[b].from \in Nat
           /\ B[b].indent \in Nat /\ B[b].line \in Seq(Nat \ {0})
           /\ Len(B[b].line) \in Nat
<1>1. B[b] \in Blocks
  OBVIOUS
<1> QED BY <1>1 DEF Blocks

\* A move more in the last block, and nothing else.
Lengthened(B, d, C) ==
    LET N == Len(B)
    IN  /\ C \in Seq(Blocks) /\ Len(C) = N /\ Named(C)
        /\ \A b \in 1..N : b # N => C[b] = B[b]
        /\ C[N].name = B[N].name /\ C[N].from = B[N].from /\ C[N].indent = B[N].indent
        /\ C[N].line = Append(B[N].line, d)

LEMMA LongerFields ==
    ASSUME NEW B \in Seq(Blocks), Named(B), NEW d \in Nat \ {0}, NEW C, C = Longer(B, d)
    PROVE  Lengthened(B, d, C)
<1>1. PICK n : n = Len(B)
  OBVIOUS
<1>2. n \in 1..Len(B) /\ n \in Nat
  BY <1>1 DEF Named
<1>3. PICK here : here = B[n]
  OBVIOUS
<1>4. /\ here \in Blocks /\ here.line \in Seq(Nat \ {0}) /\ Len(here.line) \in Nat
      /\ here.from \in 1..(Len(here.line) + 1)
  BY <1>2, <1>3, BlockFields DEF Named
<1>5. PICK line : line = Append(here.line, d)
  OBVIOUS
<1>6. line \in Seq(Nat \ {0}) /\ Len(line) = Len(here.line) + 1
  BY <1>4, <1>5
<1>7. PICK new : new = [here EXCEPT !.line = line]
  OBVIOUS
<1>8. /\ new \in Blocks /\ new.name = here.name /\ new.from = here.from
      /\ new.indent = here.indent /\ new.line = line
  BY <1>4, <1>6, <1>7 DEF Blocks
<1>9. C = [B EXCEPT ![n] = new]
  BY <1>1, <1>3, <1>5, <1>7 DEF Longer
<1>10. /\ C \in Seq(Blocks) /\ Len(C) = n /\ C[n] = new
       /\ \A b \in 1..n : b # n => C[b] = B[b]
  BY <1>1, <1>2, <1>8, <1>9, ReplaceFacts
<1>11. Named(C)
  <2>1. \A b \in 1..n : C[b].name = B[b].name
    BY <1>3, <1>8, <1>10
  <2>2. \A b \in 1..n : C[b].from \in 1..(Len(C[b].line) + 1)
    <3> TAKE b \in 1..n
    <3>1. CASE b = n
      <4>1. C[b] = new
        BY <1>10, <3>1
      <4>2. C[b].from = here.from /\ C[b].line = line
        BY <1>8, <4>1
      <4>3. here.from \in 1..(Len(here.line) + 1) /\ Len(here.line) \in Nat
        BY <1>4
      <4>4. Len(C[b].line) = Len(here.line) + 1
        BY <1>6, <4>2
      <4>5. here.from \in 1..(Len(C[b].line) + 1)
        BY <4>3, <4>4
      <4> QED BY <4>2, <4>5
    <3>2. CASE b # n
      BY <1>1, <1>10, <3>2 DEF Named
    <3> QED BY <3>1, <3>2
  <2> QED BY <1>1, <1>2, <1>10, <2>1, <2>2 DEF Named
<1> QED BY <1>1, <1>3, <1>5, <1>8, <1>10, <1>11 DEF Lengthened

\* The place where a branch is looked for.
LEMMA ParentBlockType ==
    ASSUME NEW B \in Seq(Blocks), Len(B) >= 1, NEW indent \in Nat
    PROVE  /\ ParentBlock(B, indent) \in 1..Len(B)
           /\ \A b \in 2..Len(B) : B[b].indent < indent => b <= ParentBlock(B, indent)
           /\ ParentBlock(B, indent) # 1 => B[ParentBlock(B, indent)].indent < indent
<1> DEFINE outer == {b \in 2..Len(B) : B[b].indent < indent}
<1>1. outer \subseteq 0..Len(B) /\ outer \subseteq 2..Len(B) /\ Len(B) \in Nat
  OBVIOUS
<1>2. CASE outer = {}
  <2>1. ParentBlock(B, indent) = 1
    BY <1>2 DEF ParentBlock
  <2> QED BY <1>1, <1>2, <2>1
<1>3. CASE outer # {}
  <2>1. ParentBlock(B, indent) = Max(outer)
    BY <1>3 DEF ParentBlock
  <2>2. \A b : b \in outer <=> (b \in 2..Len(B) /\ B[b].indent < indent)
    OBVIOUS
  <2> HIDE DEF outer
  <2>3. PICK x \in outer : \A y \in outer : y <= x
    BY <1>1, <1>3, Greatest
  <2>4. \A y \in outer : x >= y
    BY <1>1, <2>3
  <2>5. Max(outer) \in outer /\ \A y \in outer : Max(outer) >= y
    BY <2>3, <2>4, Zenon DEF Max
  <2>6. \A y \in outer : y <= Max(outer)
    BY <1>1, <2>5
  <2> QED BY <1>1, <2>1, <2>2, <2>5, <2>6
<1> QED BY <1>2, <1>3

\* A block more.
Grafted(B, n, indent, C) ==
    LET N == Len(B)
        parent == B[ParentBlock(B, indent)]
    IN  /\ C \in Seq(Blocks) /\ Len(C) = N + 1 /\ Named(C)
        /\ \A b \in 1..N : C[b] = B[b]
        /\ C[N + 1] = Branch(parent, N, n, indent)
        /\ C[N + 1].name = Append(parent.name, [id |-> N, at |-> n])
        /\ C[N + 1].name # <<>> /\ C[N + 1].name[Len(C[N + 1].name)].id = N
        /\ C[N + 1].from = n /\ C[N + 1].indent = indent
        /\ C[N + 1].line = SubSeq(parent.line, 1, n - 1) /\ Len(C[N + 1].line) = n - 1
        /\ n \in 1..(Len(parent.line) + 1)

LEMMA BranchFields ==
    ASSUME NEW B \in Seq(Blocks), Named(B), NEW n \in Nat, NEW indent \in Nat,
           Branches(B[ParentBlock(B, indent)], n),
           NEW C, C = Append(B, Branch(B[ParentBlock(B, indent)], Len(B), n, indent))
    PROVE  Grafted(B, n, indent, C)
<1>1. PICK N : N = Len(B)
  OBVIOUS
<1>2. N \in Nat /\ N >= 1
  BY <1>1 DEF Named
<1>3. PICK parent : parent = B[ParentBlock(B, indent)]
  OBVIOUS
<1>4. parent.name \in Paths /\ parent.line \in Seq(Nat \ {0}) /\ Len(parent.line) \in Nat
  BY <1>1, <1>2, <1>3, ParentBlockType, BlockFields
<1>5. n \in 1..(Len(parent.line) + 1) /\ n - 1 \in 0..Len(parent.line)
  BY <1>3, <1>4 DEF Branches
<1>6. PICK line : line = SubSeq(parent.line, 1, n - 1)
  OBVIOUS
<1>7. line \in Seq(Nat \ {0}) /\ Len(line) = n - 1
  BY <1>4, <1>5, <1>6, PrefixFacts
<1>8. PICK name : name = Append(parent.name, [id |-> N, at |-> n])
  OBVIOUS
<1>9. name \in Paths /\ name # <<>> /\ name[Len(name)].id = N
  <2>1. [id |-> N, at |-> n] \in [id : Nat, at : Nat] /\ [id |-> N, at |-> n].id = N
    BY <1>2
  <2>2. name \in Paths /\ name # <<>> /\ name[Len(name)] = [id |-> N, at |-> n]
    BY <1>4, <1>8, <2>1 DEF Paths
  <2> QED BY <2>1, <2>2
<1>10. PICK new : new = Branch(parent, N, n, indent)
  OBVIOUS
<1>11. /\ new \in Blocks /\ new.name = name /\ new.from = n /\ new.indent = indent
       /\ new.line = line
  BY <1>6, <1>7, <1>8, <1>9, <1>10 DEF Branch, Blocks
<1>12. C = Append(B, new)
  BY <1>1, <1>3, <1>10
<1>13. /\ C \in Seq(Blocks) /\ Len(C) = N + 1 /\ C[N + 1] = new
       /\ \A b \in 1..N : C[b] = B[b]
  BY <1>1, <1>11, <1>12, AppendFacts
<1>14. Named(C)
  <2>1. C[1].name = <<>>
    BY <1>1, <1>2, <1>13 DEF Named
  <2>2. ASSUME NEW b \in 2..(N + 1)
        PROVE  C[b].name # <<>> /\ C[b].name[Len(C[b].name)].id + 1 = b
    <3>1. CASE b = N + 1
      BY <1>2, <1>9, <1>11, <1>13, <3>1
    <3>2. CASE b # N + 1
      <4>1. b \in 2..N /\ b \in 1..N
        BY <1>2, <3>2
      <4> QED BY <1>1, <1>13, <4>1 DEF Named
    <3> QED BY <3>1, <3>2
  <2>3. ASSUME NEW b \in 1..(N + 1)
        PROVE  C[b].from \in 1..(Len(C[b].line) + 1)
    <3>1. CASE b = N + 1
      BY <1>5, <1>7, <1>11, <1>13, <3>1
    <3>2. CASE b # N + 1
      <4>1. b \in 1..N
        BY <1>2, <3>2
      <4> QED BY <1>1, <1>13, <4>1 DEF Named
    <3> QED BY <3>1, <3>2
  <2> QED BY <1>2, <1>13, <2>1, <2>2, <2>3 DEF Named
<1>15. C[N + 1].name # <<>> /\ C[N + 1].name[Len(C[N + 1].name)].id = N
  BY <1>9, <1>11, <1>13
<1> QED BY <1>1, <1>3, <1>5, <1>6, <1>7, <1>8, <1>10, <1>11, <1>13, <1>14, <1>15 DEF Grafted

\* What a line does to the tree.
ReadMarkerLine(T, n, indent, U) ==
    /\ Branches(T.blocks[ParentBlock(T.blocks, indent)], n) =>
           U.open = TRUE /\ Grafted(T.blocks, n, indent, U.blocks)
    /\ ~ Branches(T.blocks[ParentBlock(T.blocks, indent)], n) =>
           U.open = FALSE /\ U.blocks = T.blocks

LEMMA MarkerRead ==
    ASSUME NEW T \in Trees, Named(T.blocks), NEW n \in Nat, NEW indent \in Nat,
           NEW U, U = Read(T, Marker(n, indent))
    PROVE  U \in Trees /\ Named(U.blocks) /\ ReadMarkerLine(T, n, indent, U)
<1>1. PICK l : l = Marker(n, indent)
  OBVIOUS
<1>2. l.kind = "marker" /\ l.n = n /\ l.indent = indent
  BY <1>1 DEF Marker
<1>3. PICK B : B = T.blocks
  OBVIOUS
<1>4. PICK parent : parent = B[ParentBlock(B, indent)]
  OBVIOUS
<1>5. T.blocks \in Seq(Blocks) /\ T.open \in BOOLEAN
  BY DEF Trees
<1>6. CASE Branches(parent, n)
  <2>1. U = [open |-> TRUE, blocks |-> Append(B, Branch(parent, Len(B), n, indent))]
    BY <1>1, <1>2, <1>3, <1>4, <1>6 DEF Read
  <2>2. U.open = TRUE /\ U.blocks = Append(B, Branch(parent, Len(B), n, indent))
    BY <2>1
  <2>3. Grafted(B, n, indent, U.blocks)
    BY <1>3, <1>4, <1>5, <1>6, <2>2, BranchFields
  <2>4. U.blocks \in Seq(Blocks) /\ Named(U.blocks)
    BY <2>3 DEF Grafted
  <2>5. U = [open |-> U.open, blocks |-> U.blocks]
    BY <2>1
  <2>6. U \in Trees
    BY <2>2, <2>4, <2>5 DEF Trees
  <2> QED BY <1>3, <1>4, <1>6, <2>2, <2>3, <2>4, <2>6 DEF ReadMarkerLine
<1>7. CASE ~ Branches(parent, n)
  <2>1. U = [T EXCEPT !.open = FALSE]
    BY <1>1, <1>2, <1>3, <1>4, <1>7 DEF Read
  <2>2. U \in Trees /\ U.open = FALSE /\ U.blocks = T.blocks
    BY <2>1 DEF Trees
  <2> QED BY <1>3, <1>4, <1>7, <2>2 DEF ReadMarkerLine
<1> QED BY <1>6, <1>7

\* A line that is no marker: a move if the block goes on and it can be read, or the end.
ReadOtherLine(T, line, U) ==
    LET last == T.blocks[Len(T.blocks)].line
    IN  \/ /\ T.open /\ U.open = TRUE
           /\ line.kind = "move" \/ (line.kind = "same" /\ last # <<>>)
           /\ Lengthened(T.blocks, IF line.kind = "same" THEN Previous(last) ELSE line.dest,
                         U.blocks)
        \/ /\ ~T.open \/ ~ (line.kind = "move" \/ (line.kind = "same" /\ last # <<>>))
           /\ U.open = FALSE /\ U.blocks = T.blocks

LEMMA OtherRead ==
    ASSUME NEW T \in Trees, Named(T.blocks), NEW line \in MoveLines \union Terminals,
           NEW U, U = Read(T, line)
    PROVE  U \in Trees /\ Named(U.blocks) /\ ReadOtherLine(T, line, U)
<1>1. /\ line.kind # "marker"
      /\ line.kind = "move" => line.dest \in Nat \ {0}
  <2>1. CASE line \in {Move(d) : d \in Dests}
    BY <2>1, KifAssumption DEF Move
  <2>2. CASE line \in OddMoves \union Terminals
    BY <2>2 DEF OddMoves, Terminals, Line
  <2> QED BY <2>1, <2>2 DEF MoveLines
<1>2. PICK B : B = T.blocks
  OBVIOUS
<1>3. PICK last : last = B[Len(B)].line
  OBVIOUS
<1>4. T.blocks \in Seq(Blocks) /\ T.open \in BOOLEAN
  BY DEF Trees
<1>5. last \in Seq(Nat \ {0})
  <2>1. Len(B) \in 1..Len(B)
    BY <1>2, <1>4 DEF Named
  <2> QED BY <1>2, <1>3, <1>4, <2>1, BlockFields
<1>6. CASE line.kind = "move" /\ T.open
  <2>1. U = [T EXCEPT !.blocks = Longer(B, line.dest)]
    BY <1>1, <1>2, <1>6 DEF Read
  <2>2. PICK C : C = Longer(B, line.dest)
    OBVIOUS
  <2>3. Lengthened(B, line.dest, C)
    BY <1>1, <1>2, <1>4, <1>6, <2>2, LongerFields
  <2>4. C \in Seq(Blocks) /\ Named(C)
    BY <2>3 DEF Lengthened
  <2>5. U \in Trees /\ U.open = T.open /\ U.blocks = C
    BY <2>1, <2>2, <2>4 DEF Trees
  <2> QED BY <1>2, <1>3, <1>4, <1>6, <2>3, <2>4, <2>5 DEF ReadOtherLine
<1>7. CASE line.kind = "same" /\ T.open /\ last # <<>>
  <2>1. U = [T EXCEPT !.blocks = Longer(B, Previous(last))]
    BY <1>1, <1>2, <1>3, <1>7 DEF Read, Last, Previous
  <2>2. PICK C : C = Longer(B, Previous(last))
    OBVIOUS
  <2>3. Previous(last) \in Nat \ {0}
    BY <1>5, <1>7 DEF Previous
  <2>4. Lengthened(B, Previous(last), C)
    BY <1>2, <1>4, <2>2, <2>3, LongerFields
  <2>5. C \in Seq(Blocks) /\ Named(C)
    BY <2>4 DEF Lengthened
  <2>6. U \in Trees /\ U.open = T.open /\ U.blocks = C
    BY <2>1, <2>2, <2>5 DEF Trees
  <2> QED BY <1>2, <1>3, <1>4, <1>7, <2>4, <2>5, <2>6 DEF ReadOtherLine
<1>8. CASE ~T.open \/ ~ (line.kind = "move" \/ (line.kind = "same" /\ last # <<>>))
  <2>1. U = [T EXCEPT !.open = FALSE]
    BY <1>1, <1>2, <1>3, <1>8 DEF Read, Last
  <2>2. U \in Trees /\ U.open = FALSE /\ U.blocks = T.blocks
    BY <2>1 DEF Trees
  <2> QED BY <1>2, <1>3, <1>8, <2>2 DEF ReadOtherLine
<1> QED BY <1>6, <1>7, <1>8

-----------------------------------------------------------------------------
(* The moves of the blocks.                                                *)

LEMMA NamesDiffer ==
    ASSUME NEW B, Len(B) \in Nat, Named(B), NEW a \in 1..Len(B), NEW b \in 1..Len(B),
           B[a].name = B[b].name
    PROVE  a = b
<1>1. CASE a = 1
  <2>1. B[b].name = <<>>
    BY <1>1 DEF Named
  <2>2. ~ b \in 2..Len(B)
    BY <2>1 DEF Named
  <2> QED BY <1>1, <2>2
<1>2. CASE b = 1
  <2>1. B[a].name = <<>>
    BY <1>2 DEF Named
  <2>2. ~ a \in 2..Len(B)
    BY <2>1 DEF Named
  <2> QED BY <1>2, <2>2
<1>3. CASE a # 1 /\ b # 1
  <2>1. a \in 2..Len(B) /\ b \in 2..Len(B)
    BY <1>3
  <2>2. B[a].name[Len(B[a].name)].id + 1 = a /\ B[b].name[Len(B[b].name)].id + 1 = b
    BY <2>1 DEF Named
  <2> QED BY <2>2
<1> QED BY <1>1, <1>2, <1>3

NextPlace(block, d) == <<block.name, Len(block.line) + 1, Append(block.line, d)>>

LEMMA LongerPlaces ==
    ASSUME NEW B \in Seq(Blocks), Named(B), NEW d \in Nat \ {0}, NEW C, Lengthened(B, d, C)
    PROVE  /\ \A b \in 1..Len(B) : b # Len(B) => Places(C[b]) = Places(B[b])
           /\ Places(C[Len(B)]) = Places(B[Len(B)]) \union {NextPlace(B[Len(B)], d)}
           /\ \A b \in 1..Len(B) : NextPlace(B[Len(B)], d) \notin Places(B[b])
<1>1. PICK n : n = Len(B)
  OBVIOUS
<1>2. n \in 1..Len(B) /\ n \in Nat
  BY <1>1 DEF Named
<1>3. PICK here, more : here = B[n] /\ more = C[n]
  OBVIOUS
<1>4. /\ here.line \in Seq(Nat \ {0}) /\ here.from \in 1..(Len(here.line) + 1)
      /\ Len(here.line) \in Nat
  BY <1>2, <1>3, BlockFields DEF Named
<1>5. more.name = here.name /\ more.from = here.from /\ more.line = Append(here.line, d)
  BY <1>1, <1>3 DEF Lengthened
<1>6. PICK line, longer : line = here.line /\ longer = more.line
  OBVIOUS
<1>7. /\ Len(longer) = Len(line) + 1 /\ SubSeq(longer, 1, Len(longer)) = longer
      /\ \A k \in 0..Len(line) : SubSeq(longer, 1, k) = SubSeq(line, 1, k)
  BY <1>4, <1>5, <1>6, LongerLine
<1>8. \A b \in 1..Len(B) : b # Len(B) => Places(C[b]) = Places(B[b])
  BY DEF Lengthened
<1>9. Places(more) = Places(here) \union {NextPlace(here, d)}
  <2>1. NextPlace(here, d) = <<here.name, Len(line) + 1, longer>>
    BY <1>5, <1>6 DEF NextPlace
  <2>2. Places(more) = {<<here.name, p, SubSeq(longer, 1, p)>> : p \in here.from..(Len(line) + 1)}
    BY <1>5, <1>6, <1>7 DEF Places
  <2>3. Places(here) = {<<here.name, p, SubSeq(line, 1, p)>> : p \in here.from..Len(line)}
    BY <1>6 DEF Places
  <2>4. /\ here.from..(Len(line) + 1) = (here.from..Len(line)) \union {Len(line) + 1}
        /\ here.from..Len(line) \subseteq 0..Len(line)
    BY <1>4, <1>6
  <2>5. SubSeq(longer, 1, Len(line) + 1) = longer
    BY <1>7
  <2> QED BY <1>7, <2>1, <2>2, <2>3, <2>4, <2>5
<1>10. ASSUME NEW b \in 1..Len(B), NextPlace(here, d) \in Places(B[b])
       PROVE  FALSE
  <2>1. PICK p \in B[b].from..Len(B[b].line) :
            NextPlace(here, d) = <<B[b].name, p, SubSeq(B[b].line, 1, p)>>
    BY <1>10 DEF Places
  <2>2. here.name = B[b].name /\ Len(here.line) + 1 = p
    BY <2>1 DEF NextPlace
  <2>3. b = n
    BY <1>1, <1>2, <1>3, <2>2, NamesDiffer
  <2>4. p <= Len(here.line)
    BY <1>3, <1>4, <2>1, <2>3
  <2> QED BY <1>4, <2>2, <2>4
<1> QED BY <1>1, <1>3, <1>8, <1>9, <1>10

LEMMA PlacesSplit ==
    ASSUME NEW n \in Nat, n >= 1, NEW F, NEW G, NEW x,
           \A b \in 1..n : b # n => G[b] = F[b], G[n] = F[n] \union {x}
    PROVE  UNION {G[b] : b \in 1..n} = (UNION {F[b] : b \in 1..n}) \union {x}
<1> DEFINE old == UNION {F[b] : b \in 1..n}
           new == UNION {G[b] : b \in 1..n}
<1>1. n \in 1..n
  OBVIOUS
<1>2. ASSUME NEW y \in new PROVE y \in old \union {x}
  <2>1. PICK b \in 1..n : y \in G[b]
    OBVIOUS
  <2>2. y \in F[b] \/ y = x
    BY <2>1
  <2> QED BY <2>2
<1>3. ASSUME NEW y \in old \union {x} PROVE y \in new
  <2>1. CASE y = x
    <3>1. y \in G[n]
      BY <2>1
    <3> QED BY <1>1, <3>1
  <2>2. CASE y \in old
    <3>1. PICK b \in 1..n : y \in F[b]
      BY <2>2
    <3>2. y \in G[b]
      BY <3>1
    <3> QED BY <3>2
  <2> QED BY <2>1, <2>2
<1> HIDE DEF old, new
<1>4. new = old \union {x}
  BY <1>2, <1>3
<1> QED BY <1>4 DEF old, new

\* A move read in the block in hand.
LEMMA MoveReadOnce ==
    ASSUME NEW B \in Seq(Blocks), Named(B), NEW d \in Nat \ {0}, NEW C, Lengthened(B, d, C),
           NEW s, ~s.stopped, NEW t, ~t.stopped, NEW rs \in Seq(RawMoves),
           ReadOnce(s, B, rs), NEW e \in RawMoves, PlaceOf(e) = NextPlace(B[Len(B)], d)
    PROVE  ReadOnce(t, C, Append(rs, e))
<1>1. PICK n : n = Len(B)
  OBVIOUS
<1>2. n \in Nat /\ n >= 1 /\ Len(C) = n
  BY <1>1 DEF Named, Lengthened
<1> DEFINE F == [b \in 1..n |-> Places(B[b])]
           G == [b \in 1..n |-> Places(C[b])]
           x == NextPlace(B[Len(B)], d)
<1>3. /\ \A b \in 1..n : b # n => G[b] = F[b]
      /\ G[n] = F[n] \union {x}
  BY <1>1, <1>2, LongerPlaces
<1>4. /\ UNION {Places(B[b]) : b \in Reached(s, B)} = UNION {F[b] : b \in 1..n}
      /\ UNION {Places(C[b]) : b \in Reached(t, C)} = UNION {G[b] : b \in 1..n}
  <2>1. Reached(s, B) = 1..n /\ Reached(t, C) = 1..n
    BY <1>1, <1>2 DEF Reached
  <2>2. /\ {Places(B[b]) : b \in 1..n} = {F[b] : b \in 1..n}
        /\ {Places(C[b]) : b \in 1..n} = {G[b] : b \in 1..n}
    OBVIOUS
  <2> QED BY <2>1, <2>2
<1>5. \A b \in 1..n : x \notin F[b]
  BY <1>1, <1>2, LongerPlaces
<1> HIDE DEF F, G, x
<1>6. UNION {G[b] : b \in 1..n} = (UNION {F[b] : b \in 1..n}) \union {x}
  BY <1>2, <1>3, PlacesSplit
<1>7. {PlaceOf(m) : m \in ToSet(Append(rs, e))} = {PlaceOf(m) : m \in ToSet(rs)} \union {x}
  <2>1. ToSet(Append(rs, e)) = ToSet(rs) \union {e}
    BY ToSetAppend
  <2> QED BY <2>1 DEF x
<1>8. {PlaceOf(m) : m \in ToSet(rs)} = UNION {F[b] : b \in 1..n}
  BY <1>4 DEF ReadOnce
<1>9. e \notin ToSet(rs)
  <2> SUFFICES ASSUME e \in ToSet(rs) PROVE FALSE
    OBVIOUS
  <2>1. x \in {PlaceOf(m) : m \in ToSet(rs)}
    BY DEF x
  <2>2. x \in UNION {F[b] : b \in 1..n}
    BY <1>8, <2>1
  <2> QED BY <1>5, <2>2
<1>10. \A i, j \in 1..Len(Append(rs, e)) : Append(rs, e)[i] = Append(rs, e)[j] => i = j
  <2>1. PICK qs : qs = Append(rs, e)
    OBVIOUS
  <2>2. /\ Len(qs) = Len(rs) + 1 /\ Len(rs) \in Nat /\ qs[Len(rs) + 1] = e
        /\ \A i \in 1..Len(rs) : qs[i] = rs[i] /\ rs[i] \in ToSet(rs)
    BY <2>1 DEF ToSet
  <2>3. ASSUME NEW i \in 1..Len(qs), NEW j \in 1..Len(qs), qs[i] = qs[j]
        PROVE  i = j
    <3>1. CASE i \in 1..Len(rs) /\ j \in 1..Len(rs)
      BY <2>2, <2>3, <3>1 DEF ReadOnce
    <3>2. CASE i = Len(rs) + 1 /\ j = Len(rs) + 1
      BY <3>2
    <3>3. CASE i \in 1..Len(rs) /\ j = Len(rs) + 1
      BY <1>9, <2>2, <2>3, <3>3
    <3>4. CASE i = Len(rs) + 1 /\ j \in 1..Len(rs)
      BY <1>9, <2>2, <2>3, <3>4
    <3> QED BY <2>2, <3>1, <3>2, <3>3, <3>4
  <2> QED BY <2>1, <2>3
<1>11. {PlaceOf(m) : m \in ToSet(Append(rs, e))} = UNION {Places(C[b]) : b \in Reached(t, C)}
  BY <1>4, <1>6, <1>7, <1>8
<1> QED BY <1>10, <1>11 DEF ReadOnce

\* No move is read and none the walk has reached is added.
LEMMA SameReadOnce ==
    ASSUME NEW s, NEW B, NEW t, NEW C, NEW rs, ReadOnce(s, B, rs),
           Reached(t, C) = Reached(s, B), \A b \in Reached(s, B) : Places(C[b]) = Places(B[b])
    PROVE  ReadOnce(t, C, rs)
<1>1. {Places(C[b]) : b \in Reached(t, C)} = {Places(B[b]) : b \in Reached(s, B)}
  OBVIOUS
<1> QED BY <1>1 DEF ReadOnce

-----------------------------------------------------------------------------
(* The walk over moves, line by line.                                      *)

\* On the mainline there is one block and no context.
LEMMA MainlineIsOne ==
    ASSUME NEW s, OwnTrail(s), NEW B, Len(B) \in Nat, Named(B), InHand(s, B)
    PROVE  /\ s.path = <<>> <=> Len(B) = 1
           /\ s.contexts = <<>> <=> Len(B) = 1
<1>1. s.path = B[Len(B)].name /\ Len(B) >= 1
  BY DEF InHand, Named
<1>2. Len(B) = 1 => B[Len(B)].name = <<>>
  BY DEF Named
<1>3. Len(B) # 1 => B[Len(B)].name # <<>>
  <2> SUFFICES ASSUME Len(B) # 1 PROVE B[Len(B)].name # <<>>
    OBVIOUS
  <2>1. PICK n \in Nat : n = Len(B)
    OBVIOUS
  <2>2. n \in 2..n
    BY <1>1, <2>1
  <2> QED BY <2>1, <2>2 DEF Named
<1>4. s.path = <<>> <=> Len(B) = 1
  BY <1>1, <1>2, <1>3
<1>5. s.path = <<>> <=> s.contexts = <<>>
  BY DEF OwnTrail
<1> QED BY <1>4, <1>5

\* The contexts after a move in a variation.
LEMMA PlayedStack ==
    ASSUME NEW B \in Seq(Blocks), Named(B), NEW d \in Nat \ {0}, NEW C, Lengthened(B, d, C),
           NEW cs \in Seq(Contexts), cs # <<>>, Stacked(cs, B),
           NEW snap \in Snapshots, snap.board.moves = Append(B[Len(B)].line, d), snap.prev = d,
           NEW ds, Grown(cs, Len(cs), snap, ds)
    PROVE  Stacked(ds, C)
<1>1. PICK n, last : n = Len(B) /\ last = Len(cs)
  OBVIOUS
<1>2. /\ n \in Nat /\ last \in 1..Len(cs) /\ last \in Nat /\ last \in 1..last
      /\ Len(C) = n /\ Len(ds) = last
  BY <1>1 DEF Lengthened, Grown
<1>3. \A i \in 1..last : /\ ds[i].path = cs[i].path /\ ds[i].from = cs[i].from
                         /\ ds[i].indent = cs[i].indent
  BY <1>1 DEF Grown
<1>4. \A i \in 1..last : BlockOf(ds[i]) = BlockOf(cs[i])
  BY <1>3 DEF BlockOf
<1>5. \A b \in 1..n : /\ C[b].name = B[b].name /\ C[b].from = B[b].from
                      /\ C[b].indent = B[b].indent
  BY <1>1 DEF Lengthened
<1>6. \A i \in 1..last : OfBlock(cs[i], B)
  BY <1>1 DEF Stacked
<1>7. BlockOf(cs[last]) = n
  BY <1>1 DEF Stacked
<1>8. ASSUME NEW i \in 1..last
      PROVE  OfBlock(ds[i], C)
  <2>1. PICK b : b = BlockOf(cs[i])
    OBVIOUS
  <2>2. /\ cs[i].path # <<>> /\ b \in 2..n /\ b \in 1..n /\ cs[i].path = B[b].name
        /\ cs[i].from = B[b].from /\ cs[i].indent = B[b].indent
        /\ Retraces(cs[i].trail, B[b].line)
    BY <1>1, <1>2, <1>6, <2>1 DEF OfBlock
  <2>3. Retraces(ds[i].trail, C[b].line)
    <3>1. CASE i = last
      <4>1. /\ cs[i].trail \in Seq(Snapshots) /\ ds[i].trail = Append(cs[i].trail, snap)
        <5>1. cs[i] \in Contexts
          BY <1>1
        <5> QED BY <1>1, <3>1, <5>1 DEF Grown, Contexts
      <4>2. b = n /\ C[b].line = Append(B[b].line, d) /\ B[b].line \in Seq(Nat \ {0})
        BY <1>1, <1>7, <2>1, <2>2, <3>1, BlockFields DEF Lengthened
      <4>3. snap.board.moves = Append(B[b].line, d)
        BY <1>1, <4>2
      <4>4. Retraces(Append(cs[i].trail, snap), Append(B[b].line, d))
        BY <2>2, <4>1, <4>2, <4>3, RetraceMore
      <4> QED BY <4>1, <4>2, <4>4
    <3>2. CASE i # last
      <4>1. ds[i] = cs[i]
        BY <1>1, <3>2 DEF Grown
      <4>2. b # n
        <5>1. BlockOf(cs[i]) < BlockOf(cs[last])
          BY <1>1, <1>2, <3>2 DEF Stacked
        <5> QED BY <1>2, <1>7, <2>1, <2>2, <5>1
      <4>3. C[b] = B[b]
        BY <1>1, <2>2, <4>2 DEF Lengthened
      <4> QED BY <2>2, <4>1, <4>3
    <3> QED BY <3>1, <3>2
  <2> QED BY <1>2, <1>3, <1>4, <1>5, <2>1, <2>2, <2>3 DEF OfBlock
<1>9. \A i, j \in 1..last : i < j => BlockOf(ds[i]) < BlockOf(ds[j])
  BY <1>1, <1>4 DEF Stacked
<1>10. BlockOf(ds[last]) = n
  BY <1>2, <1>4, <1>7
<1>11. ASSUME NEW b \in 2..n
       PROVE  \E i \in 1..last : BlockOf(ds[i]) >= b /\ ds[i].indent <= C[b].indent
  <2>1. PICK i \in 1..last : BlockOf(cs[i]) >= b /\ cs[i].indent <= B[b].indent
    BY <1>1 DEF Stacked
  <2>2. b \in 1..n
    BY <1>2
  <2>3. BlockOf(ds[i]) >= b /\ ds[i].indent <= C[b].indent
    BY <1>3, <1>4, <1>5, <2>1, <2>2
  <2> QED BY <2>3
<1> QED BY <1>2, <1>8, <1>9, <1>10, <1>11 DEF Stacked

LEMMA PlayedFollows ==
    ASSUME NEW s \in States, OwnTrail(s), NEW T, Follows(s, T), Reading(s),
           NEW d \in Nat \ {0}, NEW t, PlayedTo(s, d, BoardAfter(s, d), t),
           NEW U \in Trees, U.open = TRUE, Lengthened(T.blocks, d, U.blocks)
    PROVE  Follows(t, U) /\ ~t.stopped
<1>1. PICK B, C, n : B = T.blocks /\ C = U.blocks /\ n = Len(B)
  OBVIOUS
<1>2. /\ B \in Seq(Blocks) /\ Named(B) /\ InHand(s, B) /\ Stacked(s.contexts, B)
      /\ ~s.stopped /\ s.accepting
  BY <1>1 DEF Follows, Reading, Trees
<1>3. n \in 1..n /\ n \in Nat /\ Len(C) = n /\ Named(C)
  BY <1>1, <1>2 DEF Named, Lengthened
<1>4. PICK line : line = B[n].line
  OBVIOUS
<1>5. /\ line \in Seq(Nat \ {0}) /\ Append(line, d) # <<>> /\ Len(line) \in Nat
      /\ Len(Append(line, d)) = Len(line) + 1 /\ Append(line, d)[Len(line) + 1] = d
  <2>1. line \in Seq(Nat \ {0})
    BY <1>1, <1>2, <1>3, <1>4, BlockFields
  <2>2. PICK more : more = Append(line, d)
    OBVIOUS
  <2>3. /\ more # <<>> /\ Len(line) \in Nat /\ Len(more) = Len(line) + 1
        /\ more[Len(line) + 1] = d
    BY <2>1, <2>2, AppendFacts
  <2> QED BY <2>1, <2>2, <2>3
<1>6. /\ \A b \in 1..n : b # n => C[b] = B[b]
      /\ C[n].name = B[n].name /\ C[n].line = Append(line, d)
  BY <1>1, <1>4 DEF Lengthened
<1>7. PICK board, snap : board = BoardAfter(s, d) /\ snap = Snapshot(board, d)
  OBVIOUS
<1>8. /\ board.moves = Append(line, d) /\ snap \in Snapshots
      /\ snap.board.moves = Append(line, d) /\ snap.prev = d
  <2>1. s.board \in Boards /\ s.board.moves = line
    BY <1>1, <1>2, <1>4, Fields DEF InHand
  <2>2. board \in Boards /\ board.moves = Append(line, d)
    <3>1. board = [s.board EXCEPT !.moves = Append(@, d)]
      BY <1>7 DEF BoardAfter
    <3>2. board \in Boards
      BY <2>1, <3>1, SnapshotType
    <3> QED BY <2>1, <3>1, <3>2 DEF Boards
  <2>3. snap \in Snapshots
    BY <1>7, <2>2 DEF Snapshot, Snapshots
  <2> QED BY <1>7, <2>2, <2>3 DEF Snapshot
<1>9. /\ t.count = s.count /\ t.path = s.path /\ t.board = board /\ t.prev = d
      /\ t.ply = s.ply + 1 /\ t.accepting = s.accepting /\ t.stopped = s.stopped
  BY <1>7 DEF PlayedTo
<1>10. ~t.stopped /\ t.accepting
  BY <1>2, <1>9
<1>11. Retraces(t.checkpoints, C[1].line)
  <2>1. Retraces(s.checkpoints, B[1].line)
    BY <1>2 DEF InHand
  <2>2. CASE s.path = <<>>
    <3>1. n = 1
      BY <1>1, <1>2, <1>3, <2>2, MainlineIsOne
    <3>2. t.checkpoints = Append(s.checkpoints, snap)
      BY <1>7, <2>2 DEF PlayedTo
    <3>3. s.checkpoints \in Seq(Snapshots)
      BY Fields
    <3>4. Retraces(Append(s.checkpoints, snap), Append(line, d))
      BY <1>4, <1>5, <1>8, <2>1, <3>1, <3>3, RetraceMore
    <3> QED BY <1>6, <3>1, <3>2, <3>4
  <2>3. CASE s.path # <<>>
    <3>1. n # 1 /\ 1 \in 1..n
      BY <1>1, <1>2, <1>3, <2>3, MainlineIsOne
    <3>2. t.checkpoints = s.checkpoints
      BY <2>3 DEF PlayedTo
    <3> QED BY <1>6, <2>1, <3>1, <3>2
  <2> QED BY <2>2, <2>3
<1>12. InHand(t, C)
  <2>1. s.count + 1 = n /\ s.path = B[n].name /\ s.ply = Len(line)
    BY <1>1, <1>2, <1>4 DEF InHand
  <2>2. d = Previous(Append(line, d))
    BY <1>5 DEF Previous
  <2>3. /\ t.count + 1 = n /\ t.path = C[n].name /\ t.board.moves = C[n].line
        /\ t.ply = Len(C[n].line)
    BY <1>5, <1>6, <1>8, <1>9, <2>1
  <2>4. t.prev = Previous(C[n].line)
    BY <1>6, <1>9, <2>2
  <2> QED BY <1>3, <1>11, <2>3, <2>4 DEF InHand
<1>13. Stacked(t.contexts, C)
  <2>1. CASE s.path = <<>>
    <3>1. n = 1 /\ s.contexts = <<>> /\ t.contexts = s.contexts
      BY <1>1, <1>2, <1>3, <2>1, MainlineIsOne DEF PlayedTo
    <3>2. Len(t.contexts) = 0 /\ t.contexts = <<>>
      BY <3>1
    <3> QED BY <1>3, <3>1, <3>2 DEF Stacked
  <2>2. CASE s.path # <<>>
    <3>1. PICK cs, ds : cs = s.contexts /\ ds = t.contexts
      OBVIOUS
    <3>2. cs # <<>> /\ cs \in Seq(Contexts) /\ Len(cs) \in 1..Len(cs)
      BY <2>2, <3>1, Fields DEF OwnTrail
    <3>3. ds = WithSnapshot(cs, Len(cs), snap)
      BY <1>7, <2>2, <3>1 DEF PlayedTo
    <3>4. Grown(cs, Len(cs), snap, ds)
      BY <1>8, <3>2, <3>3, GrownFields
    <3>5. Lengthened(B, d, C) /\ Stacked(cs, B) /\ snap.board.moves = Append(B[Len(B)].line, d)
      BY <1>1, <1>2, <1>4, <1>8, <3>1
    <3>6. Stacked(ds, C)
      BY <1>2, <1>8, <3>2, <3>4, <3>5, PlayedStack
    <3> QED BY <3>1, <3>6
  <2> QED BY <2>1, <2>2
<1>14. U.open <=> t.accepting
  BY <1>10
<1> QED BY <1>1, <1>3, <1>10, <1>12, <1>13, <1>14 DEF Follows

\* A walk that goes on in nothing: its block is at its end.
LEMMA EndedFollows ==
    ASSUME NEW s \in States, OwnTrail(s), NEW T, Follows(s, T),
           NEW U \in Trees, U.open = FALSE, U.blocks = T.blocks,
           NEW t, t = EndBlock(s) \/ t = GiveUp(s) \/ (t = s /\ (s.stopped \/ ~T.open))
    PROVE  /\ Follows(t, U)
           /\ \A rs : ReadOnce(s, T.blocks, rs) => ReadOnce(t, U.blocks, rs)
<1>1. PICK B : B = T.blocks
  OBVIOUS
<1>2. B \in Seq(Blocks) /\ Named(B) /\ Len(B) \in Nat
  BY <1>1 DEF Follows, Trees
<1>3. /\ t.board = s.board /\ t.prev = s.prev /\ t.ply = s.ply /\ t.path = s.path
      /\ t.count = s.count /\ t.checkpoints = s.checkpoints /\ t.contexts = s.contexts
  BY EndedFields
<1>4. InHand(s, B) => InHand(t, B)
  BY <1>3 DEF InHand
<1>5. CASE s.stopped
  <2>1. t.stopped
    BY <1>5, EndBlockFields, GiveUpFields DEF OwnTrail
  <2>2. Follows(t, U)
    BY <1>1, <1>2, <2>1 DEF Follows
  <2>3. Reached(t, B) = Reached(s, B)
    BY <1>5, <2>1 DEF Reached
  <2> QED BY <1>1, <2>2, <2>3, SameReadOnce
<1>6. CASE ~s.stopped
  <2>1. InHand(t, B) /\ Stacked(t.contexts, B) /\ InHand(s, B)
    BY <1>1, <1>3, <1>4, <1>6 DEF Follows
  <2>2. CASE t.stopped
    <3>1. t = GiveUp(s)
      BY <1>6, <2>2, EndBlockFields
    <3>2. s.path = <<>>
      BY <1>6, <2>2, <3>1, GiveUpFields
    <3>3. Len(B) = 1
      BY <1>2, <2>1, <3>2, MainlineIsOne
    <3>4. Follows(t, U)
      BY <1>1, <1>2, <2>2 DEF Follows
    <3>5. Reached(t, B) = Reached(s, B)
      BY <1>6, <2>2, <3>3 DEF Reached
    <3> QED BY <1>1, <3>4, <3>5, SameReadOnce
  <2>3. CASE ~t.stopped
    <3>1. ~t.accepting
      <4>1. CASE t = EndBlock(s)
        BY <4>1, EndBlockFields
      <4>2. CASE t = GiveUp(s)
        BY <2>3, <4>2, GiveUpFields
      <4>3. CASE t = s /\ (s.stopped \/ ~T.open)
        BY <1>6, <4>3 DEF Follows
      <4> QED BY <4>1, <4>2, <4>3
    <3>2. Follows(t, U)
      BY <1>1, <1>2, <2>1, <2>3, <3>1 DEF Follows
    <3>3. Reached(t, B) = Reached(s, B)
      BY <1>6, <2>3 DEF Reached
    <3> QED BY <1>1, <3>2, <3>3, SameReadOnce
  <2> QED BY <2>2, <2>3
<1> QED BY <1>5, <1>6

\* A mainline given up is not read on, whatever the file goes on with.
LEMMA StoppedFollows ==
    ASSUME NEW s, s.stopped, NEW T, Follows(s, T), NEW U \in Trees, Named(U.blocks),
           U.blocks[1] = T.blocks[1], Len(U.blocks) # 1 \/ ~U.open
    PROVE  /\ Follows(s, U)
           /\ \A rs : ReadOnce(s, T.blocks, rs) => ReadOnce(s, U.blocks, rs)
<1>1. PICK B, C : B = T.blocks /\ C = U.blocks
  OBVIOUS
<1>4. Follows(s, U)
  BY <1>1 DEF Follows
<1>5. Reached(s, C) = {1} /\ Reached(s, B) = {1} /\ C[1] = B[1]
  BY <1>1 DEF Reached
<1>6. Reached(s, C) = Reached(s, B) /\ \A b \in Reached(s, B) : Places(C[b]) = Places(B[b])
  BY <1>5
<1> QED BY <1>1, <1>4, <1>6, SameReadOnce

LEMMA MoveLineFollows ==
    ASSUME NEW s \in States, OwnTrail(s), NEW T, Follows(s, T), NEW line \in MoveLines,
           NEW t, t = Walked(s, line), NEW U, U = Read(T, line),
           NEW rs \in Seq(RawMoves), ReadOnce(s, T.blocks, rs),
           NEW qs, qs = (IF Reading(s) /\ Plays(s, line) THEN Append(rs, RawMove(s, t)) ELSE rs)
    PROVE  Follows(t, U) /\ ReadOnce(t, U.blocks, qs)
<1>1. T \in Trees /\ Named(T.blocks)
  BY DEF Follows
<1>2. U \in Trees /\ Named(U.blocks) /\ ReadOtherLine(T, line, U)
  BY <1>1, OtherRead
<1>3. Moved(s, line, t)
  BY WalkedFields
<1>4. PICK B, C, n : B = T.blocks /\ C = U.blocks /\ n = Len(B)
  OBVIOUS
<1>5. PICK last : last = B[n].line
  OBVIOUS
<1>6. B \in Seq(Blocks) /\ C \in Seq(Blocks) /\ Named(B) /\ n \in Nat /\ n \in 1..n
  BY <1>1, <1>2, <1>4 DEF Trees, Named
<1>7. last \in Seq(Nat \ {0})
  BY <1>4, <1>5, <1>6, BlockFields
<1>8. PICK d : d = IF line.kind = "same" THEN Previous(last) ELSE line.dest
  OBVIOUS
<1>9. CASE s.stopped
  <2>1. t = s /\ qs = rs
    BY <1>3, <1>9 DEF Moved, Reading
  <2>2. CASE T.open /\ Lengthened(B, d, C)
    <3>1. n # 1
      BY <1>4, <1>9, <2>2 DEF Follows
    <3>2. Len(C) = n /\ \A b \in 1..n : b # n => C[b] = B[b]
      BY <1>4, <2>2 DEF Lengthened
    <3>3. Len(C) # 1 /\ C[1] = B[1]
      BY <1>6, <3>1, <3>2
    <3> QED BY <1>2, <1>4, <1>6, <1>9, <2>1, <3>3, StoppedFollows
  <2>3. CASE U.open = FALSE /\ C = B
    BY <1>2, <1>4, <1>9, <2>1, <2>3, EndedFollows
  <2> QED BY <1>2, <1>4, <1>5, <1>8, <2>2, <2>3 DEF ReadOtherLine
<1>10. CASE ~s.stopped /\ ~s.accepting
  <2>1. t = s /\ qs = rs
    BY <1>3, <1>10 DEF Moved, Reading
  <2>2. ~T.open
    BY <1>10 DEF Follows
  <2>3. U.open = FALSE /\ C = B
    BY <1>2, <1>4, <2>2 DEF ReadOtherLine
  <2> QED BY <1>2, <1>4, <2>1, <2>2, <2>3, EndedFollows
<1>11. CASE Reading(s)
  <2>1. /\ ~s.stopped /\ s.accepting /\ T.open /\ InHand(s, B)
    BY <1>4, <1>11 DEF Follows, Reading
  <2>2. s.prev = Previous(last)
    BY <1>4, <1>5, <2>1 DEF InHand
  <2>3. s.prev # 0 <=> last # <<>>
    BY <1>7, <2>2 DEF Previous
  <2>4. Plays(s, line) <=> (line.kind = "move" \/ (line.kind = "same" /\ last # <<>>))
    BY <2>3 DEF Plays
  <2>5. CASE ~ Plays(s, line)
    <3>1. t = GiveUp(s) /\ qs = rs
      BY <1>3, <1>11, <2>5 DEF Moved
    <3>2. U.open = FALSE /\ C = B
      BY <1>2, <1>4, <1>5, <2>4, <2>5 DEF ReadOtherLine
    <3> QED BY <1>2, <1>4, <3>1, <3>2, EndedFollows
  <2>6. CASE Plays(s, line)
    <3>1. U.open = TRUE /\ Lengthened(B, d, C)
      BY <1>2, <1>4, <1>5, <1>8, <2>1, <2>4, <2>6 DEF ReadOtherLine
    <3>2. Dest(s, line) = d
      BY <1>8, <2>2 DEF Dest
    <3>3. d \in Nat \ {0}
      <4>1. CASE line.kind = "same"
        BY <1>7, <1>8, <2>4, <2>6, <4>1 DEF Previous
      <4>2. CASE line.kind # "same"
        <5>1. line.kind = "move"
          BY <2>4, <2>6, <4>2
        <5>2. PICK e \in Dests : line = Move(e)
          BY <5>1 DEF MoveLines, OddMoves, Line
        <5> QED BY <1>8, <4>2, <5>2, KifAssumption DEF Move
      <4> QED BY <4>1, <4>2
    <3>4. PlayedTo(s, d, BoardAfter(s, d), t)
      BY <1>3, <1>11, <2>6, <3>2 DEF Moved
    <3>5. Follows(t, U) /\ ~t.stopped
      BY <1>2, <1>4, <1>11, <3>1, <3>3, <3>4, PlayedFollows
    <3>6. PICK e : e = RawMove(s, t)
      OBVIOUS
    <3>7. e \in RawMoves
      <4>1. t \in States /\ s.board \in Boards
        BY <3>4, Fields DEF PlayedTo
      <4>2. t.path \in Paths /\ t.ply \in Nat /\ t.prev \in Nat
        BY <4>1, Fields
      <4> QED BY <3>6, <4>1, <4>2 DEF RawMove, RawMoves
    <3>8. PlaceOf(e) = NextPlace(B[n], d)
      <4>1. e.path = t.path /\ e.ply = t.ply /\ e.before = s.board /\ e.dest = t.prev
        BY <3>6 DEF RawMove
      <4>2. t.path = s.path /\ t.ply = s.ply + 1 /\ t.prev = d
        BY <3>4 DEF PlayedTo
      <4>3. s.path = B[n].name /\ s.ply = Len(last) /\ s.board.moves = last
        BY <1>4, <1>5, <2>1 DEF InHand
      <4> QED BY <1>5, <4>1, <4>2, <4>3 DEF PlaceOf, NextPlace
    <3>9. qs = Append(rs, e)
      BY <1>11, <2>6, <3>6
    <3>10. ReadOnce(t, C, qs)
      BY <1>4, <1>6, <2>1, <3>1, <3>3, <3>5, <3>7, <3>8, <3>9, MoveReadOnce
    <3> QED BY <1>4, <3>5, <3>10
  <2> QED BY <2>5, <2>6
<1> QED BY <1>9, <1>10, <1>11 DEF Reading

LEMMA TerminalFollows ==
    ASSUME NEW s \in States, OwnTrail(s), NEW T, Follows(s, T), NEW line \in Terminals,
           NEW t, t = (IF ~s.stopped /\ (line.kind \in {"resign", "drawn"} => s.accepting)
                       THEN EndBlock(s) ELSE s),
           NEW U, U = Read(T, line), NEW rs, ReadOnce(s, T.blocks, rs)
    PROVE  Follows(t, U) /\ ReadOnce(t, U.blocks, rs)
<1>1. T \in Trees /\ Named(T.blocks)
  BY DEF Follows
<1>2. U \in Trees /\ Named(U.blocks) /\ ReadOtherLine(T, line, U)
  BY <1>1, OtherRead
<1>3. line.kind # "move" /\ line.kind # "same"
  BY DEF Terminals, Line
<1>4. U.open = FALSE /\ U.blocks = T.blocks
  BY <1>2, <1>3 DEF ReadOtherLine
<1>5. t = EndBlock(s) \/ (t = s /\ (s.stopped \/ ~T.open))
  BY DEF Follows
<1> QED BY <1>2, <1>4, <1>5, EndedFollows

-----------------------------------------------------------------------------
(* Branches.                                                               *)

LEMMA ParentIsNearest ==
    ASSUME NEW s \in States, NEW indent \in Nat, NEW k, k = Parent(s, indent)
    PROVE  /\ k \in 0..Len(s.contexts)
           /\ k # 0 => s.contexts[k].indent < indent
           /\ \A i \in 1..Len(s.contexts) : s.contexts[i].indent < indent => i <= k
<1> DEFINE outer == {i \in DOMAIN s.contexts : indent > s.contexts[i].indent}
<1>1. s.contexts \in Seq(Contexts)
  BY Fields
<1>2. /\ outer \subseteq 1..Len(s.contexts) /\ outer \subseteq 0..Len(s.contexts)
      /\ Len(s.contexts) \in Nat /\ DOMAIN s.contexts = 1..Len(s.contexts)
  BY <1>1
<1>3. \A i : i \in outer <=> i \in 1..Len(s.contexts) /\ indent > s.contexts[i].indent
  BY <1>2
<1>4. \A i \in 1..Len(s.contexts) : s.contexts[i].indent \in Nat
  <2> TAKE i \in 1..Len(s.contexts)
  <2>1. s.contexts[i] \in Contexts
    BY <1>1
  <2> QED BY <2>1 DEF Contexts
<1>5. CASE outer = {}
  <2>1. k = 0
    BY <1>5 DEF Parent
  <2> HIDE DEF outer
  <2>2. \A i \in 1..Len(s.contexts) : ~ (s.contexts[i].indent < indent)
    BY <1>3, <1>4, <1>5
  <2> QED BY <1>2, <2>1, <2>2
<1>6. CASE outer # {}
  <2>1. k = CHOOSE i \in outer : \A j \in outer : j <= i
    BY <1>6 DEF Parent
  <2> HIDE DEF outer
  <2>2. \E i \in outer : \A j \in outer : j <= i
    BY <1>2, <1>6, Greatest
  <2>3. k \in outer /\ \A j \in outer : j <= k
    BY <2>1, <2>2, Zenon
  <2>4. k \in 1..Len(s.contexts) /\ s.contexts[k].indent < indent
    BY <1>3, <1>4, <2>3
  <2>5. \A i \in 1..Len(s.contexts) : s.contexts[i].indent < indent => i <= k
    BY <1>3, <1>4, <2>3
  <2> QED BY <1>2, <2>4, <2>5
<1> QED BY <1>5, <1>6

\* Where the walk and the tree find the parent of a branch.
SameParent(s, B, indent, k) ==
    LET b == ParentBlock(B, indent)
    IN  /\ k = 0 => b = 1
        /\ k # 0 => b = BlockOf(s.contexts[k]) /\ b \in 2..Len(B) /\ OfBlock(s.contexts[k], B)
        /\ Retraces(Trail(s, k), B[b].line) /\ Trail(s, k) \in Seq(Snapshots)

LEMMA ParentAgrees ==
    ASSUME NEW s \in States, NEW B \in Seq(Blocks), Named(B), InHand(s, B),
           Stacked(s.contexts, B), NEW indent \in Nat, NEW k, k = Parent(s, indent)
    PROVE  SameParent(s, B, indent, k)
<1>1. PICK cs, n, b : cs = s.contexts /\ n = Len(B) /\ b = ParentBlock(B, indent)
  OBVIOUS
<1>2. cs \in Seq(Contexts) /\ n \in Nat /\ n >= 1 /\ Len(cs) \in Nat
  BY <1>1, Fields DEF Named
<1>3. /\ k \in 0..Len(cs)
      /\ k # 0 => cs[k].indent < indent
      /\ \A i \in 1..Len(cs) : cs[i].indent < indent => i <= k
  BY <1>1, ParentIsNearest
<1>4. /\ b \in 1..n
      /\ b # 1 => B[b].indent < indent
      /\ \A c \in 2..n : B[c].indent < indent => c <= b
  BY <1>1, <1>2, ParentBlockType
<1>5. ASSUME NEW c \in 2..n, B[c].indent < indent
      PROVE  k # 0 /\ c <= BlockOf(cs[k])
  <2>1. PICK i \in 1..Len(cs) : BlockOf(cs[i]) >= c /\ cs[i].indent <= B[c].indent
    BY <1>1 DEF Stacked
  <2>2. cs[i].indent \in Nat /\ B[c].indent \in Nat
    <3>1. cs[i] \in Contexts /\ c \in 1..n
      BY <1>2
    <3> QED BY <1>1, <3>1, BlockFields DEF Contexts
  <2>3. cs[i].indent < indent
    BY <1>5, <2>1, <2>2
  <2>4. i <= k /\ k \in 1..Len(cs)
    BY <1>2, <1>3, <2>3
  <2>5. BlockOf(cs[i]) \in 2..n /\ BlockOf(cs[k]) \in 2..n
    BY <1>1, <2>4 DEF Stacked, OfBlock
  <2>6. BlockOf(cs[i]) <= BlockOf(cs[k])
    <3>1. CASE i = k
      BY <2>5, <3>1
    <3>2. CASE i # k
      <4>1. i < k
        BY <2>4, <3>2
      <4>2. BlockOf(cs[i]) < BlockOf(cs[k])
        BY <1>1, <2>4, <4>1 DEF Stacked
      <4> QED BY <2>5, <4>2
    <3> QED BY <3>1, <3>2
  <2> QED BY <2>1, <2>4, <2>5, <2>6
<1>6. CASE k = 0
  <2>1. b = 1
    <3> SUFFICES ASSUME b # 1 PROVE FALSE
      OBVIOUS
    <3>1. b \in 2..n /\ B[b].indent < indent
      BY <1>2, <1>4
    <3> QED BY <1>5, <1>6, <3>1
  <2>2. Trail(s, k) = s.checkpoints
    BY <1>6 DEF Trail
  <2>3. Retraces(s.checkpoints, B[1].line) /\ s.checkpoints \in Seq(Snapshots)
    BY Fields DEF InHand
  <2> QED BY <1>1, <1>6, <2>1, <2>2, <2>3 DEF SameParent
<1>7. CASE k # 0
  <2>1. k \in 1..Len(cs)
    BY <1>2, <1>3, <1>7
  <2>2. PICK c : c = BlockOf(cs[k])
    OBVIOUS
  <2>3. OfBlock(cs[k], B)
    BY <1>1, <2>1 DEF Stacked
  <2>4. c \in 2..n /\ cs[k].indent = B[c].indent /\ Retraces(cs[k].trail, B[c].line)
    BY <1>1, <2>2, <2>3 DEF OfBlock
  <2>5. B[c].indent < indent
    BY <1>3, <1>7, <2>4
  <2>6. c <= b
    BY <1>4, <2>4, <2>5
  <2>7. b \in 2..n /\ B[b].indent < indent
    BY <1>2, <1>4, <2>4, <2>6
  <2>8. b = c
    <3>1. b <= c
      BY <1>5, <2>2, <2>7
    <3> QED BY <2>4, <2>6, <2>7, <3>1
  <2>9. Trail(s, k) = cs[k].trail /\ cs[k].trail \in Seq(Snapshots)
    <3>1. cs[k] \in Contexts
      BY <1>2, <2>1
    <3> QED BY <1>1, <1>7, <3>1 DEF Trail, Contexts
  <2>10. Retraces(Trail(s, k), B[b].line)
    BY <2>4, <2>8, <2>9
  <2> QED BY <1>1, <1>7, <2>2, <2>3, <2>7, <2>8, <2>9, <2>10 DEF SameParent
<1> QED BY <1>6, <1>7

\* The walk takes a branch exactly where the tree has one.
LEMMA BranchAgrees ==
    ASSUME NEW s \in States, NEW B \in Seq(Blocks), Named(B), InHand(s, B),
           Stacked(s.contexts, B), NEW n \in Nat, NEW indent \in Nat,
           NEW k, k = Parent(s, indent)
    PROVE  Accepted(s, k, n) <=> Branches(B[ParentBlock(B, indent)], n)
<1>1. PICK b : b = ParentBlock(B, indent)
  OBVIOUS
<1>2. SameParent(s, B, indent, k)
  BY ParentAgrees
<1>3. PICK trail, line : trail = Trail(s, k) /\ line = B[b].line
  OBVIOUS
<1>4. Len(trail) = Len(line) + 1 /\ trail \in Seq(Snapshots)
  BY <1>1, <1>2, <1>3 DEF SameParent, Retraces
<1>5. n \in DOMAIN trail <=> n \in 1..(Len(line) + 1)
  BY <1>4
<1>6. CASE k = 0
  <2>1. B[b].name = <<>>
    BY <1>1, <1>2, <1>6 DEF SameParent, Named
  <2> QED BY <1>1, <1>3, <1>5, <1>6, <2>1 DEF Accepted, Branches
<1>7. CASE k # 0
  <2>1. b = BlockOf(s.contexts[k]) /\ b \in 2..Len(B) /\ OfBlock(s.contexts[k], B)
    BY <1>1, <1>2, <1>7 DEF SameParent
  <2>2. B[b].name # <<>> /\ s.contexts[k].from = B[b].from
    BY <2>1 DEF Named, OfBlock
  <2> QED BY <1>1, <1>3, <1>5, <1>7, <2>2 DEF Accepted, Branches
<1> QED BY <1>6, <1>7

\* The contexts after a branch: those up to its parent, and its own.
LEMMA BranchStack ==
    ASSUME NEW B \in Seq(Blocks), Named(B), NEW cs \in Seq(Contexts), Stacked(cs, B),
           NEW n \in Nat, NEW indent \in Nat, NEW C, Grafted(B, n, indent, C),
           NEW k \in 0..Len(cs), \A i \in 1..Len(cs) : cs[i].indent < indent => i <= k,
           NEW c \in Contexts, c.path = C[Len(B) + 1].name, c.from = n, c.indent = indent,
           Retraces(c.trail, C[Len(B) + 1].line),
           NEW ds, ds = Append(SubSeq(cs, 1, k), c)
    PROVE  Stacked(ds, C)
<1>1. PICK N : N = Len(B)
  OBVIOUS
<1>2. /\ N \in Nat /\ N >= 1 /\ k \in Nat /\ Len(C) = N + 1 /\ Len(cs) \in Nat
      /\ \A b \in 1..N : C[b] = B[b]
  BY <1>1 DEF Named, Grafted
<1>3. PICK cut : cut = SubSeq(cs, 1, k)
  OBVIOUS
<1>4. /\ cut \in Seq(Contexts) /\ Len(cut) = k /\ \A i \in 1..k : cut[i] = cs[i]
  BY <1>3, PrefixFacts
<1>5. /\ Len(ds) = k + 1 /\ ds[k + 1] = c /\ ds # <<>>
      /\ \A i \in 1..k : ds[i] = cs[i] /\ i \in 1..Len(cs)
  <2>1. ds = Append(cut, c)
    BY <1>3
  <2>2. Len(ds) = k + 1 /\ ds[k + 1] = c /\ ds # <<>> /\ \A i \in 1..k : ds[i] = cut[i]
    <3> DEFINE long == Append(cut, c)
    <3>1. /\ Len(long) = Len(cut) + 1 /\ long[Len(cut) + 1] = c /\ long # <<>>
          /\ \A i \in 1..Len(cut) : long[i] = cut[i]
      <4>1. cut \in Seq(Contexts)
        BY <1>4
      <4> QED BY <4>1, AppendFacts
    <3>2. Len(cut) = k /\ ds = long
      BY <1>4, <2>1
    <3> HIDE DEF long
    <3> QED BY <3>1, <3>2
  <2>3. \A i \in 1..k : ds[i] = cs[i]
    BY <1>4, <2>2
  <2>4. \A i \in 1..k : i \in 1..Len(cs)
    BY <1>2
  <2> QED BY <2>2, <2>3, <2>4
<1>6. /\ C[N + 1].name # <<>> /\ C[N + 1].name[Len(C[N + 1].name)].id = N
      /\ C[N + 1].from = n /\ C[N + 1].indent = indent
  BY <1>1 DEF Grafted
<1>7. BlockOf(c) = N + 1 /\ c.path # <<>>
  BY <1>1, <1>6 DEF BlockOf
<1>8. OfBlock(c, C)
  <2>1. N + 1 \in 2..Len(C)
    BY <1>2
  <2> QED BY <1>1, <1>6, <1>7, <2>1 DEF OfBlock
<1>9. \A i \in 1..Len(cs) : OfBlock(cs[i], B) /\ BlockOf(cs[i]) \in 2..N
  BY <1>1 DEF Stacked, OfBlock
<1>10. ASSUME NEW i \in 1..(k + 1)
       PROVE  OfBlock(ds[i], C)
  <2>1. CASE i = k + 1
    BY <1>5, <1>8, <2>1
  <2>2. CASE i # k + 1
    <3>1. i \in 1..k
      BY <1>2, <2>2
    <3>2. ds[i] = cs[i] /\ i \in 1..Len(cs)
      BY <1>5, <3>1
    <3>3. PICK b : b = BlockOf(cs[i])
      OBVIOUS
    <3>4. b \in 2..N /\ OfBlock(cs[i], B)
      BY <1>9, <3>2, <3>3
    <3>5. C[b] = B[b] /\ b \in 2..Len(C)
      BY <1>2, <3>4
    <3> QED BY <3>2, <3>3, <3>4, <3>5 DEF OfBlock
  <2> QED BY <2>1, <2>2
<1>11. ASSUME NEW i \in 1..(k + 1), NEW j \in 1..(k + 1), i < j
       PROVE  BlockOf(ds[i]) < BlockOf(ds[j])
  <2>1. i \in 1..k /\ ds[i] = cs[i] /\ i \in 1..Len(cs)
    <3>1. i \in 1..k
      BY <1>2, <1>11
    <3> QED BY <1>5, <3>1
  <2>2. CASE j = k + 1
    <3>1. BlockOf(ds[i]) \in 2..N /\ BlockOf(ds[j]) = N + 1
      BY <1>5, <1>7, <1>9, <2>1, <2>2
    <3> QED BY <1>2, <3>1
  <2>3. CASE j # k + 1
    <3>1. j \in 1..k
      BY <1>2, <2>3
    <3>2. ds[j] = cs[j] /\ j \in 1..Len(cs)
      BY <1>5, <3>1
    <3> QED BY <1>11, <2>1, <3>2 DEF Stacked
  <2> QED BY <2>2, <2>3
<1>12. ASSUME NEW b \in 2..(N + 1)
       PROVE  \E i \in 1..(k + 1) : BlockOf(ds[i]) >= b /\ ds[i].indent <= C[b].indent
  <2>0. k + 1 \in 1..(k + 1) /\ BlockOf(ds[k + 1]) = N + 1 /\ ds[k + 1].indent = indent
    BY <1>2, <1>5, <1>7
  <2>1. CASE b = N + 1
    <3>1. BlockOf(ds[k + 1]) >= b /\ ds[k + 1].indent <= C[b].indent
      BY <1>2, <1>6, <2>0, <2>1
    <3> QED BY <2>0, <3>1
  <2>2. CASE b # N + 1
    <3>1. b \in 2..N /\ b \in 1..N
      BY <1>2, <2>2
    <3>2. C[b] = B[b] /\ B[b].indent \in Nat
      BY <1>1, <1>2, <3>1, BlockFields
    <3>3. PICK i \in 1..Len(cs) : BlockOf(cs[i]) >= b /\ cs[i].indent <= B[b].indent
      BY <1>1, <3>1 DEF Stacked
    <3>4. CASE i <= k
      <4>1. i \in 1..k /\ i \in 1..(k + 1)
        BY <1>2, <3>4
      <4>2. ds[i] = cs[i]
        BY <1>5, <4>1
      <4>3. BlockOf(ds[i]) >= b /\ ds[i].indent <= C[b].indent
        BY <3>2, <3>3, <4>2
      <4> QED BY <4>1, <4>3
    <3>5. CASE ~ (i <= k)
      <4>1. ~ (cs[i].indent < indent) /\ cs[i].indent \in Nat
        <5>1. cs[i] \in Contexts
          OBVIOUS
        <5> QED BY <3>5, <5>1 DEF Contexts
      <4>2. BlockOf(ds[k + 1]) >= b /\ ds[k + 1].indent <= C[b].indent
        BY <1>2, <2>0, <3>1, <3>2, <3>3, <4>1
      <4> QED BY <2>0, <4>2
    <3> QED BY <3>4, <3>5
  <2> QED BY <2>1, <2>2
<1>13. BlockOf(ds[k + 1]) = N + 1
  BY <1>5, <1>7
<1> QED BY <1>2, <1>5, <1>10, <1>11, <1>12, <1>13 DEF Stacked

\* The walk branches with the tree.
LEMMA BranchFollows ==
    ASSUME NEW s \in States, OwnTrail(s), NEW T, Follows(s, T), ~s.stopped,
           NEW n \in Nat, NEW indent \in Nat, NEW k, k = Parent(s, indent),
           Accepted(s, k, n), NEW t, Marked(s, k, n, indent, t),
           NEW U \in Trees, U.open = TRUE, Grafted(T.blocks, n, indent, U.blocks)
    PROVE  Follows(t, U) /\ ~t.stopped
<1>1. PICK B, C, N, b : B = T.blocks /\ C = U.blocks /\ N = Len(B) /\ b = ParentBlock(B, indent)
  OBVIOUS
<1>2. /\ B \in Seq(Blocks) /\ Named(B) /\ InHand(s, B) /\ Stacked(s.contexts, B)
      /\ Grafted(B, n, indent, C)
  BY <1>1 DEF Follows, Trees
<1>3. /\ N \in Nat /\ N >= 1 /\ b \in 1..N /\ 1 \in 1..N
      /\ Len(C) = N + 1 /\ Named(C) /\ \A i \in 1..N : C[i] = B[i]
  <2>1. N \in Nat /\ N >= 1 /\ 1 \in 1..N
    BY <1>1, <1>2 DEF Named
  <2>2. b \in 1..N
    BY <1>1, <1>2, <2>1, ParentBlockType
  <2> QED BY <1>1, <1>2, <2>1, <2>2 DEF Grafted
<1>4. PICK trail, line, new : trail = Trail(s, k) /\ line = B[b].line /\ new = C[N + 1]
  OBVIOUS
<1>5. /\ new.name = Append(B[b].name, [id |-> N, at |-> n])
      /\ new.from = n /\ new.indent = indent /\ new.line = SubSeq(line, 1, n - 1)
      /\ Len(new.line) = n - 1
  BY <1>1, <1>2, <1>4 DEF Grafted
<1>6. SameParent(s, B, indent, k)
  BY <1>2, ParentAgrees
<1>7. trail \in Seq(Snapshots) /\ Retraces(trail, line) /\ line \in Seq(Nat \ {0})
  BY <1>1, <1>2, <1>3, <1>4, <1>6, BlockFields DEF SameParent
<1>8. n \in 1..Len(trail)
  BY <1>4, <1>7 DEF Accepted
<1>9. /\ t.accepting /\ t.ply = n - 1 /\ t.count = s.count + 1 /\ t.stopped = s.stopped
      /\ t.board = trail[n].board /\ t.prev = trail[n].prev
      /\ t.path = PathOf(s, k, n) /\ t.checkpoints = s.checkpoints
      /\ t.contexts = Append(SubSeq(s.contexts, 1, k),
             [trail |-> SubSeq(trail, 1, n), path |-> PathOf(s, k, n),
              from |-> n, indent |-> indent])
  BY <1>4 DEF Marked
<1>10. PathOf(s, k, n) = new.name
  <2>1. s.count + 1 = N
    BY <1>1, <1>2 DEF InHand
  <2>2. CASE k = 0
    <3>1. B[b].name = <<>>
      BY <1>1, <1>2, <1>6, <2>2 DEF SameParent, Named
    <3> QED BY <1>5, <2>1, <2>2, <3>1 DEF PathOf
  <2>3. CASE k # 0
    <3>1. b = BlockOf(s.contexts[k]) /\ OfBlock(s.contexts[k], B)
      BY <1>1, <1>6, <2>3 DEF SameParent
    <3>2. s.contexts[k].path = B[b].name
      BY <3>1 DEF OfBlock
    <3> QED BY <1>5, <2>1, <2>3, <3>2 DEF PathOf
  <2> QED BY <2>2, <2>3
<1>11. /\ t.board.moves = new.line /\ t.prev = Previous(new.line)
  BY <1>5, <1>7, <1>8, <1>9 DEF Retraces
<1>12. Retraces(SubSeq(trail, 1, n), new.line)
  BY <1>5, <1>7, <1>8, RetraceCut
<1>13. InHand(t, C)
  <2>1. Retraces(t.checkpoints, C[1].line)
    <3>1. Retraces(s.checkpoints, B[1].line)
      BY <1>2 DEF InHand
    <3> QED BY <1>3, <1>9, <3>1
  <2>2. t.count + 1 = N + 1
    <3>1. s.count + 1 = N
      BY <1>1, <1>2 DEF InHand
    <3> QED BY <1>9, <3>1
  <2> QED BY <1>3, <1>4, <1>5, <1>9, <1>10, <1>11, <2>1, <2>2 DEF InHand
<1>14. Stacked(t.contexts, C)
  <2>1. PICK c : c = [trail |-> SubSeq(trail, 1, n), path |-> PathOf(s, k, n),
                      from |-> n, indent |-> indent]
    OBVIOUS
  <2>2. PICK cs, ds : cs = s.contexts /\ ds = t.contexts
    OBVIOUS
  <2>3. cs \in Seq(Contexts) /\ ds \in Seq(Contexts)
    <3>1. t \in States
      BY DEF Marked
    <3> QED BY <2>2, <3>1, Fields
  <2>4. /\ k \in 0..Len(cs)
        /\ \A i \in 1..Len(cs) : cs[i].indent < indent => i <= k
    BY <2>2, ParentIsNearest
  <2>5. ds = Append(SubSeq(cs, 1, k), c)
    BY <1>9, <2>1, <2>2
  <2>6. c \in Contexts
    <3>1. SubSeq(trail, 1, n) \in Seq(Snapshots)
      <4>1. n \in 0..Len(trail)
        BY <1>8
      <4> QED BY <1>7, <4>1, PrefixFacts
    <3>2. PathOf(s, k, n) \in Paths
      <4>1. t \in States
        BY DEF Marked
      <4> QED BY <1>9, <4>1, Fields
    <3> QED BY <2>1, <3>1, <3>2 DEF Contexts
  <2>7. /\ c.path = C[N + 1].name /\ c.from = n /\ c.indent = indent
        /\ Retraces(c.trail, C[N + 1].line)
    BY <1>4, <1>10, <1>12, <2>1
  <2>8. Stacked(cs, B)
    BY <1>2, <2>2
  <2>9. Stacked(ds, C)
    BY <1>1, <1>2, <2>3, <2>4, <2>5, <2>6, <2>7, <2>8, BranchStack
  <2> QED BY <2>2, <2>9
<1>15. ~t.stopped /\ (U.open <=> t.accepting)
  BY <1>9
<1> QED BY <1>1, <1>3, <1>13, <1>14, <1>15 DEF Follows

LEMMA MarkerFollows ==
    ASSUME NEW s \in States, OwnTrail(s), NEW T, Follows(s, T),
           NEW n \in Nat, NEW indent \in Nat,
           NEW t, t = (IF s.stopped THEN s ELSE AtMarker(s, n, indent)),
           NEW U, U = Read(T, Marker(n, indent)), NEW rs, ReadOnce(s, T.blocks, rs)
    PROVE  Follows(t, U) /\ ReadOnce(t, U.blocks, rs)
<1>1. T \in Trees /\ Named(T.blocks)
  BY DEF Follows
<1>2. U \in Trees /\ Named(U.blocks) /\ ReadMarkerLine(T, n, indent, U)
  BY <1>1, MarkerRead
<1>3. PICK B, C, N, b : B = T.blocks /\ C = U.blocks /\ N = Len(B) /\ b = ParentBlock(B, indent)
  OBVIOUS
<1>4. B \in Seq(Blocks) /\ Named(B) /\ N \in Nat /\ N >= 1 /\ 1 \in 1..N
  BY <1>1, <1>3 DEF Trees, Named
<1>5. CASE s.stopped
  <2>1. t = s
    BY <1>5
  <2>2. CASE Branches(B[b], n)
    <3>1. Grafted(B, n, indent, C)
      BY <1>2, <1>3, <2>2 DEF ReadMarkerLine
    <3>2. Len(C) = N + 1 /\ \A i \in 1..N : C[i] = B[i]
      BY <1>3, <3>1 DEF Grafted
    <3>3. C[1] = B[1] /\ Len(C) # 1
      BY <1>4, <3>2
    <3> QED BY <1>2, <1>3, <1>5, <2>1, <3>3, StoppedFollows
  <2>3. CASE ~ Branches(B[b], n)
    <3>1. U.open = FALSE /\ C = B
      BY <1>2, <1>3, <2>3 DEF ReadMarkerLine
    <3> QED BY <1>2, <1>3, <1>5, <2>1, <3>1, EndedFollows
  <2> QED BY <2>2, <2>3
<1>6. CASE ~s.stopped
  <2>1. PICK k : k = Parent(s, indent)
    OBVIOUS
  <2>2. t = AtMarker(s, n, indent)
    BY <1>6
  <2>3. Marked(s, k, n, indent, t)
    BY <2>1, <2>2, AtMarkerFields
  <2>4. InHand(s, B) /\ Stacked(s.contexts, B)
    BY <1>3, <1>6 DEF Follows
  <2>5. Accepted(s, k, n) <=> Branches(B[b], n)
    BY <1>3, <1>4, <2>1, <2>4, BranchAgrees
  <2>6. CASE ~ Branches(B[b], n)
    <3>1. U.open = FALSE /\ C = B
      BY <1>2, <1>3, <2>6 DEF ReadMarkerLine
    <3>2. t = EndBlock(s)
      BY <2>3, <2>5, <2>6 DEF Marked
    <3> QED BY <1>2, <1>3, <3>1, <3>2, EndedFollows
  <2>7. CASE Branches(B[b], n)
    <3>1. U.open = TRUE /\ Grafted(B, n, indent, C)
      BY <1>2, <1>3, <2>7 DEF ReadMarkerLine
    <3>2. Follows(t, U) /\ ~t.stopped
      BY <1>2, <1>3, <1>6, <2>1, <2>3, <2>5, <2>7, <3>1, BranchFollows
    <3>3. /\ Len(C) = N + 1 /\ \A i \in 1..N : C[i] = B[i]
          /\ C[N + 1].from = n /\ Len(C[N + 1].line) = n - 1
      BY <1>3, <3>1 DEF Grafted
    <3>4. Places(C[N + 1]) = {}
      <4>1. n..(n - 1) = {}
        OBVIOUS
      <4> QED BY <3>3, <4>1 DEF Places
    <3>5. Reached(s, B) = 1..N /\ Reached(t, C) = 1..(N + 1)
      BY <1>3, <1>6, <3>2, <3>3 DEF Reached
    <3>6. UNION {Places(C[i]) : i \in 1..(N + 1)} = UNION {Places(B[i]) : i \in 1..N}
      <4>1. ASSUME NEW y \in UNION {Places(C[i]) : i \in 1..(N + 1)}
            PROVE  y \in UNION {Places(B[i]) : i \in 1..N}
        <5>1. PICK i \in 1..(N + 1) : y \in Places(C[i])
          OBVIOUS
        <5>2. i \in 1..N
          BY <1>4, <3>4, <5>1
        <5>3. y \in Places(B[i])
          BY <3>3, <5>1, <5>2
        <5> QED BY <5>2, <5>3
      <4>2. ASSUME NEW y \in UNION {Places(B[i]) : i \in 1..N}
            PROVE  y \in UNION {Places(C[i]) : i \in 1..(N + 1)}
        <5>1. PICK i \in 1..N : y \in Places(B[i])
          OBVIOUS
        <5>2. i \in 1..(N + 1) /\ y \in Places(C[i])
          BY <1>4, <3>3, <5>1
        <5> QED BY <5>2
      <4> QED BY <4>1, <4>2
    <3>7. ReadOnce(t, C, rs)
      <4>1. {Places(B[i]) : i \in Reached(s, B)} = {Places(B[i]) : i \in 1..N}
        BY <3>5
      <4>2. {Places(C[i]) : i \in Reached(t, C)} = {Places(C[i]) : i \in 1..(N + 1)}
        BY <3>5
      <4>3. UNION {Places(C[i]) : i \in Reached(t, C)} =
                UNION {Places(B[i]) : i \in Reached(s, B)}
        BY <3>6, <4>1, <4>2
      <4>4. ReadOnce(s, B, rs)
        BY <1>3
      <4>5. {PlaceOf(m) : m \in ToSet(rs)} = UNION {Places(B[i]) : i \in Reached(s, B)}
        BY <4>4 DEF ReadOnce
      <4>6. {PlaceOf(m) : m \in ToSet(rs)} = UNION {Places(C[i]) : i \in Reached(t, C)}
        BY <4>3, <4>5
      <4> QED BY <4>4, <4>6 DEF ReadOnce
    <3> QED BY <1>3, <3>2, <3>7
  <2> QED BY <2>6, <2>7
<1> QED BY <1>5, <1>6

-----------------------------------------------------------------------------
(* The steps of the walk over moves.                                       *)

LEMMA TreeNext ==
    ASSUME TypeInv, NEW line \in Lines, file' = Append(file, line),
           NEW m, m = walk["moves"], NEW T, T = TreeOf(file), NEW U, U = Read(T, line),
           NEW m2, walk'["moves"] = m2, Follows(m2, U), ReadOnce(m2, U.blocks, raw')
    PROVE  TreeInv'
<1>1. file \in Seq(Lines)
  BY DEF TypeInv
<1>2. PICK lines : lines = file
  OBVIOUS
<1>3. TreeOf(Append(lines, line)) = Read(TreeOf(lines), line)
  BY <1>1, <1>2, TreeUnfolds
<1>4. TreeOf(file') = U
  BY <1>2, <1>3
<1> QED BY <1>4 DEF TreeInv

LEMMA InitTree == Init => TreeInv
<1> SUFFICES ASSUME Init PROVE TreeInv
  OBVIOUS
<1>1. PICK first \in Colors : walk = [w \in Walks |-> Start(first)]
  BY DEF Init
<1>2. PICK s : s = walk["moves"]
  OBVIOUS
<1>3. s = Start(first)
  BY <1>1, <1>2 DEF Walks
<1>4. file = <<>> /\ raw = <<>>
  BY DEF Init
<1>5. TreeOf(file) = Root
  BY <1>4, TreeOfNothing
<1>6. PICK B : B = Root.blocks
  OBVIOUS
<1>7. /\ Len(B) = 1 /\ B[1].name = <<>> /\ B[1].from = 1 /\ B[1].indent = 0 /\ B[1].line = <<>>
      /\ Root.open = TRUE
  BY <1>6 DEF Root
<1>8. Root \in Trees
  <2>1. <<>> \in Paths /\ <<>> \in Seq(Nat \ {0})
    BY DEF Paths
  <2>2. [name |-> <<>>, from |-> 1, indent |-> 0, line |-> <<>>] \in Blocks
    BY <2>1 DEF Blocks
  <2>3. <<[name |-> <<>>, from |-> 1, indent |-> 0, line |-> <<>>]>> \in Seq(Blocks)
    BY <2>2
  <2> QED BY <2>3 DEF Root, Trees
<1>9. Named(B)
  <2>1. 1 \in 1..(Len(B[1].line) + 1)
    BY <1>7
  <2>2. \A b \in 1..1 : b = 1
    OBVIOUS
  <2>3. \A b \in 2..1 : FALSE
    OBVIOUS
  <2> QED BY <1>7, <2>1, <2>2, <2>3 DEF Named
<1>10. /\ s.count = 0 /\ s.path = <<>> /\ s.board.moves = <<>> /\ s.prev = 0 /\ s.ply = 0
       /\ s.contexts = <<>> /\ s.accepting = TRUE /\ s.stopped = FALSE
       /\ Len(s.checkpoints) = 1 /\ s.checkpoints[1].board.moves = <<>>
       /\ s.checkpoints[1].prev = 0
  BY <1>3 DEF Start, Snapshot
<1>11. Retraces(s.checkpoints, B[1].line)
  <2>1. SubSeq(<<>>, 1, 0) = <<>> /\ Len(<<>>) = 0
    OBVIOUS
  <2>2. Previous(<<>>) = 0
    BY DEF Previous
  <2>3. ASSUME NEW k \in 1..1
        PROVE  /\ s.checkpoints[k].board.moves = SubSeq(<<>>, 1, k - 1)
               /\ s.checkpoints[k].prev = Previous(SubSeq(<<>>, 1, k - 1))
    <3>1. k = 1 /\ k - 1 = 0
      OBVIOUS
    <3> QED BY <1>10, <2>1, <2>2, <3>1
  <2> QED BY <1>7, <1>10, <2>1, <2>3 DEF Retraces
<1>12. InHand(s, B)
  <2>1. Previous(<<>>) = 0 /\ Len(<<>>) = 0
    BY DEF Previous
  <2> QED BY <1>7, <1>10, <1>11, <2>1 DEF InHand
<1>13. Stacked(s.contexts, B)
  <2>1. Len(s.contexts) = 0 /\ s.contexts = <<>>
    BY <1>10
  <2> QED BY <1>7, <2>1 DEF Stacked
<1>14. Follows(s, Root)
  BY <1>6, <1>7, <1>8, <1>9, <1>10, <1>12, <1>13 DEF Follows
<1>15. ReadOnce(s, B, raw)
  <2>1. raw = <<>> /\ Len(raw) = 0 /\ DOMAIN raw = {}
    BY <1>4
  <2>2. Places(B[1]) = {}
    <3>1. B[1].from..Len(B[1].line) = {}
      BY <1>7
    <3> QED BY <3>1 DEF Places
  <2>3. Reached(s, B) = 1..1
    BY <1>7, <1>10 DEF Reached
  <2>4. \A b \in Reached(s, B) : Places(B[b]) = {}
    BY <2>2, <2>3
  <2>5. UNION {Places(B[b]) : b \in Reached(s, B)} = {}
    BY <2>4
  <2>6. ToSet(raw) = {}
    BY <2>1 DEF ToSet
  <2>7. {PlaceOf(m) : m \in ToSet(raw)} = {}
    BY <2>6
  <2> QED BY <2>1, <2>5, <2>7 DEF ReadOnce
<1> QED BY <1>2, <1>5, <1>6, <1>14, <1>15 DEF TreeInv

LEMMA TreeTypes ==
    ASSUME Inv, TreeInv, NEW m, m = walk["moves"], NEW T, T = TreeOf(file)
    PROVE  /\ TypeInv /\ m \in States /\ OwnTrail(m) /\ raw \in Seq(RawMoves)
           /\ Follows(m, T) /\ ReadOnce(m, T.blocks, raw)
<1>1. TypeInv
  BY DEF Inv
<1>2. m \in States /\ OwnTrail(m)
  BY <1>1, WalksType
<1>3. raw \in Seq(RawMoves)
  BY <1>1 DEF TypeInv, RawMoves
<1> QED BY <1>1, <1>2, <1>3 DEF TreeInv

LEMMA MoveTree == ASSUME Inv, TreeInv, ReadMove PROVE TreeInv'
<1>1. PICK m : m = walk["moves"]
  OBVIOUS
<1>2. PICK line \in {Move(d) : d \in budget.dests} \union OddMoves :
        /\ file' = Append(file, line)
        /\ walk' = [w \in Walks |-> IF w = "moves" THEN Walked(m, line)
                                    ELSE Extracted(walk["positions"], line)]
        /\ raw' = IF Reading(m) /\ Plays(m, line)
                  THEN Append(raw, RawMove(m, Walked(m, line))) ELSE raw
  BY <1>1 DEF ReadMove, RawMove
<1>3. PICK T : T = TreeOf(file)
  OBVIOUS
<1>4. /\ TypeInv /\ m \in States /\ OwnTrail(m) /\ raw \in Seq(RawMoves)
      /\ Follows(m, T) /\ ReadOnce(m, T.blocks, raw)
  BY <1>1, <1>3, TreeTypes
<1>5. line \in MoveLines /\ line \in Lines
  <2>1. budget.dests \subseteq Dests
    BY <1>4, KifAssumption DEF TypeInv
  <2> QED BY <1>2, <2>1 DEF MoveLines, Lines
<1>6. PICK m2, U, rs, qs : m2 = Walked(m, line) /\ U = Read(T, line) /\ rs = raw /\ qs = raw'
  OBVIOUS
<1>7. qs = IF Reading(m) /\ Plays(m, line) THEN Append(rs, RawMove(m, m2)) ELSE rs
  BY <1>2, <1>6
<1>8. Follows(m2, U) /\ ReadOnce(m2, U.blocks, qs)
  BY <1>4, <1>5, <1>6, <1>7, MoveLineFollows
<1>9. walk'["moves"] = m2
  BY <1>2, <1>6 DEF Walks
<1>10. ReadOnce(m2, U.blocks, raw')
  BY <1>6, <1>8
<1> QED BY <1>1, <1>2, <1>3, <1>4, <1>5, <1>6, <1>8, <1>9, <1>10, TreeNext

LEMMA TerminalTree == ASSUME Inv, TreeInv, ReadTerminal PROVE TreeInv'
<1>1. PICK m : m = walk["moves"]
  OBVIOUS
<1> DEFINE After1(line) == IF ~m.stopped /\ (line.kind \in {"resign", "drawn"} => m.accepting)
                           THEN EndBlock(m) ELSE m
<1>2. PICK line \in Terminals :
        /\ file' = Append(file, line)
        /\ walk' = [w \in Walks |-> IF w = "moves" THEN After1(line)
                                    ELSE TerminalPosition(walk["positions"], line)]
        /\ raw' = raw
  BY <1>1 DEF ReadTerminal, TerminalPosition
<1>3. PICK T : T = TreeOf(file)
  OBVIOUS
<1>4. /\ TypeInv /\ m \in States /\ OwnTrail(m)
      /\ Follows(m, T) /\ ReadOnce(m, T.blocks, raw)
  BY <1>1, <1>3, TreeTypes
<1>5. line \in Lines
  BY DEF Lines
<1>6. PICK m2, U, rs : m2 = After1(line) /\ U = Read(T, line) /\ rs = raw
  OBVIOUS
<1>7. m2 = IF ~m.stopped /\ (line.kind \in {"resign", "drawn"} => m.accepting)
           THEN EndBlock(m) ELSE m
  BY <1>6
<1>8. Follows(m2, U) /\ ReadOnce(m2, U.blocks, rs)
  BY <1>4, <1>6, <1>7, TerminalFollows
<1>9. walk'["moves"] = m2
  BY <1>2, <1>6 DEF Walks
<1>10. ReadOnce(m2, U.blocks, raw')
  BY <1>2, <1>6, <1>8
<1> QED BY <1>1, <1>2, <1>3, <1>4, <1>5, <1>6, <1>8, <1>9, <1>10, TreeNext

LEMMA MarkerTree == ASSUME Inv, TreeInv, ReadMarker PROVE TreeInv'
<1>1. PICK m : m = walk["moves"]
  OBVIOUS
<1>2. PICK n \in 0..(budget.moves + 1), indent \in 0..(budget.markers - 1) :
        /\ file' = Append(file, Marker(n, indent))
        /\ walk' = [w \in Walks |->
               IF walk[w].stopped THEN walk[w] ELSE AtMarker(walk[w], n, indent)]
        /\ UNCHANGED <<config, budget, raw, records, outcome>>
  BY DEF ReadMarker
<1>3. PICK T : T = TreeOf(file)
  OBVIOUS
<1>4. /\ TypeInv /\ m \in States /\ OwnTrail(m)
      /\ Follows(m, T) /\ ReadOnce(m, T.blocks, raw)
  BY <1>1, <1>3, TreeTypes
<1>5. n \in Nat /\ indent \in Nat
  <2>1. budget.moves \in Nat /\ budget.markers \in Nat
    BY <1>4, KifAssumption DEF TypeInv
  <2> QED BY <2>1
<1>6. PICK m2, U, rs, line : /\ m2 = (IF m.stopped THEN m ELSE AtMarker(m, n, indent))
                             /\ line = Marker(n, indent) /\ U = Read(T, line) /\ rs = raw
  OBVIOUS
<1>7. line \in Lines
  BY <1>5, <1>6 DEF Lines
<1>8. Follows(m2, U) /\ ReadOnce(m2, U.blocks, rs)
  BY <1>4, <1>5, <1>6, MarkerFollows
<1>9. walk'["moves"] = m2
  BY <1>1, <1>2, <1>6 DEF Walks
<1>10. ReadOnce(m2, U.blocks, raw')
  BY <1>2, <1>6, <1>8
<1>11. file' = Append(file, line)
  BY <1>2, <1>6
<1> QED BY <1>1, <1>3, <1>4, <1>6, <1>7, <1>8, <1>9, <1>10, <1>11, TreeNext

\* Every move of every block of the tree that indentation describes is read once, with
\* the line of play that leads to it, for any file (extract_moves_from_str).
THEOREM LinesOfPlayHolds == Spec => []LinesOfPlay
<1>1. Inv /\ TreeInv /\ [Next]_vars => TreeInv'
  <2>1. UNCHANGED vars /\ TreeInv => TreeInv'
    BY DEF vars, TreeInv
  <2> QED BY <2>1, MoveTree, TerminalTree, MarkerTree DEF Next
<1>2. Inv /\ TreeInv => LinesOfPlay
  <2> SUFFICES ASSUME Inv, TreeInv PROVE LinesOfPlay
    OBVIOUS
  <2>1. PICK m, B, rs : m = walk["moves"] /\ B = TreeOf(file).blocks /\ rs = raw
    OBVIOUS
  <2>2. PICK T : T = TreeOf(file)
    OBVIOUS
  <2>3. Follows(m, T) /\ ReadOnce(m, B, rs) /\ rs \in Seq(RawMoves)
    BY <2>1, <2>2, TreeTypes
  <2>4. B \in Seq(Blocks) /\ DOMAIN B = 1..Len(B) /\ DOMAIN rs = 1..Len(rs)
    BY <2>1, <2>2, <2>3 DEF Follows, Trees
  <2>5. Reached(m, B) = IF m.stopped THEN {1} ELSE DOMAIN B
    BY <2>4 DEF Reached
  <2>6. IsInjective(rs)
    BY <2>3, <2>4 DEF ReadOnce, IsInjective
  <2>7. {PlaceOf(e) : e \in ToSet(rs)} = UNION {Places(B[b]) : b \in Reached(m, B)}
    BY <2>3 DEF ReadOnce
  <2>8. PICK reached : reached = (IF m.stopped THEN {1} ELSE DOMAIN B)
    OBVIOUS
  <2>9. {<<e.path, e.ply, Append(e.before.moves, e.dest)>> : e \in ToSet(rs)} =
            UNION {{<<B[b].name, p, SubSeq(B[b].line, 1, p)>> :
                        p \in B[b].from..Len(B[b].line)} : b \in reached}
    BY <2>5, <2>7, <2>8, Zenon DEF PlaceOf, Places
  <2> DEFINE blocks == TreeOf(file).blocks
             all == IF walk["moves"].stopped THEN {1} ELSE DOMAIN blocks
  <2>10. reached = all
    BY <2>1, <2>8
  <2> HIDE DEF all
  <2>11. {<<e.path, e.ply, Append(e.before.moves, e.dest)>> : e \in ToSet(raw)} =
             UNION {{<<blocks[b].name, p, SubSeq(blocks[b].line, 1, p)>> :
                         p \in blocks[b].from..Len(blocks[b].line)} : b \in all}
    BY <2>1, <2>9, <2>10
  <2>12. IsInjective(raw)
    BY <2>1, <2>6
  <2> QED BY <2>11, <2>12, Zenon DEF LinesOfPlay, all
<1> QED BY <1>1, <1>2, InitTree, InvHolds, PTL DEF Spec
=============================================================================
