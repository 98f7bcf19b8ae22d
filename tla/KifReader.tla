------------------------------ MODULE KifReader ------------------------------
(***************************************************************************)
(* The KIF reader of shogiesa-kif: one game file with variations is walked *)
(* twice over the same lines, by extract_moves_from_str for the moves and  *)
(* the result of the game, and by extract_from_str for the positions of    *)
(* the training set.  A variation starts from a snapshot that its parent,  *)
(* the mainline or the nearest less indented variation, has kept.          *)
(*                                                                         *)
(* A move is its destination, which is all a later "same square" needs;    *)
(* the board is who moved first and the moves played, so that equal boards *)
(* are equal SFENs.  Line n of the state machine feeds both walks at once; *)
(* in the code they run one after the other over the whole file.           *)
(***************************************************************************)
EXTENDS Naturals, Sequences, FiniteSets, SequencesExt

CONSTANTS Dests,          \* destinations of moves
          ExtractConfigs, \* min_ply, max_ply, every_n, dedup
          Budgets,        \* bounds of a file: destinations, markers, moves of a block,
                          \* unusual lines
          Cases,          \* which files are read with which configuration
          Unlimited       \* no max_ply

ASSUME KifAssumption ==
    /\ \A c \in ExtractConfigs : /\ c.min \in Nat /\ c.every \in Nat \ {0}
                                 /\ c.max \in Nat \union {Unlimited} /\ c.dedup \in BOOLEAN
    /\ Budgets \subseteq [dests : SUBSET Dests, markers : Nat, moves : Nat, odd : Nat]
    /\ Cases \subseteq ExtractConfigs \X Budgets
    /\ Dests \subseteq Nat \ {0} /\ Unlimited \notin Nat

VARIABLES
    file,      \* the lines read, from the move section header on
    config,    \* ExtractConfig
    budget,    \* the bound of this file
    walk,      \* the state of each walk
    raw,       \* the RawMoves of extract_moves_from_str
    records,   \* the PositionRecords of extract_from_str
    outcome    \* the GameOutcome of the mainline

vars == <<file, config, budget, walk, raw, records, outcome>>

Colors == {"black", "white"}
Opponent(color) == IF color = "black" THEN "white" ELSE "black"
Side(board) == IF Len(board.moves) % 2 = 0 THEN board.first ELSE Opponent(board.first)

\* The lines, and of them those that are neither a plain move nor a good marker.
Move(d) == [kind |-> "move", dest |-> d]
Line(kind) == [kind |-> kind]
Marker(n, indent) == [kind |-> "marker", n |-> n, indent |-> indent]
OddMoves == {Line("same"),        \* to the square of the previous move
             Line("unreadable"),  \* parse_kif_move gives up
             Line("illegal")}     \* no piece on the square, or none in hand
Terminals == {Line("resign"),     \* a move line with a marker both walks know
              Line("drawn"),      \* a move line with one that only the moves walk knows
              Line("repetition"), \* the same on a line of its own
              Line("summary")}    \* "made n moves, the first player wins"

-----------------------------------------------------------------------------
(* The two walks.                                                          *)

Snapshot(board, dest) == [board |-> board, prev |-> dest]

Start(first) ==
    LET here == Snapshot([first |-> first, moves |-> <<>>], 0)
    IN  [board |-> here.board, prev |-> 0, ply |-> 0, checkpoints |-> <<here>>,
         path |-> <<>>, count |-> 0, contexts |-> <<>>, accepting |-> TRUE,
         stopped |-> FALSE]

Walks == {"moves", "positions"}

\* The section header: White moves first in a handicap game.
Init ==
    /\ \E c \in Cases : config = c[1] /\ budget = c[2]
    /\ \E first \in Colors : walk = [w \in Walks |-> Start(first)]
    /\ file = <<>> /\ raw = <<>> /\ records = <<>>
    /\ outcome = "unknown"

Mainline(s) == s.path = <<>>
EndBlock(s) == [s EXCEPT !.accepting = FALSE]
GiveUp(s) == IF Mainline(s) THEN [s EXCEPT !.stopped = TRUE] ELSE EndBlock(s)

\* Mutation: a nested variation branches from the mainline.
ParentMainline(s, indent) == 0

\* The nearest active context that is less indented, 0 for the mainline.
Parent(s, indent) ==
    LET outer == {i \in DOMAIN s.contexts : indent > s.contexts[i].indent}
    IN  IF outer = {} THEN 0 ELSE CHOOSE i \in outer : \A j \in outer : j <= i

\* A variation marker: branch_checkpoint and what follows it.
AtMarker(s, n, indent) ==
    LET p == Parent(s, indent)
        parent == s.contexts[p]
        trail == IF p = 0 THEN s.checkpoints ELSE parent.trail
        path == Append(IF p = 0 THEN <<>> ELSE parent.path, [id |-> s.count + 1, at |-> n])
    IN  IF n \in DOMAIN trail /\ (p # 0 => n > parent.from)
        THEN [s EXCEPT !.board = trail[n].board, !.prev = trail[n].prev, !.ply = n - 1,
                 !.count = @ + 1, !.path = path, !.accepting = TRUE,
                 !.contexts = Append(SubSeq(@, 1, p),
                     [trail |-> SubSeq(trail, 1, n), path |-> path, from |-> n,
                      indent |-> indent])]
        ELSE EndBlock(s)

\* A move that was played: the block in hand gets a snapshot more.
Played(s, dest) ==
    LET board == [s.board EXCEPT !.moves = Append(@, dest)]
        moved == [s EXCEPT !.board = board, !.prev = dest, !.ply = @ + 1]
    IN  IF Mainline(s)
        THEN [moved EXCEPT !.checkpoints = Append(@, Snapshot(board, dest))]
        ELSE [moved EXCEPT !.contexts[Len(s.contexts)].trail =
                               Append(@, Snapshot(board, dest))]

\* Whether a move line is played, and where to.
Plays(s, line) ==
    \/ line.kind = "move"
    \/ line.kind = "same" /\ s.prev # 0
Dest(s, line) == IF line.kind = "same" THEN s.prev ELSE line.dest

Reading(s) == ~s.stopped /\ s.accepting
PastMaxPly(s) == config.max # Unlimited /\ s.ply > config.max
Wanted(ply) == ply >= config.min /\ (ply - config.min) % config.every = 0

-----------------------------------------------------------------------------
(* The lines of a file.                                                    *)

Markers == SelectSeq(file, LAMBDA l : l.kind = "marker")
OddLines == OddMoves \union Terminals \union {Marker(0, i) : i \in 0..budget.markers}
Odd == SelectSeq(file, LAMBDA l : l \in OddLines)
LastMarker == Max({0} \union {i \in DOMAIN file : file[i].kind = "marker"})
\* No move follows the terminal marker of its block.
BlockOpen == \A i \in (LastMarker + 1)..Len(file) : file[i] \notin Terminals
Room(line) ==
    /\ line \in OddLines => Len(Odd) < budget.odd
    /\ line.kind \notin {"summary", "repetition", "marker"} => BlockOpen
    /\ line.kind \in {"move", "same"} => Len(file) - LastMarker < budget.moves

\* The walk over moves, for one move line.
Walked(s, line) ==
    IF ~Reading(s) THEN s ELSE IF Plays(s, line) THEN Played(s, Dest(s, line)) ELSE GiveUp(s)

\* Mutation: max_ply ends the walk wherever it is met.
ExtractedEnds(s, line) ==
    LET t == Walked(s, line)
    IN  IF Reading(s) /\ Plays(s, line) /\ PastMaxPly(t)
        THEN [t EXCEPT !.stopped = TRUE] ELSE t

\* The walk over positions also ends a block at max_ply.
Extracted(s, line) ==
    LET t == Walked(s, line)
    IN  IF Reading(s) /\ Plays(s, line) /\ PastMaxPly(t) THEN GiveUp(t) ELSE t

Seen(board) == \E i \in DOMAIN records : records[i].board = board

ReadMove ==
    \E line \in {Move(d) : d \in budget.dests} \union OddMoves :
        LET m == walk["moves"]      m2 == Walked(m, line)
            p == walk["positions"]  p2 == Extracted(p, line)
        IN  /\ Room(line)
            /\ file' = Append(file, line)
            /\ walk' = [w \in Walks |-> IF w = "moves" THEN m2 ELSE p2]
            /\ raw' = IF Reading(m) /\ Plays(m, line)
                      THEN Append(raw, [path |-> m2.path, ply |-> m2.ply,
                                        before |-> m.board, dest |-> m2.prev])
                      ELSE raw
            /\ records' = IF /\ Reading(p) /\ Plays(p, line) /\ ~PastMaxPly(p2)
                             /\ Wanted(p2.ply) /\ ~(config.dedup /\ Seen(p2.board))
                          THEN Append(records, [path |-> p2.path, ply |-> p2.ply,
                                                board |-> p2.board])
                          ELSE records
            /\ UNCHANGED <<config, budget, outcome>>

\* resolve_kif_terminal.
Resolved(s, line) ==
    CASE line.kind = "summary" -> s.board.first
      [] line.kind = "resign"  -> Opponent(Side(s.board))
      [] OTHER                 -> "draw"

\* A terminal marker, inline or on a line of its own.
ReadTerminal ==
    \E line \in Terminals :
        LET m == walk["moves"]
            p == walk["positions"]
            inline == line.kind \in {"resign", "drawn"}
            seen == ~m.stopped /\ (inline => m.accepting)
        IN  /\ Room(line)
            /\ file' = Append(file, line)
            /\ outcome' = IF seen /\ Mainline(m) THEN Resolved(m, line) ELSE outcome
            /\ walk' = [w \in Walks |->
                   IF w = "moves" THEN IF seen THEN EndBlock(m) ELSE m
                   ELSE IF p.stopped THEN p
                   ELSE CASE line.kind \in {"summary", "resign"} -> EndBlock(p)
                          [] line.kind = "drawn" /\ p.accepting -> GiveUp(p)
                          [] OTHER -> p]
            /\ UNCHANGED <<config, budget, raw, records>>

\* Place 0 stands for a marker that cannot be parsed.
ReadMarker ==
    \E n \in 0..(budget.moves + 1), indent \in 0..(budget.markers - 1) :
        /\ Len(Markers) < budget.markers /\ Room(Marker(n, indent))
        /\ file' = Append(file, Marker(n, indent))
        /\ walk' = [w \in Walks |->
               IF walk[w].stopped THEN walk[w] ELSE AtMarker(walk[w], n, indent)]
        /\ UNCHANGED <<config, budget, raw, records, outcome>>

Next == ReadMove \/ ReadTerminal \/ ReadMarker

Spec == Init /\ [][Next]_vars

-----------------------------------------------------------------------------
(* What a file means: a tree of blocks, read off its lines alone.  Block 1 *)
(* is the mainline; a block has its name, made of its ancestors' numbers   *)
(* and branch plies, the ply it branches from, its indentation, and its    *)
(* line of play from the start of the game.                                *)

Root == [open |-> TRUE,
         blocks |-> <<[name |-> <<>>, from |-> 1, indent |-> 0, line |-> <<>>]>>]

\* The last variation so far that is less indented, or the mainline.
ParentBlock(blocks, indent) ==
    LET outer == {b \in 2..Len(blocks) : blocks[b].indent < indent}
    IN  IF outer = {} THEN 1 ELSE Max(outer)

Branches(parent, n) ==
    n \in 1..(Len(parent.line) + 1) /\ (parent.name # <<>> => n > parent.from)

Branch(parent, id, n, indent) ==
    [name |-> Append(parent.name, [id |-> id, at |-> n]), from |-> n, indent |-> indent,
     line |-> SubSeq(parent.line, 1, n - 1)]

\* The last block, a move longer.
Longer(blocks, d) == [blocks EXCEPT ![Len(blocks)].line = Append(@, d)]

\* A line more.
Read(tree, l) ==
    LET blocks == tree.blocks
        line == Last(blocks).line
        parent == blocks[ParentBlock(blocks, l.indent)]
    IN  IF l.kind = "marker" /\ Branches(parent, l.n)
        THEN [open |-> TRUE,
              blocks |-> Append(blocks, Branch(parent, Len(blocks), l.n, l.indent))]
        ELSE IF l.kind = "move" /\ tree.open
        THEN [tree EXCEPT !.blocks = Longer(blocks, l.dest)]
        ELSE IF l.kind = "same" /\ tree.open /\ line # <<>>
        THEN [tree EXCEPT !.blocks = Longer(blocks, Last(line))]
        ELSE [tree EXCEPT !.open = FALSE]

TreeOf(lines) ==
    LET tree[k \in 0..Len(lines)] == IF k = 0 THEN Root ELSE Read(tree[k - 1], lines[k])
    IN  tree[Len(lines)]

Result(path) == IF path = <<>> THEN outcome ELSE "unknown"

(* Properties.                                                             *)

\* Every move of every block is read once, under the name of its block, with the
\* line of play that leads to it as the board: the stack of contexts and their
\* snapshots (lib.rs:117) come to the tree that the indentation of the markers
\* describes.  A mainline that cannot be read on hides what comes after it.
LinesOfPlay ==
    LET blocks == TreeOf(file).blocks
        reached == IF walk["moves"].stopped THEN {1} ELSE DOMAIN blocks
    IN  /\ {<<m.path, m.ply, Append(m.before.moves, m.dest)>> : m \in ToSet(raw)} =
               UNION {{<<blocks[b].name, p, SubSeq(blocks[b].line, 1, p)>> :
                           p \in blocks[b].from..Len(blocks[b].line)} : b \in reached}
        /\ IsInjective(raw)

\* A marker that branches from beyond max_ply is refused by the walk over positions
\* alone: from there on the two number their variations differently.
MarkersInReach ==
    config.max # Unlimited =>
        \A i \in DOMAIN file : file[i].kind = "marker" => file[i].n <= config.max + 2

\* The two walks over one file do not drift apart (lib.rs:264): the positions are
\* those after the moves of the other walk that the filter lets through, all of
\* them unless the walk gave up on the mainline, and with --dedup each board once.
WalksAgree ==
    MarkersInReach =>
    LET p == walk["positions"]
        wanted == {m \in ToSet(raw) : /\ Wanted(m.ply)
                                      /\ config.max # Unlimited => m.ply <= config.max}
        After(m) == [m.before EXCEPT !.moves = Append(@, m.dest)]
        found == {<<r.path, r.ply, r.board>> : r \in ToSet(records)}
        whole == {<<m.path, m.ply, After(m)>> : m \in wanted}
        boards == {r.board : r \in ToSet(records)}
    IN  /\ found \subseteq whole
        /\ config.dedup => Cardinality(boards) = Len(records)
        /\ ~(p.stopped /\ Mainline(p)) =>
              IF config.dedup THEN boards = {After(m) : m \in wanted} ELSE found = whole

\* The result of the game is that of its mainline; a branch's own terminal text is
\* not the actual game's result (lib.rs:671).
OutcomeIsMainlines ==
    [][Markers # <<>> => outcome' = outcome]_vars
=============================================================================
