------------------------------ MODULE CsaReader ------------------------------
(***************************************************************************)
(* A game in CSA notation over the board: extract_moves_from_str exports   *)
(* its moves in USI notation and finds its result, extract_from_str emits  *)
(* the positions after its moves, with the exact or the Zobrist dedup of   *)
(* the extract command, and from-match reads a game in USI notation back.  *)
(*                                                                         *)
(* CSA names the piece after the move, USI says only whether it promoted;  *)
(* one action of the record feeds both walks, which in the code run one    *)
(* after the other.                                                        *)
(***************************************************************************)
EXTENDS Board

CONSTANTS Games,     \* what is read: where it starts, its longest play, the options
          Unlimited  \* no max_ply

Grids == [Squares -> {Empty} \union (Colors \X PieceTypes)]
OneKing(b) == \A c \in Colors : \A s, t \in Kings(b, c) : s = t

\* A game starts with empty hands and no more than one king to a side.
ASSUME GamesAssumption ==
    \A g \in Games : /\ g.min \in Nat /\ g.every \in Nat \ {0} /\ g.plies \in Nat
                     /\ g.max \in Nat \union {Unlimited}
                     /\ g.dedup \in {"none", "sfen", "zobrist"}
                     /\ g.start \in [grid : Grids, hand : {NoHands}, side : Colors, count : {1}]
                     /\ OneKing(g.start)

VARIABLES
    game,     \* of Games
    board,    \* after the moves so far
    raw,      \* the RawMoves made (text before the move, who moved, USI move), which are
              \* exported unless the walk breaks
    records,  \* the PositionRecords
    outcome,  \* of the game
    status    \* of the walk: reading, ended, broken or panicked

vars == <<game, board, raw, records, outcome, status>>

Init ==
    /\ game \in Games
    /\ board = game.start
    /\ raw = <<>> /\ records = <<>>
    /\ outcome = "unknown" /\ status = "reading"

Drop(piece, to) == [drop |-> TRUE, piece |-> piece, to |-> to]
Normal(from, to, promote) == [drop |-> FALSE, from |-> from, to |-> to, promote |-> promote]

\* Mutation: the square is looked at after the move has left it.
UsiOfLate(b, from, to, piece) ==
    LET after == ApplyNormal(b, b.side, from, to, piece)
    IN  Normal(from, to, after.grid[from] = Empty \/ after.grid[from][2] # piece)

\* The USI move of a CSA move: it promotes if the piece is not the one on from.
UsiOf(b, from, to, piece) ==
    Normal(from, to, b.grid[from] = Empty \/ b.grid[from][2] # piece)

-----------------------------------------------------------------------------
(* The positions.                                                          *)

\* Every record of the game carries its outcome, known from the walk over the moves.
Position(b, capture) ==
    [ply |-> b.count - 1, sfen |-> ToSfen(b), check |-> IsInCheck(b), capture |-> capture]

Wanted(g, ply) ==
    /\ g.max # Unlimited => ply <= g.max
    /\ ply >= g.min /\ (ply - g.min) % g.every = 0

\* --dedup compares texts, --dedup-zobrist the hashes of the texts.
Seen(g, kept, sfen) ==
    \E i \in DOMAIN kept :
        \/ g.dedup = "sfen" /\ kept[i].sfen = sfen
        \/ g.dedup = "zobrist" /\ ZobristFromSfen(kept[i].sfen) = ZobristFromSfen(sfen)

WithPosition(g, kept, b, capture) ==
    IF Wanted(g, b.count - 1) /\ ~Seen(g, kept, ToSfen(b))
    THEN Append(kept, Position(b, capture)) ELSE kept

Play(usi, after, capture) ==
    /\ board' = after
    /\ raw' = Append(raw, [before |-> ToSfen(board), mover |-> board.side, usi |-> usi])
    /\ records' = WithPosition(game, records, after, capture)
    /\ UNCHANGED <<game, outcome, status>>

-----------------------------------------------------------------------------
(* The record.  Its moves are those of a game: of the side to move, as the *)
(* piece goes, not onto an own piece, and not into check.                  *)

\* game.plies bounds the record; with none the start is only looked at.
Reading == status = "reading" /\ Len(raw) < game.plies
Own(s) == board.grid[s] # Empty /\ board.grid[s][1] = board.side

CsaMove ==
    \E from, to \in Squares :
        /\ Reading /\ Own(from) /\ ~Own(to) /\ Reaches(board, from, to)
        /\ \E piece \in {board.grid[from][2], Promote(board.grid[from][2])} :
              LET after == ApplyNormal(board, board.side, from, to, piece)
              IN  /\ ~Attacked(after, board.side)
                  /\ Play(UsiOf(board, from, to, piece), after,
                          IsCapture(board, to, board.side))

CsaDrop ==
    \E to \in Squares, piece \in HandTypes :
        /\ Reading /\ board.grid[to] = Empty /\ CanDrop(board, board.side, piece)
        /\ LET after == ApplyDrop(board, board.side, to, piece)
           IN  ~Attacked(after, board.side) /\ Play(Drop(piece, to), after, FALSE)

\* A record that is not of a game: nothing on the square, or nothing in hand.  The walk
\* over moves returns the error and no move; the positions so far are kept, and their
\* result is unknown (csa_walk_error).
CsaIllegal ==
    /\ Reading
    /\ \/ \E from \in Squares : ~CanMove(board, from)
       \/ \E piece \in HandTypes : ~CanDrop(board, board.side, piece)
    /\ status' = "broken" /\ outcome' = "unknown"
    /\ UNCHANGED <<game, board, raw, records>>

\* A drop of a king or of a promoted piece: drop_letter panics in the walk over moves, which
\* comes first, and nothing is read.
CsaPanics ==
    /\ Reading
    /\ status' = "panicked" /\ outcome' = "unknown"
    /\ board' = game.start /\ raw' = <<>> /\ records' = <<>>
    /\ UNCHANGED game

\* resolve_csa_outcome; an illegal action names its color, the rest are silent on it.
Terminals == [kind : {"toryo", "kachi", "sennichite", "chudan"}, color : {"none"}] \union
             [kind : {"illegal_action"}, color : Colors]
Resolved(terminal) ==
    CASE terminal.kind = "illegal_action" -> Opponent(terminal.color)
      [] terminal.kind = "toryo"          -> Opponent(board.side)
      [] terminal.kind = "kachi"          -> board.side
      [] terminal.kind = "sennichite"     -> "draw"
      [] terminal.kind = "chudan"         -> "unknown"

CsaTerminal ==
    \E terminal \in Terminals :
        /\ status = "reading" /\ game.plies > 0
        /\ status' = "ended"
        /\ outcome' = Resolved(terminal)
        /\ UNCHANGED <<game, board, raw, records>>

Next == CsaMove \/ CsaDrop \/ CsaIllegal \/ CsaPanics \/ CsaTerminal

Spec == Init /\ [][Next]_vars

-----------------------------------------------------------------------------
(* from-match: the positions of a game in USI notation.                    *)

MatchMove(s, usi) ==
    IF ~s.going \/ ~CanApply(s.board, s.board.side, usi)
    THEN [s EXCEPT !.going = FALSE]
    ELSE LET capture == ~usi.drop /\ IsCapture(s.board, usi.to, s.board.side)
             after == ApplyUsi(s.board, s.board.side, usi)
         IN  [s EXCEPT !.board = after,
                       !.kept = WithPosition(s.game, s.kept, after, capture)]
FromMatch(g, text, moves) ==
    FoldLeft(MatchMove,
             [game |-> g, board |-> FromSfen(text), kept |-> <<>>, going |-> TRUE], moves)

-----------------------------------------------------------------------------
(* Properties.                                                             *)

\* is_in_check, a scan of rays from the king, finds a check exactly when by the rules
\* of the game some piece of the opponent can go to the king's square (board.rs:552).
CheckIsReal == IsInCheck(board) <=> Attacked(board, board.side)

\* A position survives its text (board.rs:316), and the hash of a text is that of the
\* position it was printed from (board.rs:221, 521).
SfenIsFaithful ==
    /\ FromSfen(ToSfen(board)) = board
    /\ ZobristFromSfen(ToSfen(board)) = ZobristHash(board)

\* No piece is made or lost over a game: on the board and in both hands there are as
\* many of each kind as at the start, promoted or not (board.rs:393, 421).
Material(b) ==
    [t \in HandTypes |->
        Cardinality({s \in Squares : b.grid[s] # Empty /\ Demote(b.grid[s][2]) = t})
            + b.hand["black"][t] + b.hand["white"][t]]
MaterialConserved == Material(board) = Material(game.start)

\* The exported moves replay: from-match, which looks pieces up on its own board,
\* finds in them the positions, plies, captures and checks that the CSA walk found,
\* and its board before each move is the one exported with it (extract.rs:118,
\* board.rs:439).
MovesReplay ==
    LET start == ToSfen(game.start)
        moves == [i \in DOMAIN raw |-> raw[i].usi]
        match == FromMatch(game, start, moves)
    IN  /\ match.board = board
        /\ game.dedup # "zobrist" => match.kept = records
        /\ \A i \in DOMAIN raw :
              FromMatch(game, start, SubSeq(moves, 1, i - 1)).board = FromSfen(raw[i].before)

\* A game is one line of play: its moves replay, and conserve the pieces.
ReplayAgrees == MovesReplay /\ MaterialConserved

\* --dedup-zobrist drops a position only for one that is the same, up to an accident
\* of the hash (main.rs:171).
DedupKeepsPositions ==
    \A i \in DOMAIN raw :
        LET SamePosition(a, b) == a.board = b.board /\ a.side = b.side /\ a.hand = b.hand
            sfen == IF i = Len(raw) THEN ToSfen(board) ELSE raw[i + 1].before
        IN  Wanted(game, i) => \E k \in DOMAIN records : SamePosition(records[k].sfen, sfen)
=============================================================================
