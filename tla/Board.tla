------------------------------- MODULE Board --------------------------------
(***************************************************************************)
(* shogiesa-core's board: pieces, moves as the readers apply them, the     *)
(* SFEN text of a position and back, the Zobrist hash of a board and of a  *)
(* text, and the check test.  The board applies what it is told: it is the *)
(* game record that is trusted to be legal.                                *)
(*                                                                         *)
(* A square is <<row, column>> of the grid, from White's back rank and the *)
(* ninth file.  A text keeps its fields and tokens, a run of empty squares *)
(* or a piece; a hash keeps what was XOR'd into it, so that two hashes are *)
(* equal only when no accident of 64 bits is needed.                       *)
(***************************************************************************)
EXTENDS Integers, Sequences, FiniteSets, SequencesExt

CONSTANTS Size,    \* rows and columns, 9 in the code
          HandMax  \* what a hand's u8 can hold

\* A hand has room for a piece from every square.
ASSUME BoardAssumption ==
    Size \in Nat \ {0} /\ HandMax \in Nat \ {0} /\ Size * Size <= HandMax

Squares == (1..Size) \X (1..Size)
Empty == <<>>

Colors == {"black", "white"}
Opponent(color) == IF color = "black" THEN "white" ELSE "black"
\* Mutation: the rows taken to grow the other way.
ForwardSwapped(color) == IF color = "black" THEN 1 ELSE -1
\* The row direction in which a color's pieces advance.
Forward(color) == IF color = "black" THEN -1 ELSE 1

HandOrder == <<"rook", "bishop", "gold", "silver", "knight", "lance", "pawn">>
HandTypes == ToSet(HandOrder)

Promotion == [pawn |-> "propawn", lance |-> "prolance", knight |-> "proknight",
              silver |-> "prosilver", bishop |-> "horse", rook |-> "dragon"]
PieceTypes == HandTypes \union {Promotion[t] : t \in DOMAIN Promotion} \union {"king"}
Promote(type) == IF type \in DOMAIN Promotion THEN Promotion[type] ELSE type
IsPromoted(type) == \E base \in DOMAIN Promotion : Promotion[base] = type
Demote(type) ==
    IF IsPromoted(type) THEN CHOOSE base \in DOMAIN Promotion : Promotion[base] = type
    ELSE type

-----------------------------------------------------------------------------
(* Moves.                                                                  *)

NoHands == [c \in Colors |-> [t \in HandTypes |-> 0]]

AdvanceTurn(b) == [b EXCEPT !.side = Opponent(@), !.count = @ + 1]

CanMove(b, from) == b.grid[from] # Empty

\* Mutation: a promoted piece is not turned back when it is taken.
ApplyNormalUndemoted(b, color, from, to, piece) ==
    LET lifted == [b.grid EXCEPT ![from] = Empty]
        takes == lifted[to] # Empty /\ lifted[to][2] \in HandTypes
        put == [b EXCEPT !.grid = [lifted EXCEPT ![to] = <<color, piece>>]]
    IN  AdvanceTurn(IF takes THEN [put EXCEPT !.hand[color][lifted[to][2]] = @ + 1] ELSE put)

\* apply_normal: piece is what stands on the square afterwards.
ApplyNormal(b, color, from, to, piece) ==
    LET lifted == [b.grid EXCEPT ![from] = Empty]
        captured == Demote(lifted[to][2])
        takes == lifted[to] # Empty /\ captured \in HandTypes
        put == [b EXCEPT !.grid = [lifted EXCEPT ![to] = <<color, piece>>]]
    IN  AdvanceTurn(IF takes THEN [put EXCEPT !.hand[color][captured] = (@ + 1) % (HandMax + 1)]
                             ELSE put)

\* apply_drop: what is dropped on is gone.
CanDrop(b, color, piece) ==
    Demote(piece) \in HandTypes /\ b.hand[color][Demote(piece)] > 0
ApplyDrop(b, color, to, piece) ==
    AdvanceTurn([b EXCEPT !.hand[color][Demote(piece)] = @ - 1,
                          !.grid[to] = <<color, piece>>])

\* apply_usi_move: the piece is looked up where it stands.
CanApply(b, color, usi) ==
    IF usi.drop THEN CanDrop(b, color, usi.piece) ELSE CanMove(b, usi.from)
ApplyUsi(b, color, usi) ==
    IF usi.drop THEN ApplyDrop(b, color, usi.to, usi.piece)
    ELSE LET base == b.grid[usi.from][2]
         IN  ApplyNormal(b, color, usi.from, usi.to,
                         IF usi.promote THEN Promote(base) ELSE base)

IsCapture(b, to, mover) == b.grid[to] # Empty /\ b.grid[to][1] # mover

-----------------------------------------------------------------------------
(* The check test.                                                         *)

Directions == ((-1..1) \X (-1..1)) \ {<<0, 0>>}
Toward(s, d, n) == <<s[1] + n * d[1], s[2] + n * d[2]>>

\* attacks_along: down is the row direction from the piece to the king.
AttacksAlong(type, fwd, down, dist, diagonal) ==
    CASE type = "rook"   -> ~diagonal
      [] type = "bishop" -> diagonal
      [] type = "dragon" -> ~diagonal \/ dist = 1
      [] type = "horse"  -> diagonal \/ dist = 1
      [] type = "lance"  -> ~diagonal /\ down = fwd
      [] type = "pawn"   -> ~diagonal /\ down = fwd /\ dist = 1
      [] type = "king"   -> dist = 1
      [] type = "silver" -> dist = 1 /\ (diagonal \/ down = fwd)
      [] type = "knight" -> FALSE
      [] OTHER           -> dist = 1 /\ (~diagonal \/ down = fwd)

Kings(b, color) == {s \in Squares : b.grid[s] = <<color, "king">>}

\* The first piece of each ray from the king, and the knights that jump.
IsInCheck(b) ==
    /\ Kings(b, b.side) # {}
    /\ LET opp == Opponent(b.side)
           fwd == Forward(opp)
           king == CHOOSE s \in Kings(b, b.side) : \A t \in Kings(b, b.side) :
                       s[1] * Size + s[2] <= t[1] * Size + t[2]
       IN  \/ \E d \in Directions, n \in 1..(Size - 1) :
                 LET s == Toward(king, d, n)
                 IN  /\ s \in Squares /\ b.grid[s] # Empty
                     /\ \A m \in 1..(n - 1) : b.grid[Toward(king, d, m)] = Empty
                     /\ b.grid[s][1] = opp
                     /\ AttacksAlong(b.grid[s][2], fwd, -d[1], n, d[1] # 0 /\ d[2] # 0)
           \/ \E side \in {-1, 1} :
                 LET s == <<king[1] - 2 * fwd, king[2] + side>>
                 IN  s \in Squares /\ b.grid[s] = <<opp, "knight">>

-----------------------------------------------------------------------------
(* SFEN.                                                                   *)

Gap(n) == [kind |-> "gap", n |-> n]
Token(cell) == [kind |-> "piece", color |-> cell[1], base |-> Demote(cell[2]),
                plus |-> IsPromoted(cell[2])]

\* The text of a rank so far, and the empty squares since its last piece.
EndRun(s) == IF s.run = 0 THEN s.out ELSE Append(s.out, Gap(s.run))
ReadCell(s, cell) ==
    IF cell = Empty THEN [s EXCEPT !.run = @ + 1]
    ELSE [out |-> Append(EndRun(s), Token(cell)), run |-> 0]
RankText(row) == EndRun(FoldLeft(ReadCell, [out |-> <<>>, run |-> 0], row))

\* hand_sfen: Black's pieces, then White's, each with its number unless there are none.
Pieces(hand) ==
    LET of(c) == [i \in DOMAIN HandOrder |->
                     [color |-> c, type |-> HandOrder[i], n |-> hand[c][HandOrder[i]]]]
    IN  of("black") \o of("white")
WriteHeld(out, t) == IF t.n > 0 THEN Append(out, t) ELSE out
HandText(hand) == FoldLeft(WriteHeld, <<>>, Pieces(hand))

ToSfen(b) ==
    [board |-> [r \in 1..Size |-> RankText([f \in 1..Size |-> b.grid[<<r, f>>]])],
     side |-> b.side, hand |-> HandText(b.hand), count |-> b.count]

\* Mutation: the "+" is passed over and the piece after it read as it stands.
PlainCells(rank) ==
    FoldLeft(LAMBDA cells, t : cells \o (IF t.kind = "gap" THEN [i \in 1..t.n |-> Empty]
                                         ELSE <<<<t.color, t.base>>>>),
             <<>>, rank)

\* The squares a rank's tokens stand for.
ReadToken(cells, t) ==
    cells \o (IF t.kind = "gap" THEN [i \in 1..t.n |-> Empty]
              ELSE <<<<t.color, IF t.plus THEN Promote(t.base) ELSE t.base>>>>)
RankCells(rank) == FoldLeft(ReadToken, <<>>, rank)

Hold(hand, t) == [hand EXCEPT ![t.color][t.type] = @ + t.n]

FromSfen(text) ==
    LET rows == [r \in 1..Size |-> RankCells(text.board[r])]
    IN  [grid |-> [s \in Squares |-> rows[s[1]][s[2]]],
         hand |-> FoldLeft(Hold, NoHands, text.hand),
         side |-> text.side, count |-> text.count]

\* zobrist_hash: the side to move and the pieces, each with its square's number.
ZobristHash(b) ==
    [side |-> b.side,
     keys |-> {<<(s[1] - 1) * Size + s[2], b.grid[s]>> :
                   s \in {q \in Squares : b.grid[q] # Empty}}]

\* zobrist_from_sfen: the squares are counted along the text, over its ranks.
HashToken(h, t) ==
    IF t.kind = "gap" THEN [h EXCEPT !.sq = @ + t.n]
    ELSE [sq |-> h.sq + 1,
          keys |-> h.keys \union
              {<<h.sq + 1, <<t.color, IF t.plus THEN Promotion[t.base] ELSE t.base>>>>}]
HashRank(h, rank) == FoldLeft(HashToken, h, rank)
ZobristFromSfen(text) ==
    [side |-> text.side,
     keys |-> FoldLeft(HashRank, [sq |-> 0, keys |-> {}], text.board).keys]

-----------------------------------------------------------------------------
(* The game itself, as its rules have it and not as the code does: where   *)
(* each piece may go, and hence which squares it attacks.                  *)

\* Single steps, with the advance of the piece's own color as -1.
Steps(type) ==
    LET gold == {<<-1, -1>>, <<-1, 0>>, <<-1, 1>>, <<0, -1>>, <<0, 1>>, <<1, 0>>}
        diagonals == {-1, 1} \X {-1, 1}
        orthogonals == {<<-1, 0>>, <<1, 0>>, <<0, -1>>, <<0, 1>>}
    IN  CASE type = "pawn"   -> {<<-1, 0>>}
          [] type = "knight" -> {<<-2, -1>>, <<-2, 1>>}
          [] type = "silver" -> diagonals \union {<<-1, 0>>}
          [] type = "king"   -> diagonals \union orthogonals
          [] type = "horse"  -> orthogonals
          [] type = "dragon" -> diagonals
          [] type \in {"lance", "bishop", "rook"} -> {}
          [] OTHER -> gold
Slides(type) ==
    CASE type = "lance" -> {<<-1, 0>>}
      [] type \in {"bishop", "horse"} -> {-1, 1} \X {-1, 1}
      [] type \in {"rook", "dragon"} -> {<<-1, 0>>, <<1, 0>>, <<0, -1>>, <<0, 1>>}
      [] OTHER -> {}

\* Whether the piece on from can go to the square to.
Reaches(b, from, to) ==
    LET color == b.grid[from][1]
        type == b.grid[from][2]
        turned(d) == IF color = "black" THEN d ELSE <<-d[1], d[2]>>
    IN  \/ \E d \in Steps(type) : Toward(from, turned(d), 1) = to
        \/ \E d \in Slides(type), n \in 1..(Size - 1) :
              /\ Toward(from, turned(d), n) = to
              /\ \A m \in 1..(n - 1) : b.grid[Toward(from, turned(d), m)] = Empty

Attacked(b, color) ==
    \E king \in Kings(b, color), from \in Squares :
        b.grid[from] # Empty /\ b.grid[from][1] # color /\ Reaches(b, from, king)
=============================================================================
