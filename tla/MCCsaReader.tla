----------------------------- MODULE MCCsaReader -----------------------------
(* Positions with a king, one piece of the opponent and at most one piece     *)
(* between them, looked at as they are; and short games.                      *)
EXTENDS CsaReader

Place(side, pieces) ==
    [grid |-> [s \in Squares |->
                  IF \E p \in pieces : p[1] = s THEN (CHOOSE p \in pieces : p[1] = s)[2]
                  ELSE Empty],
     hand |-> NoHands, side |-> side, count |-> 1]

Game(start, plies, min, max, every, dedup) ==
    [start |-> start, plies |-> plies, min |-> min, max |-> max, every |-> every,
     dedup |-> dedup]
Look(start) == Game(start, 0, 1, Unlimited, 1, "none")
Read(start, plies) == Game(start, plies, 1, Unlimited, 1, "sfen")
Some(start, plies) == Game(start, plies, 1, 3, 2, "none")
Hashed(start, plies) == Game(start, plies, 0, Unlimited, 1, "zobrist")

Checks ==
    {Look(Place(side, {<<k, <<side, "king">>>>, <<s, <<Opponent(side), type>>>>})) :
        side \in Colors, k \in Squares, s \in Squares, type \in PieceTypes}
Blocked ==
    {Look(Place("black", {<<k, <<"black", "king">>>>, <<s, <<"white", type>>>>,
                          <<t, <<c, "pawn">>>>})) :
        k \in {<<4, 4>>, <<3, 2>>}, s \in Squares, t \in Squares, c \in Colors,
        type \in {"lance", "knight", "bishop", "rook", "horse", "dragon"}}

\* The first capture is one ply away, and what is taken can be dropped and promote.
Skirmish == Place("black", {<<<<4, 4>>, <<"black", "king">>>>, <<<<1, 1>>, <<"white", "king">>>>,
                            <<<<3, 2>>, <<"black", "silver">>>>, <<<<2, 2>>, <<"white", "pawn">>>>})
Exchange == Place("white", {<<<<4, 1>>, <<"black", "king">>>>, <<<<1, 4>>, <<"white", "king">>>>,
                            <<<<3, 3>>, <<"black", "prolance">>>>, <<<<2, 3>>, <<"white", "bishop">>>>})
\* White's gold can be taken, and dropped again for the king to take.
Bait == Place("black", {<<<<3, 1>>, <<"black", "king">>>>, <<<<3, 2>>, <<"white", "gold">>>>,
                        <<<<1, 3>>, <<"white", "king">>>>})

MCGames == Checks \union Blocked \union
           {Read(Skirmish, 3), Some(Exchange, 3), Hashed(Exchange, 2)}
MCHashed == {Hashed(Bait, 7)}
=============================================================================
