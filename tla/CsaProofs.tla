------------------------------ MODULE CsaProofs -------------------------------
(***************************************************************************)
(* What the CSA walk and the board it plays on do, for every size of board *)
(* and every game.                                                         *)
(***************************************************************************)
EXTENDS CsaReader, FiniteSetTheorems, SequenceTheorems, TLAPS

-----------------------------------------------------------------------------
(* The pieces.                                                             *)

LEMMA HandTypesAre ==
    HandTypes = {"rook", "bishop", "gold", "silver", "knight", "lance", "pawn"}
BY DEF HandTypes, HandOrder, ToSet

LEMMA PieceTypesAre ==
    PieceTypes = {"rook", "bishop", "gold", "silver", "knight", "lance", "pawn", "king",
                  "propawn", "prolance", "proknight", "prosilver", "horse", "dragon"}
BY HandTypesAre DEF PieceTypes, Promotion

LEMMA PromoteTable ==
    /\ DOMAIN Promotion = {"pawn", "lance", "knight", "silver", "bishop", "rook"}
    /\ Promotion["pawn"] = "propawn" /\ Promotion["lance"] = "prolance"
    /\ Promotion["knight"] = "proknight" /\ Promotion["silver"] = "prosilver"
    /\ Promotion["bishop"] = "horse" /\ Promotion["rook"] = "dragon"
BY DEF Promotion

LEMMA DemotePromoted ==
    ASSUME NEW base \in DOMAIN Promotion
    PROVE  /\ Promote(base) = Promotion[base] /\ IsPromoted(Promotion[base])
           /\ Demote(Promotion[base]) = base
           /\ base \in HandTypes /\ Promotion[base] \in PieceTypes /\ Promotion[base] # "king"
           /\ Promotion[base] \notin HandTypes
<1> DEFINE same == CHOOSE b \in DOMAIN Promotion : Promotion[b] = Promotion[base]
<1>1. \A b \in DOMAIN Promotion : Promotion[b] = Promotion[base] => b = base
  BY PromoteTable
<1>2. IsPromoted(Promotion[base])
  BY DEF IsPromoted
<1>3. Demote(Promotion[base]) = base
  BY <1>1, <1>2 DEF Demote
<1>4. base \in HandTypes
  BY PromoteTable, HandTypesAre
<1>5. Promotion[base] \in PieceTypes /\ Promotion[base] # "king" /\ Promotion[base] \notin HandTypes
  BY PromoteTable, PieceTypesAre, HandTypesAre
<1> QED BY <1>2, <1>3, <1>4, <1>5 DEF Promote

LEMMA DemoteUnpromoted ==
    ASSUME NEW type \in HandTypes \union {"king"}
    PROVE  ~IsPromoted(type) /\ Demote(type) = type /\ type \in PieceTypes
<1>1. ~IsPromoted(type)
  BY PromoteTable, HandTypesAre DEF IsPromoted
<1> QED BY <1>1 DEF Demote, PieceTypes

LEMMA Tokens ==
    ASSUME NEW type \in PieceTypes
    PROVE  /\ Demote(type) \in HandTypes \union {"king"}
           /\ Demote(type) = "king" <=> type = "king"
           /\ Promote(type) \in PieceTypes
           /\ Promote(type) = "king" <=> type = "king"
           /\ Demote(Promote(type)) = Demote(type)
           /\ IsPromoted(type) => /\ Demote(type) \in DOMAIN Promotion
                                  /\ Promote(Demote(type)) = type
                                  /\ Promotion[Demote(type)] = type
           /\ ~IsPromoted(type) => Demote(type) = type
<1>1. CASE type \in HandTypes \union {"king"}
  <2>1. Demote(type) = type /\ ~IsPromoted(type)
    BY <1>1, DemoteUnpromoted
  <2>2. CASE type \in DOMAIN Promotion
    BY <2>1, <2>2, <1>1, DemotePromoted, PromoteTable
  <2>3. CASE type \notin DOMAIN Promotion
    BY <2>1, <2>3, <1>1 DEF Promote
  <2> QED BY <2>2, <2>3
<1>2. CASE type \notin HandTypes \union {"king"}
  <2>1. PICK base \in DOMAIN Promotion : type = Promotion[base]
    BY <1>2 DEF PieceTypes
  <2>2. type \notin DOMAIN Promotion
    BY <2>1, PromoteTable
  <2>3. Promote(type) = type
    BY <2>2 DEF Promote
  <2>4. /\ Promote(base) = type /\ IsPromoted(type) /\ Demote(type) = base
        /\ base \in HandTypes /\ type \in PieceTypes /\ type # "king"
    BY <2>1, DemotePromoted
  <2>5. base # "king"
    BY <2>4, HandTypesAre
  <2> QED BY <2>1, <2>3, <2>4, <2>5
<1> QED BY <1>1, <1>2

-----------------------------------------------------------------------------
(* The check test.  A ray from the king toward a piece is the way of that  *)
(* piece to the king, walked backward.                                     *)

LEMMA RayTable ==
    ASSUME NEW type \in PieceTypes, type # "knight", NEW x \in -1..1, NEW y \in -1..1,
           ~(x = 0 /\ y = 0), NEW fwd \in {-1, 1}, NEW n \in Nat \ {0}
    PROVE  AttacksAlong(type, fwd, -(fwd * x), n, x # 0 /\ y # 0)
               <=> (n = 1 /\ <<x, y>> \in Steps(type)) \/ <<x, y>> \in Slides(type)
<1>1. x \in {-1, 0, 1} /\ y \in {-1, 0, 1}
  OBVIOUS
<1>2. -(fwd * x) = fwd <=> x = -1
  <2>1. CASE fwd = 1
    BY <1>1, <2>1
  <2>2. CASE fwd = -1
    BY <1>1, <2>2
  <2> QED BY <2>1, <2>2
<1> DEFINE down == -(fwd * x)
<1> HIDE DEF down
<1>3. down = fwd <=> x = -1
  BY <1>2 DEF down
<1> SUFFICES AttacksAlong(type, fwd, down, n, x # 0 /\ y # 0)
                 <=> (n = 1 /\ <<x, y>> \in Steps(type)) \/ <<x, y>> \in Slides(type)
  BY DEF down
<1>4. CASE type \in {"rook", "bishop", "dragon", "horse"}
  BY <1>1, <1>3, <1>4 DEF AttacksAlong, Steps, Slides
<1>5. CASE type \in {"lance", "pawn", "king", "silver"}
  BY <1>1, <1>3, <1>5 DEF AttacksAlong, Steps, Slides
<1>6. CASE type \in {"gold", "propawn", "prolance", "proknight", "prosilver"}
  BY <1>1, <1>3, <1>6 DEF AttacksAlong, Steps, Slides
<1> QED BY <1>4, <1>5, <1>6, PieceTypesAre

LEMMA KnightTable ==
    /\ Steps("knight") = {<<-2, -1>>, <<-2, 1>>} /\ Slides("knight") = {}
    /\ \A fwd, down, n, diagonal : ~AttacksAlong("knight", fwd, down, n, diagonal)
BY DEF Steps, Slides, AttacksAlong

LEMMA StepsAreNear ==
    ASSUME NEW type \in PieceTypes, type # "knight"
    PROVE  /\ \A d \in Steps(type) : d \in Directions /\ d[1] \in -1..1 /\ d[2] \in -1..1
           /\ \A d \in Slides(type) : d \in Directions /\ d[1] \in -1..1 /\ d[2] \in -1..1
<1>1. CASE type \in {"rook", "bishop", "dragon", "horse"}
  BY <1>1 DEF Steps, Slides, Directions
<1>2. CASE type \in {"lance", "pawn", "king", "silver"}
  BY <1>2 DEF Steps, Slides, Directions
<1>3. CASE type \in {"gold", "propawn", "prolance", "proknight", "prosilver"}
  BY <1>3 DEF Steps, Slides, Directions
<1> QED BY <1>1, <1>2, <1>3, PieceTypesAre

LEMMA OppositeDirection ==
    ASSUME NEW d \in Directions
    PROVE  /\ d[1] \in {-1, 0, 1} /\ d[2] \in {-1, 0, 1} /\ ~(d[1] = 0 /\ d[2] = 0)
           /\ d = <<d[1], d[2]>> /\ <<-d[1], -d[2]>> \in Directions
<1>1. /\ d[1] \in {-1, 0, 1} /\ d[2] \in {-1, 0, 1} /\ ~(d[1] = 0 /\ d[2] = 0)
      /\ d = <<d[1], d[2]>>
  BY DEF Directions
<1>2. -d[1] \in -1..1 /\ -d[2] \in -1..1 /\ ~(-d[1] = 0 /\ -d[2] = 0)
  BY <1>1
<1>3. <<-d[1], -d[2]>> \in Directions
  BY <1>2 DEF Directions
<1> QED BY <1>1, <1>3

LEMMA Backward ==
    ASSUME NEW k \in Squares, NEW d \in Directions, NEW n \in Int, NEW m \in Int
    PROVE  /\ Toward(Toward(k, d, n), <<-d[1], -d[2]>>, m) = Toward(k, d, n - m)
           /\ Toward(k, d, 0) = k
<1>1. k[1] \in Int /\ k[2] \in Int /\ k = <<k[1], k[2]>>
  BY BoardAssumption DEF Squares
<1>2. d[1] \in {-1, 0, 1} /\ d[2] \in {-1, 0, 1}
  BY OppositeDirection
<1>3. ASSUME NEW x \in {-1, 0, 1}, NEW z \in Int
      PROVE  (z + n * x) + m * (-x) = z + (n - m) * x /\ z + 0 * x = z
  <2>1. CASE x = -1 BY <2>1
  <2>2. CASE x = 0 BY <2>2
  <2>3. CASE x = 1 BY <2>3
  <2> QED BY <2>1, <2>2, <2>3
<1>4. /\ (k[1] + n * d[1]) + m * (-d[1]) = k[1] + (n - m) * d[1]
      /\ (k[2] + n * d[2]) + m * (-d[2]) = k[2] + (n - m) * d[2]
      /\ k[1] + 0 * d[1] = k[1] /\ k[2] + 0 * d[2] = k[2]
  BY <1>1, <1>2, <1>3
<1> QED BY <1>1, <1>4 DEF Toward

Boards == [grid : Grids, hand : [Colors -> [HandTypes -> 0..HandMax]],
           side : Colors, count : Nat \ {0}]

LEMMA Cells ==
    ASSUME NEW b \in Boards, NEW s \in Squares
    PROVE  /\ b.grid[s] = Empty \/ b.grid[s] \in Colors \X PieceTypes
           /\ b.grid[s] # Empty => /\ b.grid[s][1] \in Colors /\ b.grid[s][2] \in PieceTypes
                                   /\ b.grid[s] = <<b.grid[s][1], b.grid[s][2]>>
<1>1. b.grid[s] \in {Empty} \union (Colors \X PieceTypes)
  BY DEF Boards, Grids
<1> QED BY <1>1

LEMMA Sides ==
    ASSUME NEW c \in Colors
    PROVE  /\ Opponent(c) \in Colors /\ Opponent(c) # c
           /\ \A e \in Colors : e # c <=> e = Opponent(c)
           /\ Forward(Opponent(c)) \in {-1, 1}
BY DEF Colors, Opponent, Forward

\* A piece of the opponent on a ray from the king, as the scan looks at it and as the
\* piece does.
Clear(b, k, d, n) == \A m \in 1..(n - 1) : b.grid[Toward(k, d, m)] = Empty
Turned(color, d) == IF color = "black" THEN d ELSE <<-d[1], d[2]>>

LEMMA TurnedBack ==
    ASSUME NEW c \in Colors, NEW d \in Directions
    PROVE  /\ <<Forward(c) * d[1], -d[2]>> \in Directions
           /\ Turned(c, <<Forward(c) * d[1], -d[2]>>) = <<-d[1], -d[2]>>
           /\ Turned(c, d) \in Directions
           /\ Forward(c) * (Forward(c) * d[1]) = d[1]
           /\ <<Forward(c) * (-(Turned(c, d)[1])), -(-(Turned(c, d)[2]))>> = d
<1>1. d[1] \in {-1, 0, 1} /\ d[2] \in {-1, 0, 1} /\ d = <<d[1], d[2]>>
      /\ ~(d[1] = 0 /\ d[2] = 0)
  BY OppositeDirection
<1>2. <<-d[1], -d[2]>> \in Directions /\ <<-d[1], d[2]>> \in Directions
      /\ <<d[1], -d[2]>> \in Directions
  <2>1. -d[1] \in -1..1 /\ d[1] \in -1..1 /\ -d[2] \in -1..1 /\ d[2] \in -1..1
    BY <1>1
  <2> QED BY <2>1, <1>1 DEF Directions
<1>3. CASE c = "black"
  <2>1. Forward(c) = -1
    BY <1>3 DEF Forward
  <2>2. -1 * d[1] = -d[1] /\ -1 * (-1 * d[1]) = d[1] /\ -1 * (-d[1]) = d[1] /\ -(-d[2]) = d[2]
    BY <1>1
  <2>3. Turned(c, d) = d /\ \A e : Turned(c, e) = e
    BY <1>3 DEF Turned
  <2> QED BY <2>1, <2>2, <2>3, <1>2, <1>1
<1>4. CASE c = "white"
  <2>1. Forward(c) = 1
    BY <1>4 DEF Forward
  <2>2. 1 * d[1] = d[1] /\ -(-d[2]) = d[2] /\ -(-d[1]) = d[1]
    BY <1>1
  <2>3. \A e : Turned(c, e) = <<-e[1], e[2]>>
    BY <1>4 DEF Turned
  <2> QED BY <2>1, <2>2, <2>3, <1>2, <1>1
<1> QED BY <1>3, <1>4 DEF Colors

LEMMA TurnedIs ==
    ASSUME NEW c \in Colors, NEW d \in Directions
    PROVE  /\ Turned(c, d) = <<-(Forward(c) * d[1]), d[2]>>
           /\ (Forward(c) * d[1]) \in {-1, 0, 1}
           /\ Forward(c) * d[1] # 0 <=> d[1] # 0
<1>1. d[1] \in {-1, 0, 1} /\ d[2] \in {-1, 0, 1} /\ d = <<d[1], d[2]>>
  BY OppositeDirection
<1>2. CASE c = "black"
  <2>1. -(-1 * d[1]) = d[1] /\ -1 * d[1] \in {-1, 0, 1} /\ (-1 * d[1] # 0 <=> d[1] # 0)
    BY <1>1
  <2> QED BY <1>1, <1>2, <2>1 DEF Turned, Forward
<1>3. CASE c = "white"
  <2>1. 1 * d[1] = d[1]
    BY <1>1
  <2> QED BY <1>1, <1>3, <2>1 DEF Turned, Forward
<1> QED BY <1>2, <1>3 DEF Colors

LEMMA RayReaches ==
    ASSUME NEW b \in Boards, NEW c \in Colors, NEW k \in Squares, NEW d \in Directions,
           NEW n \in 1..(Size - 1), Toward(k, d, n) \in Squares, Clear(b, k, d, n),
           NEW type \in PieceTypes, b.grid[Toward(k, d, n)] = <<c, type>>,
           AttacksAlong(type, Forward(c), -d[1], n, d[1] # 0 /\ d[2] # 0)
    PROVE  Reaches(b, Toward(k, d, n), k)
<1> DEFINE s == Toward(k, d, n)
           fwd == Forward(c)
           x == fwd * d[1]
           y == -d[2]
           e == <<x, y>>
<1>1. type # "knight"
  BY KnightTable
<1>2. /\ d[1] \in {-1, 0, 1} /\ d[2] \in {-1, 0, 1} /\ ~(d[1] = 0 /\ d[2] = 0)
      /\ <<-d[1], -d[2]>> \in Directions
  BY OppositeDirection
<1>3. /\ x \in -1..1 /\ y \in -1..1 /\ (x # 0 <=> d[1] # 0) /\ (y # 0 <=> d[2] # 0)
      /\ fwd \in {-1, 1} /\ -(fwd * x) = -d[1]
  BY <1>2, TurnedIs, TurnedBack DEF Forward
<1>4. Turned(c, e) = <<-d[1], -d[2]>>
  BY TurnedBack
<1>5. n \in Nat \ {0} /\ n \in Int
  BY BoardAssumption
<1>6. (n = 1 /\ e \in Steps(type)) \/ e \in Slides(type)
  <2>1. AttacksAlong(type, fwd, -(fwd * x), n, x # 0 /\ y # 0)
            <=> (n = 1 /\ <<x, y>> \in Steps(type)) \/ <<x, y>> \in Slides(type)
    <3> HIDE DEF x, y, fwd
    <3> QED BY <1>1, <1>2, <1>3, <1>5, RayTable
  <2>2. AttacksAlong(type, fwd, -(fwd * x), n, x # 0 /\ y # 0)
    <3> HIDE DEF x, y
    <3>1. (x # 0 /\ y # 0) = (d[1] # 0 /\ d[2] # 0)
      BY <1>3
    <3> QED BY <1>3, <3>1
  <2> QED BY <2>1, <2>2
<1>7. \A m \in Int : Toward(s, Turned(c, e), m) = Toward(k, d, n - m)
  BY <1>4, <1>5, Backward
<1>8. Toward(k, d, 0) = k
  BY <1>5, Backward
<1>9. b.grid[s][1] = c /\ b.grid[s][2] = type
  OBVIOUS
<1> HIDE DEF s, e, x, y, fwd
<1>10. CASE n = 1 /\ e \in Steps(type)
  <2>1. Toward(s, Turned(c, e), 1) = k
    BY <1>10, <1>7, <1>8
  <2> QED BY <1>9, <1>10, <2>1 DEF Reaches, Turned, s
<1>11. CASE e \in Slides(type)
  <2>1. n - n = 0
    BY <1>5
  <2>2. Toward(s, Turned(c, e), n) = k
    BY <1>5, <1>7, <1>8, <2>1
  <2>3. ASSUME NEW m \in 1..(n - 1) PROVE b.grid[Toward(s, Turned(c, e), m)] = Empty
    <3>1. n - m \in 1..(n - 1) /\ m \in Int
      BY <1>5
    <3> QED BY <3>1, <1>7 DEF Clear
  <2> QED BY <1>9, <1>11, <2>2, <2>3 DEF Reaches, Turned, s
<1> QED BY <1>6, <1>10, <1>11

LEMMA ReachedOnRay ==
    ASSUME NEW b \in Boards, NEW c \in Colors, NEW k \in Squares, NEW s \in Squares,
           NEW type \in PieceTypes, type # "knight", b.grid[s] = <<c, type>>, Reaches(b, s, k)
    PROVE  \E d \in Directions, n \in 1..(Size - 1) :
              /\ s = Toward(k, d, n) /\ Clear(b, k, d, n)
              /\ AttacksAlong(type, Forward(c), -d[1], n, d[1] # 0 /\ d[2] # 0)
<1> DEFINE fwd == Forward(c)
<1>1. PICK e, n : /\ (n = 1 /\ e \in Steps(type)) \/ (n \in 1..(Size - 1) /\ e \in Slides(type))
                  /\ Toward(s, Turned(c, e), n) = k
                  /\ \A m \in 1..(n - 1) : b.grid[Toward(s, Turned(c, e), m)] = Empty
  <2>1. b.grid[s][1] = c /\ b.grid[s][2] = type
    OBVIOUS
  <2>2. \/ \E e \in Steps(type) : Toward(s, Turned(c, e), 1) = k
        \/ \E e \in Slides(type), n \in 1..(Size - 1) :
              /\ Toward(s, Turned(c, e), n) = k
              /\ \A m \in 1..(n - 1) : b.grid[Toward(s, Turned(c, e), m)] = Empty
    BY <2>1, Zenon DEF Reaches, Turned
  <2>3. 1..(1 - 1) = {}
    OBVIOUS
  <2> QED BY <2>2, <2>3
<1>2. e \in Directions /\ n \in Nat \ {0}
  BY <1>1, StepsAreNear, BoardAssumption
<1> DEFINE t == Turned(c, e)
           d == <<-t[1], -t[2]>>
<1>3. /\ t = <<-(fwd * e[1]), e[2]>> /\ (fwd * e[1]) \in {-1, 0, 1} /\ t \in Directions
      /\ fwd * e[1] # 0 <=> e[1] # 0
      /\ e[1] \in {-1, 0, 1} /\ e[2] \in {-1, 0, 1} /\ ~(e[1] = 0 /\ e[2] = 0)
      /\ e = <<e[1], e[2]>>
  BY <1>2, TurnedIs, TurnedBack, OppositeDirection
<1>4. d \in Directions
  BY <1>3, OppositeDirection
<1>5. /\ d[1] = fwd * e[1] /\ d[2] = -e[2] /\ -d[1] = -(fwd * e[1])
      /\ d[1] # 0 <=> e[1] # 0
      /\ d[2] # 0 <=> e[2] # 0
      /\ fwd \in {-1, 1}
  BY <1>3 DEF Forward
<1>6. \A m \in Int : Toward(k, d, m) = Toward(s, t, n - m)
  <2>1. \A m \in Int : Toward(Toward(s, t, n), d, m) = Toward(s, t, n - m)
    BY <1>2, <1>3, Backward
  <2>2. k = Toward(s, t, n)
    BY <1>1
  <2> HIDE DEF t, d
  <2> QED BY <2>1, <2>2
<1>7. s = Toward(k, d, n)
  <2> HIDE DEF t, d
  <2>1. Toward(s, t, 0) = s
    <3>1. t \in Directions /\ n \in Int /\ 0 \in Int
      BY <1>2, <1>3
    <3> QED BY <3>1, Backward
  <2>2. n - n = 0 /\ n \in Int
    BY <1>2
  <2> QED BY <2>1, <2>2, <1>6
<1>8. Clear(b, k, d, n)
  <2> SUFFICES ASSUME NEW m \in 1..(n - 1) PROVE b.grid[Toward(k, d, m)] = Empty
    BY DEF Clear
  <2>1. n - m \in 1..(n - 1) /\ m \in Int
    BY <1>2
  <2> HIDE DEF d
  <2> QED BY <1>1, <1>6, <2>1
<1>9. n \in 1..(Size - 1)
  <2>1. CASE n \in 1..(Size - 1)
    BY <2>1
  <2>2. CASE n = 1
    <3>1. s[1] \in 1..Size /\ s[2] \in 1..Size /\ k[1] \in 1..Size /\ k[2] \in 1..Size
      BY DEF Squares
    <3>2. k[1] = s[1] + 1 * t[1] /\ k[2] = s[2] + 1 * t[2]
      BY <1>1, <2>2 DEF Toward
    <3>3. t[1] \in {-1, 0, 1} /\ t[2] \in {-1, 0, 1} /\ ~(t[1] = 0 /\ t[2] = 0)
      BY <1>3, OppositeDirection
    <3> HIDE DEF t
    <3> QED BY <2>2, <3>1, <3>2, <3>3, BoardAssumption
  <2> QED BY <1>1, <2>1, <2>2
<1>10. AttacksAlong(type, fwd, -d[1], n, d[1] # 0 /\ d[2] # 0)
  <2> DEFINE x == e[1]
             y == e[2]
  <2>1. x \in -1..1 /\ y \in -1..1 /\ ~(x = 0 /\ y = 0) /\ e = <<x, y>>
    BY <1>3
  <2>2. (x # 0 /\ y # 0) = (d[1] # 0 /\ d[2] # 0)
    BY <1>5
  <2>3. AttacksAlong(type, fwd, -(fwd * x), n, x # 0 /\ y # 0)
            <=> (n = 1 /\ <<x, y>> \in Steps(type)) \/ <<x, y>> \in Slides(type)
    <3> HIDE DEF x, y, fwd
    <3> QED BY <1>2, <1>5, <2>1, RayTable
  <2>4. AttacksAlong(type, fwd, -(fwd * x), n, x # 0 /\ y # 0)
    <3> HIDE DEF x, y, fwd
    <3> QED BY <1>1, <2>1, <2>3
  <2> HIDE DEF d, fwd
  <2> QED BY <1>5, <2>2, <2>4
<1> HIDE DEF d
<1> QED BY <1>4, <1>7, <1>8, <1>9, <1>10

\* The scan is a test of what the rules call a check: for a board with at most one king
\* to a side, it finds one exactly when some piece of the opponent can go to the king.
THEOREM ScanIsCheck ==
    ASSUME NEW b \in Boards, OneKing(b)
    PROVE  IsInCheck(b) <=> Attacked(b, b.side)
<1> DEFINE c == b.side
           opp == Opponent(c)
           fwd == Forward(opp)
<1>0. /\ c \in Colors /\ opp \in Colors /\ opp # c /\ fwd \in {-1, 1}
      /\ \A e \in Colors : e # c <=> e = opp
  <2>1. c \in Colors
    BY DEF Boards
  <2> QED BY <2>1, Sides
<1> HIDE DEF c
<1>1. CASE Kings(b, c) = {}
  BY <1>1 DEF IsInCheck, Attacked, c
<1>2. CASE Kings(b, c) # {}
  <2> HIDE DEF fwd, opp
  <2>1. PICK k \in Kings(b, c) : \A t \in Kings(b, c) : t = k
    BY <1>0, <1>2 DEF OneKing
  <2>2. k \in Squares /\ k[1] \in Int /\ k[2] \in Int
    BY BoardAssumption DEF Kings, Squares
  <2>3. k = CHOOSE s \in Kings(b, c) : \A t \in Kings(b, c) :
                s[1] * Size + s[2] <= t[1] * Size + t[2]
    <3> DEFINE key(q) == q[1] * Size + q[2]
    <3>1. key(k) \in Int
      BY <2>2, BoardAssumption
    <3> HIDE DEF key
    <3>2. \A t \in Kings(b, c) : key(k) <= key(t)
      BY <2>1, <3>1
    <3>3. k = CHOOSE s \in Kings(b, c) : \A t \in Kings(b, c) : key(s) <= key(t)
      BY <2>1, <3>2
    <3> QED BY <3>3 DEF key
  <2> DEFINE onRay == \E d \in Directions, n \in 1..(Size - 1) :
                 LET s == Toward(k, d, n)
                 IN  /\ s \in Squares /\ b.grid[s] # Empty /\ Clear(b, k, d, n)
                     /\ b.grid[s][1] = opp
                     /\ AttacksAlong(b.grid[s][2], fwd, -d[1], n, d[1] # 0 /\ d[2] # 0)
             jump == \E side \in {-1, 1} :
                 LET s == <<k[1] - 2 * fwd, k[2] + side>>
                 IN  s \in Squares /\ b.grid[s] = <<opp, "knight">>
             reached == \E from \in Squares :
                 b.grid[from] # Empty /\ b.grid[from][1] # c /\ Reaches(b, from, k)
  <2>4. IsInCheck(b) <=> onRay \/ jump
    BY <1>2, <2>3, Zenon DEF IsInCheck, Clear, c, fwd, opp
  <2>5. Attacked(b, c) <=> reached
    BY <2>1 DEF Attacked
  <2>6. ASSUME onRay PROVE reached
    <3>1. PICK d \in Directions, n \in 1..(Size - 1) :
             LET s == Toward(k, d, n)
             IN  /\ s \in Squares /\ b.grid[s] # Empty /\ Clear(b, k, d, n)
                 /\ b.grid[s][1] = opp
                 /\ AttacksAlong(b.grid[s][2], fwd, -d[1], n, d[1] # 0 /\ d[2] # 0)
      BY <2>6
    <3> DEFINE s == Toward(k, d, n)
               type == b.grid[s][2]
    <3>2. /\ s \in Squares /\ b.grid[s] # Empty /\ Clear(b, k, d, n) /\ b.grid[s][1] = opp
          /\ AttacksAlong(type, fwd, -d[1], n, d[1] # 0 /\ d[2] # 0)
      BY <3>1
    <3>3. type \in PieceTypes /\ b.grid[s] = <<opp, type>>
      <4> HIDE DEF s
      <4> QED BY <3>2, Cells
    <3>4. Reaches(b, s, k)
      <4> HIDE DEF type
      <4> QED BY <1>0, <2>2, <3>2, <3>3, RayReaches DEF fwd
    <3> HIDE DEF s
    <3> QED BY <1>0, <3>2, <3>4
  <2>7. ASSUME jump PROVE reached
    <3>1. PICK side \in {-1, 1} : /\ <<k[1] - 2 * fwd, k[2] + side>> \in Squares
                                  /\ b.grid[<<k[1] - 2 * fwd, k[2] + side>>] = <<opp, "knight">>
      BY <2>7
    <3> DEFINE s == <<k[1] - 2 * fwd, k[2] + side>>
               e == <<-2, -side>>
    <3>2. e \in Steps("knight")
      BY KnightTable
    <3>3. Toward(s, Turned(opp, e), 1) = k
      <4>1. k = <<k[1], k[2]>>
        BY <2>2 DEF Squares
      <4>2. CASE opp = "black"
        <5>1. /\ (k[1] - 2 * (-1)) + 1 * (-2) = k[1] /\ (k[2] + side) + 1 * (-side) = k[2]
          BY <2>2
        <5> QED BY <4>1, <4>2, <5>1 DEF Toward, Turned, fwd, Forward
      <4>3. CASE opp # "black"
        <5>1. /\ (k[1] - 2 * 1) + 1 * (-(-2)) = k[1] /\ (k[2] + side) + 1 * (-side) = k[2]
          BY <2>2
        <5> QED BY <4>1, <4>3, <5>1 DEF Toward, Turned, fwd, Forward
      <4> QED BY <4>2, <4>3
    <3>4. s \in Squares /\ b.grid[s] = <<opp, "knight">>
      BY <3>1
    <3> HIDE DEF s, e
    <3>5. b.grid[s][1] = opp /\ b.grid[s][2] = "knight" /\ b.grid[s] # Empty
      BY <3>4, <1>0, Cells DEF Empty
    <3>6. Reaches(b, s, k)
      BY <3>2, <3>3, <3>5 DEF Reaches, Turned
    <3> QED BY <1>0, <3>4, <3>5, <3>6
  <2>8. ASSUME reached PROVE onRay \/ jump
    <3>1. PICK s \in Squares :
             b.grid[s] # Empty /\ b.grid[s][1] # c /\ Reaches(b, s, k)
      BY <2>8
    <3> DEFINE type == b.grid[s][2]
    <3>2. type \in PieceTypes /\ b.grid[s] = <<opp, type>> /\ b.grid[s][1] = opp
      BY <1>0, <3>1, Cells
    <3> HIDE DEF type
    <3>3. CASE type # "knight"
      <4>1. PICK d \in Directions, n \in 1..(Size - 1) :
                /\ s = Toward(k, d, n) /\ Clear(b, k, d, n)
                /\ AttacksAlong(type, fwd, -d[1], n, d[1] # 0 /\ d[2] # 0)
        BY <1>0, <2>2, <3>1, <3>2, <3>3, ReachedOnRay DEF fwd
      <4> QED BY <3>1, <3>2, <4>1 DEF type
    <3>4. CASE type = "knight"
      <4>1. PICK e \in {<<-2, -1>>, <<-2, 1>>} : Toward(s, Turned(opp, e), 1) = k
        <5>1. b.grid[s][2] = "knight"
          BY <3>4 DEF type
        <5> QED BY <3>1, <3>2, <5>1, KnightTable DEF Reaches, Turned
      <4>2. s[1] \in Int /\ s[2] \in Int /\ s = <<s[1], s[2]>>
        BY BoardAssumption DEF Squares
      <4>3. PICK side \in {-1, 1} : e = <<-2, -side>>
        <5>1. e = <<-2, -1>> \/ e = <<-2, -(-1)>>
          BY <4>1
        <5> QED BY <5>1
      <4>4. s = <<k[1] - 2 * fwd, k[2] + side>>
        <5>1. CASE opp = "black"
          <6>1. k[1] = s[1] + 1 * (-2) /\ k[2] = s[2] + 1 * (-side)
            BY <4>1, <4>3, <5>1 DEF Toward, Turned
          <6>2. fwd = -1
            BY <5>1 DEF fwd, Forward
          <6> QED BY <6>1, <6>2, <4>2
        <5>2. CASE opp # "black"
          <6>1. k[1] = s[1] + 1 * (-(-2)) /\ k[2] = s[2] + 1 * (-side)
            BY <4>1, <4>3, <5>2 DEF Toward, Turned
          <6>2. fwd = 1
            BY <5>2 DEF fwd, Forward
          <6> QED BY <6>1, <6>2, <4>2
        <5> QED BY <5>1, <5>2
      <4> QED BY <3>1, <3>2, <3>4, <4>4
    <3> QED BY <3>3, <3>4
  <2> QED BY <2>4, <2>5, <2>6, <2>7, <2>8 DEF c
<1> QED BY <1>1, <1>2

-----------------------------------------------------------------------------
(* The folds, each along the sequence it is over.                          *)

OverCells == INSTANCE FoldFacts WITH Op <- ReadCell, Latest <- Max
OverTokens == INSTANCE FoldFacts WITH Op <- ReadToken, Latest <- Max
OverPieces == INSTANCE FoldFacts WITH Op <- WriteHeld, Latest <- Max
OverHeld == INSTANCE FoldFacts WITH Op <- Hold, Latest <- Max
OverKeys == INSTANCE FoldFacts WITH Op <- HashToken, Latest <- Max
OverRanks == INSTANCE FoldFacts WITH Op <- HashRank, Latest <- Max
OverMoves == INSTANCE FoldFacts WITH Op <- MatchMove, Latest <- Max

LEMMA MaxIsLatest ==
    ASSUME NEW n \in Nat
    PROVE  \A t \in SUBSET (1..n) : t # {} => Max(t) \in t /\ \A y \in t : y <= Max(t)
<1> SUFFICES ASSUME NEW t \in SUBSET (1..n), t # {}
             PROVE  Max(t) \in t /\ \A y \in t : y <= Max(t)
  OBVIOUS
<1>1. \E x \in t : \A y \in t : y <= x
  BY OverCells!HasGreatest
<1>2. \E x \in t : \A y \in t : x >= y
  BY <1>1
<1>3. Max(t) \in t /\ \A y \in t : Max(t) >= y
  BY <1>2 DEF Max
<1> QED BY <1>3

LEMMA AlwaysMax ==
    /\ OverCells!AlwaysRightmost
    /\ OverTokens!AlwaysRightmost
    /\ OverPieces!AlwaysRightmost
    /\ OverHeld!AlwaysRightmost
    /\ OverKeys!AlwaysRightmost
    /\ OverRanks!AlwaysRightmost
    /\ OverMoves!AlwaysRightmost
BY MaxIsLatest DEF OverCells!AlwaysRightmost,
  OverCells!Rightmost, OverTokens!AlwaysRightmost, OverTokens!Rightmost, OverPieces!AlwaysRightmost,
  OverPieces!Rightmost, OverHeld!AlwaysRightmost, OverHeld!Rightmost, OverKeys!AlwaysRightmost,
  OverKeys!Rightmost, OverRanks!AlwaysRightmost, OverRanks!Rightmost, OverMoves!AlwaysRightmost,
  OverMoves!Rightmost

LEMMA CellsAlong ==
    ASSUME NEW base, NEW s, NEW n \in Nat
    PROVE  /\ OverCells!Fold(base, s, 1..0) = base
           /\ OverCells!Fold(base, s, 1..n + 1) = ReadCell(OverCells!Fold(base, s, 1..n), s[n + 1])
BY AlwaysMax, OverCells!FoldSteps

LEMMA TokensAlong ==
    ASSUME NEW base, NEW s, NEW n \in Nat
    PROVE  /\ OverTokens!Fold(base, s, 1..0) = base
           /\ OverTokens!Fold(base, s, 1..n + 1) = ReadToken(OverTokens!Fold(base, s, 1..n), s[n + 1])
BY AlwaysMax, OverTokens!FoldSteps

LEMMA PiecesAlong ==
    ASSUME NEW base, NEW s, NEW n \in Nat
    PROVE  /\ OverPieces!Fold(base, s, 1..0) = base
           /\ OverPieces!Fold(base, s, 1..n + 1) = WriteHeld(OverPieces!Fold(base, s, 1..n), s[n + 1])
BY AlwaysMax, OverPieces!FoldSteps

LEMMA HeldAlong ==
    ASSUME NEW base, NEW s, NEW n \in Nat
    PROVE  /\ OverHeld!Fold(base, s, 1..0) = base
           /\ OverHeld!Fold(base, s, 1..n + 1) = Hold(OverHeld!Fold(base, s, 1..n), s[n + 1])
BY AlwaysMax, OverHeld!FoldSteps

LEMMA KeysAlong ==
    ASSUME NEW base, NEW s, NEW n \in Nat
    PROVE  /\ OverKeys!Fold(base, s, 1..0) = base
           /\ OverKeys!Fold(base, s, 1..n + 1) = HashToken(OverKeys!Fold(base, s, 1..n), s[n + 1])
BY AlwaysMax, OverKeys!FoldSteps

LEMMA RanksAlong ==
    ASSUME NEW base, NEW s, NEW n \in Nat
    PROVE  /\ OverRanks!Fold(base, s, 1..0) = base
           /\ OverRanks!Fold(base, s, 1..n + 1) = HashRank(OverRanks!Fold(base, s, 1..n), s[n + 1])
BY AlwaysMax, OverRanks!FoldSteps

LEMMA MovesAlong ==
    ASSUME NEW base, NEW s, NEW n \in Nat
    PROVE  /\ OverMoves!Fold(base, s, 1..0) = base
           /\ OverMoves!Fold(base, s, 1..n + 1) = MatchMove(OverMoves!Fold(base, s, 1..n), s[n + 1])
BY AlwaysMax, OverMoves!FoldSteps

LEMMA FoldsAre ==
    /\ \A row : RankText(row) =
                    EndRun(OverCells!Fold([out |-> <<>>, run |-> 0], row, DOMAIN row))
    /\ \A rank : RankCells(rank) = OverTokens!Fold(<<>>, rank, DOMAIN rank)
    /\ \A hand : HandText(hand) = OverPieces!Fold(<<>>, Pieces(hand), DOMAIN Pieces(hand))
    /\ \A text : FromSfen(text).hand = OverHeld!Fold(NoHands, text.hand, DOMAIN text.hand)
    /\ \A h, rank : HashRank(h, rank) = OverKeys!Fold(h, rank, DOMAIN rank)
    /\ \A text : ZobristFromSfen(text) =
           [side |-> text.side,
            keys |-> OverRanks!Fold([sq |-> 0, keys |-> {}], text.board, DOMAIN text.board).keys]
    /\ \A g, text, moves : FromMatch(g, text, moves) =
           OverMoves!Fold([game |-> g, board |-> FromSfen(text), kept |-> <<>>, going |-> TRUE],
                          moves, DOMAIN moves)
<1>1. \A row : RankText(row) =
                  EndRun(OverCells!Fold([out |-> <<>>, run |-> 0], row, DOMAIN row))
  BY DEF RankText, FoldLeft, MapThenFoldSet, OverCells!Fold, OverCells!Upto,
         OverCells!FoldOver
<1>2. \A rank : RankCells(rank) = OverTokens!Fold(<<>>, rank, DOMAIN rank)
  BY DEF RankCells, FoldLeft, MapThenFoldSet, OverTokens!Fold, OverTokens!Upto,
         OverTokens!FoldOver
<1>3. \A hand : HandText(hand) = OverPieces!Fold(<<>>, Pieces(hand), DOMAIN Pieces(hand))
  BY DEF HandText, FoldLeft, MapThenFoldSet, OverPieces!Fold, OverPieces!Upto,
         OverPieces!FoldOver
<1>4. \A text : FromSfen(text).hand = OverHeld!Fold(NoHands, text.hand, DOMAIN text.hand)
  BY DEF FromSfen, FoldLeft, MapThenFoldSet, OverHeld!Fold, OverHeld!Upto,
         OverHeld!FoldOver
<1>5. \A h, rank : HashRank(h, rank) = OverKeys!Fold(h, rank, DOMAIN rank)
  BY DEF HashRank, FoldLeft, MapThenFoldSet, OverKeys!Fold, OverKeys!Upto,
         OverKeys!FoldOver
<1>6. \A text : ZobristFromSfen(text) =
         [side |-> text.side,
          keys |-> OverRanks!Fold([sq |-> 0, keys |-> {}], text.board, DOMAIN text.board).keys]
  BY DEF ZobristFromSfen, FoldLeft, MapThenFoldSet, OverRanks!Fold, OverRanks!Upto,
         OverRanks!FoldOver
<1>7. \A g, text, moves : FromMatch(g, text, moves) =
         OverMoves!Fold([game |-> g, board |-> FromSfen(text), kept |-> <<>>, going |-> TRUE],
                        moves, DOMAIN moves)
  BY DEF FromMatch, FoldLeft, MapThenFoldSet, OverMoves!Fold, OverMoves!Upto,
         OverMoves!FoldOver
<1> QED BY <1>1, <1>2, <1>3, <1>4, <1>5, <1>6, <1>7, Zenon

-----------------------------------------------------------------------------
(* Ranks and their texts.                                                  *)

Cell == {Empty} \union (Colors \X PieceTypes)
Toks == [kind : {"gap"}, n : Nat] \union
        {t \in [kind : {"piece"}, color : Colors, base : HandTypes \union {"king"}, plus : BOOLEAN] :
            t.plus => t.base \in DOMAIN Promotion}
CellsIn(t) == IF t.kind = "gap" THEN [i \in 1..t.n |-> Empty]
              ELSE <<<<t.color, IF t.plus THEN Promote(t.base) ELSE t.base>>>>

LEMMA TokenCells ==
    ASSUME NEW t \in Toks
    PROVE  /\ CellsIn(t) \in Seq(Cell)
           /\ t.kind = "gap" => /\ t.n \in Nat /\ Len(CellsIn(t)) = t.n
                                /\ \A j \in 1..t.n : CellsIn(t)[j] = Empty
           /\ t.kind # "gap" => /\ Len(CellsIn(t)) = 1 /\ CellsIn(t)[1] # Empty
                                /\ CellsIn(t)[1] =
                                       <<t.color, IF t.plus THEN Promotion[t.base] ELSE t.base>>
<1>1. CASE t.kind = "gap"
  <2>1. t.n \in Nat
    BY <1>1 DEF Toks
  <2>2. CellsIn(t) \in [1..t.n -> Cell] /\ \A j \in 1..t.n : CellsIn(t)[j] = Empty
    BY <1>1 DEF CellsIn, Cell
  <2>3. CellsIn(t) \in Seq(Cell) /\ Len(CellsIn(t)) = t.n
    <3> DEFINE c == CellsIn(t)
               n == t.n
    <3>1. n \in Nat /\ c \in [1..n -> Cell]
      BY <2>1, <2>2
    <3> HIDE DEF c, n
    <3>2. c \in Seq(Cell) /\ Len(c) = n
      BY <3>1
    <3> QED BY <3>2 DEF c, n
  <2> QED BY <1>1, <2>1, <2>2, <2>3
<1>2. CASE t.kind # "gap"
  <2> DEFINE type == IF t.plus THEN Promote(t.base) ELSE t.base
  <2>1. t.color \in Colors /\ t.base \in HandTypes \union {"king"} /\ t.plus \in BOOLEAN
        /\ (t.plus => t.base \in DOMAIN Promotion)
    BY <1>2 DEF Toks
  <2>2. type \in PieceTypes /\ type = IF t.plus THEN Promotion[t.base] ELSE t.base
    BY <2>1, DemotePromoted, DemoteUnpromoted
  <2>3. CellsIn(t) = <<<<t.color, type>>>>
    BY <1>2 DEF CellsIn
  <2> HIDE DEF type
  <2>4. <<t.color, type>> \in Cell /\ <<t.color, type>> # Empty
    BY <2>1, <2>2 DEF Cell, Empty
  <2>5. CellsIn(t) \in Seq(Cell) /\ Len(CellsIn(t)) = 1 /\ CellsIn(t)[1] = <<t.color, type>>
    BY <2>3, <2>4
  <2> QED BY <1>2, <2>2, <2>4, <2>5
<1> QED BY <1>1, <1>2

LEMMA TokenIsCell ==
    ASSUME NEW cell \in Colors \X PieceTypes
    PROVE  Token(cell) \in Toks /\ Token(cell).kind # "gap" /\ CellsIn(Token(cell)) = <<cell>>
<1>1. PICK c \in Colors, type \in PieceTypes : cell = <<c, type>>
  OBVIOUS
<1>2. Token(cell) = [kind |-> "piece", color |-> c, base |-> Demote(type), plus |-> IsPromoted(type)]
  BY <1>1 DEF Token
<1>3. IsPromoted(type) \in BOOLEAN
  BY DEF IsPromoted
<1>4. Token(cell) \in Toks
  BY <1>2, <1>3, Tokens DEF Toks
<1>5. CellsIn(Token(cell)) = <<cell>>
  BY <1>1, <1>2, Tokens DEF CellsIn
<1> QED BY <1>2, <1>4, <1>5

LEMMA RankCellsType ==
    ASSUME NEW out \in Seq(Toks), NEW n \in 0..Len(out)
    PROVE  OverTokens!Fold(<<>>, out, 1..n) \in Seq(Cell)
<1>1. n \in Nat
  OBVIOUS
<1>2. OverTokens!Closed(Seq(Cell), out, 1..n)
  <2> SUFFICES ASSUME NEW r \in Seq(Cell), NEW x \in 1..n
               PROVE  ReadToken(r, out[x]) \in Seq(Cell)
    BY DEF OverTokens!Closed
  <2>1. out[x] \in Toks
    OBVIOUS
  <2>2. ReadToken(r, out[x]) = r \o CellsIn(out[x])
    BY DEF ReadToken, CellsIn
  <2> QED BY <2>1, <2>2, TokenCells
<1>3. OverTokens!Ordered(1..n)
  BY <1>1, AlwaysMax, OverTokens!OrderedInterval
<1>4. <<>> \in Seq(Cell)
  OBVIOUS
<1> QED BY <1>2, <1>3, <1>4, OverTokens!FoldType

LEMMA RankCellsAppend ==
    ASSUME NEW out \in Seq(Toks), NEW t \in Toks
    PROVE  /\ RankCells(out) \in Seq(Cell) /\ RankCells(<<>>) = <<>>
           /\ RankCells(Append(out, t)) = RankCells(out) \o CellsIn(t)
<1> DEFINE n == Len(out)
           r == Append(out, t)
<1>1. n \in Nat /\ DOMAIN out = 1..n /\ DOMAIN r = 1..n + 1 /\ r[n + 1] = t
      /\ \A x \in 1..n : r[x] = out[x]
  OBVIOUS
<1> HIDE DEF n, r
<1>2. RankCells(out) = OverTokens!Fold(<<>>, out, 1..n)
  BY <1>1, FoldsAre
<1>3. RankCells(r) = OverTokens!Fold(<<>>, r, 1..n + 1)
  BY <1>1, FoldsAre
<1>4. OverTokens!Fold(<<>>, r, 1..n + 1) = ReadToken(OverTokens!Fold(<<>>, r, 1..n), t)
  <2>1. n \in Nat
    BY <1>1
  <2>2. OverTokens!Fold(<<>>, r, 1..n + 1) = ReadToken(OverTokens!Fold(<<>>, r, 1..n), r[n + 1])
    BY <2>1, TokensAlong
  <2> QED BY <1>1, <2>2
<1>5. OverTokens!Fold(<<>>, r, 1..n) = OverTokens!Fold(<<>>, out, 1..n)
  <2>1. OverTokens!Agree(r, out, 1..n)
    BY <1>1 DEF OverTokens!Agree
  <2> QED BY <1>1, <2>1, AlwaysMax, OverTokens!FoldOfPrefix
<1>6. RankCells(<<>>) = <<>>
  <2>1. DOMAIN <<>> = 1..0
    OBVIOUS
  <2>2. RankCells(<<>>) = OverTokens!Fold(<<>>, <<>>, DOMAIN <<>>)
    BY FoldsAre
  <2>3. OverTokens!Fold(<<>>, <<>>, 1..0) = <<>>
    BY TokensAlong
  <2> QED BY <2>1, <2>2, <2>3
<1>7. RankCells(out) \in Seq(Cell)
  <2>1. n \in 0..Len(out)
    BY <1>1 DEF n
  <2> QED BY <1>2, <2>1, RankCellsType
<1>8. RankCells(r) = RankCells(out) \o CellsIn(t)
  BY <1>2, <1>3, <1>4, <1>5 DEF ReadToken, CellsIn
<1> QED BY <1>6, <1>7, <1>8 DEF r

\* The text so far and the run behind it spell the first k cells of a row.
Spells(s, row, k) ==
    /\ s \in [out : Seq(Toks), run : Nat]
    /\ Len(RankCells(s.out)) + s.run = k
    /\ \A j \in 1..k : row[j] = IF j <= Len(RankCells(s.out)) THEN RankCells(s.out)[j] ELSE Empty

LEMMA EndedRun ==
    ASSUME NEW s, NEW row, NEW k \in Nat, Spells(s, row, k)
    PROVE  /\ EndRun(s) \in Seq(Toks) /\ RankCells(EndRun(s)) \in Seq(Cell)
           /\ Len(RankCells(EndRun(s))) = k
           /\ \A j \in 1..k : RankCells(EndRun(s))[j] = row[j]
<1> DEFINE out == s.out
           run == s.run
           c == RankCells(out)
<1>1. out \in Seq(Toks) /\ run \in Nat /\ c \in Seq(Cell) /\ Len(c) + run = k
  BY RankCellsAppend, Gap(0) \in Toks DEF Spells, Toks, Gap
<1>2. \A j \in 1..k : row[j] = IF j <= Len(c) THEN c[j] ELSE Empty
  BY DEF Spells
<1>3. EndRun(s) = IF run = 0 THEN out ELSE Append(out, Gap(run))
  BY DEF EndRun
<1> HIDE DEF out, run
<1>4. CASE run = 0
  <2> HIDE DEF c
  <2>1. EndRun(s) = out /\ Len(c) = k
    BY <1>1, <1>3, <1>4
  <2> QED BY <1>1, <1>2, <2>1 DEF c
<1>5. CASE run # 0
  <2>1. Gap(run) \in Toks /\ Gap(run).kind = "gap" /\ Gap(run).n = run
    BY <1>1 DEF Gap, Toks
  <2>2. RankCells(EndRun(s)) = c \o CellsIn(Gap(run)) /\ EndRun(s) \in Seq(Toks)
    BY <1>1, <1>3, <1>5, <2>1, RankCellsAppend
  <2>3. /\ CellsIn(Gap(run)) \in Seq(Cell) /\ Len(CellsIn(Gap(run))) = run
        /\ \A j \in 1..run : CellsIn(Gap(run))[j] = Empty
    BY <2>1, TokenCells
  <2> DEFINE g == CellsIn(Gap(run))
  <2> HIDE DEF c, g
  <2>4. c \o g \in Seq(Cell) /\ Len(c \o g) = k
    BY <1>1, <2>3 DEF g
  <2>5. ASSUME NEW j \in 1..k PROVE (c \o g)[j] = row[j]
    <3>1. CASE j <= Len(c)
      BY <1>1, <1>2, <2>3, <3>1 DEF g
    <3>2. CASE ~(j <= Len(c))
      <4>1. j - Len(c) \in 1..run
        BY <1>1, <3>2
      <4>2. (c \o g)[j] = g[j - Len(c)]
        BY <1>1, <2>3, <3>2 DEF g
      <4> QED BY <1>2, <2>3, <3>2, <4>1, <4>2 DEF g
    <3> QED BY <3>1, <3>2
  <2> QED BY <2>2, <2>4, <2>5 DEF g
<1> QED BY <1>1, <1>4, <1>5

LEMMA SpellsNext ==
    ASSUME NEW s, NEW row, NEW k \in Nat, Spells(s, row, k), row[k + 1] \in Cell
    PROVE  Spells(ReadCell(s, row[k + 1]), row, k + 1)
<1> DEFINE cell == row[k + 1]
<1>1. CASE cell = Empty
  <2> DEFINE q == [s EXCEPT !.run = @ + 1]
  <2>1. ReadCell(s, cell) = q
    BY <1>1 DEF ReadCell
  <2>2. q \in [out : Seq(Toks), run : Nat] /\ q.out = s.out /\ q.run = s.run + 1 /\ s.run \in Nat
    BY DEF Spells
  <2>3. RankCells(q.out) \in Seq(Cell)
    BY <2>2, RankCellsAppend, Gap(0) \in Toks DEF Toks, Gap
  <2> HIDE DEF q
  <2>4. Len(RankCells(q.out)) \in Nat /\ Len(RankCells(q.out)) + s.run = k
    BY <2>2, <2>3 DEF Spells
  <2>5. \A j \in 1..k + 1 : row[j] = IF j <= Len(RankCells(q.out)) THEN RankCells(q.out)[j]
                                     ELSE Empty
    <3> SUFFICES ASSUME NEW j \in 1..k + 1
                 PROVE  row[j] = IF j <= Len(RankCells(q.out)) THEN RankCells(q.out)[j] ELSE Empty
      OBVIOUS
    <3>1. CASE j = k + 1
      <4>1. ~(j <= Len(RankCells(q.out)))
        BY <2>2, <2>4, <3>1
      <4> QED BY <1>1, <3>1, <4>1
    <3>2. CASE j \in 1..k
      BY <2>2, <3>2 DEF Spells
    <3> QED BY <3>1, <3>2
  <2> QED BY <2>1, <2>2, <2>4, <2>5 DEF Spells
<1>2. CASE cell # Empty
  <2>1. cell \in Colors \X PieceTypes
    BY <1>2 DEF Cell
  <2> DEFINE q == [out |-> Append(EndRun(s), Token(cell)), run |-> 0]
             c == RankCells(EndRun(s))
  <2>2. ReadCell(s, cell) = q
    BY <1>2 DEF ReadCell
  <2>3. /\ EndRun(s) \in Seq(Toks) /\ c \in Seq(Cell) /\ Len(c) = k
        /\ \A j \in 1..k : c[j] = row[j]
    BY EndedRun
  <2>4. Token(cell) \in Toks /\ CellsIn(Token(cell)) = <<cell>>
    BY <2>1, TokenIsCell
  <2>5. RankCells(q.out) = c \o <<cell>> /\ q.run = 0
    BY <2>3, <2>4, RankCellsAppend
  <2>6. q \in [out : Seq(Toks), run : Nat]
    BY <2>3, <2>4
  <2>7. cell \in Cell
    OBVIOUS
  <2> HIDE DEF c, q
  <2>8. Len(c \o <<cell>>) = k + 1 /\ \A j \in 1..k + 1 : (c \o <<cell>>)[j] = row[j]
    <3> DEFINE e == cell
    <3>1. e = row[k + 1] /\ e \in Cell
      BY <2>7
    <3> HIDE DEF e
    <3> SUFFICES Len(c \o <<e>>) = k + 1 /\ \A j \in 1..k + 1 : (c \o <<e>>)[j] = row[j]
      BY DEF e
    <3>2. Len(c \o <<e>>) = k + 1 /\ (c \o <<e>>)[k + 1] = e
          /\ \A j \in 1..k : (c \o <<e>>)[j] = c[j]
      BY <2>3, <3>1
    <3> QED BY <2>3, <3>1, <3>2
  <2>9. Len(RankCells(q.out)) + q.run = k + 1
    BY <2>5, <2>8
  <2>10. \A j \in 1..k + 1 : row[j] = IF j <= Len(RankCells(q.out)) THEN RankCells(q.out)[j]
                                      ELSE Empty
    BY <2>5, <2>8
  <2> QED BY <2>2, <2>6, <2>9, <2>10 DEF Spells
<1> QED BY <1>1, <1>2

\* The text of a rank is tokens, and what they stand for is the rank.
LEMMA RankSurvives ==
    ASSUME NEW row \in [1..Size -> Cell]
    PROVE  /\ RankText(row) \in Seq(Toks)
           /\ RankCells(RankText(row)) \in Seq(Cell)
           /\ Len(RankCells(RankText(row))) = Size
           /\ \A j \in 1..Size : RankCells(RankText(row))[j] = row[j]
<1> DEFINE base == [out |-> <<>>, run |-> 0]
           at(k) == OverCells!Fold(base, row, 1..k)
           T == {k \in Nat : k <= Size => Spells(at(k), row, k)}
<1>0. Size \in Nat
  BY BoardAssumption
<1>1. 0 \in T
  <2>1. at(0) = base
    BY CellsAlong
  <2>2. RankCells(<<>>) = <<>>
    <3>1. <<>> \in Seq(Toks) /\ Gap(0) \in Toks
      BY DEF Gap, Toks
    <3> QED BY <3>1, RankCellsAppend
  <2>3. Spells(base, row, 0)
    BY <2>2 DEF Spells
  <2> QED BY <2>1, <2>3
<1>2. ASSUME NEW k \in T PROVE k + 1 \in T
  <2>1. k \in Nat
    OBVIOUS
  <2>2. ASSUME k + 1 <= Size PROVE Spells(at(k + 1), row, k + 1)
    <3>1. Spells(at(k), row, k) /\ row[k + 1] \in Cell
      BY <1>0, <2>1, <2>2
    <3>2. at(k + 1) = ReadCell(at(k), row[k + 1])
      BY <2>1, CellsAlong
    <3> HIDE DEF at
    <3> QED BY <2>1, <3>1, <3>2, SpellsNext
  <2> HIDE DEF at
  <2> QED BY <2>1, <2>2
<1>3. T = Nat
  <2>1. T \subseteq Nat
    OBVIOUS
  <2> HIDE DEF T
  <2> QED BY <2>1, <1>1, <1>2, OverCells!AllNumbers
<1>4. Spells(at(Size), row, Size)
  <2> HIDE DEF at
  <2> QED BY <1>0, <1>3
<1>5. RankText(row) = EndRun(at(Size))
  BY FoldsAre
<1> HIDE DEF at
<1> QED BY <1>0, <1>4, <1>5, EndedRun

-----------------------------------------------------------------------------
(* The hash of a text.                                                     *)

Keyed(h, c) ==
    [sq |-> h.sq + Len(c),
     keys |-> h.keys \union {<<h.sq + j, c[j]>> : j \in {i \in 1..Len(c) : c[i] # Empty}}]

LEMMA KeyedNext ==
    ASSUME NEW sq \in Nat, NEW keys, NEW c \in Seq(Cell), NEW t \in Toks
    PROVE  HashToken(Keyed([sq |-> sq, keys |-> keys], c), t)
               = Keyed([sq |-> sq, keys |-> keys], c \o CellsIn(t))
<1> DEFINE h == [sq |-> sq, keys |-> keys]
           g == CellsIn(t)
           K(e) == {<<sq + j, e[j]>> : j \in {i \in 1..Len(e) : e[i] # Empty}}
<1>0. Len(c) \in Nat
  OBVIOUS
<1>1. \A e : Keyed(h, e) = [sq |-> sq + Len(e), keys |-> keys \union K(e)]
  BY DEF Keyed
<1>2. g \in Seq(Cell) /\ Len(g) \in Nat
  BY TokenCells
<1> HIDE DEF h
<1>3. CASE t.kind = "gap"
  <2>1. Len(g) = t.n /\ t.n \in Nat /\ \A j \in 1..t.n : g[j] = Empty
    BY <1>3, TokenCells
  <2> HIDE DEF g
  <2>2. /\ c \o g \in Seq(Cell) /\ Len(c \o g) = Len(c) + t.n
        /\ \A j \in 1..Len(c) : (c \o g)[j] = c[j]
    BY <1>0, <1>2, <2>1
  <2>3. \A j \in 1..Len(c \o g) : j \notin 1..Len(c) => (c \o g)[j] = Empty
    <3> SUFFICES ASSUME NEW j \in 1..Len(c \o g), j \notin 1..Len(c)
                 PROVE  (c \o g)[j] = Empty
      OBVIOUS
    <3>1. j - Len(c) \in 1..t.n
      BY <1>0, <2>1, <2>2
    <3>2. (c \o g)[j] = g[j - Len(c)]
      BY <1>0, <1>2, <2>1, <2>2
    <3> QED BY <2>1, <3>1, <3>2
  <2>4. {i \in 1..Len(c \o g) : (c \o g)[i] # Empty} = {i \in 1..Len(c) : c[i] # Empty}
    BY <1>0, <2>1, <2>2, <2>3
  <2>5. K(c \o g) = K(c)
    BY <2>2, <2>4
  <2>6. HashToken(Keyed(h, c), t) = [Keyed(h, c) EXCEPT !.sq = @ + t.n]
    BY <1>3 DEF HashToken
  <2> DEFINE kc == K(c)
             kcg == K(c \o g)
  <2>7. Keyed(h, c) = [sq |-> sq + Len(c), keys |-> keys \union kc]
    BY <1>1
  <2>8. Keyed(h, c \o g) = [sq |-> sq + Len(c \o g), keys |-> keys \union kcg]
    BY <1>1
  <2>9. kc = kcg
    BY <2>5
  <2> HIDE DEF kc, kcg
  <2>10. sq + Len(c \o g) = (sq + Len(c)) + t.n
    BY <1>0, <2>1, <2>2
  <2>11. HashToken(Keyed(h, c), t) = Keyed(h, c \o g)
    <3>1. HashToken(Keyed(h, c), t) = [sq |-> (sq + Len(c)) + t.n, keys |-> keys \union kc]
      <4> DEFINE q == Keyed(h, c)
                 a == sq + Len(c)
                 b == keys \union kc
                 n == t.n
      <4>1. q = [sq |-> a, keys |-> b] /\ HashToken(q, t) = [q EXCEPT !.sq = @ + n]
        BY <2>6, <2>7
      <4> HIDE DEF q, a, b, n
      <4>2. HashToken(q, t) = [sq |-> a + n, keys |-> b]
        BY <4>1
      <4> QED BY <4>2 DEF q, a, b, n
    <3> QED BY <3>1, <2>8, <2>9, <2>10
  <2> QED BY <2>11 DEF g, h
<1>4. CASE t.kind # "gap"
  <2> DEFINE cell == <<t.color, IF t.plus THEN Promotion[t.base] ELSE t.base>>
  <2>1. Len(g) = 1 /\ g[1] = cell /\ cell # Empty
    BY <1>4, TokenCells
  <2> HIDE DEF g, cell
  <2>2. /\ c \o g \in Seq(Cell) /\ Len(c \o g) = Len(c) + 1
        /\ \A j \in 1..Len(c) : (c \o g)[j] = c[j]
        /\ (c \o g)[Len(c) + 1] = cell
    <3>1. /\ c \o g \in Seq(Cell) /\ Len(c \o g) = Len(c) + 1
          /\ \A j \in 1..Len(c) : (c \o g)[j] = c[j]
      BY SMTT(40), <1>0, <1>2, <2>1
    <3>2. (c \o g)[Len(c) + 1] = g[(Len(c) + 1) - Len(c)] /\ (Len(c) + 1) - Len(c) = 1
      BY <1>0, <1>2, <2>1
    <3> QED BY <2>1, <3>1, <3>2
  <2>3. {i \in 1..Len(c \o g) : (c \o g)[i] # Empty}
            = {i \in 1..Len(c) : c[i] # Empty} \union {Len(c) + 1}
    BY <1>0, <2>1, <2>2
  <2>4. K(c \o g) = K(c) \union {<<sq + (Len(c) + 1), cell>>}
    BY <2>2, <2>3
  <2>5. HashToken(Keyed(h, c), t) =
            [sq |-> Keyed(h, c).sq + 1,
             keys |-> Keyed(h, c).keys \union {<<Keyed(h, c).sq + 1, cell>>}]
    BY <1>4 DEF HashToken, cell
  <2> DEFINE kc == K(c)
             kcg == K(c \o g)
  <2>6. Keyed(h, c) = [sq |-> sq + Len(c), keys |-> keys \union kc]
    BY <1>1
  <2>7. Keyed(h, c \o g) = [sq |-> sq + Len(c \o g), keys |-> keys \union kcg]
    BY <1>1
  <2>8. kcg = kc \union {<<sq + (Len(c) + 1), cell>>}
    BY <2>4
  <2> HIDE DEF kc, kcg
  <2>9. sq + Len(c \o g) = (sq + Len(c)) + 1 /\ sq + (Len(c) + 1) = (sq + Len(c)) + 1
    BY <1>0, <2>2
  <2>10. (keys \union kc) \union {<<(sq + Len(c)) + 1, cell>>}
             = keys \union (kc \union {<<(sq + Len(c)) + 1, cell>>})
    OBVIOUS
  <2>11. HashToken(Keyed(h, c), t) = Keyed(h, c \o g)
    <3>1. HashToken(Keyed(h, c), t) =
              [sq |-> (sq + Len(c)) + 1,
               keys |-> (keys \union kc) \union {<<(sq + Len(c)) + 1, cell>>}]
      BY <2>5, <2>6
    <3>2. Keyed(h, c \o g) =
              [sq |-> (sq + Len(c)) + 1,
               keys |-> keys \union (kc \union {<<(sq + Len(c)) + 1, cell>>})]
      BY <2>7, <2>8, <2>9
    <3> QED BY <3>1, <3>2, <2>10
  <2> QED BY <2>11 DEF g, h
<1> QED BY <1>3, <1>4

\* The hash of a rank is that of the cells its text stands for.
LEMMA HashOfRank ==
    ASSUME NEW sq \in Nat, NEW keys, NEW out \in Seq(Toks)
    PROVE  HashRank([sq |-> sq, keys |-> keys], out)
               = Keyed([sq |-> sq, keys |-> keys], RankCells(out))
<1> DEFINE h == [sq |-> sq, keys |-> keys]
           n == Len(out)
           keysAt(k) == OverKeys!Fold(h, out, 1..k)
           cellsAt(k) == OverTokens!Fold(<<>>, out, 1..k)
           T == {k \in Nat : k <= n => keysAt(k) = Keyed(h, cellsAt(k))}
<1>0. n \in Nat /\ DOMAIN out = 1..n /\ \A k \in 1..n : out[k] \in Toks
  OBVIOUS
<1>1. 0 \in T
  <2>1. keysAt(0) = h /\ cellsAt(0) = <<>>
    BY KeysAlong, TokensAlong
  <2>2. {<<h.sq + j, <<>>[j]>> : j \in {i \in 1..Len(<<>>) : <<>>[i] # Empty}} = {}
    OBVIOUS
  <2>3. Keyed(h, <<>>) = [sq |-> sq + 0, keys |-> keys \union {}]
    BY <2>2 DEF Keyed
  <2>4. Keyed(h, <<>>) = h
    BY <2>3
  <2> HIDE DEF keysAt, cellsAt, h
  <2> QED BY <2>1, <2>4
<1>2. ASSUME NEW k \in T PROVE k + 1 \in T
  <2>1. k \in Nat
    OBVIOUS
  <2>2. ASSUME k + 1 <= n PROVE keysAt(k + 1) = Keyed(h, cellsAt(k + 1))
    <3>1. keysAt(k) = Keyed(h, cellsAt(k)) /\ out[k + 1] \in Toks /\ k \in 0..n
      <4> HIDE DEF n, keysAt, cellsAt
      <4> QED BY <1>0, <2>1, <2>2
    <3>2. keysAt(k + 1) = HashToken(keysAt(k), out[k + 1])
      BY <2>1, KeysAlong
    <3>3. cellsAt(k + 1) = ReadToken(cellsAt(k), out[k + 1])
      BY <2>1, TokensAlong
    <3>4. cellsAt(k) \in Seq(Cell)
      BY <3>1, RankCellsType
    <3>5. cellsAt(k + 1) = cellsAt(k) \o CellsIn(out[k + 1])
      BY <3>3 DEF ReadToken, CellsIn
    <3> HIDE DEF keysAt, cellsAt
    <3>6. HashToken(Keyed(h, cellsAt(k)), out[k + 1])
              = Keyed(h, cellsAt(k) \o CellsIn(out[k + 1]))
      BY <3>1, <3>4, KeyedNext
    <3> HIDE DEF h
    <3> QED BY <3>1, <3>2, <3>5, <3>6
  <2> HIDE DEF keysAt, cellsAt, n, h
  <2> QED BY <2>1, <2>2
<1>3. T = Nat
  <2>1. T \subseteq Nat
    OBVIOUS
  <2> HIDE DEF T
  <2> QED BY <2>1, <1>1, <1>2, OverCells!AllNumbers
<1>4. keysAt(n) = Keyed(h, cellsAt(n))
  <2> HIDE DEF keysAt, cellsAt, h, n
  <2> QED BY <1>0, <1>3
<1>5. HashRank(h, out) = keysAt(n) /\ RankCells(out) = cellsAt(n)
  BY <1>0, FoldsAre
<1> QED BY <1>4, <1>5

-----------------------------------------------------------------------------
(* Boards and their texts.                                                 *)

Row(b, r) == [f \in 1..Size |-> b.grid[<<r, f>>]]
KeysUpTo(b, r) ==
    {<<(s[1] - 1) * Size + s[2], b.grid[s]>> :
        s \in {q \in Squares : b.grid[q] # Empty /\ q[1] <= r}}

LEMMA RowSurvives ==
    ASSUME NEW b \in Boards, NEW r \in 1..Size
    PROVE  /\ Row(b, r) \in [1..Size -> Cell]
           /\ ToSfen(b).board[r] \in Seq(Toks)
           /\ RankCells(ToSfen(b).board[r]) \in Seq(Cell)
           /\ Len(RankCells(ToSfen(b).board[r])) = Size
           /\ \A f \in 1..Size : RankCells(ToSfen(b).board[r])[f] = b.grid[<<r, f>>]
<1>1. Row(b, r) \in [1..Size -> Cell]
  <2> SUFFICES ASSUME NEW f \in 1..Size PROVE b.grid[<<r, f>>] \in Cell
    BY DEF Row
  <2>1. <<r, f>> \in Squares
    BY DEF Squares
  <2> QED BY <2>1, Cells DEF Cell
<1>2. ToSfen(b).board[r] = RankText(Row(b, r))
  BY DEF ToSfen, Row
<1>3. \A f \in 1..Size : Row(b, r)[f] = b.grid[<<r, f>>]
  BY DEF Row
<1> QED BY <1>1, <1>2, <1>3, RankSurvives

LEMMA KeysOfRow ==
    ASSUME NEW b \in Boards, NEW r \in 0..(Size - 1)
    PROVE  KeysUpTo(b, r + 1) = KeysUpTo(b, r) \union
               {<<r * Size + j, b.grid[<<r + 1, j>>]>> :
                   j \in {i \in 1..Size : b.grid[<<r + 1, i>>] # Empty}}
<1> DEFINE old == KeysUpTo(b, r)
           new == {<<r * Size + j, b.grid[<<r + 1, j>>]>> :
                   j \in {i \in 1..Size : b.grid[<<r + 1, i>>] # Empty}}
<1>0. r \in Nat /\ r + 1 \in 1..Size /\ Size \in Nat /\ (r + 1) - 1 = r
  BY BoardAssumption
<1>1. ASSUME NEW x \in KeysUpTo(b, r + 1) PROVE x \in old \union new
  <2>1. PICK s \in Squares : /\ b.grid[s] # Empty /\ s[1] <= r + 1
                             /\ x = <<(s[1] - 1) * Size + s[2], b.grid[s]>>
    BY DEF KeysUpTo
  <2>2. s = <<s[1], s[2]>> /\ s[1] \in 1..Size /\ s[2] \in 1..Size
    BY DEF Squares
  <2>3. CASE s[1] <= r
    BY <2>1, <2>3 DEF KeysUpTo
  <2>4. CASE ~(s[1] <= r)
    <3>1. s[1] = r + 1
      BY <1>0, <2>1, <2>2, <2>4
    <3>2. s = <<r + 1, s[2]>>
      BY <2>2, <3>1
    <3>3. x = <<r * Size + s[2], b.grid[<<r + 1, s[2]>>]>>
      BY <1>0, <2>1, <3>1, <3>2
    <3>4. b.grid[<<r + 1, s[2]>>] # Empty
      BY <2>1, <3>2
    <3>5. x \in new
      BY <2>2, <3>3, <3>4
    <3> QED BY <3>5
  <2> QED BY <2>3, <2>4
<1>2. ASSUME NEW x \in old PROVE x \in KeysUpTo(b, r + 1)
  <2>1. PICK s \in Squares : /\ b.grid[s] # Empty /\ s[1] <= r
                             /\ x = <<(s[1] - 1) * Size + s[2], b.grid[s]>>
    BY DEF KeysUpTo
  <2>2. s[1] <= r + 1
    BY <1>0, <2>1 DEF Squares
  <2> QED BY <2>1, <2>2 DEF KeysUpTo
<1>3. ASSUME NEW x \in new PROVE x \in KeysUpTo(b, r + 1)
  <2>1. PICK j \in 1..Size : /\ b.grid[<<r + 1, j>>] # Empty
                             /\ x = <<r * Size + j, b.grid[<<r + 1, j>>]>>
    OBVIOUS
  <2> DEFINE s == <<r + 1, j>>
  <2>2. s \in Squares /\ s[1] = r + 1 /\ s[2] = j /\ s[1] - 1 = r
    BY <1>0 DEF Squares
  <2>3. b.grid[s] # Empty /\ s[1] <= r + 1 /\ x = <<(s[1] - 1) * Size + s[2], b.grid[s]>>
    BY <1>0, <2>1, <2>2
  <2> HIDE DEF s
  <2> QED BY <2>2, <2>3 DEF KeysUpTo
<1> HIDE DEF old, new
<1>4. KeysUpTo(b, r + 1) = old \union new
  BY <1>1, <1>2, <1>3
<1> QED BY <1>4 DEF old, new

\* The hash of a board's text is the board's.
LEMMA HashSurvives ==
    ASSUME NEW b \in Boards
    PROVE  ZobristFromSfen(ToSfen(b)) = ZobristHash(b)
<1> DEFINE text == ToSfen(b)
           start == [sq |-> 0, keys |-> {}]
           at(r) == OverRanks!Fold(start, text.board, 1..r)
           T == {r \in Nat : r <= Size => at(r) = [sq |-> r * Size, keys |-> KeysUpTo(b, r)]}
<1>0. Size \in Nat /\ DOMAIN text.board = 1..Size /\ text.side = b.side
  BY BoardAssumption DEF ToSfen
<1>1. 0 \in T
  <2>1. at(0) = start
    BY RanksAlong
  <2>2. KeysUpTo(b, 0) = {}
    BY BoardAssumption DEF KeysUpTo, Squares
  <2>3. 0 * Size = 0
    BY <1>0
  <2> QED BY <2>1, <2>2, <2>3
<1>2. ASSUME NEW r \in T PROVE r + 1 \in T
  <2>1. r \in Nat
    OBVIOUS
  <2>2. ASSUME r + 1 <= Size
        PROVE  at(r + 1) = [sq |-> (r + 1) * Size, keys |-> KeysUpTo(b, r + 1)]
    <3> DEFINE sq == r * Size
               keys == KeysUpTo(b, r)
               out == text.board[r + 1]
               c == RankCells(out)
    <3>1. at(r) = [sq |-> sq, keys |-> keys]
      <4> HIDE DEF at
      <4> QED BY <1>0, <2>1, <2>2
    <3>2. r + 1 \in 1..Size /\ sq \in Nat /\ sq + Size = (r + 1) * Size /\ r \in 0..(Size - 1)
      BY <1>0, <2>1, <2>2
    <3>3. at(r + 1) = HashRank(at(r), out)
      BY <2>1, RanksAlong
    <3>4. /\ out \in Seq(Toks) /\ Len(c) = Size
          /\ \A f \in 1..Size : c[f] = b.grid[<<r + 1, f>>]
      BY <3>2, RowSurvives
    <3> HIDE DEF at, sq, keys, out, text
    <3>5. HashRank([sq |-> sq, keys |-> keys], out) = Keyed([sq |-> sq, keys |-> keys], c)
      BY <3>2, <3>4, HashOfRank
    <3>6. Keyed([sq |-> sq, keys |-> keys], c)
              = [sq |-> sq + Len(c),
                 keys |-> keys \union {<<sq + j, c[j]>> : j \in {i \in 1..Len(c) : c[i] # Empty}}]
      BY DEF Keyed
    <3>7. {<<sq + j, c[j]>> : j \in {i \in 1..Len(c) : c[i] # Empty}}
              = {<<sq + j, b.grid[<<r + 1, j>>]>> :
                    j \in {i \in 1..Size : b.grid[<<r + 1, i>>] # Empty}}
      <4> HIDE DEF c
      <4>1. {i \in 1..Len(c) : c[i] # Empty} = {i \in 1..Size : b.grid[<<r + 1, i>>] # Empty}
        BY <3>4
      <4> DEFINE M == {i \in 1..Size : b.grid[<<r + 1, i>>] # Empty}
      <4>2. \A j \in M : c[j] = b.grid[<<r + 1, j>>]
        BY <3>4
      <4>3. M = {i \in 1..Len(c) : c[i] # Empty}
        BY <4>1
      <4> HIDE DEF M
      <4>4. {<<sq + j, c[j]>> : j \in M} = {<<sq + j, b.grid[<<r + 1, j>>]>> : j \in M}
        BY <4>2
      <4> QED BY <4>3, <4>4 DEF M
    <3>8. KeysUpTo(b, r + 1) = keys \union
              {<<sq + j, b.grid[<<r + 1, j>>]>> :
                  j \in {i \in 1..Size : b.grid[<<r + 1, i>>] # Empty}}
      BY <3>2, KeysOfRow DEF sq, keys
    <3> HIDE DEF c
    <3>9. at(r + 1) = [sq |-> sq + Size, keys |-> KeysUpTo(b, r + 1)]
      BY <3>1, <3>3, <3>4, <3>5, <3>6, <3>7, <3>8
    <3> QED BY <3>2, <3>9
  <2> HIDE DEF at
  <2> QED BY <2>1, <2>2
<1>3. T = Nat
  <2>1. T \subseteq Nat
    OBVIOUS
  <2> HIDE DEF T
  <2> QED BY <2>1, <1>1, <1>2, OverCells!AllNumbers
<1>4. at(Size).keys = KeysUpTo(b, Size)
  <2>1. at(Size) = [sq |-> Size * Size, keys |-> KeysUpTo(b, Size)]
    <3> HIDE DEF at
    <3> QED BY <1>0, <1>3
  <2> HIDE DEF at
  <2> QED BY <2>1
<1>5. ZobristFromSfen(text) = [side |-> text.side, keys |-> at(Size).keys]
  BY <1>0, FoldsAre
<1>6. KeysUpTo(b, Size) = ZobristHash(b).keys
  <2>1. {q \in Squares : b.grid[q] # Empty /\ q[1] <= Size} = {q \in Squares : b.grid[q] # Empty}
    BY <1>0 DEF Squares
  <2> QED BY <2>1 DEF KeysUpTo, ZobristHash
<1>7. ZobristHash(b) = [side |-> b.side, keys |-> ZobristHash(b).keys]
  BY DEF ZobristHash
<1> HIDE DEF at, text
<1> QED BY <1>0, <1>4, <1>5, <1>6, <1>7 DEF text

-----------------------------------------------------------------------------
(* Hands and their texts.                                                  *)

Hands == [Colors -> [HandTypes -> Nat]]
Entries == [color : Colors, type : HandTypes, n : Nat]
HeldIn(out) == OverHeld!Fold(NoHands, out, DOMAIN out)
\* What a hand has of the first k of its pieces.
Part(hand, k) ==
    [c \in Colors |-> [t \in HandTypes |->
        IF \E i \in 1..k : Pieces(hand)[i].color = c /\ Pieces(hand)[i].type = t
        THEN hand[c][t] ELSE 0]]

LEMMA OrderOfHand ==
    /\ HandOrder \in [1..7 -> HandTypes] /\ HandOrder \in Seq(HandTypes) /\ Len(HandOrder) = 7
    /\ \A i, j \in 1..7 : HandOrder[i] = HandOrder[j] => i = j
    /\ \A t \in HandTypes : \E i \in 1..7 : HandOrder[i] = t
<1>1. DOMAIN HandOrder = 1..7
  BY DEF HandOrder
<1>2. \A t \in HandTypes : \E i \in 1..7 : HandOrder[i] = t
  BY <1>1 DEF HandTypes, ToSet
<1>3. HandOrder \in [1..7 -> HandTypes]
  BY HandTypesAre DEF HandOrder
<1>4. \A i, j \in 1..7 : HandOrder[i] = HandOrder[j] => i = j
  BY DEF HandOrder
<1>5. HandOrder \in Seq(HandTypes) /\ Len(HandOrder) = 7
  <2> DEFINE h == HandOrder
             n == 7
  <2>1. h \in [1..n -> HandTypes] /\ n \in Nat
    BY <1>3
  <2> HIDE DEF h, n
  <2>2. h \in Seq(HandTypes) /\ Len(h) = n
    BY <2>1
  <2> QED BY <2>2 DEF h, n
<1> QED BY <1>2, <1>3, <1>4, <1>5

LEMMA PiecesAre ==
    ASSUME NEW hand \in Hands
    PROVE  /\ Pieces(hand) \in Seq(Entries) /\ Len(Pieces(hand)) = 14
           /\ \A i \in 1..14 : LET e == Pieces(hand)[i]
                               IN  e \in Entries /\ e.n = hand[e.color][e.type]
           /\ \A i, j \in 1..14 : /\ Pieces(hand)[i].color = Pieces(hand)[j].color
                                  /\ Pieces(hand)[i].type = Pieces(hand)[j].type
                                  => i = j
           /\ \A c \in Colors, t \in HandTypes : \E i \in 1..14 :
                 Pieces(hand)[i].color = c /\ Pieces(hand)[i].type = t
<1> DEFINE entry(c, i) == [color |-> c, type |-> HandOrder[i], n |-> hand[c][HandOrder[i]]]
           of(c) == [i \in 1..7 |-> entry(c, i)]
           p == Pieces(hand)
<1>1. \A c \in Colors, i \in 1..7 : entry(c, i) \in Entries
  BY OrderOfHand DEF Entries, Hands
<1>2. p = of("black") \o of("white")
  <2>1. DOMAIN HandOrder = 1..7
    BY OrderOfHand
  <2> QED BY <2>1 DEF Pieces
<1>3. \A c \in Colors : /\ of(c) \in Seq(Entries) /\ Len(of(c)) = 7
                        /\ \A i \in 1..7 : of(c)[i] = entry(c, i)
  <2> SUFFICES ASSUME NEW c \in Colors
               PROVE  /\ of(c) \in Seq(Entries) /\ Len(of(c)) = 7
                      /\ \A i \in 1..7 : of(c)[i] = entry(c, i)
    OBVIOUS
  <2> DEFINE o == of(c)
             n == 7
  <2>1. o \in [1..n -> Entries] /\ n \in Nat /\ \A i \in 1..7 : o[i] = entry(c, i)
    <3> HIDE DEF entry
    <3> QED BY <1>1
  <2> HIDE DEF o, entry, n
  <2>2. o \in Seq(Entries) /\ Len(o) = n
    BY <2>1
  <2> QED BY <2>1, <2>2 DEF o, n
<1>4. "black" \in Colors /\ "white" \in Colors /\ \A c \in Colors : c = "black" \/ c = "white"
  BY DEF Colors
<1> DEFINE x == of("black")
           y == of("white")
<1>5. /\ x \in Seq(Entries) /\ Len(x) = 7 /\ y \in Seq(Entries) /\ Len(y) = 7 /\ p = x \o y
      /\ \A i \in 1..7 : x[i] = entry("black", i) /\ y[i] = entry("white", i)
  <2> HIDE DEF of, entry
  <2> QED BY <1>2, <1>3, <1>4
<1> HIDE DEF x, y, p, of
<1>6. p \in Seq(Entries) /\ Len(p) = 14
  <2>1. x \o y \in Seq(Entries) /\ Len(x \o y) = Len(x) + Len(y)
    <3>1. x \in Seq(Entries) /\ y \in Seq(Entries)
      BY <1>5
    <3> QED BY <3>1, ConcatProperties
  <2> QED BY <1>5, <2>1
<1>7. \A i \in 1..7 : p[i] = entry("black", i) /\ p[i + 7] = entry("white", i)
  <2> SUFFICES ASSUME NEW i \in 1..7
               PROVE  p[i] = entry("black", i) /\ p[i + 7] = entry("white", i)
    OBVIOUS
  <2>1. (x \o y)[i] = x[i] /\ (x \o y)[i + 7] = y[(i + 7) - 7] /\ (i + 7) - 7 = i
    <3>1. x \in Seq(Entries) /\ y \in Seq(Entries) /\ Len(x) = 7 /\ Len(y) = 7
      BY <1>5
    <3>2. \A j \in 1..Len(x) + Len(y) :
             (x \o y)[j] = IF j <= Len(x) THEN x[j] ELSE y[j - Len(x)]
      BY <3>1, ConcatProperties
    <3>3. i \in 1..14 /\ i + 7 \in 1..14 /\ i <= 7 /\ ~(i + 7 <= 7) /\ (i + 7) - 7 = i
      OBVIOUS
    <3>4. \A j \in 1..14 : (x \o y)[j] = IF j <= 7 THEN x[j] ELSE y[j - 7]
      <4> DEFINE z == x \o y
                 m == Len(x)
                 n == Len(y)
      <4>1. m = 7 /\ n = 7 /\ \A j \in 1..m + n : z[j] = IF j <= m THEN x[j] ELSE y[j - m]
        BY <3>1, <3>2
      <4> HIDE DEF z, m, n
      <4>2. \A j \in 1..14 : z[j] = IF j <= 7 THEN x[j] ELSE y[j - 7]
        BY <4>1
      <4> QED BY <4>2 DEF z
    <3>5. (x \o y)[i] = x[i]
      <4> DEFINE z == x \o y
      <4>1. i \in 1..14 /\ i <= 7 /\ \A j \in 1..14 : z[j] = IF j <= 7 THEN x[j] ELSE y[j - 7]
        BY <3>3, <3>4
      <4> HIDE DEF z
      <4>2. z[i] = x[i]
        BY <4>1
      <4> QED BY <4>2 DEF z
    <3>6. (x \o y)[i + 7] = y[(i + 7) - 7]
      <4> DEFINE j == i + 7
      <4>1. j \in 1..14 /\ ~(j <= 7)
        BY <3>3
      <4> HIDE DEF j
      <4>2. (x \o y)[j] = y[j - 7]
        BY <3>4, <4>1
      <4> QED BY <4>2 DEF j
    <3> QED BY <3>3, <3>5, <3>6
  <2> HIDE DEF entry
  <2> QED BY <1>5, <2>1
<1>8. \A i \in 1..14 : \/ i \in 1..7 /\ p[i] = entry("black", i)
                       \/ i - 7 \in 1..7 /\ p[i] = entry("white", i - 7)
  <2> SUFFICES ASSUME NEW i \in 1..14
               PROVE  \/ i \in 1..7 /\ p[i] = entry("black", i)
                      \/ i - 7 \in 1..7 /\ p[i] = entry("white", i - 7)
    OBVIOUS
  <2> HIDE DEF entry
  <2>1. CASE i \in 1..7
    BY <1>7, <2>1
  <2>2. CASE i \notin 1..7
    <3>1. i - 7 \in 1..7 /\ (i - 7) + 7 = i
      BY <2>2
    <3> QED BY <1>7, <3>1
  <2> QED BY <2>1, <2>2
<1>9. \A i \in 1..14 : p[i] \in Entries /\ p[i].n = hand[p[i].color][p[i].type]
  <2> SUFFICES ASSUME NEW i \in 1..14
               PROVE  p[i] \in Entries /\ p[i].n = hand[p[i].color][p[i].type]
    OBVIOUS
  <2>1. PICK c \in Colors, k \in 1..7 : p[i] = entry(c, k)
    <3> HIDE DEF entry
    <3> QED BY <1>4, <1>8
  <2>2. /\ p[i].color = c /\ p[i].type = HandOrder[k] /\ p[i].n = hand[c][HandOrder[k]]
        /\ p[i] \in Entries
    <3> DEFINE e == entry(c, k)
    <3>1. e \in Entries
      <4> HIDE DEF entry
      <4> QED BY <1>1
    <3>2. e.color = c /\ e.type = HandOrder[k] /\ e.n = hand[c][HandOrder[k]] /\ p[i] = e
      BY <2>1
    <3> HIDE DEF e
    <3> QED BY <3>1, <3>2
  <2> QED BY <2>2
<1>10. \A i, j \in 1..14 : p[i].color = p[j].color /\ p[i].type = p[j].type => i = j
  <2> SUFFICES ASSUME NEW i \in 1..14, NEW j \in 1..14,
                      p[i].color = p[j].color, p[i].type = p[j].type
               PROVE  i = j
    OBVIOUS
  <2>0. ASSUME NEW m \in 1..14
        PROVE  /\ p[m].color = "black" => m \in 1..7 /\ p[m].type = HandOrder[m]
               /\ p[m].color # "black" => m - 7 \in 1..7 /\ p[m].type = HandOrder[m - 7]
    <3>1. CASE m \in 1..7 /\ p[m] = entry("black", m)
      <4>1. p[m].color = "black" /\ p[m].type = HandOrder[m]
        BY <3>1
      <4> QED BY <3>1, <4>1
    <3>2. CASE m - 7 \in 1..7 /\ p[m] = entry("white", m - 7)
      <4>1. p[m].color = "white" /\ p[m].type = HandOrder[m - 7]
        BY <3>2
      <4> QED BY <3>2, <4>1
    <3> HIDE DEF entry
    <3> QED BY <1>8, <3>1, <3>2
  <2>1. CASE p[i].color = "black"
    <3>1. i \in 1..7 /\ p[i].type = HandOrder[i] /\ j \in 1..7 /\ p[j].type = HandOrder[j]
      BY <2>0, <2>1
    <3> QED BY <3>1, OrderOfHand
  <2>2. CASE p[i].color # "black"
    <3>1. /\ i - 7 \in 1..7 /\ p[i].type = HandOrder[i - 7]
          /\ j - 7 \in 1..7 /\ p[j].type = HandOrder[j - 7]
      BY <2>0, <2>2
    <3> DEFINE a == i - 7
               b == j - 7
    <3>2. a \in 1..7 /\ b \in 1..7 /\ HandOrder[a] = HandOrder[b]
      BY <3>1
    <3> HIDE DEF a, b
    <3>3. a = b
      BY <3>2, OrderOfHand
    <3> QED BY <3>3 DEF a, b
  <2> QED BY <2>1, <2>2
<1>11. ASSUME NEW c \in Colors, NEW t \in HandTypes
       PROVE  \E i \in 1..14 : p[i].color = c /\ p[i].type = t
  <2>1. PICK k \in 1..7 : HandOrder[k] = t
    BY OrderOfHand
  <2>2. CASE c = "black"
    <3>1. k \in 1..14 /\ p[k] = entry("black", k)
      BY <1>7
    <3> QED BY <2>1, <2>2, <3>1
  <2>3. CASE c = "white"
    <3>1. k + 7 \in 1..14 /\ p[k + 7] = entry("white", k)
      BY <1>7
    <3> QED BY <2>1, <2>3, <3>1
  <2> QED BY <1>4, <2>2, <2>3
<1> QED BY <1>6, <1>9, <1>10, <1>11 DEF p

LEMMA HeldAppend ==
    ASSUME NEW out \in Seq(Entries), NEW e \in Entries
    PROVE  HeldIn(Append(out, e)) = Hold(HeldIn(out), e) /\ HeldIn(<<>>) = NoHands
<1> DEFINE n == Len(out)
           r == Append(out, e)
<1>1. n \in Nat /\ DOMAIN out = 1..n /\ DOMAIN r = 1..n + 1 /\ r[n + 1] = e
      /\ \A x \in 1..n : r[x] = out[x]
  OBVIOUS
<1> HIDE DEF n, r
<1>2. OverHeld!Fold(NoHands, r, 1..n + 1) = Hold(OverHeld!Fold(NoHands, r, 1..n), r[n + 1])
  <2>1. n \in Nat
    BY <1>1
  <2> QED BY <2>1, HeldAlong
<1>3. OverHeld!Fold(NoHands, r, 1..n) = OverHeld!Fold(NoHands, out, 1..n)
  <2>1. OverHeld!Agree(r, out, 1..n)
    BY <1>1 DEF OverHeld!Agree
  <2> QED BY <1>1, <2>1, AlwaysMax, OverHeld!FoldOfPrefix
<1>4. HeldIn(<<>>) = NoHands
  <2>1. OverHeld!Fold(NoHands, <<>>, 1..0) = NoHands
    BY HeldAlong
  <2>2. DOMAIN <<>> = 1..0
    OBVIOUS
  <2> QED BY <2>1, <2>2 DEF HeldIn
<1>5. HeldIn(r) = Hold(HeldIn(out), e)
  BY <1>1, <1>2, <1>3 DEF HeldIn
<1> QED BY <1>4, <1>5 DEF r

LEMMA PartNext ==
    ASSUME NEW hand \in Hands, NEW k \in 0..13
    PROVE  LET e == Pieces(hand)[k + 1]
           IN  /\ Hold(Part(hand, k), e) = Part(hand, k + 1)
               /\ e.n = 0 => Part(hand, k + 1) = Part(hand, k)
<1> DEFINE p == Pieces(hand)
           e == p[k + 1]
           In(c, t, m) == \E i \in 1..m : p[i].color = c /\ p[i].type = t
           v(c, t, m) == IF In(c, t, m) THEN hand[c][t] ELSE 0
<1>0. k + 1 \in 1..14 /\ \A i \in 1..k : i \in 1..14 /\ i # k + 1
  OBVIOUS
<1>p. /\ \A i \in 1..14 : p[i] \in Entries /\ p[i].n = hand[p[i].color][p[i].type]
      /\ \A i, j \in 1..14 : p[i].color = p[j].color /\ p[i].type = p[j].type => i = j
  BY PiecesAre
<1>1. e.color \in Colors /\ e.type \in HandTypes /\ e.n \in Nat /\ e.n = hand[e.color][e.type]
  <2> HIDE DEF p
  <2> QED BY <1>0, <1>p DEF Entries
<1>2. ~In(e.color, e.type, k)
  <2> HIDE DEF p
  <2> QED BY <1>0, <1>p
<1>3. \A c, t : In(c, t, k + 1) <=> In(c, t, k) \/ (c = e.color /\ t = e.type)
  <2>1. 1..k + 1 = (1..k) \union {k + 1}
    OBVIOUS
  <2> QED BY <2>1
<1>4. \A m : Part(hand, m) = [c \in Colors |-> [t \in HandTypes |-> v(c, t, m)]]
  BY DEF Part
<1> HIDE DEF In, p, e
<1>5. v(e.color, e.type, k) = 0 /\ v(e.color, e.type, k + 1) = e.n
  BY <1>1, <1>2, <1>3
<1>6. \A c, t : ~(c = e.color /\ t = e.type) => v(c, t, k + 1) = v(c, t, k)
  BY <1>3
<1> HIDE DEF v
<1>7. Hold(Part(hand, k), e) = Part(hand, k + 1)
  <2> DEFINE old == Part(hand, k)
             new == Part(hand, k + 1)
  <2>1. Hold(old, e) = [old EXCEPT ![e.color][e.type] = @ + e.n]
    BY DEF Hold
  <2>2. old = [c \in Colors |-> [t \in HandTypes |-> v(c, t, k)]]
        /\ new = [c \in Colors |-> [t \in HandTypes |-> v(c, t, k + 1)]]
    BY <1>4
  <2> HIDE DEF old, new
  <2>3. 0 + e.n = e.n
    BY <1>1
  <2>4. ASSUME NEW c \in Colors
        PROVE  [old EXCEPT ![e.color][e.type] = @ + e.n][c] = new[c]
    <3>1. CASE c = e.color
      <4>1. [old EXCEPT ![e.color][e.type] = @ + e.n][c]
                = [old[c] EXCEPT ![e.type] = @ + e.n]
        BY <2>2, <3>1
      <4> QED BY <1>1, <1>5, <1>6, <2>2, <2>3, <3>1, <4>1
    <3>2. CASE c # e.color
      BY <1>6, <2>2, <3>2
    <3> QED BY <3>1, <3>2
  <2>5. new = [c \in Colors |-> new[c]]
    BY <2>2
  <2>6. [old EXCEPT ![e.color][e.type] = @ + e.n] =
            [c \in Colors |-> [old EXCEPT ![e.color][e.type] = @ + e.n][c]]
    BY <2>2
  <2> DEFINE q == [old EXCEPT ![e.color][e.type] = @ + e.n]
  <2>7. q = [c \in Colors |-> q[c]] /\ \A c \in Colors : q[c] = new[c]
    BY <2>4, <2>6
  <2> HIDE DEF q
  <2>8. q = new
    BY <2>5, <2>7
  <2> QED BY <2>1, <2>8 DEF q, old, new
<1>8. ASSUME e.n = 0 PROVE Part(hand, k + 1) = Part(hand, k)
  <2>1. \A c, t : v(c, t, k + 1) = v(c, t, k)
    BY <1>5, <1>6, <1>8
  <2> QED BY <1>4, <2>1
<1> QED BY <1>7, <1>8 DEF e, p

\* The hands of a text are those it was written from.
LEMMA PiecesListed ==
    ASSUME NEW hand \in Hands
    PROVE  DOMAIN Pieces(hand) = 1..14 /\ Pieces(hand)[1] \in Entries
<1>1. Pieces(hand) \in Seq(Entries) /\ Len(Pieces(hand)) = 14
  BY PiecesAre
<1> HIDE DEF Pieces
<1> QED BY <1>1

LEMMA PartWhole ==
    ASSUME NEW hand \in Hands
    PROVE  Part(hand, 14) = hand
<1>1. \A c \in Colors, t \in HandTypes : \E i \in 1..14 :
          Pieces(hand)[i].color = c /\ Pieces(hand)[i].type = t
  BY PiecesAre
<1>2. Part(hand, 14) = [c \in Colors |-> [t \in HandTypes |-> hand[c][t]]]
  BY <1>1 DEF Part
<1> QED BY <1>2 DEF Hands

LEMMA HandSurvives ==
    ASSUME NEW hand \in Hands
    PROVE  HeldIn(HandText(hand)) = hand
<1> DEFINE p == Pieces(hand)
           at(k) == OverPieces!Fold(<<>>, p, 1..k)
           Good(k) == at(k) \in Seq(Entries) /\ HeldIn(at(k)) = Part(hand, k)
           T == {k \in Nat : k <= 14 => Good(k)}
<1>1. 0 \in T
  <2>1. at(0) = <<>>
    BY PiecesAlong
  <2>2. HeldIn(<<>>) = NoHands
    <3>1. <<>> \in Seq(Entries)
      OBVIOUS
    <3>2. \E e : e \in Entries
      BY PiecesListed
    <3> QED BY <3>1, <3>2, HeldAppend
  <2>3. Part(hand, 0) = NoHands
    BY DEF Part, NoHands
  <2>4. <<>> \in Seq(Entries)
    OBVIOUS
  <2> HIDE DEF at
  <2> QED BY <2>1, <2>2, <2>3, <2>4
<1>2. ASSUME NEW k \in T PROVE k + 1 \in T
  <2>1. k \in Nat
    OBVIOUS
  <2>2. ASSUME k + 1 <= 14 PROVE Good(k + 1)
    <3> DEFINE e == p[k + 1]
               out == at(k)
    <3>1. Good(k) /\ k \in 0..13 /\ k + 1 \in 1..14
      <4> HIDE DEF at, Good
      <4> QED BY <2>1, <2>2
    <3>2. e \in Entries
      BY <3>1, PiecesAre
    <3>3. at(k + 1) = WriteHeld(out, e)
      BY <2>1, PiecesAlong
    <3>4. /\ Hold(Part(hand, k), e) = Part(hand, k + 1)
          /\ e.n = 0 => Part(hand, k + 1) = Part(hand, k)
      BY <3>1, PartNext
    <3>5. out \in Seq(Entries) /\ HeldIn(out) = Part(hand, k)
      BY <3>1
    <3>6. HeldIn(Append(out, e)) = Hold(HeldIn(out), e) /\ Append(out, e) \in Seq(Entries)
      <4> HIDE DEF out, e
      <4> QED BY <3>2, <3>5, HeldAppend
    <3>7. at(k + 1) = IF e.n > 0 THEN Append(out, e) ELSE out
      BY <3>3 DEF WriteHeld
    <3>8. e.n > 0 \/ e.n = 0
      BY <3>2 DEF Entries
    <3> HIDE DEF at, e, out
    <3>9. HeldIn(at(k + 1)) = Part(hand, k + 1) /\ at(k + 1) \in Seq(Entries)
      <4>1. CASE e.n > 0
        BY <3>4, <3>5, <3>6, <3>7, <4>1
      <4>2. CASE e.n = 0
        BY <3>4, <3>5, <3>6, <3>7, <4>2
      <4> QED BY <3>8, <4>1, <4>2
    <3> QED BY <3>9
  <2> HIDE DEF Good
  <2> QED BY <2>1, <2>2
<1>3. T = Nat
  <2>1. T \subseteq Nat
    OBVIOUS
  <2> HIDE DEF T
  <2> QED BY <2>1, <1>1, <1>2, OverCells!AllNumbers
<1>4. HeldIn(at(14)) = Part(hand, 14)
  <2>1. Good(14)
    <3> HIDE DEF Good
    <3> QED BY <1>3
  <2> QED BY <2>1
<1>5. Part(hand, 14) = hand
  BY PartWhole
<1>6. HandText(hand) = at(14)
  <2>1. DOMAIN p = 1..14
    BY PiecesListed
  <2> QED BY <2>1, FoldsAre
<1> HIDE DEF at
<1> QED BY <1>4, <1>5, <1>6

\* A position survives its text.
THEOREM TextIsBoard ==
    ASSUME NEW b \in Boards
    PROVE  FromSfen(ToSfen(b)) = b
<1> DEFINE text == ToSfen(b)
           back == FromSfen(text)
<1>1. b = [grid |-> b.grid, hand |-> b.hand, side |-> b.side, count |-> b.count]
  BY DEF Boards
<1>2. back.side = b.side /\ back.count = b.count
  BY DEF FromSfen, ToSfen
<1>3. back.hand = b.hand
  <2>1. b.hand \in Hands
    BY BoardAssumption DEF Boards, Hands
  <2>2. text.hand = HandText(b.hand)
    BY DEF ToSfen
  <2>3. back.hand = HeldIn(text.hand)
    BY FoldsAre DEF HeldIn
  <2> QED BY <2>1, <2>2, <2>3, HandSurvives
<1>4. back.grid = b.grid
  <2>1. back.grid = [s \in Squares |-> [r \in 1..Size |-> RankCells(text.board[r])][s[1]][s[2]]]
    BY DEF FromSfen
  <2>2. ASSUME NEW s \in Squares PROVE back.grid[s] = b.grid[s]
    <3>1. s[1] \in 1..Size /\ s[2] \in 1..Size /\ s = <<s[1], s[2]>>
      BY DEF Squares
    <3>2. back.grid[s] = RankCells(text.board[s[1]])[s[2]]
      BY <2>1, <3>1
    <3> QED BY <3>1, <3>2, RowSurvives
  <2>3. b.grid \in [Squares -> Cell]
    BY DEF Boards, Grids, Cell
  <2> DEFINE g == back.grid
             h == b.grid
  <2>4. g = [s \in Squares |-> g[s]]
    BY <2>1
  <2>5. h = [s \in Squares |-> h[s]] /\ \A s \in Squares : g[s] = h[s]
    BY <2>2, <2>3
  <2> HIDE DEF g, h
  <2>6. g = h
    BY <2>4, <2>5
  <2> QED BY <2>6 DEF g, h
<1>5. back = [grid |-> back.grid, hand |-> back.hand, side |-> back.side, count |-> back.count]
  BY DEF FromSfen
<1> HIDE DEF back, text
<1>6. back = b
  BY <1>1, <1>2, <1>3, <1>4, <1>5
<1> QED BY <1>6 DEF back, text

-----------------------------------------------------------------------------
(* Moves.                                                                  *)

On(b, t) == {s \in Squares : b.grid[s] # Empty /\ Demote(b.grid[s][2]) = t}

LEMMA SquaresFinite ==
    /\ IsFiniteSet(Squares) /\ Cardinality(Squares) = Size * Size
    /\ \A b, t : /\ IsFiniteSet(On(b, t)) /\ Cardinality(On(b, t)) \in Nat
                 /\ Cardinality(On(b, t)) <= Size * Size
<1>1. Size \in Int /\ 1 \in Int /\ Size \in Nat /\ ~(1 > Size)
  BY BoardAssumption
<1>2. IsFiniteSet(1..Size) /\ Cardinality(1..Size) = Size
  <2>1. IsFiniteSet(1..Size) /\ Cardinality(1..Size) = IF 1 > Size THEN 0 ELSE Size - 1 + 1
    BY <1>1, FS_Interval
  <2> QED BY <1>1, <2>1
<1>3. IsFiniteSet(Squares) /\ Cardinality(Squares) = Size * Size
  BY <1>2, FS_Product DEF Squares
<1>4. ASSUME NEW b, NEW t
      PROVE  /\ IsFiniteSet(On(b, t)) /\ Cardinality(On(b, t)) \in Nat
             /\ Cardinality(On(b, t)) <= Size * Size
  <2>1. On(b, t) \in SUBSET Squares
    BY DEF On
  <2>2. IsFiniteSet(On(b, t)) /\ Cardinality(On(b, t)) <= Cardinality(Squares)
    BY <1>3, <2>1, FS_Subset
  <2> QED BY <1>3, <2>2, FS_CardinalityType
<1> QED BY <1>3, <1>4

LEMMA MaterialIs ==
    ASSUME NEW b
    PROVE  Material(b) = [t \in HandTypes |->
               Cardinality(On(b, t)) + b.hand["black"][t] + b.hand["white"][t]]
BY DEF Material, On

\* Of a board whose material a hand can hold.
Roomy(b) == \A t \in HandTypes : Material(b)[t] <= HandMax

LEMMA GridAfter ==
    ASSUME NEW b \in Boards, NEW from \in Squares, NEW to \in Squares, NEW cell \in Cell
    PROVE  LET after == [[b.grid EXCEPT ![from] = Empty] EXCEPT ![to] = cell]
           IN  /\ after \in Grids
               /\ \A s \in Squares : after[s] = IF s = to THEN cell
                                                ELSE IF s = from THEN Empty ELSE b.grid[s]
<1> DEFINE g == b.grid
           mid == [g EXCEPT ![from] = Empty]
           after == [mid EXCEPT ![to] = cell]
<1>1. g \in [Squares -> Cell]
  BY DEF Boards, Grids, Cell
<1>2. Empty \in Cell
  BY DEF Cell
<1> HIDE DEF g
<1>3. mid \in [Squares -> Cell] /\ \A s \in Squares : mid[s] = IF s = from THEN Empty ELSE g[s]
  BY <1>1, <1>2
<1> HIDE DEF mid
<1>4. /\ after \in [Squares -> Cell]
      /\ \A s \in Squares : after[s] = IF s = to THEN cell ELSE mid[s]
  BY <1>3
<1> HIDE DEF after
<1>5. /\ after \in Grids
      /\ \A s \in Squares : after[s] = IF s = to THEN cell ELSE IF s = from THEN Empty ELSE g[s]
  BY <1>3, <1>4 DEF Grids, Cell
<1> QED BY <1>5 DEF after, mid, g

\* Kings stay single: where a move leaves a king there was one on from.
LEMMA KingsAfter ==
    ASSUME NEW b \in Boards, OneKing(b), NEW a, NEW from \in Squares, NEW to \in Squares,
           NEW c \in Colors, NEW type \in PieceTypes,
           type = "king" => b.grid[from] = <<c, "king">>,
           \A s \in Squares : a.grid[s] = IF s = to THEN <<c, type>>
                                          ELSE IF s = from THEN Empty ELSE b.grid[s]
    PROVE  OneKing(a)
<1> SUFFICES ASSUME NEW d \in Colors, NEW s \in Kings(a, d), NEW t \in Kings(a, d)
             PROVE  s = t
  BY DEF OneKing
<1>0. Empty # <<d, "king">>
  BY DEF Empty
<1>1. s \in Squares /\ t \in Squares /\ a.grid[s] = <<d, "king">> /\ a.grid[t] = <<d, "king">>
  BY DEF Kings
<1>2. \A q \in Squares : a.grid[q] = <<d, "king">> /\ q # to
          => q # from /\ b.grid[q] = <<d, "king">>
  BY <1>0
<1>3. CASE s # to /\ t # to
  BY <1>1, <1>2, <1>3 DEF OneKing, Kings
<1>4. CASE s = to \/ t = to
  <2>1. ASSUME NEW q \in Squares, q # to, a.grid[q] = <<d, "king">>, a.grid[to] = <<d, "king">>
        PROVE  FALSE
    <3>1. <<c, type>> = <<d, "king">>
      BY <2>1
    <3>2. c = d /\ type = "king"
      BY <3>1
    <3>3. b.grid[from] = <<d, "king">> /\ b.grid[q] = <<d, "king">> /\ q # from
      BY <1>2, <2>1, <3>2
    <3> QED BY <3>3 DEF OneKing, Kings
  <2> QED BY <1>1, <1>4, <2>1
<1> QED BY <1>3, <1>4

\* How many pieces of a kind stand on the board after a move.
LEMMA CountAfter ==
    ASSUME NEW b \in Boards, NEW a, NEW from \in Squares, NEW to \in Squares, from # to,
           NEW c \in Colors, NEW type \in PieceTypes, NEW t,
           b.grid[from] # Empty, Demote(type) = Demote(b.grid[from][2]),
           \A s \in Squares : a.grid[s] = IF s = to THEN <<c, type>>
                                          ELSE IF s = from THEN Empty ELSE b.grid[s]
    PROVE  Cardinality(On(a, t)) =
               IF to \in On(b, t) THEN Cardinality(On(b, t)) - 1 ELSE Cardinality(On(b, t))
<1> DEFINE A == On(b, t)
           u == Demote(type)
<1>0. IsFiniteSet(A) /\ Cardinality(A) \in Nat
  BY SquaresFinite
<1>1. <<c, type>> # Empty
  BY DEF Empty
<1>2. from \in A <=> t = u
  BY DEF On
<1>3. CASE t = u
  <2>1. On(a, t) = (A \ {from}) \union {to}
    BY <1>1, <1>3 DEF On
  <2> HIDE DEF A
  <2>2. IsFiniteSet(A \ {from}) /\ Cardinality(A \ {from}) = Cardinality(A) - 1
    BY <1>0, <1>2, <1>3, FS_RemoveElement
  <2> DEFINE R == A \ {from}
  <2>3. to \in R <=> to \in A
    OBVIOUS
  <2> HIDE DEF R
  <2>4. Cardinality(R \union {to}) = IF to \in R THEN Cardinality(R) ELSE Cardinality(R) + 1
    BY <2>2, FS_AddElement DEF R
  <2> QED BY <1>0, <2>1, <2>2, <2>3, <2>4 DEF R, A
<1>4. CASE t # u
  <2>1. On(a, t) = A \ {to}
    BY <1>1, <1>2, <1>4 DEF On
  <2> HIDE DEF A
  <2> QED BY <1>0, <2>1, FS_RemoveElement DEF A
<1> QED BY <1>3, <1>4

\* A board to which a piece of the side to move goes from one of its squares to a square
\* it does not hold, turned or not.
LEMMA NormalAfter ==
    ASSUME NEW b \in Boards, OneKing(b), Roomy(b), NEW from \in Squares, NEW to \in Squares,
           b.grid[from] # Empty, b.grid[from][1] = b.side,
           b.grid[to] = Empty \/ b.grid[to][1] # b.side,
           NEW piece \in {b.grid[from][2], Promote(b.grid[from][2])}
    PROVE  LET after == ApplyNormal(b, b.side, from, to, piece)
           IN  /\ after \in Boards /\ OneKing(after) /\ Material(after) = Material(b)
               /\ after.count = b.count + 1 /\ after.side = Opponent(b.side)
<1> DEFINE c == b.side
           type == b.grid[from][2]
           lifted == [b.grid EXCEPT ![from] = Empty]
           captured == Demote(lifted[to][2])
           takes == lifted[to] # Empty /\ captured \in HandTypes
           grid == [lifted EXCEPT ![to] = <<c, piece>>]
           hand == IF takes THEN [b.hand EXCEPT ![c][captured] = (@ + 1) % (HandMax + 1)]
                   ELSE b.hand
           after == ApplyNormal(b, b.side, from, to, piece)
<1>1. /\ c \in Colors /\ b.hand \in [Colors -> [HandTypes -> 0..HandMax]] /\ b.count \in Nat \ {0}
      /\ b = [grid |-> b.grid, hand |-> b.hand, side |-> b.side, count |-> b.count]
  BY DEF Boards
<1>2. from # to
  OBVIOUS
<1>3. b.grid[from] = <<c, type>> /\ type \in PieceTypes
  BY Cells
<1>4. piece \in PieceTypes /\ Demote(piece) = Demote(type) /\ (piece = "king" => type = "king")
  BY <1>3, Tokens
<1>5. lifted[to] = b.grid[to]
  BY <1>2 DEF Boards, Grids
<1>6. after = [grid |-> grid, hand |-> hand, side |-> Opponent(c), count |-> b.count + 1]
  <2> DEFINE put == [b EXCEPT !.grid = grid]
             full == IF takes THEN [put EXCEPT !.hand[c][captured] = (@ + 1) % (HandMax + 1)]
                     ELSE put
  <2>1. after = [full EXCEPT !.side = Opponent(@), !.count = @ + 1]
    BY DEF ApplyNormal, AdvanceTurn
  <2> HIDE DEF grid, captured, takes, after
  <2>2. put = [grid |-> grid, hand |-> b.hand, side |-> b.side, count |-> b.count]
    BY <1>1
  <2> HIDE DEF put
  <2>3. full = [grid |-> grid, hand |-> hand, side |-> b.side, count |-> b.count]
    BY <2>2
  <2> HIDE DEF full, hand
  <2> QED BY <2>1, <2>3
<1>7. /\ grid \in Grids
      /\ \A s \in Squares : grid[s] = IF s = to THEN <<c, piece>>
                                      ELSE IF s = from THEN Empty ELSE b.grid[s]
  <2>1. <<c, piece>> \in Cell
    BY <1>1, <1>4 DEF Cell
  <2> QED BY <2>1, GridAfter
<1>8. captured = Demote(b.grid[to][2])
  BY <1>5
<1>9. /\ takes <=> b.grid[to] # Empty /\ captured \in HandTypes
      /\ \A t \in HandTypes : to \in On(b, t) <=> takes /\ t = captured
  BY <1>5, <1>8 DEF On
<1> HIDE DEF lifted, grid, captured, takes, after
<1>10. ASSUME takes
       PROVE  /\ captured \in HandTypes /\ b.hand[c][captured] + 1 <= HandMax
              /\ (b.hand[c][captured] + 1) % (HandMax + 1) = b.hand[c][captured] + 1
  <2> DEFINE t == captured
             n == Cardinality(On(b, t))
  <2>1. t \in HandTypes /\ to \in On(b, t)
    BY <1>9, <1>10
  <2>2. n \in Nat /\ n # 0
    <3>1. n \in Nat /\ IsFiniteSet(On(b, t))
      BY SquaresFinite
    <3> QED BY <2>1, <3>1, FS_EmptySet
  <2>3. n + b.hand["black"][t] + b.hand["white"][t] <= HandMax
    <3>1. Material(b)[t] <= HandMax
      BY <2>1 DEF Roomy
    <3> QED BY <2>1, <3>1, MaterialIs
  <2>4. b.hand["black"][t] \in Nat /\ b.hand["white"][t] \in Nat /\ HandMax \in Nat
        /\ b.hand[c][t] \in Nat /\ (c = "black" \/ c = "white")
    BY <1>1, <2>1, BoardAssumption DEF Colors
  <2> HIDE DEF n, t
  <2>5. b.hand[c][t] + 1 <= HandMax
    <3>1. CASE c = "black"
      BY <2>2, <2>3, <2>4, <3>1
    <3>2. CASE c = "white"
      BY <2>2, <2>3, <2>4, <3>2
    <3> QED BY <2>4, <3>1, <3>2
  <2> DEFINE h == b.hand[c][t]
  <2>6. h \in Nat /\ h + 1 <= HandMax /\ HandMax \in Nat
    BY <2>4, <2>5
  <2> HIDE DEF h
  <2>7. (h + 1) % (HandMax + 1) = h + 1
    BY <2>6
  <2> QED BY <2>1, <2>5, <2>7 DEF h, t
<1>11. /\ hand \in [Colors -> [HandTypes -> 0..HandMax]]
       /\ \A d \in Colors, t \in HandTypes :
             hand[d][t] = IF takes /\ d = c /\ t = captured THEN b.hand[d][t] + 1 ELSE b.hand[d][t]
  <2>1. CASE takes
    <3> DEFINE n == b.hand[c][captured] + 1
               row == [b.hand[c] EXCEPT ![captured] = n]
    <3>1. hand = [b.hand EXCEPT ![c] = row]
      BY <1>1, <1>10, <2>1
    <3>2. n \in 0..HandMax
      BY <1>1, <1>10, <2>1, BoardAssumption
    <3>3. row \in [HandTypes -> 0..HandMax]
          /\ \A t \in HandTypes : row[t] = IF t = captured THEN n ELSE b.hand[c][t]
      <4> HIDE DEF n
      <4> QED BY <1>1, <3>2
    <3> HIDE DEF row, hand
    <3> QED BY <1>1, <2>1, <3>1, <3>3
  <2>2. CASE ~takes
    BY <1>1, <2>2
  <2> QED BY <2>1, <2>2
<1> HIDE DEF hand
<1>12. after \in Boards
  BY <1>1, <1>6, <1>7, <1>11, Sides DEF Boards
<1>13. after.grid = grid /\ after.hand = hand /\ after.count = b.count + 1
       /\ after.side = Opponent(c)
  BY <1>6
<1>14. OneKing(after)
  <2>1. piece = "king" => b.grid[from] = <<c, "king">>
    BY <1>3, <1>4
  <2>2. \A s \in Squares : after.grid[s] = IF s = to THEN <<c, piece>>
                                           ELSE IF s = from THEN Empty ELSE b.grid[s]
    BY <1>7, <1>13
  <2> QED BY <1>1, <1>4, <2>1, <2>2, KingsAfter
<1>15. Material(after) = Material(b)
  <2> SUFFICES ASSUME NEW t \in HandTypes
               PROVE  Cardinality(On(after, t)) + after.hand["black"][t] + after.hand["white"][t]
                          = Cardinality(On(b, t)) + b.hand["black"][t] + b.hand["white"][t]
    BY MaterialIs
  <2> DEFINE n == Cardinality(On(b, t))
             m == Cardinality(On(after, t))
  <2>1. m = IF to \in On(b, t) THEN n - 1 ELSE n
    <3>1. \A s \in Squares : after.grid[s] = IF s = to THEN <<c, piece>>
                                             ELSE IF s = from THEN Empty ELSE b.grid[s]
      BY <1>7, <1>13
    <3> QED BY <1>1, <1>2, <1>3, <1>4, <3>1, CountAfter
  <2>2. n \in Nat
    BY SquaresFinite
  <2>3. b.hand["black"][t] \in Nat /\ b.hand["white"][t] \in Nat
        /\ "black" \in Colors /\ "white" \in Colors /\ (c = "black" \/ c = "white")
    BY <1>1, BoardAssumption DEF Colors
  <2>4. /\ after.hand["black"][t] = IF takes /\ "black" = c /\ t = captured
                                    THEN b.hand["black"][t] + 1 ELSE b.hand["black"][t]
        /\ after.hand["white"][t] = IF takes /\ "white" = c /\ t = captured
                                    THEN b.hand["white"][t] + 1 ELSE b.hand["white"][t]
    BY <1>11, <1>13, <2>3
  <2> HIDE DEF n, m
  <2>5. to \in On(b, t) <=> takes /\ t = captured
    BY <1>9
  <2> HIDE DEF c
  <2>6. CASE takes /\ t = captured
    <3>1. CASE c = "black"
      BY <2>1, <2>2, <2>3, <2>4, <2>5, <2>6, <3>1 DEF n, m
    <3>2. CASE c = "white"
      BY <2>1, <2>2, <2>3, <2>4, <2>5, <2>6, <3>2 DEF n, m
    <3> QED BY <2>3, <3>1, <3>2
  <2>7. CASE ~(takes /\ t = captured)
    BY <2>1, <2>4, <2>5, <2>7 DEF n, m
  <2> QED BY <2>6, <2>7
<1> QED BY <1>12, <1>13, <1>14, <1>15 DEF after

\* A board on which a piece of the hand is put on an empty square.
LEMMA DropAfter ==
    ASSUME NEW b \in Boards, OneKing(b), NEW to \in Squares, NEW piece \in HandTypes,
           b.grid[to] = Empty, CanDrop(b, b.side, piece)
    PROVE  LET after == ApplyDrop(b, b.side, to, piece)
           IN  /\ after \in Boards /\ OneKing(after) /\ Material(after) = Material(b)
               /\ after.count = b.count + 1 /\ after.side = Opponent(b.side)
<1> DEFINE c == b.side
           grid == [b.grid EXCEPT ![to] = <<c, piece>>]
           n == b.hand[c][piece] - 1
           hand == [b.hand EXCEPT ![c][piece] = n]
           after == ApplyDrop(b, b.side, to, piece)
<1>1. /\ c \in Colors /\ b.hand \in [Colors -> [HandTypes -> 0..HandMax]] /\ b.count \in Nat \ {0}
      /\ b = [grid |-> b.grid, hand |-> b.hand, side |-> b.side, count |-> b.count]
  BY DEF Boards
<1>2. Demote(piece) = piece /\ piece \in PieceTypes /\ piece # "king"
  BY DemoteUnpromoted, HandTypesAre
<1>3. b.hand[c][piece] \in 0..HandMax /\ b.hand[c][piece] > 0 /\ n \in 0..HandMax
  BY <1>1, <1>2, BoardAssumption DEF CanDrop
<1>4. after = [grid |-> grid, hand |-> hand, side |-> Opponent(c), count |-> b.count + 1]
  <2> DEFINE put == [b EXCEPT !.hand[c][piece] = @ - 1, !.grid[to] = <<c, piece>>]
             row == [b.hand[c] EXCEPT ![piece] = n]
             all == [b.hand EXCEPT ![c] = row]
             cells == [b.grid EXCEPT ![to] = <<c, piece>>]
  <2>1. after = [put EXCEPT !.side = Opponent(@), !.count = @ + 1]
    BY <1>2 DEF ApplyDrop, AdvanceTurn
  <2> DEFINE held == [b EXCEPT !.hand = all]
  <2>2. put = [held EXCEPT !.grid = cells]
    BY <1>1
  <2>3. all = hand /\ cells = grid
    BY <1>1
  <2> HIDE DEF all, cells, put
  <2>4. held = [grid |-> b.grid, hand |-> all, side |-> b.side, count |-> b.count]
    BY <1>1
  <2> HIDE DEF held
  <2>5. put = [grid |-> cells, hand |-> all, side |-> b.side, count |-> b.count]
    BY <2>2, <2>4
  <2> HIDE DEF grid, hand, after
  <2> QED BY <2>1, <2>3, <2>5
<1>5. /\ grid \in Grids
      /\ \A s \in Squares : grid[s] = IF s = to THEN <<c, piece>> ELSE b.grid[s]
  BY <1>1, <1>2 DEF Boards, Grids
<1>6. /\ hand \in [Colors -> [HandTypes -> 0..HandMax]]
      /\ \A d \in Colors, t \in HandTypes :
            hand[d][t] = IF d = c /\ t = piece THEN b.hand[d][t] - 1 ELSE b.hand[d][t]
  <2> DEFINE row == [b.hand[c] EXCEPT ![piece] = n]
  <2>1. hand = [b.hand EXCEPT ![c] = row]
    BY <1>1
  <2>2. /\ row \in [HandTypes -> 0..HandMax]
        /\ \A t \in HandTypes : row[t] = IF t = piece THEN n ELSE b.hand[c][t]
    <3> HIDE DEF n
    <3> QED BY <1>1, <1>3
  <2> HIDE DEF row, hand
  <2> QED BY <1>1, <2>1, <2>2
<1> HIDE DEF hand, grid, n, after
<1>7. after \in Boards
  BY <1>1, <1>4, <1>5, <1>6, Sides DEF Boards
<1>8. after.grid = grid /\ after.hand = hand /\ after.count = b.count + 1
       /\ after.side = Opponent(c)
  BY <1>4
<1>9. OneKing(after)
  <2>1. \A s \in Squares : after.grid[s] = IF s = to THEN <<c, piece>>
                                           ELSE IF s = to THEN Empty ELSE b.grid[s]
    BY <1>5, <1>8
  <2> QED BY <1>1, <1>2, <2>1, KingsAfter
<1>10. Material(after) = Material(b)
  <2> SUFFICES ASSUME NEW t \in HandTypes
               PROVE  Cardinality(On(after, t)) + after.hand["black"][t] + after.hand["white"][t]
                          = Cardinality(On(b, t)) + b.hand["black"][t] + b.hand["white"][t]
    BY MaterialIs
  <2> DEFINE m == Cardinality(On(b, t))
             k == Cardinality(On(after, t))
  <2>1. k = IF t = piece THEN m + 1 ELSE m
    <3>0. <<c, piece>> # Empty
      BY DEF Empty
    <3>1. to \notin On(b, t)
      BY DEF On
    <3>2. On(after, t) = IF t = piece THEN On(b, t) \union {to} ELSE On(b, t)
      BY <1>2, <1>5, <1>8, <3>0 DEF On
    <3>3. Cardinality(On(b, t) \union {to}) = m + 1
      BY <3>1, SquaresFinite, FS_AddElement
    <3> QED BY <3>2, <3>3
  <2>2. m \in Nat
    BY SquaresFinite
  <2>3. b.hand["black"][t] \in Nat /\ b.hand["white"][t] \in Nat
        /\ "black" \in Colors /\ "white" \in Colors /\ (c = "black" \/ c = "white")
    BY <1>1, BoardAssumption DEF Colors
  <2>4. /\ after.hand["black"][t] = IF "black" = c /\ t = piece
                                    THEN b.hand["black"][t] - 1 ELSE b.hand["black"][t]
        /\ after.hand["white"][t] = IF "white" = c /\ t = piece
                                    THEN b.hand["white"][t] - 1 ELSE b.hand["white"][t]
    BY <1>6, <1>8, <2>3
  <2> HIDE DEF m, k, c
  <2>5. CASE t = piece
    <3>1. CASE c = "black"
      BY <2>1, <2>2, <2>3, <2>4, <2>5, <3>1 DEF m, k
    <3>2. CASE c = "white"
      BY <2>1, <2>2, <2>3, <2>4, <2>5, <3>2 DEF m, k
    <3> QED BY <2>3, <3>1, <3>2
  <2>6. CASE t # piece
    BY <2>1, <2>4, <2>6 DEF m, k
  <2> QED BY <2>5, <2>6
<1> QED BY <1>7, <1>8, <1>9, <1>10 DEF after

-----------------------------------------------------------------------------
(* The walk.                                                               *)

Listed(r) == \E S : r \in Seq(S)
Usis(r) == [i \in DOMAIN r |-> r[i].usi]

\* from-match begins on the start, and after n moves it is here.
Begun(g) == [game |-> g, board |-> g.start, kept |-> <<>>, going |-> TRUE]
Walked(g, r, n) == OverMoves!Fold(Begun(g), Usis(r), 1..n)
At(g, b, kept) == [game |-> g, board |-> b, kept |-> kept, going |-> TRUE]

LEMMA ListedIs ==
    ASSUME NEW r, Listed(r)
    PROVE  Len(r) \in Nat /\ DOMAIN r = 1..Len(r)
BY DEF Listed

LEMMA ListedAppend ==
    ASSUME NEW r, Listed(r), NEW x
    PROVE  /\ Listed(Append(r, x)) /\ Len(Append(r, x)) = Len(r) + 1
           /\ \A i \in 1..Len(r) : Append(r, x)[i] = r[i]
           /\ Append(r, x)[Len(r) + 1] = x
<1>1. PICK S : r \in Seq(S)
  BY DEF Listed
<1> DEFINE T == S \union {x}
<1>2. r \in Seq(T) /\ x \in T
  <2>1. r \in [1..Len(r) -> T] /\ Len(r) \in Nat
    BY <1>1
  <2> HIDE DEF T
  <2>2. r \in Seq(T)
    BY <2>1, SeqDef
  <2> QED BY <2>2 DEF T
<1> HIDE DEF T
<1>3. Append(r, x) \in Seq(T)
  BY <1>2
<1> QED BY <1>2, <1>3 DEF Listed

\* What the walk has done a longer record does not change.
LEMMA WalkKept ==
    ASSUME NEW g, NEW r, Listed(r), NEW x, NEW n \in 0..Len(r)
    PROVE  Walked(g, Append(r, x), n) = Walked(g, r, n)
<1> DEFINE u == Usis(Append(r, x))
           v == Usis(r)
<1>1. Len(r) \in Nat /\ DOMAIN r = 1..Len(r)
  BY ListedIs
<1>2. n \in Nat /\ 1..n \subseteq 1..Len(r)
  BY <1>1
<1>3. /\ DOMAIN Append(r, x) = 1..Len(r) + 1
      /\ \A i \in 1..Len(r) : Append(r, x)[i] = r[i]
  BY ListedAppend, ListedIs
<1>4. OverMoves!Agree(u, v, 1..n)
  <2>1. ASSUME NEW i \in 1..n PROVE u[i] = v[i]
    <3>1. i \in 1..Len(r) /\ i \in 1..Len(r) + 1
      BY <1>1, <1>2
    <3> QED BY <1>1, <1>3, <3>1 DEF Usis
  <2> QED BY <2>1 DEF OverMoves!Agree
<1> HIDE DEF u, v
<1>5. OverMoves!Fold(Begun(g), u, 1..n) = OverMoves!Fold(Begun(g), v, 1..n)
  BY <1>2, <1>4, AlwaysMax, OverMoves!FoldOfPrefix
<1> QED BY <1>5 DEF Walked, u, v

\* from-match makes of one more move what it is.
LEMMA WalkGrows ==
    ASSUME NEW g, NEW r, Listed(r), NEW x, NEW b, NEW kept,
           Walked(g, r, Len(r)) = At(g, b, kept), CanApply(b, b.side, x.usi)
    PROVE  Walked(g, Append(r, x), Len(r) + 1) =
               At(g, ApplyUsi(b, b.side, x.usi),
                  WithPosition(g, kept, ApplyUsi(b, b.side, x.usi),
                               ~x.usi.drop /\ IsCapture(b, x.usi.to, b.side)))
<1> DEFINE long == Append(r, x)
           n == Len(r)
           after == ApplyUsi(b, b.side, x.usi)
           more == WithPosition(g, kept, after, ~x.usi.drop /\ IsCapture(b, x.usi.to, b.side))
<1>1. n \in Nat /\ n \in 0..Len(r)
  BY ListedIs
<1>2. Walked(g, long, n) = At(g, b, kept)
  BY <1>1, WalkKept
<1>3. Usis(long)[n + 1] = x.usi
  <2>1. DOMAIN long = 1..n + 1 /\ long[n + 1] = x
    BY ListedAppend, ListedIs
  <2> HIDE DEF long, n
  <2> QED BY <1>1, <2>1 DEF Usis
<1> HIDE DEF long, n
<1>4. Walked(g, long, n + 1) = MatchMove(Walked(g, long, n), x.usi)
  BY <1>1, <1>3, MovesAlong DEF Walked
<1>5. MatchMove(At(g, b, kept), x.usi) = At(g, after, more)
  <2> DEFINE s == At(g, b, kept)
  <2>1. s.going /\ s.board = b /\ s.kept = kept /\ s.game = g
    BY DEF At
  <2>2. MatchMove(s, x.usi) = [s EXCEPT !.board = after, !.kept = more]
    <3> HIDE DEF s
    <3> QED BY <2>1 DEF MatchMove
  <2> HIDE DEF after, more
  <2> QED BY <2>2 DEF At
<1> QED BY <1>2, <1>4, <1>5 DEF long, n

\* The exported move is the one made.
LEMMA ExportedDrop ==
    ASSUME NEW b, NEW to, NEW piece, CanDrop(b, b.side, piece)
    PROVE  LET usi == Drop(piece, to)
           IN  /\ CanApply(b, b.side, usi) /\ usi.drop = TRUE
               /\ ApplyUsi(b, b.side, usi) = ApplyDrop(b, b.side, to, piece)
<1> DEFINE usi == Drop(piece, to)
<1>1. usi.drop = TRUE /\ usi.piece = piece /\ usi.to = to
  BY DEF Drop
<1> HIDE DEF usi
<1> QED BY <1>1 DEF CanApply, ApplyUsi, usi

LEMMA StartIsBoard ==
    ASSUME NEW g \in Games
    PROVE  /\ g.start \in Boards /\ OneKing(g.start)
           /\ Roomy(g.start)
<1>1. g.start \in [grid : Grids, hand : {NoHands}, side : Colors, count : {1}]
      /\ OneKing(g.start)
  BY GamesAssumption
<1>2. NoHands \in [Colors -> [HandTypes -> 0..HandMax]]
      /\ \A c \in Colors, t \in HandTypes : NoHands[c][t] = 0
  BY BoardAssumption DEF NoHands
<1>3. g.start \in Boards
  BY <1>1, <1>2 DEF Boards
<1>4. ASSUME NEW t \in HandTypes PROVE Material(g.start)[t] <= HandMax
  <2>1. g.start.hand["black"][t] = 0 /\ g.start.hand["white"][t] = 0
    BY <1>1, <1>2 DEF Colors
  <2> DEFINE n == Cardinality(On(g.start, t))
  <2>2. Material(g.start)[t] = n + 0 + 0
    BY <2>1, MaterialIs
  <2>3. n \in Nat /\ n <= Size * Size
    BY SquaresFinite
  <2>4. Size * Size \in Nat /\ HandMax \in Nat /\ Size * Size <= HandMax
    BY BoardAssumption
  <2> HIDE DEF n
  <2> DEFINE q == Size * Size
  <2>5. n <= q /\ q \in Nat /\ q <= HandMax
    BY <2>3, <2>4
  <2> HIDE DEF q
  <2> QED BY <2>2, <2>3, <2>4, <2>5
<1> QED BY <1>1, <1>3, <1>4 DEF Roomy

\* The board is one of the game, and from-match, playing the moves exported so far, is
\* where the walk is; the text exported with a move is that of its board before it.
WalkInv ==
    /\ game \in Games
    /\ board \in Boards /\ OneKing(board)
    /\ Material(board) = Material(game.start)
    /\ Listed(raw)
    /\ Walked(game, raw, Len(raw)) = At(game, board, records)
    /\ \A i \in 1..Len(raw) : FromSfen(raw[i].before) = Walked(game, raw, i - 1).board

\* Nothing is played at the start of a game.
LEMMA BeginWalk ==
    game \in Games /\ board = game.start /\ raw = <<>> /\ records = <<>> => WalkInv
<1> SUFFICES ASSUME game \in Games, board = game.start, raw = <<>>, records = <<>>
             PROVE  WalkInv
  OBVIOUS
<1>2. Listed(raw) /\ Len(raw) = 0
  <2>1. <<>> \in Seq({})
    OBVIOUS
  <2> QED BY <2>1 DEF Listed
<1>3. Walked(game, raw, 0) = At(game, board, records)
  <2>1. Walked(game, raw, 0) = Begun(game)
    BY MovesAlong DEF Walked
  <2> QED BY <2>1 DEF Begun, At
<1>4. board \in Boards /\ OneKing(board) /\ Material(board) = Material(game.start)
  BY StartIsBoard
<1>5. 1..Len(raw) = {}
  BY <1>2
<1> QED BY <1>2, <1>3, <1>4, <1>5 DEF WalkInv

LEMMA InitWalk == Init => WalkInv
BY BeginWalk DEF Init

\* A move that the board makes as from-match makes the exported one.
LEMMA PlayWalk ==
    ASSUME WalkInv, NEW usi, NEW after, NEW capture, Play(usi, after, capture),
           CanApply(board, board.side, usi), after = ApplyUsi(board, board.side, usi),
           capture = (~usi.drop /\ IsCapture(board, usi.to, board.side)),
           after \in Boards, OneKing(after), Material(after) = Material(board)
    PROVE  WalkInv'
<1> DEFINE x == [before |-> ToSfen(board), mover |-> board.side, usi |-> usi]
           long == Append(raw, x)
           n == Len(raw)
           kept == WithPosition(game, records, after, capture)
<1>1. /\ board' = after /\ raw' = long /\ records' = kept /\ game' = game
  BY DEF Play
<1>2. /\ game \in Games /\ board \in Boards /\ Material(board) = Material(game.start)
      /\ Listed(raw) /\ Walked(game, raw, n) = At(game, board, records)
      /\ \A i \in 1..n : FromSfen(raw[i].before) = Walked(game, raw, i - 1).board
  BY DEF WalkInv
<1>3. n \in Nat
  BY <1>2, ListedIs
<1>4. x.usi = usi /\ x.before = ToSfen(board)
  OBVIOUS
<1>5. /\ Listed(long) /\ Len(long) = n + 1 /\ long[n + 1] = x
      /\ \A i \in 1..n : long[i] = raw[i]
  BY <1>2, ListedAppend
<1>6. Walked(game, long, n + 1) = At(game, after, kept)
  <2> HIDE DEF x
  <2>1. CanApply(board, board.side, x.usi)
    BY <1>4
  <2>2. Walked(game, Append(raw, x), Len(raw) + 1) =
            At(game, ApplyUsi(board, board.side, x.usi),
               WithPosition(game, records, ApplyUsi(board, board.side, x.usi),
                            ~x.usi.drop /\ IsCapture(board, x.usi.to, board.side)))
    BY <1>2, <2>1, WalkGrows
  <2> QED BY <1>4, <2>2
<1>7. ASSUME NEW i \in 1..n + 1
      PROVE  FromSfen(long[i].before) = Walked(game, long, i - 1).board
  <2>0. i - 1 \in 0..n
    BY <1>3
  <2>1. Walked(game, long, i - 1) = Walked(game, raw, i - 1)
    BY <1>2, <2>0, WalkKept
  <2>2. CASE i \in 1..n
    BY <1>2, <1>5, <2>1, <2>2
  <2>3. CASE i = n + 1
    <3>1. i - 1 = n
      BY <1>3, <2>3
    <3>2. Walked(game, long, i - 1).board = board
      BY <1>2, <2>1, <3>1 DEF At
    <3>3. FromSfen(ToSfen(board)) = board
      BY <1>2, TextIsBoard
    <3> HIDE DEF x, long
    <3> QED BY <1>4, <1>5, <2>3, <3>2, <3>3
  <2> QED BY <1>3, <2>2, <2>3
<1> HIDE DEF x, long, kept, n
<1>8. Material(after) = Material(game.start)
  BY <1>2
<1> QED BY <1>1, <1>2, <1>5, <1>6, <1>7, <1>8 DEF WalkInv

\* Every step of the record keeps the walk with from-match.
LEMMA StepWalk == WalkInv /\ [Next]_vars => WalkInv'
<1> SUFFICES ASSUME WalkInv, [Next]_vars PROVE WalkInv'
  OBVIOUS
<1>0. /\ game \in Games /\ board \in Boards /\ OneKing(board)
      /\ Material(board) = Material(game.start) /\ Roomy(board)
  <2>1. game \in Games /\ Material(board) = Material(game.start)
    BY DEF WalkInv
  <2>2. Roomy(game.start)
    BY <2>1, StartIsBoard
  <2> QED BY <2>1, <2>2 DEF WalkInv, Roomy
<1>1. CASE CsaMove
  <2>1. PICK from \in Squares, to \in Squares :
            /\ Reading /\ Own(from) /\ ~Own(to) /\ Reaches(board, from, to)
            /\ \E piece \in {board.grid[from][2], Promote(board.grid[from][2])} :
                  LET after == ApplyNormal(board, board.side, from, to, piece)
                  IN  /\ ~Attacked(after, board.side)
                      /\ Play(UsiOf(board, from, to, piece), after,
                              IsCapture(board, to, board.side))
    BY <1>1 DEF CsaMove
  <2>2. PICK piece \in {board.grid[from][2], Promote(board.grid[from][2])} :
            Play(UsiOf(board, from, to, piece),
                 ApplyNormal(board, board.side, from, to, piece),
                 IsCapture(board, to, board.side))
    BY <2>1
  <2> DEFINE usi == UsiOf(board, from, to, piece)
             after == ApplyNormal(board, board.side, from, to, piece)
             capture == IsCapture(board, to, board.side)
  <2>3. /\ board.grid[from] # Empty /\ board.grid[from][1] = board.side
        /\ board.grid[to] = Empty \/ board.grid[to][1] # board.side
    BY <2>1 DEF Own
  <2>4. /\ CanApply(board, board.side, usi) /\ usi.drop = FALSE /\ usi.to = to
        /\ ApplyUsi(board, board.side, usi) = after
    <3>1. piece = board.grid[from][2] \/ piece = Promote(board.grid[from][2])
      OBVIOUS
    <3>2. board.grid[from] # Empty
      BY <2>3
    <3>3. /\ usi.drop = FALSE /\ usi.from = from /\ usi.to = to
          /\ usi.promote = (board.grid[from][2] # piece)
      BY <3>2 DEF UsiOf, Normal
    <3> HIDE DEF usi, capture
    <3>4. CanApply(board, board.side, usi)
      BY <3>2, <3>3 DEF CanApply, CanMove
    <3>5. piece = IF usi.promote THEN Promote(board.grid[from][2]) ELSE board.grid[from][2]
      BY <3>1, <3>3
    <3>6. ApplyUsi(board, board.side, usi) = after
      BY <3>3, <3>5 DEF ApplyUsi
    <3> QED BY <3>3, <3>4, <3>6
  <2>5. after \in Boards /\ OneKing(after) /\ Material(after) = Material(board)
    <3> HIDE DEF after, usi, capture
    <3>1. /\ ApplyNormal(board, board.side, from, to, piece) \in Boards
          /\ OneKing(ApplyNormal(board, board.side, from, to, piece))
          /\ Material(ApplyNormal(board, board.side, from, to, piece)) = Material(board)
      BY <1>0, <2>3, NormalAfter
    <3> QED BY <3>1 DEF after
  <2>6. capture = (~usi.drop /\ IsCapture(board, usi.to, board.side))
    BY <2>4 DEF IsCapture
  <2>7. Play(usi, after, capture)
    BY <2>2
  <2> HIDE DEF usi, after, capture
  <2> QED BY <2>4, <2>5, <2>6, <2>7, PlayWalk
<1>2. CASE CsaDrop
  <2>1. PICK to \in Squares, piece \in HandTypes :
            /\ Reading /\ board.grid[to] = Empty /\ CanDrop(board, board.side, piece)
            /\ Play(Drop(piece, to), ApplyDrop(board, board.side, to, piece), FALSE)
    BY <1>2 DEF CsaDrop
  <2> DEFINE usi == Drop(piece, to)
             after == ApplyDrop(board, board.side, to, piece)
  <2>2. /\ CanApply(board, board.side, usi) /\ usi.drop = TRUE
        /\ ApplyUsi(board, board.side, usi) = after
    BY <2>1, ExportedDrop
  <2>3. after \in Boards /\ OneKing(after) /\ Material(after) = Material(board)
    BY <1>0, <2>1, DropAfter
  <2>4. FALSE = (~usi.drop /\ IsCapture(board, usi.to, board.side))
    BY <2>2
  <2>5. Play(usi, after, FALSE)
    BY <2>1
  <2> HIDE DEF usi, after
  <2> QED BY <2>2, <2>3, <2>4, <2>5, PlayWalk
<1>3. CASE UNCHANGED <<game, board, raw, records>>
  BY <1>3 DEF WalkInv, Roomy
<1>4. CsaIllegal \/ CsaTerminal \/ UNCHANGED vars => UNCHANGED <<game, board, raw, records>>
  BY DEF CsaIllegal, CsaTerminal, vars
<1>5. CASE CsaPanics
  <2>1. game' \in Games /\ board' = game'.start /\ raw' = <<>> /\ records' = <<>>
    BY <1>0, <1>5 DEF CsaPanics
  <2>2. (game \in Games /\ board = game.start /\ raw = <<>> /\ records = <<>> => WalkInv)'
    BY BeginWalk, PTL
  <2> QED BY <2>1, <2>2
<1> QED BY <1>1, <1>2, <1>3, <1>4, <1>5 DEF Next

LEMMA WalkInvariant == Spec => []WalkInv
BY InitWalk, StepWalk, PTL DEF Spec

\* The check test is right on every board a game leads to.
THEOREM CheckIsRealAlways == Spec => []CheckIsReal
<1>1. WalkInv => CheckIsReal
  BY ScanIsCheck DEF WalkInv, CheckIsReal
<1> QED BY <1>1, WalkInvariant, PTL

\* Every position of a game survives its text, and its text's hash is its own.
THEOREM SfenIsFaithfulAlways == Spec => []SfenIsFaithful
<1>1. WalkInv => SfenIsFaithful
  BY TextIsBoard, HashSurvives DEF WalkInv, SfenIsFaithful
<1> QED BY <1>1, WalkInvariant, PTL

\* The exported moves replay, to the same boards and the same positions, and a game
\* makes or loses no piece.
THEOREM ReplayAgreesAlways == Spec => []ReplayAgrees
<1>1. ASSUME WalkInv PROVE ReplayAgrees
  <2> DEFINE start == ToSfen(game.start)
             moves == [i \in DOMAIN raw |-> raw[i].usi]
             first == [game |-> game, board |-> FromSfen(start), kept |-> <<>>, going |-> TRUE]
             match == FromMatch(game, start, moves)
  <2>1. /\ game \in Games /\ board \in Boards /\ Material(board) = Material(game.start)
        /\ Listed(raw) /\ Walked(game, raw, Len(raw)) = At(game, board, records)
        /\ \A i \in 1..Len(raw) : FromSfen(raw[i].before) = Walked(game, raw, i - 1).board
    BY <1>1 DEF WalkInv
  <2>2. Len(raw) \in Nat /\ DOMAIN raw = 1..Len(raw) /\ moves = Usis(raw)
        /\ DOMAIN moves = 1..Len(raw)
    BY <2>1, ListedIs DEF Usis
  <2>3. first = Begun(game)
    <3>1. FromSfen(start) = game.start
      BY <2>1, StartIsBoard, TextIsBoard
    <3> HIDE DEF start
    <3> QED BY <3>1 DEF Begun
  <2>4. match = At(game, board, records)
    <3>1. match = OverMoves!Fold(first, moves, DOMAIN moves)
      BY FoldsAre
    <3> HIDE DEF first, moves, match
    <3> QED BY <2>1, <2>2, <2>3, <3>1 DEF Walked
  <2>5. match.board = board /\ match.kept = records
    <3> HIDE DEF match
    <3> QED BY <2>4 DEF At
  <2>6. ASSUME NEW i \in DOMAIN raw
        PROVE  FromMatch(game, start, SubSeq(moves, 1, i - 1)).board = FromSfen(raw[i].before)
    <3> DEFINE few == SubSeq(moves, 1, i - 1)
               n == i - 1
    <3>1. i \in 1..Len(raw) /\ n \in Nat /\ 1..n \subseteq DOMAIN moves
      BY <2>2
    <3>2. DOMAIN few = 1..n /\ \A k \in 1..n : few[k] = moves[k]
      <4> DEFINE S == {moves[k] : k \in 1..n}
      <4>1. n \in Int /\ 1 \in Int /\ \A k \in 1..n : moves[k] \in S
        BY <3>1
      <4> HIDE DEF moves, n, S
      <4>2. /\ SubSeq(moves, 1, n) \in Seq(S)
            /\ Len(SubSeq(moves, 1, n)) = IF 1 <= n THEN n - 1 + 1 ELSE 0
            /\ \A k \in 1..n - 1 + 1 : SubSeq(moves, 1, n)[k] = moves[1 + k - 1]
        BY <4>1, SubSeqProperties
      <4>3. few = SubSeq(moves, 1, n)
        BY DEF n
      <4> HIDE DEF few
      <4>4. Len(few) = n /\ DOMAIN few = 1..n
        BY <3>1, <4>2, <4>3
      <4>5. ASSUME NEW k \in 1..n PROVE few[k] = moves[k]
        <5>1. k \in 1..n - 1 + 1 /\ 1 + k - 1 = k
          BY <3>1
        <5> QED BY <4>2, <4>3, <5>1
      <4> QED BY <4>4, <4>5
    <3>3. OverMoves!Agree(few, moves, 1..n)
      BY <3>2 DEF OverMoves!Agree
    <3>4. FromMatch(game, start, few) = OverMoves!Fold(first, few, DOMAIN few)
      BY FoldsAre
    <3> HIDE DEF few, moves, n, first, start
    <3>5. OverMoves!Fold(first, few, 1..n) = OverMoves!Fold(first, moves, 1..n)
      BY <3>1, <3>3, AlwaysMax, OverMoves!FoldOfPrefix
    <3>6. FromMatch(game, start, few) = Walked(game, raw, n)
      BY <2>2, <2>3, <3>2, <3>4, <3>5 DEF Walked
    <3>7. FromSfen(raw[i].before) = Walked(game, raw, n).board
      BY <2>1, <3>1 DEF n
    <3> QED BY <3>6, <3>7 DEF few, n
  <2>7. MovesReplay
    BY <2>5, <2>6 DEF MovesReplay
  <2> QED BY <2>1, <2>7 DEF ReplayAgrees, MaterialConserved
<1> QED BY <1>1, WalkInvariant, PTL
=============================================================================
