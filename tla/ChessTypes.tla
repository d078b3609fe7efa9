----------------------------- MODULE ChessTypes -----------------------------
(***************************************************************************)
(* The vocabulary of the chess core: coordinates, cells, colours, castling *)
(* flags, moves, and the constant tables the move generator works with     *)
(* (src/core/types.h, private/geometry.h, bitboard.h, private/bitboard.h,  *)
(* private/magic*.h, private/between.h and the generators gen/core/).      *)
(*                                                                         *)
(* A bitboard is the set of its cells: | is \cup, & is \cap, ^ is Xor and  *)
(* ~b is Coord \ b.  Cells are numbered row by row from a8 = 0 to h1 = 63. *)
(***************************************************************************)
EXTENDS Integers, FiniteSets

White == 0
Black == 1
Color == {White, Black}

Pawn == 0
King == 1
Knight == 2
Bishop == 3
Rook == 4
Queen == 5
Piece == 0..5

Coord == 0..63
Subcoord == 0..7
InvalidCoord == -1
EmptyCell == 0

Invert(c) == 1 - c
MakeCoord(x, y) == 8 * x + y
CoordX(c) == c \div 8
CoordY(c) == c % 8
CoordDiag1(c) == CoordX(c) + CoordY(c)
CoordDiag2(c) == 7 - CoordX(c) + CoordY(c)

ColorOffset(c) == IF c = White THEN 1 ELSE 9
MakeCell(c, p) == ColorOffset(c) + p
CellPieceColor(cell) == IF cell < 8 THEN White ELSE Black
CellPiece(cell) == (cell % 8) - 1

\* The cells isCellValid() accepts.
Cell == {EmptyCell} \cup (1..6) \cup (9..14)

(***************************************************************************)
(* Castling flags: one per colour and side.                                *)
(***************************************************************************)
Kingside == "K"
Queenside == "Q"
CastlingAll == Color \X {Kingside, Queenside}
CastlingOf(c) == {c} \X {Kingside, Queenside}

(***************************************************************************)
(* private/geometry.h                                                      *)
(***************************************************************************)
EnpassantSrcRow(c) == IF c = White THEN 3 ELSE 4
EnpassantDstRow(c) == IF c = White THEN 2 ELSE 5
PromoteSrcRow(c) == IF c = White THEN 1 ELSE 6
PromoteDstRow(c) == IF c = White THEN 0 ELSE 7
DoubleMoveSrcRow(c) == IF c = White THEN 6 ELSE 1
DoubleMoveDstRow(c) == IF c = White THEN 4 ELSE 3
CastlingRow(c) == IF c = White THEN 7 ELSE 0
CastlingOffset(c) == 8 * CastlingRow(c)
PawnForwardDelta(c) == IF c = White THEN -8 ELSE 8
PawnLeftDelta(c) == IF c = White THEN -9 ELSE 7
PawnRightDelta(c) == IF c = White THEN -7 ELSE 9

(***************************************************************************)
(* Bitboards.                                                              *)
(***************************************************************************)
Xor(a, b) == (a \ b) \cup (b \ a)
BbRow == [x \in Subcoord |-> {c \in Coord : CoordX(c) = x}]
BbCol == [y \in Subcoord |-> {c \in Coord : CoordY(c) = y}]
BbDiag1 == [d \in 0..14 |-> {c \in Coord : CoordDiag1(c) = d}]
BbDiag2 == [d \in 0..14 |-> {c \in Coord : CoordDiag2(c) = d}]
BbCellsWhite == {c \in Coord : (CoordX(c) + CoordY(c)) % 2 = 0}
BbCellsBlack == Coord \ BbCellsWhite

\* Shifting a bitboard of pawns: cells shifted over the edge fall out.
Shift(bb, delta) == {c + delta : c \in bb} \cap Coord
AdvancePawnForward(c, bb) == Shift(bb, PawnForwardDelta(c))
AdvancePawnLeft(c, bb) == Shift(bb \ BbCol[0], PawnLeftDelta(c))
AdvancePawnRight(c, bb) == Shift(bb \ BbCol[7], PawnRightDelta(c))

\* The cells a castling moves over, and those that carry its flag.
CastlingPass(c, side) ==
    {CastlingOffset(c) + k : k \in IF side = Kingside THEN {5, 6} ELSE {1, 2, 3}}
CastlingSrcs(c, side) ==
    {CastlingOffset(c) + k : k \in IF side = Kingside THEN {4, 7} ELSE {0, 4}}

(***************************************************************************)
(* Attack tables of the pieces that step (gen/core/near_attacks.cpp) ...   *)
(***************************************************************************)
OnBoard(x, y) == x \in Subcoord /\ y \in Subcoord
Directed(offsets) ==
    [c \in Coord |->
        {MakeCoord(CoordX(c) + o[1], CoordY(c) + o[2]) :
            o \in {p \in offsets : OnBoard(CoordX(c) + p[1], CoordY(c) + p[2])}}]

KnightAttacks == Directed({<<-2, -1>>, <<-2, 1>>, <<-1, -2>>, <<-1, 2>>,
                           <<2, -1>>, <<2, 1>>, <<1, -2>>, <<1, 2>>})
KingAttacks == Directed(((-1..1) \X (-1..1)) \ {<<0, 0>>})
PawnAttacks == [c \in Color |->
                  Directed(IF c = White THEN {<<-1, -1>>, <<-1, 1>>}
                                        ELSE {<<1, -1>>, <<1, 1>>})]

(***************************************************************************)
(* ... and of the pieces that slide: from a cell, in each direction, up to *)
(* the first occupied cell inclusive (the loop of initMagic()).            *)
(***************************************************************************)
RookDirections == {<<-1, 0>>, <<1, 0>>, <<0, -1>>, <<0, 1>>}
BishopDirections == {<<-1, -1>>, <<1, -1>>, <<-1, 1>>, <<1, 1>>}

RayLength(c, d) ==
    Cardinality({k \in 1..7 : OnBoard(CoordX(c) + k * d[1], CoordY(c) + k * d[2])})
Ray == [d \in RookDirections \cup BishopDirections |->
          [c \in Coord |->
             [k \in 1..RayLength(c, d) |->
                MakeCoord(CoordX(c) + k * d[1], CoordY(c) + k * d[2])]]]

RayAttack(occupied, ray) ==
    {ray[k] : k \in {i \in DOMAIN ray : \A j \in 1..(i - 1) : ray[j] \notin occupied}}
RookAttack(occupied, c) ==
    UNION {RayAttack(occupied, Ray[d][c]) : d \in RookDirections}
BishopAttack(occupied, c) ==
    UNION {RayAttack(occupied, Ray[d][c]) : d \in BishopDirections}

(***************************************************************************)
(* The magic tables.  Cells share lookup arrays: rooks in pairs (c, c ^ 9),*)
(* bishops in groups of four.  An entry collects the attacks of every cell *)
(* of the group whose occupancy has its index, and the post-mask of a cell *)
(* keeps what lies on its own lines.  The index is the one of the BMI2     *)
(* build: the bits of the occupancy at the places of the mask, packed.     *)
(***************************************************************************)
RowFrame == BbCol[0] \cup BbCol[7]
ColFrame == BbRow[0] \cup BbRow[7]

RookPostMask == [c \in Coord |-> Xor(BbRow[CoordX(c)], BbCol[CoordY(c)])]
RookMask == [c \in Coord |-> ((BbRow[CoordX(c)] \ RowFrame)
                                 \cup (BbCol[CoordY(c)] \ ColFrame)) \ {c}]
BishopPostMask == [c \in Coord |-> Xor(BbDiag1[CoordDiag1(c)], BbDiag2[CoordDiag2(c)])]
BishopMask == [c \in Coord |-> BishopPostMask[c] \ (RowFrame \cup ColFrame)]

FlipLow(n) == IF n % 2 = 0 THEN n + 1 ELSE n - 1
RookGroup == [c \in Coord |-> {c, MakeCoord(FlipLow(CoordX(c)), FlipLow(CoordY(c)))}]

\* The starts of the bishop groups, with the step between the four cells of each.
BishopGroups ==
    {{s + 8 * i : i \in 0..3} : s \in {0, 1, 32, 33, 6, 7, 38, 39}}
        \cup {{s + i : i \in 0..3} : s \in {2, 10, 18, 26, 34, 42, 50, 58}}
BishopGroup == [c \in Coord |-> CHOOSE g \in BishopGroups : c \in g]

\* pext: the ranks, within the mask, of the mask's cells that are occupied.
Pext(occupied, mask) ==
    {Cardinality({d \in mask : d < c}) : c \in occupied \cap mask}
\* depositBits: the occupancy of the mask that has the given index.
Deposit(index, mask) ==
    {c \in mask : Cardinality({d \in mask : d < c}) \in index}

\* The cells of a group that fill the entry with this index at all.
Fillers(group, mask, index) ==
    {c \in group : \A i \in index : i < Cardinality(mask[c])}
RookEntry(c, index) ==
    UNION {RookAttack(Deposit(index, RookMask[d]), d) :
              d \in Fillers(RookGroup[c], RookMask, index)}
BishopEntry(c, index) ==
    UNION {BishopAttack(Deposit(index, BishopMask[d]), d) :
              d \in Fillers(BishopGroup[c], BishopMask, index)}
\* Mutant: the attacks of the other cell of the pair are not masked away.
RookLookupUnmasked(occupied, c) == RookEntry(c, Pext(occupied, RookMask[c]))

RookLookup(occupied, c) ==
    RookEntry(c, Pext(occupied, RookMask[c])) \cap RookPostMask[c]
BishopLookup(occupied, c) ==
    BishopEntry(c, Pext(occupied, BishopMask[c])) \cap BishopPostMask[c]

(***************************************************************************)
(* private/between.h: the cells strictly between two cells of one line.    *)
(* The tables hold both lines of a cell, cut at the cell; the intersection *)
(* of the two tables is what lies between.                                 *)
(***************************************************************************)
BishopLines == [c \in Coord |-> BbDiag1[CoordDiag1(c)] \cup BbDiag2[CoordDiag2(c)]]
RookLines == [c \in Coord |-> BbRow[CoordX(c)] \cup BbCol[CoordY(c)]]
After(lines, c) == {d \in lines[c] : d > c}
Before(lines, c) == {d \in lines[c] : d < c}

Between(p, q) ==
    LET src == IF p > q THEN q ELSE p
        dst == IF p > q THEN p ELSE q
    IN  CASE dst \in After(BishopLines, src) ->
                 After(BishopLines, src) \cap Before(BishopLines, dst)
          [] dst \in After(RookLines, src) ->
                 After(RookLines, src) \cap Before(RookLines, dst)
          [] OTHER -> {}

(***************************************************************************)
(* Moves (move.h).  The tag is zero in everything the core produces.       *)
(***************************************************************************)
PromoteKinds == {"PromoteKnight", "PromoteBishop", "PromoteRook", "PromoteQueen"}
MoveKinds == PromoteKinds \cup {"Null", "Simple", "PawnDoubleMove", "Enpassant",
                                "CastlingKingside", "CastlingQueenside", "Invalid"}
Move(kind, src, dst) == [kind |-> kind, src |-> src, dst |-> dst]
NullMove == Move("Null", 0, 0)
InvalidMove == Move("Invalid", 0, 0)

PromotePiece(kind) ==
    CASE kind = "PromoteKnight" -> Knight
      [] kind = "PromoteBishop" -> Bishop
      [] kind = "PromoteRook" -> Rook
      [] kind = "PromoteQueen" -> Queen

\* The cell of the pawn an en passant capture to dst takes.
EnpassantPawnPos(c, dst) == IF c = White THEN dst + 8 ELSE dst - 8

\* Move::isWellFormed() for moving side c.
IsWellFormed(m, c) ==
    /\ m.src \in Coord /\ m.dst \in Coord
    /\ m.kind # "Null" => m.src # m.dst
    /\ CASE m.kind = "Simple" -> TRUE
         [] m.kind = "PawnDoubleMove" ->
              /\ CoordX(m.src) = DoubleMoveSrcRow(c)
              /\ CoordX(m.dst) = DoubleMoveDstRow(c)
              /\ CoordY(m.src) = CoordY(m.dst)
         [] m.kind \in PromoteKinds ->
              /\ CoordX(m.src) = PromoteSrcRow(c)
              /\ CoordX(m.dst) = PromoteDstRow(c)
              /\ CoordY(m.dst) - CoordY(m.src) \in -1..1
         [] m.kind = "CastlingKingside" ->
              /\ m.src = MakeCoord(CastlingRow(c), 4)
              /\ m.dst = MakeCoord(CastlingRow(c), 6)
         [] m.kind = "CastlingQueenside" ->
              /\ m.src = MakeCoord(CastlingRow(c), 4)
              /\ m.dst = MakeCoord(CastlingRow(c), 2)
         [] m.kind = "Null" -> m.src = 0 /\ m.dst = 0
         [] m.kind = "Enpassant" ->
              /\ CoordX(m.src) = EnpassantSrcRow(c)
              /\ CoordX(m.dst) = EnpassantDstRow(c)
              /\ CoordY(m.dst) - CoordY(m.src) \in {-1, 1}
         [] OTHER -> FALSE
=============================================================================
