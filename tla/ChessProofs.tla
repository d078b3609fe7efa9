---------------------------- MODULE ChessProofs ----------------------------
(***************************************************************************)
(* What the search relies on when it walks the tree of positions on one    *)
(* board: moveMake() keeps everything the board holds for speed equal to   *)
(* what update() would compute, for every move the generators give, and    *)
(* moveUnmake() gives the very board back; isMoveLegal() foresees whether  *)
(* a move leaves its king attacked; and legal moves lead from positions    *)
(* that validate() accepts to such positions.                              *)
(*                                                                         *)
(* A board is Fresh if update() would change nothing in it, and a move is  *)
(* Makeable if it is one that the code of its kind in moveMake() is        *)
(* written for.  Generated moves are makeable (GeneratedMakeable), a       *)
(* makeable move made leaves a fresh board fresh (MoveMade) and is undone  *)
(* (MoveUnmade).                                                           *)
(*                                                                         *)
(* A board is Sound if it is fresh and validate() accepts it: one king     *)
(* for each side, no pawn on the first or last row, at most 16 pieces,     *)
(* and the king of the side that has moved not attacked.  Attacks are      *)
(* read from the cells (AttackedBy), for a piece that moves and for what   *)
(* it uncovers, and so isMoveLegal() is compared with wasMoveLegal()       *)
(* (LegalityForeseen), and a legal move of a sound board makes a sound     *)
(* board (MoveKeepsSound).                                                 *)
(*                                                                         *)
(* The tables that the generators of the BMI2 build look the attacks of    *)
(* rooks, bishops and queens up in answer what scanning the board would,   *)
(* although several cells share each table.                                *)
(*                                                                         *)
(* Hash keys are symbols here: what is shown holds for any values of them. *)
(***************************************************************************)
EXTENDS ChessMoveGen, FiniteSetTheorems, TLAPS

-----------------------------------------------------------------------------
(* Cells, colours and sets *)

(* What a cell says about the piece on it. *)
LEMMA CellFacts ==
  /\ EmptyCell \in Cell /\ EmptyCell \in BbIndex
  /\ \A cell \in Cell : cell \in BbIndex /\ CellPieceColor(cell) \in Color
  /\ \A c \in Color : Invert(c) \in Color /\ Invert(c) # c /\ Invert(Invert(c)) = c
  /\ \A c \in Color, p \in Piece :
       /\ MakeCell(c, p) \in Cell /\ MakeCell(c, p) # EmptyCell
       /\ CellPieceColor(MakeCell(c, p)) = c
  /\ \A c, d \in Color, p, q \in Piece :
       MakeCell(c, p) = MakeCell(d, q) => c = d /\ p = q
BY DEF EmptyCell, Cell, BbIndex, CellPieceColor, Color, White, Black, Invert, Piece,
       MakeCell, ColorOffset

(* The kinds of pieces the lemmas below name are kinds of pieces. *)
LEMMA PieceFacts ==
  /\ Pawn \in Piece /\ King \in Piece /\ Knight \in Piece /\ Bishop \in Piece
  /\ Rook \in Piece /\ Queen \in Piece
  /\ Pawn # King /\ Pawn # Rook /\ King # Rook
BY DEF Pawn, King, Knight, Bishop, Rook, Queen, Piece

(* Exclusive or, as far as hashes and bitboards need it. *)
LEMMA XorFacts ==
  /\ \A a, b, x : x \in Xor(a, b) <=> ~(x \in a <=> x \in b)
  /\ \A a : Xor(a, {}) = a
  /\ \A a, b : Xor(Xor(a, b), b) = a
  /\ \A a, b, c : Xor(Xor(a, b), c) = Xor(Xor(a, c), b)
<1>1. ASSUME NEW a, NEW b, NEW x PROVE x \in Xor(a, b) <=> ~(x \in a <=> x \in b)
  BY DEF Xor
<1>4. ASSUME NEW a PROVE Xor(a, {}) = a
  BY DEF Xor
<1>2. ASSUME NEW a, NEW b PROVE Xor(Xor(a, b), b) = a
  BY DEF Xor
<1>3. ASSUME NEW a, NEW b, NEW c PROVE Xor(Xor(a, b), c) = Xor(Xor(a, c), b)
  BY DEF Xor
<1> QED
  BY <1>1, <1>2, <1>3, <1>4

-----------------------------------------------------------------------------
(* The hash *)

PieceKeys(cells) == UNION {ZPiece(cells[c], c) : c \in Coord}
SideKeys(side) == IF side = White THEN {} ELSE ZSide
EnpassantKeys(ep) == IF ep = InvalidCoord THEN {} ELSE ZEnpassant(ep)

(* Keys of different kinds are different keys. *)
LEMMA KeysApart ==
  ASSUME NEW h
  PROVE  /\ h \in ZSide => h[1] = "side"
         /\ \A f : h \in ZCastling(f) => h[1] = "castling"
         /\ \A c : h \in ZEnpassant(c) => h[1] = "enpassant"
         /\ \A cell, c : h \in ZPiece(cell, c) => h[1] = "piece" /\ h[3] = c
BY DEF ZSide, ZCastling, ZEnpassant, ZPiece

(* The four parts of a hash are told apart by their tags. *)
LEMMA HashParts ==
  ASSUME NEW cells, NEW side, NEW castling, NEW ep, NEW h
  PROVE  /\ h \in FreshHash(cells, side, castling, ep) <=>
              \/ h \in SideKeys(side) \/ h \in EnpassantKeys(ep)
              \/ h \in ZCastling(castling) \/ h \in PieceKeys(cells)
         /\ h \in SideKeys(side) => h[1] = "side"
         /\ h \in EnpassantKeys(ep) => h[1] = "enpassant"
         /\ h \in PieceKeys(cells) => h[1] = "piece"
<1>1. h \in PieceKeys(cells) => \E c \in Coord : h \in ZPiece(cells[c], c)
  BY DEF PieceKeys
<1> QED
  BY <1>1, KeysApart DEF FreshHash, SideKeys, EnpassantKeys, PieceKeys

(* moveMake() flips the key of the side, ... *)
LEMMA HashOfSide ==
  ASSUME NEW cells, NEW side \in Color, NEW castling, NEW ep
  PROVE  Xor(FreshHash(cells, side, castling, ep), ZSide)
           = FreshHash(cells, Invert(side), castling, ep)
<1>1. /\ side = White => SideKeys(side) = {} /\ SideKeys(Invert(side)) = ZSide
      /\ side # White => SideKeys(side) = ZSide /\ SideKeys(Invert(side)) = {}
  BY DEF SideKeys, Invert, Color, White, Black
<1>2. ASSUME NEW h
      PROVE  h \in Xor(FreshHash(cells, side, castling, ep), ZSide) <=>
               h \in FreshHash(cells, Invert(side), castling, ep)
  <2>1. /\ h \in ZSide => h[1] = "side"
        /\ h \in ZCastling(castling) => h[1] = "castling"
    BY KeysApart
  <2> QED
    BY <1>1, <2>1, HashParts DEF Xor
<1> QED
  BY <1>2

(* ... takes out the castling flags and puts in what is left of them, ... *)
LEMMA HashOfCastling ==
  ASSUME NEW cells, NEW side, NEW castling, NEW ep, NEW flags
  PROVE  Xor(Xor(FreshHash(cells, side, castling, ep), ZCastling(castling)), ZCastling(flags))
           = FreshHash(cells, side, flags, ep)
<1>1. ASSUME NEW h
      PROVE  h \in Xor(Xor(FreshHash(cells, side, castling, ep), ZCastling(castling)),
                       ZCastling(flags)) <=> h \in FreshHash(cells, side, flags, ep)
  <2>1. /\ h \in ZCastling(castling) => h[1] = "castling"
        /\ h \in ZCastling(flags) => h[1] = "castling"
    BY KeysApart
  <2> QED
    BY <2>1, HashParts DEF Xor
<1> QED
  BY <1>1

(* ... takes out or puts in the en passant cell, ... *)
LEMMA HashOfEnpassant ==
  ASSUME NEW cells, NEW side, NEW castling, NEW ep, ep # InvalidCoord
  PROVE  /\ Xor(FreshHash(cells, side, castling, ep), ZEnpassant(ep))
              = FreshHash(cells, side, castling, InvalidCoord)
         /\ Xor(FreshHash(cells, side, castling, InvalidCoord), ZEnpassant(ep))
              = FreshHash(cells, side, castling, ep)
<1>1. EnpassantKeys(ep) = ZEnpassant(ep) /\ EnpassantKeys(InvalidCoord) = {}
  BY DEF EnpassantKeys
<1>2. ASSUME NEW h
      PROVE  /\ h \in Xor(FreshHash(cells, side, castling, ep), ZEnpassant(ep)) <=>
                  h \in FreshHash(cells, side, castling, InvalidCoord)
             /\ h \in Xor(FreshHash(cells, side, castling, InvalidCoord), ZEnpassant(ep)) <=>
                  h \in FreshHash(cells, side, castling, ep)
  <2>1. /\ h \in ZEnpassant(ep) => h[1] = "enpassant"
        /\ h \in ZCastling(castling) => h[1] = "castling"
    BY KeysApart
  <2> QED
    BY <1>1, <2>1, HashParts DEF Xor
<1> QED
  BY <1>2

(* One cell changes; a piece goes to another cell, perhaps as another piece. *)
CellPut(cells, new, x, old, v) ==
  /\ x \in Coord /\ cells[x] = old /\ new[x] = v
  /\ \A y \in Coord : y = x \/ new[y] = cells[y]

PieceMoved(cells, new, src, dst, piece, placed, taken) ==
  /\ src \in Coord /\ dst \in Coord /\ src # dst
  /\ cells[src] = piece /\ cells[dst] = taken
  /\ new[src] = EmptyCell /\ new[dst] = placed
  /\ \A y \in Coord : y = src \/ y = dst \/ new[y] = cells[y]

(* ... and, for each cell, takes out what stood there and puts in what does. *)
LEMMA HashOfCell ==
  ASSUME NEW cells, NEW new, NEW side, NEW castling, NEW ep, NEW x, NEW old, NEW v,
         CellPut(cells, new, x, old, v)
  PROVE  Xor(Xor(FreshHash(cells, side, castling, ep), ZPiece(old, x)), ZPiece(v, x))
           = FreshHash(new, side, castling, ep)
<1>1. /\ x \in Coord /\ cells[x] = old
      /\ \A c \in Coord : new[c] = IF c = x THEN v ELSE cells[c]
  BY DEF CellPut
<1>2. ASSUME NEW h
      PROVE  h \in Xor(Xor(FreshHash(cells, side, castling, ep), ZPiece(old, x)),
                       ZPiece(v, x)) <=> h \in FreshHash(new, side, castling, ep)
  <2>1. /\ h \in ZCastling(castling) => h[1] = "castling"
        /\ \A cell, c : h \in ZPiece(cell, c) => h[1] = "piece" /\ h[3] = c
    BY KeysApart
  <2>2. /\ h \in PieceKeys(cells) <=> \E c \in Coord : h \in ZPiece(cells[c], c)
        /\ h \in PieceKeys(new) <=> \E c \in Coord : h \in ZPiece(new[c], c)
    BY DEF PieceKeys
  <2>3. h \in PieceKeys(new) <=>
          \/ h \in ZPiece(v, x)
          \/ h \in PieceKeys(cells) /\ h \notin ZPiece(old, x)
    BY <1>1, <2>1, <2>2
  <2>4. h \in ZPiece(old, x) => h \in PieceKeys(cells)
    BY <1>1, <2>2
  <2>5. h \in ZPiece(v, x) /\ h \in PieceKeys(cells) => h \in ZPiece(old, x)
    BY <1>1, <2>1, <2>2
  <2> QED
    BY <2>1, <2>3, <2>4, <2>5, HashParts DEF Xor
<1> QED
  BY <1>2

(* The three keys that a move of one piece touches bring the hash up to date. *)
LEMMA HashOfMove ==
  ASSUME NEW cells \in Cells, NEW new, NEW side, NEW castling, NEW ep,
         NEW src, NEW dst, NEW piece, NEW placed, NEW taken,
         PieceMoved(cells, new, src, dst, piece, placed, taken)
  PROVE  Xor(Xor(Xor(FreshHash(cells, side, castling, ep), ZPiece(piece, src)),
                 ZPiece(placed, dst)), ZPiece(taken, dst))
           = FreshHash(new, side, castling, ep)
<1> DEFINE left == [cells EXCEPT ![src] = EmptyCell]
           h == FreshHash(cells, side, castling, ep)
           h1 == Xor(h, ZPiece(piece, src))
<1>1. /\ CellPut(cells, left, src, piece, EmptyCell)
      /\ CellPut(left, new, dst, taken, placed)
  BY DEF Cells, PieceMoved, CellPut
<1> HIDE DEF left
<1>2. Xor(h1, ZPiece(EmptyCell, src)) = FreshHash(left, side, castling, ep)
  BY <1>1, HashOfCell
<1>3. Xor(h1, ZPiece(EmptyCell, src)) = h1
  BY XorFacts DEF ZPiece
<1>4. Xor(Xor(FreshHash(left, side, castling, ep), ZPiece(taken, dst)), ZPiece(placed, dst))
        = FreshHash(new, side, castling, ep)
  BY <1>1, HashOfCell
<1> HIDE DEF h1
<1>5. Xor(Xor(h1, ZPiece(taken, dst)), ZPiece(placed, dst))
        = Xor(Xor(h1, ZPiece(placed, dst)), ZPiece(taken, dst))
  BY XorFacts
<1> QED
  BY <1>2, <1>3, <1>4, <1>5 DEF h1

-----------------------------------------------------------------------------
(* Boards *)

(* The two cells a castling flag stands for. *)
KingCell(f) == MakeCoord(CastlingRow(f[1]), 4)
RookCell(f) == MakeCoord(CastlingRow(f[1]), IF f[2] = Kingside THEN 7 ELSE 0)

(* What is kept for speed follows the cells. *)
BitboardsKept(b) ==
  /\ \A c \in Color : b.bbColor[c] = Occupied(b.cells, c)
  /\ \A p \in BbIndex : b.bbPieces[p] = {x \in Coord : p # EmptyCell /\ b.cells[x] = p}

HashKept(b) == b.hash = FreshHash(b.cells, b.side, b.castling, b.enpassantCoord)

FlagsKept(b) == FixedCastling(b.cells, b.castling) = b.castling

EnpassantKept(b) ==
  /\ FixedEnpassant(b.cells, b.side, b.enpassantCoord) = b.enpassantCoord
  /\ b.enpassantCoord # InvalidCoord => CoordX(b.enpassantCoord) = EnpassantSrcRow(b.side)

(* A board in the middle of moveMake(), where bbAll is not yet up to date. *)
Kept(b) == b \in Board /\ BitboardsKept(b) /\ HashKept(b) /\ FlagsKept(b)

(* A board of the program: update() would change nothing, and the en passant *)
(* cell is in its row.                                                       *)
Fresh(b) ==
  /\ b \in Board
  /\ b = Update(b)
  /\ b.enpassantCoord # InvalidCoord => CoordX(b.enpassantCoord) = EnpassantSrcRow(b.side)

(* What moveMake() relies on. *)
Own(c, cell) == cell # EmptyCell /\ CellPieceColor(cell) = c

Makeable(b, m) ==
  LET c == b.side
      o == CastlingOffset(c)
  IN  /\ m.src \in Coord /\ m.dst \in Coord
      /\ m.kind \in MoveKinds \ {"Invalid"}
      /\ m.kind # "Null" => m.src # m.dst
      /\ m.kind = "Simple" => Own(c, b.cells[m.src]) /\ ~Own(c, b.cells[m.dst])
      /\ m.kind = "PawnDoubleMove" =>
           /\ b.cells[m.src] = MakeCell(c, Pawn) /\ b.cells[m.dst] = EmptyCell
           /\ m.dst = m.src + 2 * PawnForwardDelta(c)
           /\ CoordX(m.src) = DoubleMoveSrcRow(c)
           /\ b.cells[m.src + PawnForwardDelta(c)] = EmptyCell
      /\ m.kind \in PromoteKinds =>
           b.cells[m.src] = MakeCell(c, Pawn) /\ ~Own(c, b.cells[m.dst])
      /\ m.kind = "CastlingKingside" =>
           /\ <<c, Kingside>> \in b.castling
           /\ b.cells[o + 5] = EmptyCell /\ b.cells[o + 6] = EmptyCell
      /\ m.kind = "CastlingQueenside" =>
           /\ <<c, Queenside>> \in b.castling
           /\ b.cells[o + 2] = EmptyCell /\ b.cells[o + 3] = EmptyCell
      /\ m.kind = "Enpassant" =>
           /\ b.cells[m.src] = MakeCell(c, Pawn) /\ b.cells[m.dst] = EmptyCell
           /\ EnpassantPawnPos(c, m.dst) \in Coord
           /\ b.cells[EnpassantPawnPos(c, m.dst)] = MakeCell(Invert(c), Pawn)

(* Two boards with the same fields are one. *)
LEMMA SameBoard ==
  ASSUME NEW a \in Board, NEW b \in Board,
         a.cells = b.cells, a.side = b.side, a.castling = b.castling,
         a.enpassantCoord = b.enpassantCoord, a.moveCounter = b.moveCounter,
         a.moveNumber = b.moveNumber, a.hash = b.hash, a.bbColor = b.bbColor,
         a.bbAll = b.bbAll, a.bbPieces = b.bbPieces
  PROVE  a = b
BY DEF Board

(* Each field of a board is in its range. *)
LEMMA BoardFields ==
  ASSUME NEW b \in Board
  PROVE  /\ b.cells \in Cells /\ b.side \in Color /\ b.castling \in Flags
         /\ b.enpassantCoord \in MaybeCoord
         /\ b.moveCounter \in Counter /\ b.moveNumber \in Counter
         /\ b.hash \in Hash /\ b.bbColor \in ColorBitboards
         /\ b.bbAll \in Bitboard /\ b.bbPieces \in PieceBitboards
BY DEF Board

(* Whatever update() computes is of its type. *)
LEMMA FreshHashType ==
  ASSUME NEW cells \in Cells, NEW side, NEW castling \in Flags, NEW ep \in MaybeCoord
  PROVE  FreshHash(cells, side, castling, ep) \in Hash
<1>1. \A h : h \in ZobristKeys <=>
        \/ h \in ZSide
        \/ \E cell \in Cell, x \in Coord : h \in ZPiece(cell, x)
        \/ \E f \in SUBSET CastlingAll : h \in ZCastling(f)
        \/ \E x \in Coord : h \in ZEnpassant(x)
  <2> DEFINE P == UNION {ZPiece(cell, x) : cell \in Cell, x \in Coord}
             F == UNION {ZCastling(f) : f \in SUBSET CastlingAll}
             E == UNION {ZEnpassant(x) : x \in Coord}
  <2>1. \A h : h \in P <=> \E cell \in Cell, x \in Coord : h \in ZPiece(cell, x)
    OBVIOUS
  <2>2. \A h : h \in F <=> \E f \in SUBSET CastlingAll : h \in ZCastling(f)
    OBVIOUS
  <2>3. \A h : h \in E <=> \E x \in Coord : h \in ZEnpassant(x)
    OBVIOUS
  <2> HIDE DEF P, F, E
  <2>4. ZobristKeys = P \cup ZSide \cup F \cup E
    BY DEF ZobristKeys, P, F, E
  <2> QED
    BY <2>1, <2>2, <2>3, <2>4
<1>2. \A h : h \in SideKeys(side) => h \in ZobristKeys
  BY <1>1 DEF SideKeys
<1>3. \A h : h \in EnpassantKeys(ep) => h \in ZobristKeys
  BY <1>1 DEF EnpassantKeys, MaybeCoord
<1>4. \A h : h \in ZCastling(castling) => h \in ZobristKeys
  BY <1>1 DEF Flags
<1>5. \A h : h \in PieceKeys(cells) => h \in ZobristKeys
  <2>1. \A x \in Coord : cells[x] \in Cell
    BY DEF Cells
  <2> QED
    BY <1>1, <2>1 DEF PieceKeys
<1>6. \A h : h \in FreshHash(cells, side, castling, ep) => h \in ZobristKeys
  BY <1>2, <1>3, <1>4, <1>5, HashParts
<1> QED
  BY <1>6 DEF Hash

(* The bitboards that update() fills are bitboards. *)
LEMMA FreshBitboards ==
  ASSUME NEW cells
  PROVE  /\ \A c : Occupied(cells, c) \in Bitboard
         /\ [c \in Color |-> Occupied(cells, c)] \in ColorBitboards
         /\ [p \in BbIndex |-> {x \in Coord : p # EmptyCell /\ cells[x] = p}] \in PieceBitboards
<1>1. \A c : Occupied(cells, c) \in Bitboard
  BY DEF Occupied, Bitboard
<1>2. \A p : {x \in Coord : p # EmptyCell /\ cells[x] = p} \in Bitboard
  BY DEF Bitboard
<1> QED
  BY <1>1, <1>2 DEF ColorBitboards, PieceBitboards

(* A board is fresh if each of its parts is. *)
LEMMA FreshParts ==
  ASSUME NEW b \in Board
  PROVE  Fresh(b) <=> /\ BitboardsKept(b) /\ HashKept(b) /\ FlagsKept(b) /\ EnpassantKept(b)
                      /\ b.bbAll = b.bbColor[White] \cup b.bbColor[Black]
<1> DEFINE u == Update(b)
           ep == FixedEnpassant(b.cells, b.side, b.enpassantCoord)
           castling == FixedCastling(b.cells, b.castling)
           colors == [c \in Color |-> Occupied(b.cells, c)]
           pieces == [p \in BbIndex |-> {x \in Coord : p # EmptyCell /\ b.cells[x] = p}]
<1>1. /\ b.cells \in Cells /\ b.side \in Color /\ b.castling \in Flags
      /\ b.enpassantCoord \in MaybeCoord
      /\ b.bbColor \in ColorBitboards /\ b.bbPieces \in PieceBitboards
  BY BoardFields
<1>2. /\ u.cells = b.cells /\ u.side = b.side /\ u.castling = castling
      /\ u.enpassantCoord = ep
      /\ u.moveCounter = b.moveCounter /\ u.moveNumber = b.moveNumber
      /\ u.hash = FreshHash(b.cells, b.side, castling, ep)
      /\ u.bbColor = colors
      /\ u.bbAll = Occupied(b.cells, White) \cup Occupied(b.cells, Black)
      /\ u.bbPieces = pieces
  BY DEF Update
<1>3. castling \in Flags /\ ep \in MaybeCoord
  BY <1>1 DEF FixedCastling, FixedEnpassant, Flags, MaybeCoord
<1>4. colors \in ColorBitboards /\ pieces \in PieceBitboards
  BY FreshBitboards
<1>5. u \in Board
  <2>1. FreshHash(b.cells, b.side, castling, ep) \in Hash
    BY <1>1, <1>3, FreshHashType
  <2>2. Occupied(b.cells, White) \cup Occupied(b.cells, Black) \in Bitboard
    BY FreshBitboards DEF Bitboard
  <2>3. b.moveCounter \in Counter /\ b.moveNumber \in Counter
    BY BoardFields
  <2> HIDE DEF castling, ep, colors, pieces
  <2> QED
    BY <1>1, <1>3, <1>4, <2>1, <2>2, <2>3 DEF Update, Board, castling, ep, colors, pieces
<1>6. b.bbColor = colors <=> \A c \in Color : b.bbColor[c] = Occupied(b.cells, c)
  BY <1>1 DEF ColorBitboards
<1>7. b.bbPieces = pieces <=>
        \A p \in BbIndex : b.bbPieces[p] = {x \in Coord : p # EmptyCell /\ b.cells[x] = p}
  BY <1>1 DEF PieceBitboards
<1>8. White \in Color /\ Black \in Color
  BY DEF Color
<1> HIDE DEF u, ep, castling, colors, pieces
<1>9. b = u <=> /\ b.castling = castling /\ b.enpassantCoord = ep
                /\ b.hash = FreshHash(b.cells, b.side, castling, ep)
                /\ b.bbColor = colors /\ b.bbPieces = pieces
                /\ b.bbAll = Occupied(b.cells, White) \cup Occupied(b.cells, Black)
  BY <1>2, <1>5, SameBoard
<1>10. Fresh(b) <=> b = u /\ (b.enpassantCoord # InvalidCoord =>
                                CoordX(b.enpassantCoord) = EnpassantSrcRow(b.side))
  BY DEF Fresh, u
<1>11. BitboardsKept(b) <=> b.bbColor = colors /\ b.bbPieces = pieces
  BY <1>6, <1>7 DEF BitboardsKept
<1>12. ASSUME BitboardsKept(b)
       PROVE  b.bbColor[White] = Occupied(b.cells, White)
                /\ b.bbColor[Black] = Occupied(b.cells, Black)
  BY <1>8, <1>12 DEF BitboardsKept
<1> QED
  BY <1>9, <1>10, <1>11, <1>12 DEF HashKept, FlagsKept, EnpassantKept, ep, castling

-----------------------------------------------------------------------------
(* Making a move, kind by kind *)

(* The cells of a flag's king and rook are those whose moves clear the flag. *)
LEMMA FlagCells ==
  ASSUME NEW f \in CastlingAll
  PROVE  /\ f[1] \in Color /\ f[2] \in {Kingside, Queenside} /\ f = <<f[1], f[2]>>
         /\ KingCell(f) \in Coord /\ RookCell(f) \in Coord
         /\ CastlingSrcs(f[1], f[2]) = {KingCell(f), RookCell(f)}
<1>1. f[1] \in Color /\ f[2] \in {Kingside, Queenside} /\ f = <<f[1], f[2]>>
  BY DEF CastlingAll
<1>2. KingCell(f) \in Coord /\ RookCell(f) \in Coord
  BY <1>1 DEF Color, White, Black, Coord, KingCell, RookCell, MakeCoord, CastlingRow
<1> DEFINE steps == IF f[2] = Kingside THEN {4, 7} ELSE {0, 4}
           y == IF f[2] = Kingside THEN 7 ELSE 0
<1>3. \A k : k \in CastlingSrcs(f[1], f[2]) <=> k = KingCell(f) \/ k = RookCell(f)
  <2>1. \A k : k \in CastlingSrcs(f[1], f[2]) <=>
                 \E i \in steps : k = CastlingOffset(f[1]) + i
    BY DEF CastlingSrcs
  <2>2. \A i : i \in steps <=> i = 4 \/ i = y
    OBVIOUS
  <2>3. KingCell(f) = CastlingOffset(f[1]) + 4 /\ RookCell(f) = CastlingOffset(f[1]) + y
    BY <1>1 DEF KingCell, RookCell, MakeCoord, CastlingOffset
  <2> QED
    BY <2>1, <2>2, <2>3
<1>4. CastlingSrcs(f[1], f[2]) = {KingCell(f), RookCell(f)}
  BY <1>3
<1> QED
  BY <1>1, <1>2, <1>4

(* A castling flag stands for a king and a rook in their places. *)
Standing(cells, f) ==
  cells[KingCell(f)] = MakeCell(f[1], King) /\ cells[RookCell(f)] = MakeCell(f[1], Rook)

(* update() keeps every flag exactly if each has its king and rook at home. *)
LEMMA FlagsStanding ==
  ASSUME NEW b
  PROVE  FlagsKept(b) <=> \A f \in b.castling : Standing(b.cells, f)
<1>1. \A f : f \in FixedCastling(b.cells, b.castling) <=> f \in b.castling /\ Standing(b.cells, f)
  BY DEF FixedCastling, Standing, KingCell, RookCell
<1> QED
  BY <1>1 DEF FlagsKept

(* Everything of a board but its cells, flags, hash and bitboards. *)
SameRest(r, b) ==
  /\ r.side = b.side /\ r.moveCounter = b.moveCounter /\ r.moveNumber = b.moveNumber

(* Replacing the flags and their key touches nothing else. *)
LEMMA CastlingSet ==
  ASSUME NEW b \in Board, HashKept(b), NEW flags \in Flags
  PROVE  LET r == SetCastling(b, flags)
         IN  /\ r \in Board /\ HashKept(r) /\ SameRest(r, b)
             /\ r.cells = b.cells /\ r.enpassantCoord = b.enpassantCoord
             /\ r.castling = flags /\ r.bbColor = b.bbColor /\ r.bbPieces = b.bbPieces
<1> DEFINE r == SetCastling(b, flags)
           h == Xor(Xor(b.hash, ZCastling(b.castling)), ZCastling(flags))
<1>1. h = FreshHash(b.cells, b.side, flags, b.enpassantCoord)
  BY HashOfCastling DEF HashKept
<1>2. h \in Hash
  BY <1>1, BoardFields, FreshHashType
<1>3. r = [b EXCEPT !.castling = flags, !.hash = h]
  BY DEF SetCastling
<1> HIDE DEF r, h
<1>4. r \in Board
  BY <1>2, <1>3 DEF Board
<1>5. /\ r.cells = b.cells /\ r.enpassantCoord = b.enpassantCoord /\ r.side = b.side
      /\ r.moveCounter = b.moveCounter /\ r.moveNumber = b.moveNumber
      /\ r.castling = flags /\ r.bbColor = b.bbColor /\ r.bbPieces = b.bbPieces
      /\ r.hash = h
  BY <1>3 DEF Board
<1> QED
  BY <1>1, <1>4, <1>5 DEF HashKept, SameRest, r

(* After a move the flags left are those whose king and rook did not move. *)
LEMMA CastlingUpdated ==
  ASSUME NEW b \in Board, FlagsKept(b), NEW moved \in Board, HashKept(moved), NEW change,
         moved.castling = b.castling,
         \A x \in Coord \ change : moved.cells[x] = b.cells[x]
  PROVE  LET r == UpdateCastling(moved, change)
         IN  /\ r \in Board /\ HashKept(r) /\ FlagsKept(r) /\ SameRest(r, moved)
             /\ r.cells = moved.cells /\ r.enpassantCoord = moved.enpassantCoord
             /\ r.bbColor = moved.bbColor /\ r.bbPieces = moved.bbPieces
<1> DEFINE r == UpdateCastling(moved, change)
           kept == {f \in moved.castling : CastlingSrcs(f[1], f[2]) \cap change = {}}
<1>1. kept \in Flags
  BY BoardFields DEF Flags
<1>2. \A f \in kept : Standing(moved.cells, f)
  <2>1. \A f \in b.castling : Standing(b.cells, f)
    BY FlagsStanding
  <2>2. ASSUME NEW f \in kept PROVE Standing(moved.cells, f)
    <3>1. f \in CastlingAll
      BY <1>1 DEF Flags
    <3>2. KingCell(f) \in Coord \ change /\ RookCell(f) \in Coord \ change
      BY <3>1, FlagCells
    <3> QED
      BY <2>1, <3>2 DEF Standing
  <2> QED
    BY <2>2
<1>3. CASE kept = moved.castling
  <2>1. r = moved
    BY <1>3 DEF UpdateCastling
  <2>2. \A f \in moved.castling : Standing(moved.cells, f)
    BY <1>2, <1>3
  <2> QED
    BY <2>1, <2>2, FlagsStanding DEF SameRest
<1>4. CASE kept # moved.castling
  <2>1. r = SetCastling(moved, kept)
    BY <1>4 DEF UpdateCastling
  <2> HIDE DEF r, kept
  <2>2. /\ r \in Board /\ HashKept(r) /\ SameRest(r, moved)
        /\ r.cells = moved.cells /\ r.enpassantCoord = moved.enpassantCoord
        /\ r.castling = kept /\ r.bbColor = moved.bbColor /\ r.bbPieces = moved.bbPieces
    BY <1>1, <2>1, CastlingSet
  <2>3. \A f \in r.castling : Standing(r.cells, f)
    BY <1>2, <2>2
  <2> QED
    BY <2>2, <2>3, FlagsStanding DEF r
<1> QED
  BY <1>3, <1>4

(* The bitboards follow the cells, cell by cell. *)
Follow(cells, bbColor, bbPieces) ==
  \A x \in Coord :
    /\ \A c \in Color : x \in bbColor[c] <=> Own(c, cells[x])
    /\ \A p \in BbIndex : x \in bbPieces[p] <=> p # EmptyCell /\ cells[x] = p

(* What update() computes for the bitboards, said cell by cell. *)
LEMMA BitboardsByCell ==
  ASSUME NEW b \in Board
  PROVE  BitboardsKept(b) <=> Follow(b.cells, b.bbColor, b.bbPieces)
<1>1. /\ \A c \in Color : b.bbColor[c] \subseteq Coord
      /\ \A p \in BbIndex : b.bbPieces[p] \subseteq Coord
  BY BoardFields DEF ColorBitboards, PieceBitboards, Bitboard
<1>2. \A c \in Color : b.bbColor[c] = Occupied(b.cells, c) <=>
        \A x \in Coord : x \in b.bbColor[c] <=> Own(c, b.cells[x])
  BY <1>1 DEF Occupied, Own
<1>3. \A p \in BbIndex : b.bbPieces[p] = {x \in Coord : p # EmptyCell /\ b.cells[x] = p} <=>
        \A x \in Coord : x \in b.bbPieces[p] <=> p # EmptyCell /\ b.cells[x] = p
  BY <1>1
<1> QED
  BY <1>2, <1>3 DEF BitboardsKept, Follow

(* The bitboards of a board, cell by cell. *)
LEMMA BoardFollows ==
  ASSUME NEW b \in Board, BitboardsKept(b)
  PROVE  /\ b.cells \in Cells /\ b.side \in Color
         /\ b.bbColor \in ColorBitboards /\ b.bbPieces \in PieceBitboards
         /\ \A x \in Coord : b.cells[x] \in Cell
         /\ Follow(b.cells, b.bbColor, b.bbPieces)
BY BoardFields, BitboardsByCell DEF Cells

(* A board with its pieces moved: its parts, put together. *)
Moved(b, cells, hash, ep, bbColor, bbPieces) ==
  [b EXCEPT !.cells = cells, !.hash = hash, !.enpassantCoord = ep,
            !.bbColor = bbColor, !.bbPieces = bbPieces]

(* A board put together of fields in their ranges is a board. *)
LEMMA Assembled ==
  ASSUME NEW b \in Board, NEW cells \in Cells, NEW hash \in Hash, NEW ep \in MaybeCoord,
         NEW bbColor \in ColorBitboards, NEW bbPieces \in PieceBitboards,
         Follow(cells, bbColor, bbPieces)
  PROVE  LET r == Moved(b, cells, hash, ep, bbColor, bbPieces)
         IN  /\ r \in Board /\ BitboardsKept(r) /\ SameRest(r, b)
             /\ r.cells = cells /\ r.castling = b.castling /\ r.enpassantCoord = ep
             /\ r.hash = hash /\ r.bbColor = bbColor /\ r.bbPieces = bbPieces
<1> DEFINE r == Moved(b, cells, hash, ep, bbColor, bbPieces)
<1>1. r \in Board
  BY DEF Board, Moved
<1>2. /\ r.cells = cells /\ r.castling = b.castling /\ r.enpassantCoord = ep
      /\ r.hash = hash /\ r.bbColor = bbColor /\ r.bbPieces = bbPieces
      /\ r.side = b.side /\ r.moveCounter = b.moveCounter /\ r.moveNumber = b.moveNumber
  BY DEF Board, Moved
<1> HIDE DEF r
<1> QED
  BY <1>1, <1>2, BitboardsByCell DEF SameRest, r

(* The two colours, seen from one. *)
LEMMA Colors ==
  ASSUME NEW c \in Color
  PROVE  /\ Invert(c) \in Color /\ Invert(c) # c /\ Invert(Invert(c)) = c
         /\ \A k \in Color : k = c \/ k = Invert(c)
         /\ \A cell : ~(Own(c, cell) /\ Own(Invert(c), cell))
         /\ ~Own(c, EmptyCell) /\ ~Own(Invert(c), EmptyCell)
         /\ \A cell \in Cell : cell \in BbIndex
                               /\ (cell = EmptyCell \/ Own(c, cell) \/ Own(Invert(c), cell))
         /\ \A p \in Piece : /\ MakeCell(c, p) \in Cell /\ Own(c, MakeCell(c, p))
                             /\ MakeCell(c, p) \in BbIndex /\ MakeCell(c, p) # EmptyCell
<1>1. /\ Invert(c) \in Color /\ Invert(c) # c /\ Invert(Invert(c)) = c
      /\ \A k \in Color : k = c \/ k = Invert(c)
  BY DEF Color, Invert, White, Black
<1> QED
  BY <1>1, CellFacts DEF Own

(* A piece of one's own goes to a cell without one: a capture if the cell is taken. *)
LEMMA SimpleMade ==
  ASSUME NEW b, Kept(b), b.enpassantCoord = InvalidCoord, NEW m, Makeable(b, m),
         m.kind = "Simple"
  PROVE  LET r == MakeSimple(b, m)
         IN  /\ Kept(r) /\ SameRest(r, b) /\ r.enpassantCoord = InvalidCoord
             /\ r.cells = [b.cells EXCEPT ![m.src] = EmptyCell, ![m.dst] = b.cells[m.src]]
<1> DEFINE c == b.side
           d == Invert(c)
           srcCell == b.cells[m.src]
           dstCell == b.cells[m.dst]
           change == {m.src, m.dst}
           cells == [b.cells EXCEPT ![m.src] = EmptyCell, ![m.dst] = srcCell]
           hash == Xor(Xor(Xor(b.hash, ZPiece(srcCell, m.src)), ZPiece(srcCell, m.dst)),
                       ZPiece(dstCell, m.dst))
           bbColor == [b.bbColor EXCEPT ![c] = Xor(@, change), ![d] = @ \ {m.dst}]
           bbPieces == [b.bbPieces EXCEPT ![srcCell] = Xor(@, change), ![dstCell] = @ \ {m.dst}]
           moved == [b EXCEPT !.cells = cells, !.hash = hash, !.bbColor = bbColor,
                              !.bbPieces = bbPieces]
           r == MakeSimple(b, m)
<1>1. /\ b \in Board /\ b.cells \in Cells /\ c \in Color
      /\ b.bbColor \in ColorBitboards /\ b.bbPieces \in PieceBitboards
      /\ Follow(b.cells, b.bbColor, b.bbPieces)
  BY BoardFollows DEF Kept
<1>2. /\ m.src \in Coord /\ m.dst \in Coord /\ m.src # m.dst
      /\ Own(c, srcCell) /\ ~Own(c, dstCell)
  BY DEF Makeable
<1>3. /\ d \in Color /\ d # c /\ \A k \in Color : k = c \/ k = d
      /\ ~Own(c, EmptyCell) /\ ~Own(d, EmptyCell) /\ ~Own(d, srcCell)
      /\ \A cell : ~(Own(c, cell) /\ Own(d, cell))
  BY <1>1, <1>2, Colors
<1>4. /\ srcCell \in Cell /\ srcCell \in BbIndex /\ dstCell \in BbIndex
      /\ EmptyCell \in Cell /\ srcCell # EmptyCell /\ srcCell # dstCell
  BY <1>1, <1>2, CellFacts DEF Cells, Own
<1>5. cells \in Cells /\ \A x \in Coord : cells[x] = IF x = m.dst THEN srcCell
                                          ELSE IF x = m.src THEN EmptyCell ELSE b.cells[x]
  BY <1>1, <1>2, <1>4 DEF Cells
<1>6. hash = FreshHash(cells, b.side, b.castling, b.enpassantCoord)
  <2>1. PieceMoved(b.cells, cells, m.src, m.dst, srcCell, srcCell, dstCell)
    BY <1>2, <1>5 DEF PieceMoved
  <2> HIDE DEF cells, srcCell, dstCell
  <2> QED
    BY <1>1, <2>1, HashOfMove DEF Kept, HashKept
<1>7. /\ bbColor[c] = Xor(b.bbColor[c], change)
      /\ bbColor[d] = b.bbColor[d] \ {m.dst}
      /\ bbPieces[srcCell] = Xor(b.bbPieces[srcCell], change)
      /\ bbPieces[dstCell] = b.bbPieces[dstCell] \ {m.dst}
      /\ \A p \in BbIndex \ {srcCell, dstCell} : bbPieces[p] = b.bbPieces[p]
  BY <1>1, <1>3, <1>4 DEF ColorBitboards, PieceBitboards
<1>8. bbColor \in ColorBitboards /\ bbPieces \in PieceBitboards
  BY <1>1, <1>2, <1>3, <1>4 DEF ColorBitboards, PieceBitboards, Bitboard, Xor
<1>9. r = UpdateCastling(moved, change)
  BY DEF MakeSimple
<1> HIDE DEF cells, hash, bbColor, bbPieces, c, d, change
<1>10. Follow(cells, bbColor, bbPieces)
  <2> SUFFICES ASSUME NEW x \in Coord
               PROVE  /\ \A k \in Color : x \in bbColor[k] <=> Own(k, cells[x])
                      /\ \A p \in BbIndex : x \in bbPieces[p] <=> p # EmptyCell /\ cells[x] = p
    BY DEF Follow
  <2>1. /\ x \in change <=> x = m.src \/ x = m.dst
        /\ x \in Xor(b.bbColor[c], change) <=> ~(x \in b.bbColor[c] <=> x \in change)
        /\ x \in Xor(b.bbPieces[srcCell], change) <=>
             ~(x \in b.bbPieces[srcCell] <=> x \in change)
    BY XorFacts DEF change
  <2>2. x \in bbColor[c] <=> Own(c, cells[x])
    BY <1>1, <1>2, <1>3, <1>5, <1>7, <2>1 DEF Follow
  <2>3. x \in bbColor[d] <=> Own(d, cells[x])
    BY <1>1, <1>2, <1>3, <1>5, <1>7 DEF Follow
  <2>4. ASSUME NEW p \in BbIndex
        PROVE  x \in bbPieces[p] <=> p # EmptyCell /\ cells[x] = p
    <3>1. x \in b.bbPieces[p] <=> p # EmptyCell /\ b.cells[x] = p
      BY <1>1 DEF Follow
    <3>2. CASE p = srcCell
      BY <1>2, <1>4, <1>5, <1>7, <2>1, <3>1, <3>2
    <3>3. CASE p = dstCell
      BY <1>2, <1>4, <1>5, <1>7, <3>1, <3>3
    <3>4. CASE p \notin {srcCell, dstCell}
      BY <1>2, <1>4, <1>5, <1>7, <3>1, <3>4
    <3> QED
      BY <3>2, <3>3, <3>4
  <2> QED
    BY <1>3, <2>2, <2>3, <2>4
<1>11. hash \in Hash
  BY <1>1, <1>5, <1>6, BoardFields, FreshHashType
<1>12. moved = Moved(b, cells, hash, b.enpassantCoord, bbColor, bbPieces)
  BY <1>1 DEF Board, Moved
<1> HIDE DEF moved
<1>13. /\ moved \in Board /\ BitboardsKept(moved) /\ SameRest(moved, b)
       /\ moved.cells = cells /\ moved.castling = b.castling
       /\ moved.enpassantCoord = b.enpassantCoord /\ moved.hash = hash
  BY <1>1, <1>5, <1>8, <1>10, <1>11, <1>12, BoardFields, Assembled
<1>14. HashKept(moved)
  BY <1>6, <1>13 DEF HashKept, SameRest
<1>15. \A x \in Coord \ change : moved.cells[x] = b.cells[x]
  BY <1>5, <1>13 DEF change
<1> HIDE DEF r
<1>16. /\ r \in Board /\ HashKept(r) /\ FlagsKept(r) /\ SameRest(r, moved)
       /\ r.cells = moved.cells /\ r.enpassantCoord = moved.enpassantCoord
       /\ r.bbColor = moved.bbColor /\ r.bbPieces = moved.bbPieces
  BY <1>1, <1>9, <1>13, <1>14, <1>15, CastlingUpdated DEF Kept
<1>17. BitboardsKept(r)
  BY <1>13, <1>16, BitboardsByCell
<1> QED
  BY <1>13, <1>16, <1>17 DEF Kept, SameRest, cells, r

(* A pawn goes two rows, and may be taken en passant. *)
LEMMA PawnDoubleMoveMade ==
  ASSUME NEW b, Kept(b), b.enpassantCoord = InvalidCoord, NEW m, Makeable(b, m),
         m.kind = "PawnDoubleMove"
  PROVE  LET r == MakePawnDoubleMove(b, m)
         IN  /\ Kept(r) /\ SameRest(r, b) /\ r.enpassantCoord = m.dst
             /\ r.cells = [b.cells EXCEPT ![m.src] = EmptyCell,
                                          ![m.dst] = MakeCell(b.side, Pawn)]
<1> DEFINE c == b.side
           d == Invert(c)
           pawn == MakeCell(c, Pawn)
           change == {m.src, m.dst}
           cells == [b.cells EXCEPT ![m.src] = EmptyCell, ![m.dst] = pawn]
           hash == Xor(Xor(Xor(b.hash, ZPiece(pawn, m.src)), ZPiece(pawn, m.dst)),
                       ZEnpassant(m.dst))
           bbColor == [b.bbColor EXCEPT ![c] = Xor(@, change)]
           bbPieces == [b.bbPieces EXCEPT ![pawn] = Xor(@, change)]
           r == MakePawnDoubleMove(b, m)
<1>1. /\ b \in Board /\ b.cells \in Cells /\ c \in Color
      /\ b.bbColor \in ColorBitboards /\ b.bbPieces \in PieceBitboards
      /\ Follow(b.cells, b.bbColor, b.bbPieces)
  BY BoardFollows DEF Kept
<1>2. /\ m.src \in Coord /\ m.dst \in Coord /\ m.src # m.dst
      /\ b.cells[m.src] = pawn /\ b.cells[m.dst] = EmptyCell
  BY DEF Makeable
<1>3. /\ d # c /\ \A k \in Color : k = c \/ k = d
      /\ ~Own(c, EmptyCell) /\ ~Own(d, EmptyCell) /\ ~Own(d, pawn) /\ Own(c, pawn)
      /\ pawn \in Cell /\ pawn \in BbIndex /\ pawn # EmptyCell
      /\ EmptyCell \in Cell /\ d \in Color
  BY <1>1, Colors, PieceFacts, CellFacts
<1>4. cells \in Cells /\ \A x \in Coord : cells[x] = IF x = m.dst THEN pawn
                                          ELSE IF x = m.src THEN EmptyCell ELSE b.cells[x]
  BY <1>1, <1>2, <1>3 DEF Cells
<1>5. hash = FreshHash(cells, b.side, b.castling, m.dst)
  <2> DEFINE h == Xor(Xor(b.hash, ZPiece(pawn, m.src)), ZPiece(pawn, m.dst))
  <2> HIDE DEF cells
  <2>1. Xor(h, ZPiece(EmptyCell, m.dst)) = h
    BY XorFacts DEF ZPiece
  <2>2. PieceMoved(b.cells, cells, m.src, m.dst, pawn, pawn, EmptyCell)
    BY <1>2, <1>4 DEF PieceMoved
  <2>3. Xor(h, ZPiece(EmptyCell, m.dst)) = FreshHash(cells, b.side, b.castling, InvalidCoord)
    BY <1>1, <2>2, HashOfMove DEF Kept, HashKept
  <2>4. m.dst # InvalidCoord
    BY <1>2 DEF Coord, InvalidCoord
  <2> QED
    BY <2>1, <2>3, <2>4, HashOfEnpassant
<1>6. /\ bbColor[c] = Xor(b.bbColor[c], change) /\ bbColor[d] = b.bbColor[d]
      /\ bbPieces[pawn] = Xor(b.bbPieces[pawn], change)
      /\ \A p \in BbIndex \ {pawn} : bbPieces[p] = b.bbPieces[p]
  BY <1>1, <1>3 DEF ColorBitboards, PieceBitboards
<1>7. bbColor \in ColorBitboards /\ bbPieces \in PieceBitboards
  BY <1>1, <1>2, <1>3 DEF ColorBitboards, PieceBitboards, Bitboard, Xor
<1>8. r = Moved(b, cells, hash, m.dst, bbColor, bbPieces)
  BY <1>1 DEF MakePawnDoubleMove, Moved, Board
<1> HIDE DEF cells, hash, bbColor, bbPieces, c, d, change, pawn, r
<1>9. Follow(cells, bbColor, bbPieces)
  <2> SUFFICES ASSUME NEW x \in Coord
               PROVE  /\ \A k \in Color : x \in bbColor[k] <=> Own(k, cells[x])
                      /\ \A p \in BbIndex : x \in bbPieces[p] <=> p # EmptyCell /\ cells[x] = p
    BY DEF Follow
  <2>1. /\ x \in change <=> x = m.src \/ x = m.dst
        /\ x \in Xor(b.bbColor[c], change) <=> ~(x \in b.bbColor[c] <=> x \in change)
        /\ x \in Xor(b.bbPieces[pawn], change) <=> ~(x \in b.bbPieces[pawn] <=> x \in change)
    BY XorFacts DEF change
  <2>2. x \in bbColor[c] <=> Own(c, cells[x])
    BY <1>1, <1>2, <1>3, <1>4, <1>6, <2>1 DEF Follow
  <2>3. x \in bbColor[d] <=> Own(d, cells[x])
    BY <1>1, <1>2, <1>3, <1>4, <1>6 DEF Follow
  <2>4. ASSUME NEW p \in BbIndex
        PROVE  x \in bbPieces[p] <=> p # EmptyCell /\ cells[x] = p
    <3>1. x \in b.bbPieces[p] <=> p # EmptyCell /\ b.cells[x] = p
      BY <1>1 DEF Follow
    <3>2. CASE p = pawn
      BY <1>2, <1>3, <1>4, <1>6, <2>1, <3>1, <3>2
    <3>3. CASE p # pawn
      BY <1>2, <1>3, <1>4, <1>6, <3>1, <3>3
    <3> QED
      BY <3>2, <3>3
  <2> QED
    BY <1>3, <2>2, <2>3, <2>4
<1>10. hash \in Hash /\ m.dst \in MaybeCoord
  <2>1. m.dst \in MaybeCoord /\ b.castling \in Flags
    BY <1>1, <1>2, BoardFields DEF MaybeCoord
  <2> QED
    BY <1>4, <1>5, <2>1, FreshHashType
<1>11. /\ r \in Board /\ BitboardsKept(r) /\ SameRest(r, b)
       /\ r.cells = cells /\ r.castling = b.castling /\ r.enpassantCoord = m.dst
       /\ r.hash = hash
  BY <1>1, <1>4, <1>7, <1>8, <1>9, <1>10, Assembled
<1>12. \A f \in r.castling : Standing(r.cells, f)
  <2>1. ASSUME NEW f \in b.castling PROVE Standing(cells, f)
    <3>1. f \in CastlingAll /\ Standing(b.cells, f)
      BY <1>1, BoardFields, FlagsStanding DEF Kept, Flags
    <3>2. /\ MakeCell(f[1], King) \notin {pawn, EmptyCell}
          /\ MakeCell(f[1], Rook) \notin {pawn, EmptyCell}
      BY <1>1, <3>1, FlagCells, CellFacts, PieceFacts DEF pawn, c
    <3> QED
      BY <1>2, <1>4, <3>1, <3>2, FlagCells DEF Standing
  <2> QED
    BY <1>11, <2>1
<1> QED
  BY <1>5, <1>11, <1>12, FlagsStanding DEF Kept, HashKept, SameRest, cells, r, c, pawn

(* A pawn reaches the last row, and another piece stands there. *)
LEMMA PromoteMade ==
  ASSUME NEW b, Kept(b), b.enpassantCoord = InvalidCoord, NEW m, Makeable(b, m),
         m.kind \in PromoteKinds
  PROVE  LET r == MakePromote(b, m)
         IN  /\ Kept(r) /\ SameRest(r, b) /\ r.enpassantCoord = InvalidCoord
             /\ r.cells = [b.cells EXCEPT ![m.src] = EmptyCell,
                                          ![m.dst] = MakeCell(b.side, PromotePiece(m.kind))]
<1> DEFINE c == b.side
           d == Invert(c)
           pawn == MakeCell(c, Pawn)
           promote == MakeCell(c, PromotePiece(m.kind))
           srcCell == b.cells[m.src]
           dstCell == b.cells[m.dst]
           change == {m.src, m.dst}
           cells == [b.cells EXCEPT ![m.src] = EmptyCell, ![m.dst] = promote]
           hash == Xor(Xor(Xor(b.hash, ZPiece(srcCell, m.src)), ZPiece(promote, m.dst)),
                       ZPiece(dstCell, m.dst))
           bbColor == [b.bbColor EXCEPT ![c] = Xor(@, change), ![d] = @ \ {m.dst}]
           bbPieces == [b.bbPieces EXCEPT ![pawn] = Xor(@, {m.src}),
                                          ![promote] = Xor(@, {m.dst}),
                                          ![dstCell] = @ \ {m.dst}]
           moved == [b EXCEPT !.cells = cells, !.hash = hash, !.bbColor = bbColor,
                              !.bbPieces = bbPieces]
           r == MakePromote(b, m)
<1>1. /\ b \in Board /\ b.cells \in Cells /\ c \in Color
      /\ b.bbColor \in ColorBitboards /\ b.bbPieces \in PieceBitboards
      /\ Follow(b.cells, b.bbColor, b.bbPieces)
  BY BoardFollows DEF Kept
<1>2. /\ m.src \in Coord /\ m.dst \in Coord /\ m.src # m.dst
      /\ srcCell = pawn /\ ~Own(c, dstCell)
  BY DEF Makeable, PromoteKinds
<1>3. PromotePiece(m.kind) \in Piece /\ PromotePiece(m.kind) # Pawn
  BY DEF PromoteKinds, PromotePiece, Knight, Bishop, Rook, Queen, Pawn, Piece
<1>4. /\ d \in Color /\ d # c /\ \A k \in Color : k = c \/ k = d
      /\ ~Own(c, EmptyCell) /\ ~Own(d, EmptyCell)
      /\ ~Own(d, pawn) /\ Own(c, pawn) /\ ~Own(d, promote) /\ Own(c, promote)
      /\ \A cell : ~(Own(c, cell) /\ Own(d, cell))
  BY <1>1, <1>3, Colors, PieceFacts
<1>5. /\ pawn \in BbIndex /\ promote \in Cell /\ promote \in BbIndex /\ dstCell \in BbIndex
      /\ EmptyCell \in Cell /\ pawn # EmptyCell /\ promote # EmptyCell
      /\ pawn # promote /\ dstCell # pawn /\ dstCell # promote
  BY <1>1, <1>2, <1>3, <1>4, Colors, CellFacts, PieceFacts DEF Cells
<1>6. cells \in Cells /\ \A x \in Coord : cells[x] = IF x = m.dst THEN promote
                                          ELSE IF x = m.src THEN EmptyCell ELSE b.cells[x]
  BY <1>1, <1>2, <1>5 DEF Cells
<1>7. hash = FreshHash(cells, b.side, b.castling, b.enpassantCoord)
  <2>1. PieceMoved(b.cells, cells, m.src, m.dst, srcCell, promote, dstCell)
    BY <1>2, <1>6 DEF PieceMoved
  <2> HIDE DEF cells, srcCell, dstCell
  <2> QED
    BY <1>1, <2>1, HashOfMove DEF Kept, HashKept
<1>8. /\ bbColor[c] = Xor(b.bbColor[c], change)
      /\ bbColor[d] = b.bbColor[d] \ {m.dst}
      /\ bbPieces[pawn] = Xor(b.bbPieces[pawn], {m.src})
      /\ bbPieces[promote] = Xor(b.bbPieces[promote], {m.dst})
      /\ bbPieces[dstCell] = b.bbPieces[dstCell] \ {m.dst}
      /\ \A p \in BbIndex \ {pawn, promote, dstCell} : bbPieces[p] = b.bbPieces[p]
  BY <1>1, <1>4, <1>5 DEF ColorBitboards, PieceBitboards
<1>9. bbColor \in ColorBitboards /\ bbPieces \in PieceBitboards
  BY <1>1, <1>2, <1>4, <1>5 DEF ColorBitboards, PieceBitboards, Bitboard, Xor
<1>10. r = UpdateCastling(moved, change)
  BY ZenonT(60) DEF MakePromote
<1> HIDE DEF cells, hash, bbColor, bbPieces, c, d, change, pawn, promote
<1>11. Follow(cells, bbColor, bbPieces)
  <2> SUFFICES ASSUME NEW x \in Coord
               PROVE  /\ \A k \in Color : x \in bbColor[k] <=> Own(k, cells[x])
                      /\ \A p \in BbIndex : x \in bbPieces[p] <=> p # EmptyCell /\ cells[x] = p
    BY DEF Follow
  <2>1. /\ x \in change <=> x = m.src \/ x = m.dst
        /\ x \in Xor(b.bbColor[c], change) <=> ~(x \in b.bbColor[c] <=> x \in change)
        /\ x \in Xor(b.bbPieces[pawn], {m.src}) <=> ~(x \in b.bbPieces[pawn] <=> x = m.src)
        /\ x \in Xor(b.bbPieces[promote], {m.dst}) <=> ~(x \in b.bbPieces[promote] <=> x = m.dst)
    BY XorFacts DEF change
  <2>2. x \in bbColor[c] <=> Own(c, cells[x])
    BY <1>1, <1>2, <1>4, <1>6, <1>8, <2>1 DEF Follow
  <2>3. x \in bbColor[d] <=> Own(d, cells[x])
    BY <1>1, <1>2, <1>4, <1>6, <1>8 DEF Follow
  <2>4. ASSUME NEW p \in BbIndex
        PROVE  x \in bbPieces[p] <=> p # EmptyCell /\ cells[x] = p
    <3>1. x \in b.bbPieces[p] <=> p # EmptyCell /\ b.cells[x] = p
      BY <1>1 DEF Follow
    <3>2. CASE p = pawn
      BY <1>2, <1>5, <1>6, <1>8, <2>1, <3>1, <3>2
    <3>3. CASE p = promote
      BY <1>2, <1>4, <1>5, <1>6, <1>8, <2>1, <3>1, <3>3
    <3>4. CASE p = dstCell
      BY <1>2, <1>5, <1>6, <1>8, <3>1, <3>4
    <3>5. CASE p \notin {pawn, promote, dstCell}
      BY <1>2, <1>5, <1>6, <1>8, <3>1, <3>5
    <3> QED
      BY <3>2, <3>3, <3>4, <3>5
  <2> QED
    BY <1>4, <2>2, <2>3, <2>4
<1>12. hash \in Hash
  BY <1>1, <1>6, <1>7, BoardFields, FreshHashType
<1>13. moved = Moved(b, cells, hash, b.enpassantCoord, bbColor, bbPieces)
  BY <1>1 DEF Board, Moved
<1> HIDE DEF moved
<1>14. /\ moved \in Board /\ BitboardsKept(moved) /\ SameRest(moved, b)
       /\ moved.cells = cells /\ moved.castling = b.castling
       /\ moved.enpassantCoord = b.enpassantCoord /\ moved.hash = hash
  BY <1>1, <1>6, <1>9, <1>11, <1>12, <1>13, BoardFields, Assembled
<1>15. HashKept(moved)
  BY <1>7, <1>14 DEF HashKept, SameRest
<1>16. \A x \in Coord \ change : moved.cells[x] = b.cells[x]
  BY <1>6, <1>14 DEF change
<1> HIDE DEF r
<1>17. /\ r \in Board /\ HashKept(r) /\ FlagsKept(r) /\ SameRest(r, moved)
       /\ r.cells = moved.cells /\ r.enpassantCoord = moved.enpassantCoord
       /\ r.bbColor = moved.bbColor /\ r.bbPieces = moved.bbPieces
  BY <1>1, <1>10, <1>14, <1>15, <1>16, CastlingUpdated DEF Kept
<1>18. BitboardsKept(r)
  BY <1>14, <1>17, BitboardsByCell
<1> QED
  BY <1>14, <1>17, <1>18 DEF Kept, SameRest, cells, r, c, promote

(* A pawn takes one that stands behind the cell it goes to. *)
LEMMA EnpassantMade ==
  ASSUME NEW b, Kept(b), b.enpassantCoord = InvalidCoord, NEW m, Makeable(b, m),
         m.kind = "Enpassant"
  PROVE  LET r == MakeEnpassant(b, m)
         IN  /\ Kept(r) /\ SameRest(r, b) /\ r.enpassantCoord = InvalidCoord
             /\ r.cells = [b.cells EXCEPT ![m.src] = EmptyCell,
                                          ![m.dst] = MakeCell(b.side, Pawn),
                                          ![EnpassantPawnPos(b.side, m.dst)] = EmptyCell]
<1> DEFINE c == b.side
           d == Invert(c)
           taken == EnpassantPawnPos(c, m.dst)
           ours == MakeCell(c, Pawn)
           theirs == MakeCell(d, Pawn)
           change == {m.src, m.dst}
           gone == [b.cells EXCEPT ![m.src] = EmptyCell, ![m.dst] = ours]
           cells == [b.cells EXCEPT ![m.src] = EmptyCell, ![m.dst] = ours, ![taken] = EmptyCell]
           hash == Xor(Xor(Xor(b.hash, ZPiece(ours, m.src)), ZPiece(ours, m.dst)),
                       ZPiece(theirs, taken))
           bbColor == [b.bbColor EXCEPT ![c] = Xor(@, change), ![d] = Xor(@, {taken})]
           bbPieces == [b.bbPieces EXCEPT ![ours] = Xor(@, change), ![theirs] = Xor(@, {taken})]
           r == MakeEnpassant(b, m)
<1>1. /\ b \in Board /\ b.cells \in Cells /\ c \in Color
      /\ b.bbColor \in ColorBitboards /\ b.bbPieces \in PieceBitboards
      /\ Follow(b.cells, b.bbColor, b.bbPieces)
  BY BoardFollows DEF Kept
<1>2. /\ m.src \in Coord /\ m.dst \in Coord /\ m.src # m.dst /\ taken \in Coord
      /\ b.cells[m.src] = ours /\ b.cells[m.dst] = EmptyCell /\ b.cells[taken] = theirs
  BY DEF Makeable
<1>3. /\ d \in Color /\ d # c /\ \A k \in Color : k = c \/ k = d
      /\ ~Own(c, EmptyCell) /\ ~Own(d, EmptyCell)
      /\ ~Own(d, ours) /\ Own(c, ours) /\ ~Own(c, theirs) /\ Own(d, theirs)
  BY <1>1, Colors, PieceFacts
<1>4. /\ ours \in Cell /\ ours \in BbIndex /\ ours # EmptyCell
      /\ theirs \in Cell /\ theirs \in BbIndex /\ theirs # EmptyCell
      /\ EmptyCell \in Cell /\ ours # theirs
  BY <1>1, <1>3, Colors, PieceFacts, CellFacts
<1>5. taken # m.src /\ taken # m.dst
  BY <1>2, <1>4
<1>6. cells \in Cells /\ \A x \in Coord : cells[x] = IF x = m.dst THEN ours
                                          ELSE IF x = m.src \/ x = taken THEN EmptyCell
                                          ELSE b.cells[x]
  BY <1>1, <1>2, <1>4, <1>5 DEF Cells
<1>7. hash = FreshHash(cells, b.side, b.castling, b.enpassantCoord)
  <2> DEFINE h == Xor(Xor(b.hash, ZPiece(ours, m.src)), ZPiece(ours, m.dst))
             h1 == Xor(h, ZPiece(theirs, taken))
  <2>1. Xor(h, ZPiece(EmptyCell, m.dst)) = h /\ Xor(h1, ZPiece(EmptyCell, taken)) = h1
    BY XorFacts DEF ZPiece
  <2>2. /\ PieceMoved(b.cells, gone, m.src, m.dst, ours, ours, EmptyCell)
        /\ CellPut(gone, cells, taken, theirs, EmptyCell)
    BY <1>1, <1>2, <1>5 DEF Cells, PieceMoved, CellPut
  <2> HIDE DEF gone, cells, taken
  <2>3. Xor(h, ZPiece(EmptyCell, m.dst)) = FreshHash(gone, b.side, b.castling, b.enpassantCoord)
    BY <1>1, <2>2, HashOfMove DEF Kept, HashKept
  <2>4. Xor(Xor(FreshHash(gone, b.side, b.castling, b.enpassantCoord), ZPiece(theirs, taken)),
            ZPiece(EmptyCell, taken))
          = FreshHash(cells, b.side, b.castling, b.enpassantCoord)
    BY <2>2, HashOfCell
  <2> QED
    BY <2>1, <2>3, <2>4
<1>8. /\ bbColor[c] = Xor(b.bbColor[c], change) /\ bbColor[d] = Xor(b.bbColor[d], {taken})
      /\ bbPieces[ours] = Xor(b.bbPieces[ours], change)
      /\ bbPieces[theirs] = Xor(b.bbPieces[theirs], {taken})
      /\ \A p \in BbIndex \ {ours, theirs} : bbPieces[p] = b.bbPieces[p]
  BY <1>1, <1>3, <1>4 DEF ColorBitboards, PieceBitboards
<1>9. bbColor \in ColorBitboards /\ bbPieces \in PieceBitboards
  BY <1>1, <1>2, <1>3, <1>4 DEF ColorBitboards, PieceBitboards, Bitboard, Xor
<1>10. r = Moved(b, cells, hash, b.enpassantCoord, bbColor, bbPieces)
  BY <1>1, ZenonT(60) DEF MakeEnpassant, Moved, Board
<1> HIDE DEF cells, hash, bbColor, bbPieces, c, d, change, ours, theirs, taken, r
<1>11. Follow(cells, bbColor, bbPieces)
  <2> SUFFICES ASSUME NEW x \in Coord
               PROVE  /\ \A k \in Color : x \in bbColor[k] <=> Own(k, cells[x])
                      /\ \A p \in BbIndex : x \in bbPieces[p] <=> p # EmptyCell /\ cells[x] = p
    BY DEF Follow
  <2>1. /\ x \in change <=> x = m.src \/ x = m.dst
        /\ x \in Xor(b.bbColor[c], change) <=> ~(x \in b.bbColor[c] <=> x \in change)
        /\ x \in Xor(b.bbColor[d], {taken}) <=> ~(x \in b.bbColor[d] <=> x = taken)
        /\ x \in Xor(b.bbPieces[ours], change) <=> ~(x \in b.bbPieces[ours] <=> x \in change)
        /\ x \in Xor(b.bbPieces[theirs], {taken}) <=> ~(x \in b.bbPieces[theirs] <=> x = taken)
    BY XorFacts DEF change
  <2>2. x \in bbColor[c] <=> Own(c, cells[x])
    BY <1>1, <1>2, <1>3, <1>6, <1>8, <2>1 DEF Follow
  <2>3. x \in bbColor[d] <=> Own(d, cells[x])
    BY <1>1, <1>2, <1>3, <1>6, <1>8, <2>1 DEF Follow
  <2>4. ASSUME NEW p \in BbIndex
        PROVE  x \in bbPieces[p] <=> p # EmptyCell /\ cells[x] = p
    <3>1. x \in b.bbPieces[p] <=> p # EmptyCell /\ b.cells[x] = p
      BY <1>1 DEF Follow
    <3>2. CASE p = ours
      BY <1>2, <1>4, <1>6, <1>8, <2>1, <3>1, <3>2
    <3>3. CASE p = theirs
      BY <1>2, <1>4, <1>5, <1>6, <1>8, <2>1, <3>1, <3>3
    <3>4. CASE p \notin {ours, theirs}
      BY <1>2, <1>4, <1>6, <1>8, <3>1, <3>4
    <3> QED
      BY <3>2, <3>3, <3>4
  <2> QED
    BY <1>3, <2>2, <2>3, <2>4
<1>12. hash \in Hash /\ b.enpassantCoord \in MaybeCoord /\ b.castling \in Flags
  BY <1>1, <1>6, <1>7, BoardFields, FreshHashType
<1>13. /\ r \in Board /\ BitboardsKept(r) /\ SameRest(r, b)
       /\ r.cells = cells /\ r.castling = b.castling
       /\ r.enpassantCoord = b.enpassantCoord /\ r.hash = hash
  BY <1>1, <1>6, <1>9, <1>10, <1>11, <1>12, Assembled
<1>14. \A f \in r.castling : Standing(r.cells, f)
  <2>1. ASSUME NEW f \in b.castling PROVE Standing(cells, f)
    <3>1. f \in CastlingAll /\ Standing(b.cells, f)
      BY <1>1, <1>12, FlagsStanding DEF Kept, Flags
    <3>2. /\ MakeCell(f[1], King) \notin {ours, theirs, EmptyCell}
          /\ MakeCell(f[1], Rook) \notin {ours, theirs, EmptyCell}
      BY <1>1, <1>3, <3>1, FlagCells, CellFacts, PieceFacts DEF ours, theirs
    <3> QED
      BY <1>2, <1>6, <3>1, <3>2, FlagCells DEF Standing
  <2> QED
    BY <1>13, <2>1
<1> QED
  BY <1>7, <1>13, <1>14, FlagsStanding
     DEF Kept, HashKept, SameRest, cells, r, c, ours, taken

(* The cells of a castling. *)
LEMMA CastlingCells ==
  ASSUME NEW c \in Color
  PROVE  LET o == CastlingOffset(c)
         IN  /\ o = 0 \/ o = 56
             /\ \A s \in {Kingside, Queenside} : <<c, s>> \in CastlingAll
             /\ \A s \in {Kingside, Queenside} : KingCell(<<c, s>>) = o + 4
             /\ RookCell(<<c, Kingside>>) = o + 7 /\ RookCell(<<c, Queenside>>) = o
             /\ \A f \in CastlingAll \ CastlingOf(c) : \A k \in 0..7 :
                  KingCell(f) # o + k /\ RookCell(f) # o + k
<1>1. /\ \A s \in {Kingside, Queenside} : <<c, s>> \in CastlingAll
      /\ \A s : <<c, s>>[1] = c /\ <<c, s>>[2] = s
      /\ Kingside # Queenside
  BY DEF CastlingAll, Kingside, Queenside
<1>2. /\ CastlingOffset(c) = 0 \/ CastlingOffset(c) = 56
      /\ \A s \in {Kingside, Queenside} : KingCell(<<c, s>>) = CastlingOffset(c) + 4
      /\ RookCell(<<c, Kingside>>) = CastlingOffset(c) + 7
      /\ RookCell(<<c, Queenside>>) = CastlingOffset(c)
  BY <1>1 DEF Color, White, Black, CastlingOffset, CastlingRow, Coord, KingCell, RookCell,
              MakeCoord
<1>3. ASSUME NEW f \in CastlingAll \ CastlingOf(c), NEW k \in 0..7
      PROVE  KingCell(f) # CastlingOffset(c) + k /\ RookCell(f) # CastlingOffset(c) + k
  <2>1. f[1] \in Color /\ f[1] # c
    BY <1>3, FlagCells DEF CastlingOf
  <2> QED
    BY <2>1 DEF Color, White, Black, CastlingOffset, CastlingRow, KingCell, RookCell, MakeCoord
<1> QED
  BY <1>1, <1>2, <1>3

(* The king goes from kf to kt and the rook from rf to rt: everything but the flags. *)
CanCastle(b, kf, kt, rf, rt) ==
  /\ kf \in Coord /\ kt \in Coord /\ rf \in Coord /\ rt \in Coord
  /\ kf # kt /\ kf # rf /\ kf # rt /\ kt # rf /\ kt # rt /\ rf # rt
  /\ b.cells[kf] = MakeCell(b.side, King) /\ b.cells[rf] = MakeCell(b.side, Rook)
  /\ b.cells[kt] = EmptyCell /\ b.cells[rt] = EmptyCell

CastledCells(b, kf, kt, rf, rt) ==
  [b.cells EXCEPT ![kf] = EmptyCell, ![kt] = MakeCell(b.side, King),
                  ![rf] = EmptyCell, ![rt] = MakeCell(b.side, Rook)]
CastledKeys(c, kf, kt, rf, rt) ==
  {<<"piece", MakeCell(c, King), kf>>, <<"piece", MakeCell(c, King), kt>>,
   <<"piece", MakeCell(c, Rook), rf>>, <<"piece", MakeCell(c, Rook), rt>>}
CastledColor(b, kf, kt, rf, rt) == [b.bbColor EXCEPT ![b.side] = Xor(@, {kf, kt, rf, rt})]
CastledPieces(b, kf, kt, rf, rt) ==
  [b.bbPieces EXCEPT ![MakeCell(b.side, Rook)] = Xor(@, {rf, rt}),
                     ![MakeCell(b.side, King)] = Xor(@, {kf, kt})]

(* Cells, bitboards and keys of the king and the rook that change places. *)
LEMMA CastlingMoves ==
  ASSUME NEW b, Kept(b), NEW kf, NEW kt, NEW rf, NEW rt, CanCastle(b, kf, kt, rf, rt)
  PROVE  LET cells == CastledCells(b, kf, kt, rf, rt)
             hash == Xor(b.hash, CastledKeys(b.side, kf, kt, rf, rt))
             bbColor == CastledColor(b, kf, kt, rf, rt)
             bbPieces == CastledPieces(b, kf, kt, rf, rt)
         IN  /\ cells \in Cells /\ bbColor \in ColorBitboards /\ bbPieces \in PieceBitboards
             /\ hash = FreshHash(cells, b.side, b.castling, b.enpassantCoord)
             /\ hash \in Hash /\ Follow(cells, bbColor, bbPieces)
<1> USE DEF CanCastle
<1> DEFINE c == b.side
           d == Invert(c)
           king == MakeCell(c, King)
           rook == MakeCell(c, Rook)
           change == {kf, kt, rf, rt}
           cells == CastledCells(b, kf, kt, rf, rt)
           keys == CastledKeys(b.side, kf, kt, rf, rt)
           bbColor == CastledColor(b, kf, kt, rf, rt)
           bbPieces == CastledPieces(b, kf, kt, rf, rt)
           gone == [b.cells EXCEPT ![kf] = EmptyCell, ![kt] = king]
           h == Xor(Xor(b.hash, ZPiece(king, kf)), ZPiece(king, kt))
           h1 == Xor(Xor(h, ZPiece(rook, rf)), ZPiece(rook, rt))
<1>1. /\ b \in Board /\ b.cells \in Cells /\ c \in Color /\ b.castling \in Flags
      /\ b.enpassantCoord \in MaybeCoord
      /\ b.bbColor \in ColorBitboards /\ b.bbPieces \in PieceBitboards
      /\ Follow(b.cells, b.bbColor, b.bbPieces)
  BY BoardFollows, BoardFields DEF Kept
<1>2. /\ d # c /\ \A k \in Color : k = c \/ k = d
      /\ ~Own(c, EmptyCell) /\ ~Own(d, EmptyCell)
      /\ Own(c, king) /\ ~Own(d, king) /\ Own(c, rook) /\ ~Own(d, rook) /\ d \in Color
  BY <1>1, Colors, PieceFacts
<1>3. /\ king \in Cell /\ king \in BbIndex /\ king # EmptyCell
      /\ rook \in Cell /\ rook \in BbIndex /\ rook # EmptyCell
      /\ king # rook /\ EmptyCell \in Cell
  BY <1>1, Colors, PieceFacts, CellFacts
<1>4. cells \in Cells /\ \A x \in Coord : cells[x] = IF x = kt THEN king
                                          ELSE IF x = rt THEN rook
                                          ELSE IF x = kf \/ x = rf THEN EmptyCell
                                          ELSE b.cells[x]
  BY <1>1, <1>3 DEF Cells, CastledCells
<1>5. /\ bbColor[c] = Xor(b.bbColor[c], change) /\ bbColor[d] = b.bbColor[d]
      /\ bbPieces[rook] = Xor(b.bbPieces[rook], {rf, rt})
      /\ bbPieces[king] = Xor(b.bbPieces[king], {kf, kt})
      /\ \A p \in BbIndex \ {king, rook} : bbPieces[p] = b.bbPieces[p]
  BY <1>1, <1>2, <1>3 DEF ColorBitboards, PieceBitboards, CastledColor, CastledPieces
<1>6. bbColor \in ColorBitboards /\ bbPieces \in PieceBitboards
  <2>1. Xor(b.bbColor[c], change) \in Bitboard
    BY <1>1 DEF ColorBitboards, Bitboard, Xor
  <2>2. /\ Xor(b.bbPieces[rook], {rf, rt}) \in Bitboard
        /\ Xor(b.bbPieces[king], {kf, kt}) \in Bitboard
    BY <1>1, <1>3 DEF PieceBitboards, Bitboard, Xor
  <2> QED
    BY <1>1, <1>3, <2>1, <2>2 DEF ColorBitboards, PieceBitboards, CastledColor, CastledPieces
<1>7. Xor(b.hash, keys) = h1
  <2>1. /\ ZPiece(king, kf) = {<<"piece", king, kf>>} /\ ZPiece(king, kt) = {<<"piece", king, kt>>}
        /\ ZPiece(rook, rf) = {<<"piece", rook, rf>>} /\ ZPiece(rook, rt) = {<<"piece", rook, rt>>}
    BY <1>3 DEF ZPiece
  <2> DEFINE k1 == <<"piece", king, kf>>
             k2 == <<"piece", king, kt>>
             k3 == <<"piece", rook, rf>>
             k4 == <<"piece", rook, rt>>
  <2>2. k1 # k2 /\ k1 # k3 /\ k1 # k4 /\ k2 # k3 /\ k2 # k4 /\ k3 # k4
    OBVIOUS
  <2>3. keys = {k1, k2, k3, k4}
    BY DEF CastledKeys
  <2> HIDE DEF k1, k2, k3, k4
  <2>4. ASSUME NEW e
        PROVE  e \in Xor(b.hash, keys) <=>
                 e \in Xor(Xor(Xor(Xor(b.hash, {k1}), {k2}), {k3}), {k4})
    BY <2>2, <2>3 DEF Xor
  <2>5. Xor(b.hash, keys) = Xor(Xor(Xor(Xor(b.hash, {k1}), {k2}), {k3}), {k4})
    BY <2>4
  <2> QED
    BY <2>1, <2>5 DEF k1, k2, k3, k4
<1>8. h1 = FreshHash(cells, b.side, b.castling, b.enpassantCoord)
  <2>1. Xor(h, ZPiece(EmptyCell, kt)) = h /\ Xor(h1, ZPiece(EmptyCell, rt)) = h1
    BY XorFacts DEF ZPiece
  <2>2. /\ gone \in Cells
        /\ PieceMoved(b.cells, gone, kf, kt, king, king, EmptyCell)
        /\ PieceMoved(gone, cells, rf, rt, rook, rook, EmptyCell)
    BY <1>1, <1>3, <1>4 DEF Cells, PieceMoved
  <2> HIDE DEF gone
  <2>3. Xor(h, ZPiece(EmptyCell, kt)) = FreshHash(gone, b.side, b.castling, b.enpassantCoord)
    BY <1>1, <2>2, HashOfMove DEF Kept, HashKept
  <2>4. Xor(Xor(Xor(FreshHash(gone, b.side, b.castling, b.enpassantCoord), ZPiece(rook, rf)),
                ZPiece(rook, rt)), ZPiece(EmptyCell, rt))
          = FreshHash(cells, b.side, b.castling, b.enpassantCoord)
    BY <2>2, HashOfMove
  <2> QED
    BY <2>1, <2>3, <2>4
<1>9. Xor(b.hash, keys) \in Hash
  BY <1>1, <1>4, <1>7, <1>8, FreshHashType
<1>10. Follow(cells, bbColor, bbPieces)
  <2> HIDE DEF c, d, king, rook, change
  <2> SUFFICES ASSUME NEW x \in Coord
               PROVE  /\ \A k \in Color : x \in bbColor[k] <=> Own(k, cells[x])
                      /\ \A p \in BbIndex : x \in bbPieces[p] <=> p # EmptyCell /\ cells[x] = p
    BY DEF Follow
  <2>1. /\ x \in change <=> x = kf \/ x = kt \/ x = rf \/ x = rt
        /\ x \in Xor(b.bbColor[c], change) <=> ~(x \in b.bbColor[c] <=> x \in change)
        /\ x \in Xor(b.bbPieces[king], {kf, kt}) <=> ~(x \in b.bbPieces[king] <=> x = kf \/ x = kt)
        /\ x \in Xor(b.bbPieces[rook], {rf, rt}) <=> ~(x \in b.bbPieces[rook] <=> x = rf \/ x = rt)
    BY XorFacts DEF change
  <2>2. x \in bbColor[c] <=> Own(c, cells[x])
    BY <1>1, <1>2, <1>4, <1>5, <2>1 DEF Follow, king, rook, c
  <2>3. x \in bbColor[d] <=> Own(d, cells[x])
    BY <1>1, <1>2, <1>4, <1>5 DEF Follow, king, rook, c
  <2>4. ASSUME NEW p \in BbIndex
        PROVE  x \in bbPieces[p] <=> p # EmptyCell /\ cells[x] = p
    <3>1. x \in b.bbPieces[p] <=> p # EmptyCell /\ b.cells[x] = p
      BY <1>1 DEF Follow
    <3>2. /\ b.cells[kf] = king /\ b.cells[rf] = rook
          /\ b.cells[kt] = EmptyCell /\ b.cells[rt] = EmptyCell
      BY DEF king, rook, c
    <3>3. CASE p = king
      BY <1>3, <1>4, <1>5, <2>1, <3>1, <3>2, <3>3
    <3>4. CASE p = rook
      BY <1>3, <1>4, <1>5, <2>1, <3>1, <3>2, <3>4
    <3>5. CASE p \notin {king, rook}
      BY <1>3, <1>4, <1>5, <3>1, <3>2, <3>5
    <3> QED
      BY <3>3, <3>4, <3>5
  <2> QED
    BY <1>2, <2>2, <2>3, <2>4
<1> QED
  BY <1>4, <1>6, <1>7, <1>8, <1>9, <1>10

(* The king changes places with what was between it and the rook, and the rook
   goes to its other side; the flags of the colour go. *)
LEMMA KingsideMade ==
  ASSUME NEW b, Kept(b), b.enpassantCoord = InvalidCoord, NEW m, Makeable(b, m),
         m.kind = "CastlingKingside"
  PROVE  LET r == MakeKingside(b)
             o == CastlingOffset(b.side)
         IN  /\ Kept(r) /\ SameRest(r, b) /\ r.enpassantCoord = InvalidCoord
             /\ r.cells = [b.cells EXCEPT ![o + 4] = EmptyCell,
                                          ![o + 6] = MakeCell(b.side, King),
                                          ![o + 7] = EmptyCell,
                                          ![o + 5] = MakeCell(b.side, Rook)]
<1> DEFINE c == b.side
           o == CastlingOffset(c)
           king == MakeCell(c, King)
           rook == MakeCell(c, Rook)
           cells == [b.cells EXCEPT ![o + 4] = EmptyCell, ![o + 6] = king,
                                    ![o + 7] = EmptyCell, ![o + 5] = rook]
           keys == ZKingside(c)
           hash == Xor(b.hash, keys)
           bbColor == [b.bbColor EXCEPT ![c] = Xor(@, {o + 4, o + 5, o + 6, o + 7})]
           bbPieces == [b.bbPieces EXCEPT ![rook] = Xor(@, {o + 5, o + 7}),
                                          ![king] = Xor(@, {o + 4, o + 6})]
           moved == Moved(b, cells, hash, b.enpassantCoord, bbColor, bbPieces)
           flags == b.castling \ CastlingOf(c)
           r == MakeKingside(b)
<1>1. /\ b \in Board /\ b.cells \in Cells /\ c \in Color /\ b.castling \in Flags
      /\ b.enpassantCoord \in MaybeCoord
  BY BoardFields DEF Kept
<1>2. /\ o \in Int /\ o \in Coord /\ o + 2 \in Coord /\ o + 3 \in Coord /\ o + 4 \in Coord
      /\ o + 5 \in Coord /\ o + 6 \in Coord /\ o + 7 \in Coord
  <2>1. o = 0 \/ o = 56
    BY <1>1, CastlingCells
  <2> QED
    BY <2>1 DEF Coord
<1>3. /\ b.cells[o + 4] = king /\ b.cells[o + 7] = rook
      /\ b.cells[o + 6] = EmptyCell /\ b.cells[o + 5] = EmptyCell
  <2>1. <<c, Kingside>> \in b.castling
    BY DEF Makeable
  <2>2. Standing(b.cells, <<c, Kingside>>)
    BY <2>1, FlagsStanding DEF Kept
  <2>3. KingCell(<<c, Kingside>>) = o + 4 /\ RookCell(<<c, Kingside>>) = o + 7
    BY <1>1, CastlingCells
  <2>4. b.cells[o + 4] = king /\ b.cells[o + 7] = rook
    BY <2>2, <2>3 DEF Standing
  <2> QED
    BY <2>4 DEF Makeable
<1>4. /\ cells \in Cells /\ bbColor \in ColorBitboards /\ bbPieces \in PieceBitboards
      /\ hash = FreshHash(cells, b.side, b.castling, b.enpassantCoord)
      /\ hash \in Hash /\ Follow(cells, bbColor, bbPieces)
  <2>1. CanCastle(b, o + 4, o + 6, o + 7, o + 5)
    BY <1>2, <1>3 DEF CanCastle
  <2>2. keys = CastledKeys(c, o + 4, o + 6, o + 7, o + 5)
    BY DEF ZKingside, CastledKeys
  <2>3. cells = CastledCells(b, o + 4, o + 6, o + 7, o + 5)
    BY DEF CastledCells
  <2>4. {o + 4, o + 5, o + 6, o + 7} = {o + 4, o + 6, o + 7, o + 5}
    OBVIOUS
  <2>5. bbColor = CastledColor(b, o + 4, o + 6, o + 7, o + 5)
    BY <2>4 DEF CastledColor
  <2>6. {o + 5, o + 7} = {o + 7, o + 5} /\ {o + 4, o + 6} = {o + 4, o + 6}
    OBVIOUS
  <2>7. bbPieces = CastledPieces(b, o + 4, o + 6, o + 7, o + 5)
    BY <2>6 DEF CastledPieces
  <2> HIDE DEF cells, keys, bbColor, bbPieces, c, o
  <2> QED
    BY <2>1, <2>2, <2>3, <2>5, <2>7, CastlingMoves DEF c
<1>5. \A x \in Coord : cells[x] = IF x = o + 6 THEN king ELSE IF x = o + 5 THEN rook
                                  ELSE IF x = o + 4 \/ x = o + 7 THEN EmptyCell ELSE b.cells[x]
  BY <1>1, <1>2 DEF Cells
<1>6. r = SetCastling(moved, flags)
  <2> DEFINE same == [b.cells EXCEPT ![o + 4] = EmptyCell, ![o + 5] = rook, ![o + 6] = king, ![o + 7] = EmptyCell]
  <2>1. same = cells
    BY <1>1, <1>2 DEF Cells
  <2>2. r = SetCastling([b EXCEPT !.cells = same, !.hash = hash, !.bbColor = bbColor,
                                  !.bbPieces = bbPieces], flags)
    BY ZenonT(60) DEF MakeKingside
  <2> HIDE DEF same, cells, hash, bbColor, bbPieces, flags, r
  <2>3. [b EXCEPT !.cells = cells, !.hash = hash, !.bbColor = bbColor, !.bbPieces = bbPieces] = moved
    BY <1>1 DEF Board, Moved
  <2> QED
    BY <2>1, <2>2, <2>3
<1> HIDE DEF cells, hash, bbColor, bbPieces
<1>7. /\ moved \in Board /\ BitboardsKept(moved) /\ SameRest(moved, b)
      /\ moved.cells = cells /\ moved.castling = b.castling
      /\ moved.enpassantCoord = b.enpassantCoord /\ moved.hash = hash
  BY <1>1, <1>4, Assembled
<1> HIDE DEF moved
<1>8. HashKept(moved) /\ flags \in Flags
  BY <1>1, <1>4, <1>7 DEF HashKept, SameRest, Flags
<1> HIDE DEF r
<1>9. /\ r \in Board /\ HashKept(r) /\ SameRest(r, moved)
      /\ r.cells = moved.cells /\ r.enpassantCoord = moved.enpassantCoord
      /\ r.castling = flags /\ r.bbColor = moved.bbColor /\ r.bbPieces = moved.bbPieces
  BY <1>6, <1>7, <1>8, CastlingSet
<1>10. FlagsKept(r)
  <2>1. ASSUME NEW f \in flags PROVE Standing(cells, f)
    <3>1. f \in CastlingAll \ CastlingOf(c) /\ Standing(b.cells, f)
      BY <1>1, FlagsStanding DEF Kept, Flags
    <3>2. /\ KingCell(f) \in Coord /\ RookCell(f) \in Coord
          /\ \A k \in 0..7 : KingCell(f) # o + k /\ RookCell(f) # o + k
      BY <1>1, <3>1, FlagCells, CastlingCells
    <3>3. /\ KingCell(f) \notin {o + 4, o + 6, o + 7, o + 5}
          /\ RookCell(f) \notin {o + 4, o + 6, o + 7, o + 5}
      BY <1>2, <3>2
    <3>4. cells[KingCell(f)] = b.cells[KingCell(f)] /\ cells[RookCell(f)] = b.cells[RookCell(f)]
      BY <1>5, <3>2, <3>3
    <3> QED
      BY <3>1, <3>4 DEF Standing
  <2> QED
    BY <1>7, <1>9, <2>1, FlagsStanding
<1>11. BitboardsKept(r)
  BY <1>7, <1>9, BitboardsByCell
<1> QED
  BY <1>7, <1>9, <1>10, <1>11 DEF Kept, SameRest, cells, r, c, o, king, rook

(* Castling on the queen's side keeps everything derived up to date. *)
LEMMA QueensideMade ==
  ASSUME NEW b, Kept(b), b.enpassantCoord = InvalidCoord, NEW m, Makeable(b, m),
         m.kind = "CastlingQueenside"
  PROVE  LET r == MakeQueenside(b)
             o == CastlingOffset(b.side)
         IN  /\ Kept(r) /\ SameRest(r, b) /\ r.enpassantCoord = InvalidCoord
             /\ r.cells = [b.cells EXCEPT ![o + 4] = EmptyCell,
                                          ![o + 2] = MakeCell(b.side, King),
                                          ![o] = EmptyCell,
                                          ![o + 3] = MakeCell(b.side, Rook)]
<1> DEFINE c == b.side
           o == CastlingOffset(c)
           king == MakeCell(c, King)
           rook == MakeCell(c, Rook)
           cells == [b.cells EXCEPT ![o + 4] = EmptyCell, ![o + 2] = king,
                                    ![o] = EmptyCell, ![o + 3] = rook]
           keys == ZQueenside(c)
           hash == Xor(b.hash, keys)
           bbColor == [b.bbColor EXCEPT ![c] = Xor(@, {o, o + 2, o + 3, o + 4})]
           bbPieces == [b.bbPieces EXCEPT ![rook] = Xor(@, {o, o + 3}),
                                          ![king] = Xor(@, {o + 2, o + 4})]
           moved == Moved(b, cells, hash, b.enpassantCoord, bbColor, bbPieces)
           flags == b.castling \ CastlingOf(c)
           r == MakeQueenside(b)
<1>1. /\ b \in Board /\ b.cells \in Cells /\ c \in Color /\ b.castling \in Flags
      /\ b.enpassantCoord \in MaybeCoord
  BY BoardFields DEF Kept
<1>2. /\ o \in Int /\ o \in Coord /\ o + 2 \in Coord /\ o + 3 \in Coord /\ o + 4 \in Coord
      /\ o + 5 \in Coord /\ o + 6 \in Coord /\ o + 7 \in Coord
  <2>1. o = 0 \/ o = 56
    BY <1>1, CastlingCells
  <2> QED
    BY <2>1 DEF Coord
<1>3. /\ b.cells[o + 4] = king /\ b.cells[o] = rook
      /\ b.cells[o + 2] = EmptyCell /\ b.cells[o + 3] = EmptyCell
  <2>1. <<c, Queenside>> \in b.castling
    BY DEF Makeable
  <2>2. Standing(b.cells, <<c, Queenside>>)
    BY <2>1, FlagsStanding DEF Kept
  <2>3. KingCell(<<c, Queenside>>) = o + 4 /\ RookCell(<<c, Queenside>>) = o
    BY <1>1, CastlingCells
  <2>4. b.cells[o + 4] = king /\ b.cells[o] = rook
    BY <2>2, <2>3 DEF Standing
  <2> QED
    BY <2>4 DEF Makeable
<1>4. /\ cells \in Cells /\ bbColor \in ColorBitboards /\ bbPieces \in PieceBitboards
      /\ hash = FreshHash(cells, b.side, b.castling, b.enpassantCoord)
      /\ hash \in Hash /\ Follow(cells, bbColor, bbPieces)
  <2>1. CanCastle(b, o + 4, o + 2, o, o + 3)
    BY <1>2, <1>3 DEF CanCastle
  <2>2. keys = CastledKeys(c, o + 4, o + 2, o, o + 3)
    BY DEF ZQueenside, CastledKeys
  <2>3. cells = CastledCells(b, o + 4, o + 2, o, o + 3)
    BY DEF CastledCells
  <2>4. {o, o + 2, o + 3, o + 4} = {o + 4, o + 2, o, o + 3}
    OBVIOUS
  <2>5. bbColor = CastledColor(b, o + 4, o + 2, o, o + 3)
    BY <2>4 DEF CastledColor
  <2>6. {o, o + 3} = {o, o + 3} /\ {o + 2, o + 4} = {o + 4, o + 2}
    OBVIOUS
  <2>7. bbPieces = CastledPieces(b, o + 4, o + 2, o, o + 3)
    BY <2>6 DEF CastledPieces
  <2> HIDE DEF cells, keys, bbColor, bbPieces, c, o
  <2> QED
    BY <2>1, <2>2, <2>3, <2>5, <2>7, CastlingMoves DEF c
<1>5. \A x \in Coord : cells[x] = IF x = o + 2 THEN king ELSE IF x = o + 3 THEN rook
                                  ELSE IF x = o + 4 \/ x = o THEN EmptyCell ELSE b.cells[x]
  BY <1>1, <1>2 DEF Cells
<1>6. r = SetCastling(moved, flags)
  <2> DEFINE same == [b.cells EXCEPT ![o] = EmptyCell, ![o + 2] = king, ![o + 3] = rook, ![o + 4] = EmptyCell]
  <2>1. same = cells
    BY <1>1, <1>2 DEF Cells
  <2>2. r = SetCastling([b EXCEPT !.cells = same, !.hash = hash, !.bbColor = bbColor,
                                  !.bbPieces = bbPieces], flags)
    BY ZenonT(60) DEF MakeQueenside
  <2> HIDE DEF same, cells, hash, bbColor, bbPieces, flags, r
  <2>3. [b EXCEPT !.cells = cells, !.hash = hash, !.bbColor = bbColor, !.bbPieces = bbPieces] = moved
    BY <1>1 DEF Board, Moved
  <2> QED
    BY <2>1, <2>2, <2>3
<1> HIDE DEF cells, hash, bbColor, bbPieces
<1>7. /\ moved \in Board /\ BitboardsKept(moved) /\ SameRest(moved, b)
      /\ moved.cells = cells /\ moved.castling = b.castling
      /\ moved.enpassantCoord = b.enpassantCoord /\ moved.hash = hash
  BY <1>1, <1>4, Assembled
<1> HIDE DEF moved
<1>8. HashKept(moved) /\ flags \in Flags
  BY <1>1, <1>4, <1>7 DEF HashKept, SameRest, Flags
<1> HIDE DEF r
<1>9. /\ r \in Board /\ HashKept(r) /\ SameRest(r, moved)
      /\ r.cells = moved.cells /\ r.enpassantCoord = moved.enpassantCoord
      /\ r.castling = flags /\ r.bbColor = moved.bbColor /\ r.bbPieces = moved.bbPieces
  BY <1>6, <1>7, <1>8, CastlingSet
<1>10. FlagsKept(r)
  <2>1. ASSUME NEW f \in flags PROVE Standing(cells, f)
    <3>1. f \in CastlingAll \ CastlingOf(c) /\ Standing(b.cells, f)
      BY <1>1, FlagsStanding DEF Kept, Flags
    <3>2. /\ KingCell(f) \in Coord /\ RookCell(f) \in Coord
          /\ \A k \in 0..7 : KingCell(f) # o + k /\ RookCell(f) # o + k
      BY <1>1, <3>1, FlagCells, CastlingCells
    <3>3. /\ KingCell(f) \notin {o + 4, o + 2, o, o + 3}
          /\ RookCell(f) \notin {o + 4, o + 2, o, o + 3}
      BY <1>2, <3>2
    <3>4. cells[KingCell(f)] = b.cells[KingCell(f)] /\ cells[RookCell(f)] = b.cells[RookCell(f)]
      BY <1>5, <3>2, <3>3
    <3> QED
      BY <3>1, <3>4 DEF Standing
  <2> QED
    BY <1>7, <1>9, <2>1, FlagsStanding
<1>11. BitboardsKept(r)
  BY <1>7, <1>9, BitboardsByCell
<1> QED
  BY <1>7, <1>9, <1>10, <1>11 DEF Kept, SameRest, cells, r, c, o, king, rook

(* What a move leaves on the cells. *)
CellsMoved(b, m, cells) ==
  LET c == b.side
      o == CastlingOffset(c)
  IN  /\ m.kind = "Simple" =>
           cells = [b.cells EXCEPT ![m.src] = EmptyCell, ![m.dst] = b.cells[m.src]]
      /\ m.kind = "PawnDoubleMove" =>
           cells = [b.cells EXCEPT ![m.src] = EmptyCell, ![m.dst] = MakeCell(c, Pawn)]
      /\ m.kind \in PromoteKinds =>
           cells = [b.cells EXCEPT ![m.src] = EmptyCell,
                                   ![m.dst] = MakeCell(c, PromotePiece(m.kind))]
      /\ m.kind = "CastlingKingside" =>
           cells = [b.cells EXCEPT ![o + 4] = EmptyCell, ![o + 6] = MakeCell(c, King),
                                   ![o + 7] = EmptyCell, ![o + 5] = MakeCell(c, Rook)]
      /\ m.kind = "CastlingQueenside" =>
           cells = [b.cells EXCEPT ![o + 4] = EmptyCell, ![o + 2] = MakeCell(c, King),
                                   ![o] = EmptyCell, ![o + 3] = MakeCell(c, Rook)]
      /\ m.kind = "Enpassant" =>
           cells = [b.cells EXCEPT ![m.src] = EmptyCell, ![m.dst] = MakeCell(c, Pawn),
                                   ![EnpassantPawnPos(c, m.dst)] = EmptyCell]
      /\ m.kind = "Null" => cells = b.cells

(* Whatever the kind of the move, what is derived from the cells is kept. *)
LEMMA PiecesMoved ==
  ASSUME NEW b, Kept(b), b.enpassantCoord = InvalidCoord, NEW m, Makeable(b, m)
  PROVE  LET r == MovePieces(b, m)
         IN  /\ Kept(r) /\ SameRest(r, b) /\ CellsMoved(b, m, r.cells)
             /\ r.enpassantCoord = IF m.kind = "PawnDoubleMove" THEN m.dst ELSE InvalidCoord
<1> DEFINE r == MovePieces(b, m)
<1>1. CASE m.kind = "Simple"
  <2>1. r = MakeSimple(b, m)
    BY <1>1 DEF MovePieces, PromoteKinds
  <2> HIDE DEF r
  <2> QED
    BY <1>1, <2>1, SimpleMade DEF CellsMoved, PromoteKinds, r
<1>2. CASE m.kind = "PawnDoubleMove"
  <2>1. r = MakePawnDoubleMove(b, m)
    BY <1>2 DEF MovePieces, PromoteKinds
  <2> HIDE DEF r
  <2> QED
    BY <1>2, <2>1, PawnDoubleMoveMade DEF CellsMoved, PromoteKinds, r
<1>3. CASE m.kind \in PromoteKinds
  <2>1. r = MakePromote(b, m)
    BY <1>3 DEF MovePieces, PromoteKinds
  <2> HIDE DEF r
  <2> QED
    BY <1>3, <2>1, PromoteMade DEF CellsMoved, PromoteKinds, r
<1>4. CASE m.kind = "CastlingKingside"
  <2>1. r = MakeKingside(b)
    BY <1>4 DEF MovePieces, PromoteKinds
  <2> HIDE DEF r
  <2> QED
    BY <1>4, <2>1, KingsideMade DEF CellsMoved, PromoteKinds, r
<1>5. CASE m.kind = "CastlingQueenside"
  <2>1. r = MakeQueenside(b)
    BY <1>5 DEF MovePieces, PromoteKinds
  <2> HIDE DEF r
  <2> QED
    BY <1>5, <2>1, QueensideMade DEF CellsMoved, PromoteKinds, r
<1>6. CASE m.kind = "Enpassant"
  <2>1. r = MakeEnpassant(b, m)
    BY <1>6 DEF MovePieces, PromoteKinds
  <2> HIDE DEF r
  <2> QED
    BY <1>6, <2>1, EnpassantMade DEF CellsMoved, PromoteKinds, r
<1>7. CASE m.kind = "Null"
  <2>1. r = b
    BY <1>7 DEF MovePieces, PromoteKinds
  <2> HIDE DEF r
  <2> QED
    BY <1>7, <2>1 DEF CellsMoved, PromoteKinds, SameRest, r
<1> QED
  <2>1. m.kind \in MoveKinds \ {"Invalid"}
    BY DEF Makeable
  <2> HIDE DEF r
  <2> QED
    BY <1>1, <1>2, <1>3, <1>4, <1>5, <1>6, <1>7, <2>1 DEF MoveKinds

(* The en passant cell of the last move goes first. *)
LEMMA EnpassantCleared ==
  ASSUME NEW b, Fresh(b)
  PROVE  LET r == ClearEnpassant(b)
         IN  /\ Kept(r) /\ SameRest(r, b) /\ r.enpassantCoord = InvalidCoord
             /\ r.cells = b.cells /\ r.castling = b.castling
<1> DEFINE r == ClearEnpassant(b)
           hash == Xor(b.hash, ZEnpassant(b.enpassantCoord))
<1>1. b \in Board /\ BitboardsKept(b) /\ HashKept(b) /\ FlagsKept(b)
  BY FreshParts DEF Fresh
<1>2. CASE b.enpassantCoord = InvalidCoord
  BY <1>1, <1>2 DEF ClearEnpassant, Kept, SameRest
<1>3. CASE b.enpassantCoord # InvalidCoord
  <2>1. r = [b EXCEPT !.hash = hash, !.enpassantCoord = InvalidCoord]
    BY <1>3 DEF ClearEnpassant
  <2>2. hash = FreshHash(b.cells, b.side, b.castling, InvalidCoord)
    BY <1>1, <1>3, HashOfEnpassant DEF HashKept
  <2>3. InvalidCoord \in MaybeCoord
    BY DEF MaybeCoord
  <2>4. hash \in Hash
    BY <1>1, <2>2, <2>3, BoardFields, FreshHashType
  <2> HIDE DEF r, hash
  <2>5. /\ r \in Board /\ SameRest(r, b) /\ r.enpassantCoord = InvalidCoord
        /\ r.cells = b.cells /\ r.castling = b.castling /\ r.hash = hash
        /\ r.bbColor = b.bbColor /\ r.bbPieces = b.bbPieces
    BY <1>1, <2>1, <2>3, <2>4 DEF Board, SameRest
  <2> QED
    BY <1>1, <2>2, <2>5 DEF Kept, SameRest, HashKept, FlagsKept, BitboardsKept, r
<1> QED
  BY <1>2, <1>3

(* Whether a move can be made does not depend on the en passant cell. *)
LEMMA StillMakeable ==
  ASSUME NEW b, NEW m, Makeable(b, m), NEW r, r.cells = b.cells, r.side = b.side,
         r.castling = b.castling
  PROVE  /\ Makeable(r, m)
         /\ \A cells : CellsMoved(r, m, cells) <=> CellsMoved(b, m, cells)
BY DEF Makeable, CellsMoved

(* A counter of the board is a number of 16 bits. *)
LEMMA CounterRange ==
  ASSUME NEW n
  PROVE  n \in Counter <=> n \in Int /\ 0 <= n /\ n < 65536
<1>1. Uint16Max \in Int /\ (\A k \in Int : k <= Uint16Max <=> k < 65536)
  BY DEF Uint16Max
<1> QED
  BY <1>1 DEF Counter

(* Wrapping leaves alone what fits, and takes 65536 away once. *)
LEMMA Uint16Small ==
  ASSUME NEW k \in Int, 0 <= k, k < 65536
  PROVE  Uint16(k) = k /\ Uint16(k + 65536) = k
<1>1. k % 65536 = k
  OBVIOUS
<1>2. (k + 65536) % 65536 = k
  OBVIOUS
<1> QED
  BY <1>1, <1>2 DEF Uint16

(* A counter stays one when it goes up or down, and down undoes up. *)
LEMMA Uint16Type ==
  ASSUME NEW n \in Counter
  PROVE  /\ Uint16(n + 1) \in Counter
         /\ Uint16(n + 65535) \in Counter /\ Uint16(Uint16(n + 1) + 65535) = n
         /\ 0 \in Counter
<1>1. n \in Int /\ 0 <= n /\ n < 65536
  BY CounterRange
<1>2. CASE n = 65535
  <2>1. n + 1 = 0 + 65536 /\ n + 65535 = 65534 + 65536 /\ 0 + 65535 = 65535
    BY <1>2
  <2>2. Uint16(0 + 65536) = 0 /\ Uint16(65534 + 65536) = 65534 /\ Uint16(65535) = 65535
    BY Uint16Small
  <2> QED
    BY <1>2, <2>1, <2>2, CounterRange
<1>3. CASE n # 65535
  <2>1. n + 1 \in Int /\ 0 <= n + 1 /\ n + 1 < 65536 /\ (n + 1) + 65535 = n + 65536
    BY <1>1, <1>3
  <2>2. Uint16(n + 1) = n + 1 /\ Uint16(n + 65536) = n
    BY <1>1, <2>1, Uint16Small
  <2>3. Uint16(n + 65535) \in Counter
    <3>1. CASE n = 0
      <4>1. n + 65535 = 65535
        BY <3>1
      <4> QED
        BY <4>1, Uint16Small, CounterRange
    <3>2. CASE n # 0
      <4>1. n - 1 \in Int /\ 0 <= n - 1 /\ n - 1 < 65536 /\ (n - 1) + 65536 = n + 65535
        BY <1>1, <3>2
      <4>2. Uint16((n - 1) + 65536) = n - 1
        BY <4>1, Uint16Small
      <4> QED
        BY <4>1, <4>2, CounterRange
    <3> QED
      BY <3>1, <3>2
  <2> QED
    BY <1>1, <2>1, <2>2, <2>3, CounterRange
<1> QED
  BY <1>2, <1>3

(* The cell a pawn that goes two rows leaves behind it can be entered. *)
LEMMA EnpassantFits ==
  ASSUME NEW b \in Board, NEW m, Makeable(b, m), m.kind = "PawnDoubleMove", NEW cells,
         CellsMoved(b, m, cells)
  PROVE  LET d == Invert(b.side)
         IN  /\ FixedEnpassant(cells, d, m.dst) = m.dst
             /\ CoordX(m.dst) = EnpassantSrcRow(d)
<1> DEFINE c == b.side
           mid == m.src + PawnForwardDelta(c)
<1>1. b.cells \in Cells /\ c \in Color
  BY BoardFields
<1>2. /\ m.src \in Coord /\ m.dst \in Coord /\ b.cells[mid] = EmptyCell
      /\ m.dst = m.src + 2 * PawnForwardDelta(c) /\ CoordX(m.src) = DoubleMoveSrcRow(c)
  BY DEF Makeable
<1>3. /\ mid \in Coord /\ mid # m.src /\ mid # m.dst
      /\ m.dst + PawnForwardDelta(Invert(c)) = mid
      /\ CoordX(m.dst) = EnpassantSrcRow(Invert(c))
  BY <1>1, <1>2 DEF Color, White, Black, Invert, PawnForwardDelta, DoubleMoveSrcRow,
                    EnpassantSrcRow, CoordX, Coord
<1>4. cells[m.dst] = MakeCell(c, Pawn) /\ cells[mid] = EmptyCell
  <2>1. cells = [b.cells EXCEPT ![m.src] = EmptyCell, ![m.dst] = MakeCell(c, Pawn)]
    BY DEF CellsMoved
  <2> HIDE DEF mid
  <2> QED
    BY <1>1, <1>2, <1>3, <2>1 DEF Cells
<1>5. Invert(Invert(c)) = c
  BY <1>1, Colors
<1> HIDE DEF mid
<1> QED
  BY <1>3, <1>4, <1>5 DEF FixedEnpassant

(* A board on which a move is made is as fresh as update() would make it. *)
THEOREM MoveMade ==
  ASSUME NEW b, Fresh(b), NEW m, Makeable(b, m)
  PROVE  LET r == MoveMake(b, m)
         IN  /\ Fresh(r) /\ r.side = Invert(b.side) /\ CellsMoved(b, m, r.cells)
             /\ r.moveNumber = IF b.side = Black THEN Uint16(b.moveNumber + 1) ELSE b.moveNumber
<1> DEFINE a == ClearEnpassant(b)
           n == MovePieces(a, m)
           r == MoveMake(b, m)
           d == Invert(b.side)
           counter == IF ResetsMoveCounter(b, m) THEN 0 ELSE Uint16(n.moveCounter + 1)
           number == IF b.side = Black THEN Uint16(n.moveNumber + 1) ELSE n.moveNumber
           hash == Xor(n.hash, ZSide)
           all == n.bbColor[White] \cup n.bbColor[Black]
<1>1. /\ Kept(a) /\ SameRest(a, b) /\ a.enpassantCoord = InvalidCoord
      /\ a.cells = b.cells /\ a.castling = b.castling
  BY EnpassantCleared
<1>2. r = PassTurn(b, n, m)
  BY DEF MoveMake
<1> HIDE DEF a, r
<1>3. /\ Makeable(a, m) /\ \A cells : CellsMoved(a, m, cells) <=> CellsMoved(b, m, cells)
  BY <1>1, StillMakeable DEF SameRest
<1>4. /\ Kept(n) /\ SameRest(n, b) /\ CellsMoved(b, m, n.cells)
      /\ n.enpassantCoord = IF m.kind = "PawnDoubleMove" THEN m.dst ELSE InvalidCoord
  BY <1>1, <1>3, PiecesMoved DEF SameRest
<1> HIDE DEF n
<1>5. r = [n EXCEPT !.moveCounter = counter, !.side = d, !.hash = hash, !.moveNumber = number,
                    !.bbAll = all]
  BY <1>2 DEF PassTurn
<1>6. /\ n \in Board /\ b \in Board /\ b.side \in Color /\ d \in Color
      /\ n.moveCounter \in Counter /\ n.moveNumber \in Counter
      /\ n.bbColor \in ColorBitboards
  BY <1>4, BoardFields, Colors DEF Kept, Fresh
<1>7. counter \in Counter /\ number \in Counter
  BY <1>6, Uint16Type
<1>8. hash = FreshHash(n.cells, d, n.castling, n.enpassantCoord)
  BY <1>4, <1>6, HashOfSide DEF Kept, HashKept, SameRest
<1>9. hash \in Hash
  BY <1>6, <1>8, BoardFields, FreshHashType
<1>10. all \in Bitboard
  BY <1>6 DEF ColorBitboards, Bitboard, Color
<1> HIDE DEF counter, number, hash, all, d
<1>11. /\ r \in Board /\ r.side = d /\ r.hash = hash /\ r.moveNumber = number /\ r.bbAll = all
       /\ r.cells = n.cells /\ r.castling = n.castling /\ r.enpassantCoord = n.enpassantCoord
       /\ r.bbColor = n.bbColor /\ r.bbPieces = n.bbPieces
  BY <1>5, <1>6, <1>7, <1>9, <1>10 DEF Board
<1>12. EnpassantKept(r)
  <2>1. CASE m.kind = "PawnDoubleMove"
    BY <1>4, <1>6, <1>11, <2>1, EnpassantFits DEF EnpassantKept, d
  <2>2. CASE m.kind # "PawnDoubleMove"
    BY <1>4, <1>11, <2>2 DEF EnpassantKept, FixedEnpassant
  <2> QED
    BY <2>1, <2>2
<1>13. BitboardsKept(r) /\ HashKept(r) /\ FlagsKept(r)
  BY <1>4, <1>8, <1>11 DEF Kept, BitboardsKept, HashKept, FlagsKept
<1>14. r.bbAll = r.bbColor[White] \cup r.bbColor[Black]
  BY <1>11 DEF all
<1>15. Fresh(r)
  BY <1>11, <1>12, <1>13, <1>14, FreshParts
<1> QED
  BY <1>4, <1>11, <1>15 DEF r, d, number, SameRest

-----------------------------------------------------------------------------
(* Unmaking a move, kind by kind *)

MovedBack(r, cells, bbColor, bbPieces) ==
  [r EXCEPT !.cells = cells, !.bbColor = bbColor, !.bbPieces = bbPieces]

(* The pieces of b are back: what moveUnmake() does not take from its record. *)
Restored(r, made, b) ==
  /\ r \in Board /\ r.moveNumber = made.moveNumber
  /\ r.cells = b.cells /\ r.bbColor = b.bbColor /\ r.bbPieces = b.bbPieces

(* A board and the one a move made of it. *)
MadeFrom(made, b, m) ==
  /\ made \in Board /\ BitboardsKept(made) /\ CellsMoved(b, m, made.cells)
  /\ b \in Board /\ BitboardsKept(b) /\ FlagsKept(b) /\ Makeable(b, m)

(* The cells given back, bitboards that follow them are the bitboards given back. *)
LEMMA RestoredParts ==
  ASSUME NEW made \in Board, NEW b \in Board, BitboardsKept(b), NEW cells, cells = b.cells,
         NEW bbColor \in ColorBitboards, NEW bbPieces \in PieceBitboards,
         Follow(b.cells, bbColor, bbPieces)
  PROVE  Restored(MovedBack(made, cells, bbColor, bbPieces), made, b)
<1> DEFINE r == MovedBack(made, cells, bbColor, bbPieces)
<1>1. /\ b.cells \in Cells /\ Follow(b.cells, b.bbColor, b.bbPieces)
      /\ b.bbColor \in ColorBitboards /\ b.bbPieces \in PieceBitboards
  BY BoardFollows
<1>2. /\ r \in Board /\ r.moveNumber = made.moveNumber /\ r.cells = cells
      /\ r.bbColor = bbColor /\ r.bbPieces = bbPieces
  BY <1>1 DEF MovedBack, Board
<1> HIDE DEF r
<1>3. bbColor = b.bbColor
  <2>1. ASSUME NEW c \in Color PROVE bbColor[c] = b.bbColor[c]
    <3>1. bbColor[c] \subseteq Coord /\ b.bbColor[c] \subseteq Coord
      BY <1>1 DEF ColorBitboards, Bitboard
    <3>2. \A x \in Coord : x \in bbColor[c] <=> x \in b.bbColor[c]
      BY <1>1 DEF Follow
    <3> QED
      BY <3>1, <3>2
  <2> QED
    BY <1>1, <2>1 DEF ColorBitboards
<1>4. bbPieces = b.bbPieces
  <2>1. ASSUME NEW p \in BbIndex PROVE bbPieces[p] = b.bbPieces[p]
    <3>1. bbPieces[p] \subseteq Coord /\ b.bbPieces[p] \subseteq Coord
      BY <1>1 DEF PieceBitboards, Bitboard
    <3>2. \A x \in Coord : x \in bbPieces[p] <=> x \in b.bbPieces[p]
      BY <1>1 DEF Follow
    <3> QED
      BY <3>1, <3>2
  <2> QED
    BY <1>1, <2>1 DEF PieceBitboards
<1> QED
  BY <1>2, <1>3, <1>4 DEF Restored, r

(* Unmaking a simple move puts the piece and what it took back. *)
LEMMA SimpleUnmade ==
  ASSUME NEW b, NEW m, NEW made, MadeFrom(made, b, m), m.kind = "Simple",
         NEW p, p.dstCell = b.cells[m.dst]
  PROVE  Restored(UnmakeSimple(made, m, p, b.side), made, b)
<1> DEFINE c == b.side
           d == Invert(c)
           srcCell == b.cells[m.src]
           dstCell == b.cells[m.dst]
           change == {m.src, m.dst}
           cells == [made.cells EXCEPT ![m.src] = srcCell, ![m.dst] = dstCell]
           color1 == [made.bbColor EXCEPT ![c] = Xor(@, change)]
           pieces1 == [made.bbPieces EXCEPT ![srcCell] = Xor(@, change)]
           color2 == [color1 EXCEPT ![d] = @ \cup {m.dst}]
           pieces2 == [pieces1 EXCEPT ![dstCell] = @ \cup {m.dst}]
           r == UnmakeSimple(made, m, p, c)
<1> USE DEF MadeFrom
<1>1. /\ b \in Board /\ b.cells \in Cells /\ c \in Color
      /\ Follow(b.cells, b.bbColor, b.bbPieces)
  BY BoardFollows
<1>2. /\ made \in Board /\ made.cells \in Cells
      /\ made.bbColor \in ColorBitboards /\ made.bbPieces \in PieceBitboards
      /\ Follow(made.cells, made.bbColor, made.bbPieces)
  BY BoardFollows
<1>3. /\ m.src \in Coord /\ m.dst \in Coord /\ m.src # m.dst
      /\ Own(c, srcCell) /\ ~Own(c, dstCell)
  BY DEF Makeable
<1>4. /\ d \in Color /\ d # c /\ \A k \in Color : k = c \/ k = d
      /\ ~Own(c, EmptyCell) /\ ~Own(d, EmptyCell) /\ ~Own(d, srcCell)
      /\ \A cell : ~(Own(c, cell) /\ Own(d, cell))
  BY <1>1, <1>3, Colors
<1>5. /\ srcCell \in Cell /\ srcCell \in BbIndex /\ dstCell \in BbIndex /\ EmptyCell \in Cell
      /\ srcCell # EmptyCell /\ srcCell # dstCell
      /\ dstCell = EmptyCell \/ Own(d, dstCell)
  <2>1. srcCell \in Cell /\ dstCell \in Cell
    BY <1>1, <1>3 DEF Cells
  <2> QED
    BY <1>1, <1>3, <2>1, Colors, CellFacts
<1>6. \A x \in Coord : made.cells[x] = IF x = m.dst THEN srcCell
                                       ELSE IF x = m.src THEN EmptyCell ELSE b.cells[x]
  <2>1. made.cells = [b.cells EXCEPT ![m.src] = EmptyCell, ![m.dst] = srcCell]
    BY DEF CellsMoved
  <2> QED
    BY <1>1, <1>3, <1>5, <2>1 DEF Cells
<1>7. cells = b.cells
  <2>1. \A x \in Coord : cells[x] = b.cells[x]
    BY <1>2, <1>3, <1>6 DEF Cells
  <2> QED
    BY <1>1, <1>2, <2>1 DEF Cells
<1>8. made.cells[m.dst] = srcCell
  BY <1>3, <1>6
<1> HIDE DEF cells, change, c, d
<1>9. /\ color1[c] = Xor(made.bbColor[c], change) /\ color1[d] = made.bbColor[d]
      /\ color1 \in ColorBitboards /\ pieces1 \in PieceBitboards
      /\ pieces1[srcCell] = Xor(made.bbPieces[srcCell], change)
      /\ \A k \in BbIndex \ {srcCell} : pieces1[k] = made.bbPieces[k]
  BY <1>1, <1>2, <1>3, <1>4, <1>5 DEF ColorBitboards, PieceBitboards, Bitboard, Xor, change
<1> HIDE DEF color1, pieces1
<1>10. /\ color2[c] = color1[c] /\ color2[d] = color1[d] \cup {m.dst}
       /\ color2 \in ColorBitboards /\ pieces2 \in PieceBitboards
       /\ pieces2[dstCell] = pieces1[dstCell] \cup {m.dst}
       /\ \A k \in BbIndex \ {dstCell} : pieces2[k] = pieces1[k]
  BY <1>1, <1>3, <1>4, <1>5, <1>9 DEF ColorBitboards, PieceBitboards, Bitboard
<1>11. r = IF dstCell = EmptyCell THEN MovedBack(made, cells, color1, pieces1)
           ELSE MovedBack(made, cells, color2, pieces2)
  <2>1. CASE dstCell = EmptyCell
    BY <1>2, <1>8, <2>1 DEF UnmakeSimple, MovedBack, Board, cells, color1, pieces1, change
  <2>2. CASE dstCell # EmptyCell
    <3> DEFINE back == MovedBack(made, cells, color1, pieces1)
    <3>1. r = [back EXCEPT !.bbColor[d] = @ \cup {m.dst}, !.bbPieces[dstCell] = @ \cup {m.dst}]
      BY <1>2, <1>8, <2>2 DEF UnmakeSimple, MovedBack, Board, cells, color1, pieces1, change, d
    <3>2. [back EXCEPT !.bbColor[d] = @ \cup {m.dst}, !.bbPieces[dstCell] = @ \cup {m.dst}]
            = MovedBack(made, cells, color2, pieces2)
      BY <1>2 DEF MovedBack, Board
    <3> QED
      BY <2>2, <3>1, <3>2
  <2> QED
    BY <2>1, <2>2
<1>12. b.cells[m.src] = srcCell /\ b.cells[m.dst] = dstCell
  OBVIOUS
<1> HIDE DEF color2, pieces2, r, srcCell, dstCell
<1>13. ASSUME NEW x \in Coord
       PROVE  /\ x \in color1[c] <=> Own(c, b.cells[x])
              /\ x \in color1[d] <=> x # m.dst /\ Own(d, b.cells[x])
              /\ x \in pieces1[srcCell] <=> b.cells[x] = srcCell
              /\ \A k \in BbIndex \ {srcCell} :
                   x \in pieces1[k] <=> x # m.dst /\ k # EmptyCell /\ b.cells[x] = k
  <2>1. /\ x \in change <=> x = m.src \/ x = m.dst
        /\ x \in Xor(made.bbColor[c], change) <=> ~(x \in made.bbColor[c] <=> x \in change)
        /\ x \in Xor(made.bbPieces[srcCell], change) <=>
             ~(x \in made.bbPieces[srcCell] <=> x \in change)
    BY XorFacts DEF change
  <2>2. /\ x \in made.bbColor[c] <=> Own(c, made.cells[x])
        /\ x \in made.bbColor[d] <=> Own(d, made.cells[x])
        /\ \A k \in BbIndex : x \in made.bbPieces[k] <=> k # EmptyCell /\ made.cells[x] = k
    BY <1>1, <1>2, <1>4 DEF Follow
  <2>3. made.cells[x] = IF x = m.dst THEN srcCell
                        ELSE IF x = m.src THEN EmptyCell ELSE b.cells[x]
    BY <1>6
  <2>4. x \in color1[c] <=> Own(c, b.cells[x])
    BY <1>12, <1>3, <1>4, <1>9, <2>1, <2>2, <2>3
  <2>5. x \in color1[d] <=> x # m.dst /\ Own(d, b.cells[x])
    BY <1>12, <1>3, <1>4, <1>9, <2>2, <2>3
  <2>6. x \in pieces1[srcCell] <=> b.cells[x] = srcCell
    <3>1. /\ x \in made.bbPieces[srcCell] <=> made.cells[x] = srcCell
          /\ x \in pieces1[srcCell] <=> ~(x \in made.bbPieces[srcCell] <=> x \in change)
      BY <1>5, <1>9, <2>1, <2>2
    <3>2. CASE x = m.dst
      BY <1>12, <1>5, <2>1, <2>3, <3>1, <3>2
    <3>3. CASE x = m.src
      BY <1>12, <1>3, <1>5, <2>1, <2>3, <3>1, <3>3
    <3>4. CASE x # m.src /\ x # m.dst
      BY <2>1, <2>3, <3>1, <3>4
    <3> QED
      BY <3>2, <3>3, <3>4
  <2>7. ASSUME NEW k \in BbIndex \ {srcCell}
        PROVE  x \in pieces1[k] <=> x # m.dst /\ k # EmptyCell /\ b.cells[x] = k
    BY <1>12, <1>3, <1>5, <1>9, <2>2, <2>3
  <2> QED
    BY <1>3, <2>4, <2>5, <2>6, <2>7
<1>14. CASE dstCell = EmptyCell
  <2>1. Follow(b.cells, color1, pieces1)
    BY <1>12, <1>4, <1>5, <1>13, <1>14 DEF Follow
  <2> QED
    BY <1>1, <1>2, <1>7, <1>9, <1>11, <1>14, <2>1, RestoredParts DEF c, r
<1>15. CASE dstCell # EmptyCell
  <2>1. Follow(b.cells, color2, pieces2)
    <3> SUFFICES ASSUME NEW x \in Coord
                 PROVE  /\ \A k \in Color : x \in color2[k] <=> Own(k, b.cells[x])
                        /\ \A k \in BbIndex :
                             x \in pieces2[k] <=> k # EmptyCell /\ b.cells[x] = k
      BY DEF Follow
    <3>1. x \in color2[c] <=> Own(c, b.cells[x])
      BY <1>10, <1>13
    <3>2. x \in color2[d] <=> Own(d, b.cells[x])
      BY <1>12, <1>5, <1>10, <1>13, <1>15
    <3>3. ASSUME NEW k \in BbIndex
          PROVE  x \in pieces2[k] <=> k # EmptyCell /\ b.cells[x] = k
      <4>1. CASE k = srcCell
        BY <1>12, <1>5, <1>10, <1>13, <4>1
      <4>2. CASE k = dstCell
        BY <1>12, <1>5, <1>10, <1>13, <1>15, <4>2
      <4>3. CASE k \notin {srcCell, dstCell}
        BY <1>12, <1>10, <1>13, <4>3
      <4> QED
        BY <4>1, <4>2, <4>3
    <3> QED
      BY <1>4, <3>1, <3>2, <3>3
  <2> QED
    BY <1>1, <1>2, <1>7, <1>10, <1>11, <1>15, <2>1, RestoredParts DEF c, r
<1> QED
  BY <1>14, <1>15

(* Unmaking a pawn's double step puts the pawn back. *)
LEMMA PawnDoubleMoveUnmade ==
  ASSUME NEW b, NEW m, NEW made, MadeFrom(made, b, m), m.kind = "PawnDoubleMove"
  PROVE  Restored(UnmakePawnDoubleMove(made, m, b.side), made, b)
<1> DEFINE c == b.side
           d == Invert(c)
           pawn == MakeCell(c, Pawn)
           change == {m.src, m.dst}
           cells == [made.cells EXCEPT ![m.src] = pawn, ![m.dst] = EmptyCell]
           bbColor == [made.bbColor EXCEPT ![c] = Xor(@, change)]
           bbPieces == [made.bbPieces EXCEPT ![pawn] = Xor(@, change)]
           r == UnmakePawnDoubleMove(made, m, c)
<1> USE DEF MadeFrom
<1>1. /\ b \in Board /\ b.cells \in Cells /\ c \in Color
      /\ Follow(b.cells, b.bbColor, b.bbPieces)
  BY BoardFollows
<1>2. /\ made \in Board /\ made.cells \in Cells
      /\ made.bbColor \in ColorBitboards /\ made.bbPieces \in PieceBitboards
      /\ Follow(made.cells, made.bbColor, made.bbPieces)
  BY BoardFollows
<1>3. /\ m.src \in Coord /\ m.dst \in Coord /\ m.src # m.dst
      /\ b.cells[m.src] = pawn /\ b.cells[m.dst] = EmptyCell
  BY DEF Makeable
<1>4. /\ d # c /\ \A k \in Color : k = c \/ k = d
      /\ ~Own(c, EmptyCell) /\ ~Own(d, EmptyCell) /\ ~Own(d, pawn) /\ Own(c, pawn)
      /\ pawn \in Cell /\ pawn \in BbIndex /\ pawn # EmptyCell
      /\ EmptyCell \in Cell /\ d \in Color
  BY <1>1, Colors, PieceFacts, CellFacts
<1>5. \A x \in Coord : made.cells[x] = IF x = m.dst THEN pawn
                                       ELSE IF x = m.src THEN EmptyCell ELSE b.cells[x]
  <2>1. made.cells = [b.cells EXCEPT ![m.src] = EmptyCell, ![m.dst] = pawn]
    BY DEF CellsMoved
  <2> QED
    BY <1>1, <1>3, <1>4, <2>1 DEF Cells
<1>6. cells = b.cells
  <2>1. \A x \in Coord : cells[x] = b.cells[x]
    BY <1>2, <1>3, <1>5 DEF Cells
  <2> QED
    BY <1>1, <1>2, <1>3, <1>4, <2>1 DEF Cells
<1>7. r = MovedBack(made, cells, bbColor, bbPieces)
  BY <1>2 DEF UnmakePawnDoubleMove, MovedBack, Board
<1> HIDE DEF cells, change, c, d, pawn, r
<1>8. /\ bbColor[c] = Xor(made.bbColor[c], change) /\ bbColor[d] = made.bbColor[d]
      /\ bbColor \in ColorBitboards /\ bbPieces \in PieceBitboards
      /\ bbPieces[pawn] = Xor(made.bbPieces[pawn], change)
      /\ \A k \in BbIndex \ {pawn} : bbPieces[k] = made.bbPieces[k]
  BY <1>1, <1>2, <1>3, <1>4 DEF ColorBitboards, PieceBitboards, Bitboard, Xor, change
<1> HIDE DEF bbColor, bbPieces
<1>9. Follow(b.cells, bbColor, bbPieces)
  <2> SUFFICES ASSUME NEW x \in Coord
               PROVE  /\ \A k \in Color : x \in bbColor[k] <=> Own(k, b.cells[x])
                      /\ \A k \in BbIndex :
                           x \in bbPieces[k] <=> k # EmptyCell /\ b.cells[x] = k
    BY DEF Follow
  <2>1. /\ x \in change <=> x = m.src \/ x = m.dst
        /\ x \in Xor(made.bbColor[c], change) <=> ~(x \in made.bbColor[c] <=> x \in change)
        /\ x \in Xor(made.bbPieces[pawn], change) <=>
             ~(x \in made.bbPieces[pawn] <=> x \in change)
    BY XorFacts DEF change
  <2>2. /\ x \in made.bbColor[c] <=> Own(c, made.cells[x])
        /\ x \in made.bbColor[d] <=> Own(d, made.cells[x])
        /\ \A k \in BbIndex : x \in made.bbPieces[k] <=> k # EmptyCell /\ made.cells[x] = k
    BY <1>1, <1>2, <1>4 DEF Follow
  <2>3. x \in bbColor[c] <=> Own(c, b.cells[x])
    BY <1>3, <1>4, <1>5, <1>8, <2>1, <2>2
  <2>4. x \in bbColor[d] <=> Own(d, b.cells[x])
    BY <1>3, <1>4, <1>5, <1>8, <2>2
  <2>5. ASSUME NEW k \in BbIndex
        PROVE  x \in bbPieces[k] <=> k # EmptyCell /\ b.cells[x] = k
    <3>1. CASE k = pawn
      BY <1>3, <1>4, <1>5, <1>8, <2>1, <2>2, <3>1
    <3>2. CASE k # pawn
      BY <1>3, <1>4, <1>5, <1>8, <2>2, <3>2
    <3> QED
      BY <3>1, <3>2
  <2> QED
    BY <1>4, <2>3, <2>4, <2>5
<1> QED
  BY <1>1, <1>2, <1>6, <1>7, <1>8, <1>9, RestoredParts DEF c, r

(* Unmaking a capture en passant puts both pawns back. *)
LEMMA EnpassantUnmade ==
  ASSUME NEW b, NEW m, NEW made, MadeFrom(made, b, m), m.kind = "Enpassant"
  PROVE  Restored(UnmakeEnpassant(made, m, b.side), made, b)
<1> DEFINE c == b.side
           d == Invert(c)
           taken == EnpassantPawnPos(c, m.dst)
           ours == MakeCell(c, Pawn)
           theirs == MakeCell(d, Pawn)
           change == {m.src, m.dst}
           cells == [made.cells EXCEPT ![m.src] = ours, ![m.dst] = EmptyCell, ![taken] = theirs]
           bbColor == [made.bbColor EXCEPT ![c] = Xor(@, change), ![d] = Xor(@, {taken})]
           bbPieces == [made.bbPieces EXCEPT ![ours] = Xor(@, change),
                                             ![theirs] = Xor(@, {taken})]
           r == UnmakeEnpassant(made, m, c)
<1> USE DEF MadeFrom
<1>1. /\ b \in Board /\ b.cells \in Cells /\ c \in Color
      /\ Follow(b.cells, b.bbColor, b.bbPieces)
  BY BoardFollows
<1>2. /\ made \in Board /\ made.cells \in Cells
      /\ made.bbColor \in ColorBitboards /\ made.bbPieces \in PieceBitboards
      /\ Follow(made.cells, made.bbColor, made.bbPieces)
  BY BoardFollows
<1>3. /\ m.src \in Coord /\ m.dst \in Coord /\ m.src # m.dst /\ taken \in Coord
      /\ b.cells[m.src] = ours /\ b.cells[m.dst] = EmptyCell /\ b.cells[taken] = theirs
  BY DEF Makeable
<1>4. /\ d \in Color /\ d # c /\ \A k \in Color : k = c \/ k = d
      /\ ~Own(c, EmptyCell) /\ ~Own(d, EmptyCell)
      /\ ~Own(d, ours) /\ Own(c, ours) /\ ~Own(c, theirs) /\ Own(d, theirs)
  BY <1>1, Colors, PieceFacts
<1>5. /\ ours \in Cell /\ ours \in BbIndex /\ ours # EmptyCell
      /\ theirs \in Cell /\ theirs \in BbIndex /\ theirs # EmptyCell
      /\ EmptyCell \in Cell /\ ours # theirs
  BY <1>1, <1>4, Colors, PieceFacts, CellFacts
<1>6. taken # m.src /\ taken # m.dst
  BY <1>3, <1>5
<1>7. \A x \in Coord : made.cells[x] = IF x = m.dst THEN ours
                                       ELSE IF x = m.src \/ x = taken THEN EmptyCell
                                       ELSE b.cells[x]
  <2>1. made.cells = [b.cells EXCEPT ![m.src] = EmptyCell, ![m.dst] = ours,
                                     ![taken] = EmptyCell]
    BY DEF CellsMoved
  <2> QED
    BY <1>1, <1>3, <1>5, <1>6, <2>1 DEF Cells
<1>8. cells = b.cells
  <2>1. \A x \in Coord : cells[x] = b.cells[x]
    BY <1>2, <1>3, <1>6, <1>7 DEF Cells
  <2> QED
    BY <1>1, <1>2, <1>3, <1>5, <2>1 DEF Cells
<1>9. r = MovedBack(made, cells, bbColor, bbPieces)
  BY <1>2, ZenonT(60) DEF UnmakeEnpassant, MovedBack, Board
<1> HIDE DEF cells, change, c, d, ours, theirs, taken, r
<1>10. /\ bbColor[c] = Xor(made.bbColor[c], change)
       /\ bbColor[d] = Xor(made.bbColor[d], {taken})
       /\ bbPieces[ours] = Xor(made.bbPieces[ours], change)
       /\ bbPieces[theirs] = Xor(made.bbPieces[theirs], {taken})
       /\ \A k \in BbIndex \ {ours, theirs} : bbPieces[k] = made.bbPieces[k]
  BY <1>1, <1>2, <1>4, <1>5 DEF ColorBitboards, PieceBitboards
<1>11. bbColor \in ColorBitboards /\ bbPieces \in PieceBitboards
  BY <1>1, <1>2, <1>3, <1>4, <1>5 DEF ColorBitboards, PieceBitboards, Bitboard, Xor, change
<1> HIDE DEF bbColor, bbPieces
<1>12. Follow(b.cells, bbColor, bbPieces)
  <2> SUFFICES ASSUME NEW x \in Coord
               PROVE  /\ \A k \in Color : x \in bbColor[k] <=> Own(k, b.cells[x])
                      /\ \A k \in BbIndex :
                           x \in bbPieces[k] <=> k # EmptyCell /\ b.cells[x] = k
    BY DEF Follow
  <2>1. /\ x \in change <=> x = m.src \/ x = m.dst
        /\ x \in Xor(made.bbColor[c], change) <=> ~(x \in made.bbColor[c] <=> x \in change)
        /\ x \in Xor(made.bbColor[d], {taken}) <=> ~(x \in made.bbColor[d] <=> x = taken)
        /\ x \in Xor(made.bbPieces[ours], change) <=>
             ~(x \in made.bbPieces[ours] <=> x \in change)
        /\ x \in Xor(made.bbPieces[theirs], {taken}) <=>
             ~(x \in made.bbPieces[theirs] <=> x = taken)
    BY XorFacts DEF change
  <2>2. /\ x \in made.bbColor[c] <=> Own(c, made.cells[x])
        /\ x \in made.bbColor[d] <=> Own(d, made.cells[x])
        /\ \A k \in BbIndex : x \in made.bbPieces[k] <=> k # EmptyCell /\ made.cells[x] = k
    BY <1>1, <1>2, <1>4 DEF Follow
  <2>3. x \in bbColor[c] <=> Own(c, b.cells[x])
    BY <1>3, <1>4, <1>6, <1>7, <1>10, <2>1, <2>2
  <2>4. x \in bbColor[d] <=> Own(d, b.cells[x])
    BY <1>3, <1>4, <1>6, <1>7, <1>10, <2>1, <2>2
  <2>5. ASSUME NEW k \in BbIndex
        PROVE  x \in bbPieces[k] <=> k # EmptyCell /\ b.cells[x] = k
    <3>1. CASE k = ours
      BY <1>3, <1>5, <1>6, <1>7, <1>10, <2>1, <2>2, <3>1
    <3>2. CASE k = theirs
      BY <1>3, <1>5, <1>6, <1>7, <1>10, <2>1, <2>2, <3>2
    <3>3. CASE k \notin {ours, theirs}
      BY <1>3, <1>5, <1>6, <1>7, <1>10, <2>2, <3>3
    <3> QED
      BY <3>1, <3>2, <3>3
  <2> QED
    BY <1>4, <2>3, <2>4, <2>5
<1> QED
  BY <1>1, <1>2, <1>8, <1>9, <1>11, <1>12, RestoredParts DEF c, r

(* Unmaking a promotion puts the pawn and what it took back. *)
LEMMA PromoteUnmade ==
  ASSUME NEW b, NEW m, NEW made, MadeFrom(made, b, m), m.kind \in PromoteKinds,
         NEW p, p.dstCell = b.cells[m.dst]
  PROVE  Restored(UnmakePromote(made, m, p, b.side), made, b)
<1> DEFINE c == b.side
           d == Invert(c)
           pawn == MakeCell(c, Pawn)
           promote == MakeCell(c, PromotePiece(m.kind))
           dstCell == b.cells[m.dst]
           change == {m.src, m.dst}
           cells == [made.cells EXCEPT ![m.src] = pawn, ![m.dst] = dstCell]
           color1 == [made.bbColor EXCEPT ![c] = Xor(@, change)]
           pieces1 == [made.bbPieces EXCEPT ![pawn] = Xor(@, {m.src}),
                                            ![promote] = Xor(@, {m.dst})]
           color2 == [color1 EXCEPT ![d] = @ \cup {m.dst}]
           pieces2 == [pieces1 EXCEPT ![dstCell] = @ \cup {m.dst}]
           r == UnmakePromote(made, m, p, c)
<1> USE DEF MadeFrom
<1>1. /\ b \in Board /\ b.cells \in Cells /\ c \in Color
      /\ Follow(b.cells, b.bbColor, b.bbPieces)
  BY BoardFollows
<1>2. /\ made \in Board /\ made.cells \in Cells
      /\ made.bbColor \in ColorBitboards /\ made.bbPieces \in PieceBitboards
      /\ Follow(made.cells, made.bbColor, made.bbPieces)
  BY BoardFollows
<1>3. /\ m.src \in Coord /\ m.dst \in Coord /\ m.src # m.dst
      /\ b.cells[m.src] = pawn /\ ~Own(c, dstCell)
  BY DEF Makeable, PromoteKinds
<1>4. PromotePiece(m.kind) \in Piece /\ PromotePiece(m.kind) # Pawn
  BY DEF PromoteKinds, PromotePiece, Knight, Bishop, Rook, Queen, Pawn, Piece
<1>5. /\ d \in Color /\ d # c /\ \A k \in Color : k = c \/ k = d
      /\ ~Own(c, EmptyCell) /\ ~Own(d, EmptyCell)
      /\ ~Own(d, pawn) /\ Own(c, pawn) /\ ~Own(d, promote) /\ Own(c, promote)
      /\ \A cell : ~(Own(c, cell) /\ Own(d, cell))
  BY <1>1, <1>4, Colors, PieceFacts
<1>6. /\ pawn \in BbIndex /\ promote \in Cell /\ promote \in BbIndex /\ dstCell \in BbIndex
      /\ EmptyCell \in Cell /\ pawn # EmptyCell /\ promote # EmptyCell
      /\ pawn # promote /\ dstCell # pawn /\ dstCell # promote
      /\ dstCell = EmptyCell \/ Own(d, dstCell)
  <2>1. /\ dstCell \in Cell /\ pawn \in BbIndex /\ promote \in Cell /\ promote \in BbIndex
        /\ pawn # EmptyCell /\ promote # EmptyCell
    BY <1>1, <1>3, <1>4, Colors, PieceFacts DEF Cells
  <2>2. pawn # promote
    BY <1>1, <1>4, CellFacts, PieceFacts
  <2> QED
    BY <1>1, <1>3, <1>5, <2>1, <2>2, Colors, CellFacts
<1>7. b.cells[m.dst] = dstCell
  OBVIOUS
<1>8. \A x \in Coord : made.cells[x] = IF x = m.dst THEN promote
                                       ELSE IF x = m.src THEN EmptyCell ELSE b.cells[x]
  <2>1. made.cells = [b.cells EXCEPT ![m.src] = EmptyCell, ![m.dst] = promote]
    BY DEF CellsMoved
  <2> QED
    BY <1>1, <1>3, <1>6, <2>1 DEF Cells
<1>9. cells = b.cells
  <2>1. \A x \in Coord : cells[x] = b.cells[x]
    BY <1>2, <1>3, <1>8 DEF Cells
  <2> QED
    BY <1>1, <1>2, <2>1 DEF Cells
<1> HIDE DEF cells, change, c, d, pawn, promote
<1>10. /\ color1[c] = Xor(made.bbColor[c], change) /\ color1[d] = made.bbColor[d]
       /\ pieces1[pawn] = Xor(made.bbPieces[pawn], {m.src})
       /\ pieces1[promote] = Xor(made.bbPieces[promote], {m.dst})
       /\ \A k \in BbIndex \ {pawn, promote} : pieces1[k] = made.bbPieces[k]
  BY <1>1, <1>2, <1>5, <1>6 DEF ColorBitboards, PieceBitboards
<1>11. color1 \in ColorBitboards /\ pieces1 \in PieceBitboards
  BY <1>1, <1>2, <1>3, <1>5, <1>6 DEF ColorBitboards, PieceBitboards, Bitboard, Xor, change
<1> HIDE DEF color1, pieces1
<1>12. r = IF dstCell = EmptyCell THEN MovedBack(made, cells, color1, pieces1)
           ELSE MovedBack(made, cells, color2, pieces2)
  <2>1. CASE dstCell = EmptyCell
    BY <1>2, <2>1 DEF UnmakePromote, MovedBack, Board, cells, color1, pieces1, change,
                      pawn, promote
  <2>2. CASE dstCell # EmptyCell
    <3> DEFINE back == MovedBack(made, cells, color1, pieces1)
    <3>1. r = [back EXCEPT !.bbColor[d] = @ \cup {m.dst}, !.bbPieces[dstCell] = @ \cup {m.dst}]
      BY <1>2, <2>2 DEF UnmakePromote, MovedBack, Board, cells, color1, pieces1, change, d,
                        pawn, promote
    <3>2. [back EXCEPT !.bbColor[d] = @ \cup {m.dst}, !.bbPieces[dstCell] = @ \cup {m.dst}]
            = MovedBack(made, cells, color2, pieces2)
      BY <1>2 DEF MovedBack, Board
    <3> QED
      BY <2>2, <3>1, <3>2
  <2> QED
    BY <2>1, <2>2
<1>13. /\ color2[c] = color1[c] /\ color2[d] = color1[d] \cup {m.dst}
       /\ color2 \in ColorBitboards /\ pieces2 \in PieceBitboards
       /\ pieces2[dstCell] = pieces1[dstCell] \cup {m.dst}
       /\ \A k \in BbIndex \ {dstCell} : pieces2[k] = pieces1[k]
  BY <1>1, <1>3, <1>5, <1>6, <1>11 DEF ColorBitboards, PieceBitboards, Bitboard
<1> HIDE DEF color2, pieces2, r, dstCell
<1>14. ASSUME NEW x \in Coord
       PROVE  /\ x \in color1[c] <=> Own(c, b.cells[x])
              /\ x \in color1[d] <=> x # m.dst /\ Own(d, b.cells[x])
              /\ \A k \in BbIndex :
                   x \in pieces1[k] <=> x # m.dst /\ k # EmptyCell /\ b.cells[x] = k
  <2>1. /\ x \in change <=> x = m.src \/ x = m.dst
        /\ x \in Xor(made.bbColor[c], change) <=> ~(x \in made.bbColor[c] <=> x \in change)
        /\ x \in Xor(made.bbPieces[pawn], {m.src}) <=>
             ~(x \in made.bbPieces[pawn] <=> x = m.src)
        /\ x \in Xor(made.bbPieces[promote], {m.dst}) <=>
             ~(x \in made.bbPieces[promote] <=> x = m.dst)
    BY XorFacts DEF change
  <2>2. /\ x \in made.bbColor[c] <=> Own(c, made.cells[x])
        /\ x \in made.bbColor[d] <=> Own(d, made.cells[x])
        /\ \A k \in BbIndex : x \in made.bbPieces[k] <=> k # EmptyCell /\ made.cells[x] = k
    BY <1>1, <1>2, <1>5 DEF Follow
  <2>3. made.cells[x] = IF x = m.dst THEN promote
                        ELSE IF x = m.src THEN EmptyCell ELSE b.cells[x]
    BY <1>8
  <2>4. x \in color1[c] <=> Own(c, b.cells[x])
    BY <1>3, <1>5, <1>7, <1>10, <2>1, <2>2, <2>3
  <2>5. x \in color1[d] <=> x # m.dst /\ Own(d, b.cells[x])
    BY <1>3, <1>5, <1>10, <2>2, <2>3
  <2>6. ASSUME NEW k \in BbIndex
        PROVE  x \in pieces1[k] <=> x # m.dst /\ k # EmptyCell /\ b.cells[x] = k
    <3>1. CASE k = pawn
      BY <1>3, <1>6, <1>10, <2>1, <2>2, <2>3, <3>1
    <3>2. CASE k = promote
      BY <1>3, <1>6, <1>10, <2>1, <2>2, <2>3, <3>2
    <3>3. CASE k \notin {pawn, promote}
      BY <1>3, <1>6, <1>10, <2>2, <2>3, <3>3
    <3> QED
      BY <3>1, <3>2, <3>3
  <2> QED
    BY <2>4, <2>5, <2>6
<1>15. CASE dstCell = EmptyCell
  <2>1. Follow(b.cells, color1, pieces1)
    BY <1>5, <1>6, <1>7, <1>14, <1>15 DEF Follow
  <2> QED
    BY <1>1, <1>2, <1>9, <1>11, <1>12, <1>15, <2>1, RestoredParts DEF c, r
<1>16. CASE dstCell # EmptyCell
  <2>1. Follow(b.cells, color2, pieces2)
    <3> SUFFICES ASSUME NEW x \in Coord
                 PROVE  /\ \A k \in Color : x \in color2[k] <=> Own(k, b.cells[x])
                        /\ \A k \in BbIndex :
                             x \in pieces2[k] <=> k # EmptyCell /\ b.cells[x] = k
      BY DEF Follow
    <3>1. x \in color2[c] <=> Own(c, b.cells[x])
      BY <1>13, <1>14
    <3>2. x \in color2[d] <=> Own(d, b.cells[x])
      BY <1>6, <1>7, <1>13, <1>14, <1>16
    <3>3. ASSUME NEW k \in BbIndex
          PROVE  x \in pieces2[k] <=> k # EmptyCell /\ b.cells[x] = k
      <4>1. CASE k = dstCell
        BY <1>7, <1>13, <1>14, <1>16, <4>1
      <4>2. CASE k # dstCell
        BY <1>7, <1>13, <1>14, <4>2
      <4> QED
        BY <4>1, <4>2
    <3> QED
      BY <1>5, <3>1, <3>2, <3>3
  <2> QED
    BY <1>1, <1>2, <1>9, <1>12, <1>13, <1>16, <2>1, RestoredParts DEF c, r
<1> QED
  BY <1>15, <1>16

(* A castling of colour c taken back. *)
Uncastled(made, c, kf, kt, rf, rt) ==
  MovedBack(made,
            [made.cells EXCEPT ![kf] = MakeCell(c, King), ![kt] = EmptyCell,
                               ![rf] = MakeCell(c, Rook), ![rt] = EmptyCell],
            [made.bbColor EXCEPT ![c] = Xor(@, {kf, kt, rf, rt})],
            [made.bbPieces EXCEPT ![MakeCell(c, Rook)] = Xor(@, {rf, rt}),
                                  ![MakeCell(c, King)] = Xor(@, {kf, kt})])

(* The king and the rook change back to the cells they came from. *)
LEMMA CastlingUnmoves ==
  ASSUME NEW b \in Board, BitboardsKept(b), NEW made \in Board, BitboardsKept(made),
         NEW kf, NEW kt, NEW rf, NEW rt, CanCastle(b, kf, kt, rf, rt),
         made.cells = CastledCells(b, kf, kt, rf, rt)
  PROVE  Restored(Uncastled(made, b.side, kf, kt, rf, rt), made, b)
<1> USE DEF CanCastle
<1> DEFINE c == b.side
           d == Invert(c)
           king == MakeCell(c, King)
           rook == MakeCell(c, Rook)
           change == {kf, kt, rf, rt}
           cells == [made.cells EXCEPT ![kf] = king, ![kt] = EmptyCell,
                                       ![rf] = rook, ![rt] = EmptyCell]
           bbColor == [made.bbColor EXCEPT ![c] = Xor(@, change)]
           bbPieces == [made.bbPieces EXCEPT ![rook] = Xor(@, {rf, rt}),
                                             ![king] = Xor(@, {kf, kt})]
           r == Uncastled(made, c, kf, kt, rf, rt)
<1>1. /\ b.cells \in Cells /\ c \in Color
      /\ Follow(b.cells, b.bbColor, b.bbPieces)
  BY BoardFollows
<1>2. /\ made.cells \in Cells
      /\ made.bbColor \in ColorBitboards /\ made.bbPieces \in PieceBitboards
      /\ Follow(made.cells, made.bbColor, made.bbPieces)
  BY BoardFollows
<1>3. /\ d # c /\ \A k \in Color : k = c \/ k = d
      /\ ~Own(c, EmptyCell) /\ ~Own(d, EmptyCell)
      /\ Own(c, king) /\ ~Own(d, king) /\ Own(c, rook) /\ ~Own(d, rook) /\ d \in Color
  BY <1>1, Colors, PieceFacts
<1>4. /\ king \in Cell /\ king \in BbIndex /\ king # EmptyCell
      /\ rook \in Cell /\ rook \in BbIndex /\ rook # EmptyCell
      /\ king # rook /\ EmptyCell \in Cell
  BY <1>1, Colors, PieceFacts, CellFacts
<1>5. \A x \in Coord : made.cells[x] = IF x = kt THEN king ELSE IF x = rt THEN rook
                                       ELSE IF x = kf \/ x = rf THEN EmptyCell
                                       ELSE b.cells[x]
  BY <1>1, <1>4 DEF Cells, CastledCells
<1>6. /\ b.cells[kf] = king /\ b.cells[rf] = rook
      /\ b.cells[kt] = EmptyCell /\ b.cells[rt] = EmptyCell
  OBVIOUS
<1>7. cells = b.cells
  <2>1. \A x \in Coord : cells[x] = b.cells[x]
    BY <1>2, <1>5, <1>6 DEF Cells
  <2> QED
    BY <1>1, <1>2, <1>4, <2>1 DEF Cells
<1>8. r = MovedBack(made, cells, bbColor, bbPieces)
  BY DEF Uncastled
<1> HIDE DEF cells, change, c, d, king, rook, r
<1>9. /\ bbColor[c] = Xor(made.bbColor[c], change) /\ bbColor[d] = made.bbColor[d]
      /\ bbPieces[rook] = Xor(made.bbPieces[rook], {rf, rt})
      /\ bbPieces[king] = Xor(made.bbPieces[king], {kf, kt})
      /\ \A k \in BbIndex \ {king, rook} : bbPieces[k] = made.bbPieces[k]
  BY <1>1, <1>2, <1>3, <1>4 DEF ColorBitboards, PieceBitboards
<1>10. bbColor \in ColorBitboards /\ bbPieces \in PieceBitboards
  <2>1. Xor(made.bbColor[c], change) \in Bitboard
    BY <1>1, <1>2 DEF ColorBitboards, Bitboard, Xor, change
  <2>2. /\ Xor(made.bbPieces[rook], {rf, rt}) \in Bitboard
        /\ Xor(made.bbPieces[king], {kf, kt}) \in Bitboard
    BY <1>2, <1>4 DEF PieceBitboards, Bitboard, Xor
  <2> QED
    BY <1>2, <1>4, <2>1, <2>2 DEF ColorBitboards, PieceBitboards
<1> HIDE DEF bbColor, bbPieces
<1>11. Follow(b.cells, bbColor, bbPieces)
  <2> SUFFICES ASSUME NEW x \in Coord
               PROVE  /\ \A k \in Color : x \in bbColor[k] <=> Own(k, b.cells[x])
                      /\ \A k \in BbIndex :
                           x \in bbPieces[k] <=> k # EmptyCell /\ b.cells[x] = k
    BY DEF Follow
  <2>1. /\ x \in change <=> x = kf \/ x = kt \/ x = rf \/ x = rt
        /\ x \in Xor(made.bbColor[c], change) <=> ~(x \in made.bbColor[c] <=> x \in change)
        /\ x \in Xor(made.bbPieces[king], {kf, kt}) <=>
             ~(x \in made.bbPieces[king] <=> x = kf \/ x = kt)
        /\ x \in Xor(made.bbPieces[rook], {rf, rt}) <=>
             ~(x \in made.bbPieces[rook] <=> x = rf \/ x = rt)
    BY XorFacts DEF change
  <2>2. /\ x \in made.bbColor[c] <=> Own(c, made.cells[x])
        /\ x \in made.bbColor[d] <=> Own(d, made.cells[x])
        /\ \A k \in BbIndex : x \in made.bbPieces[k] <=> k # EmptyCell /\ made.cells[x] = k
    BY <1>1, <1>2, <1>3 DEF Follow
  <2>3. x \in bbColor[c] <=> Own(c, b.cells[x])
    BY <1>3, <1>5, <1>6, <1>9, <2>1, <2>2
  <2>4. x \in bbColor[d] <=> Own(d, b.cells[x])
    BY <1>3, <1>5, <1>6, <1>9, <2>2
  <2>5. ASSUME NEW k \in BbIndex
        PROVE  x \in bbPieces[k] <=> k # EmptyCell /\ b.cells[x] = k
    <3>1. CASE k = king
      BY <1>4, <1>5, <1>6, <1>9, <2>1, <2>2, <3>1
    <3>2. CASE k = rook
      BY <1>4, <1>5, <1>6, <1>9, <2>1, <2>2, <3>2
    <3>3. CASE k \notin {king, rook}
      BY <1>4, <1>5, <1>6, <1>9, <2>2, <3>3
    <3> QED
      BY <3>1, <3>2, <3>3
  <2> QED
    BY <1>3, <2>3, <2>4, <2>5
<1> QED
  BY <1>1, <1>2, <1>7, <1>8, <1>10, <1>11, RestoredParts DEF c, r

(* Unmaking castling on the king's side. *)
LEMMA KingsideUnmade ==
  ASSUME NEW b, NEW m, NEW made, MadeFrom(made, b, m), m.kind = "CastlingKingside"
  PROVE  Restored(UnmakeKingside(made, b.side), made, b)
<1> DEFINE c == b.side
           o == CastlingOffset(c)
           king == MakeCell(c, King)
           rook == MakeCell(c, Rook)
<1> USE DEF MadeFrom
<1>1. made \in Board /\ made.cells \in Cells /\ c \in Color
  BY BoardFields
<1>2. /\ o \in Int /\ o \in Coord /\ o + 2 \in Coord /\ o + 3 \in Coord /\ o + 4 \in Coord
      /\ o + 5 \in Coord /\ o + 6 \in Coord /\ o + 7 \in Coord
  <2>1. o = 0 \/ o = 56
    BY <1>1, CastlingCells
  <2> QED
    BY <2>1 DEF Coord
<1>3. CanCastle(b, o + 4, o + 6, o + 7, o + 5)
  <2>1. <<c, Kingside>> \in b.castling
    BY DEF Makeable
  <2>2. Standing(b.cells, <<c, Kingside>>)
    BY <2>1, FlagsStanding
  <2>3. KingCell(<<c, Kingside>>) = o + 4 /\ RookCell(<<c, Kingside>>) = o + 7
    BY <1>1, CastlingCells
  <2>4. b.cells[o + 4] = king /\ b.cells[o + 7] = rook
    BY <2>2, <2>3 DEF Standing
  <2>5. b.cells[o + 6] = EmptyCell /\ b.cells[o + 5] = EmptyCell
    BY DEF Makeable
  <2> QED
    BY <1>2, <2>4, <2>5 DEF CanCastle
<1>4. made.cells = CastledCells(b, o + 4, o + 6, o + 7, o + 5)
  BY DEF CellsMoved, CastledCells
<1>5. UnmakeKingside(made, c) = Uncastled(made, c, o + 4, o + 6, o + 7, o + 5)
  <2>1. {o + 4, o + 5, o + 6, o + 7} = {o + 4, o + 6, o + 7, o + 5} /\ {o + 5, o + 7} = {o + 7, o + 5} /\ {o + 4, o + 6} = {o + 4, o + 6}
    OBVIOUS
  <2>2. [made.cells EXCEPT ![o + 4] = king, ![o + 6] = EmptyCell, ![o + 7] = rook, ![o + 5] = EmptyCell]
          = [made.cells EXCEPT ![o + 4] = king, ![o + 5] = EmptyCell,
                                ![o + 6] = EmptyCell, ![o + 7] = rook]
    BY <1>1, <1>2 DEF Cells
  <2> QED
    BY <1>1, <2>1, <2>2, ZenonT(60) DEF UnmakeKingside, Uncastled, MovedBack, Board
<1> QED
  BY <1>3, <1>4, <1>5, CastlingUnmoves

(* Unmaking castling on the queen's side. *)
LEMMA QueensideUnmade ==
  ASSUME NEW b, NEW m, NEW made, MadeFrom(made, b, m), m.kind = "CastlingQueenside"
  PROVE  Restored(UnmakeQueenside(made, b.side), made, b)
<1> DEFINE c == b.side
           o == CastlingOffset(c)
           king == MakeCell(c, King)
           rook == MakeCell(c, Rook)
<1> USE DEF MadeFrom
<1>1. made \in Board /\ made.cells \in Cells /\ c \in Color
  BY BoardFields
<1>2. /\ o \in Int /\ o \in Coord /\ o + 2 \in Coord /\ o + 3 \in Coord /\ o + 4 \in Coord
      /\ o + 5 \in Coord /\ o + 6 \in Coord /\ o + 7 \in Coord
  <2>1. o = 0 \/ o = 56
    BY <1>1, CastlingCells
  <2> QED
    BY <2>1 DEF Coord
<1>3. CanCastle(b, o + 4, o + 2, o, o + 3)
  <2>1. <<c, Queenside>> \in b.castling
    BY DEF Makeable
  <2>2. Standing(b.cells, <<c, Queenside>>)
    BY <2>1, FlagsStanding
  <2>3. KingCell(<<c, Queenside>>) = o + 4 /\ RookCell(<<c, Queenside>>) = o
    BY <1>1, CastlingCells
  <2>4. b.cells[o + 4] = king /\ b.cells[o] = rook
    BY <2>2, <2>3 DEF Standing
  <2>5. b.cells[o + 2] = EmptyCell /\ b.cells[o + 3] = EmptyCell
    BY DEF Makeable
  <2> QED
    BY <1>2, <2>4, <2>5 DEF CanCastle
<1>4. made.cells = CastledCells(b, o + 4, o + 2, o, o + 3)
  BY DEF CellsMoved, CastledCells
<1>5. UnmakeQueenside(made, c) = Uncastled(made, c, o + 4, o + 2, o, o + 3)
  <2>1. {o, o + 2, o + 3, o + 4} = {o + 4, o + 2, o, o + 3} /\ {o, o + 3} = {o, o + 3} /\ {o + 2, o + 4} = {o + 4, o + 2}
    OBVIOUS
  <2>2. [made.cells EXCEPT ![o + 4] = king, ![o + 2] = EmptyCell, ![o] = rook, ![o + 3] = EmptyCell]
          = [made.cells EXCEPT ![o] = rook, ![o + 2] = EmptyCell,
                                ![o + 3] = EmptyCell, ![o + 4] = king]
    BY <1>1, <1>2 DEF Cells
  <2> QED
    BY <1>1, <2>1, <2>2, ZenonT(60) DEF UnmakeQueenside, Uncastled, MovedBack, Board
<1> QED
  BY <1>3, <1>4, <1>5, CastlingUnmoves

(* Whatever the kind of the move, moveUnmake() puts the pieces back. *)
LEMMA PiecesBack ==
  ASSUME NEW b, NEW m, NEW made, MadeFrom(made, b, m), NEW p, p.dstCell = b.cells[m.dst]
  PROVE  Restored(MoveBack(made, m, p, b.side), made, b)
<1> DEFINE r == MoveBack(made, m, p, b.side)
<1>1. CASE m.kind = "Simple"
  <2>1. r = UnmakeSimple(made, m, p, b.side)
    BY <1>1 DEF MoveBack, PromoteKinds
  <2> QED
    BY <1>1, <2>1, SimpleUnmade
<1>2. CASE m.kind = "PawnDoubleMove"
  <2>1. r = UnmakePawnDoubleMove(made, m, b.side)
    BY <1>2 DEF MoveBack, PromoteKinds
  <2> QED
    BY <1>2, <2>1, PawnDoubleMoveUnmade
<1>3. CASE m.kind \in PromoteKinds
  <2>1. r = UnmakePromote(made, m, p, b.side)
    BY <1>3 DEF MoveBack, PromoteKinds
  <2> QED
    BY <1>3, <2>1, PromoteUnmade
<1>4. CASE m.kind = "CastlingKingside"
  <2>1. r = UnmakeKingside(made, b.side)
    BY <1>4 DEF MoveBack, PromoteKinds
  <2> QED
    BY <1>4, <2>1, KingsideUnmade
<1>5. CASE m.kind = "CastlingQueenside"
  <2>1. r = UnmakeQueenside(made, b.side)
    BY <1>5 DEF MoveBack, PromoteKinds
  <2> QED
    BY <1>5, <2>1, QueensideUnmade
<1>6. CASE m.kind = "Enpassant"
  <2>1. r = UnmakeEnpassant(made, m, b.side)
    BY <1>6 DEF MoveBack, PromoteKinds
  <2> QED
    BY <1>6, <2>1, EnpassantUnmade
<1>7. CASE m.kind = "Null"
  <2>1. r = made
    BY <1>7 DEF MoveBack, PromoteKinds
  <2>2. /\ made \in Board /\ b \in Board /\ BitboardsKept(b) /\ made.cells = b.cells
        /\ Follow(b.cells, made.bbColor, made.bbPieces)
        /\ made.bbColor \in ColorBitboards /\ made.bbPieces \in PieceBitboards
    BY <1>7, BoardFollows DEF MadeFrom, CellsMoved
  <2>3. made = MovedBack(made, made.cells, made.bbColor, made.bbPieces)
    BY <2>2 DEF MovedBack, Board
  <2> HIDE DEF r
  <2> QED
    BY <2>1, <2>2, <2>3, RestoredParts DEF r
<1>8. m.kind \in MoveKinds \ {"Invalid"}
  BY DEF MadeFrom, Makeable
<1> QED
  BY <1>1, <1>2, <1>3, <1>4, <1>5, <1>6, <1>7, <1>8 DEF MoveKinds, PromoteKinds

(* moveUnmake() undoes moveMake(): every field of the board, those kept for  *)
(* speed and the counters that wrap included, is what it was.                *)
THEOREM MoveUnmade ==
  ASSUME NEW b, Fresh(b), NEW m, Makeable(b, m)
  PROVE  MoveUnmake(MoveMake(b, m), m, Persistence(b, m)) = b
<1> DEFINE made == MoveMake(b, m)
           p == Persistence(b, m)
           c == Invert(made.side)
           back == MoveBack(made, m, p, c)
           number == IF c = Black THEN Uint16(back.moveNumber + 65535) ELSE back.moveNumber
           all == back.bbColor[White] \cup back.bbColor[Black]
           r == MoveUnmake(made, m, p)
<1>1. /\ Fresh(made) /\ made.side = Invert(b.side) /\ CellsMoved(b, m, made.cells)
      /\ made.moveNumber = IF b.side = Black THEN Uint16(b.moveNumber + 1) ELSE b.moveNumber
  BY MoveMade
<1>2. /\ p.hash = b.hash /\ p.castling = b.castling /\ p.enpassantCoord = b.enpassantCoord
      /\ p.moveCounter = b.moveCounter /\ p.dstCell = b.cells[m.dst]
  BY DEF Persistence
<1>3. r = [back EXCEPT !.hash = p.hash, !.castling = p.castling,
                       !.enpassantCoord = p.enpassantCoord, !.moveCounter = p.moveCounter,
                       !.side = c, !.moveNumber = number, !.bbAll = all]
  BY DEF MoveUnmake
<1> HIDE DEF made, p, r
<1>4. b \in Board /\ b.side \in Color /\ b.moveNumber \in Counter /\ c = b.side
  <2>1. b \in Board /\ b.side \in Color /\ b.moveNumber \in Counter
    BY BoardFields DEF Fresh
  <2> QED
    BY <1>1, <2>1, Colors
<1>5. MadeFrom(made, b, m)
  <2>1. made \in Board /\ BitboardsKept(made) /\ BitboardsKept(b) /\ FlagsKept(b)
    BY <1>1, <1>4, FreshParts DEF Fresh
  <2> QED
    BY <1>1, <1>4, <2>1 DEF MadeFrom
<1>6. Restored(back, made, b)
  BY <1>2, <1>4, <1>5, PiecesBack
<1> HIDE DEF back, c
<1>7. /\ back \in Board /\ back.cells = b.cells /\ back.bbColor = b.bbColor
      /\ back.bbPieces = b.bbPieces /\ back.moveNumber = made.moveNumber
  BY <1>6 DEF Restored
<1>8. number = b.moveNumber
  BY <1>1, <1>4, <1>7, Uint16Type
<1>9. all = b.bbAll
  BY <1>7, FreshParts DEF Fresh
<1> HIDE DEF number, all
<1>10. /\ r \in Board /\ r.cells = b.cells /\ r.side = b.side /\ r.castling = b.castling
       /\ r.enpassantCoord = b.enpassantCoord /\ r.moveCounter = b.moveCounter
       /\ r.moveNumber = b.moveNumber /\ r.hash = b.hash /\ r.bbColor = b.bbColor
       /\ r.bbAll = b.bbAll /\ r.bbPieces = b.bbPieces
  BY <1>2, <1>3, <1>4, <1>7, <1>8, <1>9, BoardFields DEF Board
<1> QED
  BY <1>4, <1>10, SameBoard DEF r, made, p

-----------------------------------------------------------------------------
(* The generators *)

(* What the bitboards of a fresh board tell of a cell. *)
LEMMA BitboardCells ==
  ASSUME NEW b, Fresh(b), NEW c \in Color
  PROVE  /\ b \in Board /\ b.cells \in Cells /\ b.side \in Color
         /\ \A x : x \in b.bbColor[c] <=> x \in Coord /\ Own(c, b.cells[x])
         /\ \A x : x \in b.bbAll <=> x \in Coord /\ b.cells[x] # EmptyCell
         /\ \A p \in Piece : \A x :
              x \in Bb(b, c, p) <=> x \in Coord /\ b.cells[x] = MakeCell(c, p)
<1>1. b \in Board /\ BitboardsKept(b)
  BY FreshParts DEF Fresh
<1>2. /\ b.cells \in Cells /\ b.side \in Color /\ Follow(b.cells, b.bbColor, b.bbPieces)
      /\ b.bbColor \in ColorBitboards /\ b.bbPieces \in PieceBitboards
      /\ \A x \in Coord : b.cells[x] \in Cell
  BY <1>1, BoardFollows
<1>3. \A k \in Color : b.bbColor[k] \subseteq Coord
  BY <1>2 DEF ColorBitboards, Bitboard
<1>4. \A k \in Color : \A x : x \in b.bbColor[k] <=> x \in Coord /\ Own(k, b.cells[x])
  BY <1>2, <1>3 DEF Follow
<1>5. b.bbAll = b.bbColor[White] \cup b.bbColor[Black]
  BY FreshParts DEF Fresh
<1>6. ASSUME NEW x PROVE x \in b.bbAll <=> x \in Coord /\ b.cells[x] # EmptyCell
  <2>1. White \in Color /\ Black = Invert(White)
    BY DEF Color, White, Black, Invert
  <2>2. ASSUME x \in Coord
        PROVE  b.cells[x] # EmptyCell <=> Own(White, b.cells[x]) \/ Own(Black, b.cells[x])
    <3>1. b.cells[x] \in Cell
      BY <1>2, <2>2
    <3> QED
      BY <2>1, <3>1, Colors
  <2> QED
    BY <1>4, <1>5, <2>1, <2>2, Colors
<1>7. ASSUME NEW p \in Piece, NEW x
      PROVE  x \in Bb(b, c, p) <=> x \in Coord /\ b.cells[x] = MakeCell(c, p)
  <2>1. MakeCell(c, p) \in BbIndex /\ MakeCell(c, p) # EmptyCell
    BY Colors
  <2>2. b.bbPieces[MakeCell(c, p)] \subseteq Coord
    BY <1>2, <2>1 DEF PieceBitboards, Bitboard
  <2> QED
    BY <1>2, <2>1, <2>2 DEF Follow, Bb
<1> QED
  BY <1>1, <1>2, <1>4, <1>6, <1>7

(* What can be said of a simple move or a promotion to be made. *)
Steps(b, c, src, dst) ==
  /\ src \in Coord /\ dst \in Coord
  /\ Own(c, b.cells[src]) /\ ~Own(c, b.cells[dst])

(* A piece of the side to move may step to any cell its own do not hold. *)
LEMMA StepMakeable ==
  ASSUME NEW b, NEW src, NEW dst, Steps(b, b.side, src, dst)
  PROVE  Makeable(b, Move("Simple", src, dst))
BY DEF Steps, Makeable, Move, MoveKinds, PromoteKinds

(* So may a pawn, which promotes where its generator says so. *)
LEMMA PawnStepMakeable ==
  ASSUME NEW b, NEW src, NEW dst, NEW isPromote, Steps(b, b.side, src, dst),
         b.cells[src] = MakeCell(b.side, Pawn), NEW m \in PawnMoves(src, dst, isPromote)
  PROVE  Makeable(b, m)
<1>1. CASE m = Move("Simple", src, dst)
  BY <1>1, StepMakeable
<1>2. CASE \E k \in PromoteKinds : m = Move(k, src, dst)
  BY <1>2 DEF Steps, Makeable, Move, MoveKinds, PromoteKinds
<1> QED
  BY <1>1, <1>2 DEF PawnMoves

(* A pawn that arrives came from one step before. *)
LEMMA Shifted ==
  ASSUME NEW bb, bb \subseteq Coord, NEW delta \in Int, NEW dst \in Shift(bb, delta)
  PROVE  dst \in Coord /\ dst - delta \in bb /\ dst - delta \in Coord
<1>1. PICK x \in bb : dst = x + delta
  BY DEF Shift
<1>2. dst \in Coord /\ x \in Int
  BY DEF Shift, Coord
<1>3. dst - delta = x
  BY <1>1, <1>2
<1> QED
  BY <1>2, <1>3

(* A pawn advanced came from the cell one step behind. *)
LEMMA Advanced ==
  ASSUME NEW c \in Color, NEW bb, bb \subseteq Coord, NEW dst
  PROVE  /\ dst \in AdvancePawnForward(c, bb) =>
              dst \in Coord /\ dst - PawnForwardDelta(c) \in bb
         /\ dst \in AdvancePawnLeft(c, bb) =>
              dst \in Coord /\ dst - PawnLeftDelta(c) \in bb
         /\ dst \in AdvancePawnRight(c, bb) =>
              dst \in Coord /\ dst - PawnRightDelta(c) \in bb
<1>1. /\ PawnForwardDelta(c) \in Int /\ PawnLeftDelta(c) \in Int /\ PawnRightDelta(c) \in Int
      /\ bb \ BbCol[0] \subseteq Coord /\ bb \ BbCol[7] \subseteq Coord
  BY DEF PawnForwardDelta, PawnLeftDelta, PawnRightDelta
<1> QED
  BY <1>1, Shifted DEF AdvancePawnForward, AdvancePawnLeft, AdvancePawnRight

(* The single steps of pawns that are generated are makeable. *)
LEMMA SingleMakeable ==
  ASSUME NEW b, Fresh(b), NEW pawns, pawns \subseteq Bb(b, b.side, Pawn), NEW isPromote, NEW mask,
         NEW m \in DoGenPawnSingle(b, b.side, pawns, isPromote, mask)
  PROVE  Makeable(b, m)
<1> DEFINE c == b.side
           dsts == (AdvancePawnForward(c, pawns) \ b.bbAll) \cap mask
<1>1. PICK dst \in dsts : m \in PawnMoves(dst - PawnForwardDelta(c), dst, isPromote)
  BY DEF DoGenPawnSingle
<1> DEFINE src == dst - PawnForwardDelta(c)
<1>2. c \in Color
  BY BoardFields DEF Fresh
<1>3. /\ \A x : x \in b.bbAll <=> x \in Coord /\ b.cells[x] # EmptyCell
      /\ \A x : x \in Bb(b, c, Pawn) <=> x \in Coord /\ b.cells[x] = MakeCell(c, Pawn)
  BY <1>2, BitboardCells, PieceFacts
<1>4. pawns \subseteq Coord /\ dst \in AdvancePawnForward(c, pawns) /\ dst \notin b.bbAll
  BY <1>1, <1>3
<1>5. dst \in Coord /\ src \in pawns
  BY <1>2, <1>4, Advanced
<1>6. /\ src \in Coord /\ b.cells[src] = MakeCell(c, Pawn) /\ b.cells[dst] = EmptyCell
  BY <1>3, <1>4, <1>5
<1> HIDE DEF src
<1>7. Steps(b, c, src, dst)
  BY <1>2, <1>5, <1>6, Colors, PieceFacts DEF Steps
<1>8. m \in PawnMoves(src, dst, isPromote)
  BY <1>1 DEF src
<1> QED
  BY <1>6, <1>7, <1>8, PawnStepMakeable

(* The captures of pawns that are generated are makeable. *)
LEMMA CaptureMakeable ==
  ASSUME NEW b, Fresh(b), NEW pawns, pawns \subseteq Bb(b, b.side, Pawn), NEW isPromote, NEW mask,
         NEW m \in DoGenPawnCapture(b, b.side, pawns, isPromote, mask)
  PROVE  Makeable(b, m)
<1> DEFINE c == b.side
           d == Invert(c)
           left == (AdvancePawnLeft(c, pawns) \cap b.bbColor[d]) \cap mask
           right == (AdvancePawnRight(c, pawns) \cap b.bbColor[d]) \cap mask
<1>1. \/ \E dst \in left : m \in PawnMoves(dst - PawnLeftDelta(c), dst, isPromote)
      \/ \E dst \in right : m \in PawnMoves(dst - PawnRightDelta(c), dst, isPromote)
  BY DEF DoGenPawnCapture
<1>2. c \in Color /\ d \in Color
  BY BoardFields, Colors DEF Fresh
<1>3. /\ \A x : x \in b.bbColor[d] <=> x \in Coord /\ Own(d, b.cells[x])
      /\ \A x : x \in Bb(b, c, Pawn) <=> x \in Coord /\ b.cells[x] = MakeCell(c, Pawn)
  BY <1>2, BitboardCells, PieceFacts
<1>4. pawns \subseteq Coord
  BY <1>3
<1>5. ASSUME NEW src \in pawns, NEW dst \in Coord, dst \in b.bbColor[d],
             m \in PawnMoves(src, dst, isPromote)
      PROVE  Makeable(b, m)
  <2>1. b.cells[src] = MakeCell(c, Pawn) /\ src \in Coord
    BY <1>3, <1>5
  <2>2. Steps(b, c, src, dst)
    BY <1>2, <1>3, <1>5, <2>1, Colors, PieceFacts DEF Steps
  <2> QED
    BY <1>5, <2>1, <2>2, PawnStepMakeable
<1>6. CASE \E dst \in left : m \in PawnMoves(dst - PawnLeftDelta(c), dst, isPromote)
  <2>1. PICK dst \in left : m \in PawnMoves(dst - PawnLeftDelta(c), dst, isPromote)
    BY <1>6
  <2>2. dst \in Coord /\ dst - PawnLeftDelta(c) \in pawns
    BY <1>2, <1>4, <2>1, Advanced
  <2> QED
    BY <1>5, <2>1, <2>2
<1>7. CASE \E dst \in right : m \in PawnMoves(dst - PawnRightDelta(c), dst, isPromote)
  <2>1. PICK dst \in right : m \in PawnMoves(dst - PawnRightDelta(c), dst, isPromote)
    BY <1>7
  <2>2. dst \in Coord /\ dst - PawnRightDelta(c) \in pawns
    BY <1>2, <1>4, <2>1, Advanced
  <2> QED
    BY <1>5, <2>1, <2>2
<1> QED
  BY <1>1, <1>6, <1>7

(* The double steps of pawns that are generated are makeable. *)
LEMMA DoubleMakeable ==
  ASSUME NEW b, Fresh(b), NEW mask,
         NEW m \in DoGenPawnDouble(b, b.side, Bb(b, b.side, Pawn)
                                                \cap BbRow[DoubleMoveSrcRow(b.side)], mask)
  PROVE  Makeable(b, m)
<1> DEFINE c == b.side
           delta == PawnForwardDelta(c)
           pawns == Bb(b, c, Pawn) \cap BbRow[DoubleMoveSrcRow(c)]
           tmps == AdvancePawnForward(c, pawns) \ b.bbAll
           dsts == (AdvancePawnForward(c, tmps) \ b.bbAll) \cap mask
<1>1. PICK dst \in dsts : m = Move("PawnDoubleMove", dst - 2 * delta, dst)
  BY DEF DoGenPawnDouble
<1>2. c \in Color
  BY BoardFields DEF Fresh
<1>3. /\ \A x : x \in b.bbAll <=> x \in Coord /\ b.cells[x] # EmptyCell
      /\ \A x : x \in Bb(b, c, Pawn) <=> x \in Coord /\ b.cells[x] = MakeCell(c, Pawn)
  BY <1>2, BitboardCells, PieceFacts
<1>4. pawns \subseteq Coord /\ \A x \in pawns : CoordX(x) = DoubleMoveSrcRow(c)
  <2>1. DoubleMoveSrcRow(c) \in Subcoord
    BY <1>2 DEF Color, DoubleMoveSrcRow, Subcoord
  <2> QED
    BY <1>3, <2>1 DEF BbRow
<1> HIDE DEF pawns
<1>5. \A x : x \in AdvancePawnForward(c, pawns) => x \in Coord /\ x - delta \in pawns
  BY <1>2, <1>4, Advanced
<1>6. tmps \subseteq Coord
  BY <1>5
<1>7. dst \in Coord /\ dst - delta \in tmps /\ dst \notin b.bbAll
  <2>1. dst \in AdvancePawnForward(c, tmps) /\ dst \notin b.bbAll
    BY <1>1
  <2> HIDE DEF tmps
  <2> QED
    BY <1>2, <1>6, <2>1, Advanced
<1>8. (dst - delta) - delta \in pawns /\ dst - delta \in Coord /\ dst - delta \notin b.bbAll
  BY <1>5, <1>7
<1>9. delta \in Int /\ delta # 0 /\ dst \in Int
  BY <1>2, <1>7 DEF PawnForwardDelta, Coord
<1> DEFINE src == dst - 2 * delta
<1>10. src = (dst - delta) - delta /\ dst = src + 2 * delta /\ src + delta = dst - delta
       /\ src # dst
  BY <1>9
<1> HIDE DEF src, delta
<1>11. /\ src \in Coord /\ b.cells[src] = MakeCell(c, Pawn) /\ CoordX(src) = DoubleMoveSrcRow(c)
       /\ b.cells[dst] = EmptyCell /\ b.cells[src + delta] = EmptyCell
  <2>1. src \in pawns
    BY <1>8, <1>10
  <2> QED
    BY <1>3, <1>4, <1>7, <1>8, <1>10, <2>1 DEF pawns
<1>12. m.kind = "PawnDoubleMove" /\ m.src = src /\ m.dst = dst
  BY <1>1 DEF Move, src
<1> QED
  BY <1>7, <1>10, <1>11, <1>12 DEF Makeable, MoveKinds, PromoteKinds, delta

(* The captures en passant that are generated are makeable. *)
LEMMA EnpassantMakeable ==
  ASSUME NEW b, Fresh(b), NEW m \in GenPawnEnpassant(b, b.side)
  PROVE  Makeable(b, m)
<1> DEFINE c == b.side
           ep == b.enpassantCoord
           dst == ep + PawnForwardDelta(c)
<1>1. /\ ep # InvalidCoord
      /\ \/ CoordY(ep) # 0 /\ b.cells[ep - 1] = MakeCell(c, Pawn) /\ m = Move("Enpassant", ep - 1, dst)
         \/ CoordY(ep) # 7 /\ b.cells[ep + 1] = MakeCell(c, Pawn) /\ m = Move("Enpassant", ep + 1, dst)
  BY DEF GenPawnEnpassant
<1>2. c \in Color /\ ep \in Coord
  BY <1>1, BoardFields DEF Fresh, MaybeCoord
<1>3. EnpassantKept(b)
  BY FreshParts DEF Fresh
<1>4. b.cells[ep] = MakeCell(Invert(c), Pawn) /\ b.cells[dst] = EmptyCell
  BY <1>1, <1>3 DEF EnpassantKept, FixedEnpassant, InvalidCoord
<1>5. CoordX(ep) = EnpassantSrcRow(c)
  BY <1>1, <1>3 DEF EnpassantKept
<1>6. /\ dst \in Coord /\ EnpassantPawnPos(c, dst) = ep
      /\ CoordY(ep) # 0 => ep - 1 \in Coord /\ ep - 1 # dst
      /\ CoordY(ep) # 7 => ep + 1 \in Coord /\ ep + 1 # dst
  BY <1>2, <1>5 DEF Color, White, Black, Coord, CoordX, CoordY, EnpassantSrcRow,
                    PawnForwardDelta, EnpassantPawnPos
<1> HIDE DEF dst
<1>7. ASSUME NEW src \in Coord, src # dst, b.cells[src] = MakeCell(c, Pawn),
             m = Move("Enpassant", src, dst)
      PROVE  Makeable(b, m)
  BY <1>2, <1>4, <1>6, <1>7 DEF Makeable, Move, MoveKinds, PromoteKinds
<1> QED
  BY <1>1, <1>6, <1>7 DEF dst

(* A piece found in its bitboard may go where the generators allow. *)
LEMMA PieceMakeable ==
  ASSUME NEW b, Fresh(b), NEW src, NEW p \in Piece, src \in Bb(b, b.side, p),
         NEW dst \in GetAllowedMask(b, b.side, TRUE, TRUE)
  PROVE  Makeable(b, Move("Simple", src, dst))
<1> DEFINE c == b.side
<1>1. c \in Color
  BY BoardFields DEF Fresh
<1>2. /\ \A x : x \in b.bbColor[c] <=> x \in Coord /\ Own(c, b.cells[x])
      /\ src \in Coord /\ b.cells[src] = MakeCell(c, p)
  BY <1>1, BitboardCells
<1>3. dst \in Coord /\ ~Own(c, b.cells[dst])
  BY <1>2 DEF GetAllowedMask
<1>4. Steps(b, c, src, dst)
  BY <1>1, <1>2, <1>3, Colors DEF Steps
<1> QED
  BY <1>4, StepMakeable

(* Castling is generated only with the flag and the way clear. *)
LEMMA CastlingMakeable ==
  ASSUME NEW b, Fresh(b), NEW m \in GenCastling(b, b.side)
  PROVE  Makeable(b, m)
<1> DEFINE c == b.side
           o == CastlingOffset(c)
<1>1. PICK s \in {Kingside, Queenside} :
        /\ <<c, s>> \in b.castling /\ CastlingPass(c, s) \cap b.bbAll = {}
        /\ m = Move(IF s = Kingside THEN "CastlingKingside" ELSE "CastlingQueenside",
                    MakeCoord(CastlingRow(c), 4),
                    MakeCoord(CastlingRow(c), IF s = Kingside THEN 6 ELSE 2))
  BY DEF GenCastling
<1>2. c \in Color
  BY BoardFields DEF Fresh
<1>3. \A x : x \in b.bbAll <=> x \in Coord /\ b.cells[x] # EmptyCell
  BY <1>2, BitboardCells
<1>4. /\ o + 2 \in Coord /\ o + 3 \in Coord /\ o + 5 \in Coord /\ o + 6 \in Coord
      /\ m.src \in Coord /\ m.dst \in Coord /\ m.src # m.dst
  BY <1>1, <1>2 DEF Color, White, Black, CastlingOffset, CastlingRow, Coord, MakeCoord, Move
<1> DEFINE steps == IF s = Kingside THEN {5, 6} ELSE {1, 2, 3}
<1>5. \A k \in steps : o + k \notin b.bbAll
  BY <1>1 DEF CastlingPass
<1>6. CASE s = Kingside
  <2>1. o + 5 \notin b.bbAll /\ o + 6 \notin b.bbAll
    BY <1>5, <1>6
  <2>2. b.cells[o + 5] = EmptyCell /\ b.cells[o + 6] = EmptyCell
    BY <1>3, <1>4, <2>1
  <2>3. m.kind = "CastlingKingside"
    BY <1>1, <1>6 DEF Move
  <2> QED
    BY <1>1, <1>4, <1>6, <2>2, <2>3 DEF Makeable, MoveKinds, PromoteKinds
<1>7. CASE s = Queenside
  <2>1. o + 2 \notin b.bbAll /\ o + 3 \notin b.bbAll
    BY <1>5, <1>7 DEF Kingside, Queenside
  <2>2. b.cells[o + 2] = EmptyCell /\ b.cells[o + 3] = EmptyCell
    BY <1>3, <1>4, <2>1
  <2>3. m.kind = "CastlingQueenside"
    BY <1>1, <1>7 DEF Move, Kingside, Queenside
  <2> QED
    BY <1>1, <1>4, <1>7, <2>2, <2>3 DEF Makeable, MoveKinds, PromoteKinds
<1> QED
  BY <1>6, <1>7

(* The moves of the other pieces that are generated are makeable. *)
LEMMA PieceMovesMakeable ==
  ASSUME NEW b, Fresh(b), NEW mask, NEW m,
         LET c == b.side
             allowed == GetAllowedMask(b, c, TRUE, TRUE)
         IN  \/ m \in GenKnightOrKing(b, c, King, allowed, mask)
             \/ m \in GenKnightOrKing(b, c, Knight, allowed, mask)
             \/ m \in GenBishopOrRook(b, Bishop, BbDiagPieces(b, c), allowed, mask)
             \/ m \in GenBishopOrRook(b, Rook, BbLinePieces(b, c), allowed, mask)
  PROVE  Makeable(b, m)
<1> DEFINE c == b.side
           allowed == GetAllowedMask(b, c, TRUE, TRUE)
<1>1. ASSUME NEW p \in Piece, m \in GenKnightOrKing(b, c, p, allowed, mask)
      PROVE  \E src \in Bb(b, c, p) : \E dst \in allowed : m = Move("Simple", src, dst)
  BY <1>1 DEF GenKnightOrKing
<1>2. ASSUME NEW p, NEW srcs, m \in GenBishopOrRook(b, p, srcs, allowed, mask)
      PROVE  \E src \in srcs : \E dst \in allowed : m = Move("Simple", src, dst)
  BY <1>2 DEF GenBishopOrRook
<1>3. \A src \in BbDiagPieces(b, c) \cup BbLinePieces(b, c) : \E p \in Piece : src \in Bb(b, c, p)
  BY PieceFacts DEF BbDiagPieces, BbLinePieces
<1> HIDE DEF allowed
<1>4. \/ \E p \in Piece : m \in GenKnightOrKing(b, c, p, allowed, mask)
      \/ \E p : \E srcs \in {BbDiagPieces(b, c), BbLinePieces(b, c)} :
           m \in GenBishopOrRook(b, p, srcs, allowed, mask)
  BY PieceFacts DEF allowed
<1>5. PICK p \in Piece : \E src \in Bb(b, c, p) : \E dst \in allowed : m = Move("Simple", src, dst)
  <2>1. CASE \E p \in Piece : m \in GenKnightOrKing(b, c, p, allowed, mask)
    BY <1>1, <2>1
  <2>2. CASE \E p : \E srcs \in {BbDiagPieces(b, c), BbLinePieces(b, c)} :
               m \in GenBishopOrRook(b, p, srcs, allowed, mask)
    <3>1. PICK srcs \in {BbDiagPieces(b, c), BbLinePieces(b, c)} :
            \E src \in srcs : \E dst \in allowed : m = Move("Simple", src, dst)
      BY <1>2, <2>2
    <3> QED
      BY <1>3, <3>1
  <2> QED
    BY <1>4, <2>1, <2>2
<1> QED
  BY <1>5, PieceMakeable DEF allowed

(* All the moves of pawns that are generated are makeable. *)
LEMMA PawnMovesMakeable ==
  ASSUME NEW b, Fresh(b), NEW mask, NEW m,
         \/ m \in GenPawnSimple(b, b.side, "All", mask)
         \/ m \in GenPawnCapture(b, b.side, mask)
         \/ m \in GenPawnEnpassant(b, b.side)
  PROVE  Makeable(b, m)
<1> DEFINE c == b.side
           pawns == Bb(b, c, Pawn)
           promoting == pawns \cap BbRow[PromoteSrcRow(c)]
           doubling == pawns \cap BbRow[DoubleMoveSrcRow(c)]
<1>1. pawns \ promoting \subseteq pawns /\ promoting \subseteq pawns
  OBVIOUS
<1> HIDE DEF promoting
<1>2. m \in GenPawnSimple(b, c, "All", mask) =>
        \/ m \in DoGenPawnSingle(b, c, pawns \ promoting, FALSE, mask)
        \/ m \in DoGenPawnDouble(b, c, doubling, mask)
        \/ m \in DoGenPawnSingle(b, c, promoting, TRUE, mask)
  BY DEF GenPawnSimple, promoting
<1>3. m \in GenPawnCapture(b, c, mask) =>
        \/ m \in DoGenPawnCapture(b, c, pawns \ promoting, FALSE, mask)
        \/ m \in DoGenPawnCapture(b, c, promoting, TRUE, mask)
  BY DEF GenPawnCapture, promoting
<1> QED
  BY <1>1, <1>2, <1>3, SingleMakeable, DoubleMakeable, CaptureMakeable, EnpassantMakeable

(* moveMake() may be given what genAllMoves() writes, and the null move. *)
THEOREM GeneratedMakeable ==
  ASSUME NEW b, Fresh(b), NEW m \in GenAllMoves(b) \cup {NullMove}
  PROVE  Makeable(b, m)
<1> DEFINE c == b.side
           check == Check(b)
           allowed == GetAllowedMask(b, c, TRUE, TRUE)
           parts == GenParts(b, TRUE, TRUE, TRUE)
           king == GenKnightOrKing(b, c, King, allowed, Coord)
           g1 == GenPawnSimple(b, c, "All", check.mask)
           g2 == GenPawnCapture(b, c, check.mask)
           g3 == GenPawnEnpassant(b, c)
           g5 == GenKnightOrKing(b, c, Knight, allowed, check.mask)
           g6 == GenBishopOrRook(b, Bishop, BbDiagPieces(b, c), allowed, check.mask)
           g7 == GenBishopOrRook(b, Rook, BbLinePieces(b, c), allowed, check.mask)
           g8 == IF check.kind = "None" THEN GenCastling(b, c) ELSE {}
<1>1. CASE m = NullMove
  BY <1>1 DEF NullMove, Move, Makeable, MoveKinds, PromoteKinds, Coord
<1>2. CASE m \in GenAllMoves(b)
  <2>1. parts = IF check.kind = "Double" THEN <<king>>
                ELSE <<g1, g2, g3, king, g5, g6, g7, g8>>
    BY DEF GenParts, GenImpl, GenInner
  <2>2. \E i \in DOMAIN parts : m \in parts[i]
    BY <1>2 DEF GenAllMoves, Collect
  <2> HIDE DEF parts, king, g1, g2, g3, g5, g6, g7, g8
  <2>3. \/ m \in king \/ m \in g1 \/ m \in g2 \/ m \in g3 \/ m \in g5 \/ m \in g6 \/ m \in g7
        \/ m \in g8
    BY <2>1, <2>2
  <2>4. CASE m \in g1 \/ m \in g2 \/ m \in g3
    BY <2>4, PawnMovesMakeable DEF g1, g2, g3
  <2>5. CASE m \in king \/ m \in g5 \/ m \in g6 \/ m \in g7
    BY <2>5, PieceMovesMakeable DEF king, g5, g6, g7
  <2>6. CASE m \in g8
    BY <2>6, CastlingMakeable DEF g8
  <2> QED
    BY <2>3, <2>4, <2>5, <2>6
<1> QED
  BY <1>1, <1>2

-----------------------------------------------------------------------------
(* Rows, columns and rays *)

LEMMA CoordParts ==
  /\ \A x, y \in Subcoord : /\ MakeCoord(x, y) \in Coord
                            /\ CoordX(MakeCoord(x, y)) = x /\ CoordY(MakeCoord(x, y)) = y
  /\ \A c \in Coord : /\ CoordX(c) \in Subcoord /\ CoordY(c) \in Subcoord
                      /\ MakeCoord(CoordX(c), CoordY(c)) = c
BY DEF Coord, Subcoord, MakeCoord, CoordX, CoordY

(* The k-th cell from c in a direction, and whether the board has it. *)
Along(c, d, k) == MakeCoord(CoordX(c) + k * d[1], CoordY(c) + k * d[2])
Reaches(c, d, k) == OnBoard(CoordX(c) + k * d[1], CoordY(c) + k * d[2])
Directions == RookDirections \union BishopDirections

LEMMA DirectionParts ==
  ASSUME NEW d \in Directions
  PROVE  /\ d = <<d[1], d[2]>> /\ d[1] \in {-1, 0, 1} /\ d[2] \in {-1, 0, 1}
         /\ d \in RookDirections => (d[1] = 0 <=> d[2] # 0)
         /\ d \in BishopDirections => d[1] # 0 /\ d[2] # 0
BY DEF Directions, RookDirections, BishopDirections

(* How far a coordinate can go in one direction. *)
Room(a, x) == IF a = 1 THEN 7 - x ELSE IF a = -1 THEN x ELSE 7

LEMMA RoomLimits ==
  ASSUME NEW x \in Subcoord, NEW a \in {-1, 0, 1}, NEW k \in 0..7
  PROVE  /\ k * a \in {-k, 0, k} /\ (a = 1 => k * a = k) /\ (a = -1 => k * a = -k)
         /\ (a = 0 => k * a = 0)
         /\ x + k * a \in Subcoord <=> k <= Room(a, x)
         /\ Room(a, x) \in 0..7
<1>1. CASE a = 1
  BY <1>1 DEF Subcoord, Room
<1>2. CASE a = -1
  BY <1>2 DEF Subcoord, Room
<1>3. CASE a = 0
  BY <1>3 DEF Subcoord, Room
<1> QED
  BY <1>1, <1>2, <1>3

(* Before the end of a line that moves a coordinate, it is not on the edge. *)
LEMMA RoomInside ==
  ASSUME NEW x \in Subcoord, NEW a \in {-1, 1}, NEW k \in 1..7, NEW j \in 1..(k - 1),
         x + k * a \in Subcoord
  PROVE  x + j * a \in 1..6 /\ x + j * a # x
<1>1. CASE a = 1
  BY <1>1 DEF Subcoord
<1>2. CASE a = -1
  BY <1>2 DEF Subcoord
<1> QED
  BY <1>1, <1>2

(* A ray has the cells that the board has, in their order. *)
LEMMA RayCells ==
  ASSUME NEW c \in Coord, NEW d \in Directions
  PROVE  /\ DOMAIN Ray[d][c] = {k \in 1..7 : Reaches(c, d, k)}
         /\ \A k \in 1..7 : Reaches(c, d, k) => Ray[d][c][k] = Along(c, d, k)
         /\ \A k \in 1..7 : \A j \in 1..k : Reaches(c, d, k) => Reaches(c, d, j)
<1> DEFINE x == CoordX(c)
           y == CoordY(c)
           n == IF Room(d[1], x) < Room(d[2], y) THEN Room(d[1], x) ELSE Room(d[2], y)
<1>1. x \in Subcoord /\ y \in Subcoord
  BY CoordParts
<1>2. d[1] \in {-1, 0, 1} /\ d[2] \in {-1, 0, 1}
  BY DirectionParts
<1>3. \A k \in 1..7 : Reaches(c, d, k) <=> k <= Room(d[1], x) /\ k <= Room(d[2], y)
  <2> TAKE k \in 1..7
  <2>1. x + k * d[1] \in Subcoord <=> k <= Room(d[1], x)
    BY <1>1, <1>2, RoomLimits
  <2>2. y + k * d[2] \in Subcoord <=> k <= Room(d[2], y)
    BY <1>1, <1>2, RoomLimits
  <2> QED
    BY <2>1, <2>2 DEF Reaches, OnBoard
<1>4. Room(d[1], x) \in 0..7 /\ Room(d[2], y) \in 0..7
  BY <1>1, <1>2, RoomLimits
<1>5. n \in 0..7 /\ \A k \in 1..7 : Reaches(c, d, k) <=> k <= n
  BY <1>3, <1>4
<1>6. {k \in 1..7 : Reaches(c, d, k)} = 1..n
  BY <1>5
<1>7. RayLength(c, d) = n
  <2>1. Cardinality(1..n) = n
    BY <1>5, FS_Interval
  <2>2. RayLength(c, d) = Cardinality({k \in 1..7 : Reaches(c, d, k)})
    BY DEF RayLength, Reaches
  <2> QED
    BY <1>6, <2>1, <2>2
<1>8. Ray[d][c] = [k \in 1..n |-> Along(c, d, k)]
  BY <1>7 DEF Ray, Directions, Along
<1> HIDE DEF n
<1> QED
  BY <1>5, <1>6, <1>8

(* The cells of a ray that are attacked: up to the first occupied one. *)
LEMMA RayAttackCells ==
  ASSUME NEW c \in Coord, NEW d \in Directions, NEW occupied, NEW e
  PROVE  e \in RayAttack(occupied, Ray[d][c]) <=>
           \E k \in 1..7 : /\ Reaches(c, d, k) /\ e = Along(c, d, k)
                           /\ \A j \in 1..(k - 1) : Along(c, d, j) \notin occupied
<1>1. PICK ray : ray = Ray[d][c]
  OBVIOUS
<1>2. /\ DOMAIN ray = {k \in 1..7 : Reaches(c, d, k)}
      /\ \A k \in 1..7 : Reaches(c, d, k) => ray[k] = Along(c, d, k)
      /\ \A k \in 1..7 : \A j \in 1..k : Reaches(c, d, k) => Reaches(c, d, j)
  BY <1>1, RayCells
<1>3. ASSUME NEW k \in 1..7, Reaches(c, d, k)
      PROVE  (\A j \in 1..(k - 1) : ray[j] \notin occupied)
               <=> (\A j \in 1..(k - 1) : Along(c, d, j) \notin occupied)
  <2>1. \A j \in 1..(k - 1) : j \in 1..7 /\ j \in 1..k
    OBVIOUS
  <2>2. \A j \in 1..(k - 1) : ray[j] = Along(c, d, j)
    BY <1>2, <1>3, <2>1
  <2> QED
    BY <2>2
<1> QED
  BY <1>1, <1>2, <1>3 DEF RayAttack

(* Only the occupancy of cells before the end of a ray matters. *)
LEMMA RayAttackMasked ==
  ASSUME NEW c \in Coord, NEW d \in Directions, NEW occupied, NEW mask,
         \A k \in 1..7 : \A j \in 1..(k - 1) : Reaches(c, d, k) => Along(c, d, j) \in mask
  PROVE  RayAttack(occupied \intersect mask, Ray[d][c]) = RayAttack(occupied, Ray[d][c])
<1> SUFFICES ASSUME NEW e
             PROVE  e \in RayAttack(occupied \intersect mask, Ray[d][c])
                      <=> e \in RayAttack(occupied, Ray[d][c])
  OBVIOUS
<1> QED
  BY RayAttackCells, SMTT(30)

(* A cell of a ray, in coordinates: m rows and n columns away. *)
LEMMA AlongParts ==
  ASSUME NEW c \in Coord, NEW d \in Directions, NEW k \in 1..7, Reaches(c, d, k)
  PROVE  /\ Along(c, d, k) \in Coord
         /\ CoordX(Along(c, d, k)) = CoordX(c) + k * d[1]
         /\ CoordY(Along(c, d, k)) = CoordY(c) + k * d[2]
BY CoordParts DEF Along, Reaches, OnBoard

LEMMA AlongAway ==
  ASSUME NEW c \in Coord, NEW d \in Directions, NEW k \in 1..7, Reaches(c, d, k)
  PROVE  \E m, n \in {-k, 0, k} :
           /\ CoordX(Along(c, d, k)) = CoordX(c) + m
           /\ CoordY(Along(c, d, k)) = CoordY(c) + n
           /\ d \in RookDirections => (m = 0 <=> n # 0)
           /\ d \in BishopDirections => m # 0 /\ n # 0
<1>1. PICK a, b \in {-1, 0, 1} : a = d[1] /\ b = d[2]
  BY DirectionParts
<1>2. \A t \in {-1, 0, 1} : k * t \in {-k, 0, k} /\ (k * t = 0 <=> t = 0)
  <2>1. k * 1 = k /\ k * (-1) = -k /\ k * 0 = 0
    OBVIOUS
  <2> QED
    BY <2>1
<1>3. /\ CoordX(Along(c, d, k)) = CoordX(c) + k * a
      /\ CoordY(Along(c, d, k)) = CoordY(c) + k * b
  BY <1>1, AlongParts
<1>4. /\ d \in RookDirections => (a = 0 <=> b # 0)
      /\ d \in BishopDirections => a # 0 /\ b # 0
  BY <1>1, DirectionParts
<1>5. k * a \in {-k, 0, k} /\ k * b \in {-k, 0, k} /\ (k * a = 0 <=> a = 0) /\ (k * b = 0 <=> b = 0)
  BY <1>2
<1> QED
  BY <1>3, <1>4, <1>5
-----------------------------------------------------------------------------
(* The magic tables *)

LEMMA LineCells ==
  ASSUME NEW e \in Coord, NEW x \in Subcoord
  PROVE  (e \in BbRow[x] <=> CoordX(e) = x) /\ (e \in BbCol[x] <=> CoordY(e) = x)
BY DEF BbRow, BbCol

LEMMA FrameCells ==
  ASSUME NEW e \in Coord
  PROVE  /\ e \in RowFrame <=> CoordY(e) \in {0, 7}
         /\ e \in ColFrame <=> CoordX(e) \in {0, 7}
<1>1. 0 \in Subcoord /\ 7 \in Subcoord
  BY DEF Subcoord
<1>2. /\ e \in BbRow[0] <=> CoordX(e) = 0
      /\ e \in BbCol[0] <=> CoordY(e) = 0
  BY <1>1, LineCells
<1>3. /\ e \in BbRow[7] <=> CoordX(e) = 7
      /\ e \in BbCol[7] <=> CoordY(e) = 7
  BY <1>1, LineCells
<1> QED
  BY <1>2, <1>3 DEF RowFrame, ColFrame

LEMMA Diagonals ==
  ASSUME NEW c \in Coord, NEW e \in Coord
  PROVE  /\ e \in BbDiag1[CoordDiag1(c)]
              <=> CoordX(e) + CoordY(e) = CoordX(c) + CoordY(c)
         /\ e \in BbDiag2[CoordDiag2(c)]
              <=> CoordY(e) - CoordX(e) = CoordY(c) - CoordX(c)
<1>1. /\ CoordX(c) \in 0..7 /\ CoordY(c) \in 0..7 /\ CoordX(e) \in 0..7 /\ CoordY(e) \in 0..7
  BY CoordParts DEF Subcoord
<1>2. CoordDiag1(c) \in 0..14 /\ CoordDiag2(c) \in 0..14
  BY <1>1 DEF CoordDiag1, CoordDiag2
<1>3. /\ e \in BbDiag1[CoordDiag1(c)] <=> CoordDiag1(e) = CoordDiag1(c)
      /\ e \in BbDiag2[CoordDiag2(c)] <=> CoordDiag2(e) = CoordDiag2(c)
  BY <1>2 DEF BbDiag1, BbDiag2
<1>4. /\ CoordDiag1(e) = CoordDiag1(c) <=> CoordX(e) + CoordY(e) = CoordX(c) + CoordY(c)
      /\ CoordDiag2(e) = CoordDiag2(c) <=> CoordY(e) - CoordX(e) = CoordY(c) - CoordX(c)
  BY <1>1 DEF CoordDiag1, CoordDiag2
<1> QED
  BY <1>3, <1>4

(* The post-masks: the lines of a cell without it. *)
LEMMA PostMaskCells ==
  ASSUME NEW c \in Coord, NEW e \in Coord
  PROVE  /\ e \in RookPostMask[c] <=>
              (CoordX(e) = CoordX(c) <=> CoordY(e) # CoordY(c))
         /\ e \in BishopPostMask[c] <=>
              (CoordX(e) + CoordY(e) = CoordX(c) + CoordY(c)
                 <=> CoordY(e) - CoordX(e) # CoordY(c) - CoordX(c))
<1>1. CoordX(c) \in Subcoord /\ CoordY(c) \in Subcoord
  BY CoordParts
<1>2. /\ e \in BbRow[CoordX(c)] <=> CoordX(e) = CoordX(c)
      /\ e \in BbCol[CoordY(c)] <=> CoordY(e) = CoordY(c)
  <2>1. PICK x, y \in Subcoord : x = CoordX(c) /\ y = CoordY(c)
    BY <1>1
  <2>2. (e \in BbRow[x] <=> CoordX(e) = x) /\ (e \in BbCol[y] <=> CoordY(e) = y)
    BY LineCells
  <2> QED
    BY <2>1, <2>2
<1>3. e \in RookPostMask[c] <=> e \in Xor(BbRow[CoordX(c)], BbCol[CoordY(c)])
  BY DEF RookPostMask
<1>4. e \in BishopPostMask[c] <=> e \in Xor(BbDiag1[CoordDiag1(c)], BbDiag2[CoordDiag2(c)])
  BY DEF BishopPostMask
<1>5. \A A, B : e \in Xor(A, B) <=> (e \in A <=> e \notin B)
  BY DEF Xor
<1>6. e \in RookPostMask[c] <=> (CoordX(e) = CoordX(c) <=> CoordY(e) # CoordY(c))
  BY <1>2, <1>3, <1>5
<1>7. e \in BishopPostMask[c] <=>
        (CoordX(e) + CoordY(e) = CoordX(c) + CoordY(c)
           <=> CoordY(e) - CoordX(e) # CoordY(c) - CoordX(c))
  BY <1>4, <1>5, Diagonals
<1> QED
  BY <1>6, <1>7

(* The masks hold all the cells of a ray but the last, and the post-masks *)
(* all of them.                                                           *)
LEMMA RookMaskCells ==
  ASSUME NEW c \in Coord, NEW d \in RookDirections, NEW k \in 1..7, Reaches(c, d, k)
  PROVE  /\ Along(c, d, k) \in RookPostMask[c]
         /\ \A j \in 1..(k - 1) : Along(c, d, j) \in RookMask[c]
<1>1. d \in Directions
  BY DEF Directions
<1>2. PICK x, y \in Subcoord : x = CoordX(c) /\ y = CoordY(c)
  BY CoordParts
<1>3. Along(c, d, k) \in RookPostMask[c]
  <2>1. PICK m, n \in {-k, 0, k} :
          /\ CoordX(Along(c, d, k)) = x + m
          /\ CoordY(Along(c, d, k)) = y + n
          /\ m = 0 <=> n # 0
    BY <1>1, <1>2, AlongAway
  <2>2. x + m = x <=> y + n # y
    BY <2>1 DEF Subcoord
  <2>3. Along(c, d, k) \in Coord
    BY <1>1, AlongParts
  <2> QED
    BY <1>2, <2>1, <2>2, <2>3, PostMaskCells
<1>4. ASSUME NEW j \in 1..(k - 1) PROVE Along(c, d, j) \in RookMask[c]
  <2>1. PICK e : e = Along(c, d, j)
    OBVIOUS
  <2>2. j \in 1..7 /\ Reaches(c, d, j)
    BY <1>1, RayCells
  <2>3. e \in Coord /\ CoordX(e) = x + j * d[1] /\ CoordY(e) = y + j * d[2]
    BY <1>1, <1>2, <2>1, <2>2, AlongParts
  <2>4. x + k * d[1] \in Subcoord /\ y + k * d[2] \in Subcoord
    BY <1>2 DEF Reaches, OnBoard
  <2>5. d[1] \in {-1, 0, 1} /\ d[2] \in {-1, 0, 1} /\ (d[1] = 0 <=> d[2] # 0)
    BY <1>1, DirectionParts
  <2>6. \/ CoordX(e) = x /\ CoordY(e) \in 1..6 /\ CoordY(e) # y
        \/ CoordY(e) = y /\ CoordX(e) \in 1..6 /\ CoordX(e) # x
    <3>1. CASE d[1] = 0
      <4>1. y + j * d[2] \in 1..6 /\ y + j * d[2] # y
        BY <2>4, <2>5, <3>1, RoomInside
      <4>2. x + j * d[1] = x
        BY <3>1 DEF Subcoord
      <4> QED
        BY <2>3, <4>1, <4>2
    <3>2. CASE d[1] # 0
      <4>1. x + j * d[1] \in 1..6 /\ x + j * d[1] # x
        BY <2>4, <2>5, <3>2, RoomInside
      <4>2. y + j * d[2] = y
        BY <2>5, <3>2 DEF Subcoord
      <4> QED
        BY <2>3, <4>1, <4>2
    <3> QED
      BY <3>1, <3>2
  <2>7. /\ e \in BbRow[x] <=> CoordX(e) = x
        /\ e \in BbCol[y] <=> CoordY(e) = y
        /\ e \in RowFrame <=> CoordY(e) \in {0, 7}
        /\ e \in ColFrame <=> CoordX(e) \in {0, 7}
    BY <2>3, LineCells, FrameCells
  <2>8. e # c
    BY <1>2, <2>6
  <2>9. RookMask[c] = ((BbRow[x] \ RowFrame) \union (BbCol[y] \ ColFrame)) \ {c}
    BY <1>2 DEF RookMask
  <2> QED
    BY <2>1, <2>6, <2>7, <2>8, <2>9
<1> QED
  BY <1>3, <1>4

LEMMA BishopMaskCells ==
  ASSUME NEW c \in Coord, NEW d \in BishopDirections, NEW k \in 1..7, Reaches(c, d, k)
  PROVE  /\ Along(c, d, k) \in BishopPostMask[c]
         /\ \A j \in 1..(k - 1) : Along(c, d, j) \in BishopMask[c]
<1>1. d \in Directions
  BY DEF Directions
<1>2. PICK x, y \in Subcoord : x = CoordX(c) /\ y = CoordY(c)
  BY CoordParts
<1>3. ASSUME NEW j \in 1..k PROVE Along(c, d, j) \in BishopPostMask[c]
  <2>1. j \in 1..7 /\ Reaches(c, d, j)
    BY <1>1, RayCells
  <2>2. PICK m, n \in {-j, 0, j} :
          /\ CoordX(Along(c, d, j)) = x + m
          /\ CoordY(Along(c, d, j)) = y + n
          /\ m # 0 /\ n # 0
    BY <1>1, <1>2, <2>1, AlongAway
  <2>3. (x + m) + (y + n) = x + y <=> (y + n) - (x + m) # y - x
    BY <2>2 DEF Subcoord
  <2>4. Along(c, d, j) \in Coord
    BY <1>1, <2>1, AlongParts
  <2> QED
    BY <1>2, <2>2, <2>3, <2>4, PostMaskCells
<1>4. ASSUME NEW j \in 1..(k - 1) PROVE Along(c, d, j) \in BishopMask[c]
  <2>1. PICK e : e = Along(c, d, j)
    OBVIOUS
  <2>2. j \in 1..7 /\ j \in 1..k /\ Reaches(c, d, j)
    BY <1>1, RayCells
  <2>3. e \in Coord /\ CoordX(e) = x + j * d[1] /\ CoordY(e) = y + j * d[2]
    BY <1>1, <1>2, <2>1, <2>2, AlongParts
  <2>4. x + k * d[1] \in Subcoord /\ y + k * d[2] \in Subcoord
    BY <1>2 DEF Reaches, OnBoard
  <2>5. d[1] \in {-1, 1} /\ d[2] \in {-1, 1}
    BY <1>1, DirectionParts
  <2>6. CoordX(e) \in 1..6 /\ CoordY(e) \in 1..6
    BY <2>3, <2>4, <2>5, RoomInside
  <2>7. e \notin RowFrame /\ e \notin ColFrame
    BY <2>3, <2>6, FrameCells
  <2>8. e \in BishopPostMask[c]
    BY <1>3, <2>1, <2>2
  <2> QED
    BY <2>1, <2>7, <2>8 DEF BishopMask
<1> QED
  BY <1>2, <1>3, <1>4

LEMMA CoordsFinite ==
  ASSUME NEW T \in SUBSET Coord
  PROVE  IsFiniteSet(T) /\ Cardinality(T) \in Nat
<1>1. 0 \in Int /\ 63 \in Int
  OBVIOUS
<1>2. IsFiniteSet(Coord)
  BY <1>1, FS_Interval DEF Coord
<1>3. IsFiniteSet(T)
  BY <1>2, FS_Subset
<1> QED
  BY <1>3, FS_CardinalityType

(* The rank of a cell in a mask tells it from the others. *)
Rank(mask, c) == Cardinality({d \in mask : d < c})

LEMMA RankGrows ==
  ASSUME NEW mask \in SUBSET Coord
  PROVE  /\ \A c \in mask : Rank(mask, c) < Cardinality(mask)
         /\ \A c, e \in mask : c < e => Rank(mask, c) < Rank(mask, e)
<1>1. IsFiniteSet(mask)
  BY CoordsFinite
<1>2. ASSUME NEW c \in mask, NEW S \in SUBSET mask, {d \in mask : d < c} \subseteq S, c \in S
      PROVE  Rank(mask, c) < Cardinality(S)
  <2> DEFINE T == {d \in mask : d < c}
  <2>1. IsFiniteSet(S) /\ T \in SUBSET S
    <3>1. IsFiniteSet(S)
      BY <1>1, FS_Subset
    <3> QED
      BY <1>2, <3>1
  <2>2. c \notin T
    BY DEF Coord
  <2> HIDE DEF T
  <2>3. IsFiniteSet(T) /\ Cardinality(T) <= Cardinality(S)
        /\ Cardinality(T) # Cardinality(S)
    <3>1. /\ IsFiniteSet(T) /\ Cardinality(T) <= Cardinality(S)
          /\ Cardinality(S) = Cardinality(T) => S = T
      BY <2>1, FS_Subset
    <3> QED
      BY <1>2, <2>2, <3>1
  <2>4. Cardinality(T) \in Nat /\ Cardinality(S) \in Nat
    BY <2>1, <2>3, FS_CardinalityType
  <2> QED
    BY <2>3, <2>4 DEF Rank, T
<1>3. ASSUME NEW c \in mask, NEW e \in mask, c < e PROVE Rank(mask, c) < Rank(mask, e)
  <2> DEFINE S == {d \in mask : d < e}
  <2>0. mask \subseteq Int
    BY DEF Coord
  <2>1. S \in SUBSET mask /\ {d \in mask : d < c} \subseteq S /\ c \in S
    <3>1. \A d \in mask : d < c => d < e
      BY <1>3, <2>0
    <3> QED
      BY <1>3, <3>1
  <2> HIDE DEF S
  <2>2. Rank(mask, c) < Cardinality(S)
    BY <1>2, <2>1
  <2> QED
    BY <2>2 DEF Rank, S
<1>4. ASSUME NEW c \in mask PROVE Rank(mask, c) < Cardinality(mask)
  BY <1>2
<1> QED
  BY <1>3, <1>4

(* So the index of an occupancy, put back, is the occupancy of the mask, and *)
(* each cell fills the entries of its own indices.                           *)
LEMMA IndexPutBack ==
  ASSUME NEW mask \in SUBSET Coord, NEW occupied
  PROVE  Deposit(Pext(occupied, mask), mask) = occupied \intersect mask
<1>1. \A c, e \in mask : Rank(mask, c) = Rank(mask, e) => c = e
  <2> SUFFICES ASSUME NEW c \in mask, NEW e \in mask, Rank(mask, c) = Rank(mask, e)
               PROVE  c = e
    OBVIOUS
  <2>1. c \in Int /\ e \in Int
    BY DEF Coord
  <2>2. Rank(mask, c) \in Nat /\ Rank(mask, e) \in Nat
    <3>1. {d \in mask : d < c} \in SUBSET Coord /\ {d \in mask : d < e} \in SUBSET Coord
      OBVIOUS
    <3> QED
      BY <3>1, CoordsFinite DEF Rank
  <2> QED
    BY <2>1, <2>2, RankGrows
<1>2. /\ Pext(occupied, mask) = {Rank(mask, c) : c \in occupied \intersect mask}
      /\ Deposit(Pext(occupied, mask), mask)
           = {c \in mask : Rank(mask, c) \in Pext(occupied, mask)}
  BY DEF Pext, Deposit, Rank
<1> QED
  BY <1>1, <1>2

LEMMA FillsOwnEntry ==
  ASSUME NEW c \in Coord, NEW group, c \in group, NEW masks, masks[c] \in SUBSET Coord,
         NEW occupied
  PROVE  c \in Fillers(group, masks, Pext(occupied, masks[c]))
<1>1. PICK mask : mask = masks[c]
  OBVIOUS
<1>2. Pext(occupied, mask) = {Rank(mask, e) : e \in occupied \intersect mask}
  BY DEF Pext, Rank
<1>3. \A i \in Pext(occupied, mask) : i < Cardinality(mask)
  BY <1>1, <1>2, RankGrows
<1> QED
  BY <1>1, <1>3 DEF Fillers

(* The cells next to a cell on its lines are attacked whatever stands where. *)
LEMMA NextAttacked ==
  ASSUME NEW c \in Coord, NEW e \in Coord, NEW d \in Directions, NEW occupied,
         CoordX(e) = CoordX(c) + d[1], CoordY(e) = CoordY(c) + d[2]
  PROVE  e \in RayAttack(occupied, Ray[d][c])
<1>1. d[1] \in {-1, 0, 1} /\ d[2] \in {-1, 0, 1}
  BY DirectionParts
<1>2. 1 * d[1] = d[1] /\ 1 * d[2] = d[2]
  BY <1>1
<1>3. CoordX(e) \in Subcoord /\ CoordY(e) \in Subcoord /\ MakeCoord(CoordX(e), CoordY(e)) = e
  BY CoordParts
<1>4. Reaches(c, d, 1) /\ Along(c, d, 1) = e
  BY <1>2, <1>3 DEF Reaches, OnBoard, Along
<1>5. 1 \in 1..7 /\ 1..(1 - 1) = {}
  OBVIOUS
<1> QED
  BY <1>4, <1>5, RayAttackCells

LEMMA NextToRook ==
  ASSUME NEW c \in Coord, NEW e \in Coord, NEW occupied,
         \/ CoordX(e) = CoordX(c) /\ CoordY(e) - CoordY(c) \in {-1, 1}
         \/ CoordY(e) = CoordY(c) /\ CoordX(e) - CoordX(c) \in {-1, 1}
  PROVE  e \in RookAttack(occupied, c)
<1>1. PICK x, y, p, q \in Subcoord : /\ x = CoordX(c) /\ y = CoordY(c)
                                     /\ p = CoordX(e) /\ q = CoordY(e)
  BY CoordParts
<1>2. PICK d \in RookDirections : p = x + d[1] /\ q = y + d[2]
  <2>1. \A d \in {<<-1, 0>>, <<1, 0>>, <<0, -1>>, <<0, 1>>} : d \in RookDirections
    BY DEF RookDirections
  <2>2. CASE p = x /\ q - y = -1
    BY <1>1, <2>1, <2>2 DEF Subcoord
  <2>3. CASE p = x /\ q - y = 1
    BY <1>1, <2>1, <2>3 DEF Subcoord
  <2>4. CASE q = y /\ p - x = -1
    BY <1>1, <2>1, <2>4 DEF Subcoord
  <2>5. CASE q = y /\ p - x = 1
    BY <1>1, <2>1, <2>5 DEF Subcoord
  <2> QED
    BY <1>1, <2>2, <2>3, <2>4, <2>5
<1>3. e \in RayAttack(occupied, Ray[d][c])
  BY <1>1, <1>2, NextAttacked DEF Directions
<1> QED
  BY <1>3 DEF RookAttack

LEMMA NextToBishop ==
  ASSUME NEW c \in Coord, NEW e \in Coord, NEW occupied,
         CoordX(e) - CoordX(c) \in {-1, 1}, CoordY(e) - CoordY(c) \in {-1, 1}
  PROVE  e \in BishopAttack(occupied, c)
<1>1. PICK x, y, p, q \in Subcoord : /\ x = CoordX(c) /\ y = CoordY(c)
                                     /\ p = CoordX(e) /\ q = CoordY(e)
  BY CoordParts
<1>2. PICK d \in BishopDirections : p = x + d[1] /\ q = y + d[2]
  <2>1. \A d \in {<<-1, -1>>, <<1, -1>>, <<-1, 1>>, <<1, 1>>} : d \in BishopDirections
    BY DEF BishopDirections
  <2>2. CASE p - x = -1 /\ q - y = -1
    BY <1>1, <2>1, <2>2 DEF Subcoord
  <2>3. CASE p - x = -1 /\ q - y = 1
    BY <1>1, <2>1, <2>3 DEF Subcoord
  <2>4. CASE p - x = 1 /\ q - y = -1
    BY <1>1, <2>1, <2>4 DEF Subcoord
  <2>5. CASE p - x = 1 /\ q - y = 1
    BY <1>1, <2>1, <2>5 DEF Subcoord
  <2> QED
    BY <1>1, <2>2, <2>3, <2>4, <2>5
<1>3. e \in RayAttack(occupied, Ray[d][c])
  BY <1>1, <1>2, NextAttacked DEF Directions
<1> QED
  BY <1>3 DEF BishopAttack

(* Attacks lie on the lines of the cell, and need only what the mask keeps. *)
LEMMA RookAttackFacts ==
  ASSUME NEW c \in Coord, NEW occupied
  PROVE  /\ RookAttack(occupied, c) \subseteq RookPostMask[c] \intersect Coord
         /\ RookAttack(occupied \intersect RookMask[c], c) = RookAttack(occupied, c)
<1>1. ASSUME NEW d \in RookDirections
      PROVE  /\ RayAttack(occupied, Ray[d][c]) \subseteq RookPostMask[c] \intersect Coord
             /\ RayAttack(occupied \intersect RookMask[c], Ray[d][c])
                  = RayAttack(occupied, Ray[d][c])
  <2>1. d \in Directions
    BY DEF Directions
  <2>2. ASSUME NEW e \in RayAttack(occupied, Ray[d][c])
        PROVE  e \in RookPostMask[c] \intersect Coord
    <3>0. e \in RayAttack(occupied, Ray[d][c]) <=>
            \E k \in 1..7 : /\ Reaches(c, d, k) /\ e = Along(c, d, k)
                            /\ \A j \in 1..(k - 1) : Along(c, d, j) \notin occupied
      BY <2>1, RayAttackCells
    <3>1. PICK k \in 1..7 : Reaches(c, d, k) /\ e = Along(c, d, k)
      BY <2>2, <3>0
    <3>2. Along(c, d, k) \in RookPostMask[c]
      BY <3>1, RookMaskCells
    <3>3. Along(c, d, k) \in Coord
      BY <2>1, <3>1, AlongParts
    <3> QED
      BY <3>1, <3>2, <3>3
  <2>3. \A k \in 1..7 : \A j \in 1..(k - 1) :
          Reaches(c, d, k) => Along(c, d, j) \in RookMask[c]
    BY RookMaskCells
  <2> QED
    BY <2>1, <2>2, <2>3, RayAttackMasked
<1>2. RookAttack(occupied, c) \subseteq RookPostMask[c] \intersect Coord
  BY <1>1 DEF RookAttack
<1>3. RookAttack(occupied \intersect RookMask[c], c) = RookAttack(occupied, c)
  BY <1>1 DEF RookAttack
<1> QED
  BY <1>2, <1>3

LEMMA BishopAttackFacts ==
  ASSUME NEW c \in Coord, NEW occupied
  PROVE  /\ BishopAttack(occupied, c) \subseteq BishopPostMask[c] \intersect Coord
         /\ BishopAttack(occupied \intersect BishopMask[c], c) = BishopAttack(occupied, c)
<1>1. ASSUME NEW d \in BishopDirections
      PROVE  /\ RayAttack(occupied, Ray[d][c]) \subseteq BishopPostMask[c] \intersect Coord
             /\ RayAttack(occupied \intersect BishopMask[c], Ray[d][c])
                  = RayAttack(occupied, Ray[d][c])
  <2>1. d \in Directions
    BY DEF Directions
  <2>2. ASSUME NEW e \in RayAttack(occupied, Ray[d][c])
        PROVE  e \in BishopPostMask[c] \intersect Coord
    <3>0. e \in RayAttack(occupied, Ray[d][c]) <=>
            \E k \in 1..7 : /\ Reaches(c, d, k) /\ e = Along(c, d, k)
                            /\ \A j \in 1..(k - 1) : Along(c, d, j) \notin occupied
      BY <2>1, RayAttackCells
    <3>1. PICK k \in 1..7 : Reaches(c, d, k) /\ e = Along(c, d, k)
      BY <2>2, <3>0
    <3>2. Along(c, d, k) \in BishopPostMask[c]
      BY <3>1, BishopMaskCells
    <3>3. Along(c, d, k) \in Coord
      BY <2>1, <3>1, AlongParts
    <3> QED
      BY <3>1, <3>2, <3>3
  <2>3. \A k \in 1..7 : \A j \in 1..(k - 1) :
          Reaches(c, d, k) => Along(c, d, j) \in BishopMask[c]
    BY BishopMaskCells
  <2> QED
    BY <2>1, <2>2, <2>3, RayAttackMasked
<1>2. BishopAttack(occupied, c) \subseteq BishopPostMask[c] \intersect Coord
  BY <1>1 DEF BishopAttack
<1>3. BishopAttack(occupied \intersect BishopMask[c], c) = BishopAttack(occupied, c)
  BY <1>1 DEF BishopAttack
<1> QED
  BY <1>2, <1>3

(* The cells of a group: the pair of a rook, the row or column of four of a  *)
(* bishop.                                                                   *)
LEMMA RookPair ==
  ASSUME NEW c \in Coord
  PROVE  /\ c \in RookGroup[c] /\ RookGroup[c] \subseteq Coord
         /\ \A d \in RookGroup[c] \ {c} : /\ CoordX(d) - CoordX(c) \in {-1, 1}
                                         /\ CoordY(d) - CoordY(c) \in {-1, 1}
<1>1. PICK x, y \in Subcoord : x = CoordX(c) /\ y = CoordY(c)
  BY CoordParts
<1>2. \A n \in Subcoord : FlipLow(n) \in Subcoord /\ FlipLow(n) - n \in {-1, 1}
  BY DEF Subcoord, FlipLow
<1>3. PICK p, q \in Subcoord : p = FlipLow(x) /\ q = FlipLow(y)
  BY <1>2
<1>4. p - x \in {-1, 1} /\ q - y \in {-1, 1}
  BY <1>2, <1>3
<1>5. RookGroup[c] = {c, MakeCoord(p, q)}
  BY <1>1, <1>3 DEF RookGroup
<1>6. MakeCoord(p, q) \in Coord /\ CoordX(MakeCoord(p, q)) = p /\ CoordY(MakeCoord(p, q)) = q
  BY CoordParts
<1> QED
  BY <1>1, <1>4, <1>5, <1>6

LEMMA BishopFour ==
  ASSUME NEW c \in Coord
  PROVE  /\ c \in BishopGroup[c] /\ BishopGroup[c] \subseteq Coord
         /\ \A d \in BishopGroup[c] :
              \E k \in -3..3 : \/ CoordX(d) = CoordX(c) + k /\ CoordY(d) = CoordY(c)
                               \/ CoordX(d) = CoordX(c) /\ CoordY(d) = CoordY(c) + k
<1> DEFINE Starts == {0, 1, 32, 33, 6, 7, 38, 39}
           Rows == {2, 10, 18, 26, 34, 42, 50, 58}
           Down(s) == {s + 8 * i : i \in 0..3}
           Across(s) == {s + i : i \in 0..3}
<1>1. BishopGroups = {Down(s) : s \in Starts} \union {Across(s) : s \in Rows}
  BY DEF BishopGroups
<1>2. PICK x, y \in 0..7 : c = 8 * x + y
  BY CoordParts DEF MakeCoord, Subcoord
<1>3. \E g \in BishopGroups : c \in g
  <2>1. \A s \in Starts : \A i \in 0..3 : s + 8 * i \in Down(s) /\ Down(s) \in BishopGroups
    BY <1>1
  <2>2. \A s \in Rows : \A i \in 0..3 : s + i \in Across(s) /\ Across(s) \in BishopGroups
    BY <1>1
  <2> HIDE DEF Down, Across
  <2>3. CASE y \in {0, 1, 6, 7} /\ x \in 0..3
    <3>1. y \in Starts /\ c = y + 8 * x
      BY <1>2, <2>3
    <3>2. c \in Down(y) /\ Down(y) \in BishopGroups
      BY <2>1, <2>3, <3>1
    <3> QED
      BY <3>2
  <2>4. CASE y \in {0, 1, 6, 7} /\ x \in 4..7
    <3>1. PICK i \in 0..3 : x = i + 4
      <4>1. x - 4 \in 0..3 /\ x = (x - 4) + 4
        BY <2>4
      <4> QED
        BY <4>1
    <3>2. PICK s \in Starts : s = y + 32
      BY <2>4
    <3>3. c = s + 8 * i
      BY <1>2, <3>1, <3>2
    <3> HIDE DEF Starts
    <3>4. c \in Down(s) /\ Down(s) \in BishopGroups
      BY <2>1, <3>3
    <3> QED
      BY <3>4
  <2>5. CASE y \in 2..5
    <3>1. PICK i \in 0..3 : y = i + 2
      <4>1. y - 2 \in 0..3 /\ y = (y - 2) + 2
        BY <2>5
      <4> QED
        BY <4>1
    <3>2. PICK s \in Rows : s = 8 * x + 2
      BY <1>2
    <3>3. c = s + i
      BY <1>2, <3>1, <3>2
    <3> HIDE DEF Rows
    <3>4. c \in Across(s) /\ Across(s) \in BishopGroups
      BY <2>2, <3>3
    <3> QED
      BY <3>4
  <2> QED
    BY <1>2, <2>3, <2>4, <2>5
<1>4. PICK g \in BishopGroups : g = BishopGroup[c] /\ c \in g
  BY <1>3 DEF BishopGroup
<1>5. CASE \E s \in Starts : g = Down(s)
  <2>1. PICK s \in Starts : g = Down(s)
    BY <1>5
  <2>2. \A i \in 0..3 : /\ s + 8 * i \in Coord /\ CoordX(s + 8 * i) = CoordX(s) + i
                        /\ CoordY(s + 8 * i) = CoordY(s)
    BY DEF Coord, CoordX, CoordY
  <2>3. CoordX(s) \in Int
    BY DEF CoordX
  <2>4. PICK i \in 0..3 : c = s + 8 * i
    BY <1>4, <2>1
  <2>5. ASSUME NEW d \in g
        PROVE  /\ d \in Coord
               /\ \E k \in -3..3 : CoordX(d) = CoordX(c) + k /\ CoordY(d) = CoordY(c)
    <3>1. PICK j \in 0..3 : d = s + 8 * j
      BY <2>1, <2>5
    <3>2. /\ CoordX(d) = CoordX(s) + j /\ CoordX(c) = CoordX(s) + i
          /\ CoordY(d) = CoordY(s) /\ CoordY(c) = CoordY(s) /\ d \in Coord
      BY <2>2, <2>4, <3>1
    <3>3. j - i \in -3..3 /\ CoordX(d) = CoordX(c) + (j - i)
      BY <2>3, <3>2
    <3> QED
      BY <3>2, <3>3
  <2> QED
    BY <1>4, <2>5
<1>6. CASE \E s \in Rows : g = Across(s)
  <2>1. PICK s \in Rows : g = Across(s)
    BY <1>6
  <2>2. \A i \in 0..3 : /\ s + i \in Coord /\ CoordX(s + i) = CoordX(s)
                        /\ CoordY(s + i) = CoordY(s) + i
    BY DEF Coord, CoordX, CoordY
  <2>3. CoordY(s) \in Int
    BY DEF CoordY
  <2>4. PICK i \in 0..3 : c = s + i
    BY <1>4, <2>1
  <2>5. ASSUME NEW d \in g
        PROVE  /\ d \in Coord
               /\ \E k \in -3..3 : CoordX(d) = CoordX(c) /\ CoordY(d) = CoordY(c) + k
    <3>1. PICK j \in 0..3 : d = s + j
      BY <2>1, <2>5
    <3>2. /\ CoordY(d) = CoordY(s) + j /\ CoordY(c) = CoordY(s) + i
          /\ CoordX(d) = CoordX(s) /\ CoordX(c) = CoordX(s) /\ d \in Coord
      BY <2>2, <2>4, <3>1
    <3>3. j - i \in -3..3 /\ CoordY(d) = CoordY(c) + (j - i)
      BY <2>3, <3>2
    <3> QED
      BY <3>2, <3>3
  <2> QED
    BY <1>4, <2>5
<1> QED
  BY <1>1, <1>4, <1>5, <1>6
(* What a cell of the same group attacks on the lines of a cell is next to it, *)
(* so that it is attacked from the cell itself too.                            *)
LEMMA RookPartner ==
  ASSUME NEW c \in Coord, NEW d \in RookGroup[c], d # c, NEW held, NEW occupied,
         NEW e \in RookAttack(held, d), e \in RookPostMask[c]
  PROVE  e \in RookAttack(occupied, c)
<1>1. /\ d \in Coord
      /\ CoordX(d) - CoordX(c) \in {-1, 1} /\ CoordY(d) - CoordY(c) \in {-1, 1}
  BY RookPair
<1>2. e \in Coord /\ e \in RookPostMask[d]
  BY <1>1, RookAttackFacts
<1>3. PICK x, y, p, q, r, s \in Subcoord :
        /\ x = CoordX(c) /\ y = CoordY(c) /\ p = CoordX(d) /\ q = CoordY(d)
        /\ r = CoordX(e) /\ s = CoordY(e)
  BY <1>1, <1>2, CoordParts
<1>4. p - x \in {-1, 1} /\ q - y \in {-1, 1}
  BY <1>1, <1>3
<1>5. r = x <=> s # y
  BY <1>2, <1>3, PostMaskCells
<1>6. r = p <=> s # q
  BY <1>1, <1>2, <1>3, PostMaskCells
<1>7. \/ r = x /\ s - y \in {-1, 1}
      \/ s = y /\ r - x \in {-1, 1}
  BY <1>4, <1>5, <1>6 DEF Subcoord
<1> QED
  BY <1>2, <1>3, <1>7, NextToRook

LEMMA BishopPartner ==
  ASSUME NEW c \in Coord, NEW d \in BishopGroup[c], d # c, NEW held, NEW occupied,
         NEW e \in BishopAttack(held, d), e \in BishopPostMask[c]
  PROVE  e \in BishopAttack(occupied, c)
<1>1. d \in Coord
  BY BishopFour
<1>2. e \in Coord /\ e \in BishopPostMask[d]
  BY <1>1, BishopAttackFacts
<1>3. PICK x, y, p, q, r, s \in Subcoord :
        /\ x = CoordX(c) /\ y = CoordY(c) /\ p = CoordX(d) /\ q = CoordY(d)
        /\ r = CoordX(e) /\ s = CoordY(e)
  BY <1>1, <1>2, CoordParts
<1>4. \E k \in -3..3 : \/ p = x + k /\ q = y
                       \/ p = x /\ q = y + k
  BY <1>3, BishopFour
<1>5. p # x \/ q # y
  BY <1>1, <1>3, CoordParts
<1>6. r + s = x + y <=> s - r # y - x
  BY <1>2, <1>3, PostMaskCells
<1>7. r + s = p + q <=> s - r # q - p
  BY <1>1, <1>2, <1>3, PostMaskCells
<1>8. r - x \in {-1, 1} /\ s - y \in {-1, 1}
  BY <1>4, <1>5, <1>6, <1>7 DEF Subcoord
<1> QED
  BY <1>2, <1>3, <1>8, NextToBishop

LEMMA MaskInBoard ==
  ASSUME NEW c \in Coord
  PROVE  RookMask[c] \in SUBSET Coord /\ BishopMask[c] \in SUBSET Coord
<1>1. PICK x, y \in Subcoord : x = CoordX(c) /\ y = CoordY(c)
  BY CoordParts
<1>2. BbRow[x] \subseteq Coord /\ BbCol[y] \subseteq Coord
  BY DEF BbRow, BbCol
<1>3. RookMask[c] = ((BbRow[x] \ RowFrame) \union (BbCol[y] \ ColFrame)) \ {c}
  BY <1>1 DEF RookMask
<1>4. CoordDiag1(c) \in 0..14 /\ CoordDiag2(c) \in 0..14
  BY CoordParts DEF CoordDiag1, CoordDiag2, Subcoord
<1>5. BbDiag1[CoordDiag1(c)] \subseteq Coord /\ BbDiag2[CoordDiag2(c)] \subseteq Coord
  BY <1>4 DEF BbDiag1, BbDiag2
<1>6. BishopMask[c]
        = Xor(BbDiag1[CoordDiag1(c)], BbDiag2[CoordDiag2(c)]) \ (RowFrame \union ColFrame)
  BY DEF BishopMask, BishopPostMask
<1>7. BishopMask[c] \subseteq Coord
  BY <1>5, <1>6 DEF Xor
<1> QED
  BY <1>2, <1>3, <1>7

(* So an entry, masked with the lines of the cell, holds the attack of the cell *)
(* and nothing else.                                                            *)
LEMMA RookLookupIsExact ==
  ASSUME NEW occupied, NEW c \in Coord
  PROVE  RookLookup(occupied, c) = RookAttack(occupied, c)
<1> DEFINE index == Pext(occupied, RookMask[c])
           fillers == Fillers(RookGroup[c], RookMask, index)
<1>1. c \in fillers /\ fillers \subseteq RookGroup[c]
  <2>1. c \in RookGroup[c] /\ RookMask[c] \in SUBSET Coord
    BY RookPair, MaskInBoard
  <2> QED
    BY <2>1, FillsOwnEntry DEF Fillers
<1>2. RookAttack(Deposit(index, RookMask[c]), c) = RookAttack(occupied, c)
  <2>1. Deposit(index, RookMask[c]) = occupied \intersect RookMask[c]
    BY MaskInBoard, IndexPutBack
  <2> QED
    BY <2>1, RookAttackFacts
<1>3. RookAttack(occupied, c) \subseteq RookPostMask[c]
  BY RookAttackFacts
<1>4. RookLookup(occupied, c)
        = (UNION {RookAttack(Deposit(index, RookMask[d]), d) : d \in fillers})
            \intersect RookPostMask[c]
  BY DEF RookLookup, RookEntry
<1> HIDE DEF index, fillers
<1>5. ASSUME NEW d \in fillers, NEW e \in RookAttack(Deposit(index, RookMask[d]), d),
             e \in RookPostMask[c]
      PROVE  e \in RookAttack(occupied, c)
  <2>1. CASE d = c
    BY <1>2, <1>5, <2>1
  <2>2. CASE d # c
    BY <1>1, <1>5, <2>2, RookPartner
  <2> QED
    BY <2>1, <2>2
<1> QED
  BY <1>1, <1>2, <1>3, <1>4, <1>5

LEMMA BishopLookupIsExact ==
  ASSUME NEW occupied, NEW c \in Coord
  PROVE  BishopLookup(occupied, c) = BishopAttack(occupied, c)
<1> DEFINE index == Pext(occupied, BishopMask[c])
           fillers == Fillers(BishopGroup[c], BishopMask, index)
<1>1. c \in fillers /\ fillers \subseteq BishopGroup[c]
  <2>1. c \in BishopGroup[c] /\ BishopMask[c] \in SUBSET Coord
    BY BishopFour, MaskInBoard
  <2> QED
    BY <2>1, FillsOwnEntry DEF Fillers
<1>2. BishopAttack(Deposit(index, BishopMask[c]), c) = BishopAttack(occupied, c)
  <2>1. Deposit(index, BishopMask[c]) = occupied \intersect BishopMask[c]
    BY MaskInBoard, IndexPutBack
  <2> QED
    BY <2>1, BishopAttackFacts
<1>3. BishopAttack(occupied, c) \subseteq BishopPostMask[c]
  BY BishopAttackFacts
<1>4. BishopLookup(occupied, c)
        = (UNION {BishopAttack(Deposit(index, BishopMask[d]), d) : d \in fillers})
            \intersect BishopPostMask[c]
  BY DEF BishopLookup, BishopEntry
<1> HIDE DEF index, fillers
<1>5. ASSUME NEW d \in fillers, NEW e \in BishopAttack(Deposit(index, BishopMask[d]), d),
             e \in BishopPostMask[c]
      PROVE  e \in BishopAttack(occupied, c)
  <2>1. CASE d = c
    BY <1>2, <1>5, <2>1
  <2>2. CASE d # c
    BY <1>1, <1>5, <2>2, BishopPartner
  <2> QED
    BY <2>1, <2>2
<1> QED
  BY <1>1, <1>2, <1>3, <1>4, <1>5

(* Whatever stands on the board, the tables that the cells of a group share give  *)
(* each cell what its rook, or its bishop, attacks: what the other cells of its   *)
(* group wrote in the entry lies off its lines, or next to it.                    *)
THEOREM LookupsAreExact ==
  ASSUME NEW occupied, NEW c \in Coord
  PROVE  /\ RookLookup(occupied, c) = RookAttack(occupied, c)
         /\ BishopLookup(occupied, c) = BishopAttack(occupied, c)
BY RookLookupIsExact, BishopLookupIsExact

-----------------------------------------------------------------------------
(* Attacks, read from the cells *)

(* The cells from which a piece attacks a cell, if it stands there. *)
Sources(p, c, all, x) ==
  CASE p = Pawn   -> PawnAttacks[Invert(c)][x]
    [] p = King   -> KingAttacks[x]
    [] p = Knight -> KnightAttacks[x]
    [] p = Bishop -> BishopAttack(all, x)
    [] p = Rook   -> RookAttack(all, x)
    [] p = Queen  -> BishopAttack(all, x) \union RookAttack(all, x)

(* Colour c attacks a cell, with the lines cut by all, from a cell of mask. *)
AttackedBy(cells, all, c, x, mask) ==
  \E p \in Piece : \E s \in Coord : /\ s \in mask /\ s \in Sources(p, c, all, x)
                                    /\ cells[s] = MakeCell(c, p)

LEMMA SourceSets ==
  ASSUME NEW c, NEW all, NEW x
  PROVE  /\ Piece = {Pawn, King, Knight, Bishop, Rook, Queen}
         /\ Sources(Pawn, c, all, x) = PawnAttacks[Invert(c)][x]
         /\ Sources(King, c, all, x) = KingAttacks[x]
         /\ Sources(Knight, c, all, x) = KnightAttacks[x]
         /\ Sources(Bishop, c, all, x) = BishopAttack(all, x)
         /\ Sources(Rook, c, all, x) = RookAttack(all, x)
         /\ Sources(Queen, c, all, x) = BishopAttack(all, x) \union RookAttack(all, x)
<1>1. Piece = {Pawn, King, Knight, Bishop, Rook, Queen}
  BY DEF Piece, Pawn, King, Knight, Bishop, Rook, Queen
<1> QED
  BY <1>1 DEF Sources, Pawn, King, Knight, Bishop, Rook, Queen

(* What the bitboards say of attacks is what the cells say. *)
LEMMA AttacksByCells ==
  ASSUME NEW b, Fresh(b), NEW c \in Color, NEW x
  PROVE  /\ \A all, mask :
              IsAttackedMasked(b, c, x, all, mask) <=> AttackedBy(b.cells, all, c, x, mask)
         /\ IsCellAttacked(b, x, c) <=> AttackedBy(b.cells, b.bbAll, c, x, Coord)
         /\ CellAttackers(b, x, c) = {} => ~AttackedBy(b.cells, b.bbAll, c, x, Coord)
<1>1. \A p \in Piece : \A s : s \in Bb(b, c, p) <=> s \in Coord /\ b.cells[s] = MakeCell(c, p)
  BY BitboardCells
<1> DEFINE Hit(all, s) ==
             \/ s \in Bb(b, c, Pawn) /\ s \in PawnAttacks[Invert(c)][x]
             \/ s \in Bb(b, c, King) /\ s \in KingAttacks[x]
             \/ s \in Bb(b, c, Knight) /\ s \in KnightAttacks[x]
             \/ (s \in Bb(b, c, Bishop) \/ s \in Bb(b, c, Queen)) /\ s \in BishopAttack(all, x)
             \/ (s \in Bb(b, c, Rook) \/ s \in Bb(b, c, Queen)) /\ s \in RookAttack(all, x)
<1>2. ASSUME NEW all, NEW s
      PROVE  Hit(all, s) <=> \E p \in Piece : s \in Bb(b, c, p) /\ s \in Sources(p, c, all, x)
  BY SourceSets
<1>3. ASSUME NEW all, NEW mask
      PROVE  AttackedBy(b.cells, all, c, x, mask) <=> \E s : s \in mask /\ Hit(all, s)
  <2> HIDE DEF Hit
  <2> QED
    BY <1>1, <1>2 DEF AttackedBy
<1>4. \A all, mask : IsAttackedMasked(b, c, x, all, mask) <=> \E s : s \in mask /\ Hit(all, s)
  BY DEF IsAttackedMasked, BbDiagPieces, BbLinePieces
<1>5. IsCellAttacked(b, x, c) <=> \E s : Hit(b.bbAll, s)
  BY DEF IsCellAttacked, BbDiagPieces, BbLinePieces
<1>6. \A s : s \in CellAttackers(b, x, c) <=> Hit(b.bbAll, s)
  BY DEF CellAttackers, BbDiagPieces, BbLinePieces
<1> HIDE DEF Hit
<1>7. \A all, s : Hit(all, s) => s \in Coord
  BY <1>1, <1>2
<1> QED
  BY <1>3, <1>4, <1>5, <1>6, <1>7

(* The tables of the pieces that step, in rows and columns. *)
LEMMA DirectedCells ==
  ASSUME NEW offsets, offsets \subseteq Int \X Int, NEW c \in Coord, NEW e
  PROVE  e \in Directed(offsets)[c] <=>
           e \in Coord /\ <<CoordX(e) - CoordX(c), CoordY(e) - CoordY(c)>> \in offsets
<1>1. PICK x, y \in Subcoord : x = CoordX(c) /\ y = CoordY(c)
  BY CoordParts
<1>2. Directed(offsets)[c] = {MakeCoord(x + o[1], y + o[2]) :
                                o \in {p \in offsets : OnBoard(x + p[1], y + p[2])}}
  BY <1>1 DEF Directed
<1>3. ASSUME e \in Directed(offsets)[c]
      PROVE  e \in Coord /\ <<CoordX(e) - x, CoordY(e) - y>> \in offsets
  <2>1. PICK o \in offsets : /\ x + o[1] \in Subcoord /\ y + o[2] \in Subcoord
                             /\ e = MakeCoord(x + o[1], y + o[2])
    BY <1>2, <1>3 DEF OnBoard
  <2>2. PICK i, j \in Int : o = <<i, j>>
    BY <2>1
  <2>3. e \in Coord /\ CoordX(e) = x + i /\ CoordY(e) = y + j
    BY <2>1, <2>2, CoordParts
  <2>4. CoordX(e) - x = i /\ CoordY(e) - y = j
    BY <2>2, <2>3 DEF Subcoord
  <2> QED
    BY <2>1, <2>2, <2>3, <2>4
<1>4. ASSUME e \in Coord, <<CoordX(e) - x, CoordY(e) - y>> \in offsets
      PROVE  e \in Directed(offsets)[c]
  <2>1. PICK p, q \in Subcoord : p = CoordX(e) /\ q = CoordY(e) /\ e = MakeCoord(p, q)
    BY <1>4, CoordParts
  <2>2. x + (p - x) = p /\ y + (q - y) = q
    BY DEF Subcoord
  <2>3. PICK o \in offsets : o = <<p - x, q - y>>
    BY <1>4, <2>1
  <2>4. x + o[1] = p /\ y + o[2] = q
    BY <2>2, <2>3
  <2> QED
    BY <1>2, <2>1, <2>3, <2>4 DEF OnBoard
<1> QED
  BY <1>1, <1>3, <1>4

LEMMA NearCells ==
  ASSUME NEW c \in Coord, NEW e
  PROVE  /\ e \in KingAttacks[c] <=>
              /\ e \in Coord /\ e # c
              /\ CoordX(e) - CoordX(c) \in -1..1 /\ CoordY(e) - CoordY(c) \in -1..1
         /\ e \in KnightAttacks[c] <=>
              /\ e \in Coord
              /\ \/ CoordX(e) - CoordX(c) \in {-2, 2} /\ CoordY(e) - CoordY(c) \in {-1, 1}
                 \/ CoordX(e) - CoordX(c) \in {-1, 1} /\ CoordY(e) - CoordY(c) \in {-2, 2}
         /\ \A k \in Color : e \in PawnAttacks[k][c] <=>
              /\ e \in Coord
              /\ CoordX(e) - CoordX(c) = IF k = White THEN -1 ELSE 1
              /\ CoordY(e) - CoordY(c) \in {-1, 1}
<1>1. CASE e \notin Coord
  <2>1. \A o : o \subseteq Int \X Int => e \notin Directed(o)[c]
    BY <1>1, DirectedCells
  <2>2. /\ ((-1..1) \X (-1..1)) \ {<<0, 0>>} \subseteq Int \X Int
        /\ {<<-2, -1>>, <<-2, 1>>, <<-1, -2>>, <<-1, 2>>,
            <<2, -1>>, <<2, 1>>, <<1, -2>>, <<1, 2>>} \subseteq Int \X Int
        /\ {<<-1, -1>>, <<-1, 1>>} \subseteq Int \X Int
        /\ {<<1, -1>>, <<1, 1>>} \subseteq Int \X Int
    OBVIOUS
  <2> QED
    BY <1>1, <2>1, <2>2 DEF KingAttacks, KnightAttacks, PawnAttacks
<1>2. CASE e \in Coord
  <2>1. PICK x, y, p, q \in Subcoord : /\ x = CoordX(c) /\ y = CoordY(c)
                                       /\ p = CoordX(e) /\ q = CoordY(e)
    BY <1>2, CoordParts
  <2>2. PICK i, j \in Int : i = p - x /\ j = q - y
    BY DEF Subcoord
  <2>3. e = c <=> i = 0 /\ j = 0
    <3>1. e = c <=> p = x /\ q = y
      BY <1>2, <2>1, CoordParts
    <3> QED
      BY <2>2, <3>1 DEF Subcoord
  <2>4. \A o : o \subseteq Int \X Int => (e \in Directed(o)[c] <=> <<i, j>> \in o)
    BY <1>2, <2>1, <2>2, DirectedCells
  <2>5. e \in KingAttacks[c] <=> e # c /\ i \in -1..1 /\ j \in -1..1
    <3> DEFINE o == ((-1..1) \X (-1..1)) \ {<<0, 0>>}
    <3>1. o \subseteq Int \X Int
      OBVIOUS
    <3>2. <<i, j>> \in o <=> e # c /\ i \in -1..1 /\ j \in -1..1
      BY <2>3
    <3> HIDE DEF o
    <3> QED
      BY <2>4, <3>1, <3>2 DEF KingAttacks, o
  <2>6. e \in KnightAttacks[c] <=> \/ i \in {-2, 2} /\ j \in {-1, 1}
                                   \/ i \in {-1, 1} /\ j \in {-2, 2}
    <3> DEFINE o == {<<-2, -1>>, <<-2, 1>>, <<-1, -2>>, <<-1, 2>>,
                     <<2, -1>>, <<2, 1>>, <<1, -2>>, <<1, 2>>}
    <3>1. o \subseteq Int \X Int
      OBVIOUS
    <3>2. <<i, j>> \in o <=> \/ i \in {-2, 2} /\ j \in {-1, 1}
                             \/ i \in {-1, 1} /\ j \in {-2, 2}
      OBVIOUS
    <3> HIDE DEF o
    <3> QED
      BY <2>4, <3>1, <3>2 DEF KnightAttacks, o
  <2>7. ASSUME NEW k \in Color
        PROVE  e \in PawnAttacks[k][c] <=> (i = IF k = White THEN -1 ELSE 1) /\ j \in {-1, 1}
    <3> DEFINE o == IF k = White THEN {<<-1, -1>>, <<-1, 1>>} ELSE {<<1, -1>>, <<1, 1>>}
    <3>1. o \subseteq Int \X Int
      OBVIOUS
    <3>2. <<i, j>> \in o <=> (i = IF k = White THEN -1 ELSE 1) /\ j \in {-1, 1}
      OBVIOUS
    <3>3. PawnAttacks[k] = Directed(o)
      BY DEF PawnAttacks
    <3> HIDE DEF o
    <3> QED
      BY <2>4, <3>1, <3>2, <3>3
  <2> QED
    BY <1>2, <2>1, <2>2, <2>5, <2>6, <2>7
<1> QED
  BY <1>1, <1>2

(* What slides one way slides back. *)
LEMMA SlidesBack ==
  ASSUME NEW c \in Coord, NEW d \in Directions, NEW occupied,
         NEW e \in RayAttack(occupied, Ray[d][c])
  PROVE  /\ e \in Coord
         /\ c \in RayAttack(occupied, Ray[<<-d[1], -d[2]>>][e])
<1> DEFINE back == <<-d[1], -d[2]>>
<1>1. PICK x, y \in Subcoord : x = CoordX(c) /\ y = CoordY(c) /\ c = MakeCoord(x, y)
  BY CoordParts
<1>2. PICK a, b \in {-1, 0, 1} : a = d[1] /\ b = d[2]
  BY DirectionParts
<1>3. e \in RayAttack(occupied, Ray[d][c]) <=>
        \E k \in 1..7 : /\ Reaches(c, d, k) /\ e = Along(c, d, k)
                        /\ \A j \in 1..(k - 1) : Along(c, d, j) \notin occupied
  BY RayAttackCells
<1>4. PICK k \in 1..7 : /\ Reaches(c, d, k) /\ e = Along(c, d, k)
                        /\ \A j \in 1..(k - 1) : Along(c, d, j) \notin occupied
  BY <1>3
<1>5. back \in Directions /\ back[1] = -a /\ back[2] = -b
  <2>1. d \in RookDirections \/ d \in BishopDirections
    BY DEF Directions
  <2> QED
    BY <1>2, <2>1 DEF Directions, RookDirections, BishopDirections
<1> HIDE DEF back
<1>6. e \in Coord /\ CoordX(e) = x + k * a /\ CoordY(e) = y + k * b
  BY <1>1, <1>2, <1>4, AlongParts
<1>7. ASSUME NEW v \in Int, NEW w \in {-1, 0, 1}, NEW j \in 0..k
      PROVE  (v + k * w) + j * (-w) = v + (k - j) * w
  BY <1>7
<1>8. ASSUME NEW j \in 0..k
      PROVE  /\ CoordX(e) + j * back[1] = x + (k - j) * a
             /\ CoordY(e) + j * back[2] = y + (k - j) * b
  <2>1. x \in Int /\ y \in Int
    BY DEF Subcoord
  <2>2. (x + k * a) + j * (-a) = x + (k - j) * a
    BY <1>7, <2>1
  <2>3. (y + k * b) + j * (-b) = y + (k - j) * b
    BY <1>7, <2>1
  <2> QED
    BY <1>5, <1>6, <2>2, <2>3, Zenon
<1>9. Reaches(e, back, k) /\ Along(e, back, k) = c
  <2>1. (k - k) * a = 0 /\ (k - k) * b = 0
    OBVIOUS
  <2>2. CoordX(e) + k * back[1] = x /\ CoordY(e) + k * back[2] = y
    BY <1>8, <2>1 DEF Subcoord
  <2> QED
    BY <1>1, <2>2 DEF Reaches, Along, OnBoard
<1>10. ASSUME NEW j \in 1..(k - 1) PROVE Along(e, back, j) \notin occupied
  <2>1. k - j \in 1..(k - 1) /\ j \in 0..k
    OBVIOUS
  <2>2. Along(e, back, j) = Along(c, d, k - j)
    BY <1>1, <1>2, <1>8, <2>1 DEF Along
  <2> QED
    BY <1>4, <2>1, <2>2
<1>11. c \in RayAttack(occupied, Ray[back][e])
  <2>1. c \in RayAttack(occupied, Ray[back][e]) <=>
          \E i \in 1..7 : /\ Reaches(e, back, i) /\ c = Along(e, back, i)
                          /\ \A j \in 1..(i - 1) : Along(e, back, j) \notin occupied
    BY <1>5, <1>6, RayAttackCells
  <2> QED
    BY <1>9, <1>10, <2>1
<1> QED
  BY <1>6, <1>11 DEF back

LEMMA SliderSymmetry ==
  ASSUME NEW c \in Coord, NEW occupied, NEW e
  PROVE  /\ e \in RookAttack(occupied, c) => e \in Coord /\ c \in RookAttack(occupied, e)
         /\ e \in BishopAttack(occupied, c) => e \in Coord /\ c \in BishopAttack(occupied, e)
<1>1. ASSUME NEW d \in Directions
      PROVE  /\ d \in RookDirections => <<-d[1], -d[2]>> \in RookDirections
             /\ d \in BishopDirections => <<-d[1], -d[2]>> \in BishopDirections
  <2>1. PICK a, b \in {-1, 0, 1} : a = d[1] /\ b = d[2] /\ d = <<a, b>>
    BY DirectionParts
  <2>2. <<a, b>> \in RookDirections => <<-a, -b>> \in RookDirections
    BY DEF RookDirections
  <2>3. <<a, b>> \in BishopDirections => <<-a, -b>> \in BishopDirections
    BY DEF BishopDirections
  <2> QED
    BY <2>1, <2>2, <2>3
<1>2. ASSUME NEW d \in Directions, e \in RayAttack(occupied, Ray[d][c])
      PROVE  e \in Coord /\ c \in RayAttack(occupied, Ray[<<-d[1], -d[2]>>][e])
  <2>1. PICK f \in RayAttack(occupied, Ray[d][c]) : f = e
    BY <1>2
  <2> QED
    BY <2>1, SlidesBack
<1>3. ASSUME e \in RookAttack(occupied, c)
      PROVE  e \in Coord /\ c \in RookAttack(occupied, e)
  <2>1. PICK d \in RookDirections : e \in RayAttack(occupied, Ray[d][c])
    BY <1>3 DEF RookAttack
  <2>2. e \in Coord /\ c \in RayAttack(occupied, Ray[<<-d[1], -d[2]>>][e])
    BY <1>1, <1>2, <2>1 DEF Directions
  <2> QED
    BY <1>1, <2>1, <2>2 DEF RookAttack, Directions
<1>4. ASSUME e \in BishopAttack(occupied, c)
      PROVE  e \in Coord /\ c \in BishopAttack(occupied, e)
  <2>1. PICK d \in BishopDirections : e \in RayAttack(occupied, Ray[d][c])
    BY <1>4 DEF BishopAttack
  <2>2. e \in Coord /\ c \in RayAttack(occupied, Ray[<<-d[1], -d[2]>>][e])
    BY <1>1, <1>2, <2>1 DEF Directions
  <2> QED
    BY <1>1, <2>1, <2>2 DEF BishopAttack, Directions
<1> QED
  BY <1>3, <1>4

(* From where a piece may go to a cell, it attacks the cell. *)
LEMMA SourcesOfSteps ==
  ASSUME NEW s \in Coord, NEW x, NEW c \in Color, NEW all
  PROVE  /\ x \in KingAttacks[s] => x \in Coord /\ s \in Sources(King, c, all, x)
         /\ x \in KnightAttacks[s] => x \in Coord /\ s \in Sources(Knight, c, all, x)
         /\ x \in BishopAttack(all, s) =>
              /\ x \in Coord
              /\ s \in Sources(Bishop, c, all, x) /\ s \in Sources(Queen, c, all, x)
         /\ x \in RookAttack(all, s) =>
              /\ x \in Coord
              /\ s \in Sources(Rook, c, all, x) /\ s \in Sources(Queen, c, all, x)
<1>1. x \in KingAttacks[s] => x \in Coord /\ s \in KingAttacks[x]
  <2>1. SUFFICES ASSUME x \in KingAttacks[s] PROVE x \in Coord /\ s \in KingAttacks[x]
    OBVIOUS
  <2>2. /\ x \in Coord /\ x # s
        /\ CoordX(x) - CoordX(s) \in -1..1 /\ CoordY(x) - CoordY(s) \in -1..1
    BY <2>1, NearCells
  <2>3. CoordX(s) - CoordX(x) \in -1..1 /\ CoordY(s) - CoordY(x) \in -1..1
    BY <2>2, CoordParts DEF Subcoord
  <2> QED
    BY <2>2, <2>3, NearCells
<1>2. x \in KnightAttacks[s] => x \in Coord /\ s \in KnightAttacks[x]
  <2>1. SUFFICES ASSUME x \in KnightAttacks[s] PROVE x \in Coord /\ s \in KnightAttacks[x]
    OBVIOUS
  <2>2. /\ x \in Coord
        /\ \/ CoordX(x) - CoordX(s) \in {-2, 2} /\ CoordY(x) - CoordY(s) \in {-1, 1}
           \/ CoordX(x) - CoordX(s) \in {-1, 1} /\ CoordY(x) - CoordY(s) \in {-2, 2}
    BY <2>1, NearCells
  <2>3. \/ CoordX(s) - CoordX(x) \in {-2, 2} /\ CoordY(s) - CoordY(x) \in {-1, 1}
        \/ CoordX(s) - CoordX(x) \in {-1, 1} /\ CoordY(s) - CoordY(x) \in {-2, 2}
    BY <2>2, CoordParts DEF Subcoord
  <2> QED
    BY <2>2, <2>3, NearCells
<1> QED
  BY <1>1, <1>2, SliderSymmetry, SourceSets

(* Two occupancies that differ at most on x and, for a cell s of another row, *)
(* on the row of x.                                                           *)
Agree(x, s, one, two) ==
  \A t \in Coord : t # x /\ (CoordX(t) # CoordX(x) \/ CoordX(s) = CoordX(x)) =>
                     (t \in one <=> t \in two)

(* On the way to a cell of another row no cell of the row is passed. *)
LEMMA RayAgrees ==
  ASSUME NEW x \in Coord, NEW d \in Directions, NEW s, NEW one, NEW two,
         Agree(x, s, one, two),
         s \in RayAttack(one, Ray[d][x])
  PROVE  s \in RayAttack(two, Ray[d][x])
<1>1. \A occupied : s \in RayAttack(occupied, Ray[d][x]) <=>
        \E k \in 1..7 : /\ Reaches(x, d, k) /\ s = Along(x, d, k)
                        /\ \A j \in 1..(k - 1) : Along(x, d, j) \notin occupied
  BY RayAttackCells
<1>2. PICK k \in 1..7 : /\ Reaches(x, d, k) /\ s = Along(x, d, k)
                        /\ \A j \in 1..(k - 1) : Along(x, d, j) \notin one
  BY <1>1
<1>3. ASSUME NEW j \in 1..(k - 1) PROVE Along(x, d, j) \notin two
  <2>1. j \in 1..7 /\ Reaches(x, d, j)
    BY <1>2, RayCells
  <2>2. PICK t \in Coord : /\ t = Along(x, d, j) /\ CoordX(t) = CoordX(x) + j * d[1]
                           /\ CoordY(t) = CoordY(x) + j * d[2]
    BY <2>1, AlongParts
  <2>3. CoordX(s) = CoordX(x) + k * d[1]
    BY <1>2, AlongParts
  <2>4. PICK a, b \in {-1, 0, 1} : a = d[1] /\ b = d[2] /\ (a # 0 \/ b # 0)
    BY DirectionParts DEF Directions
  <2>5. CoordX(x) \in Int /\ CoordY(x) \in Int
    BY CoordParts DEF Subcoord
  <2>6. \A w \in {-1, 0, 1} : (j * w = 0 <=> w = 0) /\ (k * w = 0 <=> w = 0)
                              /\ j * w \in Int /\ k * w \in Int
    OBVIOUS
  <2>7. PICK ja, jb, ka \in Int :
          /\ CoordX(t) = CoordX(x) + ja /\ CoordY(t) = CoordY(x) + jb
          /\ CoordX(s) = CoordX(x) + ka
          /\ (ja = 0 <=> a = 0) /\ (ka = 0 <=> a = 0) /\ (jb = 0 <=> b = 0)
    BY <2>2, <2>3, <2>4, <2>6
  <2>8. t # x
    BY <2>4, <2>5, <2>7
  <2>9. CoordX(s) = CoordX(x) \/ CoordX(t) # CoordX(x)
    BY <2>5, <2>7
  <2> QED
    BY <1>2, <2>2, <2>8, <2>9 DEF Agree
<1> QED
  BY <1>1, <1>2, <1>3

(* Whether a piece attacks a cell is decided by the cells between. *)
LEMMA SourcesAgree ==
  ASSUME NEW p \in Piece, NEW c \in Color, NEW x \in Coord, NEW s, NEW one, NEW two,
         Agree(x, s, one, two)
  PROVE  s \in Sources(p, c, one, x) <=> s \in Sources(p, c, two, x)
<1>1. \A d \in Directions : s \in RayAttack(one, Ray[d][x]) <=> s \in RayAttack(two, Ray[d][x])
  <2> TAKE d \in Directions
  <2>1. s \in RayAttack(one, Ray[d][x]) => s \in RayAttack(two, Ray[d][x])
    BY RayAgrees
  <2>2. s \in RayAttack(two, Ray[d][x]) => s \in RayAttack(one, Ray[d][x])
    <3>1. Agree(x, s, two, one)
      BY DEF Agree
    <3> QED
      BY <3>1, RayAgrees
  <2> QED
    BY <2>1, <2>2
<1>2. s \in RookAttack(one, x) <=> s \in RookAttack(two, x)
  BY <1>1 DEF RookAttack, Directions
<1>3. s \in BishopAttack(one, x) <=> s \in BishopAttack(two, x)
  BY <1>1 DEF BishopAttack, Directions
<1> QED
  BY <1>2, <1>3, SourceSets

(* No piece attacks the cell it stands on. *)
LEMMA SourcesElsewhere ==
  ASSUME NEW p \in Piece, NEW c \in Color, NEW x \in Coord, NEW all
  PROVE  x \notin Sources(p, c, all, x)
<1>1. CoordX(x) - CoordX(x) = 0 /\ CoordY(x) - CoordY(x) = 0 /\ Invert(c) \in Color
  BY CoordParts, Colors DEF Subcoord
<1>2. x \notin KingAttacks[x] /\ x \notin KnightAttacks[x] /\ x \notin PawnAttacks[Invert(c)][x]
  BY <1>1, NearCells
<1>3. x \notin RookAttack(all, x) /\ x \notin BishopAttack(all, x)
  <2>1. x \notin RookPostMask[x] /\ x \notin BishopPostMask[x]
    BY PostMaskCells
  <2> QED
    BY <2>1, RookAttackFacts, BishopAttackFacts
<1> QED
  BY <1>2, <1>3, SourceSets

(* Along a row: what stands between decides whether a rook attacks, and other *)
(* pieces than rooks and queens do not reach beyond the next cell.            *)
LEMMA SameRow ==
  ASSUME NEW x \in Coord, NEW s \in Coord, CoordX(s) = CoordX(x)
  PROVE  /\ CoordY(s) - CoordY(x) = s - x
         /\ s = x + (CoordY(s) - CoordY(x)) /\ CoordX(s) - CoordX(x) = 0
BY DEF Coord, CoordX, CoordY

LEMMA RowRook ==
  ASSUME NEW x \in Coord, NEW s \in Coord, CoordX(s) = CoordX(x), s # x, NEW all
  PROVE  s \in RookAttack(all, x) <=>
           \A t \in Coord : (s < t /\ t < x) \/ (x < t /\ t < s) => t \notin all
<1>1. PICK r, y, z \in Subcoord : /\ r = CoordX(x) /\ y = CoordY(x) /\ z = CoordY(s)
                                  /\ x = 8 * r + y /\ s = 8 * r + z
  BY CoordParts DEF MakeCoord
<1>2. \A d \in RookDirections : d \in Directions
  BY DEF Directions
<1>3. ASSUME NEW d \in Directions, d[1] = 0, NEW k \in 1..7
      PROVE  /\ Along(x, d, k) = x + k * d[2]
             /\ Reaches(x, d, k) <=> y + k * d[2] \in Subcoord
  <2>1. PICK b \in {-1, 0, 1} : b = d[2]
    BY DirectionParts
  <2>2. PICK kb \in Int : kb = k * b
    OBVIOUS
  <2>3. k * d[1] = 0 /\ r + 0 = r
    BY <1>3 DEF Subcoord
  <2> QED
    BY <1>1, <2>1, <2>2, <2>3 DEF Along, Reaches, OnBoard, MakeCoord, Subcoord
<1>4. ASSUME s \in RookAttack(all, x), NEW t \in Coord,
             (s < t /\ t < x) \/ (x < t /\ t < s)
      PROVE  t \notin all
  <2>1. PICK d \in RookDirections : s \in RayAttack(all, Ray[d][x])
    BY <1>4 DEF RookAttack
  <2>2. d \in Directions
    BY <1>2
  <2>3. s \in RayAttack(all, Ray[d][x]) <=>
          \E k \in 1..7 : /\ Reaches(x, d, k) /\ s = Along(x, d, k)
                          /\ \A j \in 1..(k - 1) : Along(x, d, j) \notin all
    BY <2>2, RayAttackCells
  <2>4. PICK k \in 1..7 : /\ Reaches(x, d, k) /\ s = Along(x, d, k)
                          /\ \A j \in 1..(k - 1) : Along(x, d, j) \notin all
    BY <2>1, <2>3
  <2>5. PICK a, b \in {-1, 0, 1} : a = d[1] /\ b = d[2] /\ (a = 0 <=> b # 0)
    BY <2>2, DirectionParts
  <2>6. CoordX(s) = r + k * a
    BY <1>1, <2>2, <2>4, <2>5, AlongParts
  <2>7. a = 0 /\ b \in {-1, 1}
    BY <1>1, <2>5, <2>6 DEF Subcoord
  <2>8. s = x + k * b
    BY <1>3, <2>2, <2>4, <2>5, <2>7
  <2>9. PICK j \in 1..(k - 1) : t = x + j * b
    <3>1. t \in Int /\ s \in Int /\ x \in Int
      BY DEF Coord
    <3>2. CASE b = 1
      <4>1. t - x \in 1..(k - 1) /\ t = x + (t - x) * 1
        BY <1>4, <2>8, <3>1, <3>2
      <4> QED
        BY <3>2, <4>1
    <3>3. CASE b = -1
      <4>1. x - t \in 1..(k - 1) /\ t = x + (x - t) * (-1)
        BY <1>4, <2>8, <3>1, <3>3
      <4> QED
        BY <3>3, <4>1
    <3> QED
      BY <2>7, <3>2, <3>3
  <2>10. j \in 1..7
    OBVIOUS
  <2>11. Along(x, d, j) = t
    BY <1>3, <2>2, <2>5, <2>7, <2>9, <2>10
  <2> QED
    BY <2>4, <2>11
<1>5. ASSUME \A t \in Coord : (s < t /\ t < x) \/ (x < t /\ t < s) => t \notin all
      PROVE  s \in RookAttack(all, x)
  <2>1. PICK b \in {-1, 1} : \E k \in 1..7 : s = x + k * b /\ z = y + k * b
    <3>1. CASE z > y
      <4>1. PICK k \in 1..7 : k = z - y
        BY <3>1 DEF Subcoord
      <4>2. z = y + k /\ s = x + k
        <5>1. s = x + (CoordY(s) - CoordY(x)) /\ CoordY(s) - CoordY(x) = k
          BY <1>1, <4>1, SameRow
        <5>2. z = y + k
          BY <4>1 DEF Subcoord
        <5> QED
          BY <5>1, <5>2
      <4>3. k * 1 = k
        OBVIOUS
      <4> QED
        BY <4>2, <4>3
    <3>2. CASE z < y
      <4>1. PICK k \in 1..7 : k = y - z
        BY <3>2 DEF Subcoord
      <4>2. z = y + (-k) /\ s = x + (-k)
        <5>1. s = x + (CoordY(s) - CoordY(x)) /\ CoordY(s) - CoordY(x) = z - y
          BY <1>1, SameRow
        <5>2. z - y = -k /\ z = y + (-k)
          BY <4>1 DEF Subcoord
        <5> QED
          BY <5>1, <5>2
      <4>3. k * (-1) = -k
        OBVIOUS
      <4> QED
        BY <4>2, <4>3
    <3>3. z # y
      BY <1>1
    <3> QED
      BY <3>1, <3>2, <3>3 DEF Subcoord
  <2>8. PICK k \in 1..7 : s = x + k * b /\ z = y + k * b
    BY <2>1
  <2>2. PICK d \in RookDirections : d[1] = 0 /\ d[2] = b
    BY DEF RookDirections
  <2>3. d \in Directions
    BY <1>2
  <2>4. Reaches(x, d, k) /\ s = Along(x, d, k)
    BY <1>1, <1>3, <2>8, <2>2, <2>3
  <2>5. ASSUME NEW j \in 1..(k - 1) PROVE Along(x, d, j) \notin all
    <3>1. j \in 1..7 /\ Reaches(x, d, j)
      BY <2>3, <2>4, RayCells
    <3>2. Along(x, d, j) = x + j * b /\ Along(x, d, j) \in Coord
      BY <1>3, <2>2, <2>3, <3>1, AlongParts
    <3>3. (s < x + j * b /\ x + j * b < x) \/ (x < x + j * b /\ x + j * b < s)
      <4>1. x \in Int
        BY DEF Coord
      <4>2. CASE b = 1
        BY <2>8, <4>1, <4>2
      <4>3. CASE b = -1
        BY <2>8, <4>1, <4>3
      <4> QED
        BY <4>2, <4>3
    <3> QED
      BY <1>5, <3>2, <3>3
  <2>6. s \in RayAttack(all, Ray[d][x]) <=>
          \E i \in 1..7 : /\ Reaches(x, d, i) /\ s = Along(x, d, i)
                          /\ \A j \in 1..(i - 1) : Along(x, d, j) \notin all
    BY <2>3, RayAttackCells
  <2>7. s \in RayAttack(all, Ray[d][x])
    BY <2>4, <2>5, <2>6
  <2> QED
    BY <2>7 DEF RookAttack
<1> QED
  BY <1>4, <1>5

LEMMA RowSources ==
  ASSUME NEW x \in Coord, NEW s \in Coord, CoordX(s) = CoordX(x),
         s < x - 1 \/ s > x + 1,
         NEW p \in Piece, NEW c \in Color, NEW all, s \in Sources(p, c, all, x)
  PROVE  (p = Rook \/ p = Queen) /\ s \in RookAttack(all, x)
<1>1. PICK r, y, z \in Subcoord : /\ r = CoordX(x) /\ y = CoordY(x) /\ z = CoordY(s)
                                  /\ r = CoordX(s) /\ x = 8 * r + y /\ s = 8 * r + z
  BY CoordParts DEF MakeCoord
<1>2. r - r = 0 /\ z - y \notin -1..1
  <2>1. z - y = s - x /\ r - r = 0
    BY <1>1, SameRow, ZenonT(60)
  <2> QED
    BY <2>1 DEF Coord
<1>3. s \notin KingAttacks[x] /\ s \notin KnightAttacks[x]
  <2>1. /\ s \in KingAttacks[x] => CoordY(s) - CoordY(x) \in -1..1
        /\ s \in KnightAttacks[x] => CoordX(s) - CoordX(x) \in {-2, -1, 1, 2}
    <3>1. /\ s \in KingAttacks[x] <=>
              /\ s \in Coord /\ s # x
              /\ CoordX(s) - CoordX(x) \in -1..1 /\ CoordY(s) - CoordY(x) \in -1..1
          /\ s \in KnightAttacks[x] <=>
              /\ s \in Coord
              /\ \/ CoordX(s) - CoordX(x) \in {-2, 2} /\ CoordY(s) - CoordY(x) \in {-1, 1}
                 \/ CoordX(s) - CoordX(x) \in {-1, 1} /\ CoordY(s) - CoordY(x) \in {-2, 2}
      BY NearCells
    <3> QED
      BY <3>1
  <2>2. CoordY(s) - CoordY(x) = z - y /\ CoordX(s) - CoordX(x) = r - r
    BY <1>1
  <2> HIDE DEF CoordX, CoordY
  <2> QED
    BY <1>2, <2>1, <2>2
<1>4. s \notin PawnAttacks[Invert(c)][x]
  <2>1. \A k \in Color : s \in PawnAttacks[k][x] => CoordX(s) - CoordX(x) = IF k = White THEN -1 ELSE 1
    BY NearCells
  <2>2. \A k \in Color : s \notin PawnAttacks[k][x]
    BY <1>1, <1>2, <2>1
  <2> QED
    BY <2>2, Colors
<1>5. s \notin BishopAttack(all, x)
  <2>1. s \in BishopPostMask[x] => (CoordX(s) + CoordY(s) = CoordX(x) + CoordY(x)
                 <=> CoordY(s) - CoordX(s) # CoordY(x) - CoordX(x))
    BY PostMaskCells
  <2>2. r + z # r + y /\ z - r # y - r
    BY <1>2 DEF Subcoord
  <2>3. s \notin BishopPostMask[x]
    BY <1>1, <2>1, <2>2
  <2> QED
    BY <2>3, BishopAttackFacts
<1> QED
  BY <1>3, <1>4, <1>5, SourceSets

-----------------------------------------------------------------------------
(* What the generators know of a move *)

(* Beyond what moveMake() relies on: a capture goes where the piece attacks, *)
(* a pawn that stays a pawn stays off the first and the last row, and a king *)
(* that castles is not in check.                                             *)
Shaped(b, m) ==
  LET c == b.side
      o == CastlingOffset(c)
  IN  /\ m.kind \in PromoteKinds \union {"Simple"} /\ b.cells[m.dst] # EmptyCell =>
           \E p \in Piece : /\ b.cells[m.src] = MakeCell(c, p)
                            /\ m.src \in Sources(p, c, b.bbAll, m.dst)
      /\ m.kind = "Simple" /\ b.cells[m.src] = MakeCell(c, Pawn) => CoordX(m.dst) \in 1..6
      /\ m.kind = "Enpassant" => CoordX(m.dst) \in 1..6
      /\ m.kind \in {"CastlingKingside", "CastlingQueenside"} =>
           m.src = o + 4 /\ CellAttackers(b, KingPos(b, c), Invert(c)) = {}
      /\ m.kind = "CastlingKingside" => m.dst = o + 6
      /\ m.kind = "CastlingQueenside" => m.dst = o + 2 /\ b.cells[o + 1] = EmptyCell

(* Simple moves of other pieces than pawns. *)
LEMMA PieceShaped ==
  ASSUME NEW b, Fresh(b), NEW src \in Coord, NEW dst, NEW p \in Piece, p # Pawn,
         b.cells[src] = MakeCell(b.side, p), src \in Sources(p, b.side, b.bbAll, dst)
  PROVE  Shaped(b, Move("Simple", src, dst))
<1> DEFINE m == Move("Simple", src, dst)
<1>1. m.kind = "Simple" /\ m.src = src /\ m.dst = dst
  BY DEF Move
<1>2. b.side \in Color
  BY BoardFields DEF Fresh
<1>3. b.cells[src] # MakeCell(b.side, Pawn)
  BY <1>2, CellFacts, PieceFacts
<1> HIDE DEF m
<1>4. Shaped(b, m)
  BY <1>1, <1>3 DEF Shaped
<1> QED
  BY <1>4 DEF m

LEMMA PieceMovesShaped ==
  ASSUME NEW b, Fresh(b), NEW mask, NEW m,
         LET c == b.side
             allowed == GetAllowedMask(b, c, TRUE, TRUE)
         IN  \/ m \in GenKnightOrKing(b, c, King, allowed, mask)
             \/ m \in GenKnightOrKing(b, c, Knight, allowed, mask)
             \/ m \in GenBishopOrRook(b, Bishop, BbDiagPieces(b, c), allowed, mask)
             \/ m \in GenBishopOrRook(b, Rook, BbLinePieces(b, c), allowed, mask)
  PROVE  Shaped(b, m)
<1> DEFINE c == b.side
           allowed == GetAllowedMask(b, c, TRUE, TRUE)
<1>1. c \in Color
  BY BoardFields DEF Fresh
<1>2. \A p \in Piece : \A x : x \in Bb(b, c, p) <=> x \in Coord /\ b.cells[x] = MakeCell(c, p)
  BY <1>1, BitboardCells
<1>3. /\ {King, Knight, Bishop, Rook, Queen} \subseteq Piece
      /\ Pawn \notin {King, Knight, Bishop, Rook, Queen} /\ King # Knight /\ Bishop # Rook
  BY DEF Piece, Pawn, King, Knight, Bishop, Rook, Queen
<1>4. ASSUME NEW p \in {King, Knight, Bishop, Rook, Queen}, NEW src \in Bb(b, c, p), NEW dst,
             m = Move("Simple", src, dst), src \in Sources(p, c, b.bbAll, dst)
      PROVE  Shaped(b, m)
  <2>1. p \in Piece /\ p # Pawn
    BY <1>3
  <2>2. src \in Coord /\ b.cells[src] = MakeCell(c, p)
    BY <1>2, <2>1
  <2> QED
    BY <1>4, <2>1, <2>2, PieceShaped
<1> HIDE DEF allowed, c
<1>5. CASE m \in GenKnightOrKing(b, c, King, allowed, mask)
  <2>0. PICK src \in Bb(b, c, King) : \E dst \in KingAttacks[src] : m = Move("Simple", src, dst)
    BY <1>3, <1>5 DEF GenKnightOrKing
  <2>1. PICK dst \in KingAttacks[src] : m = Move("Simple", src, dst)
    BY <2>0
  <2>2. src \in Coord
    BY <1>2, <1>3
  <2>3. src \in Sources(King, c, b.bbAll, dst)
    BY <1>1, <2>1, <2>2, SourcesOfSteps
  <2> QED
    BY <1>4, <2>1, <2>3
<1>6. CASE m \in GenKnightOrKing(b, c, Knight, allowed, mask)
  <2>0. PICK src \in Bb(b, c, Knight) : \E dst \in KnightAttacks[src] : m = Move("Simple", src, dst)
    BY <1>6 DEF GenKnightOrKing
  <2>1. PICK dst \in KnightAttacks[src] : m = Move("Simple", src, dst)
    BY <2>0
  <2>2. src \in Coord
    BY <1>2, <1>3
  <2>3. src \in Sources(Knight, c, b.bbAll, dst)
    BY <1>1, <2>1, <2>2, SourcesOfSteps
  <2> QED
    BY <1>4, <2>1, <2>3
<1>7. CASE m \in GenBishopOrRook(b, Bishop, BbDiagPieces(b, c), allowed, mask)
  <2>0. PICK src \in BbDiagPieces(b, c) : \E dst \in BishopAttack(b.bbAll, src) : m = Move("Simple", src, dst)
    BY <1>7 DEF GenBishopOrRook
  <2>1. PICK dst \in BishopAttack(b.bbAll, src) : m = Move("Simple", src, dst)
    BY <2>0
  <2>2. PICK p \in {Bishop, Queen} : src \in Bb(b, c, p)
    BY DEF BbDiagPieces
  <2>3. src \in Coord
    BY <1>2, <1>3, <2>2
  <2>4. /\ src \in Sources(Bishop, c, b.bbAll, dst)
        /\ src \in Sources(Queen, c, b.bbAll, dst)
    BY <1>1, <2>1, <2>3, SourcesOfSteps
  <2> QED
    BY <1>4, <2>1, <2>2, <2>4
<1>8. CASE m \in GenBishopOrRook(b, Rook, BbLinePieces(b, c), allowed, mask)
  <2>0. PICK src \in BbLinePieces(b, c) : \E dst \in RookAttack(b.bbAll, src) : m = Move("Simple", src, dst)
    BY <1>3, <1>8 DEF GenBishopOrRook
  <2>1. PICK dst \in RookAttack(b.bbAll, src) : m = Move("Simple", src, dst)
    BY <2>0
  <2>2. PICK p \in {Rook, Queen} : src \in Bb(b, c, p)
    BY DEF BbLinePieces
  <2>3. src \in Coord
    BY <1>2, <1>3, <2>2
  <2>4. /\ src \in Sources(Rook, c, b.bbAll, dst)
        /\ src \in Sources(Queen, c, b.bbAll, dst)
    BY <1>1, <2>1, <2>3, SourcesOfSteps
  <2> QED
    BY <1>4, <2>1, <2>2, <2>4
<1> QED
  BY <1>5, <1>6, <1>7, <1>8 DEF c, allowed

(* A pawn's move: to an empty cell, or to one it attacks. *)
LEMMA PawnStepShaped ==
  ASSUME NEW b, Fresh(b), NEW src \in Coord, NEW dst \in Coord, NEW isPromote,
         b.cells[src] = MakeCell(b.side, Pawn),
         b.cells[dst] = EmptyCell \/ src \in PawnAttacks[Invert(b.side)][dst],
         isPromote \/ CoordX(dst) \in 1..6,
         NEW m \in PawnMoves(src, dst, isPromote)
  PROVE  Shaped(b, m)
<1>1. /\ m.kind \in PromoteKinds \union {"Simple"} /\ m.src = src /\ m.dst = dst
      /\ m.kind = "Simple" => ~isPromote
  BY DEF PawnMoves, Move, PromoteKinds
<1>2. b.cells[dst] # EmptyCell =>
        \E p \in Piece : b.cells[src] = MakeCell(b.side, p) /\ src \in Sources(p, b.side, b.bbAll, dst)
  <2>1. Pawn \in Piece /\ Sources(Pawn, b.side, b.bbAll, dst) = PawnAttacks[Invert(b.side)][dst]
    BY PieceFacts, SourceSets
  <2> QED
    BY <2>1
<1>3. /\ m.kind \notin {"Enpassant", "CastlingKingside", "CastlingQueenside"}
  BY <1>1 DEF PromoteKinds
<1> QED
  BY <1>1, <1>2, <1>3 DEF Shaped

LEMMA SingleShaped ==
  ASSUME NEW b, Fresh(b), NEW pawns, pawns \subseteq Bb(b, b.side, Pawn), NEW isPromote, NEW mask,
         isPromote \/ pawns \intersect BbRow[PromoteSrcRow(b.side)] = {},
         NEW m \in DoGenPawnSingle(b, b.side, pawns, isPromote, mask)
  PROVE  Shaped(b, m)
<1> DEFINE c == b.side
           dsts == (AdvancePawnForward(c, pawns) \ b.bbAll) \cap mask
<1>1. PICK dst \in dsts : m \in PawnMoves(dst - PawnForwardDelta(c), dst, isPromote)
  BY DEF DoGenPawnSingle
<1> DEFINE src == dst - PawnForwardDelta(c)
<1>2. c \in Color
  BY BoardFields DEF Fresh
<1>3. /\ \A x : x \in b.bbAll <=> x \in Coord /\ b.cells[x] # EmptyCell
      /\ \A x : x \in Bb(b, c, Pawn) <=> x \in Coord /\ b.cells[x] = MakeCell(c, Pawn)
  BY <1>2, BitboardCells, PieceFacts
<1>4. pawns \subseteq Coord /\ dst \in AdvancePawnForward(c, pawns) /\ dst \notin b.bbAll
  BY <1>1, <1>3
<1>5. dst \in Coord /\ src \in pawns
  BY <1>2, <1>4, Advanced
<1>6. src \in Coord /\ b.cells[src] = MakeCell(c, Pawn) /\ b.cells[dst] = EmptyCell
  BY <1>3, <1>4, <1>5
<1>7. isPromote \/ CoordX(dst) \in 1..6
  <2>1. PromoteSrcRow(c) \in Subcoord
    BY <1>2 DEF PromoteSrcRow, Color, Subcoord
  <2>2. isPromote \/ CoordX(src) # PromoteSrcRow(c)
    <3>1. src \in BbRow[PromoteSrcRow(c)] <=> CoordX(src) = PromoteSrcRow(c)
      BY <1>6, <2>1, LineCells
    <3> QED
      BY <1>5, <3>1
  <2>3. CoordX(src) # PromoteSrcRow(c) => CoordX(dst) \in 1..6
    BY <1>2, <1>5, <1>6 DEF PromoteSrcRow, PawnForwardDelta, CoordX, Coord, Color, White, Black
  <2> QED
    BY <2>2, <2>3
<1> HIDE DEF src
<1>8. m \in PawnMoves(src, dst, isPromote)
  BY <1>1 DEF src
<1> QED
  BY <1>5, <1>6, <1>7, <1>8, PawnStepShaped


LEMMA CaptureShaped ==
  ASSUME NEW b, Fresh(b), NEW pawns, pawns \subseteq Bb(b, b.side, Pawn), NEW isPromote, NEW mask,
         isPromote \/ pawns \intersect BbRow[PromoteSrcRow(b.side)] = {},
         NEW m \in DoGenPawnCapture(b, b.side, pawns, isPromote, mask)
  PROVE  Shaped(b, m)
<1> DEFINE c == b.side
           d == Invert(c)
           left == (AdvancePawnLeft(c, pawns) \cap b.bbColor[d]) \cap mask
           right == (AdvancePawnRight(c, pawns) \cap b.bbColor[d]) \cap mask
<1>1. \/ \E dst \in left : m \in PawnMoves(dst - PawnLeftDelta(c), dst, isPromote)
      \/ \E dst \in right : m \in PawnMoves(dst - PawnRightDelta(c), dst, isPromote)
  BY DEF DoGenPawnCapture
<1>2. c \in Color
  BY BoardFields DEF Fresh
<1>3. pawns \subseteq Coord /\ \A x \in pawns : b.cells[x] = MakeCell(c, Pawn)
  <2>1. \A x : x \in Bb(b, c, Pawn) <=> x \in Coord /\ b.cells[x] = MakeCell(c, Pawn)
    BY <1>2, BitboardCells, PieceFacts
  <2> QED
    BY <2>1
<1>4. 0 \in Subcoord /\ 7 \in Subcoord /\ PromoteSrcRow(c) \in Subcoord
  BY <1>2 DEF Subcoord, PromoteSrcRow
<1>5. ASSUME NEW src \in pawns, NEW dst \in Coord,
             \/ src \notin BbCol[0] /\ src = dst - PawnLeftDelta(c)
             \/ src \notin BbCol[7] /\ src = dst - PawnRightDelta(c),
             m \in PawnMoves(src, dst, isPromote)
      PROVE  Shaped(b, m)
  <2>1. src \in Coord /\ b.cells[src] = MakeCell(c, Pawn)
    BY <1>3
  <2>2. /\ src \in BbCol[0] <=> CoordY(src) = 0
        /\ src \in BbCol[7] <=> CoordY(src) = 7
        /\ src \in BbRow[PromoteSrcRow(c)] <=> CoordX(src) = PromoteSrcRow(c)
    BY <1>4, <2>1, LineCells
  <2>3. /\ CoordX(src) - CoordX(dst) = IF c = White THEN 1 ELSE -1
        /\ CoordY(src) - CoordY(dst) \in {-1, 1}
        /\ CoordX(src) # PromoteSrcRow(c) => CoordX(dst) \in 1..6
    BY <1>2, <1>5, <2>1, <2>2 DEF PromoteSrcRow, PawnLeftDelta, PawnRightDelta, CoordX, CoordY,
                                  Coord, Color, White, Black
  <2>4. CoordX(src) - CoordX(dst) = IF d = White THEN -1 ELSE 1
    BY <1>2, <2>3 DEF Color, Invert, White, Black
  <2>5. src \in PawnAttacks[d][dst]
    <3>1. d \in Color
      BY <1>2, Colors
    <3>2. src \in PawnAttacks[d][dst] <=>
              /\ src \in Coord
              /\ CoordX(src) - CoordX(dst) = IF d = White THEN -1 ELSE 1
              /\ CoordY(src) - CoordY(dst) \in {-1, 1}
      BY <3>1, NearCells
    <3> QED
      BY <2>1, <2>3, <2>4, <3>2
  <2>6. isPromote \/ CoordX(dst) \in 1..6
    BY <1>5, <2>2, <2>3
  <2> QED
    BY <1>5, <2>1, <2>5, <2>6, PawnStepShaped
<1>6. /\ PawnLeftDelta(c) \in Int /\ PawnRightDelta(c) \in Int
      /\ pawns \ BbCol[0] \subseteq Coord /\ pawns \ BbCol[7] \subseteq Coord
  BY <1>3 DEF PawnLeftDelta, PawnRightDelta
<1>7. CASE \E dst \in left : m \in PawnMoves(dst - PawnLeftDelta(c), dst, isPromote)
  <2>1. PICK dst \in left : m \in PawnMoves(dst - PawnLeftDelta(c), dst, isPromote)
    BY <1>7
  <2>2. dst \in Shift(pawns \ BbCol[0], PawnLeftDelta(c))
    BY <2>1 DEF AdvancePawnLeft
  <2>3. dst \in Coord /\ dst - PawnLeftDelta(c) \in pawns \ BbCol[0]
    BY <1>6, <2>2, Shifted
  <2> QED
    BY <1>5, <2>1, <2>3
<1>8. CASE \E dst \in right : m \in PawnMoves(dst - PawnRightDelta(c), dst, isPromote)
  <2>1. PICK dst \in right : m \in PawnMoves(dst - PawnRightDelta(c), dst, isPromote)
    BY <1>8
  <2>2. dst \in Shift(pawns \ BbCol[7], PawnRightDelta(c))
    BY <2>1 DEF AdvancePawnRight
  <2>3. dst \in Coord /\ dst - PawnRightDelta(c) \in pawns \ BbCol[7]
    BY <1>6, <2>2, Shifted
  <2> QED
    BY <1>5, <2>1, <2>3
<1> QED
  BY <1>1, <1>7, <1>8

LEMMA EnpassantShaped ==
  ASSUME NEW b, Fresh(b), NEW m \in GenPawnEnpassant(b, b.side)
  PROVE  Shaped(b, m)
<1> DEFINE c == b.side
           ep == b.enpassantCoord
           dst == ep + PawnForwardDelta(c)
<1>1. ep # InvalidCoord /\ m.kind = "Enpassant" /\ m.dst = dst
  BY DEF GenPawnEnpassant, Move
<1>2. c \in Color /\ ep \in Coord
  BY <1>1, BoardFields DEF Fresh, MaybeCoord
<1>3. CoordX(ep) = EnpassantSrcRow(c)
  BY <1>1 DEF Fresh
<1>4. CoordX(dst) \in 1..6
  BY <1>2, <1>3 DEF Color, White, Black, Coord, CoordX, EnpassantSrcRow, PawnForwardDelta
<1> HIDE DEF dst
<1> QED
  BY <1>1, <1>4 DEF Shaped, PromoteKinds

LEMMA DoubleShaped ==
  ASSUME NEW b, NEW c, NEW pawns, NEW mask, NEW m \in DoGenPawnDouble(b, c, pawns, mask)
  PROVE  Shaped(b, m)
<1>1. m.kind = "PawnDoubleMove"
  BY DEF DoGenPawnDouble, Move
<1> QED
  BY <1>1 DEF Shaped, PromoteKinds

LEMMA CastlingShaped ==
  ASSUME NEW b, Fresh(b), NEW m \in GenCastling(b, b.side),
         CellAttackers(b, KingPos(b, b.side), Invert(b.side)) = {}
  PROVE  Shaped(b, m)
<1> DEFINE c == b.side
           o == CastlingOffset(c)
<1>1. PICK s \in {Kingside, Queenside} :
        /\ CastlingPass(c, s) \cap b.bbAll = {}
        /\ m = Move(IF s = Kingside THEN "CastlingKingside" ELSE "CastlingQueenside",
                    MakeCoord(CastlingRow(c), 4),
                    MakeCoord(CastlingRow(c), IF s = Kingside THEN 6 ELSE 2))
  BY DEF GenCastling
<1>2. c \in Color
  BY BoardFields DEF Fresh
<1>3. \A x : x \in b.bbAll <=> x \in Coord /\ b.cells[x] # EmptyCell
  BY <1>2, BitboardCells
<1>4. /\ o + 1 \in Coord
      /\ \A y : MakeCoord(CastlingRow(c), y) = o + y
  BY <1>2 DEF Color, White, Black, CastlingOffset, CastlingRow, Coord, MakeCoord
<1>5. CASE s = Kingside
  <2>1. m.kind = "CastlingKingside" /\ m.src = o + 4 /\ m.dst = o + 6
    BY <1>1, <1>4, <1>5 DEF Move
  <2> QED
    BY <2>1 DEF Shaped, PromoteKinds
<1>6. CASE s = Queenside
  <2>1. m.kind = "CastlingQueenside" /\ m.src = o + 4 /\ m.dst = o + 2
    BY <1>1, <1>4, <1>6 DEF Move, Kingside, Queenside
  <2>2. o + 1 \in CastlingPass(c, s)
    BY <1>6 DEF CastlingPass, Kingside, Queenside
  <2>3. b.cells[o + 1] = EmptyCell
    BY <1>1, <1>3, <1>4, <2>2
  <2> QED
    BY <2>1, <2>3 DEF Shaped, PromoteKinds
<1> QED
  BY <1>5, <1>6

LEMMA PawnMovesShaped ==
  ASSUME NEW b, Fresh(b), NEW mask, NEW m,
         \/ m \in GenPawnSimple(b, b.side, "All", mask)
         \/ m \in GenPawnCapture(b, b.side, mask)
         \/ m \in GenPawnEnpassant(b, b.side)
  PROVE  Shaped(b, m)
<1> DEFINE c == b.side
           pawns == Bb(b, c, Pawn)
           promoting == pawns \cap BbRow[PromoteSrcRow(c)]
           doubling == pawns \cap BbRow[DoubleMoveSrcRow(c)]
<1>1. /\ pawns \ promoting \subseteq pawns /\ promoting \subseteq pawns
      /\ (pawns \ promoting) \intersect BbRow[PromoteSrcRow(c)] = {}
  OBVIOUS
<1> HIDE DEF promoting
<1>2. m \in GenPawnSimple(b, c, "All", mask) =>
        \/ m \in DoGenPawnSingle(b, c, pawns \ promoting, FALSE, mask)
        \/ m \in DoGenPawnDouble(b, c, doubling, mask)
        \/ m \in DoGenPawnSingle(b, c, promoting, TRUE, mask)
  BY DEF GenPawnSimple, promoting
<1>3. m \in GenPawnCapture(b, c, mask) =>
        \/ m \in DoGenPawnCapture(b, c, pawns \ promoting, FALSE, mask)
        \/ m \in DoGenPawnCapture(b, c, promoting, TRUE, mask)
  BY DEF GenPawnCapture, promoting
<1> QED
  BY <1>1, <1>2, <1>3, SingleShaped, DoubleShaped, CaptureShaped, EnpassantShaped

(* What genAllMoves() writes, and the null move, is shaped so. *)
LEMMA GeneratedShaped ==
  ASSUME NEW b, Fresh(b), NEW m \in GenAllMoves(b) \cup {NullMove}
  PROVE  Shaped(b, m)
<1> DEFINE c == b.side
           check == Check(b)
           allowed == GetAllowedMask(b, c, TRUE, TRUE)
           parts == GenParts(b, TRUE, TRUE, TRUE)
           king == GenKnightOrKing(b, c, King, allowed, Coord)
           g1 == GenPawnSimple(b, c, "All", check.mask)
           g2 == GenPawnCapture(b, c, check.mask)
           g3 == GenPawnEnpassant(b, c)
           g5 == GenKnightOrKing(b, c, Knight, allowed, check.mask)
           g6 == GenBishopOrRook(b, Bishop, BbDiagPieces(b, c), allowed, check.mask)
           g7 == GenBishopOrRook(b, Rook, BbLinePieces(b, c), allowed, check.mask)
           g8 == IF check.kind = "None" THEN GenCastling(b, c) ELSE {}
<1>1. CASE m = NullMove
  <2>1. m.kind = "Null"
    BY <1>1 DEF NullMove, Move
  <2> QED
    BY <2>1 DEF Shaped, PromoteKinds
<1>2. CASE m \in GenAllMoves(b)
  <2>1. parts = IF check.kind = "Double" THEN <<king>>
                ELSE <<g1, g2, g3, king, g5, g6, g7, g8>>
    BY DEF GenParts, GenImpl, GenInner
  <2>2. \E i \in DOMAIN parts : m \in parts[i]
    BY <1>2 DEF GenAllMoves, Collect
  <2>3. check.kind = "None" => CellAttackers(b, KingPos(b, c), Invert(c)) = {}
    BY DEF Check, CheckBy, CheckKind
  <2> HIDE DEF parts, king, g1, g2, g3, g5, g6, g7, g8
  <2>4. \/ m \in king \/ m \in g1 \/ m \in g2 \/ m \in g3 \/ m \in g5 \/ m \in g6 \/ m \in g7
        \/ m \in g8
    BY <2>1, <2>2
  <2>5. CASE m \in g1 \/ m \in g2 \/ m \in g3
    BY <2>5, PawnMovesShaped DEF g1, g2, g3
  <2>6. CASE m \in king \/ m \in g5 \/ m \in g6 \/ m \in g7
    BY <2>6, PieceMovesShaped DEF king, g5, g6, g7
  <2>7. CASE m \in g8
    BY <2>3, <2>7, CastlingShaped DEF g8
  <2> QED
    BY <2>4, <2>5, <2>6, <2>7
<1> QED
  BY <1>1, <1>2

-----------------------------------------------------------------------------
(* Sound boards *)

(* The king of a colour stands on k, and nowhere else. *)
KingAt(cells, c, k) == k \in Coord /\ \A x \in Coord : cells[x] = MakeCell(c, King) <=> x = k

PawnsInside(cells) ==
  \A c \in Color : \A x \in Coord : cells[x] = MakeCell(c, Pawn) => CoordX(x) \in 1..6

(* What validate() counts on the cells. *)
Peopled(cells) ==
  /\ \A c \in Color : Cardinality(Occupied(cells, c)) <= 16
  /\ \A c \in Color : \E k : KingAt(cells, c, k)
  /\ PawnsInside(cells)

(* A board with what validate() asks for. *)
Sound(b) == Fresh(b) /\ Peopled(b.cells) /\ WasMoveLegal(b)

LEMMA KingPosAt ==
  ASSUME NEW b, Fresh(b), NEW c \in Color, NEW k, KingAt(b.cells, c, k)
  PROVE  KingPos(b, c) = k
<1>1. b.bbPieces[MakeCell(c, King)] = {k}
  <2>1. \A x : x \in Bb(b, c, King) <=> x \in Coord /\ b.cells[x] = MakeCell(c, King)
    BY BitboardCells, PieceFacts
  <2> QED
    BY <2>1 DEF Bb, KingAt
<1>2. k <= k
  BY DEF KingAt, Coord
<1> QED
  BY <1>1, <1>2 DEF KingPos

(* wasMoveLegal(), read from the cells. *)
LEMMA LegalByCells ==
  ASSUME NEW b, Fresh(b), NEW k, KingAt(b.cells, Invert(b.side), k)
  PROVE  WasMoveLegal(b) <=> ~AttackedBy(b.cells, b.bbAll, b.side, k, Coord)
<1>1. b.side \in Color /\ Invert(b.side) \in Color
  BY BoardFields, Colors DEF Fresh
<1>2. KingPos(b, Invert(b.side)) = k
  BY <1>1, KingPosAt
<1>3. IsCellAttacked(b, k, b.side) <=> AttackedBy(b.cells, b.bbAll, b.side, k, Coord)
  BY <1>1, AttacksByCells
<1> QED
  BY <1>2, <1>3 DEF WasMoveLegal

(* validate() accepts a fresh board exactly if it is sound. *)
LEMMA SoundIsValid ==
  ASSUME NEW b, Fresh(b)
  PROVE  Sound(b) <=> Validate(b) = "Ok"
<1> DEFINE kings(c) == Cardinality(Bb(b, c, King))
<1>1. /\ Update(b) = b
      /\ ~(b.enpassantCoord # InvalidCoord /\ CoordX(b.enpassantCoord) # EnpassantSrcRow(b.side))
  BY DEF Fresh
<1>2. Validate(b) = "Ok" <=>
        /\ ~\E c \in Color : Cardinality(b.bbColor[c]) > 16
        /\ ~\E c \in Color : kings(c) = 0
        /\ ~\E c \in Color : kings(c) > 1
        /\ OfKind(b, Pawn) \cap ColFrame = {}
        /\ WasMoveLegal(b)
  BY <1>1 DEF Validate
<1>3. \A c \in Color : /\ b.bbColor[c] = Occupied(b.cells, c)
                       /\ Occupied(b.cells, c) \subseteq Coord
  BY FreshParts DEF Fresh, BitboardsKept, Occupied
<1>4. \A c \in Color : Cardinality(Occupied(b.cells, c)) \in Nat
  BY <1>3, CoordsFinite
<1>5. ASSUME NEW c \in Color
      PROVE  kings(c) # 0 /\ ~(kings(c) > 1) <=> \E k : KingAt(b.cells, c, k)
  <2>1. \A x : x \in Bb(b, c, King) <=> x \in Coord /\ b.cells[x] = MakeCell(c, King)
    BY BitboardCells, PieceFacts
  <2>2. IsFiniteSet(Bb(b, c, King)) /\ kings(c) \in Nat
    <3>1. Bb(b, c, King) \subseteq Coord
      BY <2>1
    <3> QED
      BY <3>1, CoordsFinite
  <2>3. kings(c) = 1 <=> \E k : Bb(b, c, King) = {k}
    BY <2>2, FS_Singleton
  <2>4. (\E k : Bb(b, c, King) = {k}) <=> \E k : KingAt(b.cells, c, k)
    <3>1. \A k : Bb(b, c, King) = {k} <=> KingAt(b.cells, c, k)
      BY <2>1 DEF KingAt
    <3> QED
      BY <3>1
  <2> QED
    BY <2>2, <2>3, <2>4
<1>6. OfKind(b, Pawn) \cap ColFrame = {} <=> PawnsInside(b.cells)
  <2>1. White \in Color /\ Black \in Color /\ \A c \in Color : c = White \/ c = Black
    BY DEF Color
  <2>2. \A c \in Color : \A x : x \in Bb(b, c, Pawn) <=> x \in Coord /\ b.cells[x] = MakeCell(c, Pawn)
    BY BitboardCells, PieceFacts
  <2>3. OfKind(b, Pawn) = Bb(b, White, Pawn) \cup Bb(b, Black, Pawn)
    BY DEF OfKind, Bb
  <2>4. \A x \in Coord : x \notin ColFrame <=> CoordX(x) \in 1..6
    <3>1. \A x \in Coord : (x \in ColFrame <=> CoordX(x) \in {0, 7}) /\ CoordX(x) \in Subcoord
      BY FrameCells, CoordParts
    <3> QED
      BY <3>1 DEF Subcoord
  <2>5. OfKind(b, Pawn) \cap ColFrame = {} <=>
          \A c \in Color : \A x : x \in Bb(b, c, Pawn) => x \notin ColFrame
    BY <2>1, <2>3
  <2> QED
    BY <2>2, <2>4, <2>5 DEF PawnsInside
<1>7. (~\E c \in Color : Cardinality(b.bbColor[c]) > 16) <=>
        \A c \in Color : Cardinality(Occupied(b.cells, c)) <= 16
  BY <1>3, <1>4
<1>8. (~\E c \in Color : kings(c) = 0) /\ (~\E c \in Color : kings(c) > 1) <=>
        \A c \in Color : \E k : KingAt(b.cells, c, k)
  BY <1>5
<1> HIDE DEF kings
<1> QED
  BY <1>2, <1>6, <1>7, <1>8 DEF Sound, Peopled

-----------------------------------------------------------------------------
(* What moves leave standing *)

(* Any move but castling: one piece goes from one cell to another, and a pawn *)
(* may be taken in passing.                                                   *)
TakenPassing(b, m) == IF m.kind = "Enpassant" THEN {EnpassantPawnPos(b.side, m.dst)} ELSE {}

Stepped(b, m, cells) ==
  LET c == b.side
      taken == TakenPassing(b, m)
  IN  /\ m.src \in Coord /\ m.dst \in Coord /\ m.src # m.dst
      /\ Own(c, b.cells[m.src]) /\ ~Own(c, b.cells[m.dst])
      /\ taken \subseteq Coord /\ m.src \notin taken /\ m.dst \notin taken
      /\ \A x \in taken : b.cells[x] = MakeCell(Invert(c), Pawn)
      /\ \A x \in Coord : x # m.dst =>
           cells[x] = IF x = m.src \/ x \in taken THEN EmptyCell ELSE b.cells[x]
      /\ Own(c, cells[m.dst])
      /\ cells[m.dst] = MakeCell(c, King) <=> b.cells[m.src] = MakeCell(c, King)
      /\ cells[m.dst] = MakeCell(c, Pawn) =>
           m.kind \in {"Simple", "PawnDoubleMove", "Enpassant"} /\ b.cells[m.src] = MakeCell(c, Pawn)

StepKinds == PromoteKinds \union {"Simple", "PawnDoubleMove", "Enpassant"}

LEMMA StepMoves ==
  ASSUME NEW b, Fresh(b), NEW m, Makeable(b, m), m.kind \in StepKinds,
         NEW cells, CellsMoved(b, m, cells)
  PROVE  Stepped(b, m, cells)
<1> DEFINE c == b.side
           src == m.src
           dst == m.dst
           taken == TakenPassing(b, m)
           ep == EnpassantPawnPos(c, dst)
<1>1. /\ c \in Color /\ Invert(c) \in Color /\ b.cells \in Cells
      /\ \A x \in Coord : b.cells[x] \in Cell
  BY BoardFields, Colors DEF Fresh, Cells
<1>2. /\ src \in Coord /\ dst \in Coord /\ src # dst
      /\ Own(c, MakeCell(c, Pawn)) /\ ~Own(c, EmptyCell)
      /\ MakeCell(c, Pawn) # MakeCell(c, King)
  BY <1>1, Colors, CellFacts, PieceFacts DEF Makeable, StepKinds, PromoteKinds
<1>3. Own(c, b.cells[src]) /\ ~Own(c, b.cells[dst])
  BY <1>1, <1>2 DEF Makeable, StepKinds
<1> HIDE DEF src, dst, c
<1>4. CASE m.kind = "Enpassant"
  <2>1. /\ b.cells[src] = MakeCell(c, Pawn) /\ b.cells[dst] = EmptyCell
        /\ ep \in Coord /\ b.cells[ep] = MakeCell(Invert(c), Pawn)
        /\ cells = [b.cells EXCEPT ![src] = EmptyCell, ![dst] = MakeCell(c, Pawn), ![ep] = EmptyCell]
    BY <1>4 DEF Makeable, CellsMoved, src, dst, c
  <2>2. MakeCell(Invert(c), Pawn) # MakeCell(c, Pawn) /\ MakeCell(Invert(c), Pawn) # EmptyCell
    BY <1>1, CellFacts, PieceFacts DEF c
  <2>3. ep # src /\ ep # dst /\ taken = {ep}
    BY <1>4, <2>1, <2>2 DEF TakenPassing, dst, c
  <2> HIDE DEF ep, taken
  <2>4. /\ cells[dst] = MakeCell(c, Pawn)
        /\ \A x \in Coord : x # dst =>
             cells[x] = IF x = src \/ x \in taken THEN EmptyCell ELSE b.cells[x]
    BY <1>1, <1>2, <2>1, <2>3 DEF Cells
  <2> QED
    BY <1>2, <1>3, <1>4, <2>1, <2>3, <2>4 DEF Stepped, src, dst, c, taken
<1>5. CASE m.kind # "Enpassant"
  <2>1. taken = {}
    BY <1>5 DEF TakenPassing
  <2>2. PICK placed : /\ cells = [b.cells EXCEPT ![src] = EmptyCell, ![dst] = placed]
                      /\ Own(c, placed)
                      /\ placed = MakeCell(c, King) <=> b.cells[src] = MakeCell(c, King)
                      /\ placed = MakeCell(c, Pawn) =>
                           m.kind \in {"Simple", "PawnDoubleMove"} /\ b.cells[src] = MakeCell(c, Pawn)
    <3>1. CASE m.kind = "Simple"
      BY <1>3, <3>1 DEF CellsMoved, src, dst, c
    <3>2. CASE m.kind = "PawnDoubleMove"
      BY <1>2, <3>2 DEF CellsMoved, Makeable, src, dst, c
    <3>3. CASE m.kind \in PromoteKinds
      <4>1. /\ b.cells[src] = MakeCell(c, Pawn)
            /\ cells = [b.cells EXCEPT ![src] = EmptyCell,
                                       ![dst] = MakeCell(c, PromotePiece(m.kind))]
        BY <3>3 DEF CellsMoved, Makeable, src, dst, c
      <4>2. PICK p \in {Knight, Bishop, Rook, Queen} : p = PromotePiece(m.kind)
        BY <3>3 DEF PromotePiece, PromoteKinds
      <4>3. p \in Piece /\ p # King /\ p # Pawn
        BY DEF Piece, Knight, Bishop, Rook, Queen, King, Pawn
      <4>4. /\ MakeCell(c, p) # MakeCell(c, King) /\ MakeCell(c, p) # MakeCell(c, Pawn)
            /\ Own(c, MakeCell(c, p))
        BY <1>1, <4>3, CellFacts, Colors, PieceFacts DEF c
      <4> QED
        BY <1>2, <4>1, <4>2, <4>4
    <3> QED
      BY <1>5, <3>1, <3>2, <3>3 DEF StepKinds
  <2>3. /\ cells[dst] = placed
        /\ \A x \in Coord : x # dst => cells[x] = IF x = src \/ x \in taken THEN EmptyCell ELSE b.cells[x]
    BY <1>1, <1>2, <2>1, <2>2 DEF Cells
  <2> HIDE DEF taken
  <2> QED
    BY <1>2, <1>3, <2>1, <2>2, <2>3 DEF Stepped, src, dst, c, taken
<1> QED
  BY <1>4, <1>5


(* Castling: the king and a rook go to empty cells of their row. *)
Castled(b, cells, o, k, f, t) ==
  LET c == b.side
  IN  /\ {o + 4, k, f, t} \subseteq Coord
      /\ b.cells[o + 4] = MakeCell(c, King) /\ b.cells[f] = MakeCell(c, Rook)
      /\ b.cells[k] = EmptyCell /\ b.cells[t] = EmptyCell
      /\ cells[k] = MakeCell(c, King) /\ cells[t] = MakeCell(c, Rook)
      /\ \A x \in Coord : x # k /\ x # t =>
           cells[x] = IF x = o + 4 \/ x = f THEN EmptyCell ELSE b.cells[x]

LEMMA CastlingLeaves ==
  ASSUME NEW b, Fresh(b), NEW m, Makeable(b, m), NEW cells, CellsMoved(b, m, cells)
  PROVE  LET o == CastlingOffset(b.side)
         IN  /\ m.kind = "CastlingKingside" => Castled(b, cells, o, o + 6, o + 7, o + 5)
             /\ m.kind = "CastlingQueenside" => Castled(b, cells, o, o + 2, o, o + 3)
<1> DEFINE c == b.side
           o == CastlingOffset(c)
<1>1. c \in Color /\ b.cells \in Cells /\ b.castling \in Flags /\ b \in Board
  BY BoardFields DEF Fresh
<1>2. o \in {0, 56}
  BY <1>1, CastlingCells
<1>3. ASSUME NEW s \in {Kingside, Queenside}, <<c, s>> \in b.castling
      PROVE  /\ b.cells[o + 4] = MakeCell(c, King)
             /\ b.cells[IF s = Kingside THEN o + 7 ELSE o] = MakeCell(c, Rook)
  <2>1. FlagsKept(b) /\ <<c, s>> \in CastlingAll
    BY <1>1, CastlingCells, FreshParts DEF Fresh
  <2>2. Standing(b.cells, <<c, s>>)
    BY <1>3, <2>1, FlagsStanding
  <2>3. /\ KingCell(<<c, s>>) = o + 4
        /\ RookCell(<<c, s>>) = IF s = Kingside THEN o + 7 ELSE o
    BY <1>1, CastlingCells DEF Kingside, Queenside
  <2> QED
    BY <2>2, <2>3 DEF Standing
<1> HIDE DEF o, c
<1>4. CASE m.kind = "CastlingKingside"
  <2>1. /\ b.cells[o + 5] = EmptyCell /\ b.cells[o + 6] = EmptyCell
        /\ <<c, Kingside>> \in b.castling
        /\ cells = [b.cells EXCEPT ![o + 4] = EmptyCell, ![o + 6] = MakeCell(c, King),
                                   ![o + 7] = EmptyCell, ![o + 5] = MakeCell(c, Rook)]
    BY <1>4 DEF Makeable, CellsMoved, o, c
  <2>2. b.cells[o + 4] = MakeCell(c, King) /\ b.cells[o + 7] = MakeCell(c, Rook)
    BY <1>3, <2>1
  <2>3. Castled(b, cells, o, o + 6, o + 7, o + 5)
    <3>1. {o + 4, o + 5, o + 6, o + 7} \subseteq Coord
      BY <1>2 DEF Coord
    <3> QED
      BY <1>1, <1>2, <2>1, <2>2, <3>1 DEF Castled, Cells, c
  <2> QED
    BY <1>4, <2>3 DEF o, c
<1>5. CASE m.kind = "CastlingQueenside"
  <2>1. /\ b.cells[o + 2] = EmptyCell /\ b.cells[o + 3] = EmptyCell
        /\ <<c, Queenside>> \in b.castling
        /\ cells = [b.cells EXCEPT ![o + 4] = EmptyCell, ![o + 2] = MakeCell(c, King),
                                   ![o] = EmptyCell, ![o + 3] = MakeCell(c, Rook)]
    BY <1>5 DEF Makeable, CellsMoved, o, c
  <2>2. b.cells[o + 4] = MakeCell(c, King) /\ b.cells[o] = MakeCell(c, Rook)
    BY <1>3, <2>1 DEF Kingside, Queenside
  <2>3. Castled(b, cells, o, o + 2, o, o + 3)
    <3>1. {o + 4, o, o + 2, o + 3} \subseteq Coord
      BY <1>2 DEF Coord
    <3> QED
      BY <1>1, <1>2, <2>1, <2>2, <3>1 DEF Castled, Cells, c
  <2> QED
    BY <1>5, <2>3 DEF o, c
<1> QED
  BY <1>4, <1>5 DEF o, c

-----------------------------------------------------------------------------
(* Legality *)

(* The two sets of cells differ at most on x. *)
Elsewhere(x, one, two) == \A t \in Coord : t # x => (t \in one <=> t \in two)

(* What is left of a colour's pieces, but on x. *)
Remain(d, x, cells, mask, after) ==
  \A s \in Coord : \A p \in Piece : s # x =>
    (after[s] = MakeCell(d, p) <=> s \in mask /\ cells[s] = MakeCell(d, p))

(* A cell is attacked from elsewhere. *)
LEMMA AttackFollows ==
  ASSUME NEW d \in Color, NEW x \in Coord, NEW cells, NEW after, NEW one, NEW two, NEW mask,
         Elsewhere(x, one, two), Remain(d, x, cells, mask, after)
  PROVE  AttackedBy(cells, one, d, x, mask) <=> AttackedBy(after, two, d, x, Coord)
<1>1. ASSUME NEW p \in Piece, NEW s \in Coord
      PROVE  s \in Sources(p, d, one, x) <=> s \in Sources(p, d, two, x)
  <2>1. Agree(x, s, one, two)
    BY DEF Agree, Elsewhere
  <2> QED
    BY <2>1, SourcesAgree
<1>2. \A p \in Piece : x \notin Sources(p, d, one, x)
  BY SourcesElsewhere
<1>3. ASSUME NEW p \in Piece, NEW s \in Coord
      PROVE  s \in mask /\ s \in Sources(p, d, one, x) /\ cells[s] = MakeCell(d, p)
               <=> s \in Coord /\ s \in Sources(p, d, two, x) /\ after[s] = MakeCell(d, p)
  BY <1>1, <1>2 DEF Remain
<1> QED
  BY <1>3 DEF AttackedBy

(* The moves that are not castling: the king, if it is the king that moves, is *)
(* attacked on its new cell once it left the old one, and otherwise on its     *)
(* cell, with the occupancy there will be and without what is taken.           *)
LEMMA StepLegality ==
  ASSUME NEW b, Fresh(b), NEW m, Makeable(b, m), m.kind \in StepKinds,
         NEW k0, KingAt(b.cells, b.side, k0),
         NEW r, Fresh(r), r.side = Invert(b.side), Stepped(b, m, r.cells)
  PROVE  IsMoveLegal(b, m) <=> WasMoveLegal(r)
<1> DEFINE c == b.side
           d == Invert(c)
           src == m.src
           dst == m.dst
           taken == TakenPassing(b, m)
           passed == IF m.kind = "Enpassant" THEN AdvancePawnForward(Invert(c), {m.dst}) ELSE {}
           after == Xor(Xor(b.bbAll, {m.src}) \cup {m.dst}, passed)
           mask == Xor(Coord \ {m.dst}, passed)
           lifted == Xor(b.bbAll, {m.src})
<1>1. /\ c \in Color /\ d \in Color /\ d # c /\ Invert(d) = c
      /\ \A p \in Piece : Own(d, MakeCell(d, p)) /\ MakeCell(d, p) # EmptyCell
      /\ \A cell : ~(Own(c, cell) /\ Own(d, cell))
      /\ ~Own(c, EmptyCell)
  BY BoardFields, Colors DEF Fresh
<1>2. /\ src \in Coord /\ dst \in Coord /\ src # dst
      /\ Own(c, b.cells[src]) /\ ~Own(c, b.cells[dst]) /\ Own(c, r.cells[dst])
      /\ taken \subseteq Coord /\ src \notin taken /\ dst \notin taken
      /\ \A x \in taken : b.cells[x] = MakeCell(d, Pawn)
      /\ \A x \in Coord : x # dst =>
           r.cells[x] = IF x = src \/ x \in taken THEN EmptyCell ELSE b.cells[x]
      /\ r.cells[dst] = MakeCell(c, King) <=> b.cells[src] = MakeCell(c, King)
  BY DEF Stepped
<1>3. /\ \A x : x \in b.bbAll <=> x \in Coord /\ b.cells[x] # EmptyCell
      /\ \A x : x \in r.bbAll <=> x \in Coord /\ r.cells[x] # EmptyCell
  BY <1>1, BitboardCells
<1>4. passed = taken
  <2>1. CASE m.kind = "Enpassant"
    <3>1. EnpassantPawnPos(c, dst) = dst + PawnForwardDelta(d)
      BY <1>1, <1>2 DEF EnpassantPawnPos, PawnForwardDelta, Color, White, Black, Invert, Coord
    <3>2. passed = {dst + PawnForwardDelta(d)} \cap Coord
      BY <2>1 DEF AdvancePawnForward, Shift
    <3>3. taken = {EnpassantPawnPos(c, dst)}
      BY <2>1 DEF TakenPassing
    <3> QED
      BY <1>2, <3>1, <3>2, <3>3
  <2>2. CASE m.kind # "Enpassant"
    BY <2>2 DEF TakenPassing
  <2> QED
    BY <2>1, <2>2
<1> HIDE DEF passed, taken
<1>5. \A x \in taken : b.cells[x] # EmptyCell
  BY <1>1, <1>2, PieceFacts
<1>6. \A x \in Coord : x # dst => (x \in r.bbAll <=> x \in b.bbAll /\ x # src /\ x \notin taken)
  BY <1>2, <1>3
<1>7. /\ \A x : x \in after <=> ~((~(x \in b.bbAll <=> x = src) \/ x = dst) <=> x \in taken)
      /\ \A x : x \in mask <=> ~(x \in Coord /\ x # dst <=> x \in taken)
      /\ \A x : x \in lifted <=> ~(x \in b.bbAll <=> x = src)
  BY <1>4, XorFacts
<1> HIDE DEF after, mask, lifted
<1>8. ASSUME NEW k \in Coord
      PROVE  Elsewhere(k, after, r.bbAll)
  <2>1. ASSUME NEW x \in Coord PROVE x \in after <=> x \in r.bbAll
    <3>1. CASE x = dst
      BY <1>1, <1>2, <1>3, <1>7, <3>1
    <3>2. CASE x # dst
      <4>1. src \in b.bbAll /\ \A y \in taken : y \in b.bbAll
        BY <1>1, <1>2, <1>3, <1>5
      <4> QED
        BY <1>2, <1>6, <1>7, <3>2, <4>1
    <3> QED
      BY <3>1, <3>2
  <2> QED
    BY <2>1 DEF Elsewhere
<1>9. ASSUME NEW s \in Coord, NEW p \in Piece
      PROVE  /\ r.cells[s] = MakeCell(d, p) <=> s \in mask /\ b.cells[s] = MakeCell(d, p)
             /\ s # dst /\ taken = {} =>
                  (r.cells[s] = MakeCell(d, p) <=> b.cells[s] = MakeCell(d, p))
  <2>1. /\ r.cells[dst] # MakeCell(d, p) /\ b.cells[src] # MakeCell(d, p)
        /\ MakeCell(d, p) # EmptyCell
    BY <1>1, <1>2
  <2> QED
    BY <1>2, <1>7, <2>1
<1>10. m.kind # "Null" /\ Invert(r.side) = c
  BY <1>1 DEF StepKinds, PromoteKinds
<1>11. CASE b.cells[src] = MakeCell(c, King)
  <2>1. k0 = src
    BY <1>2, <1>11 DEF KingAt
  <2>2. taken = {}
    <3>1. m.kind = "Enpassant" => b.cells[src] = MakeCell(c, Pawn)
      BY DEF Makeable
    <3> QED
      BY <1>1, <1>11, <3>1, CellFacts, PieceFacts DEF taken, TakenPassing
  <2>3. KingAt(r.cells, c, dst)
    BY <1>1, <1>2, <1>11, <2>1, PieceFacts, CellFacts DEF KingAt
  <2>4. Elsewhere(dst, lifted, r.bbAll)
    <3>1. src \in b.bbAll
      BY <1>1, <1>2, <1>3
    <3> QED
      BY <1>6, <1>7, <2>2, <3>1 DEF Elsewhere
  <2>5. Remain(d, dst, b.cells, Coord, r.cells)
    BY <1>9, <2>2 DEF Remain
  <2>6. AttackedBy(b.cells, lifted, d, dst, Coord) <=> AttackedBy(r.cells, r.bbAll, d, dst, Coord)
    BY <1>1, <1>2, <2>4, <2>5, AttackFollows
  <2>7. IsMoveLegal(b, m) <=> ~IsAttackedMasked(b, d, dst, lifted, Coord)
    BY <1>10, <1>11 DEF IsMoveLegal, lifted
  <2>8. IsAttackedMasked(b, d, dst, lifted, Coord) <=> AttackedBy(b.cells, lifted, d, dst, Coord)
    BY <1>1, AttacksByCells
  <2>9. WasMoveLegal(r) <=> ~AttackedBy(r.cells, r.bbAll, d, dst, Coord)
    BY <1>10, <2>3, LegalByCells
  <2> QED
    BY <2>6, <2>7, <2>8, <2>9
<1>12. CASE b.cells[src] # MakeCell(c, King)
  <2>1. k0 \in Coord /\ KingPos(b, c) = k0
    BY <1>1, KingPosAt DEF KingAt
  <2>2. KingAt(r.cells, c, k0)
    <3>1. /\ b.cells[dst] # MakeCell(c, King) /\ MakeCell(c, King) # EmptyCell
          /\ \A x \in taken : b.cells[x] # MakeCell(c, King)
      BY <1>1, <1>2, CellFacts, PieceFacts, Colors
    <3>2. \A x \in Coord : r.cells[x] = MakeCell(c, King) <=> b.cells[x] = MakeCell(c, King)
      BY <1>2, <1>12, <3>1
    <3> QED
      BY <3>2 DEF KingAt
  <2>3. Elsewhere(k0, after, r.bbAll)
    BY <1>8, <2>1
  <2>4. Remain(d, k0, b.cells, mask, r.cells)
    BY <1>9 DEF Remain
  <2>5. AttackedBy(b.cells, after, d, k0, mask) <=> AttackedBy(r.cells, r.bbAll, d, k0, Coord)
    BY <1>1, <2>1, <2>3, <2>4, AttackFollows
  <2>6. IsMoveLegal(b, m) <=> ~IsAttackedMasked(b, d, k0, after, mask)
    BY <1>10, <1>12, <2>1 DEF IsMoveLegal, after, mask, passed
  <2>7. IsAttackedMasked(b, d, k0, after, mask) <=> AttackedBy(b.cells, after, d, k0, mask)
    BY <1>1, AttacksByCells
  <2>8. WasMoveLegal(r) <=> ~AttackedBy(r.cells, r.bbAll, d, k0, Coord)
    BY <1>10, <2>2, LegalByCells
  <2> QED
    BY <2>5, <2>6, <2>7, <2>8
<1> QED
  BY <1>11, <1>12


(* Castling: what is new to attack the king comes along its row, past the cell *)
(* it left, and would have given check there; past the rook nothing comes.     *)
LEMMA CastlingLegality ==
  ASSUME NEW b, Fresh(b), NEW m, m.kind \in {"CastlingKingside", "CastlingQueenside"},
         Shaped(b, m), KingAt(b.cells, b.side, CastlingOffset(b.side) + 4),
         NEW r, Fresh(r), r.side = Invert(b.side), NEW k, NEW f, NEW t,
         Castled(b, r.cells, CastlingOffset(b.side), k, f, t), m.dst = k,
         LET o == CastlingOffset(b.side)
         IN  \/ k = o + 6 /\ f = o + 7 /\ t = o + 5
             \/ k = o + 2 /\ f = o /\ t = o + 3 /\ b.cells[o + 1] = EmptyCell
  PROVE  IsMoveLegal(b, m) <=> WasMoveLegal(r)
<1> DEFINE c == b.side
           d == Invert(c)
           o == CastlingOffset(c)
           lifted == Xor(b.bbAll, {m.src})
<1>1. /\ c \in Color /\ d \in Color /\ Invert(d) = c /\ o \in {0, 56}
      /\ \A p, q \in Piece : /\ MakeCell(d, p) # EmptyCell /\ MakeCell(d, p) # MakeCell(c, q)
                             /\ MakeCell(c, p) # EmptyCell
  <2>1. c \in Color
    BY BoardFields DEF Fresh
  <2>2. d \in Color /\ Invert(d) = c /\ d # c
    BY <2>1, Colors
  <2>3. o = 0 \/ o = 56
    BY <2>1, CastlingCells
  <2> HIDE DEF o, d, c
  <2> QED
    BY <2>1, <2>2, <2>3, CellFacts
<1>2. /\ {o + 4, k, f, t} \subseteq Coord
      /\ b.cells[o + 4] = MakeCell(c, King) /\ b.cells[f] = MakeCell(c, Rook)
      /\ b.cells[k] = EmptyCell /\ b.cells[t] = EmptyCell
      /\ r.cells[k] = MakeCell(c, King) /\ r.cells[t] = MakeCell(c, Rook)
      /\ \A x \in Coord : x # k /\ x # t =>
           r.cells[x] = IF x = o + 4 \/ x = f THEN EmptyCell ELSE b.cells[x]
  BY DEF Castled
<1>3. m.src = o + 4 /\ CellAttackers(b, KingPos(b, c), d) = {}
  BY DEF Shaped
<1>4. /\ \A x : x \in b.bbAll <=> x \in Coord /\ b.cells[x] # EmptyCell
      /\ \A x : x \in r.bbAll <=> x \in Coord /\ r.cells[x] # EmptyCell
  BY <1>1, BitboardCells
<1>5. \A x : x \in lifted <=> x \in b.bbAll /\ x # o + 4
  <2>1. o + 4 \in b.bbAll
    BY <1>1, <1>2, <1>4, PieceFacts
  <2> QED
    BY <1>3, <2>1, XorFacts
<1>6. ~AttackedBy(b.cells, b.bbAll, d, o + 4, Coord)
  <2>1. KingPos(b, c) = o + 4
    BY <1>1, KingPosAt
  <2> QED
    BY <1>1, <1>3, <2>1, AttacksByCells
<1>7. \/ k = o + 6 /\ f = o + 7 /\ t = o + 5
      \/ k = o + 2 /\ f = o /\ t = o + 3 /\ b.cells[o + 1] = EmptyCell
  OBVIOUS
<1> HIDE DEF lifted, o, d
<1>8. \A x \in Coord : CoordX(x) = CoordX(k) <=> x \in o..(o + 7)
  BY <1>1, <1>7 DEF CoordX, Coord
<1>9. CoordX(o + 4) = CoordX(k) /\ o + 4 \in Coord /\ k \in Coord /\ t \in Coord
  BY <1>1, <1>2, <1>8
\* An enemy piece of the row is not next to the king's new cell, in either board.
<1>10. ASSUME NEW s \in Coord, CoordX(s) = CoordX(k), NEW p \in Piece,
              b.cells[s] = MakeCell(d, p) \/ r.cells[s] = MakeCell(d, p)
       PROVE  /\ s < k - 1 \/ s > k + 1
              /\ k = o + 6 => s \in o..(o + 3)
              /\ k = o + 2 => s \in (o + 5)..(o + 7)
  <2>1. s \in o..(o + 7)
    BY <1>8, <1>10
  <2>2. s \notin {o + 4, k, t, f}
    BY <1>1, <1>2, <1>10, <1>7, PieceFacts
  <2>3. k = o + 2 => s # o + 1
    BY <1>1, <1>2, <1>7, <1>10
  <2> QED
    BY <1>1, <1>7, <2>1, <2>2, <2>3
<1>11. ASSUME NEW s \in Coord, CoordX(s) = CoordX(k), NEW p \in Piece,
              r.cells[s] = MakeCell(d, p)
       PROVE  s \notin Sources(p, d, r.bbAll, k)
  <2>1. SUFFICES ASSUME s \in Sources(p, d, r.bbAll, k) PROVE FALSE
    OBVIOUS
  <2>2. s < k - 1 \/ s > k + 1
    BY <1>10, <1>11
  <2>3. s \in RookAttack(r.bbAll, k)
    BY <1>1, <1>9, <1>11, <2>1, <2>2, RowSources
  <2>4. (s < t /\ t < k) \/ (k < t /\ t < s)
    BY <1>1, <1>7, <1>10, <1>11
  <2>5. s # k
    BY <2>2, <1>9 DEF Coord
  <2>6. t \notin r.bbAll
    BY <1>9, <1>11, <2>3, <2>4, <2>5, RowRook
  <2> QED
    BY <1>1, <1>2, <1>4, <1>9, <2>6, PieceFacts
<1>12. ASSUME NEW s \in Coord, CoordX(s) = CoordX(k), NEW p \in Piece,
              b.cells[s] = MakeCell(d, p)
       PROVE  s \notin Sources(p, d, lifted, k)
  <2>1. SUFFICES ASSUME s \in Sources(p, d, lifted, k) PROVE FALSE
    OBVIOUS
  <2>2. s < k - 1 \/ s > k + 1
    BY <1>10, <1>12
  <2>3. (p = Rook \/ p = Queen) /\ s \in RookAttack(lifted, k)
    BY <1>1, <1>9, <1>12, <2>1, <2>2, RowSources
  <2>4. s # k /\ s # o + 4
    BY <1>1, <1>7, <1>9, <1>10, <1>12 DEF Coord
  <2>5. \A x \in Coord : (s < x /\ x < k) \/ (k < x /\ x < s) => x \notin lifted
    BY <1>9, <1>12, <2>3, <2>4, RowRook
  <2>6. \A x \in Coord : (s < x /\ x < o + 4) \/ (o + 4 < x /\ x < s) => x \notin b.bbAll
    <3>1. SUFFICES ASSUME NEW x \in Coord, (s < x /\ x < o + 4) \/ (o + 4 < x /\ x < s)
                   PROVE  x \notin lifted /\ x # o + 4
      BY <1>5
    <3>2. (s < x /\ x < k) \/ (k < x /\ x < s)
      BY <1>1, <1>7, <1>10, <1>12, <3>1 DEF Coord
    <3> QED
      BY <1>1, <2>5, <3>1, <3>2 DEF Coord
  <2>7. s \in RookAttack(b.bbAll, o + 4)
    <3>1. CoordX(s) = CoordX(o + 4)
      BY <1>9, <1>12
    <3> QED
      BY <1>9, <2>4, <2>6, <3>1, RowRook
  <2>8. s \in Sources(p, d, b.bbAll, o + 4)
    BY <2>3, <2>7, SourceSets
  <2> QED
    BY <1>6, <1>12, <2>8 DEF AttackedBy
<1>13. ASSUME NEW s \in Coord, CoordX(s) # CoordX(k), NEW p \in Piece
       PROVE  /\ s \in Sources(p, d, lifted, k) <=> s \in Sources(p, d, r.bbAll, k)
              /\ b.cells[s] = MakeCell(d, p) <=> r.cells[s] = MakeCell(d, p)
  <2>1. \A x \in Coord : CoordX(x) # CoordX(k) =>
          x # k /\ x # t /\ x # o + 4 /\ x # f
    BY <1>1, <1>7, <1>8
  <2>2. \A x \in Coord : CoordX(x) # CoordX(k) =>
          r.cells[x] = b.cells[x] /\ (x \in lifted <=> x \in r.bbAll)
    BY <1>2, <1>4, <1>5, <2>1
  <2>3. Agree(k, s, lifted, r.bbAll)
    BY <1>13, <2>2 DEF Agree
  <2> QED
    BY <1>1, <1>9, <1>13, <2>2, <2>3, SourcesAgree
<1>14. AttackedBy(b.cells, lifted, d, k, Coord) <=> AttackedBy(r.cells, r.bbAll, d, k, Coord)
  <2>1. ASSUME NEW p \in Piece, NEW s \in Coord
        PROVE  s \in Sources(p, d, lifted, k) /\ b.cells[s] = MakeCell(d, p)
                 <=> s \in Sources(p, d, r.bbAll, k) /\ r.cells[s] = MakeCell(d, p)
    BY <1>11, <1>12, <1>13
  <2> QED
    BY <2>1 DEF AttackedBy
<1>15. IsMoveLegal(b, m) <=> ~AttackedBy(b.cells, lifted, d, k, Coord)
  <2>1. m.kind # "Null" /\ b.cells[m.src] = MakeCell(c, King)
    BY <1>2, <1>3
  <2>2. IsMoveLegal(b, m) <=> ~IsAttackedMasked(b, d, k, lifted, Coord)
    BY <2>1 DEF IsMoveLegal, lifted, d
  <2> QED
    BY <1>1, <2>2, AttacksByCells
<1>16. WasMoveLegal(r) <=> ~AttackedBy(r.cells, r.bbAll, d, k, Coord)
  <2>1. KingAt(r.cells, c, k)
    <3>1. \A x \in Coord : b.cells[x] = MakeCell(c, King) <=> x = o + 4
      BY DEF KingAt, o
    <3>2. \A x \in Coord : x # k => r.cells[x] # MakeCell(c, King)
      BY <1>1, <1>2, <3>1, CellFacts, PieceFacts
    <3> QED
      BY <1>2, <1>9, <3>2 DEF KingAt
  <2>2. Invert(r.side) = c /\ r.side = d
    BY <1>1 DEF d
  <2> QED
    BY <2>1, <2>2, LegalByCells
<1> QED
  BY <1>14, <1>15, <1>16

(* Whether a move leaves its king attacked is told without making it. *)
THEOREM LegalityForeseen ==
  ASSUME NEW b, Sound(b), NEW m \in GenAllMoves(b) \cup {NullMove}
  PROVE  IsMoveLegal(b, m) <=> WasMoveLegal(MoveMake(b, m))
<1> DEFINE r == MoveMake(b, m)
           o == CastlingOffset(b.side)
<1>1. Fresh(b) /\ b.side \in Color
  BY BoardFields DEF Sound, Fresh
<1>2. Makeable(b, m) /\ Shaped(b, m)
  BY <1>1, GeneratedMakeable, GeneratedShaped
<1>3. Fresh(r) /\ r.side = Invert(b.side) /\ CellsMoved(b, m, r.cells)
  BY <1>1, <1>2, MoveMade
<1> HIDE DEF r, o
<1>4. PICK k : KingAt(b.cells, b.side, k)
  BY <1>1 DEF Sound, Peopled
<1>5. CASE m.kind \in StepKinds
  <2>1. Stepped(b, m, r.cells)
    BY <1>1, <1>2, <1>3, <1>5, StepMoves
  <2> QED
    BY <1>1, <1>2, <1>3, <1>4, <1>5, <2>1, StepLegality DEF r
<1>6. CASE m.kind \in {"CastlingKingside", "CastlingQueenside"}
  <2>1. /\ m.kind = "CastlingKingside" => Castled(b, r.cells, o, o + 6, o + 7, o + 5)
        /\ m.kind = "CastlingQueenside" => Castled(b, r.cells, o, o + 2, o, o + 3)
    BY <1>1, <1>2, <1>3, CastlingLeaves DEF o
  <2>2. /\ m.kind = "CastlingKingside" => m.dst = o + 6
        /\ m.kind = "CastlingQueenside" => m.dst = o + 2 /\ b.cells[o + 1] = EmptyCell
    BY <1>2 DEF Shaped, o
  <2>3. KingAt(b.cells, b.side, o + 4)
    <3>1. o + 4 \in Coord /\ b.cells[o + 4] = MakeCell(b.side, King)
      BY <1>6, <2>1 DEF Castled
    <3> QED
      BY <1>4, <3>1 DEF KingAt
  <2>4. CASE m.kind = "CastlingKingside"
    BY <1>1, <1>2, <1>3, <1>6, <2>1, <2>2, <2>3, <2>4, CastlingLegality DEF r, o
  <2>5. CASE m.kind = "CastlingQueenside"
    BY <1>1, <1>2, <1>3, <1>6, <2>1, <2>2, <2>3, <2>5, CastlingLegality DEF r, o
  <2> QED
    BY <1>6, <2>4, <2>5
<1>7. CASE m.kind = "Null"
  <2>1. r.cells = b.cells
    BY <1>3, <1>7 DEF CellsMoved
  <2>2. r.bbAll = b.bbAll
    <3>1. /\ \A x : x \in b.bbAll <=> x \in Coord /\ b.cells[x] # EmptyCell
          /\ \A x : x \in r.bbAll <=> x \in Coord /\ r.cells[x] # EmptyCell
      BY <1>1, <1>3, BitboardCells
    <3> QED
      BY <2>1, <3>1
  <2>3. Invert(b.side) \in Color /\ Invert(Invert(b.side)) = b.side
    BY <1>1, Colors
  <2>4. KingAt(r.cells, Invert(r.side), k)
    BY <1>3, <1>4, <2>1, <2>3
  <2>5. WasMoveLegal(r) <=> ~AttackedBy(r.cells, r.bbAll, Invert(b.side), k, Coord)
    BY <1>3, <2>4, LegalByCells
  <2>6. IsCheck(b) <=> AttackedBy(b.cells, b.bbAll, Invert(b.side), k, Coord)
    <3>1. KingPos(b, b.side) = k
      BY <1>1, <1>4, KingPosAt
    <3>2. IsCellAttacked(b, k, Invert(b.side)) <=>
            AttackedBy(b.cells, b.bbAll, Invert(b.side), k, Coord)
      BY <1>1, <2>3, AttacksByCells
    <3> QED
      BY <3>1, <3>2 DEF IsCheck
  <2>7. IsMoveLegal(b, m) <=> ~IsCheck(b)
    BY <1>7 DEF IsMoveLegal
  <2> QED
    BY <2>1, <2>2, <2>5, <2>6, <2>7 DEF r
<1> QED
  BY <1>2, <1>5, <1>6, <1>7 DEF Makeable, MoveKinds, StepKinds


-----------------------------------------------------------------------------
(* Sound boards stay sound *)

(* A piece that moves is still one piece. *)
LEMMA OnePieceMoves ==
  ASSUME NEW S \in SUBSET Coord, NEW a \in S, NEW e \in Coord
  PROVE  /\ (S \ {a}) \union {e} \in SUBSET Coord
         /\ Cardinality((S \ {a}) \union {e}) <= Cardinality(S)
<1>1. IsFiniteSet(S) /\ Cardinality(S) \in Nat
  BY CoordsFinite
<1>2. IsFiniteSet(S \ {a}) /\ Cardinality(S \ {a}) = Cardinality(S) - 1
  BY <1>1, FS_RemoveElement
<1>3. Cardinality((S \ {a}) \union {e}) <= Cardinality(S \ {a}) + 1
  <2>1. Cardinality((S \ {a}) \union {e}) = IF e \in S \ {a} THEN Cardinality(S \ {a})
                                            ELSE Cardinality(S \ {a}) + 1
    BY <1>2, FS_AddElement
  <2> QED
    BY <1>1, <1>2, <2>1
<1> QED
  BY <1>1, <1>2, <1>3

LEMMA OccupiedOwn ==
  ASSUME NEW cells, NEW c
  PROVE  \A x : x \in Occupied(cells, c) <=> x \in Coord /\ Own(c, cells[x])
BY DEF Occupied, Own

LEMMA FewerPieces ==
  ASSUME NEW cells, NEW after, NEW c,
         \A x \in Coord : Own(c, after[x]) => Own(c, cells[x]),
         Cardinality(Occupied(cells, c)) <= 16
  PROVE  Cardinality(Occupied(after, c)) <= 16
<1>1. Occupied(after, c) \subseteq Occupied(cells, c) /\ Occupied(cells, c) \in SUBSET Coord
  BY OccupiedOwn
<1>2. /\ IsFiniteSet(Occupied(cells, c)) /\ Cardinality(Occupied(cells, c)) \in Nat
      /\ Cardinality(Occupied(after, c)) \in Nat
  BY <1>1, CoordsFinite
<1>3. Cardinality(Occupied(after, c)) <= Cardinality(Occupied(cells, c))
  BY <1>1, <1>2, FS_Subset
<1> QED
  BY <1>2, <1>3

(* A move that is not castling takes no king: the side that could take one would *)
(* have been attacking it already.                                               *)
LEMMA KingsAreNotTaken ==
  ASSUME NEW b, Sound(b), NEW m, Makeable(b, m), Shaped(b, m), m.kind \in StepKinds
  PROVE  b.cells[m.dst] # MakeCell(Invert(b.side), King)
<1> DEFINE c == b.side
           d == Invert(c)
<1>1. /\ Fresh(b) /\ c \in Color /\ d \in Color /\ MakeCell(d, King) # EmptyCell
      /\ m.src \in Coord /\ m.dst \in Coord
  BY BoardFields, Colors, CellFacts, PieceFacts DEF Sound, Fresh, Makeable
<1>2. SUFFICES ASSUME b.cells[m.dst] = MakeCell(d, King) PROVE FALSE
  OBVIOUS
<1>3. m.kind \in PromoteKinds \union {"Simple"}
  BY <1>1, <1>2 DEF Makeable, StepKinds
<1>4. PICK p \in Piece : /\ b.cells[m.src] = MakeCell(c, p)
                         /\ m.src \in Sources(p, c, b.bbAll, m.dst)
  BY <1>1, <1>2, <1>3 DEF Shaped
<1>5. AttackedBy(b.cells, b.bbAll, c, m.dst, Coord)
  BY <1>1, <1>4 DEF AttackedBy
<1>6. KingAt(b.cells, d, m.dst)
  BY <1>1, <1>2 DEF Sound, Peopled, KingAt
<1> QED
  BY <1>1, <1>5, <1>6, LegalByCells DEF Sound

LEMMA StepKeepsPeopled ==
  ASSUME NEW b, Sound(b), NEW m, Makeable(b, m), Shaped(b, m), m.kind \in StepKinds,
         NEW cells, Stepped(b, m, cells)
  PROVE  Peopled(cells)
<1> DEFINE c == b.side
           d == Invert(c)
           src == m.src
           dst == m.dst
           taken == TakenPassing(b, m)
<1>1. /\ c \in Color /\ d \in Color /\ d # c /\ \A k \in Color : k = c \/ k = d
      /\ \A p \in Piece : Own(d, MakeCell(d, p)) /\ MakeCell(d, p) # EmptyCell
                          /\ Own(c, MakeCell(c, p)) /\ MakeCell(c, p) # EmptyCell
      /\ \A cell : ~(Own(c, cell) /\ Own(d, cell))
      /\ ~Own(c, EmptyCell) /\ ~Own(d, EmptyCell)
      /\ MakeCell(d, King) # MakeCell(d, Pawn)
  BY BoardFields, Colors, CellFacts, PieceFacts DEF Sound, Fresh
<1>2. /\ src \in Coord /\ dst \in Coord /\ src # dst
      /\ Own(c, b.cells[src]) /\ ~Own(c, b.cells[dst]) /\ Own(c, cells[dst])
      /\ taken \subseteq Coord /\ src \notin taken /\ dst \notin taken
      /\ \A x \in taken : b.cells[x] = MakeCell(d, Pawn)
      /\ \A x \in Coord : x # dst =>
           cells[x] = IF x = src \/ x \in taken THEN EmptyCell ELSE b.cells[x]
      /\ cells[dst] = MakeCell(c, King) <=> b.cells[src] = MakeCell(c, King)
      /\ cells[dst] = MakeCell(c, Pawn) =>
           m.kind \in {"Simple", "PawnDoubleMove", "Enpassant"} /\ b.cells[src] = MakeCell(c, Pawn)
  BY DEF Stepped
<1>3. b.cells[dst] # MakeCell(d, King)
  BY KingsAreNotTaken
<1>4. CoordX(dst) \in 1..6 \/ cells[dst] # MakeCell(c, Pawn)
  <2>1. CASE m.kind = "PawnDoubleMove"
    <3>1. dst = src + 2 * PawnForwardDelta(c) /\ CoordX(src) = DoubleMoveSrcRow(c)
      BY <2>1 DEF Makeable
    <3> QED
      BY <1>1, <1>2, <3>1 DEF Color, White, Black, Coord, CoordX, PawnForwardDelta, DoubleMoveSrcRow
  <2>2. CASE m.kind \in {"Simple", "Enpassant"}
    BY <1>2, <2>2 DEF Shaped
  <2> QED
    BY <1>2, <2>1, <2>2
<1> HIDE DEF src, dst, taken, d
<1>5. \E k : KingAt(cells, c, k)
  <2>1. PICK k : KingAt(b.cells, c, k)
    BY <1>1 DEF Sound, Peopled
  <2>2. CASE b.cells[src] = MakeCell(c, King)
    <3>1. KingAt(cells, c, dst)
      BY <1>1, <1>2, <2>1, <2>2, PieceFacts DEF KingAt
    <3> QED
      BY <3>1
  <2>3. CASE b.cells[src] # MakeCell(c, King)
    <3>1. /\ b.cells[dst] # MakeCell(c, King) /\ MakeCell(c, King) # EmptyCell
          /\ \A x \in taken : b.cells[x] # MakeCell(c, King)
      BY <1>1, <1>2, PieceFacts
    <3>2. \A x \in Coord : cells[x] = MakeCell(c, King) <=> b.cells[x] = MakeCell(c, King)
      BY <1>2, <2>3, <3>1
    <3> QED
      BY <2>1, <3>2 DEF KingAt
  <2> QED
    BY <2>2, <2>3
<1>6. \E k : KingAt(cells, d, k)
  <2>1. PICK k : KingAt(b.cells, d, k)
    BY <1>1 DEF Sound, Peopled
  <2>2. /\ b.cells[src] # MakeCell(d, King) /\ cells[dst] # MakeCell(d, King)
        /\ MakeCell(d, King) # EmptyCell
        /\ \A x \in taken : b.cells[x] # MakeCell(d, King)
    BY <1>1, <1>2, PieceFacts
  <2>3. \A x \in Coord : cells[x] = MakeCell(d, King) <=> b.cells[x] = MakeCell(d, King)
    BY <1>2, <1>3, <2>2
  <2> QED
    BY <2>1, <2>3 DEF KingAt
<1>7. Cardinality(Occupied(cells, d)) <= 16
  <2>1. \A x \in Coord : Own(d, cells[x]) => Own(d, b.cells[x])
    BY <1>1, <1>2
  <2> QED
    BY <1>1, <2>1, FewerPieces DEF Sound, Peopled
<1>8. Cardinality(Occupied(cells, c)) <= 16
  <2> DEFINE S == Occupied(b.cells, c)
             T == (S \ {src}) \union {dst}
  <2>1. /\ \A x : x \in S <=> x \in Coord /\ Own(c, b.cells[x])
        /\ \A x : x \in Occupied(cells, c) <=> x \in Coord /\ Own(c, cells[x])
    BY OccupiedOwn
  <2>2. Occupied(cells, c) = T
    <3>1. \A x \in Coord : Own(c, cells[x]) <=> x = dst \/ (Own(c, b.cells[x]) /\ x # src)
      BY <1>1, <1>2, PieceFacts
    <3> QED
      BY <1>2, <2>1, <3>1
  <2>3. S \in SUBSET Coord /\ src \in S
    BY <1>2, <2>1
  <2>4. Cardinality(S) <= 16
    BY <1>1 DEF Sound, Peopled
  <2> HIDE DEF S
  <2>5. Cardinality(T) <= Cardinality(S) /\ T \in SUBSET Coord
    BY <1>2, <2>3, OnePieceMoves
  <2>6. Cardinality(S) \in Nat /\ Cardinality(T) \in Nat
    BY <2>3, <2>5, CoordsFinite
  <2> HIDE DEF T
  <2> QED
    BY <2>2, <2>4, <2>5, <2>6
<1>9. PawnsInside(cells)
  <2>1. SUFFICES ASSUME NEW k \in Color, NEW x \in Coord, cells[x] = MakeCell(k, Pawn)
                 PROVE  CoordX(x) \in 1..6
    BY DEF PawnsInside
  <2>2. CASE x = dst
    <3>1. k = c
      BY <1>1, <1>2, <2>1, <2>2, PieceFacts
    <3> QED
      BY <1>4, <2>1, <2>2, <3>1
  <2>3. CASE x # dst
    <3>1. MakeCell(k, Pawn) # EmptyCell
      BY CellFacts, PieceFacts
    <3>2. b.cells[x] = MakeCell(k, Pawn)
      BY <1>2, <2>1, <2>3, <3>1
    <3> QED
      BY <3>2 DEF Sound, Peopled, PawnsInside
  <2> QED
    BY <2>2, <2>3
<1> QED
  BY <1>1, <1>5, <1>6, <1>7, <1>8, <1>9 DEF Peopled

LEMMA CastlingKeepsPeopled ==
  ASSUME NEW b, Sound(b), NEW cells, NEW o, NEW k, NEW f, NEW t, Castled(b, cells, o, k, f, t)
  PROVE  Peopled(cells)
<1> DEFINE c == b.side
           d == Invert(c)
           e == o + 4
<1>1. /\ c \in Color /\ d \in Color /\ d # c /\ \A h \in Color : h = c \/ h = d
      /\ \A p \in Piece : Own(d, MakeCell(d, p)) /\ MakeCell(d, p) # EmptyCell
                          /\ Own(c, MakeCell(c, p)) /\ MakeCell(c, p) # EmptyCell
      /\ \A cell : ~(Own(c, cell) /\ Own(d, cell))
      /\ ~Own(c, EmptyCell) /\ ~Own(d, EmptyCell)
      /\ MakeCell(c, King) # MakeCell(c, Rook)
      /\ \A h \in Color : /\ MakeCell(h, Pawn) # MakeCell(c, Rook)
                          /\ MakeCell(h, Pawn) # MakeCell(c, King) /\ MakeCell(h, Pawn) # EmptyCell
  BY BoardFields, Colors, CellFacts, PieceFacts DEF Sound, Fresh
<1>2. /\ e \in Coord /\ k \in Coord /\ f \in Coord /\ t \in Coord
      /\ b.cells[e] = MakeCell(c, King) /\ b.cells[f] = MakeCell(c, Rook)
      /\ b.cells[k] = EmptyCell /\ b.cells[t] = EmptyCell
      /\ cells[k] = MakeCell(c, King) /\ cells[t] = MakeCell(c, Rook)
      /\ \A x \in Coord : x # k /\ x # t =>
           cells[x] = IF x = e \/ x = f THEN EmptyCell ELSE b.cells[x]
  BY DEF Castled
<1> HIDE DEF e, d
<1>3. KingAt(cells, c, k)
  <2>1. PICK i : KingAt(b.cells, c, i)
    BY <1>1 DEF Sound, Peopled
  <2>2. \A x \in Coord : b.cells[x] = MakeCell(c, King) <=> x = e
    BY <1>2, <2>1 DEF KingAt
  <2>3. \A x \in Coord : cells[x] = MakeCell(c, King) => x = k
    BY <1>1, <1>2, <2>2, PieceFacts
  <2> QED
    BY <1>2, <2>3 DEF KingAt
<1>4. \A x \in Coord : /\ Own(d, cells[x]) => Own(d, b.cells[x])
                       /\ cells[x] = MakeCell(d, King) <=> b.cells[x] = MakeCell(d, King)
  BY <1>1, <1>2, PieceFacts
<1>5. \E i : KingAt(cells, d, i)
  <2>1. PICK i : KingAt(b.cells, d, i)
    BY <1>1 DEF Sound, Peopled
  <2> QED
    BY <1>4, <2>1 DEF KingAt
<1>6. Cardinality(Occupied(cells, d)) <= 16
  BY <1>1, <1>4, FewerPieces DEF Sound, Peopled
<1>7. Cardinality(Occupied(cells, c)) <= 16
  <2> DEFINE S == Occupied(b.cells, c)
             T == (S \ {e}) \union {k}
             U == (T \ {f}) \union {t}
  <2>1. /\ \A x : x \in S <=> x \in Coord /\ Own(c, b.cells[x])
        /\ \A x : x \in Occupied(cells, c) <=> x \in Coord /\ Own(c, cells[x])
    BY OccupiedOwn
  <2>2. e # f /\ f # k /\ e # k /\ e # t /\ f # t /\ k # t
    BY <1>1, <1>2, PieceFacts
  <2>3. Occupied(cells, c) = U
    <3>1. \A x \in Coord : Own(c, cells[x]) <=>
                             x = t \/ x = k \/ (Own(c, b.cells[x]) /\ x # e /\ x # f)
      BY <1>1, <1>2, <2>2, PieceFacts
    <3> QED
      BY <1>2, <2>1, <2>2, <3>1
  <2>4. S \in SUBSET Coord /\ e \in S /\ f \in S
    BY <1>1, <1>2, <2>1, PieceFacts
  <2>5. Cardinality(S) <= 16
    BY <1>1 DEF Sound, Peopled
  <2> HIDE DEF S
  <2>6. Cardinality(T) <= Cardinality(S) /\ T \in SUBSET Coord /\ f \in T
    BY <1>2, <2>2, <2>4, OnePieceMoves
  <2> HIDE DEF T
  <2>7. Cardinality(U) <= Cardinality(T) /\ U \in SUBSET Coord
    BY <1>2, <2>6, OnePieceMoves
  <2>8. Cardinality(S) \in Nat /\ Cardinality(T) \in Nat /\ Cardinality(U) \in Nat
    BY <2>4, <2>6, <2>7, CoordsFinite
  <2> HIDE DEF U
  <2> QED
    BY <2>3, <2>5, <2>6, <2>7, <2>8
<1>8. PawnsInside(cells)
  <2>1. SUFFICES ASSUME NEW h \in Color, NEW x \in Coord, cells[x] = MakeCell(h, Pawn)
                 PROVE  CoordX(x) \in 1..6
    BY DEF PawnsInside
  <2>2. b.cells[x] = MakeCell(h, Pawn)
    BY <1>1, <1>2, <2>1
  <2> QED
    BY <2>2 DEF Sound, Peopled, PawnsInside
<1> QED
  BY <1>1, <1>3, <1>5, <1>6, <1>7, <1>8 DEF Peopled

(* A generated move that is legal leads to a position that validate() accepts. *)
THEOREM MoveKeepsSound ==
  ASSUME NEW b, Sound(b), NEW m \in GenAllMoves(b) \cup {NullMove}, WasMoveLegal(MoveMake(b, m))
  PROVE  Sound(MoveMake(b, m))
<1> DEFINE r == MoveMake(b, m)
           o == CastlingOffset(b.side)
<1>1. Fresh(b)
  BY DEF Sound
<1>2. Makeable(b, m) /\ Shaped(b, m)
  BY <1>1, GeneratedMakeable, GeneratedShaped
<1>3. Fresh(r) /\ CellsMoved(b, m, r.cells) /\ WasMoveLegal(r)
  BY <1>1, <1>2, MoveMade
<1> HIDE DEF r, o
<1>4. CASE m.kind \in StepKinds
  <2>1. Stepped(b, m, r.cells)
    BY <1>1, <1>2, <1>3, <1>4, StepMoves
  <2> QED
    BY <1>2, <1>3, <1>4, <2>1, StepKeepsPeopled DEF Sound, r
<1>5. CASE m.kind \in {"CastlingKingside", "CastlingQueenside"}
  <2>1. \E i, f, t : Castled(b, r.cells, o, i, f, t)
    BY <1>1, <1>2, <1>3, <1>5, CastlingLeaves DEF o
  <2> QED
    BY <1>3, <2>1, CastlingKeepsPeopled DEF Sound, r
<1>6. CASE m.kind = "Null"
  <2>1. r.cells = b.cells
    BY <1>3, <1>6 DEF CellsMoved
  <2> QED
    BY <1>3, <2>1 DEF Sound, r
<1> QED
  BY <1>2, <1>4, <1>5, <1>6 DEF Makeable, MoveKinds, StepKinds
=============================================================================
