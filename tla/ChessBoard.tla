----------------------------- MODULE ChessBoard -----------------------------
(***************************************************************************)
(* The board of the chess core and what happens to it: update(),           *)
(* setInitialPosition(), and the making and unmaking of moves              *)
(* (src/core/board.{h,cpp}, move.cpp, private/zobrist.cpp).                *)
(*                                                                         *)
(* A hash is the set of the Zobrist keys it is the xor of, so two hashes   *)
(* are equal exactly if the same keys went into them: the collisions of    *)
(* 64-bit sums are left out, and nothing else of the bookkeeping is.       *)
(***************************************************************************)
EXTENDS ChessTypes

Uint16Max == 65535
Uint16(n) == n % 65536

(***************************************************************************)
(* Zobrist keys.  The key of an empty cell is zero.                        *)
(***************************************************************************)
ZPiece(cell, c) == IF cell = EmptyCell THEN {} ELSE {<<"piece", cell, c>>}
ZSide == {<<"side">>}
ZCastling(flags) == {<<"castling", flags>>}
ZEnpassant(c) == {<<"enpassant", c>>}

\* The difference a castling makes to the pieces' part of the hash.
ZKingside(c) ==
    LET o == CastlingOffset(c)
    IN  {<<"piece", MakeCell(c, King), o + 4>>, <<"piece", MakeCell(c, Rook), o + 5>>,
         <<"piece", MakeCell(c, King), o + 6>>, <<"piece", MakeCell(c, Rook), o + 7>>}
ZQueenside(c) ==
    LET o == CastlingOffset(c)
    IN  {<<"piece", MakeCell(c, Rook), o>>, <<"piece", MakeCell(c, King), o + 2>>,
         <<"piece", MakeCell(c, Rook), o + 3>>, <<"piece", MakeCell(c, King), o + 4>>}

(***************************************************************************)
(* The structure.                                                          *)
(***************************************************************************)
BbIndex == 0..14
ZobristKeys ==
    (UNION {ZPiece(p, c) : p \in Cell, c \in Coord}) \cup ZSide
        \cup (UNION {ZCastling(f) : f \in SUBSET CastlingAll})
        \cup (UNION {ZEnpassant(c) : c \in Coord})
Cells == [Coord -> Cell]
Flags == SUBSET CastlingAll
MaybeCoord == Coord \cup {InvalidCoord}
Counter == 0..Uint16Max
Hash == SUBSET ZobristKeys
Bitboard == SUBSET Coord
ColorBitboards == [Color -> Bitboard]
PieceBitboards == [BbIndex -> Bitboard]
Board == [cells : Cells, side : Color, castling : Flags, enpassantCoord : MaybeCoord,
          moveCounter : Counter, moveNumber : Counter, hash : Hash,
          bbColor : ColorBitboards, bbAll : Bitboard, bbPieces : PieceBitboards]

\* getLowest() of the king's bitboard; only asked of boards with a king.
KingPos(b, c) ==
    CHOOSE k \in b.bbPieces[MakeCell(c, King)] :
        \A j \in b.bbPieces[MakeCell(c, King)] : k <= j

(***************************************************************************)
(* update(): drop an en passant cell and castling flags that do not fit    *)
(* the cells, then compute the auxiliary fields.                           *)
(***************************************************************************)
FixedEnpassant(cells, side, ep) ==
    IF /\ ep # InvalidCoord
       /\ \/ cells[ep] # MakeCell(Invert(side), Pawn)
          \/ cells[ep + PawnForwardDelta(side)] # EmptyCell
    THEN InvalidCoord ELSE ep

FixedCastling(cells, castling) ==
    {f \in castling :
        LET x == CastlingRow(f[1])
            rookY == IF f[2] = Kingside THEN 7 ELSE 0
        IN  /\ cells[MakeCoord(x, 4)] = MakeCell(f[1], King)
            /\ cells[MakeCoord(x, rookY)] = MakeCell(f[1], Rook)}

FreshHash(cells, side, castling, ep) ==
    (IF side = White THEN {} ELSE ZSide)
        \cup (IF ep = InvalidCoord THEN {} ELSE ZEnpassant(ep))
        \cup ZCastling(castling)
        \cup UNION {ZPiece(cells[c], c) : c \in Coord}

Occupied(cells, color) ==
    {c \in Coord : cells[c] # EmptyCell /\ CellPieceColor(cells[c]) = color}

Update(b) ==
    LET ep == FixedEnpassant(b.cells, b.side, b.enpassantCoord)
        castling == FixedCastling(b.cells, b.castling)
    IN  [cells |-> b.cells, side |-> b.side, castling |-> castling,
         enpassantCoord |-> ep,
         moveCounter |-> b.moveCounter, moveNumber |-> b.moveNumber,
         hash |-> FreshHash(b.cells, b.side, castling, ep),
         bbColor |-> [color \in Color |-> Occupied(b.cells, color)],
         bbAll |-> Occupied(b.cells, White) \cup Occupied(b.cells, Black),
         bbPieces |-> [p \in BbIndex |->
                         {c \in Coord : p # EmptyCell /\ b.cells[c] = p}]]

\* What update() is given: the essential fields of a position.
Essential(cells, side, castling, ep, counter, number) ==
    [cells |-> cells, side |-> side, castling |-> castling, enpassantCoord |-> ep,
     moveCounter |-> counter, moveNumber |-> number]

InitialPieces == <<Rook, Knight, Bishop, Queen, King, Bishop, Knight, Rook>>
InitialPosition ==
    Update(Essential(
        [c \in Coord |->
            CASE CoordX(c) = 0 -> MakeCell(Black, InitialPieces[CoordY(c) + 1])
              [] CoordX(c) = 1 -> MakeCell(Black, Pawn)
              [] CoordX(c) = 6 -> MakeCell(White, Pawn)
              [] CoordX(c) = 7 -> MakeCell(White, InitialPieces[CoordY(c) + 1])
              [] OTHER -> EmptyCell],
        White, CastlingAll, InvalidCoord, 0, 1))

(***************************************************************************)
(* isBoardDrawInsufficientMaterial()                                       *)
(***************************************************************************)
OfKind(b, p) == b.bbPieces[MakeCell(White, p)] \cup b.bbPieces[MakeCell(Black, p)]

IsDrawInsufficientMaterial(b) ==
    LET noKings == Xor(b.bbAll, OfKind(b, King))
        oneShade == noKings \cap BbCellsWhite = {} \/ noKings \cap BbCellsBlack = {}
    IN  /\ oneShade
        /\ \/ noKings = {}
           \/ noKings = OfKind(b, Knight) /\ Cardinality(noKings) = 1
           \/ noKings = OfKind(b, Bishop)

(***************************************************************************)
(* moveMake().  What it returns for moveUnmake():                          *)
(***************************************************************************)
Persistence(b, m) ==
    [hash |-> b.hash, castling |-> b.castling, enpassantCoord |-> b.enpassantCoord,
     moveCounter |-> b.moveCounter, dstCell |-> b.cells[m.dst]]

\* Replace the castling flags, in the hash too.
SetCastling(b, flags) ==
    [b EXCEPT !.castling = flags,
              !.hash = Xor(Xor(@, ZCastling(b.castling)), ZCastling(flags))]

\* Mutant: the flags go, the hash keeps them.
UpdateCastlingFlagsOnly(b, change) ==
    [b EXCEPT !.castling = {f \in @ : CastlingSrcs(f[1], f[2]) \cap change = {}}]

\* updateCastling(): a flag goes when its king's or rook's cell changes.
UpdateCastling(b, change) ==
    LET kept == {f \in b.castling : CastlingSrcs(f[1], f[2]) \cap change = {}}
    IN  IF kept = b.castling THEN b ELSE SetCastling(b, kept)

MakeSimple(b, m) ==
    LET c == b.side
        srcCell == b.cells[m.src]
        dstCell == b.cells[m.dst]
        change == {m.src, m.dst}
        moved == [b EXCEPT
            !.cells[m.src] = EmptyCell,
            !.cells[m.dst] = srcCell,
            !.hash = Xor(Xor(Xor(@, ZPiece(srcCell, m.src)), ZPiece(srcCell, m.dst)),
                         ZPiece(dstCell, m.dst)),
            !.bbColor[c] = Xor(@, change),
            !.bbPieces[srcCell] = Xor(@, change),
            !.bbColor[Invert(c)] = @ \ {m.dst},
            !.bbPieces[dstCell] = @ \ {m.dst}]
    IN  UpdateCastling(moved, change)

MakePawnDoubleMove(b, m) ==
    LET c == b.side
        pawn == MakeCell(c, Pawn)
        change == {m.src, m.dst}
    IN  [b EXCEPT
            !.cells[m.src] = EmptyCell,
            !.cells[m.dst] = pawn,
            !.hash = Xor(Xor(Xor(@, ZPiece(pawn, m.src)), ZPiece(pawn, m.dst)),
                         ZEnpassant(m.dst)),
            !.bbColor[c] = Xor(@, change),
            !.bbPieces[pawn] = Xor(@, change),
            !.enpassantCoord = m.dst]

MakePromote(b, m) ==
    LET c == b.side
        srcCell == b.cells[m.src]
        dstCell == b.cells[m.dst]
        promote == MakeCell(c, PromotePiece(m.kind))
        change == {m.src, m.dst}
        moved == [b EXCEPT
            !.cells[m.src] = EmptyCell,
            !.cells[m.dst] = promote,
            !.hash = Xor(Xor(Xor(@, ZPiece(srcCell, m.src)), ZPiece(promote, m.dst)),
                         ZPiece(dstCell, m.dst)),
            !.bbColor[c] = Xor(@, change),
            !.bbPieces[MakeCell(c, Pawn)] = Xor(@, {m.src}),
            !.bbPieces[promote] = Xor(@, {m.dst}),
            !.bbColor[Invert(c)] = @ \ {m.dst},
            !.bbPieces[dstCell] = @ \ {m.dst}]
    IN  UpdateCastling(moved, change)

MakeEnpassant(b, m) ==
    LET c == b.side
        taken == EnpassantPawnPos(c, m.dst)
        ours == MakeCell(c, Pawn)
        theirs == MakeCell(Invert(c), Pawn)
        change == {m.src, m.dst}
    IN  [b EXCEPT
            !.cells[m.src] = EmptyCell,
            !.cells[m.dst] = ours,
            !.cells[taken] = EmptyCell,
            !.hash = Xor(Xor(Xor(@, ZPiece(ours, m.src)), ZPiece(ours, m.dst)),
                         ZPiece(theirs, taken)),
            !.bbColor[c] = Xor(@, change),
            !.bbPieces[ours] = Xor(@, change),
            !.bbColor[Invert(c)] = Xor(@, {taken}),
            !.bbPieces[theirs] = Xor(@, {taken})]

MakeKingside(b) ==
    LET c == b.side
        o == CastlingOffset(c)
    IN  SetCastling([b EXCEPT
            !.cells[o + 4] = EmptyCell,
            !.cells[o + 5] = MakeCell(c, Rook),
            !.cells[o + 6] = MakeCell(c, King),
            !.cells[o + 7] = EmptyCell,
            !.hash = Xor(@, ZKingside(c)),
            !.bbColor[c] = Xor(@, {o + 4, o + 5, o + 6, o + 7}),
            !.bbPieces[MakeCell(c, Rook)] = Xor(@, {o + 5, o + 7}),
            !.bbPieces[MakeCell(c, King)] = Xor(@, {o + 4, o + 6})],
          b.castling \ CastlingOf(c))

MakeQueenside(b) ==
    LET c == b.side
        o == CastlingOffset(c)
    IN  SetCastling([b EXCEPT
            !.cells[o] = EmptyCell,
            !.cells[o + 2] = MakeCell(c, King),
            !.cells[o + 3] = MakeCell(c, Rook),
            !.cells[o + 4] = EmptyCell,
            !.hash = Xor(@, ZQueenside(c)),
            !.bbColor[c] = Xor(@, {o, o + 2, o + 3, o + 4}),
            !.bbPieces[MakeCell(c, Rook)] = Xor(@, {o, o + 3}),
            !.bbPieces[MakeCell(c, King)] = Xor(@, {o + 2, o + 4})],
          b.castling \ CastlingOf(c))

\* First the en passant cell of the last move goes, ...
ClearEnpassant(b) ==
    IF b.enpassantCoord = InvalidCoord THEN b
    ELSE [b EXCEPT !.hash = Xor(@, ZEnpassant(b.enpassantCoord)),
                   !.enpassantCoord = InvalidCoord]

\* ... then the pieces move, ...
MovePieces(b, m) ==
    CASE m.kind = "Simple" -> MakeSimple(b, m)
      [] m.kind = "PawnDoubleMove" -> MakePawnDoubleMove(b, m)
      [] m.kind \in PromoteKinds -> MakePromote(b, m)
      [] m.kind = "CastlingKingside" -> MakeKingside(b)
      [] m.kind = "CastlingQueenside" -> MakeQueenside(b)
      [] m.kind = "Enpassant" -> MakeEnpassant(b, m)
      [] m.kind = "Null" -> b

\* ... and the turn passes.  The counter of quiet moves restarts on a capture
\* or a pawn move, told from the cells src and dst held before the move.
ResetsMoveCounter(b, m) ==
    b.cells[m.dst] # EmptyCell \/ b.cells[m.src] = MakeCell(b.side, Pawn)

PassTurn(before, b, m) ==
    [b EXCEPT
        !.moveCounter = IF ResetsMoveCounter(before, m) THEN 0 ELSE Uint16(@ + 1),
        !.side = Invert(before.side),
        !.hash = Xor(@, ZSide),
        !.moveNumber = IF before.side = Black THEN Uint16(@ + 1) ELSE @,
        !.bbAll = b.bbColor[White] \cup b.bbColor[Black]]

MoveMake(b, m) == PassTurn(b, MovePieces(ClearEnpassant(b), m), m)

(***************************************************************************)
(* moveUnmake(): the side to restore is the one not on the move.           *)
(***************************************************************************)
\* Mutant: a captured piece comes back to its cell and to no bitboard.
UnmakeSimpleQuietly(b, m, p, c) ==
    LET srcCell == b.cells[m.dst]
    IN  [b EXCEPT !.cells[m.src] = srcCell,
                  !.cells[m.dst] = p.dstCell,
                  !.bbColor[c] = Xor(@, {m.src, m.dst}),
                  !.bbPieces[srcCell] = Xor(@, {m.src, m.dst})]

UnmakeSimple(b, m, p, c) ==
    LET srcCell == b.cells[m.dst]
        change == {m.src, m.dst}
        back == [b EXCEPT
            !.cells[m.src] = srcCell,
            !.cells[m.dst] = p.dstCell,
            !.bbColor[c] = Xor(@, change),
            !.bbPieces[srcCell] = Xor(@, change)]
    IN  IF p.dstCell = EmptyCell THEN back
        ELSE [back EXCEPT !.bbColor[Invert(c)] = @ \cup {m.dst},
                          !.bbPieces[p.dstCell] = @ \cup {m.dst}]

UnmakePawnDoubleMove(b, m, c) ==
    LET pawn == MakeCell(c, Pawn)
        change == {m.src, m.dst}
    IN  [b EXCEPT !.cells[m.src] = pawn,
                  !.cells[m.dst] = EmptyCell,
                  !.bbColor[c] = Xor(@, change),
                  !.bbPieces[pawn] = Xor(@, change)]

UnmakePromote(b, m, p, c) ==
    LET promote == MakeCell(c, PromotePiece(m.kind))
        change == {m.src, m.dst}
        back == [b EXCEPT
            !.cells[m.src] = MakeCell(c, Pawn),
            !.cells[m.dst] = p.dstCell,
            !.bbColor[c] = Xor(@, change),
            !.bbPieces[MakeCell(c, Pawn)] = Xor(@, {m.src}),
            !.bbPieces[promote] = Xor(@, {m.dst})]
    IN  IF p.dstCell = EmptyCell THEN back
        ELSE [back EXCEPT !.bbColor[Invert(c)] = @ \cup {m.dst},
                          !.bbPieces[p.dstCell] = @ \cup {m.dst}]

UnmakeEnpassant(b, m, c) ==
    LET taken == EnpassantPawnPos(c, m.dst)
        ours == MakeCell(c, Pawn)
        theirs == MakeCell(Invert(c), Pawn)
        change == {m.src, m.dst}
    IN  [b EXCEPT !.cells[m.src] = ours,
                  !.cells[m.dst] = EmptyCell,
                  !.cells[taken] = theirs,
                  !.bbColor[c] = Xor(@, change),
                  !.bbPieces[ours] = Xor(@, change),
                  !.bbColor[Invert(c)] = Xor(@, {taken}),
                  !.bbPieces[theirs] = Xor(@, {taken})]

UnmakeKingside(b, c) ==
    LET o == CastlingOffset(c)
    IN  [b EXCEPT !.cells[o + 4] = MakeCell(c, King),
                  !.cells[o + 5] = EmptyCell,
                  !.cells[o + 6] = EmptyCell,
                  !.cells[o + 7] = MakeCell(c, Rook),
                  !.bbColor[c] = Xor(@, {o + 4, o + 5, o + 6, o + 7}),
                  !.bbPieces[MakeCell(c, Rook)] = Xor(@, {o + 5, o + 7}),
                  !.bbPieces[MakeCell(c, King)] = Xor(@, {o + 4, o + 6})]

UnmakeQueenside(b, c) ==
    LET o == CastlingOffset(c)
    IN  [b EXCEPT !.cells[o] = MakeCell(c, Rook),
                  !.cells[o + 2] = EmptyCell,
                  !.cells[o + 3] = EmptyCell,
                  !.cells[o + 4] = MakeCell(c, King),
                  !.bbColor[c] = Xor(@, {o, o + 2, o + 3, o + 4}),
                  !.bbPieces[MakeCell(c, Rook)] = Xor(@, {o, o + 3}),
                  !.bbPieces[MakeCell(c, King)] = Xor(@, {o + 2, o + 4})]

MoveBack(b, m, p, c) ==
    CASE m.kind = "Simple" -> UnmakeSimple(b, m, p, c)
      [] m.kind = "PawnDoubleMove" -> UnmakePawnDoubleMove(b, m, c)
      [] m.kind \in PromoteKinds -> UnmakePromote(b, m, p, c)
      [] m.kind = "CastlingKingside" -> UnmakeKingside(b, c)
      [] m.kind = "CastlingQueenside" -> UnmakeQueenside(b, c)
      [] m.kind = "Enpassant" -> UnmakeEnpassant(b, m, c)
      [] m.kind = "Null" -> b

MoveUnmake(b, m, p) ==
    LET c == Invert(b.side)
        back == MoveBack(b, m, p, c)
    IN  [back EXCEPT
            !.hash = p.hash,
            !.castling = p.castling,
            !.enpassantCoord = p.enpassantCoord,
            !.moveCounter = p.moveCounter,
            !.side = c,
            !.moveNumber = IF c = Black THEN Uint16(@ + 65535) ELSE @,
            !.bbAll = back.bbColor[White] \cup back.bbColor[Black]]
=============================================================================
