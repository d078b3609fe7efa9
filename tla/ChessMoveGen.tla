---------------------------- MODULE ChessMoveGen ----------------------------
(***************************************************************************)
(* Attacks, the move generators, and the two questions about a single move *)
(* that do not make it: isMoveValid() and isMoveLegal()                    *)
(* (src/core/movegen.{h,cpp}), with Board::validate() that needs them.     *)
(*                                                                         *)
(* A generator returns the set of the moves it writes; the order of the    *)
(* list is left out.  What one call writes is kept as one set per inner    *)
(* generator, so that a move written by two of them does not go unnoticed. *)
(***************************************************************************)
EXTENDS ChessBoard

Bb(b, c, p) == b.bbPieces[MakeCell(c, p)]
BbDiagPieces(b, c) == Bb(b, c, Bishop) \cup Bb(b, c, Queen)
BbLinePieces(b, c) == Bb(b, c, Rook) \cup Bb(b, c, Queen)

(***************************************************************************)
(* The pieces of colour c that attack a cell.  A pawn's attack is traced   *)
(* back from the cell, with the table of the other colour.                 *)
(***************************************************************************)
CellAttackers(b, coord, c) ==
    (Bb(b, c, Pawn) \cap PawnAttacks[Invert(c)][coord])
        \cup (Bb(b, c, King) \cap KingAttacks[coord])
        \cup (Bb(b, c, Knight) \cap KnightAttacks[coord])
        \cup (BbDiagPieces(b, c) \cap BishopAttack(b.bbAll, coord))
        \cup (BbLinePieces(b, c) \cap RookAttack(b.bbAll, coord))

IsCellAttacked(b, coord, c) ==
    \/ Bb(b, c, Pawn) \cap PawnAttacks[Invert(c)][coord] # {}
    \/ Bb(b, c, King) \cap KingAttacks[coord] # {}
    \/ Bb(b, c, Knight) \cap KnightAttacks[coord] # {}
    \/ BbDiagPieces(b, c) \cap BishopAttack(b.bbAll, coord) # {}
    \/ BbLinePieces(b, c) \cap RookAttack(b.bbAll, coord) # {}

IsCheck(b) == IsCellAttacked(b, KingPos(b, b.side), Invert(b.side))
WasMoveLegal(b) == ~IsCellAttacked(b, KingPos(b, Invert(b.side)), b.side)

(***************************************************************************)
(* Board::validate() of a board whose cells and flags have valid values:   *)
(* it repairs what update() repairs and then judges.                       *)
(***************************************************************************)
Validate(b) ==
    LET u == Update(b)
        kings(c) == Cardinality(Bb(u, c, King))
    IN  IF /\ b.enpassantCoord # InvalidCoord
           /\ CoordX(b.enpassantCoord) # EnpassantSrcRow(b.side) THEN "InvalidEnpassantRow"
        ELSE IF \E c \in Color : Cardinality(u.bbColor[c]) > 16 THEN "TooManyPieces"
        ELSE IF \E c \in Color : kings(c) = 0 THEN "NoKing"
        ELSE IF \E c \in Color : kings(c) > 1 THEN "TooManyKings"
        ELSE IF OfKind(u, Pawn) \cap ColFrame # {} THEN "InvalidPawnPosition"
        ELSE IF ~WasMoveLegal(u) THEN "OpponentKingAttacked"
        ELSE "Ok"

(***************************************************************************)
(* Generation.  mask is the set of cells a move may enter: all of them, or *)
(* those that answer a single check.                                       *)
(***************************************************************************)
PawnMoves(src, dst, isPromote) ==
    IF isPromote THEN {Move(k, src, dst) : k \in PromoteKinds}
                 ELSE {Move("Simple", src, dst)}

DoGenPawnSingle(b, c, pawns, isPromote, mask) ==
    LET dsts == (AdvancePawnForward(c, pawns) \ b.bbAll) \cap mask
    IN  UNION {PawnMoves(dst - PawnForwardDelta(c), dst, isPromote) : dst \in dsts}

DoGenPawnDouble(b, c, pawns, mask) ==
    LET tmps == AdvancePawnForward(c, pawns) \ b.bbAll
        dsts == (AdvancePawnForward(c, tmps) \ b.bbAll) \cap mask
    IN  {Move("PawnDoubleMove", dst - 2 * PawnForwardDelta(c), dst) : dst \in dsts}

DoGenPawnCapture(b, c, pawns, isPromote, mask) ==
    LET allowed == b.bbColor[Invert(c)]
        left == (AdvancePawnLeft(c, pawns) \cap allowed) \cap mask
        right == (AdvancePawnRight(c, pawns) \cap allowed) \cap mask
    IN  (UNION {PawnMoves(dst - PawnLeftDelta(c), dst, isPromote) : dst \in left})
          \cup (UNION {PawnMoves(dst - PawnRightDelta(c), dst, isPromote) : dst \in right})

\* The policies: "All", "PromoteOnly", "NoPromote".
GenPawnSimple(b, c, policy, mask) ==
    LET pawns == Bb(b, c, Pawn)
        promoting == pawns \cap BbRow[PromoteSrcRow(c)]
        doubling == pawns \cap BbRow[DoubleMoveSrcRow(c)]
    IN  (IF policy \in {"All", "NoPromote"}
         THEN DoGenPawnSingle(b, c, pawns \ promoting, FALSE, mask)
                \cup DoGenPawnDouble(b, c, doubling, mask)
         ELSE {})
        \cup (IF policy \in {"All", "PromoteOnly"}
              THEN DoGenPawnSingle(b, c, promoting, TRUE, mask) ELSE {})

GenPawnCapture(b, c, mask) ==
    LET pawns == Bb(b, c, Pawn)
        promoting == pawns \cap BbRow[PromoteSrcRow(c)]
    IN  DoGenPawnCapture(b, c, pawns \ promoting, FALSE, mask)
          \cup DoGenPawnCapture(b, c, promoting, TRUE, mask)

\* The two pawns beside the one that made the double move.  The mask of a
\* check is not applied here.
GenPawnEnpassant(b, c) ==
    LET ep == b.enpassantCoord
        dst == ep + PawnForwardDelta(c)
        from(src, edge) == IF CoordY(ep) # edge /\ b.cells[src] = MakeCell(c, Pawn)
                           THEN {Move("Enpassant", src, dst)} ELSE {}
    IN  IF ep = InvalidCoord THEN {} ELSE from(ep - 1, 0) \cup from(ep + 1, 7)

\* Mutant: quiet moves may capture.
AllowCaptures(b, c, genSimple, genCaptures) == Coord \ b.bbColor[c]

GetAllowedMask(b, c, genSimple, genCaptures) ==
    CASE genSimple /\ genCaptures -> Coord \ b.bbColor[c]
      [] genSimple /\ ~genCaptures -> Coord \ b.bbAll
      [] OTHER -> b.bbColor[Invert(c)]

GenKnightOrKing(b, c, p, allowed, mask) ==
    UNION {{Move("Simple", src, dst) :
              dst \in ((IF p = Knight THEN KnightAttacks[src] ELSE KingAttacks[src])
                          \cap allowed) \cap mask} :
           src \in Bb(b, c, p)}

GenBishopOrRook(b, p, srcs, allowed, mask) ==
    UNION {{Move("Simple", src, dst) :
              dst \in ((IF p = Bishop THEN BishopAttack(b.bbAll, src)
                                      ELSE RookAttack(b.bbAll, src))
                          \cap allowed) \cap mask} :
           src \in srcs}

\* Mutant: the king may pass an attacked cell.
GenCastlingUnderFire(b, c) ==
    {Move(IF side = Kingside THEN "CastlingKingside" ELSE "CastlingQueenside",
          MakeCoord(CastlingRow(c), 4),
          MakeCoord(CastlingRow(c), IF side = Kingside THEN 6 ELSE 2)) :
        side \in {s \in {Kingside, Queenside} :
            <<c, s>> \in b.castling /\ CastlingPass(c, s) \cap b.bbAll = {}}}

\* The cell the king passes must not be attacked.  That the king is not in
\* check is known to the caller; where it lands is left to the legality test.
GenCastling(b, c) ==
    {Move(IF side = Kingside THEN "CastlingKingside" ELSE "CastlingQueenside",
          MakeCoord(CastlingRow(c), 4),
          MakeCoord(CastlingRow(c), IF side = Kingside THEN 6 ELSE 2)) :
        side \in {s \in {Kingside, Queenside} :
            /\ <<c, s>> \in b.castling
            /\ CastlingPass(c, s) \cap b.bbAll = {}
            /\ ~IsCellAttacked(b, MakeCoord(CastlingRow(c), IF s = Kingside THEN 5 ELSE 3),
                               Invert(c))}}

\* The pieces of genImplInner(), one set per generator it calls.
GenInner(b, c, genSimple, genCaptures, genSimplePromote, genCastling, mask) ==
    LET allowed == GetAllowedMask(b, c, genSimple, genCaptures)
        policy == IF genSimplePromote THEN "All" ELSE "NoPromote"
    IN  << IF genSimple THEN GenPawnSimple(b, c, policy, mask) ELSE {},
           IF genCaptures THEN GenPawnCapture(b, c, mask) ELSE {},
           IF genCaptures THEN GenPawnEnpassant(b, c) ELSE {},
           GenKnightOrKing(b, c, King, allowed, Coord),
           GenKnightOrKing(b, c, Knight, allowed, mask),
           GenBishopOrRook(b, Bishop, BbDiagPieces(b, c), allowed, mask),
           GenBishopOrRook(b, Rook, BbLinePieces(b, c), allowed, mask),
           IF genSimple /\ genCastling THEN GenCastling(b, c) ELSE {} >>

\* MoveGen(b): what kind of check the side to move is in, and the cells a move
\* may enter - for a single check those that answer it.
CheckKind(attackers) ==
    CASE attackers = {} -> "None"
      [] Cardinality(attackers) > 1 -> "Double"
      [] OTHER -> "Single"

CheckMask(attackers, king) ==
    Between(CHOOSE k \in attackers : TRUE, king) \cup attackers

CheckBy(attackers, king) ==
    LET kind == CheckKind(attackers)
    IN  [kind |-> kind,
         mask |-> IF kind = "Single" THEN CheckMask(attackers, king) ELSE Coord]
Check(b) ==
    LET king == KingPos(b, b.side)
    IN  CheckBy(CellAttackers(b, king, Invert(b.side)), king)

GenImpl(b, check, genSimple, genCaptures, genSimplePromote) ==
    IF check.kind = "Double"
    THEN << GenKnightOrKing(b, b.side, King,
                            GetAllowedMask(b, b.side, genSimple, genCaptures), Coord) >>
    ELSE GenInner(b, b.side, genSimple, genCaptures, genSimplePromote,
                  check.kind = "None", check.mask)

GenParts(b, genSimple, genCaptures, genSimplePromote) ==
    GenImpl(b, Check(b), genSimple, genCaptures, genSimplePromote)

Collect(parts) == UNION {parts[i] : i \in DOMAIN parts}

GenAllMoves(b) == Collect(GenParts(b, TRUE, TRUE, TRUE))
GenCaptures(b) == Collect(GenParts(b, FALSE, TRUE, FALSE))
GenSimpleMoves(b) == Collect(GenParts(b, TRUE, FALSE, TRUE))
GenSimpleMovesNoPromote(b) == Collect(GenParts(b, TRUE, FALSE, FALSE))

GenPromotesImpl(b, check) ==
    IF check.kind = "Double" THEN {}
    ELSE GenPawnSimple(b, b.side, "PromoteOnly", check.mask)
GenSimplePromotes(b) == GenPromotesImpl(b, Check(b))

(***************************************************************************)
(* isMoveValid() of a well-formed move.                                    *)
(***************************************************************************)
IsCastlingValid(b, c, side, m) ==
    /\ <<c, side>> \in b.castling
    /\ CastlingPass(c, side) \cap b.bbAll = {}
    /\ ~IsCellAttacked(b, m.src, Invert(c))
    /\ ~IsCellAttacked(b, IF side = Kingside THEN m.src + 1 ELSE m.src - 1, Invert(c))

IsPawnMoveValid(b, c, m) ==
    LET fwd == PawnForwardDelta(c)
        dstCell == b.cells[m.dst]
    IN  \/ /\ m.kind = "PawnDoubleMove"
           /\ b.bbAll \cap {m.src + fwd, m.src + 2 * fwd} = {}
        \/ /\ m.kind = "Enpassant"
           /\ b.enpassantCoord \in {m.src - 1, m.src + 1}
           /\ m.dst = b.enpassantCoord + fwd
        \/ /\ m.kind \notin {"PawnDoubleMove", "Enpassant"}
           /\ m.kind \in PromoteKinds \/ CoordX(m.src) # PromoteSrcRow(c)
           /\ \/ dstCell = EmptyCell /\ m.dst = m.src + fwd
              \/ /\ dstCell # EmptyCell
                 /\ CellPieceColor(dstCell) # c
                 /\ m.dst \in PawnAttacks[c][m.src]

IsMoveValid(b, m) ==
    LET c == b.side
        srcCell == b.cells[m.src]
        is(p) == srcCell = MakeCell(c, p)
    IN  CASE m.kind = "Null" -> FALSE
          [] m.kind = "CastlingKingside" -> IsCastlingValid(b, c, Kingside, m)
          [] m.kind = "CastlingQueenside" -> IsCastlingValid(b, c, Queenside, m)
          [] OTHER ->
              IF is(Pawn) THEN IsPawnMoveValid(b, c, m)
              ELSE /\ m.kind = "Simple"
                   /\ m.dst \notin b.bbColor[c]
                   /\ \/ is(King) /\ m.dst \in KingAttacks[m.src]
                      \/ is(Knight) /\ m.dst \in KnightAttacks[m.src]
                      \/ is(Bishop) /\ m.dst \in BishopAttack(b.bbAll, m.src)
                      \/ is(Rook) /\ m.dst \in RookAttack(b.bbAll, m.src)
                      \/ /\ is(Queen)
                         /\ m.dst \in BishopAttack(b.bbAll, m.src)
                                         \cup RookAttack(b.bbAll, m.src)

(***************************************************************************)
(* isMoveLegal(): is the own king attacked on the board as it will be?     *)
(* Answered on the board as it is, with the occupancy after the move and   *)
(* without the pieces the move takes.                                      *)
(***************************************************************************)
\* Mutant: a piece that is taken still attacks.
IsAttackedUnmasked(b, c, king, all, mask) ==
    IsCellAttacked([b EXCEPT !.bbAll = all], king, c)

IsAttackedMasked(b, c, king, all, mask) ==
    \/ ((Bb(b, c, Pawn) \cap PawnAttacks[Invert(c)][king])
          \cup (Bb(b, c, King) \cap KingAttacks[king])
          \cup (Bb(b, c, Knight) \cap KnightAttacks[king])) \cap mask # {}
    \/ (BbDiagPieces(b, c) \cap mask) \cap BishopAttack(all, king) # {}
    \/ (BbLinePieces(b, c) \cap mask) \cap RookAttack(all, king) # {}

IsMoveLegal(b, m) ==
    LET c == b.side
        taken == IF m.kind = "Enpassant" THEN AdvancePawnForward(Invert(c), {m.dst}) ELSE {}
        after == Xor(Xor(b.bbAll, {m.src}) \cup {m.dst}, taken)
        mask == Xor(Coord \ {m.dst}, taken)
    IN  CASE m.kind = "Null" -> ~IsCheck(b)
          [] m.kind # "Null" /\ b.cells[m.src] = MakeCell(c, King) ->
               ~IsAttackedMasked(b, Invert(c), m.dst, Xor(b.bbAll, {m.src}), Coord)
          [] OTHER -> ~IsAttackedMasked(b, Invert(c), KingPos(b, c), after, mask)

IsMoveCapture(b, m) == b.cells[m.dst] # EmptyCell \/ m.kind = "Enpassant"
=============================================================================
