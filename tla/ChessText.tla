------------------------------ MODULE ChessText ------------------------------
(***************************************************************************)
(* Positions and moves as text: Board::asFen(), Board::setFromFen()        *)
(* (src/core/board.cpp), moveToStr() and the move parser                   *)
(* (src/core/strutil.cpp, move_parser.{h,cpp}).                            *)
(*                                                                         *)
(* A FEN is a record of its fields.  In the field of the cells a token is  *)
(* the cell of a piece letter, -n for a run of n empty cells, Slash, or    *)
(* Junk for any other character; a number field is a number or Junk.  The  *)
(* text of a move is its two cells and its promotion letter.               *)
(***************************************************************************)
EXTENDS ChessMoveGen, Sequences, SequencesExt

Slash == 0
Junk == 99
None == <<>>
NoPromote == -1

(***************************************************************************)
(* asFen()                                                                 *)
(***************************************************************************)
FlushEmpty(row) == IF row.empty = 0 THEN row.text ELSE Append(row.text, -row.empty)

RowAsFen(cells, x) ==
    LET put(row, y) ==
          IF cells[MakeCoord(x, y)] = EmptyCell
          THEN [row EXCEPT !.empty = @ + 1]
          ELSE [empty |-> 0, text |-> Append(FlushEmpty(row), cells[MakeCoord(x, y)])]
    IN  FlushEmpty(FoldLeft(put, [empty |-> 0, text |-> <<>>], [y \in 1..8 |-> y - 1]))

CellsAsFen(cells) ==
    FoldLeft(LAMBDA text, x : text \o <<Slash>> \o RowAsFen(cells, x),
             RowAsFen(cells, 0), <<1, 2, 3, 4, 5, 6, 7>>)

CastlingOrder == <<<<White, Kingside>>, <<White, Queenside>>,
                   <<Black, Kingside>>, <<Black, Queenside>>>>
CastlingAsFen(castling) ==
    FoldLeft(LAMBDA text, f : IF f \in castling THEN Append(text, f) ELSE text,
             <<>>, CastlingOrder)

AsFen(b) ==
    [cells |-> CellsAsFen(b.cells),
     side |-> b.side,
     castling |-> CastlingAsFen(b.castling),
     enpassant |-> IF b.enpassantCoord = InvalidCoord THEN None
                   ELSE <<CoordY(b.enpassantCoord), IF b.side = White THEN 6 ELSE 3>>,
     moveCounter |-> b.moveCounter,
     moveNumber |-> b.moveNumber]

(***************************************************************************)
(* setFromFen().  The reader of the cells keeps the row x, the column y    *)
(* and the next cell cur; result is the first complaint.                   *)
(***************************************************************************)
\* Mutant: a run of empty cells is not measured against the row.
ReadCellUnmeasured(r, token) ==
    IF r.result # "Ok" THEN r
    ELSE CASE token \in -8..-1 -> [r EXCEPT !.cur = @ - token, !.y = (@ - token) % 9]
           [] token = Slash -> [r EXCEPT !.x = @ + 1, !.y = 0]
           [] token = Junk -> [r EXCEPT !.result = "UnexpectedCharacter"]
           [] OTHER -> [r EXCEPT !.cells = [@ EXCEPT ![r.cur % 64] = token],
                                 !.cur = @ + 1, !.y = @ + 1]

ReadCell(r, token) ==
    IF r.result # "Ok" THEN r
    ELSE CASE token \in -8..-1 ->
                IF r.y - token > 8 THEN [r EXCEPT !.result = "BoardRowOverflow"]
                ELSE [r EXCEPT !.cells = [c \in Coord |->
                                            IF c \in r.cur..(r.cur - token - 1) THEN EmptyCell
                                            ELSE r.cells[c]],
                               !.cur = @ - token,
                               !.y = @ - token]
           [] token = Slash ->
                CASE r.y # 8 -> [r EXCEPT !.result = "BoardRowUnderflow"]
                  [] r.y = 8 /\ r.x = 7 -> [r EXCEPT !.result = "BoardTooManyRows"]
                  [] OTHER -> [r EXCEPT !.x = @ + 1, !.y = 0]
           [] OTHER ->
                CASE r.y = 8 -> [r EXCEPT !.result = "BoardRowOverflow"]
                  [] r.y < 8 /\ token = Junk -> [r EXCEPT !.result = "UnexpectedCharacter"]
                  [] OTHER -> [r EXCEPT !.cells[r.cur] = token, !.cur = @ + 1, !.y = @ + 1]

\* The space after the cells.
EndCells(r) ==
    CASE r.result # "Ok" -> r
      [] r.result = "Ok" /\ r.y # 8 -> [r EXCEPT !.result = "BoardRowUnderflow"]
      [] r.result = "Ok" /\ r.y = 8 /\ r.x # 7 -> [r EXCEPT !.result = "BoardNotEnoughRows"]
      [] OTHER -> r

ReadCells(tokens) ==
    EndCells(FoldLeft(ReadCell,
                      [x |-> 0, y |-> 0, cur |-> 0, result |-> "Ok",
                       cells |-> [c \in Coord |-> EmptyCell]],
                      tokens))

FirstError(results) ==
    LET bad == {i \in DOMAIN results : results[i] # "Ok"}
    IN  IF bad = {} THEN "Ok" ELSE results[CHOOSE i \in bad : \A j \in bad : i <= j]

\* A dash is the empty sequence of flags; a flag may not be written twice.
CastlingResult(flags) ==
    FirstError([i \in DOMAIN flags |->
        CASE flags[i] \notin CastlingAll -> "UnexpectedCharacter"
          [] flags[i] \in CastlingAll /\ \E j \in 1..(i - 1) : flags[j] = flags[i] ->
               "CastlingDuplicate"
          [] OTHER -> "Ok"])

EnpassantResult(ep, side) ==
    CASE ep = None -> "Ok"
      [] ep # None /\ (ep[1] \notin 0..7 \/ ep[2] \notin 1..8) -> "UnexpectedCharacter"
      [] ep # None /\ 8 - ep[2] # EnpassantDstRow(side) -> "EnpassantInvalidCell"
      [] OTHER -> "Ok"

NumberResult(n) == IF n \in 0..Uint16Max THEN "Ok" ELSE "ExpectedUint16"

FenResult(f) ==
    FirstError(<<ReadCells(f.cells).result, CastlingResult(f.castling),
                 EnpassantResult(f.enpassant, f.side),
                 NumberResult(f.moveCounter), NumberResult(f.moveNumber)>>)

\* The board of a FEN whose result is Ok.
FromFen(f) ==
    Update(Essential(ReadCells(f.cells).cells, f.side,
                     {f.castling[i] : i \in DOMAIN f.castling},
                     IF f.enpassant = None THEN InvalidCoord
                     ELSE MakeCoord(EnpassantSrcRow(f.side), f.enpassant[1]),
                     f.moveCounter, f.moveNumber))

(***************************************************************************)
(* moveToStr(), ParsedMove::fromStr() and moveFromParsed().  A text is its *)
(* two cells and its promotion; "0000" is the text of the null move and    *)
(* parses to both cells being a8.                                          *)
(***************************************************************************)
ZeroText == <<>>
MoveToStr(m) ==
    IF m.kind = "Null" THEN ZeroText
    ELSE <<m.src, m.dst, IF m.kind \in PromoteKinds THEN PromotePiece(m.kind) ELSE NoPromote>>

NullParsedMove == <<0, 0, NoPromote>>
ParsedFromStr(text) == IF text = ZeroText THEN NullParsedMove ELSE text

PromoteKindOf(p) == CHOOSE k \in PromoteKinds : PromotePiece(k) = p

MoveFromParsed(p, b) ==
    LET c == b.side
        src == p[1]
        dst == p[2]
        simple == Move("Simple", src, dst)
        as(kind) == [simple EXCEPT !.kind = kind]
        home == MakeCoord(CastlingRow(c), 4)
    IN  CASE p = NullParsedMove -> NullMove
          [] p # NullParsedMove /\ p[3] # NoPromote -> as(PromoteKindOf(p[3]))
          [] OTHER ->
              IF b.cells[src] = MakeCell(c, Pawn)
              THEN CASE /\ CoordX(src) = DoubleMoveSrcRow(c)
                        /\ CoordX(dst) = DoubleMoveDstRow(c) -> as("PawnDoubleMove")
                     [] /\ CoordY(src) # CoordY(dst)
                        /\ b.cells[dst] = EmptyCell
                        /\ ~ /\ CoordX(src) = DoubleMoveSrcRow(c)
                             /\ CoordX(dst) = DoubleMoveDstRow(c) -> as("Enpassant")
                     [] OTHER -> simple
              ELSE CASE /\ b.cells[src] = MakeCell(c, King)
                        /\ src = home /\ dst = home + 2 -> as("CastlingKingside")
                     [] /\ b.cells[src] = MakeCell(c, King)
                        /\ src = home /\ dst = home - 2 -> as("CastlingQueenside")
                     [] OTHER -> simple

MoveParse(text, b) == MoveFromParsed(ParsedFromStr(text), b)
=============================================================================
