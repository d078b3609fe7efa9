------------------------------ MODULE SelfTest ------------------------------
(***************************************************************************)
(* The self-tests of the chess core (selftest/): one position is given to  *)
(* the core and to Dodecahedron, and depthDump() makes and unmakes, in the *)
(* order of their texts, the moves of both.  The program is built once for *)
(* each engine and their outputs are compared; here both engines walk in   *)
(* lock step, and what is compared is what they answer in every position.  *)
(*                                                                         *)
(* The walk adds what the search does on the core's board                  *)
(* (search/private/job.cpp): the null move, which is no move of the rules, *)
(* wherever it may be made, and the evaluation's tag, which MoveMakeGuard  *)
(* brings up to date before each move and keeps until it unmakes it.       *)
(***************************************************************************)
EXTENDS ChessText, Evaluation, MovePicker

D == INSTANCE Dodecahedron

CONSTANT Tests    \* the positions: records of a fen and the depth to walk

\* boardFromFen() panics if the reader refuses a text, so a position that is walked
\* has its 64 cells filled, and its other fields are in their ranges; selfTest(board),
\* which runs before the walk, panics if validate() refuses the position.
ASSUME TestsAssumption ==
    \A t \in Tests : /\ FenResult(t.fen) = "Ok"
                     /\ ReadCells(t.fen.cells).cells \in Cells
                     /\ t.fen.side \in Color
                     /\ \A i \in DOMAIN t.fen.castling : t.fen.castling[i] \in CastlingAll
                     /\ t.fen.enpassant # None => t.fen.enpassant[1] \in Subcoord
                     /\ t.fen.moveCounter \in Counter /\ t.fen.moveNumber \in Counter
                     /\ Validate(FromFen(t.fen)) = "Ok"

VARIABLES core,   \* the board of the core
          dod,    \* the board of Dodecahedron
          frames  \* the calls of depthDump(): the moves still to try, what to undo, the tag

vars == <<core, dod, frames>>

(***************************************************************************)
(* The correspondence of the two engines' data.                            *)
(***************************************************************************)
KindOf == [p \in Piece |->
             CASE p = Pawn -> D!PAWN [] p = King -> D!KING [] p = Knight -> D!KNIGHT
               [] p = Bishop -> D!BISHOP [] p = Rook -> D!ROOK [] p = Queen -> D!QUEEN]
PieceOf == [cell \in Cell |->
              IF cell = EmptyCell THEN D!NONE
              ELSE D!make_piece(CellPieceColor(cell), KindOf[CellPiece(cell)])]
FlagsOf(castling) == {<<f[1], IF f[2] = Kingside THEN D!SHORT ELSE D!LONG>> : f \in castling}
LineOf(ep) == IF ep = InvalidCoord THEN -1 ELSE CoordY(ep)

DodText(m) == IF m = D!empty_move THEN ZeroText ELSE D!move_to_str(m)
CoreText(m) ==
    LET text == MoveToStr(m)
    IN  IF text = ZeroText THEN ZeroText
        ELSE <<text[1], text[2], IF text[3] = NoPromote THEN D!NONE ELSE KindOf[text[3]]>>

DodFromFen(f) ==
    D!load_from_fen([i \in DOMAIN f.cells |->
                        CASE f.cells[i] = Slash -> D!SLASH
                          [] f.cells[i] < 0 -> f.cells[i]
                          [] f.cells[i] \in Cell \ {EmptyCell} -> PieceOf[f.cells[i]]],
                    f.side,
                    FlagsOf({f.castling[i] : i \in DOMAIN f.castling}),
                    IF f.enpassant = None THEN -1 ELSE f.enpassant[1],
                    f.moveCounter)

(***************************************************************************)
(* getMoveHash(), the order of the walk.  Null moves come first.           *)
(***************************************************************************)
PromoteRank == [k \in 0..6 |-> CASE k = D!KNIGHT -> 1 [] k = D!BISHOP -> 2
                                 [] k = D!ROOK -> 3 [] k = D!QUEEN -> 4 [] OTHER -> 0]
MoveHash(text) ==
    IF text = ZeroText THEN -1
    ELSE 5 * (CoordY(text[1]) * 512 + (7 - CoordX(text[1])) * 64
                + CoordY(text[2]) * 8 + (7 - CoordX(text[2]))) + PromoteRank[text[3]]

Todo(c, d, depth) ==
    IF depth = 0 THEN {}
    ELSE {CoreText(m) : m \in GenAllMoves(c)} \cup {DodText(m) : m \in D!gen_moves(d)}
           \cup (IF IsCheck(c) THEN {} ELSE {ZeroText})

Frame(c, d, depth, tag, undo) ==
    [todo |-> Todo(c, d, depth), depth |-> depth, tag |-> tag, undo |-> undo]
Current == frames[Len(frames)]
First(todo) == CHOOSE t \in todo : \A s \in todo : MoveHash(t) <= MoveHash(s)

Init ==
    \E t \in Tests : \E c \in {FromFen(t.fen)}, d \in {DodFromFen(t.fen)} :
        /\ core = c
        /\ dod = d
        /\ \E tag \in {TagFrom(c)} : frames = <<Frame(c, d, t.depth, tag, <<>>)>>

(***************************************************************************)
(* tryMakeMove() of each engine: the move is made, and unmade at once if   *)
(* it leaves the king of its side attacked.                                *)
(***************************************************************************)
CoreMoves(text) == {m \in GenAllMoves(core) \cup {NullMove} : CoreText(m) = text}
DodMoves(text) == {m \in D!gen_moves(dod) \cup {D!empty_move} : DodText(m) = text}

CoreTry(m) ==
    LET made == MoveMake(core, m)
        p == Persistence(core, m)
    IN  IF WasMoveLegal(made) THEN [made |-> TRUE, board |-> made, move |-> m, p |-> p]
        ELSE [made |-> FALSE, board |-> MoveUnmake(made, m, p)]

DodTry(m) ==
    LET made == D!make_move(dod, m)
        p == D!persistence(dod, m)
    IN  IF ~D!is_opponent_king_attacked(made)
        THEN [made |-> TRUE, board |-> made, move |-> m, p |-> p]
        ELSE [made |-> FALSE, board |-> D!unmake_move(made, m, p)]

NotGenerated(b) == [made |-> FALSE, board |-> b]

\* Where one engine makes a move and the other does not, their outputs differ, and
\* the walk goes on from the position they agree on: the move is taken back.
CoreAgreed(c, d) == IF c.made /\ ~d.made THEN MoveUnmake(c.board, c.move, c.p) ELSE c.board
DodAgreed(c, d) == IF d.made /\ ~c.made THEN D!unmake_move(d.board, d.move, d.p) ELSE d.board

Popped == [frames EXCEPT ![Len(frames)].todo = @ \ {First(@)}]

TryMove ==
    /\ Current.todo # {}
    /\ \E text \in {First(Current.todo)} :
       \E cores \in {CoreMoves(text)}, dods \in {DodMoves(text)} :
       \E c \in IF cores = {} THEN {NotGenerated(core)} ELSE {CoreTry(m) : m \in cores} :
       \E d \in IF dods = {} THEN {NotGenerated(dod)} ELSE {DodTry(m) : m \in dods} :
          /\ core' = CoreAgreed(c, d)
          /\ dod' = DodAgreed(c, d)
          /\ frames' =
               IF c.made /\ d.made
               THEN Append(Popped,
                           Frame(c.board, d.board, Current.depth - 1,
                                 TagUpdated(Current.tag, core, c.move),
                                 [move |-> c.move, p |-> c.p, dmove |-> d.move, dp |-> d.p,
                                  before |-> core]))
               ELSE Popped

\* depthDump() returns, and its caller unmakes the move.
Return ==
    /\ Current.todo = {}
    /\ Len(frames) > 1
    /\ core' = MoveUnmake(core, Current.undo.move, Current.undo.p)
    /\ dod' = D!unmake_move(dod, Current.undo.dmove, Current.undo.dp)
    /\ frames' = Front(frames)

Next == TryMove \/ Return

Spec == Init /\ [][Next]_vars

(***************************************************************************)
(* Properties.                                                             *)
(***************************************************************************)

\* The fields a board keeps for speed - the bitboards and the hash, updated
\* move by move - and its castling flags and en passant cell are what update()
\* computes from the cells, after any sequence of moves made and unmade; and
\* validate() accepts every position that legal moves lead to.
BoardStaysFresh ==
    /\ core \in Board
    /\ core = Update(core)
    /\ Validate(core) = "Ok"

NullMoveOverA8 ==
    \E i \in 2..Len(frames) : /\ frames[i].undo.move = NullMove
                              /\ frames[i].undo.before.cells[0] # EmptyCell

\* What depthDump() and runTestsFen() print is the same for both engines: the
\* legal moves, whether the king is in check, the cells each side attacks; and
\* the boards hold the same position.  Dodecahedron's lists of pieces, whose order
\* the moves permute, agree with its cells and bitboards.  The counters of quiet
\* moves part ways only over a null move made while a8 is occupied, which the core
\* takes for a capture on a8.
SameAsDodecahedron ==
    /\ D!board_ok(dod)
    /\ D!legal_texts(dod) = {CoreText(m) : m \in {n \in GenAllMoves(core) : IsMoveLegal(core, n)}}
    /\ D!is_check(dod) = IsCheck(core)
    /\ \A c \in Color : \A cell \in Coord :
          D!is_attacked(dod, c, cell) = IsCellAttacked(core, cell, c)
    /\ dod.board = [c \in Coord |-> PieceOf[core.cells[c]]]
    /\ dod.move_side = core.side
    /\ dod.castling = FlagsOf(core.castling)
    /\ dod.enpassant_line = LineOf(core.enpassantCoord)
    /\ NullMoveOverA8 \/ Uint16(dod.move_counter) = core.moveCounter

Legal(moves) == {m \in moves : IsMoveLegal(core, m)}

WellFormedMoves ==
    {m \in {Move("Simple", s, d) : s \in Coord, d \in Coord}
             \cup {Move(k, s, d) : k \in PromoteKinds \cup {"PawnDoubleMove", "Enpassant"},
                                   s \in UNION {BbRow[x] : x \in {1, 3, 4, 6}},
                                   d \in UNION {BbRow[x] : x \in {0, 2, 3, 4, 5, 7}}}
             \cup {Move(k, s, d) : k \in {"CastlingKingside", "CastlingQueenside"},
                                   s \in Coord, d \in Coord}
        : \E c \in Color : IsWellFormed(m, c)}

\* The generators agree with each other and with isMoveValid(): no move is
\* written twice; captures, promotions without capture and the other simple
\* moves are, as far as they are legal, the parts of genAllMoves(); and a
\* well-formed move is legal and generated exactly if it is legal and valid.
GeneratorsAgree ==
    \E parts \in {GenParts(core, TRUE, TRUE, TRUE)} :
    \E all \in {Legal(Collect(parts))}, captures \in {Legal(GenCaptures(core))},
       promotes \in {Legal(GenSimplePromotes(core))},
       quiet \in {Legal(GenSimpleMovesNoPromote(core))} :
        /\ \A i, j \in DOMAIN parts : i # j => parts[i] \cap parts[j] = {}
        /\ captures \cup promotes \cup quiet = all
        /\ Cardinality(captures) + Cardinality(promotes) + Cardinality(quiet) = Cardinality(all)
        /\ Legal(GenSimpleMoves(core)) = promotes \cup quiet
        /\ \A m \in all : (m \in captures) = IsMoveCapture(core, m)
        /\ all = Legal({m \in WellFormedMoves : IsWellFormed(m, core.side) /\ IsMoveValid(core, m)})

\* isMoveLegal(), which looks at the board before the move with the cells of
\* the move masked, answers what wasMoveLegal() answers after making it.
LegalityIsForeseen ==
    \A m \in GenAllMoves(core) : IsMoveLegal(core, m) = WasMoveLegal(MoveMake(core, m))

\* The cells of the text: eight rows, and every row is eight cells long.
RowLength(row) == FoldLeft(LAMBDA n, t : n + (IF t < 0 THEN -t ELSE 1), 0, row)
IsBoardText(tokens) ==
    LET ends == {i \in DOMAIN tokens : tokens[i] = Slash} \cup {0, Len(tokens) + 1}
        after(i) == CHOOSE j \in ends : j > i /\ \A k \in ends : k > i => k >= j
    IN  /\ Cardinality(ends) = 9
        /\ \A i \in ends \ {Len(tokens) + 1} :
              RowLength(SubSeq(tokens, i + 1, after(i) - 1)) = 8
        /\ \A i \in DOMAIN tokens : tokens[i] # Junk

\* One token dropped, one replaced, one put in.
Misprints(tokens) ==
    LET inserted == {Slash, Junk, -1, -8, MakeCell(Black, Pawn)}
    IN  {RemoveAt(tokens, i) : i \in DOMAIN tokens}
          \cup {ReplaceAt(tokens, i, t) : i \in DOMAIN tokens, t \in inserted}
          \cup {InsertAt(tokens, i, t) : i \in 1..(Len(tokens) + 1), t \in inserted}

\* A position written as a FEN and read back is the same board, bit for bit, and a
\* legal move written and parsed is the same move.  Of the texts next to the cells of the roots the reader accepts
\* those that are eight rows of eight cells, and it never writes past the last cell
\* of the board.
TextRoundTrips ==
    /\ FenResult(AsFen(core)) = "Ok"
    /\ FromFen(AsFen(core)) = core
    /\ \A m \in GenAllMoves(core) :
          IsMoveLegal(core, m) => MoveParse(MoveToStr(m), core) = m
    /\ Len(frames) = 1 =>
          \A tokens \in Misprints(AsFen(core).cells) :
              /\ (ReadCells(tokens).result = "Ok") = IsBoardText(tokens)
              /\ ReadCells(tokens).cur <= 64

\* The magic tables of the BMI2 build, shared by the cells of a group, answer
\* what scanning the lines of the board answers.
MagicTablesAreExact ==
    \A c \in Coord : /\ RookLookup(core.bbAll, c) = RookAttack(core.bbAll, c)
                     /\ BishopLookup(core.bbAll, c) = BishopAttack(core.bbAll, c)

\* Unmaking a move gives back the very board it was made on, hash, counters and
\* bitboards included, whatever was made and unmade in between; and a move that is
\* found illegal once it is made leaves no trace.
UnmakeRestores ==
    [][/\ Len(frames') < Len(frames) => core' = Current.undo.before
       /\ Len(frames') = Len(frames) => core' = core]_vars

\* The tag that follows the moves is the one Tag::from() computes from the whole
\* board (DGN_ASSERT(tag_.isValid(board_)) of MoveMakeGuard).
TagIsFresh == Current.tag = TagFrom(core)

\* The position with the colours exchanged.
ColorFlipped(b) ==
    Update(Essential([c \in Coord |->
                         LET cell == b.cells[FlipX(c)]
                         IN  IF cell = EmptyCell THEN EmptyCell
                             ELSE MakeCell(Invert(CellPieceColor(cell)), CellPiece(cell))],
                     Invert(b.side), {}, InvalidCoord, b.moveCounter, b.moveNumber))

\* What a column of the table of coefficients counts for one colour, by its
\* name and by the words of the rules.  (Cells as White sees them.)
Seen(c, cell) == IF c = White THEN cell ELSE FlipX(cell)
CellsOf(c, p) == {Seen(c, cell) : cell \in {d \in Coord : core.cells[d] = MakeCell(c, p)}}
Ahead(q, p) == CoordX(q) < CoordX(p)
PawnsBeside(q, p, n) == Abs(CoordY(q) - CoordY(p)) = n

PawnCount(c, name) ==
    LET ours == CellsOf(c, Pawn)
        theirs == {FlipX(q) : q \in CellsOf(Invert(c), Pawn)}
        doubled == {p \in ours : \E q \in ours \ {p} : PawnsBeside(q, p, 0)}
        isolated == {p \in ours : ~\E q \in ours : PawnsBeside(q, p, 1)}
        passed == {p \in ours : /\ ~\E q \in theirs : /\ Ahead(q, p)
                                                      /\ Abs(CoordY(q) - CoordY(p)) <= 1
                                /\ ~\E q \in ours : Ahead(q, p) /\ PawnsBeside(q, p, 0)}
        protected == {p \in ours : \E q \in ours : /\ PawnsBeside(q, p, 1)
                                                  /\ CoordX(q) = CoordX(p) + 1}
    IN  CASE name = "pawn_double" -> Cardinality(doubled)
          [] name = "pawn_isolated" -> Cardinality(isolated)
          [] name = "pawn_passed" -> Cardinality(passed)
          [] name = "pawn_protected" -> Cardinality(protected)

\* A pawn of colour by, k-th from the king's left (from its right on the king's
\* side of the board), n rows before the first row of colour c.
PawnBefore(c, by, n, k) ==
    LET king == CHOOSE cell \in CellsOf(c, King) : TRUE
        y == IF CoordY(king) < 4 THEN CoordY(king) - 1 + k ELSE CoordY(king) + 1 - k
    IN  /\ CoordX(king) = 7 /\ CoordY(king) \in {0, 1, 6, 7}
        /\ \E p \in Coord : /\ core.cells[p] = MakeCell(by, Pawn)
                             /\ CoordX(Seen(c, p)) = 7 - n /\ CoordY(p) = y
AsNumber(P) == IF P THEN 1 ELSE 0

Counted(c, stage, column) ==
    LET name == column[1]
        sub == column[2]
        i == column[3]
        rest == COEF_UNIT - stage
        piece == CHOOSE p \in Piece : PieceNames[p + 1] = sub
        here(p) == AsNumber(i \in CellsOf(c, p))
    IN  CASE name = "psq" /\ sub = "cost" -> COEF_UNIT * Cardinality(CellsOf(c, i))
          [] name = "psq" /\ sub = "king" -> stage * here(King)
          [] name = "psq" /\ sub = "king_end" -> rest * here(King)
          [] name = "psq" /\ sub \notin {"cost", "king", "king_end"} -> COEF_UNIT * here(piece)
          [] name = "king_pawn" /\ sub = "shield" ->
               stage * AsNumber(PawnBefore(c, c, 1 + i \div 3, i % 3))
          [] name = "king_pawn" /\ sub = "storm" ->
               stage * AsNumber(PawnBefore(c, Invert(c), 2 + i \div 3, i % 3))
          [] name = "two_bishops" ->
               COEF_UNIT * AsNumber(Cardinality(CellsOf(c, Bishop)) >= 2)
          [] OTHER -> COEF_UNIT * PawnCount(c, name)

ColumnsWithMeaning ==
    {f \in DOMAIN Names : Names[f][1] \in {"psq", "king_pawn", "two_bishops", "pawn_double",
                                           "pawn_isolated", "pawn_passed", "pawn_protected"}}

\* A row of coefficients and the header that names its columns come from two
\* places, the tables of the evaluation and Features::names(): every column holds
\* White's count of what it is named after, less Black's.  And no column, those
\* without a meaning here included, has a favourite colour: the row of the position
\* with the colours exchanged is the negated row.
ColumnsCountWhatTheyName ==
    \E stage \in {CalcStage(Current.tag)}, row \in {EvalForWhite(core, Current.tag)},
       flipped \in {ColorFlipped(core)} :
        /\ DOMAIN row \subseteq 0..(FeatureCount - 1) /\ Len(Names) = FeatureCount
        /\ \A f \in ColumnsWithMeaning :
              At(row, f - 1) = Counted(White, stage, Names[f]) - Counted(Black, stage, Names[f])
        /\ EvalForWhite(flipped, TagFrom(flipped)) = Times(row, -1)

\* Killers are quiet moves that cut a line from another position at the same
\* depth, so of the same side; here, from the positions of the other tests.
Foreign == [c \in Color |->
    UNION {GenSimpleMovesNoPromote(FromFen(t.fen)) : t \in {u \in Tests : u.fen.side = c}}]

Complete(picks, wanted, all) ==
    \E picked \in {PickedMoves(picks)} :
        /\ wanted \subseteq picked
        /\ \A m \in picked \ all : IsMoveValid(core, m)
        /\ PickedOften(picks) = Cardinality(picked)

KillersWith(m, some) ==
    {AddKiller(NoKillers, m), AddKiller(AddKiller(NoKillers, m), some),
     AddKiller(AddKiller(NoKillers, some), m)}

\* Whatever move the table knows and whatever killers other positions left, the
\* search is given every legal move once and nothing but valid moves (a killer
\* that does not answer a check is found out only once it is made), in
\* particular no move twice (DgnMoveRepeatChecker); and the quiescence search
\* every legal capture and promotion once.
PickedOnce ==
    \E gen \in {Generated(core)}, all \in {GenAllMoves(core)} :
    \E legal \in {Legal(all)} :
    \E some \in {IF legal = {} THEN NullMove ELSE CHOOSE m \in legal : TRUE} :
        /\ \A m \in gen.quiet \cup Foreign[core.side] \cup legal :
           \A k \in KillersWith(m, some), hashMove \in {NullMove, some} \cup ({m} \cap legal) :
           \A picks \in {Picks(core, gen, hashMove, k)} : Complete(picks, legal, all)
        /\ \A picks \in {QuiescensePicks(gen)} :
              Complete(picks, {m \in legal : IsMoveCapture(core, m) \/ m.kind \in PromoteKinds}, all)
=============================================================================
