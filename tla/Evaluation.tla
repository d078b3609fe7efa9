----------------------------- MODULE Evaluation -----------------------------
(***************************************************************************)
(* The evaluation of a position (src/eval/), in the instance that keeps    *)
(* coefficients: a score is not a number of centipawns but how often each  *)
(* feature counts, in units of 1 / COEF_UNIT, so that two scores are equal *)
(* exactly if they are equal whatever the weights are.                     *)
(*                                                                         *)
(* The features are those of features.json, read by Features::load(); the  *)
(* weights are the tables gen/eval/ prints from them.                      *)
(***************************************************************************)
EXTENDS ChessMoveGen, Sequences, SequencesExt

(***************************************************************************)
(* eval/feat/feat.cpp.  An item of the file is a name and a value: an int, *)
(* or an object of arrays of ints.  What matters of an array is its length.*)
(***************************************************************************)
IntItem(name) == [name |-> name, arrays |-> << [name |-> "", count |-> 1] >>]
Table(name) == [name |-> name, count |-> 64]
PieceNames == <<"pawn", "king", "knight", "bishop", "rook", "queen">>
PsqItem(name) ==
    [name |-> name,
     arrays |-> <<[name |-> "cost", count |-> 6]>>
                  \o [p \in 1..6 |-> Table(PieceNames[p])]
                  \o <<Table("king_end")>>]
KingPawnItem(name) ==
    [name |-> name, arrays |-> << [name |-> "shield", count |-> 6],
                                  [name |-> "storm", count |-> 6] >>]

FeaturesJson ==
    <<PsqItem("psq")>>
      \o [i \in 1..10 |-> IntItem(<<"queen_near_to_king", "rook_near_to_king", "two_bishops",
                                    "pawn_isolated", "pawn_double", "pawn_passed",
                                    "pawn_candidate", "pawn_open", "pawn_protected",
                                    "pawn_backward">>[i])]
      \o <<KingPawnItem("king_pawn")>>
      \o [i \in 1..4 |-> IntItem(<<"rook_open_col", "rook_semi_open_col",
                                   "queen_open_col", "queen_semi_open_col">>[i])]

\* Features::load() numbers the features one after the other: a bundle starts
\* where the last one ended, and so do its arrays.
LoadArrays(name, offset, arrays) ==
    FoldLeft(LAMBDA acc, a :
                [next |-> acc.next + a.count,
                 arrays |-> Append(acc.arrays, [name |-> <<name, a.name>>,
                                                offset |-> acc.next, count |-> a.count])],
             [next |-> offset, arrays |-> <<>>], arrays)
LoadBundles(items) ==
    FoldLeft(LAMBDA acc, item :
                LET loaded == LoadArrays(item.name, acc.next, item.arrays)
                IN  [next |-> loaded.next, arrays |-> acc.arrays \o loaded.arrays],
             [next |-> 0, arrays |-> <<>>], items)

Features == LoadBundles(FeaturesJson)
FeatureCount == Features.next

\* Features::names(), the header of the table of coefficients: where each
\* column is, by the name of its array and the place in it.
ArrayNames(a) == [i \in 1..a.count |-> <<a.name[1], a.name[2], i - 1>>]
Names == FlattenSeq([i \in DOMAIN Features.arrays |-> ArrayNames(Features.arrays[i])])

\* The offset of an array, as gen/eval/weights.cpp prints it into the tables.
Offset(name, sub) ==
    (CHOOSE a \in Range(Features.arrays) : a.name = <<name, sub>>).offset

(***************************************************************************)
(* Coefs: an array that keeps the coefficients that are not zero.  A pair  *)
(* holds the score of the middle game and the one of the end game.         *)
(***************************************************************************)
COEF_UNIT == 256
Empty == [f \in {} |-> 0]
At(coefs, f) == IF f \in DOMAIN coefs THEN coefs[f] ELSE 0
Compact(value, features) == [f \in {g \in features : value[g] # 0} |-> value[f]]

Add(a, b) == LET all == DOMAIN a \cup DOMAIN b
             IN  Compact([f \in all |-> At(a, f) + At(b, f)], all)
Times(a, n) == Compact([f \in DOMAIN a |-> n * a[f]], DOMAIN a)
Sub(a, b) == Add(a, Times(b, -1))
Total(scores) ==
    LET using(f) == {x \in DOMAIN scores : f \in DOMAIN scores[x]}
        all == UNION {DOMAIN scores[x] : x \in DOMAIN scores}
    IN  Compact([f \in all |-> FoldSet(LAMBDA x, n : n + scores[x][f], 0, using(f))], all)

Number(f) == [g \in {f} |-> COEF_UNIT]
Number2(f, g) == Add(Number(f), Number(g))

Pair(first, second) == [first |-> first, second |-> second]
AddPair(p, q) == Pair(Add(p.first, q.first), Add(p.second, q.second))
SubPair(p, q) == Pair(Sub(p.first, q.first), Sub(p.second, q.second))
EmptyPair == Pair(Empty, Empty)
TimesPair(p, n) == Pair(Times(p.first, n), Times(p.second, n))

(***************************************************************************)
(* The piece-square table: the cost of the piece and of its cell, which    *)
(* for the king changes towards the end game.  The cells of the table are  *)
(* White's; Black's pieces count negatively, on the rows turned over.      *)
(***************************************************************************)
FlipX(c) == MakeCoord(7 - CoordX(c), CoordY(c))

PsqWhite(p, i) ==
    LET cost == Offset("psq", "cost") + p
        endTable == IF p = King THEN "king_end" ELSE PieceNames[p + 1]
    IN  Pair(Number2(cost, Offset("psq", PieceNames[p + 1]) + i),
             Number2(cost, Offset("psq", endTable) + i))
Sign(c) == IF c = White THEN 1 ELSE -1
PsqPiece(c, p, i) == TimesPair(PsqWhite(p, IF c = White THEN i ELSE FlipX(i)), Sign(c))
PSQ ==
    [cell \in Cell |->
        [i \in Coord |-> IF cell = EmptyCell THEN EmptyPair
                         ELSE PsqPiece(CellPieceColor(cell), CellPiece(cell), i)]]

\* What pieces cost together, each given by its cell_t and its coordinate.
PsqOf(placed) ==
    LET costs == [x \in placed |-> PSQ[x[1]][x[2]]]
    IN  Pair(Total([x \in placed |-> costs[x].first]), Total([x \in placed |-> costs[x].second]))

CastlingUpdate(kingDst, rookSrc, rookDst) ==
    LET king(y) == <<MakeCell(White, King), MakeCoord(7, y)>>
        rook(y) == <<MakeCell(White, Rook), MakeCoord(7, y)>>
        update == SubPair(PsqOf({king(kingDst), rook(rookDst)}), PsqOf({king(4), rook(rookSrc)}))
    IN  [c \in Color |-> TimesPair(update, Sign(c))]
PSQ_KINGSIDE_UPD == CastlingUpdate(6, 7, 5)
PSQ_QUEENSIDE_UPD == CastlingUpdate(2, 0, 3)

(***************************************************************************)
(* Tags: what of the evaluation follows a move without looking at the      *)
(* whole board.                                                            *)
(***************************************************************************)
STAGES == [cell \in Cell |->
             IF cell = EmptyCell THEN 0
             ELSE CASE CellPiece(cell) \in {Pawn, King} -> 0
                    [] CellPiece(cell) \in {Knight, Bishop} -> 1
                    [] CellPiece(cell) = Rook -> 2
                    [] CellPiece(cell) = Queen -> 4]
STAGE_TOTAL == 24

Tag(psqCost, stage) == [psqCost |-> psqCost, stage |-> stage]

StageOf(placed) == FoldSet(LAMBDA x, n : n + STAGES[x[1]], 0, placed)

TagFrom(b) ==
    LET placed == {<<b.cells[c], c>> : c \in Coord}
    IN  Tag(PsqOf(placed), StageOf(placed))

\* Mutant: the pawn taken en passant still counts.
EnpassantVictimKept(b, m) == {}

\* Tag::updated(), asked before the move is made: what leaves its cell, what
\* comes to the destination.
EnpassantVictim(b, m) ==
    IF m.kind # "Enpassant" THEN {}
    ELSE {<<MakeCell(Invert(b.side), Pawn), EnpassantPawnPos(b.side, m.dst)>>}

Gone(b, m) ==
    {<<b.cells[m.src], m.src>>, <<b.cells[m.dst], m.dst>>} \cup EnpassantVictim(b, m)
Come(b, m) ==
    {<<IF m.kind \in PromoteKinds THEN MakeCell(b.side, PromotePiece(m.kind))
                                  ELSE b.cells[m.src],
       m.dst>>}

TagUpdated(tag, b, m) ==
    CASE m.kind = "Null" -> tag
      [] m.kind = "CastlingKingside" ->
           Tag(AddPair(tag.psqCost, PSQ_KINGSIDE_UPD[b.side]), tag.stage)
      [] m.kind = "CastlingQueenside" ->
           Tag(AddPair(tag.psqCost, PSQ_QUEENSIDE_UPD[b.side]), tag.stage)
      [] OTHER ->
           Tag(AddPair(SubPair(tag.psqCost, PsqOf(Gone(b, m))), PsqOf(Come(b, m))),
               tag.stage - StageOf(Gone(b, m)) + StageOf(Come(b, m)))

(***************************************************************************)
(* The tables of gen/eval/bitboard.cpp.                                    *)
(***************************************************************************)
Abs(n) == IF n < 0 THEN -n ELSE n
Distance(c, d) ==
    LET x == Abs(CoordX(c) - CoordX(d))
        y == Abs(CoordY(c) - CoordY(d))
    IN  IF x > y THEN x ELSE y
BB_KING_METRIC_RING ==
    [c \in Coord |-> [n \in 0..7 |-> {d \in Coord : Distance(c, d) = n}]]
BB_DOUBLE_PAWN == [c \in Coord |-> Xor(BbCol[CoordY(c)], {c})]
BB_ISOLATED_PAWN == [c \in Coord |-> {d \in Coord : Abs(CoordY(c) - CoordY(d)) = 1}]

InFront(c, color, far) ==
    {d \in Coord : /\ Abs(CoordY(c) - CoordY(d)) \in far
                   /\ IF color = White THEN CoordX(c) > CoordX(d) ELSE CoordX(c) < CoordX(d)}
FrontTable(far) == [color \in Color |-> [c \in Coord |-> InFront(c, color, far)]]
BB_PASSED_PAWN == FrontTable({0, 1})
BB_OPEN_PAWN == FrontTable({0})
BB_ATTACK_FRONTSPANS == FrontTable({1})
BB_SHIELDED_KING == [color \in Color |->
                        {MakeCoord(CastlingRow(color), y) : y \in {0, 1, 6, 7}}]

(***************************************************************************)
(* Evaluator::Impl                                                         *)
(***************************************************************************)
CalcStage(tag) ==
    LET rawStage == (tag.stage * COEF_UNIT + STAGE_TOTAL \div 2) \div STAGE_TOTAL
    IN  IF rawStage < COEF_UNIT THEN rawStage ELSE COEF_UNIT

\* \div rounds down, as the arithmetic shift does.
Mix(pair, stage) ==
    LET both == Add(Times(pair.first, stage), Times(pair.second, COEF_UNIT - stage))
    IN  Compact([f \in DOMAIN both |-> both[f] \div COEF_UNIT], DOMAIN both)

WeightOf(name) == Number(Offset(name, ""))
Weigh(counts) == Total([name \in DOMAIN counts |-> Times(WeightOf(name), counts[name])])
Pawns(b, c) == Bb(b, c, Pawn)
PawnAttacked(b, c) == AdvancePawnLeft(c, Pawns(b, c)) \cup AdvancePawnRight(c, Pawns(b, c))

OpenPawns(b, c) ==
    {src \in Pawns(b, c) : (Pawns(b, White) \cup Pawns(b, Black)) \cap BB_OPEN_PAWN[c][src] = {}}
PassedPawns(b, c) ==
    {src \in OpenPawns(b, c) : Pawns(b, Invert(c)) \cap BB_PASSED_PAWN[c][src] = {}}
CandidatePawns(b, c) ==
    {src \in OpenPawns(b, c) \ PassedPawns(b, c) :
        (PawnAttacked(b, Invert(c)) \ PawnAttacked(b, c)) \cap BB_OPEN_PAWN[c][src] = {}}

DoEvalPawns(b, c) ==
    LET pawns == Pawns(b, c)
        isolated == {src \in pawns : pawns \cap BB_ISOLATED_PAWN[src] = {}}
        double == {src \in pawns : pawns \cap BB_DOUBLE_PAWN[src] # {}}
        frontspans == UNION {BB_ATTACK_FRONTSPANS[c][src] : src \in pawns}
        backward == (AdvancePawnForward(c, pawns) \cap PawnAttacked(b, Invert(c))) \ frontspans
        found == [pawn_isolated |-> isolated,
                  pawn_double |-> double,
                  pawn_passed |-> PassedPawns(b, c),
                  pawn_open |-> (OpenPawns(b, c) \ CandidatePawns(b, c)) \ PassedPawns(b, c),
                  pawn_candidate |-> CandidatePawns(b, c),
                  pawn_protected |-> pawns \cap PawnAttacked(b, c),
                  pawn_backward |-> backward]
    IN  Weigh([name \in DOMAIN found |-> Cardinality(found[name])])

PawnCols(b, c) == {CoordY(p) : p \in Pawns(b, c)}
ColsToBb(cols) == UNION {BbCol[y] : y \in cols}

NearCount(b, c, p) ==
    LET count(dist) == Cardinality(BB_KING_METRIC_RING[KingPos(b, c)][dist]
                                     \cap Bb(b, Invert(c), p))
    IN  5 * count(1) + 4 * count(2) + 1 * count(3)

\* The three cells around the king's column on a row, bit by bit; the bits
\* beyond the edge of the board are masked by the row.
NearCols(bb, row, kingY) == {k \in 0..2 : 8 * row + kingY - 1 + k \in bb \cap BbRow[row]}
\* Mutant: the weights are not mirrored on the king's side of the board.
ApplyInvNever(bits, inverted) == bits

ApplyInv(bits, inverted) == IF inverted THEN {2 - k : k \in bits} ELSE bits
KingPawnWeight(sub, mask1, mask2, inverted) ==
    LET indices == ApplyInv(mask1, inverted) \cup {k + 3 : k \in ApplyInv(mask2, inverted)}
    IN  Pair(Total([i \in indices |-> Number(Offset("king_pawn", sub) + i)]), Empty)

KingPawnResult(b, c) ==
    LET kingY == CoordY(KingPos(b, c))
        row(n) == IF c = White THEN 7 - n ELSE n
        ours(n) == NearCols(Pawns(b, c), row(n), kingY)
        theirs(n) == NearCols(Pawns(b, Invert(c)), row(n), kingY)
        inverted == kingY >= 4
    IN  AddPair(KingPawnWeight("shield", ours(1), ours(2), inverted),
                KingPawnWeight("storm", theirs(2), theirs(3), inverted))

EvalKingSafety(b, c, stage) ==
    LET near == Weigh([queen_near_to_king |-> NearCount(b, c, Queen),
                       rook_near_to_king |-> NearCount(b, c, Rook)])
        shielded == KingPos(b, c) \in BB_SHIELDED_KING[c]
    IN  Add(near, IF shielded THEN Mix(KingPawnResult(b, c), stage) ELSE Empty)

EvalMaterial(b, c) ==
    IF Cardinality(Bb(b, c, Bishop)) >= 2 THEN WeightOf("two_bishops") ELSE Empty

EvalOpenLines(b, c) ==
    LET open == ColsToBb((Subcoord \ PawnCols(b, White)) \ PawnCols(b, Black))
        semiOpen == ColsToBb(PawnCols(b, Invert(c)) \ PawnCols(b, c))
        count(bb, p) == Cardinality(bb \cap Bb(b, c, p))
    IN  Weigh([rook_open_col |-> count(open, Rook),
               rook_semi_open_col |-> count(semiOpen, Rook),
               queen_open_col |-> count(open, Queen),
               queen_semi_open_col |-> count(semiOpen, Queen)])

EvalForWhite(b, tag) ==
    LET stage == CalcStage(tag)
        side(c) == Add(Add(EvalKingSafety(b, c, stage), EvalMaterial(b, c)),
                       Add(DoEvalPawns(b, c), EvalOpenLines(b, c)))
    IN  Add(Mix(tag.psqCost, stage), Sub(side(White), side(Black)))
=============================================================================
