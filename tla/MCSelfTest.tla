----------------------------- MODULE MCSelfTest -----------------------------
(***************************************************************************)
(* Small positions, some of them of selftest/boards.fen, where castling,   *)
(* en passant, promotion, pins, double checks and counters at their limit  *)
(* come up; and scores at the edges of their ranges.                       *)
(***************************************************************************)
EXTENDS SelfTest, Score

P == MakeCell(White, Pawn)
K == MakeCell(White, King)
N == MakeCell(White, Knight)
B == MakeCell(White, Bishop)
R == MakeCell(White, Rook)
Q == MakeCell(White, Queen)
bp == MakeCell(Black, Pawn)
bk == MakeCell(Black, King)
bn == MakeCell(Black, Knight)
bb == MakeCell(Black, Bishop)
br == MakeCell(Black, Rook)
S == Slash

Fen(cells, side, castling, enpassant, counter, number) ==
    [cells |-> cells, side |-> side, castling |-> castling, enpassant |-> enpassant,
     moveCounter |-> counter, moveNumber |-> number]
Test(fen, depth) == [fen |-> fen, depth |-> depth]

WhiteK == <<White, Kingside>>
WhiteQ == <<White, Queenside>>
BlackK == <<Black, Kingside>>
BlackQ == <<Black, Queenside>>

MCTests == {
    \* rnbqkbnr/pppppppp/8/8/8/8/PPPPPPPP/RNBQKBNR w KQkq - 0 1
    Test(AsFen(InitialPosition), 1),
    \* r3k2r/5r2/8/8/8/8/8/R3K2R w KQkq - 0 1
    Test(Fen(<<br, -3, bk, -2, br, S, -5, br, -2, S, -8, S, -8, S, -8, S, -8, S, -8, S,
               R, -3, K, -2, R>>,
             White, <<WhiteK, WhiteQ, BlackK, BlackQ>>, None, 0, 1), 1),
    \* r3k3/8/8/8/8/8/8/4K3 b q - 0 1: castling made in the walk
    Test(Fen(<<br, -3, bk, -3, S, -8, S, -8, S, -8, S, -8, S, -8, S, -8, S, -4, K, -3>>,
             Black, <<BlackQ>>, None, 3, 1), 2),
    \* r3k2r/1P4P1/8/8/8/8/8/4K3 w kq - 5 9: promotions that take rooks
    Test(Fen(<<br, -3, bk, -2, br, S, -1, P, -4, P, -1, S, -8, S, -8, S, -8, S, -8, S, -8, S,
               -4, K, -3>>,
             White, <<BlackK, BlackQ>>, None, 5, 9), 1),
    \* 8/8/8/8/k2Pp2Q/8/8/3K4 b - d3 0 1: en passant would open the row
    Test(Fen(<<-8, S, -8, S, -8, S, -8, S, bk, -2, P, bp, -2, MakeCell(White, Queen), S, -8, S,
               -8, S, -3, K, -4>>,
             Black, <<>>, <<3, 3>>, 0, 1), 1),
    \* 8/8/8/2k5/3Pp3/8/8/4K3 b - d3 0 1: en passant takes the pawn that gives check
    Test(Fen(<<-8, S, -8, S, -8, S, -2, bk, -5, S, -3, P, bp, -3, S, -8, S, -8, S, -4, K, -3>>,
             Black, <<>>, <<3, 3>>, 0, 1), 1),
    \* 4k3/8/8/8/1p6/8/P7/4K3 w - - 7 2: a double move, then en passant
    Test(Fen(<<-4, bk, -3, S, -8, S, -8, S, -8, S, -1, bp, -6, S, -8, S, P, -7, S, -4, K, -3>>,
             White, <<>>, None, 7, 2), 2),
    \* 4k3/4r3/8/b7/8/8/3NB3/4K3 w - - 0 1: two pins
    Test(Fen(<<-4, bk, -3, S, -4, br, -3, S, -8, S, bb, -7, S, -8, S, -8, S, -3, N, B, -3, S,
               -4, K, -3>>,
             White, <<>>, None, 0, 1), 2),
    \* n1n5/PPPk4/8/8/8/8/4Kppp/5N1N b - - 0 1: promotions
    Test(Fen(<<bn, -1, bn, -5, S, P, P, P, bk, -4, S, -8, S, -8, S, -8, S, -8, S,
               -4, K, bp, bp, bp, S, -5, N, -1, N>>,
             Black, <<>>, None, 0, 1), 1),
    \* k3r3/8/8/8/1b6/8/2P2N2/3QK3 w - - 0 1: a double check
    Test(Fen(<<bk, -3, br, -3, S, -8, S, -8, S, -8, S, -1, bb, -6, S, -8, S, -2, P, -2, N, -2, S,
               -3, Q, K, -3>>,
             White, <<>>, None, 0, 1), 1),
    \* 2kr3r/ppp2p2/1P6/3p1P2/6p1/2P3P1/P4P1P/R1BQ1BK1 w - - 1 20: pawns of every kind
    Test(Fen(<<-2, bk, br, -3, br, S, bp, bp, bp, -2, bp, -2, S, -1, P, -6, S,
               -3, bp, -1, P, -2, S, -6, bp, -1, S, -2, P, -3, P, -1, S, P, -4, P, -1, P, S,
               R, -1, B, Q, -1, B, K, -1>>,
             White, <<>>, None, 1, 20), 1),
    \* 7k/8/8/8/8/8/p6P/7K b - - 65535 65535: both counters wrap, a promotion
    Test(Fen(<<-7, bk, S, -8, S, -8, S, -8, S, -8, S, -8, S, bp, -6, P, S, -7, K>>,
             Black, <<>>, None, 65535, 65535), 2)}

Edges == {-30000, -29998, -28000, -27999, -1000, -1, 0, 1, 1000, 27999, 28001, 29999}

(* The checks that score.h makes when it is compiled, and mates. *)
ASSUME ScoresAreConsistent ==
  /\ \A a, b \in Edges :
       LET pair == PairFrom(a, b) IN PairFirst(pair) = a /\ PairSecond(pair) = b
  /\ \A a, b, c, d \in {-1000, -3, -1, 0, 1, 8000} :
       /\ PairFrom(a, b) + PairFrom(c, d) = PairFrom(a + c, b + d)
       /\ PairSecond(PairFrom(a, b) - PairFrom(c, d)) = b - d
  /\ \A plies \in {0, 2, 64} :
       /\ IsScoreValid(ScoreCheckmateLose(plies))
       /\ MovesToMate(ScoreToPositionCost(ScoreCheckmateLose(plies))) = -(plies \div 2)
       /\ MovesToMate(ScoreToPositionCost(ScoreCheckmateWin(plies + 1))) = (plies \div 2) + 1
  /\ \A a \in Edges :
       /\ IsScoreValid(a)
       /\ CostIsCentipawns(ScoreToPositionCost(a)) <=> ~IsScoreCheckmate(a)
       /\ \A b \in Edges : a < b <=> ScoreToPositionCost(a) < ScoreToPositionCost(b)
  /\ \A a \in Edges \ {-28000, 28001}, plies \in {0, 1, 64} :
       AdjustCheckmate(AdjustCheckmate(a, plies), -plies) = a
=============================================================================
