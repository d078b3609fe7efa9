------------------------------- MODULE Score --------------------------------
(***************************************************************************)
(* Scores (eval/score.h).  A score is an int16_t in which mates are coded  *)
(* with their distance; a pair of scores, for the middlegame and the       *)
(* endgame, is one int32_t, so that the evaluator adds both at once.       *)
(***************************************************************************)
EXTENDS Integers

ScoreInf == 32767
CheckmateThreshold == 28000
ScoreCheckmate == 30000

(* The conversion to score_t keeps the lowest 16 bits. *)
AsScore(n) == LET low == n % 65536 IN IF low < 32768 THEN low ELSE low - 65536

ScoreCheckmateLose(plies) == AsScore(plies - ScoreCheckmate)
ScoreCheckmateWin(plies) == AsScore(ScoreCheckmate - plies)

IsLost(score) == score <= -CheckmateThreshold
IsWon(score) == score >= CheckmateThreshold

IsScoreCheckmate(score) == IsLost(score) \/ IsWon(score)

(* Who is mated has an even number of plies left, who mates an odd one. *)
IsScoreValid(score) ==
  /\ -ScoreCheckmate <= score /\ score <= ScoreCheckmate
  /\ IsLost(score) => (score + ScoreCheckmate) % 2 = 0
  /\ IsWon(score) => (ScoreCheckmate - score) % 2 = 1

AdjustCheckmate(score, delta) ==
  AsScore(score + (IF IsWon(score) THEN -delta ELSE IF IsLost(score) THEN delta ELSE 0))

(* PositionCost (bot_api/types.h) orders centipawns and mates in one int32_t: *)
(* mates take the two ends of the range.                                      *)
ValueMax == 2147483647
ValueMin == -ValueMax - 1
MaxPositionCost == 2000000000

Centipawns(cp) == cp

(* PositionCost::checkMate(moves): -moves are left to who is mated. *)
CheckMate(moves) == IF moves <= 0 THEN ValueMin - moves ELSE ValueMax - (moves - 1)

CostIsCentipawns(cost) == -MaxPositionCost <= cost /\ cost <= MaxPositionCost

(* cost.checkMate() *)
MovesToMate(cost) == IF cost < 0 THEN ValueMin - cost ELSE (ValueMax - cost) + 1

ScoreToPositionCost(score) ==
  IF IsLost(score) THEN CheckMate(-((score + ScoreCheckmate) \div 2))
  ELSE IF IsWon(score) THEN CheckMate((ScoreCheckmate - score + 1) \div 2)
  ELSE Centipawns(score)

(* ScorePair::from *)
PairFrom(first, second) == second * 65536 + first

PairFirst(pair) == AsScore(pair)

(* The upper half of the word; a negative first half has borrowed one from it. *)
PairSecond(pair) ==
  AsScore(((pair \div 65536) % 65536) + (IF PairFirst(pair) < 0 THEN 1 ELSE 0))
=============================================================================
