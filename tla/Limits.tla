------------------------------- MODULE Limits -------------------------------
(***************************************************************************)
(* How long the engine thinks when the GUI sends clocks                    *)
(* (search/private/limits.cpp), in milliseconds.  A time control gives a   *)
(* clock for each side and the moves left until the next time control.     *)
(***************************************************************************)
EXTENDS Integers

(* milliseconds::max(), the clock of a side whose time was not sent; the GUI *)
(* sends no number above 2 * 10^12.                                          *)
Unset == -1

HardTimeMarginPerMove == 3
HardTimeMargin == 250
SoftTimeMarginPerMove == 5
SoftTimeMargin == 350
MinTimeMargin == 20
MaxMovesLeft == 50
MaxMovesToGo == 1000

Lesser(a, b) == IF a < b THEN a ELSE b
Greater(a, b) == IF a < b THEN b ELSE a

HardMargin(movesToGo) ==
  Lesser(HardTimeMargin, MinTimeMargin + movesToGo * HardTimeMarginPerMove)

SoftMargin(movesToGo) ==
  Lesser(SoftTimeMargin, MinTimeMargin + movesToGo * SoftTimeMarginPerMove)

(* Less of the time is spent on each of the first moves. *)
MovesLeft(moveNumber, movesToGo) ==
  Lesser(MaxMovesLeft, movesToGo) * IF moveNumber < 10 THEN 2 ELSE 1

(* doCalculateMaxTime(), for a total above the margin *)
Share(moveNumber, totalTime, movesToGo) ==
  Greater(2, (totalTime - SoftMargin(movesToGo)) \div (MovesLeft(moveNumber, movesToGo) + 1))

(* What is left of calculateMaxTime() when the clock and the moves are known. *)
ThinkingTime(moveNumber, totalTime, inc, movesToGo) ==
  IF totalTime <= HardMargin(movesToGo) THEN 1
  ELSE IF totalTime <= SoftMargin(movesToGo) THEN 2
  ELSE Greater(2, Lesser(Share(moveNumber, totalTime, movesToGo) + inc,
                         totalTime - HardMargin(movesToGo)))

(* calculateMaxTime(): board has the side to move and the number of the move. *)
(* MOVES_INFINITE is the greatest uint32_t, so the least of both stands for it *)
(* too.                                                                        *)
CalculateMaxTime(board, timeControl) ==
  LET clock == timeControl.clock[board.side] IN
  ThinkingTime(board.moveNumber,
               IF clock.time = Unset THEN 60 * 60 * 1000 ELSE clock.time,
               clock.inc,
               Lesser(MaxMovesToGo, timeControl.movesToGo))

(* The time is enough for the smallest margin of each move. *)
EnoughTime(moves, time) == time > HardTimeMarginPerMove * moves
=============================================================================
