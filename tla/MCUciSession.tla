---------------------------- MODULE MCUciSession ----------------------------
(***************************************************************************)
(* Positions for the session and its runner: two near each other in one    *)
(* game, one far away in the same game, one on another first board; and    *)
(* clocks around the margins.                                              *)
(***************************************************************************)
EXTENDS UciSession, Limits

StartPosition == [first |-> "initial", moves |-> <<>>]
AfterTwoMoves == [first |-> "initial", moves |-> <<"a", "b">>]
FarAway == [first |-> "initial", moves |-> <<"a", "c", "d", "e", "f", "g">>]
OtherBoard == [first |-> "other", moves |-> <<>>]

MCPositions == {StartPosition, AfterTwoMoves, FarAway, OtherBoard}

Clocks(moves, time, inc) ==
  [clock |-> [white |-> [time |-> time, inc |-> inc], black |-> [time |-> Unset, inc |-> 0]],
   movesToGo |-> moves]

(* A move that uses up the limit of calculateMaxTime() and 2 ms more leaves   *)
(* enough for the moves after it; a side without a clock thinks at most for   *)
(* its share of an hour.                                                      *)
ASSUME LimitsKeepTheClock ==
  \A moves \in {1, 2, 40, 76, 77, 83}, number \in {9, 10}, inc \in {0, 1, 5000},
     time \in 0..600 \union {3600000} :
    LET limit == CalculateMaxTime([side |-> "white", moveNumber |-> number],
                                  Clocks(moves, time, inc))
        other == CalculateMaxTime([side |-> "black", moveNumber |-> number],
                                  Clocks(moves, time, inc))
    IN /\ limit >= 1
       /\ EnoughTime(moves, time) => EnoughTime(moves - 1, time - (limit + 2))
       /\ other \in 2..1800000
=============================================================================
