---------------------------- MODULE MCJobRunner ----------------------------
(***************************************************************************)
(* Positions for JobRunner: two near each other in one game, one far away  *)
(* in the same game, one on another first board.                           *)
(***************************************************************************)
EXTENDS JobRunner

StartPosition == [first |-> "initial", moves |-> <<>>]
AfterTwoMoves == [first |-> "initial", moves |-> <<"a", "b">>]
FarAway == [first |-> "initial", moves |-> <<"a", "c", "d", "e", "f", "g">>]
OtherBoard == [first |-> "other", moves |-> <<>>]

MCPositions == {StartPosition, AfterTwoMoves, FarAway, OtherBoard}
=============================================================================
