---------------------------- MODULE MCSearchTree ----------------------------
(***************************************************************************)
(* A small game for SearchTree: positions w1.. are white's, b1.. black's,  *)
(* and black is mated in bm.  White mates in three plies from w1 and in    *)
(* one from w2, and may go astray to b2, from where three moves lead on:   *)
(* back to w1, to a promotion, or to the bare kings of wd.                 *)
(***************************************************************************)
EXTENDS SearchTree

Quiet(p) == [to |-> p, kind |-> "quiet", legal |-> TRUE]
Capture(p) == [to |-> p, kind |-> "capture", legal |-> TRUE]
Pawn(p) == [to |-> p, kind |-> "pawn", legal |-> TRUE]
Promote(p) == [to |-> p, kind |-> "promote", legal |-> TRUE]
Illegal(p) == [to |-> p, kind |-> "quiet", legal |-> FALSE]

GamePositions == {"w1", "w2", "w3", "wd", "b1", "b2", "b3", "bm"}

GameMoves ==
  [p \in GamePositions |->
    CASE p = "w1" -> {Quiet("b1"), Quiet("b2")}
      [] p = "b1" -> {Quiet("w2"), Illegal("w3")}
      [] p = "w2" -> {Quiet("bm"), Quiet("b3"), Capture("b2")}
      [] p = "b2" -> {Quiet("w1"), Capture("wd"), Promote("w3")}
      [] p = "w3" -> {Pawn("b2")}
      [] p = "wd" -> {Quiet("b2")}
      [] p = "b3" -> {Capture("wd")}
      [] p = "bm" -> {Illegal("w1")}]

GameNull ==
  [p \in GamePositions |-> IF p \in {"w1", "w2", "w3", "wd"} THEN "b1" ELSE "w1"]

GameEval ==
  [p \in GamePositions |->
    CASE p = "w1" -> 0 [] p = "w2" -> 1 [] p = "w3" -> 5 [] p = "wd" -> 0
      [] p = "b1" -> -1 [] p = "b2" -> -3 [] p = "b3" -> 1 [] p = "bm" -> -2]

(* An earlier search of the same epoch has left the mate in w2, an older one *)
(* something about w3.                                                       *)
GameOldEntries ==
  [p \in GamePositions |->
    CASE p = "w2" -> [move |-> Quiet("bm"), score |-> Checkmate - 1, depth |-> 2,
                      bound |-> "Exact", current |-> TRUE]
      [] p = "w3" -> [move |-> Pawn("b2"), score |-> 3, depth |-> 2,
                      bound |-> "Exact", current |-> FALSE]
      [] OTHER -> NoEntry]

(* All of it in another epoch. *)
GameOlderEntries ==
  [p \in GamePositions |->
    IF GameOldEntries[p] = NoEntry THEN NoEntry
    ELSE [GameOldEntries[p] EXCEPT !.current = FALSE]]

GameNullMove == [minDepth |-> 3, depthDec |-> 2, reductionDec |-> 1]
GameMargins == [maxDepth |-> 2, margins |-> [d \in 0..2 |-> d]]
GameLateMove == [minDepth |-> 2, reduceDepth |-> 1, movesNoReduce |-> 0]
=============================================================================
