----------------------------- MODULE MovePicker -----------------------------
(***************************************************************************)
(* The order in which the search tries the moves of a position             *)
(* (src/search/private/move_picker.{h,cpp}, KillerLine of util.h): stage   *)
(* after stage, with the move of the transposition table first and two     *)
(* killers before the quiet moves.  No move may come twice, none may be    *)
(* forgotten, and a killer, which comes from another position, must be a   *)
(* move of this one.  The order inside a stage, which sorting decides, is  *)
(* left out.                                                               *)
(***************************************************************************)
EXTENDS ChessMoveGen, FiniteSetsExt

\* KillerLine: the last two different moves that cut a line at this depth.
NoKillers == [first |-> NullMove, second |-> NullMove]
AddKiller(k, m) == IF m = k.first THEN k ELSE [first |-> m, second |-> k.first]

\* Mutant: a killer may be a capture here.
IsValidKillerAnyhow(b, m) == m.kind \notin PromoteKinds /\ IsMoveValid(b, m)

IsValidKiller(b, m) ==
    /\ ~IsMoveCapture(b, m)
    /\ m.kind \notin PromoteKinds
    /\ IsMoveValid(b, m)

\* What the generators write for a position: the moves of three of the stages.
Generated(b) == [captures |-> GenCaptures(b), promotes |-> GenSimplePromotes(b),
                 quiet |-> GenSimpleMovesNoPromote(b)]

\* What nextStage() puts into moves_.  The slots tell two entries of one stage
\* apart, should they hold the same move.
Slots(moves) == {<<m, m>> : m \in moves}
HashStage(hashMove) == Slots({hashMove} \ {NullMove})
KillerStage(b, k) ==
    {s \in {<<1, k.first>>, <<2, k.second>>} : IsValidKiller(b, s[2])}
HistoryStage(gen, k) == Slots(gen.quiet \ {k.first, k.second})

\* next(): outside its own stage the move of the table becomes a null move,
\* which the caller skips.
Unless(hashMove, slots) == {s \in slots : s[2] # hashMove}

\* All the moves next() returns until it returns Move::invalid().
Picks(b, gen, hashMove, k) ==
    [HashMove |-> HashStage(hashMove),
     Capture |-> Unless(hashMove, Slots(gen.captures)),
     SimplePromote |-> Unless(hashMove, Slots(gen.promotes)),
     Killer |-> Unless(hashMove, KillerStage(b, k)),
     History |-> Unless(hashMove, HistoryStage(gen, k))]

\* QuiescenseMovePicker: the moves that change the material.
QuiescensePicks(gen) == [Capture |-> Slots(gen.captures), SimplePromote |-> Slots(gen.promotes)]

PickedMoves(picks) == UNION {{s[2] : s \in picks[stage]} : stage \in DOMAIN picks}
PickedOften(picks) == FoldSet(LAMBDA stage, n : n + Cardinality(picks[stage]), 0, DOMAIN picks)
=============================================================================
