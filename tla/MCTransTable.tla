---------------------------- MODULE MCTransTable ----------------------------
(***************************************************************************)
(* The jobs of TransTable are interchangeable.  The pieces in which it is   *)
(* cleared and copied are checked for small tables.                        *)
(***************************************************************************)
EXTENDS TransTable, Parallel, TLC

JobSymmetry == Permutations(Jobs)

(* Every element of the segment is in one piece, and the lengths of the       *)
(* pieces differ by at most one.                                              *)
ASSUME PiecesAreFair ==
  \A left \in 0..2, right \in 0..9, jobs \in 1..4 :
    LET pieces == Pieces(left, right, jobs)
        Length(i) == Cardinality(pieces[i])
    IN /\ \A x \in left..(right - 1) :
            Cardinality({i \in DOMAIN pieces : x \in pieces[i]}) = 1
       /\ \A i \in DOMAIN pieces : pieces[i] \subseteq left..(right - 1) /\ Length(i) >= 1
       /\ \A i, k \in DOMAIN pieces : Length(i) <= Length(k) + 1
=============================================================================
