------------------------------ MODULE Parallel ------------------------------
(***************************************************************************)
(* processSegmentParallel (util/parallel.cpp): the segment [left; right)   *)
(* is cut into one piece per thread, the first ones longer by one if the   *)
(* distance is not divisible.  The transposition table clears and copies   *)
(* its entries by such pieces, without a lock.                             *)
(***************************************************************************)
EXTENDS Integers

(* Threads that would process no element are not started. *)
ThreadCount(left, right, jobs) == IF jobs < right - left THEN jobs ELSE right - left

(* curLeft, when thread i is started *)
PieceStart(left, right, threads, i) ==
  LET blockSize == (right - left) \div threads
      blockRemainder == (right - left) % threads
  IN left + i * blockSize + IF i < blockRemainder THEN i ELSE blockRemainder

(* The elements of thread i. *)
Piece(left, right, threads, i) ==
  PieceStart(left, right, threads, i)..(PieceStart(left, right, threads, i + 1) - 1)

(* The pieces: none of an empty segment, the segment itself for one thread. *)
Pieces(left, right, jobs) ==
  IF left >= right THEN [i \in {} |-> {}]
  ELSE LET threads == ThreadCount(left, right, jobs) IN
       [i \in 0..(threads - 1) |-> Piece(left, right, threads, i)]
=============================================================================
