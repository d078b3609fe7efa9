----------------------------- MODULE SearchTree -----------------------------
(***************************************************************************)
(* The Searcher of each job (search/private/job.cpp): the recursion of     *)
(* search(), doSearch() and quiescenseSearch() with the repetition table   *)
(* of the job and the transposition table that all jobs share.  It may be  *)
(* cut short at any return from a recursive call, by a stop, by the clock, *)
(* or because another job has finished the depth first.                    *)
(*                                                                         *)
(* The call stack is explicit, one frame per call.  A step runs from one   *)
(* place where other jobs can interfere to the next, so it has at most one *)
(* access to the shared table and at most one call of mustStop().          *)
(*                                                                         *)
(* The game is a constant: positions (which stand for their hashes), the   *)
(* moves in each of them and an evaluation.  Which of several moves of one *)
(* stage comes first depends on killers and history and is left open, and  *)
(* so is whether a killer is one.  A store may be refused and a load may   *)
(* miss at any time, as module TransTable has it.                          *)
(***************************************************************************)
EXTENDS Integers, Sequences

CONSTANTS
  Jobs,         \* the search jobs
  FirstJob,     \* the one with id 0, which keeps the order of the root moves
  Positions,    \* Zobrist hashes
  MovesAt,      \* the pseudo-legal moves of each position
  NullTo,       \* the position after the null move
  Checked,      \* where the side to move is in check
  Insufficient, \* isBoardDrawInsufficientMaterial()
  Eval,         \* evaluator_.evalForCur()
  Root,         \* the position to search
  RootCounter,  \* moveCounter in that position
  Repeated,     \* doubleRepeat: the positions that occurred twice before it
  OldEntries,   \* what earlier searches left in the table
  NoMove,       \* Move::null()
  NoEntry,      \* invalid data of the table
  NoScore,      \* no call has returned yet
  Inf, Checkmate, Threshold,               \* SCORE_INF, SCORE_CHECKMATE...
  NullMove, Futility, Razoring, LateMove,  \* the namespaces of consts.h
  MaxDepth,     \* min(limits.depth, MAX_DEPTH)
  MaxStack,     \* MAX_STACK_DEPTH
  CheckPeriod,  \* 1024
  DrawCounter,  \* 100
  HitCounter    \* 90

(* "pawn" is a quiet move of a pawn, "promote" a promotion that captures     *)
(* nothing.                                                                  *)
Move ==
  [to : Positions, kind : {"capture", "promote", "pawn", "quiet"}, legal : BOOLEAN]

ASSUME GameAssumption ==
  /\ FirstJob \in Jobs
  /\ MovesAt \in [Positions -> SUBSET Move]
  /\ NullTo \in [Positions -> Positions]
  /\ Checked \subseteq Positions /\ Insufficient \subseteq Positions
  /\ Root \in Positions /\ RootCounter \in Nat /\ Repeated \subseteq Positions

ASSUME ScoreAssumption ==
  /\ Threshold \in Nat /\ Checkmate \in Nat /\ Inf \in Nat
  /\ Threshold < Checkmate /\ Checkmate < Inf
  /\ Eval \in [Positions -> (-Threshold + 1)..(Threshold - 1)]

(* No mate that is loaded at a ply of the stack becomes one of the other side. *)
ASSUME PlyAssumption == MaxStack <= 2 * Threshold

ASSUME ConstsAssumption ==
  /\ MaxDepth \in Nat \ {0} /\ MaxStack \in Nat \ {0} /\ CheckPeriod \in Nat \ {0}
  /\ DrawCounter \in Nat /\ HitCounter \in Nat
  /\ NullMove \in [minDepth : Nat, depthDec : Nat, reductionDec : Nat]
  /\ NullMove.minDepth > NullMove.reductionDec
  /\ Futility.maxDepth \in Nat /\ Futility.margins \in [0..Futility.maxDepth -> Nat]
  /\ Razoring.maxDepth \in Nat /\ Razoring.margins \in [0..Razoring.maxDepth -> Nat]
  /\ LateMove \in [minDepth : Nat, reduceDepth : Nat, movesNoReduce : Nat]

Flag == {"Capture", "NullMove", "NullMoveReduction", "LateMoveReduction"}
Inherit == {"NullMove", "NullMoveReduction", "LateMoveReduction"}
NullMoveDisable == {"NullMove", "NullMoveReduction", "Capture"}

Kind == {"Root", "Pv", "Simple", "Quiesce"}
Bound == {"Exact", "Lowerbound", "Upperbound"}

Board == [pos : Positions, counter : Nat]

Entry == [move : Move, score : Int, depth : Int, bound : Bound, current : BOOLEAN]

ASSUME NoneAssumption ==
  /\ NoMove \notin Move /\ NoEntry \notin Entry
  /\ NoScore \notin [score : Int, cut : BOOLEAN]
  /\ OldEntries \in [Positions -> Entry \union {NoEntry}]

(* A frame is a call.  "origAlpha", "best", "hash", "left", "hasMove" and   *)
(* "quiets" are local variables (the last three and the hash move make the  *)
(* picker), "move" is the move being tried and "from" the board of the call, *)
(* to which MoveMakeGuard returns when it takes a move back;                *)
(* "keyed" says that search() has entered the position in the repetition    *)
(* table.  "misled" is history: the call went on with the result of a call  *)
(* that had been cut.                                                       *)
Frame ==
  [kind : Kind, depth : Int, alpha : Int, beta : Int, flags : SUBSET Flag,
   origAlpha : Int, keyed : BOOLEAN, phase : {"enter", "razor", "null", "moves",
   "late", "zero", "full"}, hash : Move \union {NoMove}, left : SUBSET Move,
   hasMove : BOOLEAN, quiets : Nat, best : Move \union {NoMove},
   move : Move \union {NoMove}, from : Board, misled : BOOLEAN]

VARIABLES
  stopped,      \* comm_.stopped_
  commDepth,    \* comm_.depth_
  tt,           \* tt_
  pc,           \* where each job is in Job::run
  jobDepth,     \* depth_ of the Searcher
  board,        \* board_
  repetitions,  \* repetitions_
  stack,        \* the calls of each job
  ret,          \* what the last call of each job returned
  counter,      \* counter_ modulo CheckPeriod
  falseStores   \* history: stores of misled calls in the search of this depth

comm == <<stopped, commDepth>>
local == <<board, repetitions, stack, ret>>
vars == <<comm, tt, pc, jobDepth, local, counter, falseStores>>

Top(j) == stack[j][Len(stack[j])]
Below(j) == SubSeq(stack[j], 1, Len(stack[j]) - 1)

(* The call on top is in this phase and no result is waiting for it. *)
At(j, phase) == stack[j] # <<>> /\ ret[j] = NoScore /\ Top(j).phase = phase

IsPv(f) == f.kind \in {"Root", "Pv"}
MaxOf(a, b) == IF a > b THEN a ELSE b

-----------------------------------------------------------------------------
(* Calls and returns *)

Call(kind, depth, alpha, beta, flags, keyed, from) ==
  [kind |-> kind, depth |-> depth, alpha |-> alpha, beta |-> beta, flags |-> flags,
   origAlpha |-> alpha, keyed |-> keyed, phase |-> "enter", hash |-> NoMove,
   left |-> {}, hasMove |-> FALSE, quiets |-> 0, best |-> NoMove, move |-> NoMove,
   from |-> from, misled |-> FALSE]

(* search() on the board b, called by the frames of stk: a position met     *)
(* before is a draw, and is not entered again.                              *)
Search(j, stk, kind, depth, alpha, beta, flags, b) ==
  /\ board' = [board EXCEPT ![j] = b]
  /\ IF b.pos \in repetitions[j]
       THEN /\ stack' = [stack EXCEPT ![j] = stk]
            /\ ret' = [ret EXCEPT ![j] = [score |-> 0, cut |-> FALSE]]
            /\ UNCHANGED repetitions
       ELSE /\ stack' = [stack EXCEPT ![j] =
                 Append(stk, Call(kind, depth, alpha, beta, flags, TRUE, b))]
            /\ repetitions' = [repetitions EXCEPT ![j] = @ \union {b.pos}]
            /\ ret' = [ret EXCEPT ![j] = NoScore]

(* quiescenseSearch() does not ask the repetition table. *)
Quiesce(j, stk, alpha, beta, b) ==
  /\ board' = [board EXCEPT ![j] = b]
  /\ stack' = [stack EXCEPT ![j] =
       Append(stk, Call("Quiesce", 0, alpha, beta, {}, FALSE, b))]
  /\ ret' = [ret EXCEPT ![j] = NoScore]
  /\ UNCHANGED repetitions

(* Mutant: search() does not erase the position of a call that was cut. *)
ReturnKeeping(j, score, cut, b) ==
  /\ board' = [board EXCEPT ![j] = b]
  /\ stack' = [stack EXCEPT ![j] = Below(j)]
  /\ ret' = [ret EXCEPT ![j] = [score |-> score, cut |-> cut]]
  /\ repetitions' = IF Top(j).keyed /\ ~cut
                      THEN [repetitions EXCEPT ![j] = @ \ {b.pos}]
                      ELSE repetitions

(* The top call returns; b is its board with the last move taken back (by   *)
(* MoveMakeGuard), whose hash search() erases.                              *)
Return(j, score, cut, b) ==
  /\ board' = [board EXCEPT ![j] = b]
  /\ stack' = [stack EXCEPT ![j] = Below(j)]
  /\ ret' = [ret EXCEPT ![j] = [score |-> score, cut |-> cut]]
  /\ repetitions' = IF Top(j).keyed
                      THEN [repetitions EXCEPT ![j] = @ \ {b.pos}]
                      ELSE repetitions

(* The call on top goes on as f, with the board b. *)
Continue(j, f, b) ==
  /\ board' = [board EXCEPT ![j] = b]
  /\ stack' = [stack EXCEPT ![j] = Append(Below(j), f)]
  /\ ret' = [ret EXCEPT ![j] = NoScore]
  /\ UNCHANGED repetitions

-----------------------------------------------------------------------------
(* The transposition table *)

(* adjustCheckmate(score, delta) *)
AdjustCheckmate(score, delta) ==
  IF score >= Threshold THEN score - delta
  ELSE IF score <= -Threshold THEN score + delta ELSE score

Idepth(j) == Len(stack[j]) - 1

(* A mate is stored as far away as it is from the position itself. *)
StoredScore(j, score) == AdjustCheckmate(score, -Idepth(j))

(* Mutant: a mate that was loaded is not moved away from the root. *)
LoadedScoreUnadjusted(j, e) == e.score

LoadedScore(j, e) == AdjustCheckmate(e.score, Idepth(j))

(* ttStore() of the call f: nothing to store without a best move. *)
TtStore(j, f, score) ==
  LET bound == IF score >= f.beta THEN "Lowerbound"
               ELSE IF score <= f.origAlpha THEN "Upperbound" ELSE "Exact"
      limited == IF score >= f.beta THEN f.beta ELSE MaxOf(score, f.origAlpha)
      entry == [move |-> f.best, score |-> StoredScore(j, limited),
                depth |-> f.depth, bound |-> bound, current |-> TRUE]
  IN IF f.best = NoMove
       THEN UNCHANGED <<tt, falseStores>>
       ELSE /\ tt' \in {tt, [tt EXCEPT ![f.from.pos] = entry]}
            /\ falseStores' = [falseStores EXCEPT ![j] = IF f.misled THEN @ + 1 ELSE @]

Loads(pos) == {tt[pos], NoEntry}

IsCutoff(f, bound, score) ==
  \/ bound = "Exact"
  \/ bound = "Lowerbound" /\ score >= f.beta
  \/ bound = "Upperbound" /\ f.alpha >= score

(* The entry e ends the call f at once. *)
CutsOff(j, f, e) ==
  /\ e # NoEntry
  /\ f.kind # "Root"
  /\ e.depth >= f.depth
  /\ board[j].counter < HitCounter
  /\ IsPv(f) => e.current
  /\ IsCutoff(f, e.bound, LoadedScore(j, e))

HashMove(e) == IF e = NoEntry THEN NoMove ELSE e.move

-----------------------------------------------------------------------------
(* mustStop() *)

(* Mutant: the test of the counter is the wrong way round. *)
MustStopInverted(j, answer) ==
  IF stopped
    THEN answer /\ UNCHANGED <<stopped, counter>>
    ELSE /\ counter' = [counter EXCEPT ![j] = (@ + 1) % CheckPeriod]
         /\ IF counter'[j] # 0
              THEN stopped' = answer
              ELSE answer = (commDepth # jobDepth[j]) /\ UNCHANGED stopped

(* Mutant: the comparison of depths is off by one. *)
MustStopTooEarly(j, answer) ==
  IF stopped
    THEN answer /\ UNCHANGED <<stopped, counter>>
    ELSE /\ counter' = [counter EXCEPT ![j] = (@ + 1) % CheckPeriod]
         /\ IF counter'[j] = 0
              THEN stopped' = answer
              ELSE answer = (commDepth >= jobDepth[j]) /\ UNCHANGED stopped

(* The answer of mustStop().  At every CheckPeriod-th call the clock decides *)
(* alone: checkTimeout() stops the search if it is late.                     *)
MustStop(j, answer) ==
  IF stopped
    THEN answer /\ UNCHANGED <<stopped, counter>>
    ELSE /\ counter' = [counter EXCEPT ![j] = (@ + 1) % CheckPeriod]
         /\ IF counter'[j] = 0
              THEN stopped' = answer
              ELSE answer = (commDepth # jobDepth[j]) /\ UNCHANGED stopped

-----------------------------------------------------------------------------
(* The beginning of doSearch() *)

IsDraw(j, f) ==
  /\ f.kind # "Root"
  /\ board[j].counter >= DrawCounter \/ board[j].pos \in Insufficient

IsLeaf(j, f) == f.depth <= 0 \/ Len(stack[j]) = MaxStack

MateBounds(f) == f.alpha <= -Threshold \/ f.beta >= Threshold

MayPrune(f, pos) == ~IsPv(f) /\ pos \notin Checked /\ ~MateBounds(f)

Futile(f, pos) ==
  /\ MayPrune(f, pos)
  /\ f.depth <= Futility.maxDepth
  /\ Eval[pos] >= f.beta + Futility.margins[f.depth]

Razor(f) == f.alpha - Razoring.margins[f.depth]

Razored(f, pos) ==
  /\ MayPrune(f, pos)
  /\ f.depth <= Razoring.maxDepth
  /\ Eval[pos] <= Razor(f)

CanNullMove(f, pos) ==
  /\ MayPrune(f, pos)
  /\ f.depth >= NullMove.minDepth
  /\ f.flags \intersect NullMoveDisable = {}

(* After razoring: the null move if it may be tried, or else the moves. *)
Onward(j, f) ==
  LET b == board[j] IN
  IF CanNullMove(f, b.pos)
    THEN Search(j, Append(Below(j), [f EXCEPT !.phase = "null"]), "Simple",
                f.depth - NullMove.depthDec, -f.beta, -f.beta + 1,
                (f.flags \intersect Inherit) \union {"NullMove"},
                [pos |-> NullTo[b.pos], counter |-> b.counter + 1])
    ELSE Continue(j, [f EXCEPT !.phase = "moves", !.left = MovesAt[b.pos]], b)

EnterDraw(j) ==
  /\ At(j, "enter") /\ Top(j).kind # "Quiesce" /\ IsDraw(j, Top(j))
  /\ Return(j, 0, FALSE, board[j])
  /\ UNCHANGED <<comm, tt, pc, jobDepth, counter, falseStores>>

(* A leaf is left to the quiescence search, unless the bounds are mates.    *)
(* The call turns into the one it ends with.                                *)
EnterLeaf(j) ==
  LET f == Top(j) IN
  /\ At(j, "enter") /\ f.kind # "Quiesce" /\ ~IsDraw(j, f) /\ IsLeaf(j, f)
  /\ IF f.alpha >= Threshold THEN Return(j, f.alpha, FALSE, board[j])
     ELSE IF f.beta <= -Threshold THEN Return(j, f.beta, FALSE, board[j])
     ELSE Continue(j, [f EXCEPT !.kind = "Quiesce"], board[j])
  /\ UNCHANGED <<comm, tt, pc, jobDepth, counter, falseStores>>

EnterHit(j) ==
  LET f == Top(j) IN
  /\ At(j, "enter") /\ f.kind # "Quiesce" /\ ~IsDraw(j, f) /\ ~IsLeaf(j, f)
  /\ \E e \in Loads(board[j].pos) :
       /\ CutsOff(j, f, e)
       /\ Return(j, LoadedScore(j, e), FALSE, board[j])
  /\ UNCHANGED <<comm, tt, pc, jobDepth, counter, falseStores>>

(* Without a cutoff: futility pruning, razoring, or on to the moves. *)
EnterNode(j) ==
  LET f == Top(j)
      b == board[j] IN
  /\ At(j, "enter") /\ f.kind # "Quiesce" /\ ~IsDraw(j, f) /\ ~IsLeaf(j, f)
  /\ \E e \in Loads(b.pos) :
       LET g == [f EXCEPT !.hash = HashMove(e)] IN
       /\ ~CutsOff(j, f, e)
       /\ IF Futile(f, b.pos) THEN Return(j, f.beta, FALSE, b)
          ELSE IF Razored(f, b.pos)
            THEN Quiesce(j, Append(Below(j), [g EXCEPT !.phase = "razor"]),
                         Razor(f), Razor(f) + 1, b)
            ELSE Onward(j, g)
  /\ UNCHANGED <<comm, tt, pc, jobDepth, counter, falseStores>>

(* The result of razoring is used without a call of mustStop(). *)
RazorDone(j) ==
  LET f == Top(j) IN
  /\ stack[j] # <<>> /\ ret[j] # NoScore /\ f.phase = "razor"
  /\ IF ret[j].score <= Razor(f)
       THEN Return(j, f.alpha, ret[j].cut, board[j])
       ELSE Onward(j, f)
  /\ UNCHANGED <<comm, tt, pc, jobDepth, counter, falseStores>>

(* quiescenseSearch(): the side to move may stand pat. *)
EnterQuiesce(j) ==
  LET f == Top(j)
      pos == board[j].pos
      alpha == MaxOf(f.alpha, Eval[pos]) IN
  /\ At(j, "enter") /\ f.kind = "Quiesce"
  /\ IF pos \in Insufficient THEN Return(j, 0, FALSE, board[j])
     ELSE IF alpha >= f.beta THEN Return(j, f.beta, FALSE, board[j])
     ELSE Continue(j, [f EXCEPT !.alpha = alpha, !.phase = "moves", !.left =
            {m \in MovesAt[pos] : m.kind \in {"capture", "promote"}}], board[j])
  /\ UNCHANGED <<comm, tt, pc, jobDepth, counter, falseStores>>

-----------------------------------------------------------------------------
(* The loop over the moves *)

(* The moves the picker may return next: the hash move, then captures, then  *)
(* promotions, then the others.  Jobs but the first one shuffle the root.    *)
Candidates(j, f) ==
  LET Of(kind) == {m \in f.left : m.kind = kind} IN
  IF f.kind = "Root" /\ j # FirstJob THEN f.left
  ELSE IF f.hash \in f.left THEN {f.hash}
  ELSE IF Of("capture") # {} THEN Of("capture")
  ELSE IF Of("promote") # {} THEN Of("promote") ELSE f.left

MakeMove(b, m) ==
  [pos |-> m.to, counter |-> IF m.kind = "quiet" THEN b.counter + 1 ELSE 0]

(* isMoveCapture(board, move): the destination is occupied.  The code asks   *)
(* this of the board after the move, where the piece that moved stands there *)
IsMoveCapture(m, made) == made \/ m.kind = "capture"

(* The flags handed to the calls below the move f.move. *)
NewFlags(f) ==
  (f.flags \intersect Inherit) \union
    (IF IsMoveCapture(f.move, TRUE) THEN {"Capture"} ELSE {})

(* A pseudo-legal move that leaves the king in check is taken back at once. *)
SkipIllegal(j) ==
  LET f == Top(j) IN
  /\ At(j, "moves")
  /\ \E m \in Candidates(j, f) :
       ~m.legal /\ Continue(j, [f EXCEPT !.left = @ \ {m}], board[j])
  /\ UNCHANGED <<comm, tt, pc, jobDepth, counter, falseStores>>

(* The search of f.move, made on b already, with the full window. *)
FullSearch(j, f, b) ==
  Search(j, Append(Below(j), [f EXCEPT !.phase = "full"]),
         IF IsPv(f) THEN "Pv" ELSE "Simple", f.depth - 1, -f.beta, -f.alpha,
         NewFlags(f), b)

(* Whether the move m comes from the history stage: killers come before it.  *)
Lateness(f, m) ==
  IF m.kind \in {"capture", "promote"} \/ m = f.hash \/ f.kind = "Root" THEN {FALSE}
  ELSE IF f.quiets = 0 THEN BOOLEAN ELSE {TRUE}

(* The late move reduction; "late" says that the move comes from the history *)
(* stage: it is neither the hash move nor a killer.                          *)
Reducible(f, late) ==
  /\ f.kind # "Root" /\ f.hasMove /\ ~IsPv(f)
  /\ f.depth >= LateMove.minDepth
  /\ late /\ f.quiets + 1 > LateMove.movesNoReduce
  /\ f.move.to \notin Checked

TryMove(j) ==
  LET f == Top(j) IN
  /\ At(j, "moves") /\ f.kind # "Quiesce"
  /\ \E m \in Candidates(j, f) : \E late \in Lateness(f, m) :
       LET g == [f EXCEPT !.left = @ \ {m}, !.move = m]
           n == [g EXCEPT !.hasMove = TRUE, !.quiets = IF late THEN @ + 1 ELSE @]
           b == MakeMove(board[j], m)
       IN
       /\ m.legal
       /\ IF Reducible(g, late)
            THEN Search(j, Append(Below(j), [n EXCEPT !.phase = "late"]), "Simple",
                        f.depth - 1 - LateMove.reduceDepth, -f.alpha - 1, -f.alpha,
                        NewFlags(g) \union {"LateMoveReduction"}, b)
          ELSE IF IsPv(f) /\ f.hasMove
            THEN Search(j, Append(Below(j), [n EXCEPT !.phase = "zero"]), "Simple",
                        f.depth - 1, -f.alpha - 1, -f.alpha, NewFlags(g), b)
          ELSE FullSearch(j, n, b)
  /\ UNCHANGED <<comm, tt, pc, jobDepth, counter, falseStores>>

TryCapture(j) ==
  LET f == Top(j) IN
  /\ At(j, "moves") /\ f.kind = "Quiesce"
  /\ \E m \in Candidates(j, f) :
       /\ m.legal
       /\ Quiesce(j, Append(Below(j), [f EXCEPT !.left = @ \ {m}, !.move = m,
                                       !.phase = "full"]),
                  -f.beta, -f.alpha, MakeMove(board[j], m))
  /\ UNCHANGED <<comm, tt, pc, jobDepth, counter, falseStores>>

-----------------------------------------------------------------------------
(* After a recursive call *)

Searching == {"null", "late", "zero", "full"}

Resumes(j) == stack[j] # <<>> /\ ret[j] # NoScore /\ Top(j).phase \in Searching

(* mustStop(): the guard takes the move back and the call returns 0. *)
CutShort(j) ==
  /\ Resumes(j)
  /\ MustStop(j, TRUE)
  /\ Return(j, 0, TRUE, Top(j).from)
  /\ UNCHANGED <<commDepth, tt, pc, jobDepth, falseStores>>

(* The end of the loop body with the score of f.move: f.from is the board    *)
(* with the move taken back.                                                 *)
Accept(j, f, score) ==
  LET better == score > f.alpha
      g == [f EXCEPT !.alpha = MaxOf(@, score), !.phase = "moves",
                     !.best = IF better /\ f.kind # "Quiesce" THEN f.move ELSE @]
  IN IF g.alpha >= f.beta
       THEN /\ Return(j, f.beta, f.misled, f.from)
            /\ IF f.kind = "Quiesce" THEN UNCHANGED <<tt, falseStores>>
               ELSE TtStore(j, g, f.beta)
       ELSE /\ Continue(j, g, f.from)
            /\ UNCHANGED <<tt, falseStores>>

(* The call on top, which now knows the result of the call it made. *)
Informed(j) == [Top(j) EXCEPT !.misled = @ \/ ret[j].cut]

(* A null move that fails high reduces the depth. *)
NullDone(j) ==
  LET f == Informed(j)
      g == IF -ret[j].score >= f.beta
             THEN [f EXCEPT !.depth = @ - NullMove.reductionDec,
                            !.flags = @ \union {"NullMoveReduction"}]
             ELSE f
  IN Continue(j, [g EXCEPT !.phase = "moves", !.left = MovesAt[f.from.pos]], f.from)

LateDone(j) ==
  LET f == Informed(j) IN
  IF -ret[j].score <= f.alpha THEN Continue(j, [f EXCEPT !.phase = "moves"], f.from)
  ELSE FullSearch(j, f, board[j])

(* After the search with a zero window only the fact that alpha has improved *)
(* is known; a better move is searched again.                                *)
ZeroDone(j) ==
  LET f == Informed(j)
      score == IF -ret[j].score <= f.alpha THEN f.alpha ELSE f.alpha + 1
  IN IF f.alpha < score /\ (f.kind = "Root" \/ score < f.beta)
       THEN FullSearch(j, f, board[j]) /\ UNCHANGED <<tt, falseStores>>
       ELSE Accept(j, f, score)

Resume(j) ==
  /\ Resumes(j)
  /\ MustStop(j, FALSE)
  /\ CASE Top(j).phase = "null" -> NullDone(j) /\ UNCHANGED <<tt, falseStores>>
       [] Top(j).phase = "late" -> LateDone(j) /\ UNCHANGED <<tt, falseStores>>
       [] Top(j).phase = "zero" -> ZeroDone(j)
       [] Top(j).phase = "full" -> Accept(j, Informed(j), -ret[j].score)
  /\ UNCHANGED <<commDepth, pc, jobDepth>>

(* No move is left: quiescence is over, or mate, or stalemate, or the end of *)
(* the search of this position.                                              *)
NoMoreMoves(j) ==
  LET f == Top(j)
      b == board[j] IN
  /\ At(j, "moves") /\ f.left = {}
  /\ IF f.kind = "Quiesce"
       THEN Return(j, f.alpha, f.misled, b) /\ UNCHANGED <<tt, falseStores>>
     ELSE IF ~f.hasMove
       THEN /\ Return(j, IF b.pos \in Checked THEN Idepth(j) - Checkmate ELSE 0,
                      f.misled, b)
            /\ UNCHANGED <<tt, falseStores>>
     ELSE Return(j, f.alpha, f.misled, b) /\ TtStore(j, f, f.alpha)
  /\ UNCHANGED <<comm, pc, jobDepth, counter>>

-----------------------------------------------------------------------------
(* Searcher::run() and Job::run() *)

(* The next depth begins with a call of search<Root>. *)
Begin(j) ==
  /\ pc[j] = "deepen" /\ jobDepth[j] <= MaxDepth
  /\ pc' = [pc EXCEPT ![j] = "search"]
  /\ falseStores' = [falseStores EXCEPT ![j] = 0]
  /\ Search(j, <<>>, "Root", jobDepth[j], -Inf, Inf, {}, board[j])
  /\ UNCHANGED <<comm, tt, jobDepth, counter>>

(* search<Root> has returned: a stopped job ends, and the first job to finish *)
(* the depth moves all jobs on to the next one.                               *)
Finish(j) ==
  /\ pc[j] = "search" /\ stack[j] = <<>>
  /\ pc' = [pc EXCEPT ![j] = IF stopped THEN "done" ELSE "deepen"]
  /\ commDepth' = IF ~stopped /\ commDepth = jobDepth[j] THEN commDepth + 1 ELSE commDepth
  /\ jobDepth' = IF stopped THEN jobDepth ELSE [jobDepth EXCEPT ![j] = @ + 1]
  /\ ret' = [ret EXCEPT ![j] = NoScore]
  /\ UNCHANGED <<stopped, tt, board, repetitions, stack, counter, falseStores>>

(* After the last depth the job stops the search. *)
EndSearch(j) ==
  /\ pc[j] = "deepen" /\ jobDepth[j] > MaxDepth
  /\ pc' = [pc EXCEPT ![j] = "done"]
  /\ stopped' = TRUE
  /\ UNCHANGED <<commDepth, tt, jobDepth, local, counter, falseStores>>

(* stop() by the main loop or by the client. *)
Stop ==
  /\ ~stopped
  /\ stopped' = TRUE
  /\ UNCHANGED <<commDepth, tt, pc, jobDepth, local, counter, falseStores>>

Init ==
  /\ stopped = FALSE /\ commDepth = 1
  /\ tt = OldEntries
  /\ pc = [j \in Jobs |-> "deepen"]
  /\ jobDepth = [j \in Jobs |-> 1]
  /\ board = [j \in Jobs |-> [pos |-> Root, counter |-> RootCounter]]
  /\ repetitions = [j \in Jobs |-> Repeated]
  /\ stack = [j \in Jobs |-> <<>>]
  /\ ret = [j \in Jobs |-> NoScore]
  /\ counter = [j \in Jobs |-> 0]
  /\ falseStores = [j \in Jobs |-> 0]

Step(j) ==
  \/ Begin(j) \/ EnterDraw(j) \/ EnterLeaf(j) \/ EnterHit(j) \/ EnterNode(j)
  \/ RazorDone(j) \/ EnterQuiesce(j) \/ SkipIllegal(j) \/ TryMove(j)
  \/ TryCapture(j) \/ CutShort(j) \/ Resume(j) \/ NoMoreMoves(j) \/ Finish(j)
  \/ EndSearch(j)

Done == (\A j \in Jobs : pc[j] = "done") /\ UNCHANGED vars

Next == (\E j \in Jobs : Step(j)) \/ Stop \/ Done

Spec == Init /\ [][Next]_vars

-----------------------------------------------------------------------------
(* Properties *)

TypeOK ==
  /\ stopped \in BOOLEAN /\ commDepth \in 1..(MaxDepth + 1)
  /\ tt \in [Positions -> Entry \union {NoEntry}]
  /\ pc \in [Jobs -> {"deepen", "search", "done"}]
  /\ jobDepth \in [Jobs -> 1..(MaxDepth + 1)]
  /\ board \in [Jobs -> Board]
  /\ repetitions \in [Jobs -> SUBSET Positions]
  /\ stack \in [Jobs -> Seq(Frame)]
  /\ ret \in [Jobs -> [score : Int, cut : BOOLEAN] \union {NoScore}]
  /\ counter \in [Jobs -> 0..(CheckPeriod - 1)]
  /\ falseStores \in [Jobs -> Nat]

(* The positions of the calls made by search(). *)
Entered(j) == {stack[j][i].from.pos : i \in {k \in 1..Len(stack[j]) : stack[j][k].keyed}}

(* However a search ends, at whatever node it is cut, the job's board is the *)
(* root position again and its repetition table is what Job::run made of the *)
(* game; in the middle of a search the table holds the line to the current   *)
(* position besides, each position of it once (search(), MoveMakeGuard).     *)
SearchLeavesNoTrace ==
  \A j \in Jobs :
    /\ repetitions[j] = Repeated \union Entered(j)
    /\ Repeated \intersect Entered(j) = {}
    /\ stack[j] = <<>> => board[j] = [pos |-> Root, counter |-> RootCounter]

(* The positions from which the side to move mates, or is mated, within n    *)
(* plies, by the rules alone.                                                *)
Legal(p) == {m \in MovesAt[p] : m.legal}
Fate[n \in Nat] ==
  IF n = 0
    THEN [win |-> {}, lose |-> {p \in Checked : Legal(p) = {}}]
    ELSE LET before == Fate[n - 1] IN
         [win |-> {p \in Positions : \E m \in Legal(p) : m.to \in before.lose},
          lose |-> before.lose \union
            {p \in Positions : Legal(p) # {} /\ \A m \in Legal(p) : m.to \in before.win}]

(* An entry that claims a mate tells the truth: there is a forced mate in at *)
(* most that many plies.  No pruning, reduction, draw by repetition, cut or  *)
(* entry of another job ever makes a mate up (doSearch(), ttStore).          *)
MateClaimsHold ==
  \A p \in Positions :
    LET e == tt[p] IN
    e # NoEntry =>
      /\ e.score >= Threshold /\ e.bound # "Upperbound" =>
           e.score <= Checkmate /\ p \in Fate[Checkmate - e.score].win
      /\ e.score <= -Threshold /\ e.bound # "Lowerbound" =>
           -e.score <= Checkmate /\ p \in Fate[Checkmate + e.score].lose

(* Who finishes a depth first has searched it to the end: no call below used *)
(* the result of a call that was cut, although mustStop() does not always    *)
(* look at the depth (Job::run, mustStop()).                                 *)
WinnersWereNotCut ==
  \A j \in Jobs :
    pc[j] = "search" /\ stack[j] = <<>> /\ ~stopped /\ commDepth = jobDepth[j] =>
      ~ret[j].cut

(* A job that is cut by the depth stores at most one entry that rests on a   *)
(* search cut short, provided CheckPeriod is longer than the stack is deep   *)
(* (mustStop() skips the check of the depth once in CheckPeriod calls).      *)
FalseEntriesAreFew == \A j \in Jobs : falseStores[j] <= 1

(* The null move is never tried: each call that might try it is below a move *)
(* and has the flag of a capture, which forbids it (doSearch(): canNullMove, *)
(* isCapture).                                                               *)
NullMoveIsNeverTried ==
  \A j \in Jobs : \A i \in 1..Len(stack[j]) : stack[j][i].phase # "null"

(* Flags::Capture says "The last move was capture".                          *)
CaptureFlagIsTrue ==
  \A j \in Jobs : \A i \in 2..Len(stack[j]) :
    "Capture" \in stack[j][i].flags => stack[j][i - 1].move.kind = "capture"
=============================================================================
