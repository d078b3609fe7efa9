-------------------------- MODULE SearchTreeProofs --------------------------
(***************************************************************************)
(* Proofs about SearchTree, for every game, every number of jobs and every *)
(* period of the clock: its type invariant, that the job which finishes a  *)
(* depth first was never cut, that the null move is never tried, that a    *)
(* search leaves the board and the repetition table as it found them, and  *)
(* that no mate in the transposition table is made up.                     *)
(*                                                                         *)
(* A job is dirty when its search may have been cut: the search is stopped *)
(* or another job has moved on to a further depth.  The frames and results *)
(* of a job that is not dirty have never used the result of a call cut     *)
(* short.  One lemma per action shows this with the types, and another one *)
(* that the calls of a job stand in a line from the root: no two of them   *)
(* have entered the same position, and each relies on its own board.  A    *)
(* third one shows that the call on top and the table claim no mate that   *)
(* the rules of the game do not grant, where a claim is a score with the   *)
(* bound it is and the ply it is seen from.                                *)
(***************************************************************************)
EXTENDS SearchTree, SequenceTheorems, OrderFacts, TLAPS

Result == [score : Int, cut : BOOLEAN]

(* Simple calls are made below a move, whose flag is always Capture. *)
FrameSet(dirty) ==
  {f \in Frame : /\ f.misled => dirty
                 /\ f.kind = "Simple" => "Capture" \in f.flags
                 /\ f.phase = "razor" => f.kind = "Simple"
                 /\ f.phase # "null"}

ResultSet(dirty) == {r \in Result : r.cut => dirty}

Dirty(j) == stopped \/ commDepth # jobDepth[j]

LocalInv(j, dirty) ==
  /\ stack[j] \in Seq(FrameSet(dirty))
  /\ ret[j] \in ResultSet(dirty) \union {NoScore}

PcInv(j) ==
  /\ jobDepth[j] <= commDepth
  /\ pc[j] = "search" => jobDepth[j] <= MaxDepth
  /\ pc[j] = "search" /\ stack[j] = <<>> => ret[j] # NoScore
  /\ pc[j] # "search" => stack[j] = <<>> /\ ret[j] = NoScore

IInv == TypeOK /\ \A j \in Jobs : LocalInv(j, Dirty(j)) /\ PcInv(j)

(* What a step of job j may do to its own variables. *)
LocalStep(j, dirty) ==
  /\ \E k \in Seq(FrameSet(dirty)) : stack' = [stack EXCEPT ![j] = k]
  /\ \E r \in ResultSet(dirty) \union {NoScore} : ret' = [ret EXCEPT ![j] = r]
  /\ \E b \in Board : board' = [board EXCEPT ![j] = b]
  /\ \E p \in SUBSET Positions : repetitions' = [repetitions EXCEPT ![j] = p]
  /\ stack'[j] = <<>> => ret'[j] # NoScore

-----------------------------------------------------------------------------
(* Sequences of frames *)

LEMMA Frames ==
  ASSUME NEW d \in BOOLEAN, NEW j \in Jobs, stack[j] \in Seq(FrameSet(d)), stack[j] # <<>>
  PROVE  Top(j) \in FrameSet(d) /\ Below(j) \in Seq(FrameSet(d))
BY DEF Top, Below

LEMMA Pushed ==
  ASSUME NEW S, NEW s \in Seq(S), NEW x \in S
  PROVE  Append(s, x) \in Seq(S) /\ Append(s, x) # <<>>
BY SMTT(30)

LEMMA Weaker ==
  ASSUME NEW d \in BOOLEAN
  PROVE  FrameSet(d) \subseteq FrameSet(TRUE) /\ Seq(FrameSet(d)) \subseteq Seq(FrameSet(TRUE))
<1>1. FrameSet(d) \subseteq FrameSet(TRUE)
  BY DEF FrameSet
<1>2. ASSUME NEW s \in Seq(FrameSet(d)) PROVE s \in Seq(FrameSet(TRUE))
  BY <1>1, SeqMonotonic
<1> QED
  BY <1>1, <1>2

(* A frame and its fields. *)
LEMMA FrameFields ==
  ASSUME NEW d \in BOOLEAN, NEW f \in FrameSet(d)
  PROVE  /\ f \in Frame
         /\ f.kind \in Kind /\ f.depth \in Int /\ f.alpha \in Int /\ f.beta \in Int
         /\ f.origAlpha \in Int
         /\ f.flags \in SUBSET Flag /\ f.left \in SUBSET Move /\ f.quiets \in Nat
         /\ f.hash \in Move \union {NoMove} /\ f.best \in Move \union {NoMove}
         /\ f.move \in Move \union {NoMove} /\ f.from \in Board
         /\ f.misled \in BOOLEAN /\ (f.misled => d)
BY DEF FrameSet, Frame

LEMMA CallTyped ==
  ASSUME NEW d \in BOOLEAN, NEW kind \in Kind, NEW depth \in Int, NEW alpha \in Int,
         NEW beta \in Int, NEW flags \in SUBSET Flag, NEW keyed \in BOOLEAN, NEW b \in Board,
         kind = "Simple" => "Capture" \in flags
  PROVE  Call(kind, depth, alpha, beta, flags, keyed, b) \in FrameSet(d)
BY DEF Call, FrameSet, Frame

-----------------------------------------------------------------------------
(* Calls and returns *)

LEMMA SearchStep ==
  ASSUME TypeOK, NEW j \in Jobs, NEW d \in BOOLEAN, NEW stk \in Seq(FrameSet(d)),
         NEW kind \in Kind, NEW depth \in Int, NEW alpha \in Int, NEW beta \in Int,
         NEW flags \in SUBSET Flag, NEW b \in Board,
         kind = "Simple" => "Capture" \in flags,
         Search(j, stk, kind, depth, alpha, beta, flags, b)
  PROVE  LocalStep(j, d)
<1>1. b.pos \in Positions
  BY DEF Board
<1>2. CASE b.pos \in repetitions[j]
  <2>1. [score |-> 0, cut |-> FALSE] \in ResultSet(d)
    BY DEF ResultSet, Result
  <2>2. [score |-> 0, cut |-> FALSE] # NoScore
    BY <2>1, NoneAssumption DEF ResultSet, Result
  <2>3. repetitions' = [repetitions EXCEPT ![j] = repetitions[j]]
    BY <1>2 DEF Search, TypeOK
  <2> QED
    BY <1>2, <2>1, <2>2, <2>3 DEF Search, LocalStep, TypeOK
<1>3. CASE b.pos \notin repetitions[j]
  <2> DEFINE k == Append(stk, Call(kind, depth, alpha, beta, flags, TRUE, b))
  <2>1. k \in Seq(FrameSet(d)) /\ k # <<>>
    BY CallTyped, Pushed
  <2>2. stack' = [stack EXCEPT ![j] = k] /\ stack'[j] = k
    BY <1>3 DEF Search, TypeOK
  <2>3. repetitions[j] \union {b.pos} \in SUBSET Positions
    BY <1>1 DEF TypeOK
  <2> HIDE DEF k
  <2> QED
    BY <1>3, <2>1, <2>2, <2>3 DEF Search, LocalStep
<1> QED
  BY <1>2, <1>3

LEMMA QuiesceStep ==
  ASSUME TypeOK, NEW j \in Jobs, NEW d \in BOOLEAN, NEW stk \in Seq(FrameSet(d)),
         NEW alpha \in Int, NEW beta \in Int, NEW b \in Board,
         Quiesce(j, stk, alpha, beta, b)
  PROVE  LocalStep(j, d)
<1> DEFINE k == Append(stk, Call("Quiesce", 0, alpha, beta, {}, FALSE, b))
<1>1. k \in Seq(FrameSet(d)) /\ k # <<>>
  <2>1. Call("Quiesce", 0, alpha, beta, {}, FALSE, b) \in FrameSet(d)
    <3>1. "Quiesce" \in Kind /\ "Quiesce" # "Simple" /\ {} \in SUBSET Flag
      BY DEF Kind
    <3> QED
      BY <3>1 DEF Call, FrameSet, Frame
  <2> QED
    BY <2>1, Pushed
<1>2. stack' = [stack EXCEPT ![j] = k] /\ stack'[j] = k
  BY DEF Quiesce, TypeOK
<1>3. repetitions' = [repetitions EXCEPT ![j] = repetitions[j]] /\ repetitions[j] \in SUBSET Positions
  BY DEF Quiesce, TypeOK
<1> HIDE DEF k
<1> QED
  BY <1>1, <1>2, <1>3 DEF Quiesce, LocalStep

LEMMA ReturnStep ==
  ASSUME TypeOK, NEW j \in Jobs, NEW d \in BOOLEAN, stack[j] \in Seq(FrameSet(d)),
         stack[j] # <<>>, NEW score \in Int, NEW cut \in BOOLEAN, cut => d, NEW b \in Board,
         Return(j, score, cut, b)
  PROVE  LocalStep(j, d)
<1>1. Below(j) \in Seq(FrameSet(d))
  BY Frames
<1>2. [score |-> score, cut |-> cut] \in ResultSet(d) /\ [score |-> score, cut |-> cut] # NoScore
  BY NoneAssumption DEF ResultSet, Result
<1>3. \E p \in SUBSET Positions : repetitions' = [repetitions EXCEPT ![j] = p]
  <2>1. repetitions = [repetitions EXCEPT ![j] = repetitions[j]] /\ repetitions[j] \in SUBSET Positions
    BY DEF TypeOK
  <2>2. repetitions[j] \ {b.pos} \in SUBSET Positions
    BY <2>1
  <2> QED
    BY <2>1, <2>2 DEF Return
<1>4. ret'[j] = [score |-> score, cut |-> cut]
  BY DEF Return, TypeOK
<1> QED
  BY <1>1, <1>2, <1>3, <1>4 DEF Return, LocalStep

LEMMA ContinueStep ==
  ASSUME TypeOK, NEW j \in Jobs, NEW d \in BOOLEAN, stack[j] \in Seq(FrameSet(d)),
         stack[j] # <<>>, NEW f \in FrameSet(d), NEW b \in Board, Continue(j, f, b)
  PROVE  LocalStep(j, d)
<1> DEFINE k == Append(Below(j), f)
<1>1. k \in Seq(FrameSet(d)) /\ k # <<>>
  BY Frames, Pushed
<1>2. stack' = [stack EXCEPT ![j] = k] /\ stack'[j] = k
  BY DEF Continue, TypeOK
<1>3. repetitions' = [repetitions EXCEPT ![j] = repetitions[j]] /\ repetitions[j] \in SUBSET Positions
  BY DEF Continue, TypeOK
<1> HIDE DEF k
<1> QED
  BY <1>1, <1>2, <1>3 DEF Continue, LocalStep

-----------------------------------------------------------------------------
(* What the actions other than CutShort do to the variables of their job *)

LEMMA ScoresTyped ==
  ASSUME NEW score \in Int, NEW delta \in Int
  PROVE  AdjustCheckmate(score, delta) \in Int
BY ScoreAssumption DEF AdjustCheckmate

LEMMA MaxTyped ==
  ASSUME NEW a \in Int, NEW b \in Int
  PROVE  MaxOf(a, b) \in Int
BY DEF MaxOf

(* Everything a step may assume of its job. *)
LEMMA TopTyped ==
  ASSUME TypeOK, NEW j \in Jobs, NEW d \in BOOLEAN, LocalInv(j, d), stack[j] # <<>>
  PROVE  /\ Top(j) \in FrameSet(d) /\ Below(j) \in Seq(FrameSet(d))
         /\ board[j] \in Board /\ board[j].pos \in Positions /\ board[j].counter \in Nat
         /\ Idepth(j) \in Int
         /\ ret[j] # NoScore => /\ ret[j].score \in Int /\ ret[j].cut \in BOOLEAN
                                /\ ret[j].cut => d
<1>1. board[j] \in Board /\ board[j].pos \in Positions /\ board[j].counter \in Nat
  BY DEF TypeOK, Board
<1>2. Idepth(j) \in Int
  BY DEF LocalInv, Idepth
<1>3. ret[j] # NoScore => /\ ret[j].score \in Int /\ ret[j].cut \in BOOLEAN
                          /\ ret[j].cut => d
  BY DEF LocalInv, ResultSet, Result
<1> QED
  BY <1>1, <1>2, <1>3, Frames DEF LocalInv

LEMMA OnwardStep ==
  ASSUME TypeOK, NEW j \in Jobs, NEW d \in BOOLEAN, LocalInv(j, d), stack[j] # <<>>,
         NEW f \in FrameSet(d), f.kind # "Quiesce", Onward(j, f)
  PROVE  LocalStep(j, d)
<1> DEFINE g == [f EXCEPT !.phase = "moves", !.left = MovesAt[board[j].pos]]
<1>1. ~CanNullMove(f, board[j].pos)
  <2>1. IsPv(f) \/ "Capture" \in f.flags
    BY DEF FrameSet, Frame, Kind, IsPv
  <2> QED
    BY <2>1 DEF CanNullMove, MayPrune, NullMoveDisable
<1>2. board[j] \in Board /\ MovesAt[board[j].pos] \in SUBSET Move
  BY TopTyped, GameAssumption
<1>3. g \in FrameSet(d)
  BY <1>2, ZenonT(60) DEF FrameSet, Frame
<1>4. Continue(j, g, board[j])
  BY <1>1 DEF Onward
<1> HIDE DEF g
<1> QED
  BY <1>2, <1>3, <1>4, ContinueStep DEF LocalInv

LEMMA EnterStep ==
  ASSUME TypeOK, NEW j \in Jobs, NEW d \in BOOLEAN, LocalInv(j, d),
         EnterDraw(j) \/ EnterLeaf(j) \/ EnterHit(j)
  PROVE  LocalStep(j, d)
<1>1. stack[j] # <<>>
  BY DEF EnterDraw, EnterLeaf, EnterHit, At
<1>2. /\ Top(j) \in FrameSet(d) /\ board[j] \in Board /\ Idepth(j) \in Int
      /\ stack[j] \in Seq(FrameSet(d))
  BY <1>1, TopTyped DEF LocalInv
<1>3. CASE EnterDraw(j)
  <2>1. PICK score \in Int : score = 0
    OBVIOUS
  <2>2. Return(j, score, FALSE, board[j])
    BY <1>3, <2>1 DEF EnterDraw
  <2> QED
    BY <1>1, <1>2, <2>2, ReturnStep
<1>4. CASE EnterLeaf(j)
  <2>1. Top(j).alpha \in Int /\ Top(j).beta \in Int
    BY <1>2, FrameFields
  <2>2. CASE Return(j, Top(j).alpha, FALSE, board[j])
    BY <1>1, <1>2, <2>1, <2>2, ReturnStep
  <2>4. CASE Return(j, Top(j).beta, FALSE, board[j])
    BY <1>1, <1>2, <2>1, <2>4, ReturnStep
  <2>3. CASE Continue(j, [Top(j) EXCEPT !.kind = "Quiesce"], board[j])
    <3>1. [Top(j) EXCEPT !.kind = "Quiesce"] \in FrameSet(d)
      BY <1>2, <1>4 DEF EnterLeaf, At, FrameSet, Frame, Kind
    <3> QED
      BY <1>1, <1>2, <2>3, <3>1, ContinueStep
  <2> QED
    BY <1>4, <2>2, <2>3, <2>4 DEF EnterLeaf
<1>5. CASE EnterHit(j)
  <2>1. PICK e \in Loads(board[j].pos) :
          CutsOff(j, Top(j), e) /\ Return(j, LoadedScore(j, e), FALSE, board[j])
    BY <1>5 DEF EnterHit
  <2>2. e \in Entry
    BY <1>2, <2>1 DEF CutsOff, Loads, TypeOK, Board
  <2>3. LoadedScore(j, e) \in Int
    BY <1>2, <2>2, ScoresTyped DEF LoadedScore, Entry
  <2> QED
    BY <1>1, <1>2, <2>1, <2>3, ReturnStep
<1> QED
  BY <1>3, <1>4, <1>5

(* The threshold of razoring is a number where razoring is considered. *)
LEMMA RazorTyped ==
  ASSUME NEW d \in BOOLEAN, NEW f \in FrameSet(d), f.depth > 0, f.depth <= Razoring.maxDepth
  PROVE  Razor(f) \in Int
<1>1. f.depth \in 0..Razoring.maxDepth /\ f.alpha \in Int
  BY FrameFields, ConstsAssumption
<1>2. Razoring.margins[f.depth] \in Nat
  BY <1>1, ConstsAssumption
<1> QED
  BY <1>1, <1>2 DEF Razor

LEMMA EnterNodeStep ==
  ASSUME TypeOK, NEW j \in Jobs, NEW d \in BOOLEAN, LocalInv(j, d), EnterNode(j)
  PROVE  LocalStep(j, d)
<1> DEFINE b == board[j]
<1>1. stack[j] # <<>> /\ Top(j).kind # "Quiesce" /\ Top(j).phase = "enter"
  BY DEF EnterNode, At
<1>2. /\ Top(j) \in FrameSet(d) /\ Below(j) \in Seq(FrameSet(d)) /\ b \in Board
      /\ stack[j] \in Seq(FrameSet(d))
  BY <1>1, TopTyped DEF LocalInv
<1>3. PICK e \in Loads(b.pos) :
        LET g == [Top(j) EXCEPT !.hash = HashMove(e)] IN
        IF Futile(Top(j), b.pos) THEN Return(j, Top(j).beta, FALSE, b)
        ELSE IF Razored(Top(j), b.pos)
          THEN Quiesce(j, Append(Below(j), [g EXCEPT !.phase = "razor"]),
                       Razor(Top(j)), Razor(Top(j)) + 1, b)
          ELSE Onward(j, g)
  BY DEF EnterNode
<1> DEFINE g == [Top(j) EXCEPT !.hash = HashMove(e)]
<1>4. HashMove(e) \in Move \union {NoMove}
  BY <1>2 DEF HashMove, Loads, TypeOK, Board, Entry
<1>5. g \in FrameSet(d) /\ g.kind # "Quiesce"
  BY <1>1, <1>2, <1>4 DEF FrameSet, Frame
<1>6. CASE Return(j, Top(j).beta, FALSE, b)
  BY <1>1, <1>2, <1>6, FrameFields, ReturnStep
<1>7. CASE Razored(Top(j), b.pos) /\ Quiesce(j, Append(Below(j), [g EXCEPT !.phase = "razor"]),
                                             Razor(Top(j)), Razor(Top(j)) + 1, b)
  <2> DEFINE h == [g EXCEPT !.phase = "razor"]
  <2>1. Top(j).kind = "Simple" /\ Top(j).depth <= Razoring.maxDepth
    BY <1>1, <1>2, <1>7 DEF Razored, MayPrune, IsPv, FrameSet, Frame, Kind
  <2>2. Top(j).depth > 0
    BY <1>2, FrameFields DEF EnterNode, IsLeaf
  <2>3. Razor(Top(j)) \in Int
    BY <1>2, <2>1, <2>2, RazorTyped
  <2>4. h \in FrameSet(d)
    BY <1>5, <2>1 DEF FrameSet, Frame
  <2>6. Quiesce(j, Append(Below(j), h), Razor(Top(j)), Razor(Top(j)) + 1, b)
    BY <1>7
  <2> HIDE DEF h, g
  <2>5. Append(Below(j), h) \in Seq(FrameSet(d))
    BY <1>2, <2>4, Pushed
  <2>7. Razor(Top(j)) + 1 \in Int
    BY <2>3
  <2> QED
    BY <1>2, <2>3, <2>5, <2>6, <2>7, QuiesceStep
<1>8. CASE Onward(j, g)
  <2> HIDE DEF g
  <2> QED
    BY <1>1, <1>5, <1>8, OnwardStep
<1> QED
  BY <1>3, <1>6, <1>7, <1>8

LEMMA RazorDoneStep ==
  ASSUME TypeOK, NEW j \in Jobs, NEW d \in BOOLEAN, LocalInv(j, d), RazorDone(j)
  PROVE  LocalStep(j, d)
<1>1. stack[j] # <<>> /\ ret[j] # NoScore /\ Top(j).phase = "razor"
  BY DEF RazorDone
<1>2. /\ Top(j) \in FrameSet(d) /\ board[j] \in Board /\ ret[j].cut \in BOOLEAN
      /\ (ret[j].cut => d) /\ stack[j] \in Seq(FrameSet(d))
  BY <1>1, TopTyped DEF LocalInv
<1>3. Top(j).alpha \in Int /\ Top(j).kind = "Simple"
  BY <1>1, <1>2 DEF FrameSet, Frame
<1>4. CASE Return(j, Top(j).alpha, ret[j].cut, board[j])
  BY <1>1, <1>2, <1>3, <1>4, ReturnStep
<1>5. CASE Onward(j, Top(j))
  BY <1>1, <1>2, <1>3, <1>5, OnwardStep
<1> QED
  BY <1>4, <1>5 DEF RazorDone

LEMMA EnterQuiesceStep ==
  ASSUME TypeOK, NEW j \in Jobs, NEW d \in BOOLEAN, LocalInv(j, d), EnterQuiesce(j)
  PROVE  LocalStep(j, d)
<1> DEFINE f == Top(j)
           pos == board[j].pos
           alpha == MaxOf(f.alpha, Eval[pos])
           g == [f EXCEPT !.alpha = alpha, !.phase = "moves", !.left =
                   {m \in MovesAt[pos] : m.kind \in {"capture", "promote"}}]
<1>1. stack[j] # <<>> /\ f.kind = "Quiesce"
  BY DEF EnterQuiesce, At
<1>2. /\ f \in FrameSet(d) /\ board[j] \in Board /\ pos \in Positions
      /\ stack[j] \in Seq(FrameSet(d))
  BY <1>1, TopTyped DEF LocalInv
<1>3. alpha \in Int /\ f.beta \in Int
  <2>1. f.alpha \in Int /\ f.beta \in Int
    BY <1>2, FrameFields
  <2>2. Eval[pos] \in Int
    BY <1>2, ScoreAssumption
  <2> QED
    BY <2>1, <2>2, MaxTyped
<1>4. MovesAt[pos] \in SUBSET Move
  BY <1>2, GameAssumption
<1>5. g \in FrameSet(d)
  <2> HIDE DEF alpha
  <2> QED
    BY <1>2, <1>3, <1>4 DEF FrameSet, Frame
<1>6. CASE Return(j, 0, FALSE, board[j])
  <2>1. PICK score \in Int : score = 0
    OBVIOUS
  <2>2. Return(j, score, FALSE, board[j])
    BY <1>6, <2>1
  <2> QED
    BY <1>1, <1>2, <2>2, ReturnStep
<1>8. CASE Return(j, f.beta, FALSE, board[j])
  BY <1>1, <1>2, <1>3, <1>8, ReturnStep
<1>7. CASE Continue(j, g, board[j])
  <2> HIDE DEF g
  <2> QED
    BY <1>1, <1>2, <1>5, <1>7, ContinueStep
<1> QED
  BY <1>6, <1>7, <1>8 DEF EnterQuiesce

(* The moves the picker returns are moves of the call. *)
LEMMA CandidatesAreMoves ==
  ASSUME NEW j \in Jobs, NEW d \in BOOLEAN, NEW f \in FrameSet(d), NEW m \in Candidates(j, f)
  PROVE  m \in Move
BY FrameFields DEF Candidates

LEMMA MadeIsBoard ==
  ASSUME NEW b \in Board, NEW m \in Move
  PROVE  MakeMove(b, m) \in Board
BY DEF MakeMove, Board, Move

(* A move made has the flag of a capture, whatever it is. *)
LEMMA NewFlagsTyped ==
  ASSUME NEW f
  PROVE  NewFlags(f) \in SUBSET Flag /\ "Capture" \in NewFlags(f)
BY DEF NewFlags, IsMoveCapture, Inherit, Flag

LEMMA SkipIllegalStep ==
  ASSUME TypeOK, NEW j \in Jobs, NEW d \in BOOLEAN, LocalInv(j, d), SkipIllegal(j)
  PROVE  LocalStep(j, d)
<1>1. stack[j] # <<>>
  BY DEF SkipIllegal, At
<1>2. Top(j) \in FrameSet(d) /\ board[j] \in Board /\ stack[j] \in Seq(FrameSet(d))
  BY <1>1, TopTyped DEF LocalInv
<1>3. PICK m \in Candidates(j, Top(j)) :
        Continue(j, [Top(j) EXCEPT !.left = @ \ {m}], board[j])
  BY DEF SkipIllegal
<1> DEFINE g == [Top(j) EXCEPT !.left = @ \ {m}]
<1>4. g \in FrameSet(d)
  BY <1>2 DEF FrameSet, Frame
<1>5. Continue(j, g, board[j])
  BY <1>3
<1> HIDE DEF g
<1> QED
  BY <1>1, <1>2, <1>4, <1>5, ContinueStep

LEMMA FullSearchStep ==
  ASSUME TypeOK, NEW j \in Jobs, NEW d \in BOOLEAN, LocalInv(j, d), stack[j] # <<>>,
         NEW f \in FrameSet(d), NEW b \in Board, FullSearch(j, f, b)
  PROVE  LocalStep(j, d)
<1> DEFINE g == [f EXCEPT !.phase = "full"]
           stk == Append(Below(j), g)
           kind == IF IsPv(f) THEN "Pv" ELSE "Simple"
<1>1. g \in FrameSet(d)
  BY DEF FrameSet, Frame
<1>2. kind \in Kind
  BY DEF Kind
<1>3. f.depth - 1 \in Int /\ -f.beta \in Int /\ -f.alpha \in Int
  BY FrameFields
<1>4. Search(j, stk, kind, f.depth - 1, -f.beta, -f.alpha, NewFlags(f), b)
  BY DEF FullSearch
<1> HIDE DEF g
<1>5. stk \in Seq(FrameSet(d))
  BY <1>1, TopTyped, Pushed
<1> HIDE DEF stk, kind
<1> QED
  BY <1>2, <1>3, <1>4, <1>5, NewFlagsTyped, SearchStep

LEMMA TryMoveStep ==
  ASSUME TypeOK, NEW j \in Jobs, NEW d \in BOOLEAN, LocalInv(j, d), TryMove(j)
  PROVE  LocalStep(j, d)
<1> DEFINE f == Top(j)
<1>1. stack[j] # <<>>
  BY DEF TryMove, At
<1>2. /\ f \in FrameSet(d) /\ Below(j) \in Seq(FrameSet(d)) /\ board[j] \in Board
  BY <1>1, TopTyped
<1>3. PICK m \in Candidates(j, f), late \in BOOLEAN :
       LET g == [f EXCEPT !.left = @ \ {m}, !.move = m]
           n == [g EXCEPT !.hasMove = TRUE, !.quiets = IF late THEN @ + 1 ELSE @]
           b == MakeMove(board[j], m)
       IN IF Reducible(g, late)
            THEN Search(j, Append(Below(j), [n EXCEPT !.phase = "late"]), "Simple",
                        f.depth - 1 - LateMove.reduceDepth, -f.alpha - 1, -f.alpha,
                        NewFlags(g) \union {"LateMoveReduction"}, b)
          ELSE IF IsPv(f) /\ f.hasMove
            THEN Search(j, Append(Below(j), [n EXCEPT !.phase = "zero"]), "Simple",
                        f.depth - 1, -f.alpha - 1, -f.alpha, NewFlags(g), b)
          ELSE FullSearch(j, n, b)
  BY DEF TryMove, Lateness
<1> DEFINE g == [f EXCEPT !.left = @ \ {m}, !.move = m]
           n == [g EXCEPT !.hasMove = TRUE, !.quiets = IF late THEN @ + 1 ELSE @]
           b == MakeMove(board[j], m)
<1>4. m \in Move
  BY <1>2, CandidatesAreMoves
<1>5. b \in Board
  BY <1>2, <1>4, MadeIsBoard
<1>6. g \in FrameSet(d)
  BY <1>2, <1>4 DEF FrameSet, Frame
<1>7. n \in FrameSet(d)
  <2> HIDE DEF g
  <2> DEFINE q == IF late THEN g.quiets + 1 ELSE g.quiets
  <2>1. g.quiets \in Nat
    BY <1>6, FrameFields
  <2>2. q \in Nat
    BY <2>1
  <2>3. n = [g EXCEPT !.hasMove = TRUE, !.quiets = q]
    OBVIOUS
  <2> HIDE DEF q, n
  <2> QED
    BY <1>6, <2>2, <2>3 DEF FrameSet, Frame
<1>8. /\ f.depth - 1 \in Int /\ f.depth - 1 - LateMove.reduceDepth \in Int
      /\ -f.alpha - 1 \in Int /\ -f.alpha \in Int
  <2>1. f.depth \in Int /\ f.alpha \in Int
    BY <1>2, FrameFields
  <2>2. LateMove.reduceDepth \in Int
    BY ConstsAssumption
  <2> QED
    BY <2>1, <2>2
<1>9. "Simple" \in Kind
  BY DEF Kind
<1>a. CASE Search(j, Append(Below(j), [n EXCEPT !.phase = "late"]), "Simple",
                   f.depth - 1 - LateMove.reduceDepth, -f.alpha - 1, -f.alpha,
                   NewFlags(g) \union {"LateMoveReduction"}, b)
  <2> DEFINE h == [n EXCEPT !.phase = "late"]
             stk == Append(Below(j), h)
             flags == NewFlags(g) \union {"LateMoveReduction"}
  <2> HIDE DEF n
  <2>1. h \in FrameSet(d)
    BY <1>7 DEF FrameSet, Frame
  <2>2. flags \in SUBSET Flag /\ "Capture" \in flags
    BY NewFlagsTyped DEF Flag
  <2> HIDE DEF h
  <2>3. stk \in Seq(FrameSet(d))
    BY <1>2, <2>1, Pushed
  <2>4. Search(j, stk, "Simple", f.depth - 1 - LateMove.reduceDepth, -f.alpha - 1,
               -f.alpha, flags, b)
    BY <1>a DEF h
  <2> HIDE DEF stk, flags, b, f
  <2> QED
    BY <1>5, <1>8, <1>9, <2>2, <2>3, <2>4, SearchStep
<1>b. CASE Search(j, Append(Below(j), [n EXCEPT !.phase = "zero"]), "Simple",
                   f.depth - 1, -f.alpha - 1, -f.alpha, NewFlags(g), b)
  <2> DEFINE h == [n EXCEPT !.phase = "zero"]
             stk == Append(Below(j), h)
             flags == NewFlags(g)
  <2> HIDE DEF n
  <2>1. h \in FrameSet(d)
    BY <1>7 DEF FrameSet, Frame
  <2>2. flags \in SUBSET Flag /\ "Capture" \in flags
    BY NewFlagsTyped
  <2> HIDE DEF h
  <2>3. stk \in Seq(FrameSet(d))
    BY <1>2, <2>1, Pushed
  <2>4. Search(j, stk, "Simple", f.depth - 1, -f.alpha - 1, -f.alpha, flags, b)
    BY <1>b DEF h
  <2> HIDE DEF stk, flags, b, f
  <2> QED
    BY <1>5, <1>8, <1>9, <2>2, <2>3, <2>4, SearchStep
<1>c. CASE FullSearch(j, n, b)
  <2> HIDE DEF n, b
  <2> QED
    BY <1>1, <1>5, <1>7, <1>c, FullSearchStep
<1> QED
  BY <1>3, <1>a, <1>b, <1>c

LEMMA TryCaptureStep ==
  ASSUME TypeOK, NEW j \in Jobs, NEW d \in BOOLEAN, LocalInv(j, d), TryCapture(j)
  PROVE  LocalStep(j, d)
<1> DEFINE f == Top(j)
<1>1. stack[j] # <<>>
  BY DEF TryCapture, At
<1>2. f \in FrameSet(d) /\ Below(j) \in Seq(FrameSet(d)) /\ board[j] \in Board
  BY <1>1, TopTyped
<1>3. PICK m \in Candidates(j, f) :
        Quiesce(j, Append(Below(j), [f EXCEPT !.left = @ \ {m}, !.move = m,
                                     !.phase = "full"]),
                -f.beta, -f.alpha, MakeMove(board[j], m))
  BY DEF TryCapture
<1> DEFINE g == [f EXCEPT !.left = @ \ {m}, !.move = m, !.phase = "full"]
           stk == Append(Below(j), g)
           b == MakeMove(board[j], m)
<1>4. m \in Move
  BY <1>2, CandidatesAreMoves
<1>5. b \in Board
  BY <1>2, <1>4, MadeIsBoard
<1>6. g \in FrameSet(d)
  BY <1>2, <1>4 DEF FrameSet, Frame
<1>7. -f.beta \in Int /\ -f.alpha \in Int
  BY <1>2, FrameFields
<1> HIDE DEF g
<1>8. stk \in Seq(FrameSet(d))
  BY <1>2, <1>6, Pushed
<1>9. Quiesce(j, stk, -f.beta, -f.alpha, b)
  BY <1>3 DEF g
<1> HIDE DEF stk, b, f
<1> QED
  BY <1>5, <1>7, <1>8, <1>9, QuiesceStep

-----------------------------------------------------------------------------
(* After a recursive call *)

(* What a store does to the shared table. *)
TableStep(j) ==
  /\ tt' \in [Positions -> Entry \union {NoEntry}]
  /\ falseStores' \in [Jobs -> Nat]

LEMMA SameTable ==
  ASSUME TypeOK, NEW j \in Jobs, UNCHANGED <<tt, falseStores>>
  PROVE  TableStep(j)
BY DEF TypeOK, TableStep

LEMMA StoreStep ==
  ASSUME TypeOK, NEW j \in Jobs, NEW d \in BOOLEAN, stack[j] \in Seq(FrameSet(d)),
         NEW f \in FrameSet(d), NEW score \in Int, TtStore(j, f, score)
  PROVE  TableStep(j)
<1>1. CASE f.best = NoMove
  BY <1>1, SameTable DEF TtStore
<1>2. CASE f.best # NoMove
  <2> DEFINE bound == IF score >= f.beta THEN "Lowerbound"
                      ELSE IF score <= f.origAlpha THEN "Upperbound" ELSE "Exact"
             limited == IF score >= f.beta THEN f.beta ELSE MaxOf(score, f.origAlpha)
             stored == StoredScore(j, limited)
             entry == [move |-> f.best, score |-> stored,
                       depth |-> f.depth, bound |-> bound, current |-> TRUE]
  <2>1. /\ f.beta \in Int /\ f.origAlpha \in Int /\ f.depth \in Int /\ f.best \in Move
        /\ f.from \in Board
    BY <1>2, FrameFields
  <2>2. limited \in Int
    BY <2>1, MaxTyped
  <2>3. -Idepth(j) \in Int
    BY DEF Idepth
  <2>4. stored \in Int
    <3> HIDE DEF limited
    <3> QED
      BY <2>2, <2>3, ScoresTyped DEF StoredScore
  <2>5. bound \in Bound
    BY DEF Bound
  <2>6. entry \in Entry
    <3> HIDE DEF stored, bound
    <3> QED
      BY <2>1, <2>4, <2>5 DEF Entry
  <2>7. tt' \in {tt, [tt EXCEPT ![f.from.pos] = entry]}
    BY <1>2 DEF TtStore
  <2>8. falseStores' = [falseStores EXCEPT ![j] = IF f.misled THEN @ + 1 ELSE @]
    BY <1>2 DEF TtStore
  <2>9. falseStores' \in [Jobs -> Nat]
    BY <2>8 DEF TypeOK
  <2> HIDE DEF entry
  <2>10. tt' \in [Positions -> Entry \union {NoEntry}]
    BY <2>1, <2>6, <2>7, ZenonT(60) DEF TypeOK, Board
  <2> QED
    BY <2>9, <2>10 DEF TableStep
<1> QED
  BY <1>1, <1>2

LEMMA AcceptStep ==
  ASSUME TypeOK, NEW j \in Jobs, NEW d \in BOOLEAN, LocalInv(j, d), stack[j] # <<>>,
         NEW f \in FrameSet(d), NEW score \in Int, Accept(j, f, score)
  PROVE  LocalStep(j, d) /\ TableStep(j)
<1> DEFINE better == score > f.alpha
           best == IF better /\ f.kind # "Quiesce" THEN f.move ELSE f.best
           alpha == MaxOf(f.alpha, score)
           g == [f EXCEPT !.alpha = alpha, !.phase = "moves", !.best = best]
<1>1. f.alpha \in Int /\ f.beta \in Int /\ f.from \in Board /\ f.misled \in BOOLEAN
      /\ f.move \in Move \union {NoMove} /\ f.best \in Move \union {NoMove} /\ (f.misled => d)
  BY FrameFields
<1>2. alpha \in Int /\ best \in Move \union {NoMove}
  BY <1>1, MaxTyped
<1>3. g \in FrameSet(d)
  <2> HIDE DEF alpha, best
  <2> QED
    BY <1>2, ZenonT(60) DEF FrameSet, Frame
<1>4. stack[j] \in Seq(FrameSet(d))
  BY DEF LocalInv
<1>5. g = [f EXCEPT !.alpha = MaxOf(@, score), !.phase = "moves",
                    !.best = IF better /\ f.kind # "Quiesce" THEN f.move ELSE @]
  OBVIOUS
<1>6. \/ /\ Return(j, f.beta, f.misled, f.from)
         /\ UNCHANGED <<tt, falseStores>> \/ TtStore(j, g, f.beta)
      \/ /\ Continue(j, g, f.from)
         /\ UNCHANGED <<tt, falseStores>>
  <2> HIDE DEF g
  <2> QED
    BY <1>5 DEF Accept
<1> HIDE DEF g
<1>7. CASE Return(j, f.beta, f.misled, f.from)
           /\ (UNCHANGED <<tt, falseStores>> \/ TtStore(j, g, f.beta))
  <2>1. LocalStep(j, d)
    BY <1>1, <1>4, <1>7, ReturnStep
  <2>2. TableStep(j)
    BY <1>1, <1>3, <1>4, <1>7, SameTable, StoreStep
  <2> QED
    BY <2>1, <2>2
<1>8. CASE Continue(j, g, f.from) /\ UNCHANGED <<tt, falseStores>>
  BY <1>1, <1>3, <1>4, <1>8, ContinueStep, SameTable
<1> QED
  BY <1>6, <1>7, <1>8

(* A call that learns that the one below was cut belongs to a dirty job. *)
LEMMA InformedTyped ==
  ASSUME TypeOK, NEW j \in Jobs, NEW d \in BOOLEAN, LocalInv(j, d), Resumes(j)
  PROVE  Informed(j) \in FrameSet(d)
<1>1. Top(j) \in FrameSet(d) /\ ret[j].cut \in BOOLEAN /\ (ret[j].cut => d)
  BY TopTyped DEF Resumes
<1>2. Top(j).misled \in BOOLEAN /\ (Top(j).misled => d)
  BY <1>1, FrameFields
<1> DEFINE misled == Top(j).misled \/ ret[j].cut
<1>3. misled \in BOOLEAN /\ (misled => d)
  BY <1>1, <1>2
<1>4. Informed(j) = [Top(j) EXCEPT !.misled = misled]
  BY DEF Informed
<1> HIDE DEF misled
<1> QED
  BY <1>1, <1>3, <1>4 DEF FrameSet, Frame

LEMMA ResumeStep ==
  ASSUME TypeOK, NEW j \in Jobs, NEW d \in BOOLEAN, LocalInv(j, d), Resume(j)
  PROVE  LocalStep(j, d) /\ TableStep(j)
<1> DEFINE f == Informed(j)
<1>1. Resumes(j) /\ stack[j] # <<>> /\ ret[j] # NoScore
  BY DEF Resume, Resumes
<1>2. /\ f \in FrameSet(d) /\ Top(j) \in FrameSet(d) /\ board[j] \in Board
      /\ ret[j].score \in Int /\ stack[j] \in Seq(FrameSet(d))
  BY <1>1, InformedTyped, TopTyped DEF LocalInv
<1>3. f.alpha \in Int /\ f.from \in Board /\ -ret[j].score \in Int
  BY <1>2, FrameFields
<1>4. Top(j).phase \in {"late", "zero", "full"}
  BY <1>1, <1>2 DEF Resumes, Searching, FrameSet
<1>5. CASE Top(j).phase = "late"
  <2> DEFINE g == [f EXCEPT !.phase = "moves"]
  <2>1. g \in FrameSet(d)
    BY <1>2, ZenonT(60) DEF FrameSet, Frame
  <2>2. Continue(j, g, f.from) \/ FullSearch(j, f, board[j])
    BY <1>5 DEF Resume, LateDone
  <2>3. UNCHANGED <<tt, falseStores>>
    BY <1>5 DEF Resume
  <2> HIDE DEF g, f
  <2>4. CASE Continue(j, g, f.from)
    BY <1>1, <1>2, <1>3, <2>1, <2>3, <2>4, ContinueStep, SameTable
  <2>5. CASE FullSearch(j, f, board[j])
    BY <1>1, <1>2, <2>3, <2>5, FullSearchStep, SameTable
  <2> QED
    BY <2>2, <2>4, <2>5
<1>6. CASE Top(j).phase = "zero"
  <2> DEFINE score == IF -ret[j].score <= f.alpha THEN f.alpha ELSE f.alpha + 1
  <2>1. score \in Int
    BY <1>3
  <2>2. \/ FullSearch(j, f, board[j]) /\ UNCHANGED <<tt, falseStores>>
        \/ Accept(j, f, score)
    BY <1>6 DEF Resume, ZeroDone
  <2> HIDE DEF score, f
  <2>3. CASE FullSearch(j, f, board[j]) /\ UNCHANGED <<tt, falseStores>>
    BY <1>1, <1>2, <2>3, FullSearchStep, SameTable
  <2>4. CASE Accept(j, f, score)
    BY <1>1, <1>2, <2>1, <2>4, AcceptStep
  <2> QED
    BY <2>2, <2>3, <2>4
<1>7. CASE Top(j).phase = "full"
  <2>1. Accept(j, f, -ret[j].score)
    BY <1>7 DEF Resume
  <2> QED
    BY <1>1, <1>2, <1>3, <2>1, AcceptStep
<1> QED
  BY <1>4, <1>5, <1>6, <1>7

LEMMA CutShortStep ==
  ASSUME TypeOK, NEW j \in Jobs, NEW d \in BOOLEAN, LocalInv(j, d), CutShort(j)
  PROVE  LocalStep(j, TRUE)
<1>1. stack[j] # <<>> /\ Top(j) \in FrameSet(d)
  BY TopTyped DEF CutShort, Resumes
<1>2. Top(j).from \in Board
  BY <1>1, FrameFields
<1>3. stack[j] \in Seq(FrameSet(TRUE))
  BY Weaker DEF LocalInv
<1>4. PICK score \in Int : score = 0
  OBVIOUS
<1>5. Return(j, score, TRUE, Top(j).from)
  BY <1>4 DEF CutShort
<1> QED
  BY <1>1, <1>2, <1>3, <1>5, ReturnStep

LEMMA NoMoreMovesStep ==
  ASSUME TypeOK, NEW j \in Jobs, NEW d \in BOOLEAN, LocalInv(j, d), NoMoreMoves(j)
  PROVE  LocalStep(j, d) /\ TableStep(j)
<1> DEFINE f == Top(j)
           mated == IF board[j].pos \in Checked THEN Idepth(j) - Checkmate ELSE 0
<1>1. stack[j] # <<>>
  BY DEF NoMoreMoves, At
<1>2. /\ f \in FrameSet(d) /\ board[j] \in Board /\ Idepth(j) \in Int
      /\ stack[j] \in Seq(FrameSet(d))
  BY <1>1, TopTyped DEF LocalInv
<1>3. f.alpha \in Int /\ f.misled \in BOOLEAN /\ (f.misled => d)
  BY <1>2, FrameFields
<1>4. mated \in Int
  BY <1>2, ScoreAssumption
<1>5. /\ Return(j, f.alpha, f.misled, board[j]) \/ Return(j, mated, f.misled, board[j])
      /\ UNCHANGED <<tt, falseStores>> \/ TtStore(j, f, f.alpha)
  BY DEF NoMoreMoves
<1> HIDE DEF f, mated
<1>6. LocalStep(j, d)
  BY <1>1, <1>2, <1>3, <1>4, <1>5, ReturnStep
<1>7. TableStep(j)
  BY <1>2, <1>3, <1>5, SameTable, StoreStep
<1> QED
  BY <1>6, <1>7

-----------------------------------------------------------------------------
(* The invariant *)

LEMMA MustStopTyped ==
  ASSUME TypeOK, NEW j \in Jobs, NEW answer \in BOOLEAN, MustStop(j, answer)
  PROVE  /\ stopped' \in BOOLEAN /\ (stopped => stopped')
         /\ counter' \in [Jobs -> 0..(CheckPeriod - 1)]
         /\ answer => (stopped' \/ commDepth # jobDepth[j])
<1>1. CASE stopped
  BY <1>1 DEF MustStop, TypeOK
<1>2. CASE ~stopped
  <2>1. counter' = [counter EXCEPT ![j] = (counter[j] + 1) % CheckPeriod]
    BY <1>2 DEF MustStop
  <2>2. (counter[j] + 1) % CheckPeriod \in 0..(CheckPeriod - 1)
    BY ConstsAssumption, SMTT(30) DEF TypeOK
  <2>3. counter' \in [Jobs -> 0..(CheckPeriod - 1)]
    BY <2>1, <2>2 DEF TypeOK
  <2>4. CASE counter'[j] = 0
    <3>1. stopped' = answer
      BY <1>2, <2>4 DEF MustStop
    <3> QED
      BY <1>2, <2>3, <3>1
  <2>5. CASE counter'[j] # 0
    <3>1. answer = (commDepth # jobDepth[j]) /\ stopped' = stopped
      BY <1>2, <2>5 DEF MustStop
    <3> QED
      BY <1>2, <2>3, <3>1 DEF TypeOK
  <2> QED
    BY <2>4, <2>5
<1> QED
  BY <1>1, <1>2

(* A step inside the search of job j preserves the invariant: the other jobs *)
(* can only become dirty by it.                                              *)
LEMMA InsideStep ==
  ASSUME IInv, NEW j \in Jobs, NEW d \in BOOLEAN, LocalStep(j, d), TableStep(j),
         d => Dirty(j)', pc' = [pc EXCEPT ![j] = "search"], jobDepth[j] <= MaxDepth,
         UNCHANGED <<commDepth, jobDepth>>, stopped' \in BOOLEAN, stopped => stopped',
         counter' \in [Jobs -> 0..(CheckPeriod - 1)]
  PROVE  IInv'
<1> USE DEF IInv
<1>1. PICK k \in Seq(FrameSet(d)) : stack' = [stack EXCEPT ![j] = k]
  BY DEF LocalStep
<1>2. PICK r \in ResultSet(d) \union {NoScore} : ret' = [ret EXCEPT ![j] = r]
  BY DEF LocalStep
<1>3. TypeOK'
  <2>1. k \in Seq(Frame)
    <3>1. FrameSet(d) \subseteq Frame
      BY DEF FrameSet
    <3> QED
      BY <3>1, SeqMonotonic
  <2>2. r \in Result \union {NoScore}
    BY DEF ResultSet
  <2>3. stack' \in [Jobs -> Seq(Frame)]
    BY <1>1, <2>1 DEF TypeOK
  <2>4. ret' \in [Jobs -> Result \union {NoScore}]
    BY <1>2, <2>2 DEF TypeOK, Result
  <2>5. board' \in [Jobs -> Board] /\ repetitions' \in [Jobs -> SUBSET Positions]
    BY DEF LocalStep, TypeOK
  <2>6. pc' \in [Jobs -> {"deepen", "search", "done"}]
    BY DEF TypeOK
  <2> QED
    BY <2>3, <2>4, <2>5, <2>6 DEF TypeOK, TableStep, Result
<1>4. ASSUME NEW i \in Jobs PROVE LocalInv(i, Dirty(i))'
  <2>1. CASE i = j
    <3>1. stack'[i] \in Seq(FrameSet(d)) /\ ret'[i] \in ResultSet(d) \union {NoScore}
      BY <1>1, <1>2, <2>1 DEF TypeOK
    <3>2. CASE d
      <4>1. Dirty(i)'
        BY <2>1, <3>2
      <4> QED
        BY <3>1, <3>2, <4>1 DEF LocalInv
    <3>3. CASE ~d
      <4>1. FrameSet(d) \subseteq FrameSet(Dirty(i)')
        BY <3>3 DEF FrameSet
      <4>2. ResultSet(d) \subseteq ResultSet(Dirty(i)')
        BY <3>3 DEF ResultSet
      <4>3. stack'[i] \in Seq(FrameSet(Dirty(i)'))
        BY <3>1, <4>1, SeqMonotonic
      <4> QED
        BY <3>1, <4>2, <4>3 DEF LocalInv
    <3> QED
      BY <3>2, <3>3
  <2>2. CASE i # j
    <3>1. Dirty(i) => Dirty(i)'
      BY DEF Dirty
    <3>2. stack'[i] = stack[i] /\ ret'[i] = ret[i]
      BY <1>1, <1>2, <2>2 DEF TypeOK
    <3>3. FrameSet(Dirty(i)) \subseteq FrameSet(Dirty(i)')
      BY <3>1 DEF FrameSet
    <3>4. ResultSet(Dirty(i)) \subseteq ResultSet(Dirty(i)')
      BY <3>1 DEF ResultSet
    <3>5. stack[i] \in Seq(FrameSet(Dirty(i))) /\ ret[i] \in ResultSet(Dirty(i)) \union {NoScore}
      BY DEF LocalInv
    <3>6. stack[i] \in Seq(FrameSet(Dirty(i)'))
      BY <3>3, <3>5, SeqMonotonic
    <3> QED
      BY <3>2, <3>4, <3>5, <3>6 DEF LocalInv
  <2> QED
    BY <2>1, <2>2
<1>5. ASSUME NEW i \in Jobs PROVE PcInv(i)'
  <2>1. CASE i = j
    <3>1. pc'[i] = "search" /\ (stack'[i] = <<>> => ret'[i] # NoScore)
      BY <2>1 DEF TypeOK, LocalStep
    <3> QED
      BY <2>1, <3>1 DEF PcInv
  <2>2. CASE i # j
    <3>1. pc'[i] = pc[i] /\ stack'[i] = stack[i] /\ ret'[i] = ret[i]
      BY <1>1, <1>2, <2>2 DEF TypeOK
    <3> QED
      BY <3>1 DEF PcInv
  <2> QED
    BY <2>1, <2>2
<1> QED
  BY <1>3, <1>4, <1>5

LEMMA InitInvariant == Init => IInv
<1> SUFFICES ASSUME Init PROVE IInv
  OBVIOUS
<1>1. TypeOK
  <2>1. stopped \in BOOLEAN /\ commDepth \in 1..(MaxDepth + 1) /\ 1 \in 1..(MaxDepth + 1)
    <3>1. 1 \in 1..(MaxDepth + 1)
      BY ConstsAssumption
    <3>2. stopped = FALSE /\ commDepth = 1
      BY DEF Init
    <3> QED
      BY <3>1, <3>2
  <2>2. tt \in [Positions -> Entry \union {NoEntry}]
    BY NoneAssumption DEF Init
  <2>3. 0 \in 0..(CheckPeriod - 1)
    BY ConstsAssumption
  <2>4. counter \in [Jobs -> 0..(CheckPeriod - 1)] /\ jobDepth \in [Jobs -> 1..(MaxDepth + 1)]
    BY <2>1, <2>3 DEF Init
  <2>5. [pos |-> Root, counter |-> RootCounter] \in Board
    BY GameAssumption DEF Board
  <2>6. board \in [Jobs -> Board] /\ repetitions \in [Jobs -> SUBSET Positions]
    BY <2>5, GameAssumption DEF Init
  <2>7. <<>> \in Seq(Frame)
    OBVIOUS
  <2>8. stack \in [Jobs -> Seq(Frame)] /\ falseStores \in [Jobs -> Nat]
    BY <2>7 DEF Init
  <2>9. /\ pc \in [Jobs -> {"deepen", "search", "done"}]
        /\ ret \in [Jobs -> [score : Int, cut : BOOLEAN] \union {NoScore}]
    BY DEF Init
  <2> QED
    BY <2>1, <2>2, <2>4, <2>6, <2>8, <2>9 DEF TypeOK
<1>2. ASSUME NEW j \in Jobs PROVE LocalInv(j, Dirty(j)) /\ PcInv(j)
  <2>1. /\ stack[j] = <<>> /\ ret[j] = NoScore /\ pc[j] = "deepen" /\ commDepth = 1
        /\ jobDepth[j] = 1
    BY DEF Init
  <2>2. LocalInv(j, Dirty(j))
    BY <2>1 DEF LocalInv
  <2> QED
    BY <2>1, <2>2 DEF PcInv
<1> QED
  BY <1>1, <1>2 DEF IInv

(* A job that begins a depth has an empty stack and nothing to remember. *)
LEMMA BeginStep ==
  ASSUME IInv, NEW j \in Jobs, Begin(j)
  PROVE  IInv'
<1> DEFINE d == FALSE
<1>1. TypeOK
  BY DEF IInv
<1>2. /\ "Root" \in Kind /\ {} \in SUBSET Flag /\ "Root" # "Simple" /\ d \in BOOLEAN
      /\ <<>> \in Seq(FrameSet(d))
  BY DEF Kind
<1>3. jobDepth[j] \in Int /\ Inf \in Int /\ -Inf \in Int /\ board[j] \in Board
  BY <1>1, ScoreAssumption DEF TypeOK
<1>4. Search(j, <<>>, "Root", jobDepth[j], -Inf, Inf, {}, board[j])
  BY DEF Begin
<1>5. LocalStep(j, d)
  <2> HIDE DEF d
  <2> QED
    BY <1>1, <1>2, <1>3, <1>4, SearchStep
<1>6. TableStep(j)
  BY <1>1 DEF Begin, TableStep, TypeOK
<1>7. /\ pc' = [pc EXCEPT ![j] = "search"] /\ jobDepth[j] <= MaxDepth
      /\ UNCHANGED <<stopped, commDepth, jobDepth, counter>>
  BY DEF Begin, comm
<1> QED
  BY <1>1, <1>2, <1>5, <1>6, <1>7, InsideStep DEF TypeOK

(* The job that is first to finish the depth makes all others dirty. *)
LEMMA FinishStep ==
  ASSUME IInv, NEW j \in Jobs, Finish(j)
  PROVE  IInv'
<1> USE DEF IInv
<1>1. /\ pc[j] = "search" /\ stack[j] = <<>> /\ jobDepth[j] <= MaxDepth
      /\ jobDepth[j] <= commDepth /\ jobDepth[j] \in Nat /\ commDepth \in Nat
  BY ConstsAssumption DEF Finish, PcInv, TypeOK
<1>0. /\ jobDepth \in [Jobs -> 1..(MaxDepth + 1)] /\ MaxDepth \in Nat
      /\ jobDepth[j] \in 1..MaxDepth
  BY <1>1, ConstsAssumption DEF TypeOK
<1>2. /\ UNCHANGED <<stopped, tt, board, repetitions, stack, counter, falseStores>>
      /\ ret' = [ret EXCEPT ![j] = NoScore]
      /\ pc' = [pc EXCEPT ![j] = IF stopped THEN "done" ELSE "deepen"]
  BY DEF Finish
<1>3. /\ commDepth' \in 1..(MaxDepth + 1) /\ jobDepth' \in [Jobs -> 1..(MaxDepth + 1)]
      /\ jobDepth'[j] <= commDepth' /\ commDepth' >= commDepth
      /\ \A i \in Jobs : i # j => jobDepth'[i] = jobDepth[i]
      /\ \A i \in Jobs : i # j => (commDepth # jobDepth[i] => commDepth' # jobDepth[i])
  <2>1. CASE stopped
    BY <1>1, <2>1 DEF Finish, TypeOK
  <2>2. CASE ~stopped /\ commDepth = jobDepth[j]
    <3>1. commDepth' = commDepth + 1 /\ jobDepth' = [jobDepth EXCEPT ![j] = @ + 1]
      BY <2>2 DEF Finish
    <3>2. \A i \in Jobs : jobDepth[i] <= commDepth /\ jobDepth[i] \in Nat
      BY DEF PcInv, TypeOK
    <3>3. jobDepth' \in [Jobs -> 1..(MaxDepth + 1)] /\ jobDepth'[j] = jobDepth[j] + 1
      BY <1>0, <1>1, <3>1
    <3>4. commDepth' \in 1..(MaxDepth + 1)
      BY <1>0, <2>2, <3>1
    <3>5. \A i \in Jobs : i # j => jobDepth'[i] = jobDepth[i] /\ commDepth' # jobDepth[i]
      BY <1>0, <1>1, <3>1, <3>2
    <3> QED
      BY <1>1, <2>2, <3>1, <3>3, <3>4, <3>5
  <2>3. CASE ~stopped /\ commDepth # jobDepth[j]
    <3>1. commDepth' = commDepth /\ jobDepth' = [jobDepth EXCEPT ![j] = @ + 1]
      BY <2>3 DEF Finish
    <3>2. jobDepth' \in [Jobs -> 1..(MaxDepth + 1)] /\ jobDepth'[j] = jobDepth[j] + 1
      BY <1>0, <1>1, <3>1
    <3>3. \A i \in Jobs : i # j => jobDepth'[i] = jobDepth[i]
      BY <1>0, <3>1
    <3> QED
      BY <1>1, <2>3, <3>1, <3>2, <3>3 DEF TypeOK
  <2> QED
    BY <2>1, <2>2, <2>3
<1>4. TypeOK'
  <2>1. ret' \in [Jobs -> Result \union {NoScore}]
    BY <1>2 DEF TypeOK, Result
  <2>2. pc' \in [Jobs -> {"deepen", "search", "done"}]
    BY <1>2 DEF TypeOK
  <2> QED
    BY <1>2, <1>3, <2>1, <2>2 DEF TypeOK, Result
<1>5. ASSUME NEW i \in Jobs PROVE LocalInv(i, Dirty(i))'
  <2>1. CASE i = j
    <3>1. stack'[i] = <<>> /\ ret'[i] = NoScore
      BY <1>1, <1>2, <2>1 DEF TypeOK
    <3> QED
      BY <3>1 DEF LocalInv
  <2>2. CASE i # j
    <3>1. Dirty(i) => Dirty(i)'
      BY <1>2, <1>3, <2>2 DEF Dirty
    <3>2. stack'[i] = stack[i] /\ ret'[i] = ret[i]
      BY <1>2, <2>2 DEF TypeOK
    <3>3. FrameSet(Dirty(i)) \subseteq FrameSet(Dirty(i)')
      BY <3>1 DEF FrameSet
    <3>4. ResultSet(Dirty(i)) \subseteq ResultSet(Dirty(i)')
      BY <3>1 DEF ResultSet
    <3>5. stack[i] \in Seq(FrameSet(Dirty(i))) /\ ret[i] \in ResultSet(Dirty(i)) \union {NoScore}
      BY DEF LocalInv
    <3>6. stack[i] \in Seq(FrameSet(Dirty(i)'))
      BY <3>3, <3>5, SeqMonotonic
    <3> QED
      BY <3>2, <3>4, <3>5, <3>6 DEF LocalInv
  <2> QED
    BY <2>1, <2>2
<1>6. ASSUME NEW i \in Jobs PROVE PcInv(i)'
  <2>1. CASE i = j
    <3>1. pc'[i] # "search" /\ stack'[i] = <<>> /\ ret'[i] = NoScore
      BY <1>1, <1>2, <2>1 DEF TypeOK
    <3> QED
      BY <1>3, <2>1, <3>1 DEF PcInv
  <2>2. CASE i # j
    <3>1. pc'[i] = pc[i] /\ stack'[i] = stack[i] /\ ret'[i] = ret[i]
      BY <1>2, <2>2 DEF TypeOK
    <3>2. jobDepth'[i] = jobDepth[i] /\ jobDepth[i] <= commDepth /\ commDepth <= commDepth'
          /\ jobDepth[i] \in Nat /\ commDepth \in Nat /\ commDepth' \in Nat
      BY <1>3, <2>2 DEF PcInv, TypeOK
    <3>3. jobDepth'[i] <= commDepth'
      BY <3>2
    <3> QED
      BY <3>1, <3>2, <3>3 DEF PcInv
  <2> QED
    BY <2>1, <2>2
<1> QED
  BY <1>4, <1>5, <1>6

(* A step that changes no more than the flag, or the job's place outside the *)
(* search.                                                                   *)
LEMMA OutsideStep ==
  ASSUME IInv, stopped' \in BOOLEAN, stopped => stopped',
         UNCHANGED <<commDepth, tt, jobDepth, local, counter, falseStores>>,
         \/ UNCHANGED pc
         \/ \E j \in Jobs : pc[j] = "deepen" /\ pc' = [pc EXCEPT ![j] = "done"]
  PROVE  IInv'
<1> USE DEF IInv, local
<1>1. pc' \in [Jobs -> {"deepen", "search", "done"}]
  BY DEF TypeOK
<1>2. \A i \in Jobs : pc'[i] = pc[i] \/ (pc[i] = "deepen" /\ pc'[i] = "done")
  BY DEF TypeOK
<1>3. TypeOK'
  BY <1>1 DEF TypeOK
<1>4. ASSUME NEW i \in Jobs PROVE LocalInv(i, Dirty(i))'
  <2>1. Dirty(i) => Dirty(i)'
    BY DEF Dirty
  <2>2. FrameSet(Dirty(i)) \subseteq FrameSet(Dirty(i)')
    BY <2>1 DEF FrameSet
  <2>3. ResultSet(Dirty(i)) \subseteq ResultSet(Dirty(i)')
    BY <2>1 DEF ResultSet
  <2>4. stack[i] \in Seq(FrameSet(Dirty(i))) /\ ret[i] \in ResultSet(Dirty(i)) \union {NoScore}
    BY DEF LocalInv
  <2>5. stack[i] \in Seq(FrameSet(Dirty(i)'))
    BY <2>2, <2>4, SeqMonotonic
  <2> QED
    BY <2>3, <2>4, <2>5 DEF LocalInv
<1>5. ASSUME NEW i \in Jobs PROVE PcInv(i)'
  BY <1>2 DEF PcInv
<1> QED
  BY <1>3, <1>4, <1>5

(* A step within a call, other than a cut: it may go on with results that a  *)
(* dirty job has, and no others.                                             *)
LEMMA NodeStep ==
  ASSUME IInv, NEW j \in Jobs,
         \/ EnterDraw(j) \/ EnterLeaf(j) \/ EnterHit(j) \/ EnterNode(j) \/ RazorDone(j)
         \/ EnterQuiesce(j) \/ SkipIllegal(j) \/ TryMove(j) \/ TryCapture(j)
         \/ NoMoreMoves(j)
  PROVE  IInv'
<1> DEFINE d == Dirty(j)
<1>1. /\ TypeOK /\ LocalInv(j, d) /\ d \in BOOLEAN
  BY DEF IInv, Dirty
<1>2. stack[j] # <<>> /\ UNCHANGED <<comm, pc, jobDepth, counter>>
  BY DEF EnterDraw, EnterLeaf, EnterHit, EnterNode, RazorDone, EnterQuiesce,
         SkipIllegal, TryMove, TryCapture, NoMoreMoves, At
<1>3. pc[j] = "search" /\ jobDepth[j] <= MaxDepth
  BY <1>2 DEF IInv, PcInv
<1>4. LocalStep(j, d)
  <2> HIDE DEF d
  <2> QED
    BY <1>1, EnterStep, EnterNodeStep, RazorDoneStep, EnterQuiesceStep, SkipIllegalStep,
       TryMoveStep, TryCaptureStep, NoMoreMovesStep
<1>5. TableStep(j)
  <2>1. CASE NoMoreMoves(j)
    <3> HIDE DEF d
    <3> QED
      BY <1>1, <2>1, NoMoreMovesStep
  <2>2. CASE UNCHANGED <<tt, falseStores>>
    BY <1>1, <2>2, SameTable
  <2> QED
    BY <2>1, <2>2 DEF EnterDraw, EnterLeaf, EnterHit, EnterNode, RazorDone, EnterQuiesce,
         SkipIllegal, TryMove, TryCapture
<1>6. d => Dirty(j)'
  BY <1>2 DEF Dirty, comm
<1>7. /\ pc' = [pc EXCEPT ![j] = "search"] /\ UNCHANGED <<stopped, commDepth, jobDepth>>
      /\ counter' \in [Jobs -> 0..(CheckPeriod - 1)]
  BY <1>1, <1>2, <1>3 DEF comm, TypeOK
<1>8. stopped' \in BOOLEAN /\ (stopped => stopped')
  BY <1>1, <1>7 DEF TypeOK
<1> HIDE DEF d
<1> QED
  BY <1>1, <1>3, <1>4, <1>5, <1>6, <1>7, <1>8, InsideStep

LEMMA AfterCallStep ==
  ASSUME IInv, NEW j \in Jobs, CutShort(j) \/ Resume(j)
  PROVE  IInv'
<1> DEFINE d == Dirty(j)
<1>1. /\ TypeOK /\ LocalInv(j, d) /\ d \in BOOLEAN
  BY DEF IInv, Dirty
<1>2. stack[j] # <<>> /\ UNCHANGED <<commDepth, pc, jobDepth>>
  BY DEF CutShort, Resume, Resumes
<1>3. pc[j] = "search" /\ jobDepth[j] <= MaxDepth /\ pc' = [pc EXCEPT ![j] = "search"]
  BY <1>1, <1>2 DEF IInv, PcInv, TypeOK
<1>4. CASE CutShort(j)
  <2>1. MustStop(j, TRUE)
    BY <1>4 DEF CutShort
  <2>2. /\ stopped' \in BOOLEAN /\ (stopped => stopped')
        /\ counter' \in [Jobs -> 0..(CheckPeriod - 1)]
        /\ stopped' \/ commDepth # jobDepth[j]
    BY <1>1, <2>1, MustStopTyped
  <2>3. Dirty(j)'
    BY <1>2, <2>2 DEF Dirty
  <2>4. LocalStep(j, TRUE)
    <3> HIDE DEF d
    <3> QED
      BY <1>1, <1>4, CutShortStep
  <2>5. TableStep(j)
    BY <1>1, <1>4, SameTable DEF CutShort
  <2> QED
    BY <1>2, <1>3, <2>2, <2>3, <2>4, <2>5, InsideStep
<1>5. CASE Resume(j)
  <2>1. MustStop(j, FALSE)
    BY <1>5 DEF Resume
  <2>2. /\ stopped' \in BOOLEAN /\ (stopped => stopped')
        /\ counter' \in [Jobs -> 0..(CheckPeriod - 1)]
    BY <1>1, <2>1, MustStopTyped
  <2>3. d => Dirty(j)'
    BY <1>2, <2>2 DEF Dirty
  <2> HIDE DEF d
  <2>4. LocalStep(j, d) /\ TableStep(j)
    BY <1>1, <1>5, ResumeStep
  <2> QED
    BY <1>1, <1>2, <1>3, <2>2, <2>3, <2>4, InsideStep
<1> QED
  BY <1>4, <1>5

LEMMA StepInvariant == IInv /\ [Next]_vars => IInv'
<1> SUFFICES ASSUME IInv, [Next]_vars PROVE IInv'
  OBVIOUS
<1>1. stopped \in BOOLEAN
  BY DEF IInv, TypeOK
<1>2. ASSUME NEW j \in Jobs, Step(j) PROVE IInv'
  <2>1. CASE Begin(j)
    BY <2>1, BeginStep
  <2>2. CASE Finish(j)
    BY <2>2, FinishStep
  <2>3. CASE EndSearch(j)
    <3>1. /\ stopped' = TRUE /\ UNCHANGED <<commDepth, tt, jobDepth, local, counter, falseStores>>
          /\ pc[j] = "deepen" /\ pc' = [pc EXCEPT ![j] = "done"]
      BY <2>3 DEF EndSearch
    <3> QED
      BY <3>1, OutsideStep
  <2>4. CASE CutShort(j) \/ Resume(j)
    BY <2>4, AfterCallStep
  <2>5. CASE \/ EnterDraw(j) \/ EnterLeaf(j) \/ EnterHit(j) \/ EnterNode(j) \/ RazorDone(j)
             \/ EnterQuiesce(j) \/ SkipIllegal(j) \/ TryMove(j) \/ TryCapture(j)
             \/ NoMoreMoves(j)
    BY <2>5, NodeStep
  <2> QED
    BY <1>2, <2>1, <2>2, <2>3, <2>4, <2>5 DEF Step
<1>3. CASE Stop
  <2>1. stopped' = TRUE /\ UNCHANGED <<commDepth, tt, pc, jobDepth, local, counter, falseStores>>
    BY <1>3 DEF Stop
  <2> QED
    BY <2>1, OutsideStep
<1>4. CASE UNCHANGED vars
  <2>1. UNCHANGED <<stopped, commDepth, tt, pc, jobDepth, local, counter, falseStores>>
    BY <1>4 DEF vars, comm
  <2> QED
    BY <1>1, <2>1, OutsideStep
<1> QED
  BY <1>2, <1>3, <1>4 DEF Next, Done

-----------------------------------------------------------------------------
(* Theorems *)

(* The invariant holds in every game and with any number of jobs. *)
LEMMA Invariant == Spec => []IInv
BY InitInvariant, StepInvariant, PTL DEF Spec

(* The variables of the searchers and the entries they store have their      *)
(* types: no depth exceeds the last one by more than one (Job::run).         *)
THEOREM TypeCorrect == Spec => []TypeOK
<1>1. IInv => TypeOK
  BY DEF IInv
<1> QED
  BY <1>1, Invariant, PTL

(* The job whose result of a depth is the first one, and so is shown and     *)
(* played, has never used the result of a call that was cut short: the root  *)
(* call returns with the depth still open only if no mustStop() below it has *)
(* answered yes, even though some calls of mustStop() skip the test.         *)
THEOREM WinnersSearchToTheEnd == Spec => []WinnersWereNotCut
<1>1. IInv => WinnersWereNotCut
  <2> SUFFICES ASSUME IInv, NEW j \in Jobs, pc[j] = "search", stack[j] = <<>>, ~stopped,
                      commDepth = jobDepth[j]
               PROVE  ~ret[j].cut
    BY DEF WinnersWereNotCut
  <2>1. ~Dirty(j) /\ LocalInv(j, Dirty(j)) /\ ret[j] # NoScore
    BY DEF Dirty, IInv, PcInv
  <2> QED
    BY <2>1 DEF LocalInv, ResultSet, Result
<1> QED
  BY <1>1, Invariant, PTL

(* The null move is never tried in any game: every call with a zero window   *)
(* has been given the flag of a capture, which forbids it, because the flag  *)
(* is computed from the board after the move (isCapture in doSearch()).      *)
THEOREM NullMoveIsDead == Spec => []NullMoveIsNeverTried
<1>1. IInv => NullMoveIsNeverTried
  <2> SUFFICES ASSUME IInv, NEW j \in Jobs, NEW i \in 1..Len(stack[j])
               PROVE  stack[j][i].phase # "null"
    BY DEF NullMoveIsNeverTried
  <2>1. stack[j] \in Seq(FrameSet(Dirty(j)))
    BY DEF IInv, LocalInv
  <2>2. stack[j][i] \in FrameSet(Dirty(j))
    BY <2>1, ElementOfSeq
  <2> QED
    BY <2>2 DEF FrameSet
<1> QED
  BY <1>1, Invariant, PTL

-----------------------------------------------------------------------------
(* What a search leaves behind *)

RootBoard == [pos |-> Root, counter |-> RootCounter]

(* The positions entered by the calls at the places of a set, and by all. *)
KeysAt(s, A) == {s[i].from.pos : i \in {k \in A : s[k].keyed}}
Keys(s) == KeysAt(s, 1..Len(s))

(* The calls of a stack: the first one starts at the root, no two have       *)
(* entered the same position, and razoring looks at the board of its caller. *)
Line(s) ==
  /\ s # <<>> => s[1].from = RootBoard
  /\ \A i \in 1..Len(s) : s[i].keyed =>
       /\ s[i].from.pos \notin Repeated
       /\ \A k \in 1..Len(s) : k # i /\ s[k].keyed => s[k].from.pos # s[i].from.pos
  /\ \A i \in 1..Len(s) : i > 1 /\ s[i - 1].phase = "razor" => s[i].from = s[i - 1].from

(* The board is the one of the call on top wherever the call relies on it. *)
Settled(s, r, b) ==
  /\ s = <<>> => b = RootBoard
  /\ s # <<>> =>
       /\ s[Len(s)].phase \in {"enter", "moves"} /\ r = NoScore => b = s[Len(s)].from
       /\ s[Len(s)].phase = "razor" /\ r # NoScore => b = s[Len(s)].from

Trace(j) ==
  /\ Line(stack[j])
  /\ repetitions[j] = Repeated \union Keys(stack[j])
  /\ Settled(stack[j], ret[j], board[j])

(* The calls below the one on top. *)
LEMMA Front ==
  ASSUME NEW S, NEW s \in Seq(S), s # <<>>, NEW p, p = SubSeq(s, 1, Len(s) - 1)
  PROVE  /\ p \in Seq(S) /\ Len(s) \in Nat /\ Len(s) > 0
         /\ Len(p) \in Nat /\ Len(p) = Len(s) - 1 /\ (p = <<>> <=> Len(p) = 0)
         /\ \A i \in 1..Len(p) : p[i] = s[i]
<1>1. Len(s) \in Nat \ {0}
  BY EmptySeq
<1>2. DOMAIN s = 1..Len(s) /\ \A i \in 1..Len(s) : s[i] \in S
  BY LenProperties
<1>3. /\ p \in Seq(S) /\ Len(p) = Len(s) - 1
      /\ \A i \in 1..(Len(s) - 1) : p[i] = s[i]
  <2> DEFINE n == Len(s) - 1
  <2>1. n \in Int /\ n >= 0 /\ n - 1 + 1 = n /\ 1 \in Int
    BY <1>1
  <2>2. \A i \in 1..n : s[i] \in S /\ 1 + i - 1 = i
    BY <1>1, <1>2
  <2> HIDE DEF n
  <2>3. /\ SubSeq(s, 1, n) \in Seq(S)
        /\ Len(SubSeq(s, 1, n)) = IF 1 <= n THEN n - 1 + 1 ELSE 0
        /\ \A i \in 1..(n - 1 + 1) : SubSeq(s, 1, n)[i] = s[1 + i - 1]
    BY <2>1, <2>2, SubSeqProperties
  <2>4. SubSeq(s, 1, n) = p
    BY DEF n
  <2>5. Len(p) = n
    BY <2>1, <2>3, <2>4
  <2>6. \A i \in 1..n : p[i] = s[i]
    BY <2>1, <2>2, <2>3, <2>4
  <2> QED
    BY <2>3, <2>4, <2>5, <2>6 DEF n
<1>4. p = <<>> <=> Len(p) = 0
  BY <1>3, EmptySeq
<1> QED
  BY <1>1, <1>3, <1>4

(* What the positions depend on. *)
LEMMA KeysAgree ==
  ASSUME NEW s, NEW k, NEW A,
         \A i \in A : k[i].keyed = s[i].keyed /\ k[i].from = s[i].from
  PROVE  KeysAt(k, A) = KeysAt(s, A)
BY DEF KeysAt

LEMMA KeysWithOneMore ==
  ASSUME NEW s, NEW A, NEW n, NEW t, t = s[n], NEW B, B = A \union {n}
  PROVE  /\ t.keyed => KeysAt(s, B) = KeysAt(s, A) \union {t.from.pos}
         /\ ~t.keyed => KeysAt(s, B) = KeysAt(s, A)
BY DEF KeysAt

(* A call that goes on as f keeps its place in the line. *)
LEMMA LineReplaced ==
  ASSUME NEW s \in Seq(Frame), s # <<>>, Line(s), NEW f \in Frame,
         f.keyed = s[Len(s)].keyed, f.from = s[Len(s)].from,
         NEW k, k = Append(SubSeq(s, 1, Len(s) - 1), f)
  PROVE  /\ k \in Seq(Frame) /\ k # <<>> /\ k[Len(k)] = f
         /\ Line(k) /\ Keys(k) = Keys(s)
<1>1. Len(s) \in Nat /\ Len(s) > 0
  OBVIOUS
<1>2. /\ k \in Seq(Frame) /\ Len(k) = Len(s) /\ k # <<>> /\ k[Len(k)] = f
      /\ \A i \in 1..Len(s) : i # Len(s) => k[i] = s[i]
  <2> DEFINE p == SubSeq(s, 1, Len(s) - 1)
  <2>2. k = Append(p, f) /\ p = SubSeq(s, 1, Len(s) - 1)
    OBVIOUS
  <2> HIDE DEF p
  <2>1. /\ p \in Seq(Frame) /\ Len(p) = Len(s) - 1
        /\ \A i \in 1..Len(p) : p[i] = s[i]
    BY <2>2, Front
  <2>3. /\ k \in Seq(Frame) /\ Len(k) = Len(p) + 1 /\ k # <<>> /\ k[Len(p) + 1] = f
        /\ \A i \in 1..Len(p) : k[i] = p[i]
    BY <2>1, <2>2, AppendProperties
  <2> QED
    BY <1>1, <2>1, <2>3
<1>3. \A i \in 1..Len(s) : k[i].keyed = s[i].keyed /\ k[i].from = s[i].from
  BY <1>1, <1>2
<1>4. Keys(k) = Keys(s)
  <2>1. KeysAt(k, 1..Len(s)) = KeysAt(s, 1..Len(s))
    BY <1>3, KeysAgree
  <2>2. Len(k) = Len(s)
    BY <1>2
  <2> QED
    BY <2>1, <2>2 DEF Keys
<1>5. \A i \in 1..Len(s) : i > 1 => k[i - 1] = s[i - 1]
  BY <1>1, <1>2
<1>6. 1 \in 1..Len(s)
  BY <1>1
<1>7. Line(k)
  BY <1>2, <1>3, <1>5, <1>6 DEF Line
<1> QED
  BY <1>2, <1>4, <1>7

(* A call that returns takes its position out of the line. *)
LEMMA LinePopped ==
  ASSUME NEW s \in Seq(Frame), s # <<>>, Line(s), NEW k, k = SubSeq(s, 1, Len(s) - 1),
         NEW t \in Frame, t = s[Len(s)]
  PROVE  /\ k \in Seq(Frame) /\ Line(k)
         /\ k = <<>> => t.from = RootBoard
         /\ k # <<>> /\ k[Len(k)].phase = "razor" => t.from = k[Len(k)].from
         /\ t.keyed => Keys(k) = Keys(s) \ {t.from.pos} /\ t.from.pos \notin Repeated
         /\ ~t.keyed => Keys(k) = Keys(s)
<1>1. Len(s) \in Nat /\ Len(s) > 0
  OBVIOUS
<1>0. \A i \in 1..Len(k) : k[i].keyed = s[i].keyed /\ k[i].from = s[i].from
  BY Front
<1>2. /\ k \in Seq(Frame) /\ Len(k) = Len(s) - 1 /\ Len(k) \in Nat
      /\ \A i \in 1..Len(k) : k[i] = s[i]
      /\ k = <<>> <=> Len(k) = 0
  BY Front
<1>3. 1..Len(s) = (1..Len(k)) \union {Len(s)} /\ Len(s) \notin 1..Len(k)
  BY <1>1, <1>2
<1>4. \A i \in 1..Len(k) : i > 1 => k[i - 1] = s[i - 1]
  BY <1>2
<1>5. k # <<>> => 1 \in 1..Len(k)
  BY <1>2
<1>6. Line(k)
  BY <1>2, <1>3, <1>4, <1>5 DEF Line
<1>7. k = <<>> => t.from = RootBoard
  BY <1>1, <1>2 DEF Line
<1>8. k # <<>> /\ k[Len(k)].phase = "razor" => t.from = k[Len(k)].from
  <2> SUFFICES ASSUME k # <<>>, k[Len(k)].phase = "razor" PROVE t.from = k[Len(k)].from
    OBVIOUS
  <2>1. Len(s) - 1 \in 1..Len(k) /\ Len(s) \in 1..Len(s) /\ Len(s) > 1
    BY <1>1, <1>2
  <2> QED
    BY <1>2, <2>1 DEF Line
<1>9. t.keyed => Keys(k) = Keys(s) \ {t.from.pos} /\ t.from.pos \notin Repeated
  <2> SUFFICES ASSUME t.keyed
               PROVE  Keys(k) = Keys(s) \ {t.from.pos} /\ t.from.pos \notin Repeated
    OBVIOUS
  <2>1. /\ t.from.pos \notin Repeated
        /\ \A i \in 1..Len(k) : k[i].keyed => k[i].from.pos # t.from.pos
    BY <1>2, <1>3 DEF Line
  <2>2. Keys(s) = Keys(k) \union {t.from.pos}
    <3>1. KeysAt(k, 1..Len(k)) = KeysAt(s, 1..Len(k))
      BY <1>0, KeysAgree
    <3>2. KeysAt(s, 1..Len(s)) = KeysAt(s, 1..Len(k)) \union {t.from.pos}
      BY <1>3, KeysWithOneMore
    <3> QED
      BY <3>1, <3>2 DEF Keys
  <2>3. t.from.pos \notin Keys(k)
    BY <2>1 DEF Keys, KeysAt
  <2> QED
    BY <2>1, <2>2, <2>3
<1>10. ~t.keyed => Keys(k) = Keys(s)
  <2> SUFFICES ASSUME ~t.keyed PROVE Keys(k) = Keys(s)
    OBVIOUS
  <2>1. KeysAt(k, 1..Len(k)) = KeysAt(s, 1..Len(k))
    BY <1>0, KeysAgree
  <2>2. KeysAt(s, 1..Len(s)) = KeysAt(s, 1..Len(k))
    BY <1>3, KeysWithOneMore
  <2> QED
    BY <2>1, <2>2 DEF Keys
<1> QED
  BY <1>2, <1>6, <1>7, <1>8, <1>9, <1>10

(* The positions entered after a call. *)
LEMMA KeysPushed ==
  ASSUME NEW s \in Seq(Frame), NEW c \in Frame, NEW k, k = Append(s, c)
  PROVE  /\ c.keyed => Keys(k) = Keys(s) \union {c.from.pos}
         /\ ~c.keyed => Keys(k) = Keys(s)
<1>1. Len(k) = Len(s) + 1 /\ k[Len(k)] = c /\ \A i \in 1..Len(s) : k[i] = s[i]
  OBVIOUS
<1>2. Len(s) \in Nat /\ 1..Len(k) = (1..Len(s)) \union {Len(k)}
  BY <1>1
<1>3. KeysAt(k, 1..Len(s)) = KeysAt(s, 1..Len(s))
  <2>1. \A i \in 1..Len(s) : k[i].keyed = s[i].keyed /\ k[i].from = s[i].from
    BY <1>1
  <2> QED
    BY <2>1, KeysAgree
<1>4. /\ c.keyed => KeysAt(k, 1..Len(k)) = KeysAt(k, 1..Len(s)) \union {c.from.pos}
      /\ ~c.keyed => KeysAt(k, 1..Len(k)) = KeysAt(k, 1..Len(s))
  <2>1. c = k[Len(k)] /\ 1..Len(k) = (1..Len(s)) \union {Len(k)}
    BY <1>1, <1>2
  <2> DEFINE n == Len(k)
             A == 1..Len(s)
             B == 1..Len(k)
  <2>2. c = k[n] /\ B = A \union {n}
    BY <2>1
  <2> HIDE DEF n, A, B
  <2>3. /\ c.keyed => KeysAt(k, B) = KeysAt(k, A) \union {c.from.pos}
        /\ ~c.keyed => KeysAt(k, B) = KeysAt(k, A)
    BY <2>2 DEF KeysAt
  <2> QED
    BY <2>3 DEF A, B
<1> QED
  BY <1>3, <1>4 DEF Keys
(* A call that is made enters a position that is not in the line yet. *)
LEMMA LinePushed ==
  ASSUME NEW s \in Seq(Frame), Line(s), NEW c \in Frame,
         c.keyed => c.from.pos \notin Repeated \union Keys(s),
         s = <<>> => c.from = RootBoard,
         s # <<>> /\ s[Len(s)].phase = "razor" => c.from = s[Len(s)].from,
         NEW k, k = Append(s, c)
  PROVE  k # <<>> /\ k[Len(k)] = c /\ Line(k)
<1>1. /\ k \in Seq(Frame) /\ Len(k) = Len(s) + 1 /\ k[Len(k)] = c /\ k # <<>>
      /\ \A i \in 1..Len(s) : k[i] = s[i]
  OBVIOUS
<1>2. Len(s) \in Nat /\ 1..Len(k) = (1..Len(s)) \union {Len(k)} /\ Len(k) \notin 1..Len(s)
  BY <1>1
<1>4. k[1].from = RootBoard
  <2>1. CASE s = <<>>
    BY <1>1, <2>1
  <2>2. CASE s # <<>>
    <3>1. 1 \in 1..Len(s)
      BY <1>2, <2>2
    <3> QED
      BY <1>1, <2>2, <3>1 DEF Line
  <2> QED
    BY <2>1, <2>2
<1>5. \A i \in 1..Len(s) : s[i].keyed => s[i].from.pos \in Keys(s)
  BY DEF Keys, KeysAt
<1>6. \A i \in 1..Len(k) : k[i].keyed =>
        /\ k[i].from.pos \notin Repeated
        /\ \A n \in 1..Len(k) : n # i /\ k[n].keyed => k[n].from.pos # k[i].from.pos
  BY <1>1, <1>2, <1>5 DEF Line
<1>7. \A i \in 1..Len(k) : i > 1 /\ k[i - 1].phase = "razor" => k[i].from = k[i - 1].from
  <2> SUFFICES ASSUME NEW i \in 1..Len(k), i > 1, k[i - 1].phase = "razor"
               PROVE  k[i].from = k[i - 1].from
    OBVIOUS
  <2>1. i - 1 \in 1..Len(s) /\ k[i - 1] = s[i - 1]
    BY <1>1, <1>2
  <2>2. CASE i \in 1..Len(s)
    BY <1>1, <2>1, <2>2 DEF Line
  <2>3. CASE i = Len(k)
    BY <1>1, <1>2, <2>1, <2>3
  <2> QED
    BY <1>2, <2>2, <2>3
<1> QED
  BY <1>1, <1>4, <1>6, <1>7 DEF Line

(* The same of the calls of a job. *)
LEMMA TopReplaced ==
  ASSUME TypeOK, NEW j \in Jobs, Trace(j), stack[j] # <<>>, NEW f \in Frame,
         f.keyed = Top(j).keyed, f.from = Top(j).from, NEW k, k = Append(Below(j), f)
  PROVE  /\ k \in Seq(Frame) /\ k # <<>> /\ k[Len(k)] = f
         /\ Line(k) /\ Keys(k) = Keys(stack[j])
<1>1. PICK s \in Seq(Frame) : s = stack[j]
  BY DEF TypeOK
<1>2. /\ s # <<>> /\ Line(s) /\ f.keyed = s[Len(s)].keyed /\ f.from = s[Len(s)].from
      /\ k = Append(SubSeq(s, 1, Len(s) - 1), f)
  BY <1>1 DEF Trace, Top, Below
<1>3. /\ k \in Seq(Frame) /\ k # <<>> /\ k[Len(k)] = f
      /\ Line(k) /\ Keys(k) = Keys(s)
  BY <1>2, LineReplaced
<1> QED
  BY <1>1, <1>3

(* A call that returns, one that goes on, and one that is made. *)
LEMMA ReturnTrace ==
  ASSUME TypeOK, NEW j \in Jobs, Trace(j), stack[j] # <<>>, NEW score, NEW cut \in BOOLEAN,
         score \in Int, Return(j, score, cut, Top(j).from)
  PROVE  Trace(j)'
<1>1. stack[j] \in Seq(Frame) /\ Top(j) \in Frame
  BY ElementOfSeq, EmptySeq DEF TypeOK, Top
<1> DEFINE k == Below(j)
           t == Top(j)
<1>2. /\ k \in Seq(Frame) /\ Line(k)
      /\ k = <<>> => t.from = RootBoard
      /\ k # <<>> /\ k[Len(k)].phase = "razor" => t.from = k[Len(k)].from
      /\ t.keyed => Keys(k) = Keys(stack[j]) \ {t.from.pos} /\ t.from.pos \notin Repeated
      /\ ~t.keyed => Keys(k) = Keys(stack[j])
  BY <1>1, LinePopped DEF Trace, Top, Below
<1>3. stack'[j] = k /\ board'[j] = t.from /\ ret'[j] = [score |-> score, cut |-> cut]
  BY DEF Return, TypeOK
<1>4. ret'[j] # NoScore
  BY <1>3, NoneAssumption
<1>5. repetitions'[j] = IF t.keyed THEN repetitions[j] \ {t.from.pos} ELSE repetitions[j]
  BY DEF Return, TypeOK
<1>6. repetitions[j] = Repeated \union Keys(stack[j])
  BY DEF Trace
<1> HIDE DEF k, t
<1>7. repetitions'[j] = Repeated \union Keys(k)
  BY <1>2, <1>5, <1>6
<1>8. Settled(k, ret'[j], board'[j])
  BY <1>2, <1>3, <1>4 DEF Settled
<1> QED
  BY <1>2, <1>3, <1>7, <1>8 DEF Trace

LEMMA ContinueTrace ==
  ASSUME TypeOK, NEW j \in Jobs, Trace(j), stack[j] # <<>>, NEW f \in Frame,
         f.keyed = Top(j).keyed, f.from = Top(j).from, Continue(j, f, Top(j).from)
  PROVE  Trace(j)'
<1> DEFINE k == Append(Below(j), f)
<1>1. k = Append(Below(j), f)
  OBVIOUS
<1>2. k # <<>> /\ k[Len(k)] = f /\ Line(k) /\ Keys(k) = Keys(stack[j])
  <2> HIDE DEF k
  <2> QED
    BY <1>1, TopReplaced
<1>3. /\ stack'[j] = k /\ board'[j] = f.from /\ ret'[j] = NoScore
      /\ repetitions'[j] = repetitions[j]
  BY DEF Continue, TypeOK
<1> HIDE DEF k
<1>4. Settled(k, ret'[j], board'[j])
  BY <1>2, <1>3 DEF Settled
<1> QED
  BY <1>2, <1>3, <1>4 DEF Trace

LEMMA SearchTrace ==
  ASSUME TypeOK, NEW j \in Jobs, Trace(j), stack[j] # <<>>, NEW f \in Frame,
         f.keyed = Top(j).keyed, f.from = Top(j).from, f.phase \in Searching,
         NEW kind \in Kind, NEW depth \in Int, NEW alpha \in Int, NEW beta \in Int,
         NEW flags \in SUBSET Flag, NEW b \in Board,
         Search(j, Append(Below(j), f), kind, depth, alpha, beta, flags, b)
  PROVE  Trace(j)'
<1> DEFINE k == Append(Below(j), f)
<1>1. k = Append(Below(j), f)
  OBVIOUS
<1>2. /\ k \in Seq(Frame) /\ k # <<>> /\ k[Len(k)] = f /\ Line(k)
      /\ Keys(k) = Keys(stack[j])
  <2> HIDE DEF k
  <2> QED
    BY <1>1, TopReplaced
<1>3. repetitions[j] = Repeated \union Keys(k)
  BY <1>2 DEF Trace
<1>4. board'[j] = b
  BY DEF Search, TypeOK
<1>5. f.phase # "razor" /\ f.phase \notin {"enter", "moves"}
  BY DEF Searching
<1>6. CASE b.pos \in repetitions[j]
  <2>1. stack'[j] = k /\ repetitions'[j] = repetitions[j]
    BY <1>6 DEF Search, TypeOK
  <2> HIDE DEF k
  <2>2. Settled(k, ret'[j], board'[j])
    BY <1>2, <1>5 DEF Settled
  <2> QED
    BY <1>2, <1>3, <2>1, <2>2 DEF Trace
<1>7. CASE b.pos \notin repetitions[j]
  <2> DEFINE c == Call(kind, depth, alpha, beta, flags, TRUE, b)
             n == Append(k, c)
  <2>1. c \in Frame /\ c.keyed /\ c.from = b /\ c.phase = "enter"
    BY DEF Call, Frame
  <2>2. /\ stack'[j] = n /\ repetitions'[j] = repetitions[j] \union {b.pos}
        /\ ret'[j] = NoScore
    BY <1>7 DEF Search, TypeOK
  <2> HIDE DEF k, c
  <2>6. n = Append(k, c)
    OBVIOUS
  <2> HIDE DEF n
  <2>7. /\ c.keyed /\ c.from.pos \notin Repeated \union Keys(k)
        /\ k[Len(k)].phase # "razor" /\ c.from.pos = b.pos
    BY <1>2, <1>3, <1>5, <1>7, <2>1
  <2>3. n # <<>> /\ n[Len(n)] = c /\ Line(n) /\ Keys(n) = Keys(k) \union {b.pos}
    <3>1. k \in Seq(Frame) /\ Line(k) /\ c \in Frame
      BY <1>2, <2>1
    <3>2. /\ c.keyed => c.from.pos \notin Repeated \union Keys(k)
          /\ k = <<>> => c.from = RootBoard
          /\ k # <<>> /\ k[Len(k)].phase = "razor" => c.from = k[Len(k)].from
      BY <1>2, <2>7
    <3>3. /\ n # <<>> /\ n[Len(n)] = c /\ Line(n)
          /\ c.keyed => Keys(n) = Keys(k) \union {c.from.pos}
      <4>1. n # <<>> /\ n[Len(n)] = c /\ Line(n)
        BY <2>6, <3>1, <3>2, LinePushed
      <4>2. c.keyed => Keys(n) = Keys(k) \union {c.from.pos}
        BY <2>6, <3>1, KeysPushed
      <4> QED
        BY <4>1, <4>2
    <3> QED
      BY <2>7, <3>3
  <2>4. Settled(n, ret'[j], board'[j])
    BY <1>4, <2>1, <2>3 DEF Settled
  <2>5. repetitions'[j] = Repeated \union Keys(n)
    BY <1>3, <2>2, <2>3
  <2> QED
    BY <2>2, <2>3, <2>4, <2>5 DEF Trace
<1> QED
  BY <1>6, <1>7

LEMMA QuiesceTrace ==
  ASSUME TypeOK, NEW j \in Jobs, Trace(j), stack[j] # <<>>, NEW f \in Frame,
         f.keyed = Top(j).keyed, f.from = Top(j).from,
         NEW alpha \in Int, NEW beta \in Int, NEW b \in Board,
         f.phase = "razor" => b = f.from,
         Quiesce(j, Append(Below(j), f), alpha, beta, b)
  PROVE  Trace(j)'
<1> DEFINE k == Append(Below(j), f)
           c == Call("Quiesce", 0, alpha, beta, {}, FALSE, b)
           n == Append(k, c)
<1>1. k = Append(Below(j), f)
  OBVIOUS
<1>2. /\ k \in Seq(Frame) /\ k # <<>> /\ k[Len(k)] = f /\ Line(k)
      /\ Keys(k) = Keys(stack[j])
  <2> HIDE DEF k
  <2> QED
    BY <1>1, TopReplaced
<1>3. c \in Frame /\ ~c.keyed /\ c.from = b /\ c.phase = "enter"
  <2>1. "Quiesce" \in Kind /\ {} \in SUBSET Flag
    BY DEF Kind
  <2> QED
    BY <2>1 DEF Call, Frame
<1>4. /\ stack'[j] = n /\ repetitions'[j] = repetitions[j] /\ ret'[j] = NoScore
      /\ board'[j] = b
  BY DEF Quiesce, TypeOK
<1>5. repetitions[j] = Repeated \union Keys(k)
  BY <1>2 DEF Trace
<1> HIDE DEF k, c
<1>8. n = Append(k, c)
  OBVIOUS
<1> HIDE DEF n
<1>6. n # <<>> /\ n[Len(n)] = c /\ Line(n) /\ Keys(n) = Keys(k)
  BY <1>2, <1>3, <1>8, LinePushed, KeysPushed
<1>7. Settled(n, ret'[j], board'[j])
  BY <1>3, <1>4, <1>6 DEF Settled
<1> QED
  BY <1>4, <1>5, <1>6, <1>7 DEF Trace

(* Where a call relies on the board, the board is its own. *)
LEMMA AtItsBoard ==
  ASSUME NEW j \in Jobs, Trace(j), At(j, "enter") \/ At(j, "moves")
  PROVE  stack[j] # <<>> /\ board[j] = Top(j).from
BY DEF Trace, Settled, At, Top

(* The parts of actions that are not actions themselves. *)
LEMMA OnwardTrace ==
  ASSUME TypeOK, NEW j \in Jobs, NEW d \in BOOLEAN, LocalInv(j, d), Trace(j),
         stack[j] # <<>>, board[j] = Top(j).from, NEW f \in FrameSet(d),
         f.kind # "Quiesce", f.keyed = Top(j).keyed, f.from = Top(j).from, Onward(j, f)
  PROVE  Trace(j)'
<1> DEFINE g == [f EXCEPT !.phase = "moves", !.left = MovesAt[board[j].pos]]
<1>1. ~CanNullMove(f, board[j].pos)
  <2>1. IsPv(f) \/ "Capture" \in f.flags
    BY DEF FrameSet, Frame, Kind, IsPv
  <2> QED
    BY <2>1 DEF CanNullMove, MayPrune, NullMoveDisable
<1>2. MovesAt[board[j].pos] \in SUBSET Move
  BY TopTyped, GameAssumption
<1>3. g \in Frame /\ g.keyed = f.keyed /\ g.from = f.from
  BY <1>2 DEF FrameSet, Frame
<1>4. Continue(j, g, Top(j).from)
  BY <1>1 DEF Onward
<1> HIDE DEF g
<1> QED
  BY <1>3, <1>4, ContinueTrace

LEMMA FullSearchTrace ==
  ASSUME TypeOK, NEW j \in Jobs, NEW d \in BOOLEAN, Trace(j), stack[j] # <<>>,
         NEW f \in FrameSet(d), f.keyed = Top(j).keyed, f.from = Top(j).from,
         NEW b \in Board, FullSearch(j, f, b)
  PROVE  Trace(j)'
<1> DEFINE g == [f EXCEPT !.phase = "full"]
           kind == IF IsPv(f) THEN "Pv" ELSE "Simple"
<1>1. g \in Frame /\ g.keyed = f.keyed /\ g.from = f.from /\ g.phase \in Searching
  BY DEF FrameSet, Frame, Searching
<1>2. kind \in Kind
  BY DEF Kind
<1>3. f.depth - 1 \in Int /\ -f.beta \in Int /\ -f.alpha \in Int
  BY FrameFields
<1>4. Search(j, Append(Below(j), g), kind, f.depth - 1, -f.beta, -f.alpha, NewFlags(f), b)
  BY DEF FullSearch
<1> HIDE DEF g, kind
<1> QED
  BY <1>1, <1>2, <1>3, <1>4, NewFlagsTyped, SearchTrace

(* One lemma per action: every call that is left has put its board back. *)
LEMMA EnterTrace ==
  ASSUME TypeOK, NEW j \in Jobs, NEW d \in BOOLEAN, LocalInv(j, d), Trace(j),
         EnterDraw(j) \/ EnterLeaf(j) \/ EnterHit(j)
  PROVE  Trace(j)'
<1>1. stack[j] # <<>> /\ board[j] = Top(j).from
  BY AtItsBoard DEF EnterDraw, EnterLeaf, EnterHit
<1>2. Top(j) \in FrameSet(d) /\ board[j] \in Board /\ Idepth(j) \in Int
  BY <1>1, TopTyped
<1>3. CASE EnterDraw(j)
  <2>1. PICK score \in Int : score = 0
    OBVIOUS
  <2>2. Return(j, score, FALSE, Top(j).from)
    BY <1>1, <1>3, <2>1 DEF EnterDraw
  <2> QED
    BY <1>1, <2>2, ReturnTrace
<1>4. CASE EnterLeaf(j)
  <2>1. Top(j).alpha \in Int /\ Top(j).beta \in Int
    BY <1>2, FrameFields
  <2>2. CASE Return(j, Top(j).alpha, FALSE, board[j])
    BY <1>1, <2>1, <2>2, ReturnTrace
  <2>3. CASE Return(j, Top(j).beta, FALSE, board[j])
    BY <1>1, <2>1, <2>3, ReturnTrace
  <2>4. CASE Continue(j, [Top(j) EXCEPT !.kind = "Quiesce"], board[j])
    <3> DEFINE g == [Top(j) EXCEPT !.kind = "Quiesce"]
    <3>1. g \in Frame /\ g.keyed = Top(j).keyed /\ g.from = Top(j).from
      BY <1>2 DEF FrameSet, Frame, Kind
    <3>2. Continue(j, g, Top(j).from)
      BY <1>1, <2>4
    <3> HIDE DEF g
    <3> QED
      BY <1>1, <3>1, <3>2, ContinueTrace
  <2> QED
    BY <1>4, <2>2, <2>3, <2>4 DEF EnterLeaf
<1>5. CASE EnterHit(j)
  <2>1. PICK e \in Loads(board[j].pos) :
          CutsOff(j, Top(j), e) /\ Return(j, LoadedScore(j, e), FALSE, board[j])
    BY <1>5 DEF EnterHit
  <2>2. e \in Entry
    BY <1>2, <2>1 DEF CutsOff, Loads, TypeOK, Board
  <2>3. LoadedScore(j, e) \in Int
    BY <1>2, <2>2, ScoresTyped DEF LoadedScore, Entry
  <2> QED
    BY <1>1, <2>1, <2>3, ReturnTrace
<1> QED
  BY <1>3, <1>4, <1>5

LEMMA EnterNodeTrace ==
  ASSUME TypeOK, NEW j \in Jobs, NEW d \in BOOLEAN, LocalInv(j, d), Trace(j), EnterNode(j)
  PROVE  Trace(j)'
<1> DEFINE b == board[j]
<1>1. stack[j] # <<>> /\ Top(j).kind # "Quiesce" /\ Top(j).phase = "enter" /\ b = Top(j).from
  BY AtItsBoard DEF EnterNode, At
<1>2. Top(j) \in FrameSet(d) /\ b \in Board
  BY <1>1, TopTyped
<1>3. PICK e \in Loads(b.pos) :
        LET g == [Top(j) EXCEPT !.hash = HashMove(e)] IN
        IF Futile(Top(j), b.pos) THEN Return(j, Top(j).beta, FALSE, b)
        ELSE IF Razored(Top(j), b.pos)
          THEN Quiesce(j, Append(Below(j), [g EXCEPT !.phase = "razor"]),
                       Razor(Top(j)), Razor(Top(j)) + 1, b)
          ELSE Onward(j, g)
  BY DEF EnterNode
<1> DEFINE g == [Top(j) EXCEPT !.hash = HashMove(e)]
<1>4. HashMove(e) \in Move \union {NoMove}
  BY <1>2 DEF HashMove, Loads, TypeOK, Board, Entry
<1>5. /\ g \in FrameSet(d) /\ g.kind # "Quiesce"
      /\ g.keyed = Top(j).keyed /\ g.from = Top(j).from
  BY <1>1, <1>2, <1>4 DEF FrameSet, Frame
<1>6. CASE Return(j, Top(j).beta, FALSE, b)
  BY <1>1, <1>2, <1>6, FrameFields, ReturnTrace
<1>7. CASE Razored(Top(j), b.pos) /\ Quiesce(j, Append(Below(j), [g EXCEPT !.phase = "razor"]),
                                             Razor(Top(j)), Razor(Top(j)) + 1, b)
  <2> DEFINE h == [g EXCEPT !.phase = "razor"]
  <2>1. Top(j).depth <= Razoring.maxDepth
    BY <1>7 DEF Razored
  <2>2. Top(j).depth > 0
    BY <1>2, FrameFields DEF EnterNode, IsLeaf
  <2>3. Razor(Top(j)) \in Int /\ Razor(Top(j)) + 1 \in Int
    BY <1>2, <2>1, <2>2, RazorTyped
  <2>4. h \in Frame /\ h.keyed = Top(j).keyed /\ h.from = Top(j).from
    <3> HIDE DEF g
    <3> QED
      BY <1>5 DEF FrameSet, Frame
  <2>5. Quiesce(j, Append(Below(j), h), Razor(Top(j)), Razor(Top(j)) + 1, b)
    BY <1>7
  <2>6. h.phase = "razor" => b = h.from
    <3> HIDE DEF h
    <3> QED
      BY <1>1, <2>4
  <2> HIDE DEF h, g
  <2> QED
    BY <1>1, <1>2, <2>3, <2>4, <2>5, <2>6, QuiesceTrace
<1>8. CASE Onward(j, g)
  <2> HIDE DEF g
  <2> QED
    BY <1>1, <1>5, <1>8, OnwardTrace
<1> QED
  BY <1>3, <1>6, <1>7, <1>8

LEMMA RazorDoneTrace ==
  ASSUME TypeOK, NEW j \in Jobs, NEW d \in BOOLEAN, LocalInv(j, d), Trace(j), RazorDone(j)
  PROVE  Trace(j)'
<1>1. /\ stack[j] # <<>> /\ ret[j] # NoScore /\ Top(j).phase = "razor"
      /\ board[j] = Top(j).from
  BY DEF RazorDone, Trace, Settled, Top
<1>2. Top(j) \in FrameSet(d) /\ ret[j].cut \in BOOLEAN
  BY <1>1, TopTyped
<1>3. Top(j).alpha \in Int /\ Top(j).kind = "Simple"
  BY <1>1, <1>2 DEF FrameSet, Frame
<1>4. CASE Return(j, Top(j).alpha, ret[j].cut, board[j])
  BY <1>1, <1>2, <1>3, <1>4, ReturnTrace
<1>5. CASE Onward(j, Top(j))
  BY <1>1, <1>2, <1>3, <1>5, OnwardTrace
<1> QED
  BY <1>4, <1>5 DEF RazorDone

LEMMA EnterQuiesceTrace ==
  ASSUME TypeOK, NEW j \in Jobs, NEW d \in BOOLEAN, LocalInv(j, d), Trace(j),
         EnterQuiesce(j)
  PROVE  Trace(j)'
<1> DEFINE f == Top(j)
           pos == board[j].pos
           alpha == MaxOf(f.alpha, Eval[pos])
           left == {m \in MovesAt[pos] : m.kind \in {"capture", "promote"}}
           g == [f EXCEPT !.alpha = alpha, !.phase = "moves", !.left = left]
<1>1. stack[j] # <<>> /\ board[j] = f.from
  BY AtItsBoard DEF EnterQuiesce
<1>2. f \in FrameSet(d) /\ board[j] \in Board /\ pos \in Positions
  BY <1>1, TopTyped
<1>3. alpha \in Int /\ f.beta \in Int
  <2>1. f.alpha \in Int /\ f.beta \in Int
    BY <1>2, FrameFields
  <2>2. Eval[pos] \in Int
    BY <1>2, ScoreAssumption
  <2> QED
    BY <2>1, <2>2, MaxTyped
<1>4. left \in SUBSET Move
  BY <1>2, GameAssumption
<1>5. \/ Return(j, 0, FALSE, f.from)
      \/ Return(j, f.beta, FALSE, f.from)
      \/ Continue(j, g, f.from)
  BY <1>1 DEF EnterQuiesce
<1>6. g \in Frame /\ g.keyed = f.keyed /\ g.from = f.from
  <2> HIDE DEF alpha, left, f
  <2> QED
    BY <1>2, <1>3, <1>4 DEF FrameSet, Frame
<1> HIDE DEF g
<1>7. CASE Return(j, 0, FALSE, f.from)
  <2>1. PICK score \in Int : score = 0
    OBVIOUS
  <2>2. Return(j, score, FALSE, f.from)
    BY <1>7, <2>1
  <2> QED
    BY <1>1, <2>2, ReturnTrace
<1>8. CASE Return(j, f.beta, FALSE, f.from)
  BY <1>1, <1>3, <1>8, ReturnTrace
<1>9. CASE Continue(j, g, f.from)
  BY <1>1, <1>6, <1>9, ContinueTrace
<1> QED
  BY <1>5, <1>7, <1>8, <1>9

LEMMA SkipIllegalTrace ==
  ASSUME TypeOK, NEW j \in Jobs, NEW d \in BOOLEAN, LocalInv(j, d), Trace(j), SkipIllegal(j)
  PROVE  Trace(j)'
<1>1. stack[j] # <<>> /\ board[j] = Top(j).from
  BY AtItsBoard DEF SkipIllegal
<1>2. Top(j) \in FrameSet(d)
  BY <1>1, TopTyped
<1>3. PICK m \in Candidates(j, Top(j)) :
        Continue(j, [Top(j) EXCEPT !.left = @ \ {m}], board[j])
  BY DEF SkipIllegal
<1> DEFINE g == [Top(j) EXCEPT !.left = @ \ {m}]
<1>4. g \in Frame /\ g.keyed = Top(j).keyed /\ g.from = Top(j).from
  BY <1>2 DEF FrameSet, Frame
<1>5. Continue(j, g, Top(j).from)
  BY <1>1, <1>3
<1> HIDE DEF g
<1> QED
  BY <1>1, <1>4, <1>5, ContinueTrace

LEMMA TryMoveTrace ==
  ASSUME TypeOK, NEW j \in Jobs, NEW d \in BOOLEAN, LocalInv(j, d), Trace(j), TryMove(j)
  PROVE  Trace(j)'
<1> DEFINE f == Top(j)
<1>1. stack[j] # <<>>
  BY DEF TryMove, At
<1>2. f \in FrameSet(d) /\ board[j] \in Board
  BY <1>1, TopTyped
<1>3. PICK m \in Candidates(j, f), late \in BOOLEAN :
       LET g == [f EXCEPT !.left = @ \ {m}, !.move = m]
           n == [g EXCEPT !.hasMove = TRUE, !.quiets = IF late THEN @ + 1 ELSE @]
           b == MakeMove(board[j], m)
       IN IF Reducible(g, late)
            THEN Search(j, Append(Below(j), [n EXCEPT !.phase = "late"]), "Simple",
                        f.depth - 1 - LateMove.reduceDepth, -f.alpha - 1, -f.alpha,
                        NewFlags(g) \union {"LateMoveReduction"}, b)
          ELSE IF IsPv(f) /\ f.hasMove
            THEN Search(j, Append(Below(j), [n EXCEPT !.phase = "zero"]), "Simple",
                        f.depth - 1, -f.alpha - 1, -f.alpha, NewFlags(g), b)
          ELSE FullSearch(j, n, b)
  BY DEF TryMove, Lateness
<1> DEFINE g == [f EXCEPT !.left = @ \ {m}, !.move = m]
           n == [g EXCEPT !.hasMove = TRUE, !.quiets = IF late THEN @ + 1 ELSE @]
           b == MakeMove(board[j], m)
<1>4. m \in Move
  BY <1>2, CandidatesAreMoves
<1>5. b \in Board
  BY <1>2, <1>4, MadeIsBoard
<1>6. g \in FrameSet(d) /\ g.keyed = f.keyed /\ g.from = f.from
  BY <1>2, <1>4, ZenonT(60) DEF FrameSet, Frame
<1>7. n \in FrameSet(d) /\ n.keyed = f.keyed /\ n.from = f.from
  <2> HIDE DEF g
  <2> DEFINE q == IF late THEN g.quiets + 1 ELSE g.quiets
  <2>1. g.quiets \in Nat
    BY <1>6, FrameFields
  <2>2. q \in Nat
    BY <2>1
  <2>3. n = [g EXCEPT !.hasMove = TRUE, !.quiets = q]
    OBVIOUS
  <2> HIDE DEF q, n
  <2> QED
    BY <1>6, <2>2, <2>3 DEF FrameSet, Frame
<1>8. /\ f.depth - 1 \in Int /\ f.depth - 1 - LateMove.reduceDepth \in Int
      /\ -f.alpha - 1 \in Int /\ -f.alpha \in Int
  <2>1. f.depth \in Int /\ f.alpha \in Int
    BY <1>2, FrameFields
  <2>2. LateMove.reduceDepth \in Int
    BY ConstsAssumption
  <2> QED
    BY <2>1, <2>2
<1>9. "Simple" \in Kind
  BY DEF Kind
<1>a. CASE Search(j, Append(Below(j), [n EXCEPT !.phase = "late"]), "Simple",
                   f.depth - 1 - LateMove.reduceDepth, -f.alpha - 1, -f.alpha,
                   NewFlags(g) \union {"LateMoveReduction"}, b)
  <2> DEFINE h == [n EXCEPT !.phase = "late"]
             flags == NewFlags(g) \union {"LateMoveReduction"}
  <2> HIDE DEF n
  <2>1. h \in Frame /\ h.keyed = f.keyed /\ h.from = f.from /\ h.phase \in Searching
    BY <1>7 DEF FrameSet, Frame, Searching
  <2>2. flags \in SUBSET Flag
    BY NewFlagsTyped DEF Flag
  <2> HIDE DEF h
  <2>3. Search(j, Append(Below(j), h), "Simple", f.depth - 1 - LateMove.reduceDepth,
               -f.alpha - 1, -f.alpha, flags, b)
    BY <1>a DEF h
  <2> HIDE DEF flags, b
  <2> QED
    BY <1>1, <1>5, <1>8, <1>9, <2>1, <2>2, <2>3, SearchTrace
<1>b. CASE Search(j, Append(Below(j), [n EXCEPT !.phase = "zero"]), "Simple",
                   f.depth - 1, -f.alpha - 1, -f.alpha, NewFlags(g), b)
  <2> DEFINE h == [n EXCEPT !.phase = "zero"]
             flags == NewFlags(g)
  <2> HIDE DEF n
  <2>1. h \in Frame /\ h.keyed = f.keyed /\ h.from = f.from /\ h.phase \in Searching
    BY <1>7 DEF FrameSet, Frame, Searching
  <2>2. flags \in SUBSET Flag
    BY NewFlagsTyped
  <2> HIDE DEF h
  <2>3. Search(j, Append(Below(j), h), "Simple", f.depth - 1, -f.alpha - 1, -f.alpha, flags, b)
    BY <1>b DEF h
  <2> HIDE DEF flags, b
  <2> QED
    BY <1>1, <1>5, <1>8, <1>9, <2>1, <2>2, <2>3, SearchTrace
<1>c. CASE FullSearch(j, n, b)
  <2> HIDE DEF n, b
  <2> QED
    BY <1>1, <1>5, <1>7, <1>c, FullSearchTrace
<1> QED
  BY <1>3, <1>a, <1>b, <1>c

LEMMA TryCaptureTrace ==
  ASSUME TypeOK, NEW j \in Jobs, NEW d \in BOOLEAN, LocalInv(j, d), Trace(j), TryCapture(j)
  PROVE  Trace(j)'
<1> DEFINE f == Top(j)
<1>1. stack[j] # <<>>
  BY DEF TryCapture, At
<1>2. f \in FrameSet(d) /\ board[j] \in Board
  BY <1>1, TopTyped
<1>3. PICK m \in Candidates(j, f) :
        Quiesce(j, Append(Below(j), [f EXCEPT !.left = @ \ {m}, !.move = m,
                                     !.phase = "full"]),
                -f.beta, -f.alpha, MakeMove(board[j], m))
  BY DEF TryCapture
<1> DEFINE g == [f EXCEPT !.left = @ \ {m}, !.move = m, !.phase = "full"]
           b == MakeMove(board[j], m)
<1>4. m \in Move
  BY <1>2, CandidatesAreMoves
<1>5. b \in Board
  BY <1>2, <1>4, MadeIsBoard
<1>6. g \in Frame /\ g.keyed = f.keyed /\ g.from = f.from /\ g.phase # "razor"
  BY <1>2, <1>4 DEF FrameSet, Frame
<1>7. -f.beta \in Int /\ -f.alpha \in Int
  BY <1>2, FrameFields
<1>8. Quiesce(j, Append(Below(j), g), -f.beta, -f.alpha, b)
  BY <1>3
<1> HIDE DEF g, b
<1> QED
  BY <1>1, <1>5, <1>6, <1>7, <1>8, QuiesceTrace

LEMMA AcceptTrace ==
  ASSUME TypeOK, NEW j \in Jobs, NEW d \in BOOLEAN, Trace(j), stack[j] # <<>>,
         NEW f \in FrameSet(d), f.keyed = Top(j).keyed, f.from = Top(j).from,
         NEW score \in Int, Accept(j, f, score)
  PROVE  Trace(j)'
<1> DEFINE better == score > f.alpha
           best == IF better /\ f.kind # "Quiesce" THEN f.move ELSE f.best
           alpha == MaxOf(f.alpha, score)
           g == [f EXCEPT !.alpha = alpha, !.phase = "moves", !.best = best]
<1>1. /\ f.alpha \in Int /\ f.beta \in Int /\ f.misled \in BOOLEAN
      /\ f.move \in Move \union {NoMove} /\ f.best \in Move \union {NoMove}
  BY FrameFields
<1>2. alpha \in Int /\ best \in Move \union {NoMove}
  BY <1>1, MaxTyped
<1>3. g \in Frame /\ g.keyed = f.keyed /\ g.from = f.from
  <2> HIDE DEF alpha, best
  <2> QED
    BY <1>2 DEF FrameSet, Frame
<1>4. g = [f EXCEPT !.alpha = MaxOf(@, score), !.phase = "moves",
                    !.best = IF better /\ f.kind # "Quiesce" THEN f.move ELSE @]
  OBVIOUS
<1>5. Return(j, f.beta, f.misled, f.from) \/ Continue(j, g, f.from)
  <2> HIDE DEF g
  <2> QED
    BY <1>4 DEF Accept
<1> HIDE DEF g
<1>6. CASE Return(j, f.beta, f.misled, f.from)
  BY <1>1, <1>6, ReturnTrace
<1>7. CASE Continue(j, g, f.from)
  BY <1>3, <1>7, ContinueTrace
<1> QED
  BY <1>5, <1>6, <1>7

LEMMA ResumeTrace ==
  ASSUME TypeOK, NEW j \in Jobs, NEW d \in BOOLEAN, LocalInv(j, d), Trace(j), Resume(j)
  PROVE  Trace(j)'
<1> DEFINE f == Informed(j)
<1>1. Resumes(j) /\ stack[j] # <<>> /\ ret[j] # NoScore
  BY DEF Resume, Resumes
<1>2. /\ f \in FrameSet(d) /\ Top(j) \in FrameSet(d) /\ board[j] \in Board
      /\ ret[j].score \in Int
  BY <1>1, InformedTyped, TopTyped
<1>3. f.keyed = Top(j).keyed /\ f.from = Top(j).from
  BY <1>2 DEF Informed, FrameSet, Frame
<1>4. f.alpha \in Int /\ -ret[j].score \in Int
  BY <1>2, FrameFields
<1>5. Top(j).phase \in {"late", "zero", "full"}
  BY <1>1, <1>2 DEF Resumes, Searching, FrameSet
<1>6. CASE Top(j).phase = "late"
  <2> DEFINE g == [f EXCEPT !.phase = "moves"]
  <2>1. g \in Frame /\ g.keyed = f.keyed /\ g.from = f.from
    <3> HIDE DEF f
    <3> QED
      BY <1>2 DEF FrameSet, Frame
  <2>2. Continue(j, g, f.from) \/ FullSearch(j, f, board[j])
    BY <1>6 DEF Resume, LateDone
  <2> HIDE DEF g, f
  <2>3. CASE Continue(j, g, f.from)
    BY <1>1, <1>3, <2>1, <2>3, ContinueTrace
  <2>4. CASE FullSearch(j, f, board[j])
    BY <1>1, <1>2, <1>3, <2>4, FullSearchTrace
  <2> QED
    BY <2>2, <2>3, <2>4
<1>7. CASE Top(j).phase = "zero"
  <2> DEFINE score == IF -ret[j].score <= f.alpha THEN f.alpha ELSE f.alpha + 1
  <2>1. score \in Int
    BY <1>4
  <2>2. FullSearch(j, f, board[j]) \/ Accept(j, f, score)
    BY <1>7 DEF Resume, ZeroDone
  <2> HIDE DEF score, f
  <2> QED
    BY <1>1, <1>2, <1>3, <2>1, <2>2, FullSearchTrace, AcceptTrace
<1>8. CASE Top(j).phase = "full"
  <2>1. Accept(j, f, -ret[j].score)
    BY <1>8 DEF Resume
  <2> HIDE DEF f
  <2> QED
    BY <1>1, <1>2, <1>3, <1>4, <2>1, AcceptTrace
<1> QED
  BY <1>5, <1>6, <1>7, <1>8

LEMMA CutShortTrace ==
  ASSUME TypeOK, NEW j \in Jobs, Trace(j), CutShort(j)
  PROVE  Trace(j)'
<1>1. PICK score \in Int : score = 0
  OBVIOUS
<1>2. stack[j] # <<>> /\ Return(j, score, TRUE, Top(j).from)
  BY <1>1 DEF CutShort, Resumes
<1> QED
  BY <1>2, ReturnTrace

LEMMA NoMoreMovesTrace ==
  ASSUME TypeOK, NEW j \in Jobs, NEW d \in BOOLEAN, LocalInv(j, d), Trace(j), NoMoreMoves(j)
  PROVE  Trace(j)'
<1> DEFINE f == Top(j)
           mated == IF board[j].pos \in Checked THEN Idepth(j) - Checkmate ELSE 0
<1>1. stack[j] # <<>> /\ board[j] = f.from
  BY AtItsBoard DEF NoMoreMoves
<1>2. f \in FrameSet(d) /\ Idepth(j) \in Int
  BY <1>1, TopTyped
<1>3. f.alpha \in Int /\ f.misled \in BOOLEAN
  BY <1>2, FrameFields
<1>4. mated \in Int
  BY <1>2, ScoreAssumption
<1>5. Return(j, f.alpha, f.misled, f.from) \/ Return(j, mated, f.misled, f.from)
  BY <1>1 DEF NoMoreMoves
<1> HIDE DEF mated
<1> QED
  BY <1>1, <1>3, <1>4, <1>5, ReturnTrace

(* The first call of a depth finds the board and the table as Job::run made  *)
(* them.                                                                     *)
LEMMA BeginTrace ==
  ASSUME IInv, NEW j \in Jobs, Trace(j), Begin(j)
  PROVE  Trace(j)'
<1>1. TypeOK /\ stack[j] = <<>> /\ board[j] = RootBoard
  BY DEF IInv, PcInv, Begin, Trace, Settled
<1> DEFINE b == board[j]
           depth == jobDepth[j]
<1>2. b \in Board /\ depth \in Int /\ -Inf \in Int /\ Inf \in Int
  BY <1>1, ScoreAssumption DEF TypeOK
<1>3. Search(j, <<>>, "Root", depth, -Inf, Inf, {}, b)
  BY DEF Begin
<1>4. Line(<<>>) /\ Keys(<<>>) = {} /\ repetitions[j] = Repeated \union Keys(<<>>)
  BY <1>1 DEF Trace, Keys, KeysAt
<1>5. CASE b.pos \in repetitions[j]
  <2>1. /\ stack'[j] = <<>> /\ repetitions'[j] = repetitions[j] /\ board'[j] = b
    BY <1>1, <1>3, <1>5 DEF Search, TypeOK
  <2> QED
    BY <1>1, <1>4, <2>1 DEF Trace, Settled
<1>6. CASE b.pos \notin repetitions[j]
  <2> DEFINE c == Call("Root", depth, -Inf, Inf, {}, TRUE, b)
             n == Append(<<>>, c)
  <2>1. c \in Frame /\ c.keyed /\ c.from = b /\ c.phase = "enter"
    <3>1. "Root" \in Kind /\ {} \in SUBSET Flag
      BY DEF Kind
    <3> QED
      BY <1>2, <3>1 DEF Call, Frame
  <2>2. /\ stack'[j] = n /\ repetitions'[j] = repetitions[j] \union {b.pos}
        /\ ret'[j] = NoScore /\ board'[j] = b
    BY <1>1, <1>3, <1>6 DEF Search, TypeOK
  <2> HIDE DEF c
  <2>3. PICK s \in Seq(Frame) : s = <<>>
    BY EmptySeq
  <2>4. n = Append(s, c)
    BY <2>3
  <2> HIDE DEF n
  <2>5. /\ c.keyed => c.from.pos \notin Repeated \union Keys(s)
        /\ s = <<>> => c.from = RootBoard
        /\ s # <<>> /\ s[Len(s)].phase = "razor" => c.from = s[Len(s)].from
        /\ Line(s)
    BY <1>1, <1>4, <1>6, <2>1, <2>3
  <2>6. n # <<>> /\ n[Len(n)] = c /\ Line(n)
    BY <2>1, <2>4, <2>5, LinePushed
  <2>7. c.keyed => Keys(n) = Keys(s) \union {c.from.pos}
    BY <2>1, <2>4, KeysPushed
  <2>8. repetitions'[j] = Repeated \union Keys(n)
    BY <1>4, <2>1, <2>2, <2>3, <2>7
  <2>9. Settled(n, ret'[j], board'[j])
    BY <2>1, <2>2, <2>6 DEF Settled
  <2> QED
    BY <2>2, <2>6, <2>8, <2>9 DEF Trace
<1> QED
  BY <1>5, <1>6

(* A step leaves the other jobs alone. *)
LEMMA OthersTrace ==
  ASSUME TypeOK, NEW j \in Jobs, NEW d \in BOOLEAN, LocalStep(j, d),
         NEW i \in Jobs, i # j, Trace(i)
  PROVE  Trace(i)'
<1>1. /\ stack'[i] = stack[i] /\ ret'[i] = ret[i] /\ board'[i] = board[i]
      /\ repetitions'[i] = repetitions[i]
  BY DEF LocalStep, TypeOK
<1> QED
  BY <1>1 DEF Trace

(* The invariant of all jobs. *)
TraceInv == \A j \in Jobs : Trace(j)

LEMMA InitTrace == Init => TraceInv
<1> SUFFICES ASSUME Init, NEW j \in Jobs PROVE Trace(j)
  BY DEF TraceInv
<1>1. stack[j] = <<>> /\ board[j] = RootBoard /\ repetitions[j] = Repeated
  BY DEF Init, RootBoard
<1>2. Line(<<>>) /\ Keys(<<>>) = {}
  BY DEF Line, Keys, KeysAt
<1> QED
  BY <1>1, <1>2 DEF Trace, Settled

LEMMA StepTrace == IInv /\ TraceInv /\ [Next]_vars => TraceInv'
<1> SUFFICES ASSUME IInv, TraceInv, [Next]_vars PROVE TraceInv'
  OBVIOUS
<1>1. TypeOK /\ \A j \in Jobs : Trace(j) /\ LocalInv(j, Dirty(j)) /\ Dirty(j) \in BOOLEAN
  BY DEF IInv, TraceInv, Dirty
<1>2. ASSUME NEW j \in Jobs,
             \/ EnterDraw(j) \/ EnterLeaf(j) \/ EnterHit(j) \/ EnterNode(j) \/ RazorDone(j)
             \/ EnterQuiesce(j) \/ SkipIllegal(j) \/ TryMove(j) \/ TryCapture(j)
             \/ NoMoreMoves(j) \/ Resume(j) \/ CutShort(j)
      PROVE  TraceInv'
  <2> DEFINE d == Dirty(j)
  <2>1. LocalInv(j, d) /\ Trace(j) /\ d \in BOOLEAN
    BY <1>1
  <2> HIDE DEF d
  <2>2. Trace(j)'
    BY <1>1, <1>2, <2>1, EnterTrace, EnterNodeTrace, RazorDoneTrace, EnterQuiesceTrace,
       SkipIllegalTrace, TryMoveTrace, TryCaptureTrace, NoMoreMovesTrace, ResumeTrace,
       CutShortTrace
  <2>3. LocalStep(j, d) \/ LocalStep(j, TRUE)
    BY <1>1, <1>2, <2>1, EnterStep, EnterNodeStep, RazorDoneStep, EnterQuiesceStep,
       SkipIllegalStep, TryMoveStep, TryCaptureStep, NoMoreMovesStep, ResumeStep,
       CutShortStep
  <2>4. \A i \in Jobs : i # j => Trace(i)'
    BY <1>1, <2>1, <2>3, OthersTrace
  <2> QED
    BY <2>2, <2>4 DEF TraceInv
<1>3. ASSUME NEW j \in Jobs, Begin(j) PROVE TraceInv'
  <2> DEFINE d == FALSE
  <2>1. /\ "Root" \in Kind /\ {} \in SUBSET Flag /\ "Root" # "Simple" /\ d \in BOOLEAN
        /\ <<>> \in Seq(FrameSet(d))
    BY DEF Kind
  <2>2. jobDepth[j] \in Int /\ Inf \in Int /\ -Inf \in Int /\ board[j] \in Board
    BY <1>1, ScoreAssumption DEF TypeOK
  <2>3. Search(j, <<>>, "Root", jobDepth[j], -Inf, Inf, {}, board[j])
    BY <1>3 DEF Begin
  <2> HIDE DEF d
  <2>4. LocalStep(j, d)
    BY <1>1, <2>1, <2>2, <2>3, SearchStep
  <2>5. \A i \in Jobs : i # j => Trace(i)'
    BY <1>1, <2>1, <2>4, OthersTrace
  <2>6. Trace(j)'
    BY <1>1, <1>3, BeginTrace
  <2> QED
    BY <2>5, <2>6 DEF TraceInv
<1>4. ASSUME NEW j \in Jobs, Finish(j) PROVE TraceInv'
  <2>1. /\ UNCHANGED <<board, repetitions, stack>> /\ stack[j] = <<>>
        /\ ret' = [ret EXCEPT ![j] = NoScore]
    BY <1>4 DEF Finish
  <2>2. ASSUME NEW i \in Jobs PROVE Trace(i)'
    <3>1. CASE i = j
      BY <1>1, <2>1, <3>1 DEF Trace, Settled
    <3>2. CASE i # j
      <4>1. ret'[i] = ret[i]
        BY <1>1, <2>1, <3>2 DEF TypeOK
      <4> QED
        BY <1>1, <2>1, <4>1 DEF Trace
    <3> QED
      BY <3>1, <3>2
  <2> QED
    BY <2>2 DEF TraceInv
<1>5. CASE UNCHANGED local
  BY <1>1, <1>5 DEF TraceInv, Trace, local
<1>6. ASSUME NEW j \in Jobs, Step(j) PROVE TraceInv'
  BY <1>2, <1>3, <1>4, <1>5, <1>6 DEF Step, EndSearch
<1> QED
  BY <1>5, <1>6 DEF Next, Done, Stop, vars

(* However a search is cut, by a stop, by the clock or by another job, when   *)
(* the calls are gone the board is the root and the repetition table is what  *)
(* Job::run made of the game: each call takes back its move and erases the    *)
(* one position it has entered (search(), MoveMakeGuard).                     *)
THEOREM SearchCleansUp == Spec => []SearchLeavesNoTrace
<1>1. TraceInv => SearchLeavesNoTrace
  <2> SUFFICES ASSUME NEW j \in Jobs, Trace(j)
               PROVE  /\ repetitions[j] = Repeated \union Entered(j)
                      /\ Repeated \intersect Entered(j) = {}
                      /\ stack[j] = <<>> => board[j] = [pos |-> Root, counter |-> RootCounter]
    BY DEF TraceInv, SearchLeavesNoTrace
  <2>1. Keys(stack[j]) = Entered(j)
    BY DEF Keys, KeysAt, Entered
  <2>2. Repeated \intersect Keys(stack[j]) = {}
    BY DEF Trace, Line, Keys, KeysAt
  <2> QED
    BY <2>1, <2>2 DEF Trace, Settled, RootBoard
<1> QED
  BY <1>1, InitTrace, StepTrace, Invariant, PTL DEF Spec

-----------------------------------------------------------------------------
(* The mates of the game: a function of the depth, by induction *)

(* The sets of positions of Fate, one after the other. *)
FateSets == [win : SUBSET Positions, lose : SUBSET Positions]
AtOnce == [win |-> {}, lose |-> {p \in Checked : Legal(p) = {}}]
OnePlyMore(before) ==
  [win |-> {p \in Positions : \E m \in Legal(p) : m.to \in before.lose},
   lose |-> before.lose \union
     {p \in Positions : Legal(p) # {} /\ \A m \in Legal(p) : m.to \in before.win}]

(* A beginning of such a sequence. *)
Begins(N, g) == /\ g \in [0..N -> FateSets] /\ g[0] = AtOnce
                /\ \A i \in 0..N : i < N => g[i + 1] = OnePlyMore(g[i])

LEMMA FateSetsTyped ==
  /\ AtOnce \in FateSets
  /\ \A x \in FateSets : OnePlyMore(x) \in FateSets
BY GameAssumption DEF AtOnce, OnePlyMore, FateSets

LEMMA BeginningsExist == \A N \in Nat : \E g : Begins(N, g)
<1> DEFINE S == {N \in Nat : \E g : Begins(N, g)}
<1>1. 0 \in S
  <2> DEFINE g == [i \in 0..0 |-> AtOnce]
  <2>1. Begins(0, g)
    BY FateSetsTyped DEF Begins
  <2> QED
    BY <2>1
<1>2. ASSUME NEW N \in Nat, N \in S PROVE N + 1 \in S
  <2>1. PICK g : Begins(N, g)
    BY <1>2
  <2> DEFINE h == [i \in 0..(N + 1) |-> IF i = N + 1 THEN OnePlyMore(g[N]) ELSE g[i]]
  <2>2. OnePlyMore(g[N]) \in FateSets
    BY <2>1, FateSetsTyped DEF Begins
  <2>3. h \in [0..(N + 1) -> FateSets] /\ h[0] = AtOnce
    BY <2>1, <2>2 DEF Begins
  <2>4. ASSUME NEW i \in 0..(N + 1), i < N + 1 PROVE h[i + 1] = OnePlyMore(h[i])
    <3>1. i \in 0..N /\ i + 1 \in 0..(N + 1) /\ h[i] = g[i]
      BY <2>4
    <3>2. CASE i = N
      BY <3>1, <3>2
    <3>3. CASE i # N
      <4>1. i < N /\ i + 1 # N + 1 /\ i + 1 \in 0..N
        BY <3>1, <3>3
      <4>2. h[i + 1] = g[i + 1]
        BY <3>1, <4>1
      <4> QED
        BY <2>1, <3>1, <4>1, <4>2 DEF Begins
    <3> QED
      BY <3>2, <3>3
  <2>5. Begins(N + 1, h)
    <3> HIDE DEF h
    <3> QED
      BY <2>3, <2>4 DEF Begins
  <2> QED
    BY <2>5
<1>3. \A n \in Nat : n \in S
  <2> HIDE DEF S
  <2> QED
    BY <1>1, <1>2, NaturalInduction
<1> QED
  BY <1>3

LEMMA BeginningsAgree ==
  ASSUME NEW N \in Nat, NEW K \in Nat, NEW g, NEW h, Begins(N, g), Begins(K, h)
  PROVE  \A i \in Nat : i <= N /\ i <= K => g[i] = h[i]
<1> DEFINE S == {i \in Nat : i <= N /\ i <= K => g[i] = h[i]}
<1>1. 0 \in S
  BY DEF Begins
<1>2. ASSUME NEW i \in Nat, i \in S PROVE i + 1 \in S
  <2> SUFFICES ASSUME i + 1 <= N, i + 1 <= K PROVE g[i + 1] = h[i + 1]
    OBVIOUS
  <2>1. i \in 0..N /\ i < N /\ i \in 0..K /\ i < K /\ g[i] = h[i]
    BY <1>2
  <2> QED
    BY <2>1 DEF Begins
<1>3. \A i \in Nat : i \in S
  <2> HIDE DEF S
  <2> QED
    BY <1>1, <1>2, NaturalInduction
<1> QED
  BY <1>3

LEMMA FateIsDefined ==
  \E f : f = [n \in Nat |-> IF n = 0 THEN AtOnce ELSE OnePlyMore(f[n - 1])]
<1> DEFINE g(n) == CHOOSE x : Begins(n, x)
           f == [n \in Nat |-> g(n)[n]]
<1>1. \A n \in Nat : Begins(n, g(n))
  BY BeginningsExist
<1> HIDE DEF g
<1>2. ASSUME NEW n \in Nat PROVE f[n] = IF n = 0 THEN AtOnce ELSE OnePlyMore(f[n - 1])
  <2>1. CASE n = 0
    BY <1>1, <2>1 DEF Begins
  <2>2. CASE n # 0
    <3>1. n - 1 \in Nat /\ n - 1 \in 0..n /\ n - 1 < n /\ (n - 1) + 1 = n /\ n - 1 <= n
          /\ n - 1 <= n - 1
      BY <2>2
    <3>2. Begins(n, g(n)) /\ Begins(n - 1, g(n - 1))
      BY <1>1, <3>1
    <3>3. g(n)[n] = OnePlyMore(g(n)[n - 1])
      BY <3>1, <3>2 DEF Begins
    <3>4. g(n)[n - 1] = g(n - 1)[n - 1]
      BY <3>1, <3>2, BeginningsAgree
    <3>5. f[n] = g(n)[n] /\ f[n - 1] = g(n - 1)[n - 1]
      BY <3>1
    <3> QED
      BY <2>2, <3>3, <3>4, <3>5
  <2> QED
    BY <2>1, <2>2
<1>3. f = [n \in Nat |-> IF n = 0 THEN AtOnce ELSE OnePlyMore(f[n - 1])]
  <2>1. \A n \in Nat : f[n] = IF n = 0 THEN AtOnce ELSE OnePlyMore(f[n - 1])
    BY <1>2
  <2>2. f = [n \in Nat |-> f[n]]
    OBVIOUS
  <2> HIDE DEF f
  <2> QED
    BY <2>1, <2>2
<1> QED
  BY <1>3

(* So Fate is what its definition says. *)
LEMMA FateUnfolds ==
  \A n \in Nat : Fate[n] = IF n = 0 THEN AtOnce ELSE OnePlyMore(Fate[n - 1])
<1> DEFINE P(f) == f = [n \in Nat |-> IF n = 0 THEN AtOnce ELSE OnePlyMore(f[n - 1])]
<1>1. \E f : P(f)
  BY FateIsDefined
<1>2. Fate = CHOOSE f : P(f)
  BY DEF Fate, AtOnce, OnePlyMore
<1>3. P(Fate)
  <2> HIDE DEF P
  <2> QED
    BY <1>1, <1>2
<1> QED
  BY <1>3

(* The side to move in p mates, or is mated, within n plies. *)
Wins(p, n) == n \in Nat /\ p \in Fate[n].win
Loses(p, n) == n \in Nat /\ p \in Fate[n].lose

(* A mate within n plies is one within more. *)
LEMMA FateGrows ==
  ASSUME NEW n \in Nat
  PROVE  Fate[n].win \subseteq Fate[n + 1].win /\ Fate[n].lose \subseteq Fate[n + 1].lose
<1>0. /\ n + 1 \in Nat /\ n + 1 # 0 /\ (n + 1) - 1 = n
  OBVIOUS
<1>1. ASSUME NEW i \in Nat PROVE Fate[i + 1] = OnePlyMore(Fate[i])
  <2>1. i + 1 \in Nat /\ i + 1 # 0 /\ (i + 1) - 1 = i
    OBVIOUS
  <2> QED
    BY <2>1, FateUnfolds
<1>2. ASSUME NEW i \in Nat PROVE Fate[i].lose \subseteq Fate[i + 1].lose
  <2>1. Fate[i + 1] = OnePlyMore(Fate[i])
    BY <1>1
  <2> HIDE DEF Fate
  <2>2. OnePlyMore(Fate[i]).lose = Fate[i].lose \union
          {p \in Positions : Legal(p) # {} /\ \A m \in Legal(p) : m.to \in Fate[i].win}
    BY DEF OnePlyMore
  <2> QED
    BY <2>1, <2>2
<1>3. CASE n = 0
  <2>0. Fate[0] = AtOnce
    BY FateUnfolds
  <2>1. Fate[n].win = {}
    BY <1>3, <2>0 DEF AtOnce
  <2> QED
    BY <1>2, <2>1
<1>4. CASE n # 0
  <2>1. n - 1 \in Nat /\ (n - 1) + 1 = n
    BY <1>4
  <2>2. Fate[n] = OnePlyMore(Fate[n - 1]) /\ Fate[n + 1] = OnePlyMore(Fate[n])
    BY <1>1, <2>1
  <2>3. Fate[n - 1].lose \subseteq Fate[n].lose
    BY <1>2, <2>1
  <2>4. Fate[n].win \subseteq Fate[n + 1].win
    BY <2>2, <2>3 DEF OnePlyMore
  <2> QED
    BY <1>2, <2>4
<1> QED
  BY <1>3, <1>4

LEMMA MatesStay ==
  ASSUME NEW p, NEW n, NEW m \in Int, n <= m
  PROVE  (Wins(p, n) => Wins(p, m)) /\ (Loses(p, n) => Loses(p, m))
<1> DEFINE S == {k \in Nat : \A i \in Nat : Fate[i].win \subseteq Fate[i + k].win
                                        /\ Fate[i].lose \subseteq Fate[i + k].lose}
<1>1. 0 \in S
  <2> SUFFICES ASSUME NEW i \in Nat
               PROVE  /\ Fate[i].win \subseteq Fate[i + 0].win
                      /\ Fate[i].lose \subseteq Fate[i + 0].lose
    OBVIOUS
  <2>1. i + 0 = i
    OBVIOUS
  <2> QED
    BY <2>1
<1>2. ASSUME NEW k \in Nat, k \in S PROVE k + 1 \in S
  <2> SUFFICES ASSUME NEW i \in Nat
               PROVE  /\ Fate[i].win \subseteq Fate[i + (k + 1)].win
                      /\ Fate[i].lose \subseteq Fate[i + (k + 1)].lose
    OBVIOUS
  <2>1. PICK n1 \in Nat : n1 = i + k /\ i + (k + 1) = n1 + 1
    OBVIOUS
  <2>2. Fate[i].win \subseteq Fate[n1].win /\ Fate[i].lose \subseteq Fate[n1].lose
    BY <1>2, <2>1
  <2>3. /\ Fate[n1].win \subseteq Fate[n1 + 1].win /\ Fate[n1].lose \subseteq Fate[n1 + 1].lose
    BY FateGrows
  <2>4. Fate[i].win \subseteq Fate[n1 + 1].win /\ Fate[i].lose \subseteq Fate[n1 + 1].lose
    BY <2>2, <2>3
  <2> QED
    BY <2>1, <2>4
<1>3. \A k \in Nat : k \in S
  <2> HIDE DEF S
  <2> QED
    BY <1>1, <1>2, NaturalInduction
<1>4. ASSUME n \in Nat PROVE Fate[n].win \subseteq Fate[m].win /\ Fate[n].lose \subseteq Fate[m].lose
  <2>1. m - n \in Nat /\ n + (m - n) = m
    BY <1>4
  <2>2. Fate[n].win \subseteq Fate[n + (m - n)].win /\ Fate[n].lose \subseteq Fate[n + (m - n)].lose
    BY <1>3, <1>4, <2>1
  <2> QED
    BY <2>1, <2>2
<1>5. n \in Nat => m \in Nat
  OBVIOUS
<1> QED
  BY <1>4, <1>5 DEF Wins, Loses

(* The rules: who can move to a lost position wins, and so on. *)
LEMMA MoveWins ==
  ASSUME NEW p \in Positions, NEW m \in Legal(p), NEW n \in Int, Loses(m.to, n - 1)
  PROVE  Wins(p, n)
<1>1. n \in Nat /\ n # 0 /\ n - 1 \in Nat
  BY DEF Loses
<1>2. Fate[n] = OnePlyMore(Fate[n - 1])
  BY <1>1, FateUnfolds
<1> QED
  BY <1>1, <1>2 DEF Loses, Wins, OnePlyMore

LEMMA AllMovesLose ==
  ASSUME NEW p \in Positions, Legal(p) # {}, NEW n \in Int,
         \A m \in Legal(p) : Wins(m.to, n - 1)
  PROVE  Loses(p, n)
<1>1. n \in Nat /\ n # 0 /\ n - 1 \in Nat
  BY DEF Wins
<1>2. Fate[n] = OnePlyMore(Fate[n - 1])
  BY <1>1, FateUnfolds
<1> QED
  BY <1>1, <1>2 DEF Loses, Wins, OnePlyMore

LEMMA MatedNow ==
  ASSUME NEW p \in Checked, Legal(p) = {}
  PROVE  Loses(p, 0)
<1>1. Fate[0] = AtOnce
  BY FateUnfolds
<1>2. p \in Fate[0].lose
  BY <1>1 DEF AtOnce
<1> QED
  BY <1>2 DEF Loses

-----------------------------------------------------------------------------
(* Scores as claims *)

(* What a score s, given to the position p at some ply, claims as a lower and *)
(* as an upper bound.                                                         *)
LowTrue(p, s, ply) == s >= Threshold => Wins(p, Checkmate - s - ply)
HighTrue(p, s, ply) == s <= -Threshold => Loses(p, Checkmate + s - ply)

(* Some position has an evaluation between the thresholds. *)
LEMMA ThresholdIsPositive == Threshold \in Int /\ Threshold >= 1
<1>1. Eval[Root] \in (-Threshold + 1)..(Threshold - 1)
  BY GameAssumption, ScoreAssumption
<1> QED
  BY <1>1, ScoreAssumption

(* A weaker claim is as true. *)
LEMMA LowerIsTrue ==
  ASSUME NEW p, NEW s \in Int, NEW t \in Int, NEW ply \in Int, t <= s, LowTrue(p, s, ply)
  PROVE  LowTrue(p, t, ply)
<1> SUFFICES ASSUME t >= Threshold PROVE Wins(p, Checkmate - t - ply)
  BY DEF LowTrue
<1>1. s >= Threshold /\ Checkmate - s - ply \in Int /\ Checkmate - t - ply \in Int
      /\ Checkmate - s - ply <= Checkmate - t - ply
  BY ScoreAssumption
<1>2. Wins(p, Checkmate - s - ply)
  BY <1>1 DEF LowTrue
<1> HIDE DEF LowTrue
<1> QED
  BY <1>1, <1>2, MatesStay

(* Scores between the thresholds claim nothing. *)
LEMMA NoClaim ==
  ASSUME NEW p, NEW s \in Int, NEW ply \in Int
  PROVE  /\ s < Threshold => LowTrue(p, s, ply)
         /\ s > -Threshold => HighTrue(p, s, ply)
BY ScoreAssumption DEF LowTrue, HighTrue

(* A claim is stored as it is seen from the position, and loaded as it is    *)
(* seen from the root.                                                       *)
LEMMA StoredClaim ==
  ASSUME NEW p, NEW s \in Int, NEW ply \in Nat
  PROVE  /\ LowTrue(p, s, ply) => LowTrue(p, AdjustCheckmate(s, -ply), 0)
         /\ HighTrue(p, s, ply) => HighTrue(p, AdjustCheckmate(s, -ply), 0)
<1> DEFINE a == AdjustCheckmate(s, -ply)
<1>1. CASE s >= Threshold
  <2>1. a = s + ply /\ Checkmate - a - 0 = Checkmate - s - ply /\ ~(a <= -Threshold)
    BY <1>1, ScoreAssumption, ThresholdIsPositive DEF AdjustCheckmate
  <2> HIDE DEF a
  <2> QED
    BY <1>1, <2>1 DEF LowTrue, HighTrue, a
<1>2. CASE s <= -Threshold
  <2>1. a = s - ply /\ Checkmate + a - 0 = Checkmate + s - ply /\ ~(a >= Threshold)
    BY <1>2, ScoreAssumption, ThresholdIsPositive DEF AdjustCheckmate
  <2> HIDE DEF a
  <2> QED
    BY <1>2, <2>1 DEF LowTrue, HighTrue, a
<1>3. CASE s < Threshold /\ s > -Threshold
  <2>1. a = s
    BY <1>3, ScoreAssumption DEF AdjustCheckmate
  <2> QED
    BY <1>3, <2>1, NoClaim
<1> QED
  BY <1>1, <1>2, <1>3, ScoreAssumption

LEMMA LoadedClaim ==
  ASSUME NEW p, NEW s \in Int, NEW ply \in Nat, ply < 2 * Threshold
  PROVE  /\ LowTrue(p, s, 0) => LowTrue(p, AdjustCheckmate(s, ply), ply)
         /\ HighTrue(p, s, 0) => HighTrue(p, AdjustCheckmate(s, ply), ply)
<1> DEFINE a == AdjustCheckmate(s, ply)
<1>1. CASE s >= Threshold
  <2>1. a = s - ply /\ Checkmate - a - ply = Checkmate - s - 0 /\ ~(a <= -Threshold)
    BY <1>1, ScoreAssumption, ThresholdIsPositive DEF AdjustCheckmate
  <2> HIDE DEF a
  <2> QED
    BY <1>1, <2>1 DEF LowTrue, HighTrue, a
<1>2. CASE s <= -Threshold
  <2>1. a = s + ply /\ Checkmate + a - ply = Checkmate + s - 0 /\ ~(a >= Threshold)
    BY <1>2, ScoreAssumption, ThresholdIsPositive DEF AdjustCheckmate
  <2> HIDE DEF a
  <2> QED
    BY <1>2, <2>1 DEF LowTrue, HighTrue, a
<1>3. CASE s < Threshold /\ s > -Threshold
  <2>1. a = s
    BY <1>3, ScoreAssumption DEF AdjustCheckmate
  <2> QED
    BY <1>3, <2>1, NoClaim
<1> QED
  BY <1>1, <1>2, <1>3, ScoreAssumption

(* What a move makes of the claims about the position after it.              *)
LEMMA ClaimAbove ==
  ASSUME NEW p \in Positions, NEW m \in Legal(p), NEW r \in Int, NEW ply \in Nat,
         HighTrue(m.to, r, ply + 1)
  PROVE  LowTrue(p, -r, ply)
<1> SUFFICES ASSUME -r >= Threshold PROVE Wins(p, Checkmate - (-r) - ply)
  BY DEF LowTrue
<1> DEFINE n == Checkmate - (-r) - ply
<1>1. r <= -Threshold /\ Checkmate + r - (ply + 1) = n - 1 /\ n \in Int
  BY ScoreAssumption
<1>2. Loses(m.to, n - 1)
  BY <1>1 DEF HighTrue
<1> HIDE DEF n
<1>3. Wins(p, n)
  BY <1>1, <1>2, MoveWins
<1> QED
  BY <1>3 DEF n

(* A reply that claims to win at least -alpha refutes a move as well as alpha *)
(* claims.                                                                    *)
LEMMA RefutesMove ==
  ASSUME NEW q, NEW r \in Int, NEW alpha \in Int, NEW ply \in Nat,
         LowTrue(q, r, ply + 1), -r <= alpha, alpha <= -Threshold
  PROVE  Wins(q, Checkmate + alpha - ply - 1)
<1>1. r >= Threshold /\ Checkmate - r - (ply + 1) \in Int
      /\ Checkmate + alpha - ply - 1 \in Int
      /\ Checkmate - r - (ply + 1) <= Checkmate + alpha - ply - 1
  BY ScoreAssumption
<1>2. Wins(q, Checkmate - r - (ply + 1))
  BY <1>1 DEF LowTrue
<1> QED
  BY <1>1, <1>2, MatesStay

-----------------------------------------------------------------------------
(* The claims of the table, of the calls and of their results *)

(* What the entries of the table claim, seen from their positions. *)
TableTrue(t) ==
  \A p \in Positions :
    t[p] # NoEntry =>
      /\ t[p].bound # "Upperbound" => LowTrue(p, t[p].score, 0)
      /\ t[p].bound # "Lowerbound" => HighTrue(p, t[p].score, 0)

(* The window of the call that the call f makes for its move. *)
ChildAlpha(f) == IF f.phase = "full" THEN -f.beta ELSE -f.alpha - 1
ChildBeta(f) == -f.alpha

(* A call keeps a window that is not empty, an alpha that is true of its      *)
(* position as soon as it is its own, and, except in quiescence, moves of     *)
(* which each one is still to be tried, is being searched, or loses as fast   *)
(* as alpha says.  Quiescence, which leaves moves out, never claims that its  *)
(* position is lost: it may stand pat.                                        *)
FrameTrue(f, ply) ==
  /\ f.alpha < f.beta /\ f.origAlpha <= f.alpha
  /\ f.alpha > f.origAlpha => LowTrue(f.from.pos, f.alpha, ply)
  /\ f.phase \in {"enter", "razor"} => f.alpha = f.origAlpha /\ ~f.hasMove
  /\ f.phase = "razor" => f.alpha > -Threshold
  /\ f.phase \in {"razor", "null", "late", "zero"} => f.kind # "Quiesce"
  /\ f.kind # "Quiesce" => ply < MaxStack /\ (f.phase # "enter" => ply + 1 < MaxStack)
  /\ f.kind = "Quiesce" /\ f.phase # "enter" => f.alpha > -Threshold
  /\ f.phase \in Searching => f.move \in Legal(f.from.pos)
  /\ f.hasMove => Legal(f.from.pos) # {}
  /\ f.phase \in Searching \union {"moves"} =>
       /\ f.left \subseteq MovesAt[f.from.pos]
       /\ f.kind # "Quiesce" => \A m \in Legal(f.from.pos) \ f.left :
            /\ f.hasMove
            /\ \/ f.phase \in Searching /\ m = f.move
               \/ f.alpha <= -Threshold => Wins(m.to, Checkmate + f.alpha - ply - 1)

(* A call g that the call f has made, and a result that waits for f. *)
LinkTrue(f, g) ==
  f.phase \in Searching =>
    g.from.pos = f.move.to /\ g.origAlpha = ChildAlpha(f) /\ g.beta = ChildBeta(f)

ResultTrue(f, r, b, ply) ==
  f.phase \in Searching /\ r # NoScore =>
    /\ b.pos = f.move.to
    /\ r.score > ChildAlpha(f) => LowTrue(b.pos, r.score, ply + 1)
    /\ r.score < ChildBeta(f) => HighTrue(b.pos, r.score, ply + 1)

(* The same of all the calls of a job. *)
CallsTrue(s) ==
  /\ \A i \in 1..Len(s) : FrameTrue(s[i], i - 1)
  /\ \A i \in 1..Len(s) : i > 1 => LinkTrue(s[i - 1], s[i])

StackTrue(s, r, b) ==
  /\ CallsTrue(s)
  /\ s # <<>> => ResultTrue(s[Len(s)], r, b, Len(s) - 1)

Honest(j) == StackTrue(stack[j], ret[j], board[j])

MateInv == TableTrue(tt) /\ \A j \in Jobs : Honest(j)

(* A call that was just made claims nothing. *)
LEMMA CallIsTrue ==
  ASSUME NEW kind \in Kind, NEW depth, NEW alpha \in Int, NEW beta \in Int, alpha < beta,
         NEW flags, NEW keyed, NEW b \in Board, NEW ply \in Nat,
         kind # "Quiesce" => ply < MaxStack
  PROVE  FrameTrue(Call(kind, depth, alpha, beta, flags, keyed, b), ply)
<1> DEFINE c == Call(kind, depth, alpha, beta, flags, keyed, b)
<1>1. /\ c.kind = kind /\ c.alpha = alpha /\ c.origAlpha = alpha /\ c.beta = beta
      /\ c.phase = "enter" /\ c.hasMove = FALSE
  BY DEF Call
<1> HIDE DEF c
<1>2. c.phase \notin Searching \union {"moves"}
  BY <1>1 DEF Searching
<1> QED
  BY <1>1, <1>2 DEF FrameTrue, c

(* The call on top goes on as f. *)
LEMMA CallsReplaced ==
  ASSUME NEW s \in Seq(Frame), s # <<>>, CallsTrue(s), NEW f \in Frame,
         f.from.pos = s[Len(s)].from.pos, f.origAlpha = s[Len(s)].origAlpha,
         f.beta = s[Len(s)].beta, FrameTrue(f, Len(s) - 1),
         NEW k, k = Append(SubSeq(s, 1, Len(s) - 1), f)
  PROVE  /\ k \in Seq(Frame) /\ k # <<>> /\ k[Len(k)] = f /\ Len(k) = Len(s)
         /\ CallsTrue(k)
<1>1. PICK p : p = SubSeq(s, 1, Len(s) - 1)
  OBVIOUS
<1>2. /\ p \in Seq(Frame) /\ Len(s) \in Nat /\ Len(s) > 0
      /\ Len(p) \in Nat /\ Len(p) = Len(s) - 1
      /\ \A i \in 1..Len(p) : p[i] = s[i]
  BY <1>1, Front
<1>3. k = Append(p, f)
  BY <1>1
<1>4. /\ k \in Seq(Frame) /\ Len(k) = Len(p) + 1
      /\ \A i \in 1..Len(p) : k[i] = p[i]
      /\ k[Len(p) + 1] = f
  BY <1>2, <1>3, AppendProperties
<1>5. /\ k # <<>> /\ Len(k) = Len(s) /\ k[Len(k)] = f
      /\ \A i \in 1..Len(s) : i < Len(s) => k[i] = s[i]
  <2>1. Len(k) = Len(s) /\ k[Len(k)] = f
    BY <1>2, <1>4
  <2>2. k # <<>>
    BY <1>2, <1>4, <2>1, EmptySeq
  <2>3. ASSUME NEW i \in 1..Len(s), i < Len(s) PROVE k[i] = s[i]
    <3>1. i \in 1..Len(p)
      BY <1>2, <2>3
    <3> QED
      BY <1>2, <1>4, <3>1
  <2> QED
    BY <2>1, <2>2, <2>3
<1>6. ASSUME NEW i \in 1..Len(k) PROVE FrameTrue(k[i], i - 1)
  <2>1. CASE i = Len(s)
    BY <1>5, <2>1
  <2>2. CASE i # Len(s)
    <3>1. i \in 1..Len(s) /\ i < Len(s)
      BY <1>2, <1>5, <2>2
    <3> QED
      BY <1>5, <3>1 DEF CallsTrue
  <2> QED
    BY <2>1, <2>2
<1>7. ASSUME NEW i \in 1..Len(k), i > 1 PROVE LinkTrue(k[i - 1], k[i])
  <2>1. i \in 1..Len(s) /\ i - 1 \in 1..Len(s) /\ i - 1 < Len(s)
    BY <1>2, <1>5, <1>7
  <2>2. k[i - 1] = s[i - 1] /\ LinkTrue(s[i - 1], s[i])
    BY <1>5, <1>7, <2>1 DEF CallsTrue
  <2>3. CASE i = Len(s)
    BY <1>5, <2>2, <2>3 DEF LinkTrue
  <2>4. CASE i # Len(s)
    <3>1. k[i] = s[i]
      BY <1>2, <1>5, <2>1, <2>4
    <3> QED
      BY <2>2, <3>1
  <2> QED
    BY <2>3, <2>4
<1> QED
  BY <1>4, <1>5, <1>6, <1>7 DEF CallsTrue

(* The call on top returns r. *)
LEMMA CallsPopped ==
  ASSUME NEW s \in Seq(Frame), s # <<>>, CallsTrue(s), NEW t \in Frame, t = s[Len(s)],
         NEW r, NEW ply, ply = Len(s) - 1,
         r.score > t.origAlpha => LowTrue(t.from.pos, r.score, ply),
         r.score < t.beta => HighTrue(t.from.pos, r.score, ply),
         NEW k, k = SubSeq(s, 1, Len(s) - 1)
  PROVE  StackTrue(k, r, t.from)
<1>1. /\ k \in Seq(Frame) /\ Len(s) \in Nat /\ Len(s) > 0
      /\ Len(k) \in Nat /\ Len(k) = Len(s) - 1 /\ (k = <<>> <=> Len(k) = 0)
      /\ \A i \in 1..Len(k) : k[i] = s[i]
  BY Front
<1>2. ASSUME NEW i \in 1..Len(k) PROVE FrameTrue(k[i], i - 1)
  <2>1. i \in 1..Len(s)
    BY <1>1
  <2> QED
    BY <1>1, <2>1 DEF CallsTrue
<1>3. ASSUME NEW i \in 1..Len(k), i > 1 PROVE LinkTrue(k[i - 1], k[i])
  <2>1. i \in 1..Len(s) /\ i - 1 \in 1..Len(k)
    BY <1>1, <1>3
  <2> QED
    BY <1>1, <1>3, <2>1 DEF CallsTrue
<1>4. ASSUME k # <<>> PROVE ResultTrue(k[Len(k)], r, t.from, Len(k) - 1)
  <2>1. Len(s) \in 1..Len(s) /\ Len(s) > 1 /\ Len(k) \in 1..Len(k)
    BY <1>1, <1>4
  <2>2. LinkTrue(s[Len(s) - 1], s[Len(s)])
    BY <2>1 DEF CallsTrue
  <2>3. k[Len(k)] = s[Len(s) - 1] /\ (Len(k) - 1) + 1 = ply
    BY <1>1, <2>1
  <2>4. LinkTrue(k[Len(k)], t)
    BY <2>2, <2>3
  <2>5. PICK f : f = k[Len(k)]
    OBVIOUS
  <2>6. ResultTrue(f, r, t.from, Len(k) - 1)
    BY <2>3, <2>4, <2>5 DEF LinkTrue, ResultTrue
  <2> QED
    BY <2>5, <2>6
<1> QED
  BY <1>2, <1>3, <1>4 DEF StackTrue, CallsTrue

(* The call c is made. *)
LEMMA CallsPushed ==
  ASSUME NEW s \in Seq(Frame), CallsTrue(s), NEW c \in Frame, FrameTrue(c, Len(s)),
         s # <<>> => LinkTrue(s[Len(s)], c), NEW k, k = Append(s, c)
  PROVE  k # <<>> /\ k[Len(k)] = c /\ CallsTrue(k)
<1>1. /\ k \in Seq(Frame) /\ Len(s) \in Nat /\ Len(k) = Len(s) + 1
      /\ \A i \in 1..Len(s) : k[i] = s[i]
      /\ k[Len(s) + 1] = c
  BY AppendProperties, LenProperties
<1>2. k # <<>> /\ k[Len(k)] = c
  BY <1>1, EmptySeq
<1>3. ASSUME NEW i \in 1..Len(k) PROVE FrameTrue(k[i], i - 1)
  <2>1. CASE i = Len(s) + 1
    BY <1>1, <2>1
  <2>2. CASE i # Len(s) + 1
    <3>1. i \in 1..Len(s)
      BY <1>1, <2>2
    <3> QED
      BY <1>1, <3>1 DEF CallsTrue
  <2> QED
    BY <2>1, <2>2
<1>4. ASSUME NEW i \in 1..Len(k), i > 1 PROVE LinkTrue(k[i - 1], k[i])
  <2>1. i - 1 \in 1..Len(s) /\ k[i - 1] = s[i - 1]
    BY <1>1, <1>4
  <2>2. CASE i = Len(s) + 1
    <3>1. s # <<>> /\ i - 1 = Len(s) /\ k[i] = c
      BY <1>1, <2>1, <2>2, EmptySeq
    <3> QED
      BY <2>1, <3>1
  <2>3. CASE i # Len(s) + 1
    <3>1. i \in 1..Len(s)
      BY <1>1, <2>3
    <3> QED
      BY <1>1, <1>4, <2>1, <3>1 DEF CallsTrue
  <2> QED
    BY <2>2, <2>3
<1> QED
  BY <1>2, <1>3, <1>4 DEF CallsTrue

-----------------------------------------------------------------------------
(* Calls and returns keep the claims true *)

(* What a step may assume of the call on top. *)
LEMMA TopIsTrue ==
  ASSUME TypeOK, NEW j \in Jobs, Honest(j), stack[j] # <<>>
  PROVE  /\ Top(j) \in Frame /\ Idepth(j) \in Nat /\ FrameTrue(Top(j), Idepth(j))
         /\ ResultTrue(Top(j), ret[j], board[j], Idepth(j))
<1>1. PICK s \in Seq(Frame) : s = stack[j]
  BY DEF TypeOK
<1>2. Len(s) \in Nat /\ Len(s) > 0 /\ s[Len(s)] \in Frame
  BY <1>1, EmptySeq, ElementOfSeq
<1>3. Len(s) \in 1..Len(s)
  BY <1>2
<1> QED
  BY <1>1, <1>2, <1>3 DEF Honest, StackTrue, CallsTrue, Top, Idepth

LEMMA ReturnHonest ==
  ASSUME TypeOK, NEW j \in Jobs, Honest(j), stack[j] # <<>>, NEW score \in Int,
         NEW cut \in BOOLEAN, Return(j, score, cut, Top(j).from),
         score > Top(j).origAlpha => LowTrue(Top(j).from.pos, score, Idepth(j)),
         score < Top(j).beta => HighTrue(Top(j).from.pos, score, Idepth(j))
  PROVE  Honest(j)'
<1> DEFINE r == [score |-> score, cut |-> cut]
<1>1. r.score = score
  OBVIOUS
<1>2. stack'[j] = Below(j) /\ ret'[j] = r /\ board'[j] = Top(j).from
  BY DEF Return, TypeOK
<1> HIDE DEF r
<1>3. PICK s \in Seq(Frame) : s = stack[j]
  BY DEF TypeOK
<1>4. /\ s # <<>> /\ CallsTrue(s) /\ Top(j) = s[Len(s)] /\ Idepth(j) = Len(s) - 1
      /\ Below(j) = SubSeq(s, 1, Len(s) - 1)
  BY <1>3 DEF Honest, StackTrue, Top, Idepth, Below
<1>5. Top(j) \in Frame
  BY TopIsTrue
<1>6. StackTrue(Below(j), r, Top(j).from)
  BY <1>1, <1>3, <1>4, <1>5, CallsPopped
<1> QED
  BY <1>2, <1>6 DEF Honest

(* The top call as f, which is no other call. *)
SameCall(f, t) ==
  f.from = t.from /\ f.origAlpha = t.origAlpha /\ f.beta = t.beta

LEMMA TopStaysTrue ==
  ASSUME TypeOK, NEW j \in Jobs, Honest(j), stack[j] # <<>>, NEW f \in Frame,
         SameCall(f, Top(j)), FrameTrue(f, Idepth(j)), NEW k, k = Append(Below(j), f)
  PROVE  /\ k \in Seq(Frame) /\ k # <<>> /\ k[Len(k)] = f /\ Len(k) - 1 = Idepth(j)
         /\ CallsTrue(k)
<1>1. PICK s \in Seq(Frame) : s = stack[j]
  BY DEF TypeOK
<1>2. /\ s # <<>> /\ CallsTrue(s) /\ Top(j) = s[Len(s)] /\ Idepth(j) = Len(s) - 1
      /\ k = Append(SubSeq(s, 1, Len(s) - 1), f)
  BY <1>1 DEF Honest, StackTrue, Top, Idepth, Below
<1>3. /\ f.from.pos = s[Len(s)].from.pos /\ f.origAlpha = s[Len(s)].origAlpha
      /\ f.beta = s[Len(s)].beta /\ FrameTrue(f, Len(s) - 1)
  BY <1>2 DEF SameCall
<1> QED
  BY <1>2, <1>3, CallsReplaced

LEMMA ContinueHonest ==
  ASSUME TypeOK, NEW j \in Jobs, Honest(j), stack[j] # <<>>, NEW f \in Frame,
         SameCall(f, Top(j)), FrameTrue(f, Idepth(j)), NEW b, Continue(j, f, b)
  PROVE  Honest(j)'
<1> DEFINE k == Append(Below(j), f)
<1>1. k = Append(Below(j), f)
  OBVIOUS
<1>2. stack'[j] = k /\ ret'[j] = NoScore /\ board'[j] = b
  BY DEF Continue, TypeOK
<1> HIDE DEF k
<1>3. CallsTrue(k)
  BY <1>1, TopStaysTrue
<1> QED
  BY <1>2, <1>3 DEF Honest, StackTrue, ResultTrue

LEMMA SearchHonest ==
  ASSUME TypeOK, NEW j \in Jobs, Honest(j), stack[j] # <<>>, NEW f \in Frame,
         SameCall(f, Top(j)), FrameTrue(f, Idepth(j)), f.kind # "Quiesce",
         f.phase \in Searching,
         NEW kind \in Kind, NEW depth \in Int, NEW alpha \in Int, NEW beta \in Int,
         NEW flags \in SUBSET Flag, NEW b \in Board,
         alpha = ChildAlpha(f), beta = ChildBeta(f), alpha < beta, b.pos = f.move.to,
         Search(j, Append(Below(j), f), kind, depth, alpha, beta, flags, b)
  PROVE  Honest(j)'
<1> DEFINE k == Append(Below(j), f)
<1>1. k = Append(Below(j), f)
  OBVIOUS
<1>2. CASE b.pos \in repetitions[j]
  <2> DEFINE r == [score |-> 0, cut |-> FALSE]
  <2>1. r.score = 0
    OBVIOUS
  <2>2. stack'[j] = k /\ ret'[j] = r /\ board'[j] = b
    BY <1>2 DEF Search, TypeOK
  <2> HIDE DEF k, r
  <2>3. k # <<>> /\ k[Len(k)] = f /\ CallsTrue(k) /\ Idepth(j) \in Nat
    BY <1>1, TopStaysTrue, TopIsTrue, ZenonT(60)
  <2>4. PICK zero \in Int : zero = 0
    OBVIOUS
  <2>6. zero < Threshold /\ zero > -Threshold /\ Len(k) - 1 + 1 \in Int
    BY <2>3, <2>4, ThresholdIsPositive, <1>1, TopStaysTrue
  <2>5. ResultTrue(k[Len(k)], r, b, Len(k) - 1)
    BY <2>1, <2>3, <2>4, <2>6, NoClaim DEF ResultTrue
  <2> QED
    BY <2>2, <2>3, <2>5 DEF Honest, StackTrue
<1>3. CASE b.pos \notin repetitions[j]
  <2> DEFINE c == Call(kind, depth, alpha, beta, flags, TRUE, b)
             n == Append(k, c)
  <2>1. c \in Frame /\ c.from = b /\ c.origAlpha = alpha /\ c.beta = beta
    BY DEF Call, Frame
  <2>2. stack'[j] = n /\ ret'[j] = NoScore
    BY <1>3 DEF Search, TypeOK
  <2> HIDE DEF k
  <2>3. /\ k \in Seq(Frame) /\ k # <<>> /\ k[Len(k)] = f /\ CallsTrue(k)
        /\ Len(k) - 1 = Idepth(j) /\ Idepth(j) \in Nat
    BY <1>1, TopStaysTrue, TopIsTrue, ZenonT(60)
  <2>4. Len(k) \in Nat /\ Len(k) = Idepth(j) + 1
    BY <2>3, LenProperties
  <2>5. Len(k) < MaxStack
    BY <2>4 DEF FrameTrue, Searching
  <2>6. FrameTrue(c, Len(k))
    BY <2>4, <2>5, CallIsTrue
  <2> HIDE DEF c
  <2>7. n = Append(k, c)
    OBVIOUS
  <2> HIDE DEF n
  <2>8. LinkTrue(f, c)
    BY <2>1 DEF LinkTrue
  <2>9. CallsTrue(n)
    BY <2>1, <2>3, <2>6, <2>7, <2>8, CallsPushed
  <2> QED
    BY <2>2, <2>9 DEF Honest, StackTrue, ResultTrue
<1> QED
  BY <1>2, <1>3

LEMMA QuiesceHonest ==
  ASSUME TypeOK, NEW j \in Jobs, Honest(j), stack[j] # <<>>, NEW f \in Frame,
         SameCall(f, Top(j)), FrameTrue(f, Idepth(j)),
         NEW alpha \in Int, NEW beta \in Int, NEW b \in Board, alpha < beta,
         f.phase \in Searching =>
           alpha = ChildAlpha(f) /\ beta = ChildBeta(f) /\ b.pos = f.move.to,
         Quiesce(j, Append(Below(j), f), alpha, beta, b)
  PROVE  Honest(j)'
<1> DEFINE k == Append(Below(j), f)
           c == Call("Quiesce", 0, alpha, beta, {}, FALSE, b)
           n == Append(k, c)
<1>1. k = Append(Below(j), f)
  OBVIOUS
<1>2. stack'[j] = n /\ ret'[j] = NoScore
  BY DEF Quiesce, TypeOK
<1>3. "Quiesce" \in Kind /\ {} \in SUBSET Flag
  BY DEF Kind
<1>4. c \in Frame /\ c.from = b /\ c.origAlpha = alpha /\ c.beta = beta
  BY <1>3 DEF Call, Frame
<1> HIDE DEF k
<1>5. /\ k \in Seq(Frame) /\ k # <<>> /\ k[Len(k)] = f /\ CallsTrue(k)
  BY <1>1, TopStaysTrue
<1>6. Len(k) \in Nat
  BY <1>5, LenProperties
<1>7. FrameTrue(c, Len(k))
  BY <1>3, <1>6, CallIsTrue
<1> HIDE DEF c
<1>8. n = Append(k, c)
  OBVIOUS
<1> HIDE DEF n
<1>9. LinkTrue(f, c)
  BY <1>4 DEF LinkTrue
<1>10. CallsTrue(n)
  BY <1>4, <1>5, <1>7, <1>8, <1>9, CallsPushed
<1> QED
  BY <1>2, <1>10 DEF Honest, StackTrue, ResultTrue

-----------------------------------------------------------------------------
(* So does each action *)

(* A call that is cut or sees a draw claims nothing. *)
LEMMA DrawHonest ==
  ASSUME TypeOK, NEW j \in Jobs, Honest(j), stack[j] # <<>>, NEW cut \in BOOLEAN,
         Return(j, 0, cut, Top(j).from)
  PROVE  Honest(j)'
<1>1. PICK score \in Int : score = 0
  OBVIOUS
<1>2. Return(j, score, cut, Top(j).from)
  BY <1>1
<1>3. score < Threshold /\ score > -Threshold /\ Idepth(j) \in Int
  BY <1>1, TopIsTrue, ThresholdIsPositive
<1>4. /\ LowTrue(Top(j).from.pos, score, Idepth(j))
      /\ HighTrue(Top(j).from.pos, score, Idepth(j))
  BY <1>3, NoClaim
<1> QED
  BY <1>2, <1>4, ReturnHonest

LEMMA EnterDrawHonest ==
  ASSUME TypeOK, NEW j \in Jobs, Trace(j), Honest(j), EnterDraw(j)
  PROVE  Honest(j)'
<1>1. stack[j] # <<>> /\ Return(j, 0, FALSE, Top(j).from)
  BY AtItsBoard DEF EnterDraw
<1> QED
  BY <1>1, DrawHonest

LEMMA CutShortHonest ==
  ASSUME TypeOK, NEW j \in Jobs, Honest(j), CutShort(j)
  PROVE  Honest(j)'
<1>1. stack[j] # <<>> /\ Return(j, 0, TRUE, Top(j).from)
  BY DEF CutShort, Resumes
<1> QED
  BY <1>1, DrawHonest

(* A call that was just entered. *)
LEMMA EnteredIsTrue ==
  ASSUME TypeOK, NEW j \in Jobs, NEW d \in BOOLEAN, LocalInv(j, d), Trace(j), Honest(j),
         At(j, "enter")
  PROVE  /\ stack[j] # <<>> /\ board[j] = Top(j).from /\ board[j] \in Board
         /\ Top(j) \in FrameSet(d) /\ Top(j) \in Frame
         /\ Top(j).alpha \in Int /\ Top(j).beta \in Int /\ Top(j).alpha < Top(j).beta
         /\ Top(j).origAlpha = Top(j).alpha /\ Top(j).hasMove = FALSE
         /\ Idepth(j) \in Nat
         /\ Top(j).phase = "enter" /\ FrameTrue(Top(j), Idepth(j))
<1>1. stack[j] # <<>> /\ board[j] = Top(j).from /\ Top(j).phase = "enter"
  BY AtItsBoard DEF At
<1>2. board[j] \in Board /\ Top(j) \in FrameSet(d)
  BY <1>1, TopTyped
<1>3. Top(j).alpha \in Int /\ Top(j).beta \in Int /\ Top(j) \in Frame
  BY <1>2, FrameFields
<1>4. Idepth(j) \in Nat /\ FrameTrue(Top(j), Idepth(j))
  BY <1>1, TopIsTrue
<1>5. /\ Top(j).alpha < Top(j).beta /\ Top(j).origAlpha = Top(j).alpha
      /\ ~Top(j).hasMove
  BY <1>1, <1>4 DEF FrameTrue
<1>6. Top(j).hasMove = FALSE
  BY <1>3, <1>5 DEF Frame
<1> QED
  BY <1>1, <1>2, <1>3, <1>4, <1>5, <1>6

LEMMA EnterLeafHonest ==
  ASSUME TypeOK, NEW j \in Jobs, NEW d \in BOOLEAN, LocalInv(j, d), Trace(j), Honest(j),
         EnterLeaf(j)
  PROVE  Honest(j)'
<1> DEFINE f == Top(j)
<1>1. /\ stack[j] # <<>> /\ board[j] = f.from /\ f \in Frame
      /\ f.alpha \in Int /\ f.beta \in Int /\ f.alpha < f.beta /\ f.origAlpha = f.alpha
      /\ f.hasMove = FALSE /\ f.phase = "enter" /\ Idepth(j) \in Nat
  BY EnteredIsTrue DEF EnterLeaf
<1>2. CASE f.alpha >= Threshold /\ Return(j, f.alpha, FALSE, f.from)
  <2>1. f.alpha > -Threshold
    BY <1>1, <1>2, ThresholdIsPositive
  <2>2. HighTrue(f.from.pos, f.alpha, Idepth(j))
    BY <1>1, <2>1, NoClaim
  <2>3. ~(f.alpha > f.origAlpha)
    BY <1>1
  <2> HIDE DEF f
  <2> QED
    BY <1>1, <1>2, <2>2, <2>3, ReturnHonest DEF f
<1>3. CASE f.beta <= -Threshold /\ Return(j, f.beta, FALSE, f.from)
  <2>1. f.beta < Threshold
    BY <1>1, <1>3, ThresholdIsPositive
  <2>2. LowTrue(f.from.pos, f.beta, Idepth(j))
    BY <1>1, <2>1, NoClaim
  <2>3. ~(f.beta < f.beta)
    BY <1>1
  <2> QED
    BY <1>1, <1>3, <2>2, <2>3, ReturnHonest
<1>4. CASE Continue(j, [f EXCEPT !.kind = "Quiesce"], board[j])
  <2> DEFINE g == [f EXCEPT !.kind = "Quiesce"]
  <2>1. /\ g \in Frame /\ SameCall(g, f) /\ g.kind = "Quiesce" /\ g.alpha = f.alpha
        /\ g.origAlpha = f.origAlpha /\ g.beta = f.beta /\ g.hasMove = FALSE
        /\ g.phase = "enter"
    <3> HIDE DEF f
    <3> QED
      BY <1>1 DEF Frame, Kind, SameCall
  <2>2. Continue(j, g, board[j])
    BY <1>4
  <2> HIDE DEF g
  <2>3. g.phase \notin Searching \union {"moves"}
    BY <2>1 DEF Searching
  <2>4. FrameTrue(g, Idepth(j))
    BY <1>1, <2>1, <2>3 DEF FrameTrue
  <2> QED
    BY <1>1, <2>1, <2>2, <2>4, ContinueHonest
<1> QED
  BY <1>1, <1>2, <1>3, <1>4 DEF EnterLeaf

(* An entry of the table claims no more than it may, seen from the root. *)
LEMMA EnterHitHonest ==
  ASSUME TypeOK, TableTrue(tt), NEW j \in Jobs, NEW d \in BOOLEAN, LocalInv(j, d),
         Trace(j), Honest(j), EnterHit(j)
  PROVE  Honest(j)'
<1> DEFINE f == Top(j)
           ply == Idepth(j)
           pos == f.from.pos
<1>1. /\ stack[j] # <<>> /\ board[j] = f.from /\ f \in Frame /\ pos \in Positions
      /\ f.alpha \in Int /\ f.beta \in Int /\ f.alpha < f.beta /\ f.origAlpha = f.alpha
      /\ ply \in Nat /\ FrameTrue(f, ply) /\ f.kind # "Quiesce"
  BY EnteredIsTrue DEF EnterHit, Board
<1>2. PICK e \in Loads(pos) : CutsOff(j, f, e) /\ Return(j, LoadedScore(j, e), FALSE, f.from)
  BY <1>1 DEF EnterHit
<1>3. e = tt[pos] /\ e # NoEntry /\ e \in Entry
  BY <1>1, <1>2 DEF CutsOff, Loads, TypeOK
<1>4. e.score \in Int /\ e.bound \in Bound
  BY <1>3 DEF Entry
<1>5. /\ e.bound # "Upperbound" => LowTrue(pos, e.score, 0)
      /\ e.bound # "Lowerbound" => HighTrue(pos, e.score, 0)
  BY <1>1, <1>3 DEF TableTrue
<1> DEFINE score == LoadedScore(j, e)
<1>6. score = AdjustCheckmate(e.score, ply) /\ score \in Int
  <2>1. score = AdjustCheckmate(e.score, ply)
    BY DEF LoadedScore
  <2> HIDE DEF score, ply
  <2>2. e.score \in Int /\ ply \in Int
    BY <1>1, <1>4
  <2>3. AdjustCheckmate(e.score, ply) \in Int
    BY <2>2, ScoresTyped
  <2> QED
    BY <2>1, <2>3
<1>7. ply < 2 * Threshold
  BY <1>1, PlyAssumption, ScoreAssumption, ConstsAssumption DEF FrameTrue
<1>8. /\ e.bound # "Upperbound" => LowTrue(pos, score, ply)
      /\ e.bound # "Lowerbound" => HighTrue(pos, score, ply)
  <2> HIDE DEF ply, pos, score
  <2>1. ply \in Nat /\ e.score \in Int
    BY <1>1, <1>4
  <2>2. /\ LowTrue(pos, e.score, 0) => LowTrue(pos, AdjustCheckmate(e.score, ply), ply)
        /\ HighTrue(pos, e.score, 0) => HighTrue(pos, AdjustCheckmate(e.score, ply), ply)
    BY <1>7, <2>1, LoadedClaim
  <2> QED
    BY <1>5, <1>6, <2>2
<1>9. /\ e.bound = "Lowerbound" => score >= f.beta
      /\ e.bound = "Upperbound" => f.alpha >= score
  BY <1>2 DEF CutsOff, IsCutoff
<1> HIDE DEF score
<1>10. /\ score > f.origAlpha => LowTrue(pos, score, ply)
       /\ score < f.beta => HighTrue(pos, score, ply)
  BY <1>1, <1>6, <1>8, <1>9
<1>11. Return(j, score, FALSE, f.from)
  BY <1>2 DEF score
<1> QED
  BY <1>1, <1>6, <1>10, <1>11, ReturnHonest

(* A call that goes on to the moves of its position has tried none of them. *)
LEMMA OnwardHonest ==
  ASSUME TypeOK, NEW j \in Jobs, NEW d \in BOOLEAN, LocalInv(j, d), Honest(j),
         stack[j] # <<>>, board[j] = Top(j).from, NEW f \in FrameSet(d),
         f.kind # "Quiesce", SameCall(f, Top(j)), f.alpha < f.beta,
         f.origAlpha = f.alpha, f.hasMove = FALSE, Idepth(j) + 1 < MaxStack, Onward(j, f)
  PROVE  Honest(j)'
<1> DEFINE left == MovesAt[board[j].pos]
           g == [f EXCEPT !.phase = "moves", !.left = left]
<1>1. ~CanNullMove(f, board[j].pos)
  <2>1. IsPv(f) \/ "Capture" \in f.flags
    BY DEF FrameSet, Frame, Kind, IsPv
  <2> QED
    BY <2>1 DEF CanNullMove, MayPrune, NullMoveDisable
<1>2. left \in SUBSET Move /\ board[j].pos = f.from.pos
  BY TopTyped, GameAssumption DEF SameCall
<1>3. Continue(j, g, board[j])
  BY <1>1 DEF Onward
<1>7. left = MovesAt[board[j].pos]
  OBVIOUS
<1> HIDE DEF left
<1>4. /\ g \in Frame /\ SameCall(g, f) /\ g.kind = f.kind /\ g.alpha = f.alpha
      /\ g.origAlpha = f.origAlpha /\ g.beta = f.beta /\ g.hasMove = FALSE
      /\ g.phase = "moves" /\ g.left = left /\ g.from = f.from
  BY <1>2 DEF FrameSet, Frame, SameCall
<1> HIDE DEF g
<1>5. /\ f.alpha \in Int /\ Idepth(j) \in Nat
      /\ Idepth(j) < MaxStack
  BY FrameFields, TopIsTrue, ConstsAssumption
<1>6. FrameTrue(g, Idepth(j))
  <2>1. Legal(g.from.pos) \ g.left = {} /\ g.left \subseteq MovesAt[g.from.pos]
    BY <1>2, <1>4, <1>7 DEF Legal
  <2>2. "moves" \notin Searching
    BY DEF Searching
  <2> QED
    BY <1>4, <1>5, <2>1, <2>2 DEF FrameTrue
<1>8. SameCall(g, Top(j))
  BY <1>4 DEF SameCall
<1> QED
  BY <1>3, <1>4, <1>6, <1>8, ContinueHonest

LEMMA EnterNodeHonest ==
  ASSUME TypeOK, NEW j \in Jobs, NEW d \in BOOLEAN, LocalInv(j, d), Trace(j), Honest(j),
         EnterNode(j)
  PROVE  Honest(j)'
<1> DEFINE t == Top(j)
           b == board[j]
<1>1. /\ stack[j] # <<>> /\ b = t.from /\ t \in Frame /\ t \in FrameSet(d)
      /\ b \in Board /\ b.pos \in Positions
      /\ t.alpha \in Int /\ t.beta \in Int /\ t.alpha < t.beta /\ t.origAlpha = t.alpha
      /\ t.hasMove = FALSE /\ t.phase = "enter" /\ t.kind # "Quiesce"
      /\ Idepth(j) \in Nat /\ FrameTrue(t, Idepth(j))
  BY EnteredIsTrue DEF EnterNode, Board
<1>2. Idepth(j) + 1 < MaxStack
  <2>1. Idepth(j) < MaxStack
    BY <1>1 DEF FrameTrue
  <2>2. Idepth(j) + 1 # MaxStack
    <3>1. Len(stack[j]) \in Nat /\ Len(stack[j]) # MaxStack
      BY LenProperties DEF EnterNode, IsLeaf, TypeOK
    <3> QED
      BY <3>1 DEF Idepth
  <2> QED
    BY <1>1, <2>1, <2>2, ConstsAssumption
<1>3. PICK e \in Loads(b.pos) :
        LET g == [t EXCEPT !.hash = HashMove(e)] IN
        IF Futile(t, b.pos) THEN Return(j, t.beta, FALSE, b)
        ELSE IF Razored(t, b.pos)
          THEN Quiesce(j, Append(Below(j), [g EXCEPT !.phase = "razor"]),
                       Razor(t), Razor(t) + 1, b)
          ELSE Onward(j, g)
  BY DEF EnterNode
<1> DEFINE g == [t EXCEPT !.hash = HashMove(e)]
<1>4. HashMove(e) \in Move \union {NoMove}
  BY <1>1 DEF HashMove, Loads, TypeOK, Entry
<1>5. /\ g \in FrameSet(d) /\ SameCall(g, t) /\ g.kind = t.kind /\ g.alpha = t.alpha
      /\ g.origAlpha = t.origAlpha /\ g.beta = t.beta /\ g.hasMove = FALSE
  <2> HIDE DEF t
  <2> QED
    BY <1>1, <1>4 DEF FrameSet, Frame, SameCall
<1>6. CASE Futile(t, b.pos) /\ Return(j, t.beta, FALSE, b)
  <2>1. t.beta < Threshold
    BY <1>1, <1>6, ScoreAssumption DEF Futile, MayPrune, MateBounds
  <2>2. LowTrue(t.from.pos, t.beta, Idepth(j))
    BY <1>1, <2>1, NoClaim
  <2>3. ~(t.beta < t.beta)
    BY <1>1
  <2> QED
    BY <1>1, <1>6, <2>2, <2>3, ReturnHonest
<1>7. CASE Razored(t, b.pos) /\ Quiesce(j, Append(Below(j), [g EXCEPT !.phase = "razor"]),
                                        Razor(t), Razor(t) + 1, b)
  <2> DEFINE h == [g EXCEPT !.phase = "razor"]
             r == Razor(t)
  <2>1. t.depth <= Razoring.maxDepth /\ t.depth > 0
    BY <1>1, <1>7, FrameFields DEF Razored, EnterNode, IsLeaf
  <2>2. t.alpha > -Threshold
    BY <1>1, <1>7, ScoreAssumption DEF Razored, MayPrune, MateBounds
  <2>3. r \in Int
    BY <1>1, <2>1, RazorTyped
  <2>4. /\ h \in Frame /\ SameCall(h, t) /\ h.kind = t.kind /\ h.alpha = t.alpha
        /\ h.origAlpha = t.origAlpha /\ h.beta = t.beta /\ h.hasMove = FALSE
        /\ h.phase = "razor"
    <3> HIDE DEF g, t
    <3> QED
      BY <1>5 DEF FrameSet, Frame, SameCall
  <2>5. Quiesce(j, Append(Below(j), h), r, r + 1, b)
    BY <1>7
  <2> HIDE DEF h, g, r
  <2>6. "razor" \notin Searching \union {"moves"}
    BY DEF Searching
  <2>7. FrameTrue(h, Idepth(j))
    BY <1>1, <1>2, <2>2, <2>4, <2>6, ConstsAssumption DEF FrameTrue
  <2>8. r + 1 \in Int /\ r < r + 1
    BY <2>3
  <2> QED
    BY <1>1, <2>3, <2>4, <2>5, <2>6, <2>7, <2>8, QuiesceHonest
<1>8. CASE Onward(j, g)
  <2> HIDE DEF g
  <2> QED
    BY <1>1, <1>2, <1>5, <1>8, OnwardHonest
<1> QED
  BY <1>3, <1>6, <1>7, <1>8

LEMMA RazorDoneHonest ==
  ASSUME TypeOK, NEW j \in Jobs, NEW d \in BOOLEAN, LocalInv(j, d), Trace(j), Honest(j),
         RazorDone(j)
  PROVE  Honest(j)'
<1> DEFINE t == Top(j)
<1>1. stack[j] # <<>> /\ ret[j] # NoScore /\ t.phase = "razor" /\ board[j] = t.from
  BY DEF RazorDone, Trace, Settled, Top
<1>2. t \in FrameSet(d) /\ ret[j].cut \in BOOLEAN
  BY <1>1, TopTyped
<1>3. t.alpha \in Int /\ t.beta \in Int /\ t \in Frame
  BY <1>2, FrameFields
<1>4. Idepth(j) \in Nat /\ FrameTrue(t, Idepth(j))
  BY <1>1, TopIsTrue
<1>5. /\ t.alpha < t.beta /\ t.origAlpha = t.alpha /\ ~t.hasMove
      /\ t.kind # "Quiesce" /\ t.alpha > -Threshold /\ Idepth(j) + 1 < MaxStack
  BY <1>1, <1>4 DEF FrameTrue
<1>6. CASE Return(j, t.alpha, ret[j].cut, board[j])
  <2>1. HighTrue(t.from.pos, t.alpha, Idepth(j))
    BY <1>3, <1>4, <1>5, NoClaim
  <2>2. ~(t.alpha > t.origAlpha)
    BY <1>3, <1>5
  <2> QED
    BY <1>1, <1>2, <1>3, <1>6, <2>1, <2>2, ReturnHonest
<1>7. CASE Onward(j, t)
  <2>1. SameCall(t, Top(j)) /\ t.hasMove = FALSE
    BY <1>3, <1>5 DEF SameCall, Frame
  <2> QED
    BY <1>1, <1>2, <1>5, <1>7, <2>1, OnwardHonest
<1> QED
  BY <1>6, <1>7 DEF RazorDone

LEMMA EnterQuiesceHonest ==
  ASSUME TypeOK, NEW j \in Jobs, NEW d \in BOOLEAN, LocalInv(j, d), Trace(j), Honest(j),
         EnterQuiesce(j)
  PROVE  Honest(j)'
<1> DEFINE f == Top(j)
           pos == board[j].pos
           alpha == MaxOf(f.alpha, Eval[pos])
           left == {m \in MovesAt[pos] : m.kind \in {"capture", "promote"}}
           g == [f EXCEPT !.alpha = alpha, !.phase = "moves", !.left = left]
<1>1. /\ stack[j] # <<>> /\ board[j] = f.from /\ f \in Frame
      /\ board[j] \in Board /\ pos \in Positions /\ f.kind = "Quiesce"
      /\ f.alpha \in Int /\ f.beta \in Int /\ f.alpha < f.beta /\ f.origAlpha = f.alpha
      /\ f.hasMove = FALSE /\ Idepth(j) \in Nat
  BY EnteredIsTrue DEF EnterQuiesce, Board
<1>2. Eval[pos] \in Int /\ Eval[pos] > -Threshold /\ Eval[pos] < Threshold
  BY <1>1, ScoreAssumption
<1>3. /\ alpha \in Int /\ f.alpha <= alpha /\ alpha > -Threshold
      /\ alpha > f.alpha => alpha = Eval[pos]
  BY <1>1, <1>2, ScoreAssumption DEF MaxOf
<1>4. left \in SUBSET Move /\ left \subseteq MovesAt[pos]
  BY <1>1, GameAssumption
<1>5. \/ Return(j, 0, FALSE, f.from)
      \/ alpha >= f.beta /\ Return(j, f.beta, FALSE, f.from)
      \/ ~(alpha >= f.beta) /\ Continue(j, g, f.from)
  BY <1>1 DEF EnterQuiesce
<1> HIDE DEF alpha, left
<1>6. /\ g \in Frame /\ SameCall(g, f) /\ g.kind = "Quiesce" /\ g.alpha = alpha
      /\ g.origAlpha = f.alpha /\ g.beta = f.beta /\ g.hasMove = FALSE
      /\ g.phase = "moves" /\ g.left = left /\ g.from = f.from
  <2> HIDE DEF f
  <2> QED
    BY <1>1, <1>3, <1>4 DEF Frame, SameCall
<1> HIDE DEF g
<1>7. CASE Return(j, 0, FALSE, f.from)
  BY <1>1, <1>7, DrawHonest
<1>8. CASE alpha >= f.beta /\ Return(j, f.beta, FALSE, f.from)
  <2>1. f.beta < Threshold
    BY <1>1, <1>2, <1>3, <1>8, ScoreAssumption
  <2>2. LowTrue(f.from.pos, f.beta, Idepth(j))
    BY <1>1, <2>1, NoClaim
  <2>3. ~(f.beta < f.beta)
    BY <1>1
  <2> QED
    BY <1>1, <1>8, <2>2, <2>3, ReturnHonest
<1>9. CASE ~(alpha >= f.beta) /\ Continue(j, g, f.from)
  <2>1. alpha < f.beta
    BY <1>1, <1>3, <1>9
  <2>2. alpha > f.alpha => LowTrue(g.from.pos, alpha, Idepth(j))
    BY <1>1, <1>2, <1>3, NoClaim
  <2>3. "moves" \notin Searching
    BY DEF Searching
  <2>4. FrameTrue(g, Idepth(j))
    BY <1>1, <1>3, <1>4, <1>6, <2>1, <2>2, <2>3 DEF FrameTrue
  <2> QED
    BY <1>1, <1>6, <1>9, <2>4, ContinueHonest
<1> QED
  BY <1>5, <1>7, <1>8, <1>9

(* A call between two moves. *)
LEMMA BetweenMoves ==
  ASSUME TypeOK, NEW j \in Jobs, NEW d \in BOOLEAN, LocalInv(j, d), Trace(j), Honest(j),
         At(j, "moves")
  PROVE  /\ stack[j] # <<>> /\ board[j] = Top(j).from /\ board[j] \in Board
         /\ Top(j) \in FrameSet(d) /\ Top(j) \in Frame
         /\ Top(j).alpha \in Int /\ Top(j).beta \in Int /\ Top(j).origAlpha \in Int
         /\ Top(j).alpha < Top(j).beta /\ Top(j).origAlpha <= Top(j).alpha
         /\ Top(j).from \in Board /\ Top(j).from.pos \in Positions
         /\ Top(j).left \subseteq MovesAt[Top(j).from.pos]
         /\ Idepth(j) \in Nat
         /\ Top(j).phase = "moves" /\ FrameTrue(Top(j), Idepth(j))
<1>1. stack[j] # <<>> /\ board[j] = Top(j).from /\ Top(j).phase = "moves"
  BY AtItsBoard DEF At
<1>2. board[j] \in Board /\ Top(j) \in FrameSet(d)
  BY <1>1, TopTyped
<1>3. /\ Top(j).alpha \in Int /\ Top(j).beta \in Int /\ Top(j).origAlpha \in Int
      /\ Top(j) \in Frame
  BY <1>2, FrameFields
<1>4. Idepth(j) \in Nat /\ FrameTrue(Top(j), Idepth(j))
  BY <1>1, TopIsTrue
<1>5. /\ Top(j).alpha < Top(j).beta /\ Top(j).origAlpha <= Top(j).alpha
      /\ Top(j).left \subseteq MovesAt[Top(j).from.pos]
  BY <1>1, <1>4 DEF FrameTrue
<1>6. Top(j).from \in Board /\ Top(j).from.pos \in Positions
  BY <1>1, <1>2 DEF Board
<1> QED
  BY <1>1, <1>2, <1>3, <1>4, <1>5, <1>6

LEMMA SkipIllegalHonest ==
  ASSUME TypeOK, NEW j \in Jobs, NEW d \in BOOLEAN, LocalInv(j, d), Trace(j), Honest(j),
         SkipIllegal(j)
  PROVE  Honest(j)'
<1> DEFINE f == Top(j)
<1>1. /\ stack[j] # <<>> /\ f \in Frame /\ f.phase = "moves" /\ FrameTrue(f, Idepth(j))
  BY BetweenMoves DEF SkipIllegal
<1>2. PICK m \in Candidates(j, f) :
        ~m.legal /\ Continue(j, [f EXCEPT !.left = @ \ {m}], board[j])
  BY DEF SkipIllegal
<1> DEFINE g == [f EXCEPT !.left = @ \ {m}]
<1>3. /\ g \in Frame /\ SameCall(g, f) /\ g.kind = f.kind /\ g.alpha = f.alpha
      /\ g.origAlpha = f.origAlpha /\ g.beta = f.beta /\ g.hasMove = f.hasMove
      /\ g.phase = "moves" /\ g.left = f.left \ {m} /\ g.from = f.from
  <2> HIDE DEF f
  <2> QED
    BY <1>1 DEF Frame, SameCall
<1>4. Continue(j, g, board[j])
  BY <1>2
<1> HIDE DEF g, f
<1>5. Legal(g.from.pos) \ g.left \subseteq Legal(f.from.pos) \ f.left
  BY <1>2, <1>3 DEF Legal
<1>6. FrameTrue(g, Idepth(j))
  <2>1. "moves" \notin Searching
    BY DEF Searching
  <2> QED
    BY <1>1, <1>3, <1>5, <2>1 DEF FrameTrue
<1> QED
  BY <1>1, <1>3, <1>4, <1>6, ContinueHonest DEF f

(* A move that is tried is the only one without a result. *)
LEMMA TriedIsTrue ==
  ASSUME NEW f \in Frame, NEW ply \in Nat, FrameTrue(f, ply), f.phase = "moves",
         NEW m \in f.left, m.legal,
         NEW g \in Frame, g.kind = f.kind, g.alpha = f.alpha, g.beta = f.beta,
         g.origAlpha = f.origAlpha, g.from = f.from, g.left = f.left \ {m}, g.move = m,
         g.phase \in {"late", "zero", "full"}, g.kind # "Quiesce" => g.hasMove,
         g.kind = "Quiesce" => g.phase = "full"
  PROVE  FrameTrue(g, ply) /\ g.move \in Legal(g.from.pos)
<1>1. /\ g.phase \in Searching /\ g.phase \notin {"enter", "razor", "null", "moves"}
      /\ "moves" \notin Searching
  BY DEF Searching
<1>2. m \in Legal(f.from.pos)
  BY DEF FrameTrue, Legal
<1>3. ASSUME NEW n \in Legal(g.from.pos) \ g.left, n # m PROVE n \in Legal(f.from.pos) \ f.left
  BY <1>3
<1>4. ASSUME g.kind # "Quiesce", NEW n \in Legal(g.from.pos) \ g.left
      PROVE  /\ g.hasMove
             /\ \/ g.phase \in Searching /\ n = g.move
                \/ g.alpha <= -Threshold => Wins(n.to, Checkmate + g.alpha - ply - 1)
  <2>1. CASE n = m
    BY <1>1, <1>4, <2>1
  <2>2. CASE n # m
    BY <1>1, <1>3, <1>4, <2>2 DEF FrameTrue
  <2> QED
    BY <2>1, <2>2
<1> QED
  BY <1>1, <1>2, <1>4 DEF FrameTrue

LEMMA FullSearchHonest ==
  ASSUME TypeOK, NEW j \in Jobs, NEW d \in BOOLEAN, Honest(j), stack[j] # <<>>,
         NEW f \in FrameSet(d), SameCall(f, Top(j)), f.kind # "Quiesce", f.alpha < f.beta,
         FrameTrue([f EXCEPT !.phase = "full"], Idepth(j)),
         NEW b \in Board, b.pos = f.move.to, FullSearch(j, f, b)
  PROVE  Honest(j)'
<1> DEFINE g == [f EXCEPT !.phase = "full"]
           kind == IF IsPv(f) THEN "Pv" ELSE "Simple"
<1>1. /\ g \in Frame /\ SameCall(g, f) /\ g.phase = "full" /\ g.kind = f.kind
      /\ g.alpha = f.alpha /\ g.beta = f.beta /\ g.move = f.move
  BY DEF FrameSet, Frame, SameCall
<1>2. kind \in Kind
  BY DEF Kind
<1>3. /\ f.depth - 1 \in Int /\ -f.beta \in Int /\ -f.alpha \in Int
      /\ f.alpha \in Int /\ f.beta \in Int
  BY FrameFields
<1>4. Search(j, Append(Below(j), g), kind, f.depth - 1, -f.beta, -f.alpha, NewFlags(f), b)
  BY DEF FullSearch
<1> HIDE DEF g, kind
<1>5. -f.beta = ChildAlpha(g) /\ -f.alpha = ChildBeta(g) /\ -f.beta < -f.alpha
  BY <1>1, <1>3 DEF ChildAlpha, ChildBeta
<1>6. g.phase \in Searching /\ SameCall(g, Top(j)) /\ FrameTrue(g, Idepth(j))
  BY <1>1 DEF Searching, SameCall, g
<1>7. NewFlags(f) \in SUBSET Flag
  BY NewFlagsTyped
<1> QED
  BY <1>1, <1>2, <1>3, <1>4, <1>5, <1>6, <1>7, SearchHonest

LEMMA TryMoveHonest ==
  ASSUME TypeOK, NEW j \in Jobs, NEW d \in BOOLEAN, LocalInv(j, d), Trace(j), Honest(j),
         TryMove(j)
  PROVE  Honest(j)'
<1> DEFINE f == Top(j)
<1>1. /\ stack[j] # <<>> /\ board[j] \in Board /\ f \in FrameSet(d) /\ f \in Frame
      /\ f.alpha \in Int /\ f.beta \in Int /\ f.alpha < f.beta
      /\ f.phase = "moves" /\ FrameTrue(f, Idepth(j)) /\ Idepth(j) \in Nat
      /\ f.kind # "Quiesce"
  BY BetweenMoves DEF TryMove
<1>3. PICK m \in Candidates(j, f), late \in BOOLEAN :
       LET g == [f EXCEPT !.left = @ \ {m}, !.move = m]
           n == [g EXCEPT !.hasMove = TRUE, !.quiets = IF late THEN @ + 1 ELSE @]
           b == MakeMove(board[j], m)
       IN m.legal /\
          IF Reducible(g, late)
            THEN Search(j, Append(Below(j), [n EXCEPT !.phase = "late"]), "Simple",
                        f.depth - 1 - LateMove.reduceDepth, -f.alpha - 1, -f.alpha,
                        NewFlags(g) \union {"LateMoveReduction"}, b)
          ELSE IF IsPv(f) /\ f.hasMove
            THEN Search(j, Append(Below(j), [n EXCEPT !.phase = "zero"]), "Simple",
                        f.depth - 1, -f.alpha - 1, -f.alpha, NewFlags(g), b)
          ELSE FullSearch(j, n, b)
  BY DEF TryMove, Lateness
<1> DEFINE g == [f EXCEPT !.left = @ \ {m}, !.move = m]
           n == [g EXCEPT !.hasMove = TRUE, !.quiets = IF late THEN @ + 1 ELSE @]
           b == MakeMove(board[j], m)
<1>4. m \in Move /\ m \in f.left /\ m.legal
  <2>1. m \in Move
    BY <1>1, CandidatesAreMoves
  <2>2. m \in f.left
    BY <1>3 DEF Candidates
  <2> QED
    BY <1>3, <2>1, <2>2
<1>5. b \in Board /\ b.pos = m.to
  BY <1>1, <1>4, MadeIsBoard DEF MakeMove
<1>6. /\ g \in FrameSet(d) /\ SameCall(g, f) /\ g.kind = f.kind /\ g.alpha = f.alpha
      /\ g.beta = f.beta /\ g.origAlpha = f.origAlpha /\ g.from = f.from
      /\ g.left = f.left \ {m} /\ g.move = m
  <2> HIDE DEF f
  <2> QED
    BY <1>1, <1>4 DEF FrameSet, Frame, SameCall
<1>7. /\ n \in FrameSet(d) /\ SameCall(n, f) /\ n.kind = f.kind /\ n.alpha = f.alpha
      /\ n.beta = f.beta /\ n.origAlpha = f.origAlpha /\ n.from = f.from
      /\ n.left = f.left \ {m} /\ n.move = m /\ n.hasMove = TRUE
  <2> HIDE DEF g
  <2> DEFINE q == IF late THEN g.quiets + 1 ELSE g.quiets
  <2>1. g.quiets \in Nat
    BY <1>6, FrameFields
  <2>2. q \in Nat
    BY <2>1
  <2>3. n = [g EXCEPT !.hasMove = TRUE, !.quiets = q]
    OBVIOUS
  <2> HIDE DEF q, n, f
  <2> QED
    BY <1>6, <2>2, <2>3 DEF FrameSet, Frame, SameCall
<1> HIDE DEF n
<1>8. ASSUME NEW phase \in {"late", "zero", "full"}, NEW h, h = [n EXCEPT !.phase = phase]
      PROVE  /\ h \in Frame /\ SameCall(h, f) /\ h.kind # "Quiesce" /\ h.alpha = f.alpha
             /\ h.phase = phase /\ h.phase \in Searching /\ h.move = m
             /\ FrameTrue(h, Idepth(j))
  <2>1. /\ h \in Frame /\ SameCall(h, f) /\ h.kind = f.kind /\ h.alpha = f.alpha
        /\ h.beta = f.beta /\ h.origAlpha = f.origAlpha /\ h.from = f.from
        /\ h.left = f.left \ {m} /\ h.move = m /\ h.hasMove = TRUE /\ h.phase = phase
    <3> HIDE DEF f
    <3> QED
      BY <1>7, <1>8 DEF FrameSet, Frame, SameCall
  <2>2. h.phase \in Searching
    BY <1>8, <2>1 DEF Searching
  <2> HIDE DEF f
  <2>3. FrameTrue(h, Idepth(j))
    BY <1>1, <1>4, <1>8, <2>1, TriedIsTrue
  <2> QED
    BY <1>1, <2>1, <2>2, <2>3
<1>9. /\ f.depth - 1 \in Int /\ f.depth - 1 - LateMove.reduceDepth \in Int
      /\ -f.alpha - 1 \in Int /\ -f.alpha \in Int /\ -f.alpha - 1 < -f.alpha
  <2>1. f.depth \in Int
    BY <1>1, FrameFields
  <2>2. LateMove.reduceDepth \in Int
    BY ConstsAssumption
  <2> QED
    BY <1>1, <2>1, <2>2
<1>10. /\ "Simple" \in Kind
       /\ NewFlags(g) \in SUBSET Flag
       /\ NewFlags(g) \union {"LateMoveReduction"} \in SUBSET Flag
  BY NewFlagsTyped DEF Kind, Flag
<1> HIDE DEF b
<1>a. CASE Search(j, Append(Below(j), [n EXCEPT !.phase = "late"]), "Simple",
                   f.depth - 1 - LateMove.reduceDepth, -f.alpha - 1, -f.alpha,
                   NewFlags(g) \union {"LateMoveReduction"}, b)
  <2> DEFINE h == [n EXCEPT !.phase = "late"]
             flags == NewFlags(g) \union {"LateMoveReduction"}
             depth == f.depth - 1 - LateMove.reduceDepth
  <2>1. h = [n EXCEPT !.phase = "late"]
    OBVIOUS
  <2>2. Search(j, Append(Below(j), h), "Simple", depth, -f.alpha - 1, -f.alpha, flags, b)
    BY <1>a
  <2> HIDE DEF h
  <2>3. /\ h \in Frame /\ SameCall(h, f) /\ h.kind # "Quiesce" /\ h.alpha = f.alpha
        /\ h.phase = "late" /\ h.phase \in Searching /\ h.move = m
        /\ FrameTrue(h, Idepth(j))
    BY <1>8, <2>1
  <2>4. -f.alpha - 1 = ChildAlpha(h) /\ -f.alpha = ChildBeta(h)
    BY <2>3 DEF ChildAlpha, ChildBeta
  <2>5. flags \in SUBSET Flag /\ depth \in Int
    BY <1>9, <1>10
  <2> HIDE DEF flags, depth
  <2> QED
    BY <1>1, <1>5, <1>9, <1>10, <2>2, <2>3, <2>4, <2>5, SearchHonest
<1>b. CASE Search(j, Append(Below(j), [n EXCEPT !.phase = "zero"]), "Simple",
                   f.depth - 1, -f.alpha - 1, -f.alpha, NewFlags(g), b)
  <2> DEFINE h == [n EXCEPT !.phase = "zero"]
             flags == NewFlags(g)
             depth == f.depth - 1
  <2>1. h = [n EXCEPT !.phase = "zero"]
    OBVIOUS
  <2>2. Search(j, Append(Below(j), h), "Simple", depth, -f.alpha - 1, -f.alpha, flags, b)
    BY <1>b
  <2> HIDE DEF h
  <2>3. /\ h \in Frame /\ SameCall(h, f) /\ h.kind # "Quiesce" /\ h.alpha = f.alpha
        /\ h.phase = "zero" /\ h.phase \in Searching /\ h.move = m
        /\ FrameTrue(h, Idepth(j))
    BY <1>8, <2>1
  <2>4. -f.alpha - 1 = ChildAlpha(h) /\ -f.alpha = ChildBeta(h)
    BY <2>3 DEF ChildAlpha, ChildBeta
  <2>5. flags \in SUBSET Flag /\ depth \in Int
    BY <1>9, <1>10
  <2> HIDE DEF flags, depth
  <2> QED
    BY <1>1, <1>5, <1>9, <1>10, <2>2, <2>3, <2>4, <2>5, SearchHonest
<1>c. CASE FullSearch(j, n, b)
  <2>1. FrameTrue([n EXCEPT !.phase = "full"], Idepth(j))
    BY <1>8
  <2>2. n.kind # "Quiesce" /\ n.alpha < n.beta /\ b.pos = n.move.to
    BY <1>1, <1>5, <1>7
  <2> QED
    BY <1>1, <1>5, <1>7, <1>c, <2>1, <2>2, FullSearchHonest
<1> QED
  BY <1>3, <1>a, <1>b, <1>c DEF n, b

LEMMA TryCaptureHonest ==
  ASSUME TypeOK, NEW j \in Jobs, NEW d \in BOOLEAN, LocalInv(j, d), Trace(j), Honest(j),
         TryCapture(j)
  PROVE  Honest(j)'
<1> DEFINE f == Top(j)
<1>1. /\ stack[j] # <<>> /\ board[j] \in Board /\ f \in FrameSet(d) /\ f \in Frame
      /\ f.alpha \in Int /\ f.beta \in Int /\ f.alpha < f.beta
      /\ f.phase = "moves" /\ FrameTrue(f, Idepth(j)) /\ Idepth(j) \in Nat
      /\ f.kind = "Quiesce"
  BY BetweenMoves DEF TryCapture
<1>3. PICK m \in Candidates(j, f) :
        /\ m.legal
        /\ Quiesce(j, Append(Below(j), [f EXCEPT !.left = @ \ {m}, !.move = m,
                                        !.phase = "full"]),
                   -f.beta, -f.alpha, MakeMove(board[j], m))
  BY DEF TryCapture
<1> DEFINE g == [f EXCEPT !.left = @ \ {m}, !.move = m, !.phase = "full"]
           b == MakeMove(board[j], m)
<1>4. m \in Move /\ m \in f.left /\ m.legal
  <2>1. m \in Move
    BY <1>1, CandidatesAreMoves
  <2>2. m \in f.left
    BY <1>3 DEF Candidates
  <2> QED
    BY <1>3, <2>1, <2>2
<1>5. b \in Board /\ b.pos = m.to
  BY <1>1, <1>4, MadeIsBoard DEF MakeMove
<1>6. /\ g \in Frame /\ SameCall(g, f) /\ g.kind = "Quiesce" /\ g.alpha = f.alpha
      /\ g.beta = f.beta /\ g.origAlpha = f.origAlpha /\ g.from = f.from
      /\ g.left = f.left \ {m} /\ g.move = m /\ g.phase = "full"
  <2> HIDE DEF f
  <2> QED
    BY <1>1, <1>4 DEF Frame, SameCall
<1>7. -f.beta \in Int /\ -f.alpha \in Int /\ -f.beta < -f.alpha
  BY <1>1
<1>8. Quiesce(j, Append(Below(j), g), -f.beta, -f.alpha, b)
  BY <1>3
<1> HIDE DEF g, b
<1>9. FrameTrue(g, Idepth(j))
  <2> HIDE DEF f
  <2> QED
    BY <1>1, <1>4, <1>6, TriedIsTrue
<1>10. -f.beta = ChildAlpha(g) /\ -f.alpha = ChildBeta(g) /\ b.pos = g.move.to
  BY <1>5, <1>6 DEF ChildAlpha, ChildBeta
<1> QED
  BY <1>1, <1>5, <1>6, <1>7, <1>8, <1>9, <1>10, QuiesceHonest

(* A call that knows bounds of its position stores no more than those. *)
LEMMA StoreIsTrue ==
  ASSUME TypeOK, TableTrue(tt), NEW j \in Jobs, NEW f \in Frame, NEW score \in Int,
         Idepth(j) \in Nat, f.origAlpha < f.beta,
         score >= f.beta => LowTrue(f.from.pos, f.beta, Idepth(j)),
         score < f.beta => HighTrue(f.from.pos, MaxOf(score, f.origAlpha), Idepth(j)),
         score > f.origAlpha /\ score < f.beta => LowTrue(f.from.pos, score, Idepth(j)),
         TtStore(j, f, score)
  PROVE  TableTrue(tt')
<1> DEFINE pos == f.from.pos
           ply == Idepth(j)
           bound == IF score >= f.beta THEN "Lowerbound"
                    ELSE IF score <= f.origAlpha THEN "Upperbound" ELSE "Exact"
           limited == IF score >= f.beta THEN f.beta ELSE MaxOf(score, f.origAlpha)
           stored == StoredScore(j, limited)
           entry == [move |-> f.best, score |-> stored,
                     depth |-> f.depth, bound |-> bound, current |-> TRUE]
<1>1. f.alpha \in Int /\ f.beta \in Int /\ f.origAlpha \in Int /\ pos \in Positions
  BY DEF Frame, Board
<1>2. tt' = tt \/ tt' = [tt EXCEPT ![pos] = entry]
  BY DEF TtStore
<1>3. limited \in Int
  BY <1>1, MaxTyped
<1>4. /\ bound # "Upperbound" => LowTrue(pos, limited, ply)
      /\ bound # "Lowerbound" => HighTrue(pos, limited, ply)
  <2>1. CASE score >= f.beta
    BY <2>1
  <2>2. CASE score < f.beta /\ score <= f.origAlpha
    BY <1>1, <2>2
  <2>3. CASE score < f.beta /\ score > f.origAlpha
    <3>1. MaxOf(score, f.origAlpha) = score /\ ~(score >= f.beta) /\ ~(score <= f.origAlpha)
      BY <1>1, <2>3 DEF MaxOf
    <3> QED
      BY <2>3, <3>1
  <2> QED
    BY <1>1, <2>1, <2>2, <2>3
<1>5. entry.score = stored /\ entry.bound = bound
  OBVIOUS
<1> HIDE DEF entry, bound, limited, pos
<1>6. /\ bound # "Upperbound" => LowTrue(pos, stored, 0)
      /\ bound # "Lowerbound" => HighTrue(pos, stored, 0)
  <2>1. /\ LowTrue(pos, limited, ply) => LowTrue(pos, AdjustCheckmate(limited, -ply), 0)
        /\ HighTrue(pos, limited, ply) => HighTrue(pos, AdjustCheckmate(limited, -ply), 0)
    BY <1>3, StoredClaim
  <2>2. stored = AdjustCheckmate(limited, -ply)
    BY DEF StoredScore
  <2> HIDE DEF stored, ply
  <2> QED
    BY <1>4, <2>1, <2>2
<1> HIDE DEF stored
<1>7. CASE tt' = [tt EXCEPT ![pos] = entry]
  <2> SUFFICES ASSUME NEW p \in Positions, tt'[p] # NoEntry
               PROVE  /\ tt'[p].bound # "Upperbound" => LowTrue(p, tt'[p].score, 0)
                      /\ tt'[p].bound # "Lowerbound" => HighTrue(p, tt'[p].score, 0)
    BY DEF TableTrue
  <2>1. CASE p = pos
    <3>1. tt'[p] = entry
      BY <1>7, <2>1 DEF TypeOK
    <3> QED
      BY <1>5, <1>6, <2>1, <3>1
  <2>2. CASE p # pos
    <3>1. tt'[p] = tt[p]
      BY <1>7, <2>2 DEF TypeOK
    <3> QED
      BY <3>1 DEF TableTrue
  <2> QED
    BY <2>1, <2>2
<1> QED
  BY <1>2, <1>7

(* The end of the loop body: a score above alpha is true of the position, and *)
(* one that is not says that the move does not save it.                       *)
LEMMA AcceptIsTrue ==
  ASSUME NEW f \in Frame, NEW ply \in Nat, FrameTrue(f, ply), f.phase \in Searching,
         NEW score \in Int, NEW alpha, alpha = MaxOf(f.alpha, score), alpha < f.beta,
         score > f.alpha => LowTrue(f.from.pos, score, ply),
         f.kind # "Quiesce" /\ alpha <= -Threshold =>
           Wins(f.move.to, Checkmate + alpha - ply - 1),
         NEW g \in Frame, g.kind = f.kind, g.alpha = alpha, g.beta = f.beta,
         g.origAlpha = f.origAlpha, g.from = f.from, g.left = f.left,
         g.hasMove = f.hasMove, g.phase = "moves"
  PROVE  FrameTrue(g, ply)
<1>1. f.alpha \in Int /\ f.beta \in Int /\ f.origAlpha \in Int /\ alpha \in Int
      /\ f.alpha <= alpha /\ (alpha # f.alpha => alpha = score /\ score > f.alpha)
  BY DEF Frame, MaxOf
<1>2. /\ f.phase \notin {"enter", "razor", "moves"} /\ "moves" \notin Searching
  BY DEF Searching
<1>3. f.origAlpha <= f.alpha /\ (f.alpha > f.origAlpha => LowTrue(f.from.pos, f.alpha, ply))
  BY DEF FrameTrue
<1>4. g.origAlpha <= alpha /\ (alpha > g.origAlpha => LowTrue(g.from.pos, alpha, ply))
  BY <1>1, <1>3
<1>5. ASSUME g.kind # "Quiesce", NEW n \in Legal(g.from.pos) \ g.left, alpha <= -Threshold
      PROVE  Wins(n.to, Checkmate + alpha - ply - 1)
  <2>1. CASE n = f.move
    BY <1>5, <2>1
  <2>2. CASE n # f.move
    <3>1. f.alpha <= -Threshold
      BY <1>1, <1>5, ScoreAssumption
    <3>2. Wins(n.to, Checkmate + f.alpha - ply - 1)
      BY <1>2, <1>5, <2>2, <3>1 DEF FrameTrue
    <3>3. /\ Checkmate + f.alpha - ply - 1 \in Int /\ Checkmate + alpha - ply - 1 \in Int
          /\ Checkmate + f.alpha - ply - 1 <= Checkmate + alpha - ply - 1
      BY <1>1, ScoreAssumption
    <3> QED
      BY <3>2, <3>3, MatesStay
  <2> QED
    BY <2>1, <2>2
<1>6. g.kind # "Quiesce" => ply < MaxStack /\ ply + 1 < MaxStack
  BY <1>2 DEF FrameTrue
<1>7. g.kind = "Quiesce" => alpha > -Threshold
  BY <1>1, <1>2, ScoreAssumption DEF FrameTrue
<1>8. /\ g.left \subseteq MovesAt[g.from.pos]
      /\ g.hasMove => Legal(g.from.pos) # {}
      /\ g.kind # "Quiesce" => \A n \in Legal(g.from.pos) \ g.left : g.hasMove
  BY <1>2 DEF FrameTrue
<1> QED
  BY <1>1, <1>2, <1>4, <1>5, <1>6, <1>7, <1>8 DEF FrameTrue

LEMMA AcceptHonest ==
  ASSUME TypeOK, TableTrue(tt), NEW j \in Jobs, NEW d \in BOOLEAN, Honest(j),
         stack[j] # <<>>, NEW f \in FrameSet(d), SameCall(f, Top(j)),
         FrameTrue(f, Idepth(j)), f.phase \in Searching, NEW score \in Int,
         score > f.alpha => LowTrue(f.from.pos, score, Idepth(j)),
         LET alpha == MaxOf(f.alpha, score) IN
           f.kind # "Quiesce" /\ alpha < f.beta /\ alpha <= -Threshold =>
             Wins(f.move.to, Checkmate + alpha - Idepth(j) - 1),
         Accept(j, f, score)
  PROVE  Honest(j)' /\ TableTrue(tt')
<1> DEFINE better == score > f.alpha
           best == IF better /\ f.kind # "Quiesce" THEN f.move ELSE f.best
           alpha == MaxOf(f.alpha, score)
           g == [f EXCEPT !.alpha = alpha, !.phase = "moves", !.best = best]
<1>1. /\ f.alpha \in Int /\ f.beta \in Int /\ f.origAlpha \in Int /\ f.misled \in BOOLEAN
      /\ f.move \in Move \union {NoMove} /\ f.best \in Move \union {NoMove}
      /\ f \in Frame
  BY FrameFields
<1>2. alpha \in Int /\ best \in Move \union {NoMove}
  BY <1>1, MaxTyped
<1>3. alpha = MaxOf(f.alpha, score)
  OBVIOUS
<1>4. g = [f EXCEPT !.alpha = MaxOf(@, score), !.phase = "moves",
                    !.best = IF better /\ f.kind # "Quiesce" THEN f.move ELSE @]
  OBVIOUS
<1> HIDE DEF best
<1>5. \/ /\ alpha >= f.beta /\ Return(j, f.beta, f.misled, f.from)
         /\ tt' = tt \/ TtStore(j, g, f.beta)
      \/ ~(alpha >= f.beta) /\ Continue(j, g, f.from) /\ tt' = tt
  <2>1. g.alpha = alpha
    BY <1>1, <1>2 DEF Frame
  <2> HIDE DEF g, alpha
  <2> QED
    BY <1>4, <2>1 DEF Accept
<1> HIDE DEF alpha
<1>6. /\ g \in Frame /\ SameCall(g, f) /\ g.kind = f.kind /\ g.alpha = alpha
      /\ g.beta = f.beta /\ g.origAlpha = f.origAlpha /\ g.from = f.from
      /\ g.left = f.left /\ g.hasMove = f.hasMove /\ g.phase = "moves"
  BY <1>1, <1>2 DEF Frame, SameCall
<1> HIDE DEF g
<1>7. Idepth(j) \in Nat
  BY TopIsTrue
<1>8. f.alpha < f.beta /\ f.origAlpha <= f.alpha
  BY DEF FrameTrue
<1>9. CASE alpha >= f.beta /\ Return(j, f.beta, f.misled, f.from)
           /\ (tt' = tt \/ TtStore(j, g, f.beta))
  <2>1. score > f.alpha /\ f.beta <= score
    BY <1>1, <1>3, <1>8, <1>9 DEF MaxOf
  <2>2. LowTrue(f.from.pos, f.beta, Idepth(j))
    BY <1>1, <1>7, <2>1, LowerIsTrue
  <2>3. ~(f.beta < f.beta) /\ f.origAlpha < f.beta
    BY <1>1, <1>8
  <2>4. Honest(j)'
    <3>1. Top(j).beta = f.beta /\ Top(j).from = f.from /\ Top(j).origAlpha = f.origAlpha
      BY DEF SameCall
    <3>2. Return(j, f.beta, f.misled, Top(j).from)
      BY <1>9, <3>1
    <3> QED
      BY <1>1, <2>2, <2>3, <3>1, <3>2, ReturnHonest
  <2>5. CASE TtStore(j, g, f.beta)
    <3>1. PICK beta \in Int : beta = f.beta
      BY <1>1
    <3>2. /\ g.beta = beta /\ g.from = f.from /\ g.origAlpha < g.beta /\ TtStore(j, g, beta)
          /\ LowTrue(g.from.pos, g.beta, Idepth(j)) /\ ~(beta < g.beta)
      BY <1>6, <2>2, <2>3, <2>5, <3>1
    <3>3. /\ beta >= g.beta => LowTrue(g.from.pos, g.beta, Idepth(j))
          /\ beta < g.beta => HighTrue(g.from.pos, MaxOf(beta, g.origAlpha), Idepth(j))
          /\ beta > g.origAlpha /\ beta < g.beta => LowTrue(g.from.pos, beta, Idepth(j))
      BY <3>2
    <3>4. g \in Frame
      BY <1>6
    <3>5. TableTrue(tt')
      BY <1>7, <3>1, <3>2, <3>3, <3>4, StoreIsTrue
    <3> QED
      BY <2>4, <3>5
  <2> QED
    BY <1>9, <2>4, <2>5
<1>10. CASE ~(alpha >= f.beta) /\ Continue(j, g, f.from) /\ tt' = tt
  <2>1. alpha < f.beta
    BY <1>1, <1>2, <1>10
  <2>2. f.kind # "Quiesce" /\ alpha <= -Threshold =>
          Wins(f.move.to, Checkmate + alpha - Idepth(j) - 1)
    BY <1>3, <2>1
  <2>3. FrameTrue(g, Idepth(j))
    BY <1>1, <1>3, <1>6, <1>7, <2>1, <2>2, AcceptIsTrue
  <2>4. SameCall(g, Top(j))
    BY <1>6 DEF SameCall
  <2>5. Honest(j)'
    BY <1>6, <1>10, <2>3, <2>4, ContinueHonest
  <2> QED
    BY <1>10, <2>5
<1> QED
  BY <1>5, <1>9, <1>10

(* What the result of a call says of the move it was made for. *)
LEMMA ResultClaims ==
  ASSUME NEW f \in Frame, NEW ply \in Nat, FrameTrue(f, ply),
         f.phase \in {"late", "zero", "full"}, NEW r \in Int,
         r > ChildAlpha(f) => LowTrue(f.move.to, r, ply + 1),
         r < ChildBeta(f) => HighTrue(f.move.to, r, ply + 1)
  PROVE  /\ -r > f.alpha => LowTrue(f.from.pos, -r, ply)
         /\ f.phase # "full" /\ -r <= f.alpha /\ f.alpha <= -Threshold =>
              Wins(f.move.to, Checkmate + f.alpha - ply - 1)
         /\ \A a \in Int : f.phase = "full" /\ -r <= a /\ a < f.beta /\ a <= -Threshold =>
              Wins(f.move.to, Checkmate + a - ply - 1)
<1>1. /\ f.alpha \in Int /\ f.beta \in Int /\ f.from.pos \in Positions
      /\ f.phase \in Searching
  BY DEF Frame, Board, Searching
<1>2. f.move \in Legal(f.from.pos)
  BY <1>1 DEF FrameTrue
<1>3. ASSUME -r > f.alpha PROVE LowTrue(f.from.pos, -r, ply)
  <2>1. r < ChildBeta(f)
    BY <1>1, <1>3 DEF ChildBeta
  <2> QED
    BY <1>1, <1>2, <2>1, ClaimAbove
<1>4. ASSUME f.phase # "full", -r <= f.alpha, f.alpha <= -Threshold
      PROVE  Wins(f.move.to, Checkmate + f.alpha - ply - 1)
  <2>1. r > ChildAlpha(f)
    BY <1>1, <1>4 DEF ChildAlpha
  <2> QED
    BY <1>1, <1>4, <2>1, RefutesMove
<1>5. ASSUME NEW a \in Int, f.phase = "full", -r <= a, a < f.beta, a <= -Threshold
      PROVE  Wins(f.move.to, Checkmate + a - ply - 1)
  <2>1. r > ChildAlpha(f)
    BY <1>1, <1>5 DEF ChildAlpha
  <2> QED
    BY <1>1, <1>5, <2>1, RefutesMove
<1> QED
  BY <1>3, <1>4, <1>5

LEMMA ResumeHonest ==
  ASSUME TypeOK, TableTrue(tt), NEW j \in Jobs, NEW d \in BOOLEAN, LocalInv(j, d),
         Honest(j), Resume(j)
  PROVE  Honest(j)' /\ TableTrue(tt')
<1> DEFINE f == Informed(j)
           t == Top(j)
           ply == Idepth(j)
           r == ret[j].score
<1>1. Resumes(j) /\ stack[j] # <<>> /\ ret[j] # NoScore
  BY DEF Resume, Resumes
<1>2. /\ f \in FrameSet(d) /\ t \in FrameSet(d) /\ t \in Frame /\ board[j] \in Board
      /\ r \in Int
  BY <1>1, InformedTyped, TopTyped, FrameFields
<1>3. t.phase \in {"late", "zero", "full"} /\ t.phase \in Searching
  BY <1>1, <1>2 DEF Resumes, Searching, FrameSet
<1>4. /\ f.phase = t.phase /\ SameCall(f, t) /\ f.kind = t.kind /\ f.alpha = t.alpha
      /\ f.beta = t.beta /\ f.origAlpha = t.origAlpha /\ f.from = t.from
      /\ f.left = t.left /\ f.move = t.move /\ f.hasMove = t.hasMove /\ f \in Frame
  BY <1>2 DEF Informed, FrameSet, Frame, SameCall
<1>5. ply \in Nat /\ FrameTrue(t, ply) /\ ResultTrue(t, ret[j], board[j], ply)
  BY <1>1, TopIsTrue
<1> HIDE DEF f, t
<1>6. FrameTrue(f, ply)
  BY <1>4, <1>5 DEF FrameTrue
<1>7. board[j].pos = f.move.to
  BY <1>1, <1>3, <1>4, <1>5 DEF ResultTrue
<1>8. /\ r > ChildAlpha(f) => LowTrue(f.move.to, r, ply + 1)
      /\ r < ChildBeta(f) => HighTrue(f.move.to, r, ply + 1)
  BY <1>1, <1>3, <1>4, <1>5 DEF ResultTrue, ChildAlpha, ChildBeta
<1> HIDE DEF ply, r
<1>9. /\ -r > f.alpha => LowTrue(f.from.pos, -r, ply)
      /\ f.phase # "full" /\ -r <= f.alpha /\ f.alpha <= -Threshold =>
           Wins(f.move.to, Checkmate + f.alpha - ply - 1)
      /\ \A a \in Int : f.phase = "full" /\ -r <= a /\ a < f.beta /\ a <= -Threshold =>
           Wins(f.move.to, Checkmate + a - ply - 1)
  BY <1>2, <1>3, <1>4, <1>5, <1>6, <1>8, ResultClaims
<1>10. /\ f.alpha \in Int /\ f.beta \in Int /\ f.alpha < f.beta
       /\ f.phase \in Searching /\ f.kind \in Kind /\ -r \in Int
  BY <1>2, <1>3, <1>4, <1>6, FrameFields DEF FrameTrue
<1>20. SameCall(f, Top(j)) /\ FrameTrue(f, Idepth(j)) /\ ply = Idepth(j)
  BY <1>4, <1>6 DEF t, ply
<1>11. ASSUME FullSearch(j, f, board[j]), f.kind # "Quiesce" PROVE Honest(j)'
  <2> DEFINE g == [f EXCEPT !.phase = "full"]
  <2>1. /\ g \in Frame /\ g.kind = f.kind /\ g.alpha = f.alpha /\ g.beta = f.beta
        /\ g.origAlpha = f.origAlpha /\ g.from = f.from /\ g.left = f.left
        /\ g.move = f.move /\ g.hasMove = f.hasMove /\ g.phase = "full"
    BY <1>4 DEF Frame
  <2> HIDE DEF g
  <2>2. g.phase \in Searching /\ g.phase \notin {"enter", "razor"}
        /\ f.phase \notin {"enter", "razor"}
    BY <1>10, <2>1 DEF Searching
  <2>3. FrameTrue(g, Idepth(j))
    BY <1>10, <1>11, <1>20, <2>1, <2>2 DEF FrameTrue
  <2> QED
    BY <1>1, <1>2, <1>7, <1>10, <1>11, <1>20, <2>3, FullSearchHonest DEF g
<1>12. CASE t.phase = "late"
  <2> DEFINE g == [f EXCEPT !.phase = "moves"]
  <2>1. /\ g \in Frame /\ SameCall(g, f) /\ g.kind = f.kind /\ g.alpha = f.alpha
        /\ g.beta = f.beta /\ g.origAlpha = f.origAlpha /\ g.from = f.from
        /\ g.left = f.left /\ g.hasMove = f.hasMove /\ g.phase = "moves"
    BY <1>4 DEF Frame, SameCall
  <2>2. /\ tt' = tt
        /\ \/ -r <= f.alpha /\ Continue(j, g, f.from)
           \/ FullSearch(j, f, board[j])
    BY <1>12 DEF Resume, LateDone, f, t, r
  <2> HIDE DEF g
  <2>3. CASE -r <= f.alpha /\ Continue(j, g, f.from)
    <3>1. f.alpha = MaxOf(f.alpha, f.alpha) /\ ~(f.alpha > f.alpha)
      BY <1>10 DEF MaxOf
    <3>2. f.alpha <= -Threshold => Wins(f.move.to, Checkmate + f.alpha - ply - 1)
      BY <1>4, <1>9, <1>12, <2>3
    <3>3. FrameTrue(g, ply)
      BY <1>4, <1>5, <1>6, <1>10, <2>1, <3>1, <3>2, AcceptIsTrue
    <3>4. SameCall(g, Top(j))
      BY <1>20, <2>1 DEF SameCall
    <3> QED
      BY <1>1, <1>20, <2>1, <2>2, <2>3, <3>3, <3>4, ContinueHonest
  <2>4. CASE FullSearch(j, f, board[j])
    <3>1. f.kind # "Quiesce"
      BY <1>4, <1>6, <1>12 DEF FrameTrue
    <3> QED
      BY <1>11, <2>2, <2>4, <3>1
  <2> QED
    BY <2>2, <2>3, <2>4
<1>13. CASE t.phase = "zero"
  <2> DEFINE score == IF -r <= f.alpha THEN f.alpha ELSE f.alpha + 1
  <2>1. score \in Int /\ score >= f.alpha
    BY <1>10
  <2>0. f.kind # "Quiesce" /\ f.phase = "zero"
    BY <1>4, <1>6, <1>13 DEF FrameTrue
  <2>2. \/ FullSearch(j, f, board[j]) /\ tt' = tt
        \/ ~(f.alpha < score /\ (f.kind = "Root" \/ score < f.beta)) /\ Accept(j, f, score)
    BY <1>13 DEF Resume, ZeroDone, f, t, r
  <2>3. CASE FullSearch(j, f, board[j]) /\ tt' = tt
    BY <1>11, <2>0, <2>3
  <2>4. CASE ~(f.alpha < score /\ score < f.beta) /\ Accept(j, f, score)
    <3>1. score > f.alpha => LowTrue(f.from.pos, score, ply)
      <4> SUFFICES ASSUME score > f.alpha PROVE LowTrue(f.from.pos, score, ply)
        OBVIOUS
      <4>1. -r > f.alpha /\ score <= -r
        BY <1>10
      <4> HIDE DEF score
      <4>2. LowTrue(f.from.pos, -r, ply)
        BY <1>9, <4>1
      <4> QED
        BY <1>5, <1>10, <2>1, <4>1, <4>2, LowerIsTrue
    <3>2. LET alpha == MaxOf(f.alpha, score) IN
            f.kind # "Quiesce" /\ alpha < f.beta /\ alpha <= -Threshold =>
              Wins(f.move.to, Checkmate + alpha - ply - 1)
      <4>1. CASE -r <= f.alpha
        <5>1. MaxOf(f.alpha, score) = f.alpha
          BY <1>10, <4>1 DEF MaxOf
        <5> QED
          BY <1>9, <2>0, <4>1, <5>1
      <4>2. CASE ~(-r <= f.alpha)
        <5>1. MaxOf(f.alpha, score) = score /\ score > f.alpha /\ ~(score < f.beta)
          BY <1>10, <2>4, <4>2 DEF MaxOf
        <5> QED
          BY <5>1
      <4> QED
        BY <4>1, <4>2
    <3> HIDE DEF score
    <3> QED
      BY <1>1, <1>2, <1>10, <1>20, <2>1, <2>4, <3>1, <3>2, AcceptHonest
  <2>5. CASE f.kind = "Root" /\ ~(f.alpha < score) /\ Accept(j, f, score)
    BY <2>4, <2>5
  <2> QED
    BY <2>2, <2>3, <2>4, <2>5
<1>14. CASE t.phase = "full"
  <2>1. Accept(j, f, -r)
    BY <1>14 DEF Resume, f, t, r
  <2>2. MaxOf(f.alpha, -r) \in Int /\ -r <= MaxOf(f.alpha, -r)
    BY <1>10 DEF MaxOf
  <2>3. LET alpha == MaxOf(f.alpha, -r) IN
          f.kind # "Quiesce" /\ alpha < f.beta /\ alpha <= -Threshold =>
            Wins(f.move.to, Checkmate + alpha - ply - 1)
    BY <1>4, <1>9, <1>14, <2>2
  <2> QED
    BY <1>1, <1>2, <1>9, <1>10, <1>20, <2>1, <2>3, AcceptHonest
<1> QED
  BY <1>3, <1>12, <1>13, <1>14

LEMMA NoMoreMovesHonest ==
  ASSUME TypeOK, TableTrue(tt), NEW j \in Jobs, NEW d \in BOOLEAN, LocalInv(j, d),
         Trace(j), Honest(j), NoMoreMoves(j)
  PROVE  Honest(j)' /\ TableTrue(tt')
<1> DEFINE f == Top(j)
           ply == Idepth(j)
           pos == f.from.pos
<1>1. /\ stack[j] # <<>> /\ board[j] = f.from /\ f \in FrameSet(d) /\ f \in Frame
      /\ f.alpha \in Int /\ f.beta \in Int /\ f.origAlpha \in Int
      /\ f.alpha < f.beta /\ f.origAlpha <= f.alpha /\ pos \in Positions
      /\ ply \in Nat /\ f.phase = "moves" /\ FrameTrue(f, ply) /\ f.left = {}
  BY BetweenMoves DEF NoMoreMoves
<1>2. f.misled \in BOOLEAN
  BY <1>1, FrameFields
<1>3. f.alpha > f.origAlpha => LowTrue(pos, f.alpha, ply)
  BY <1>1 DEF FrameTrue
<1>4. CASE f.kind = "Quiesce"
  <2>1. Return(j, f.alpha, f.misled, f.from) /\ tt' = tt
    BY <1>1, <1>4 DEF NoMoreMoves
  <2>2. f.alpha > -Threshold
    BY <1>1, <1>4 DEF FrameTrue
  <2>3. HighTrue(pos, f.alpha, ply)
    BY <1>1, <2>2, NoClaim
  <2> QED
    BY <1>1, <1>2, <1>3, <2>1, <2>3, ReturnHonest
<1>5. CASE f.kind # "Quiesce" /\ ~f.hasMove
  <2>1. Legal(pos) = {} /\ ply < MaxStack
    BY <1>1, <1>5 DEF FrameTrue
  <2>2. tt' = tt /\ \/ pos \in Checked /\ Return(j, ply - Checkmate, f.misled, f.from)
                    \/ Return(j, 0, f.misled, f.from)
    BY <1>1, <1>5 DEF NoMoreMoves
  <2>3. CASE pos \in Checked /\ Return(j, ply - Checkmate, f.misled, f.from)
    <3> DEFINE score == ply - Checkmate
    <3>1. score \in Int /\ score < Threshold /\ Checkmate + score - ply = 0
      <4>1. /\ MaxStack \in Int /\ MaxStack <= 2 * Threshold
            /\ Threshold \in Int /\ Checkmate \in Int /\ Threshold < Checkmate
        BY PlyAssumption, ScoreAssumption, ConstsAssumption
      <4>2. ply \in Int /\ ply < MaxStack
        BY <1>1, <2>1
      <4> HIDE DEF ply
      <4> QED
        BY <4>1, <4>2
    <3>3. Return(j, score, f.misled, f.from)
      BY <2>3
    <3> HIDE DEF score
    <3>2. LowTrue(pos, score, ply) /\ HighTrue(pos, score, ply)
      <4>1. Loses(pos, 0)
        BY <2>1, <2>3, MatedNow
      <4>2. LowTrue(pos, score, ply)
        BY <1>1, <3>1, NoClaim
      <4>3. HighTrue(pos, score, ply)
        BY <3>1, <4>1 DEF HighTrue
      <4> QED
        BY <4>2, <4>3
    <3>4. Honest(j)'
      <4>1. /\ score > Top(j).origAlpha => LowTrue(Top(j).from.pos, score, Idepth(j))
            /\ score < Top(j).beta => HighTrue(Top(j).from.pos, score, Idepth(j))
            /\ Return(j, score, f.misled, Top(j).from)
        BY <3>2, <3>3
      <4> HIDE DEF f
      <4> QED
        BY <1>1, <1>2, <3>1, <4>1, ReturnHonest
    <3> QED
      BY <2>2, <3>4
  <2>4. CASE Return(j, 0, f.misled, f.from)
    BY <1>1, <1>2, <2>2, <2>4, DrawHonest
  <2> QED
    BY <2>2, <2>3, <2>4
<1>6. CASE f.kind # "Quiesce" /\ f.hasMove
  <2>1. Return(j, f.alpha, f.misled, f.from) /\ TtStore(j, f, f.alpha)
    BY <1>1, <1>6 DEF NoMoreMoves
  <2>2. HighTrue(pos, f.alpha, ply)
    <3> SUFFICES ASSUME f.alpha <= -Threshold PROVE Loses(pos, Checkmate + f.alpha - ply)
      BY DEF HighTrue
    <3> DEFINE n == Checkmate + f.alpha - ply
    <3>1. n \in Int /\ Checkmate + f.alpha - ply - 1 = n - 1
      BY <1>1, ScoreAssumption
    <3>2. "moves" \notin Searching
      BY DEF Searching
    <3>3. Legal(pos) # {} /\ Legal(pos) \ f.left = Legal(pos)
      BY <1>1, <1>6 DEF FrameTrue
    <3>4. \A m \in Legal(pos) : Wins(m.to, Checkmate + f.alpha - ply - 1)
      BY <1>1, <1>6, <3>2, <3>3 DEF FrameTrue
    <3> HIDE DEF n
    <3>5. \A m \in Legal(pos) : Wins(m.to, n - 1)
      BY <3>1, <3>4
    <3>6. Loses(pos, n)
      BY <1>1, <3>1, <3>3, <3>5, AllMovesLose
    <3> QED
      BY <3>6 DEF n
  <2>3. Honest(j)'
    BY <1>1, <1>2, <1>3, <2>1, <2>2, ReturnHonest
  <2>4. MaxOf(f.alpha, f.origAlpha) = f.alpha /\ ~(f.alpha >= f.beta) /\ f.origAlpha < f.beta
    BY <1>1 DEF MaxOf
  <2>5. TableTrue(tt')
    BY <1>1, <1>3, <2>1, <2>2, <2>4, StoreIsTrue
  <2> QED
    BY <2>3, <2>5
<1> QED
  BY <1>4, <1>5, <1>6

(* The first call of a depth has the widest window, and needs no table. *)
LEMMA BeginHonest ==
  ASSUME IInv, NEW j \in Jobs, Begin(j)
  PROVE  Honest(j)'
<1>1. TypeOK /\ stack[j] = <<>>
  BY DEF IInv, PcInv, Begin
<1> DEFINE b == board[j]
           depth == jobDepth[j]
<1>2. b \in Board /\ depth \in Int /\ -Inf \in Int /\ Inf \in Int /\ -Inf < Inf
  BY <1>1, ScoreAssumption DEF TypeOK
<1>3. Search(j, <<>>, "Root", depth, -Inf, Inf, {}, b)
  BY DEF Begin
<1>4. PICK s \in Seq(Frame) : s = <<>> /\ Len(s) = 0 /\ CallsTrue(s)
  <2>1. PICK s \in Seq(Frame) : s = <<>> /\ Len(s) = 0
    BY EmptySeq
  <2>2. CallsTrue(s)
    BY <2>1 DEF CallsTrue
  <2> QED
    BY <2>1, <2>2
<1>5. CASE b.pos \in repetitions[j]
  <2>1. stack'[j] = s
    BY <1>1, <1>3, <1>4, <1>5 DEF Search, TypeOK
  <2> QED
    BY <1>4, <2>1 DEF Honest, StackTrue
<1>6. CASE b.pos \notin repetitions[j]
  <2> DEFINE c == Call("Root", depth, -Inf, Inf, {}, TRUE, b)
             n == Append(<<>>, c)
  <2>1. "Root" \in Kind /\ {} \in SUBSET Flag
    BY DEF Kind
  <2>2. c \in Frame
    BY <1>2, <2>1 DEF Call, Frame
  <2>3. stack'[j] = n /\ ret'[j] = NoScore
    BY <1>1, <1>3, <1>6 DEF Search, TypeOK
  <2>4. 0 < MaxStack /\ Len(s) \in Nat
    BY <1>4, ConstsAssumption
  <2>5. FrameTrue(c, Len(s))
    BY <1>2, <1>4, <2>1, <2>4, CallIsTrue
  <2> HIDE DEF c
  <2>6. n = Append(s, c)
    BY <1>4
  <2> HIDE DEF n
  <2>7. CallsTrue(n)
    BY <1>4, <2>2, <2>5, <2>6, CallsPushed
  <2> QED
    BY <2>3, <2>7 DEF Honest, StackTrue, ResultTrue
<1> QED
  BY <1>5, <1>6

LEMMA OthersHonest ==
  ASSUME TypeOK, NEW j \in Jobs, NEW d \in BOOLEAN, LocalStep(j, d),
         NEW i \in Jobs, i # j, Honest(i)
  PROVE  Honest(i)'
<1>1. stack'[i] = stack[i] /\ ret'[i] = ret[i] /\ board'[i] = board[i]
  BY DEF LocalStep, TypeOK
<1> QED
  BY <1>1 DEF Honest

LEMMA TraceInvariant == Spec => []TraceInv
BY InitTrace, StepTrace, Invariant, PTL DEF Spec

LEMMA StepHonest == IInv /\ TraceInv /\ MateInv /\ [Next]_vars => MateInv'
<1> SUFFICES ASSUME IInv, TraceInv, MateInv, [Next]_vars PROVE MateInv'
  OBVIOUS
<1>1. /\ TypeOK /\ TableTrue(tt)
      /\ \A j \in Jobs : /\ Trace(j) /\ LocalInv(j, Dirty(j)) /\ Dirty(j) \in BOOLEAN
                         /\ Honest(j)
  BY DEF IInv, TraceInv, Dirty, MateInv
<1>2. ASSUME NEW j \in Jobs,
             \/ EnterDraw(j) \/ EnterLeaf(j) \/ EnterHit(j) \/ EnterNode(j) \/ RazorDone(j)
             \/ EnterQuiesce(j) \/ SkipIllegal(j) \/ TryMove(j) \/ TryCapture(j)
             \/ NoMoreMoves(j) \/ Resume(j) \/ CutShort(j)
      PROVE  MateInv'
  <2> DEFINE d == Dirty(j)
  <2>1. LocalInv(j, d) /\ Trace(j) /\ Honest(j) /\ d \in BOOLEAN
    BY <1>1
  <2> HIDE DEF d
  <2>2. Honest(j)'
    BY <1>1, <1>2, <2>1, EnterDrawHonest, EnterLeafHonest, EnterHitHonest,
       EnterNodeHonest, RazorDoneHonest, EnterQuiesceHonest, SkipIllegalHonest,
       TryMoveHonest, TryCaptureHonest, NoMoreMovesHonest, ResumeHonest, CutShortHonest
  <2>3. TableTrue(tt')
    <3>1. CASE NoMoreMoves(j) \/ Resume(j)
      BY <1>1, <2>1, <3>1, NoMoreMovesHonest, ResumeHonest
    <3>2. CASE ~(NoMoreMoves(j) \/ Resume(j))
      <4>1. tt' = tt
        BY <1>2, <3>2 DEF EnterDraw, EnterLeaf, EnterHit, EnterNode, RazorDone,
           EnterQuiesce, SkipIllegal, TryMove, TryCapture, CutShort
      <4> QED
        BY <1>1, <4>1
    <3> QED
      BY <3>1, <3>2
  <2>4. LocalStep(j, d) \/ LocalStep(j, TRUE)
    BY <1>1, <1>2, <2>1, EnterStep, EnterNodeStep, RazorDoneStep, EnterQuiesceStep,
       SkipIllegalStep, TryMoveStep, TryCaptureStep, NoMoreMovesStep, ResumeStep,
       CutShortStep
  <2>5. \A i \in Jobs : i # j => Honest(i)'
    BY <1>1, <2>1, <2>4, OthersHonest
  <2> QED
    BY <2>2, <2>3, <2>5 DEF MateInv
<1>3. ASSUME NEW j \in Jobs, Begin(j) PROVE MateInv'
  <2> DEFINE d == FALSE
  <2>1. /\ "Root" \in Kind /\ {} \in SUBSET Flag /\ "Root" # "Simple" /\ d \in BOOLEAN
        /\ <<>> \in Seq(FrameSet(d))
    BY DEF Kind
  <2>2. jobDepth[j] \in Int /\ Inf \in Int /\ -Inf \in Int /\ board[j] \in Board
    BY <1>1, ScoreAssumption DEF TypeOK
  <2>3. Search(j, <<>>, "Root", jobDepth[j], -Inf, Inf, {}, board[j]) /\ tt' = tt
    BY <1>3 DEF Begin
  <2> HIDE DEF d
  <2>4. LocalStep(j, d)
    BY <1>1, <2>1, <2>2, <2>3, SearchStep
  <2>5. \A i \in Jobs : i # j => Honest(i)'
    BY <1>1, <2>1, <2>4, OthersHonest
  <2>6. Honest(j)'
    BY <1>3, BeginHonest
  <2> QED
    BY <1>1, <2>3, <2>5, <2>6 DEF MateInv
<1>4. ASSUME NEW j \in Jobs, Finish(j) PROVE MateInv'
  <2>1. /\ UNCHANGED <<tt, board, stack>> /\ stack[j] = <<>>
        /\ ret' = [ret EXCEPT ![j] = NoScore]
    BY <1>4 DEF Finish
  <2>2. ASSUME NEW i \in Jobs PROVE Honest(i)'
    <3>1. CASE i = j
      BY <1>1, <2>1, <3>1 DEF Honest, StackTrue
    <3>2. CASE i # j
      <4>1. ret'[i] = ret[i]
        BY <1>1, <2>1, <3>2 DEF TypeOK
      <4> QED
        BY <1>1, <2>1, <4>1 DEF Honest
    <3> QED
      BY <3>1, <3>2
  <2> QED
    BY <1>1, <2>1, <2>2 DEF MateInv
<1>5. CASE UNCHANGED <<tt, local>>
  BY <1>1, <1>5 DEF MateInv, Honest, local
<1>6. ASSUME NEW j \in Jobs, Step(j) PROVE MateInv'
  BY <1>2, <1>3, <1>4, <1>5, <1>6 DEF Step, EndSearch
<1> QED
  BY <1>5, <1>6 DEF Next, Done, Stop, vars

(* The claims of the table, each with its bound, are those of the property.  *)
LEMMA ClaimsAreTableTrue ==
  ASSUME TypeOK
  PROVE  MateClaimsHold <=> TableTrue(tt)
<1>1. ASSUME NEW p \in Positions, NEW s \in Int
      PROVE  /\ LowTrue(p, s, 0) <=>
                  (s >= Threshold => s <= Checkmate /\ p \in Fate[Checkmate - s].win)
             /\ HighTrue(p, s, 0) <=>
                  (s <= -Threshold => -s <= Checkmate /\ p \in Fate[Checkmate + s].lose)
  <2>1. /\ Checkmate - s - 0 = Checkmate - s /\ Checkmate + s - 0 = Checkmate + s
        /\ Checkmate - s \in Nat <=> s <= Checkmate
        /\ Checkmate + s \in Nat <=> -s <= Checkmate
    BY ScoreAssumption
  <2> QED
    BY <2>1 DEF LowTrue, HighTrue, Wins, Loses
<1>2. ASSUME NEW p \in Positions, tt[p] # NoEntry PROVE tt[p].score \in Int
  BY <1>2 DEF TypeOK, Entry
<1>3. ASSUME NEW p \in Positions, tt[p] # NoEntry
      PROVE  LET e == tt[p] IN
             (/\ e.score >= Threshold /\ e.bound # "Upperbound" =>
                   e.score <= Checkmate /\ p \in Fate[Checkmate - e.score].win
              /\ e.score <= -Threshold /\ e.bound # "Lowerbound" =>
                   -e.score <= Checkmate /\ p \in Fate[Checkmate + e.score].lose)
             <=>
             (/\ e.bound # "Upperbound" => LowTrue(p, e.score, 0)
              /\ e.bound # "Lowerbound" => HighTrue(p, e.score, 0))
  <2>1. PICK s \in Int : s = tt[p].score
    BY <1>2, <1>3
  <2> QED
    BY <1>1, <2>1
<1> QED
  BY <1>3 DEF MateClaimsHold, TableTrue

(* If every mate that the table claims when the search begins is there on the *)
(* board, so is every mate it claims at any later time, whatever the jobs      *)
(* prune, reduce, cut short or read from each other: a lower bound on a mate   *)
(* comes up one move at a time from a position that is mated, an upper bound   *)
(* from all the moves of a position, and both are counted from the right ply   *)
(* (doSearch(), quiescenseSearch(), ttStore(), adjustCheckmate()).             *)
THEOREM MatesAreReal == MateClaimsHold /\ Spec => []MateClaimsHold
<1>1. MateClaimsHold /\ Init => MateInv
  <2> SUFFICES ASSUME MateClaimsHold, Init PROVE MateInv
    OBVIOUS
  <2>1. TypeOK
    BY InitInvariant DEF IInv
  <2>2. TableTrue(tt)
    BY <2>1, ClaimsAreTableTrue
  <2>3. ASSUME NEW j \in Jobs PROVE Honest(j)
    <3>1. PICK s \in Seq(Frame) : s = <<>> /\ Len(s) = 0
      BY EmptySeq
    <3>2. stack[j] = s
      BY <3>1 DEF Init
    <3> QED
      BY <3>1, <3>2 DEF Honest, StackTrue, CallsTrue
  <2> QED
    BY <2>2, <2>3 DEF MateInv
<1>2. IInv /\ MateInv => MateClaimsHold
  BY ClaimsAreTableTrue DEF IInv, MateInv
<1> QED
  BY <1>1, <1>2, StepHonest, Invariant, TraceInvariant, PTL DEF Spec

-----------------------------------------------------------------------------
(* The scores of the tree are 16-bit integers, and come from pairs of them. *)

Score == INSTANCE Score

(* The two halves of a word, for a solver that knows sums only. *)
LEMMA DivIsDown ==
  ASSUME NEW x \in Int
  PROVE  /\ x \div 65536 \in Int /\ x % 65536 \in Int
         /\ 0 <= x % 65536 /\ x % 65536 <= 65535
         /\ x = 65536 * (x \div 65536) + (x % 65536)
<1>1. x \div 65536 \in Int 
  OBVIOUS
<1>2. x % 65536 \in Int
  OBVIOUS
<1>3. 0 <= x % 65536 /\ x % 65536 <= 65535
  OBVIOUS
<1>4. x = 65536 * (x \div 65536) + (x % 65536)
  OBVIOUS
<1> QED BY <1>1, <1>2, <1>3, <1>4
LEMMA Halves ==
  ASSUME NEW high \in Int, NEW low \in Int, 0 <= low, low <= 65535, NEW x \in Int, x = 65536 * high + low
  PROVE  x \div 65536 = high /\ x % 65536 = low
<1> DEFINE q == x \div 65536
           r == x % 65536
<1>1. q \in Int /\ r \in Int /\ 0 <= r /\ r <= 65535 /\ x = 65536 * q + r
  BY DivIsDown
<1> HIDE DEF q, r
<1>2. ~(q < high)
  BY <1>1
<1>3. ~(high < q)
  BY <1>1
<1>4. q = high
  BY <1>1, <1>2, <1>3
<1>5. r = low
  BY <1>1, <1>4
<1> QED
  BY <1>4, <1>5 DEF q, r

(* The low half of a score, and the high half, which is its sign. *)
LEMMA LowHalf ==
  ASSUME NEW n \in Int, -32768 <= n, n <= 32767
  PROVE  /\ n >= 0 => n % 65536 = n /\ n \div 65536 = 0
         /\ n < 0 => n % 65536 = n + 65536 /\ n \div 65536 = -1
<1>1. CASE n >= 0
  <2>1. n = 65536 * 0 + n
    OBVIOUS
  <2> QED
    BY <1>1, <2>1, Halves
<1>2. CASE n < 0
  <2>1. n = 65536 * (-1) + (n + 65536) /\ n + 65536 \in Int /\ 0 <= n + 65536 /\ n + 65536 <= 65535
    BY <1>2
  <2> QED
    BY <1>2, <2>1, Halves
<1> QED
  BY <1>1, <1>2

(* A number that is a score already survives the conversion. *)
LEMMA ScoresFit ==
  ASSUME NEW n \in Int, -32768 <= n, n <= 32767
  PROVE  Score!AsScore(n) = n
BY LowHalf DEF Score!AsScore

(* A negative first score borrows one from the high half. *)
LEMMA HighHalf ==
  ASSUME NEW first \in Int, -32767 <= first, first <= 32767, NEW second \in Int,
         NEW p \in Int, p = second * 65536 + first
  PROVE  /\ first >= 0 => p % 65536 = first /\ p \div 65536 = second
         /\ first < 0 => p % 65536 = first + 65536 /\ p \div 65536 = second - 1
<1>0. p = 65536 * second + first
  OBVIOUS
<1>1. CASE first >= 0
  BY <1>0, <1>1, Halves
<1>2. CASE first < 0
  <2>1. p = 65536 * (second - 1) + (first + 65536)
    BY <1>0
  <2>2. first + 65536 \in Int /\ 0 <= first + 65536 /\ first + 65536 <= 65535 /\ second - 1 \in Int
    BY <1>2
  <2> QED
    BY <1>0, <1>2, <2>1, <2>2, Halves
<1> QED
  BY <1>0, <1>1, <1>2

(* What first() and second() take out of a pair is what from() has put in. *)
LEMMA PairHoldsBoth ==
  ASSUME NEW first \in Int, -Score!ScoreInf <= first, first <= Score!ScoreInf,
         NEW second \in Int, -Score!ScoreInf <= second, second <= Score!ScoreInf
  PROVE  /\ Score!PairFirst(Score!PairFrom(first, second)) = first
         /\ Score!PairSecond(Score!PairFrom(first, second)) = second
<1>1. /\ first \in Int /\ -32767 <= first /\ first <= 32767
      /\ second \in Int /\ -32767 <= second /\ second <= 32767
  BY DEF Score!ScoreInf
<1> DEFINE pair == Score!PairFrom(first, second)
<1>2. pair \in Int /\ pair = second * 65536 + first
  BY <1>1 DEF Score!PairFrom
<1> HIDE DEF pair
<1>3. /\ first >= 0 => pair % 65536 = first /\ pair \div 65536 = second
      /\ first < 0 => pair % 65536 = first + 65536 /\ pair \div 65536 = second - 1
  BY <1>1, <1>2, HighHalf
<1>4. Score!PairFirst(pair) = first
  BY <1>1, <1>2, <1>3 DEF Score!PairFirst, Score!AsScore
<1>5. Score!PairSecond(pair) = second
  <2>1. CASE first >= 0
    <3>1. Score!PairSecond(pair) = Score!AsScore(second % 65536)
      BY <1>1, <1>2, <1>3, <1>4, <2>1 DEF Score!PairSecond
    <3>2. second % 65536 = IF second < 0 THEN second + 65536 ELSE second
      BY <1>1, LowHalf
    <3>3. Score!AsScore(second % 65536) = second
      BY <1>1, <3>2, LowHalf DEF Score!AsScore
    <3> QED
      BY <3>1, <3>3
  <2>2. CASE first < 0
    <3>1. Score!PairSecond(pair) = Score!AsScore(((second - 1) % 65536) + 1)
      BY <1>1, <1>2, <1>3, <1>4, <2>2 DEF Score!PairSecond
    <3>2. (second - 1) % 65536 = IF second - 1 < 0 THEN second - 1 + 65536 ELSE second - 1
      BY <1>1, LowHalf
    <3>3. Score!AsScore(((second - 1) % 65536) + 1) = second
      BY <1>1, <3>2, LowHalf DEF Score!AsScore
    <3> QED
      BY <3>1, <3>3
  <2> QED
    BY <1>1, <2>1, <2>2
<1> QED
  BY <1>4, <1>5 DEF pair

(* The evaluator adds pairs as single words: as long as the two sums are     *)
(* scores, the halves of the sum are the sums of the halves, and no carry or  *)
(* borrow leaks from the middlegame into the endgame.                         *)
THEOREM PairsAddUp ==
  ASSUME NEW a \in Int, NEW b \in Int, NEW c \in Int, NEW d \in Int,
         -Score!ScoreInf <= a + c, a + c <= Score!ScoreInf,
         -Score!ScoreInf <= b + d, b + d <= Score!ScoreInf
  PROVE  LET sum == Score!PairFrom(a, b) + Score!PairFrom(c, d) IN
         Score!PairFirst(sum) = a + c /\ Score!PairSecond(sum) = b + d
<1>1. Score!PairFrom(a, b) + Score!PairFrom(c, d) = Score!PairFrom(a + c, b + d)
  BY DEF Score!PairFrom
<1>2. a + c \in Int /\ b + d \in Int
  OBVIOUS
<1>3. /\ Score!PairFirst(Score!PairFrom(a + c, b + d)) = a + c
      /\ Score!PairSecond(Score!PairFrom(a + c, b + d)) = b + d
  BY <1>2, PairHoldsBoth
<1> QED
  BY <1>1, <1>3

(* The costs of the three kinds of scores. *)
LEMMA LostCost ==
  ASSUME NEW s \in Int, Score!IsScoreValid(s), Score!IsLost(s)
  PROVE  /\ Score!ScoreToPositionCost(s) \in Int
         /\ 2 * Score!ScoreToPositionCost(s) = 2 * Score!ValueMin + (s + 30000)
         /\ Score!ScoreToPositionCost(s) <= Score!ValueMin + 1000
<1>1. -30000 <= s /\ s <= -28000 /\ (s + 30000) % 2 = 0
  BY DEF Score!IsScoreValid, Score!IsLost, Score!ScoreCheckmate, Score!CheckmateThreshold
<1> DEFINE half == (s + 30000) \div 2
<1>2. half \in Int /\ 2 * half = s + 30000
  BY <1>1
<1>3. Score!ScoreToPositionCost(s) = Score!CheckMate(-half)
  BY DEF Score!ScoreToPositionCost, Score!ScoreCheckmate
<1> HIDE DEF half
<1>4. Score!CheckMate(-half) = Score!ValueMin + half
  BY <1>1, <1>2 DEF Score!CheckMate, Score!ValueMin, Score!ValueMax
<1> QED
  BY <1>1, <1>2, <1>3, <1>4 DEF Score!ValueMin, Score!ValueMax

LEMMA WonCost ==
  ASSUME NEW s \in Int, Score!IsScoreValid(s), Score!IsWon(s)
  PROVE  /\ Score!ScoreToPositionCost(s) \in Int
         /\ 2 * Score!ScoreToPositionCost(s) = 2 * Score!ValueMax + 1 - (30000 - s)
         /\ Score!ScoreToPositionCost(s) >= Score!ValueMax - 1000
<1>1. 28000 <= s /\ s <= 30000 /\ (30000 - s) % 2 = 1
  BY DEF Score!IsScoreValid, Score!IsWon, Score!ScoreCheckmate, Score!CheckmateThreshold
<1> DEFINE half == (30000 - s + 1) \div 2
<1>2. half \in Int /\ 2 * half = 30001 - s
  BY <1>1
<1>3. Score!ScoreToPositionCost(s) = Score!CheckMate(half)
  <2>1. ~Score!IsLost(s)
    BY <1>1 DEF Score!IsLost, Score!CheckmateThreshold
  <2> QED
    BY <2>1 DEF Score!ScoreToPositionCost, Score!ScoreCheckmate
<1> HIDE DEF half
<1>4. Score!CheckMate(half) = Score!ValueMax - (half - 1)
  BY <1>1, <1>2 DEF Score!CheckMate
<1> QED
  BY <1>1, <1>2, <1>3, <1>4 DEF Score!ValueMax

LEMMA PlainCost ==
  ASSUME NEW s \in Int, Score!IsScoreValid(s), ~Score!IsScoreCheckmate(s)
  PROVE  Score!ScoreToPositionCost(s) = s /\ -27999 <= s /\ s <= 27999
BY DEF Score!ScoreToPositionCost, Score!Centipawns, Score!IsScoreValid, Score!IsScoreCheckmate, Score!IsLost, Score!IsWon,
       Score!CheckmateThreshold, Score!ScoreCheckmate

(* The cost shown to the GUI orders positions as the scores do: a faster mate *)
(* is better than a slower one and than any advantage, and two mates of       *)
(* different length are not the same number of moves, because a valid score   *)
(* has an even distance if lost and an odd one if won.                        *)
THEOREM CostsKeepTheOrder ==
  ASSUME NEW s \in Int, NEW t \in Int, Score!IsScoreValid(s), Score!IsScoreValid(t), s < t
  PROVE  Score!ScoreToPositionCost(s) < Score!ScoreToPositionCost(t)
<1>1. /\ Score!IsLost(t) => Score!IsLost(s)
      /\ Score!IsWon(s) => Score!IsWon(t)
  BY DEF Score!IsLost, Score!IsWon, Score!CheckmateThreshold
<1> DEFINE costS == Score!ScoreToPositionCost(s)
           costT == Score!ScoreToPositionCost(t)
<1>2. /\ Score!IsLost(s) => costS \in Int /\ 2 * costS = 2 * Score!ValueMin + (s + 30000)
                        /\ costS <= Score!ValueMin + 1000
      /\ Score!IsWon(s) => costS \in Int /\ 2 * costS = 2 * Score!ValueMax + 1 - (30000 - s)
                       /\ costS >= Score!ValueMax - 1000
      /\ ~Score!IsScoreCheckmate(s) => costS = s /\ -27999 <= s /\ s <= 27999
  BY LostCost, WonCost, PlainCost
<1>3. /\ Score!IsLost(t) => costT \in Int /\ 2 * costT = 2 * Score!ValueMin + (t + 30000)
                        /\ costT <= Score!ValueMin + 1000
      /\ Score!IsWon(t) => costT \in Int /\ 2 * costT = 2 * Score!ValueMax + 1 - (30000 - t)
                       /\ costT >= Score!ValueMax - 1000
      /\ ~Score!IsScoreCheckmate(t) => costT = t /\ -27999 <= t /\ t <= 27999
  BY LostCost, WonCost, PlainCost
<1> HIDE DEF costS, costT
<1>4. CASE Score!IsLost(t)
  BY <1>1, <1>2, <1>3, <1>4 DEF Score!ValueMin, Score!ValueMax, costS, costT
<1>5. CASE Score!IsWon(s)
  BY <1>1, <1>2, <1>3, <1>5 DEF Score!ValueMax, costS, costT
<1>6. CASE Score!IsWon(t) /\ ~Score!IsWon(s)
  BY <1>2, <1>3, <1>6 DEF Score!ValueMax, Score!ValueMin, Score!IsScoreCheckmate, costS, costT
<1>7. CASE ~Score!IsLost(t) /\ ~Score!IsWon(t)
  BY <1>1, <1>2, <1>3, <1>7 DEF Score!ValueMax, Score!ValueMin, Score!IsScoreCheckmate, costS, costT
<1> QED
  BY <1>4, <1>5, <1>6, <1>7

(* A mate that is loaded at some ply and stored there again is the same entry *)
(* as before, if it is less than 1000 plies away and so is the ply.           *)
THEOREM MatesComeBack ==
  ASSUME NEW s \in Int, NEW d \in 0..1000, Score!IsScoreValid(s),
         Score!IsLost(s) => s + Score!ScoreCheckmate <= 999,
         Score!IsWon(s) => Score!ScoreCheckmate - s <= 999
  PROVE  Score!AdjustCheckmate(Score!AdjustCheckmate(s, d), -d) = s
<1>1. CASE Score!IsLost(s)
  <2>1. -30000 <= s /\ s + d <= -28001
    BY <1>1 DEF Score!IsLost, Score!IsScoreValid, Score!ScoreCheckmate, Score!CheckmateThreshold
  <2>2. Score!AdjustCheckmate(s, d) = s + d
    BY <2>1, ScoresFit DEF Score!AdjustCheckmate, Score!IsLost, Score!IsWon, Score!CheckmateThreshold
  <2>3. Score!AdjustCheckmate(s + d, -d) = s
    BY <2>1, ScoresFit DEF Score!AdjustCheckmate, Score!IsLost, Score!IsWon, Score!CheckmateThreshold
  <2> QED BY <2>2, <2>3
<1>2. CASE Score!IsWon(s)
  <2>1. s <= 30000 /\ 28001 <= s - d
    BY <1>2 DEF Score!IsWon, Score!IsScoreValid, Score!ScoreCheckmate, Score!CheckmateThreshold
  <2>2. Score!AdjustCheckmate(s, d) = s - d
    BY <2>1, ScoresFit DEF Score!AdjustCheckmate, Score!IsLost, Score!IsWon, Score!CheckmateThreshold
  <2>3. Score!AdjustCheckmate(s - d, -d) = s
    BY <2>1, ScoresFit DEF Score!AdjustCheckmate, Score!IsLost, Score!IsWon, Score!CheckmateThreshold
  <2> QED BY <2>2, <2>3
<1>3. CASE ~Score!IsLost(s) /\ ~Score!IsWon(s)
  <2>1. -27999 <= s /\ s <= 27999
    BY <1>3 DEF Score!IsLost, Score!IsWon, Score!CheckmateThreshold
  <2> QED BY <1>3, <2>1, ScoresFit DEF Score!AdjustCheckmate
<1> QED BY <1>1, <1>2, <1>3

(* The tree counts with integers, the code with 16 bits: with the constants   *)
(* of score.h they agree for every valid score and every ply below 2000.      *)
THEOREM AdjustmentsDoNotWrap ==
  ASSUME Threshold = Score!CheckmateThreshold,
         NEW s \in Int, -Score!ScoreCheckmate <= s, s <= Score!ScoreCheckmate,
         NEW delta \in Int, -2000 <= delta, delta <= 2000
  PROVE  AdjustCheckmate(s, delta) = Score!AdjustCheckmate(s, delta)
<1>1. -30000 <= s /\ s <= 30000
  BY DEF Score!ScoreCheckmate
<1>2. Score!AsScore(s + delta) = s + delta /\ Score!AsScore(s + (-delta)) = s - delta
  BY <1>1, ScoresFit
<1>3. Score!AsScore(s + 0) = s
  BY <1>1, ScoresFit
<1> QED
  BY <1>1, <1>2, <1>3
     DEF AdjustCheckmate, Score!AdjustCheckmate, Score!IsWon, Score!IsLost,
         Score!CheckmateThreshold
=============================================================================
