------------------------- MODULE SearchRoundProofs -------------------------
(***************************************************************************)
(* What module SearchRound promises, for any number of jobs and depths and *)
(* for any number of rounds: published lines are genuine and unique by     *)
(* depth, the best move is that of the deepest line, and the main thread   *)
(* does not sleep through a stop or a line.                                *)
(*                                                                         *)
(* The invariant that carries all of it relates each job's position in     *)
(* Job::run to the shared depth: a job never runs ahead of depth_, and     *)
(* once it has passed finishDepth() the shared depth is beyond its own for *)
(* the rest of the round.                                                  *)
(***************************************************************************)
EXTENDS SearchRound, OrderFacts, TLAPS

JobLabels == {"search", "searched", "finishDepth", "addLine", "notify", "deepen", "done"}
MainLabels == {"wait", "sleep", "asleep", "woken", "handle", "checkLimits", "join", "done"}

(* Where the threads may be. *)
LabelsInv ==
  /\ \A j \in Jobs : pc[j] \in JobLabels
  /\ pc[Main] \in MainLabels
  /\ (lock = Main) <=> (pc[Main] = "sleep")
  /\ stopping[Main] # "no" => pc[Main] = "wait"

(* A job against the shared depth. *)
JobInv(j) ==
  /\ jobDepth[j] <= depth
  /\ pc[j] \in {"addLine", "notify", "deepen"} => jobDepth[j] < depth
  /\ pc[j] = "searched" /\ ~complete[j] => stopped \/ jobDepth[j] < depth
  /\ pc[j] = "finishDepth" /\ ~complete[j] => jobDepth[j] < depth
  /\ pc[j] = "addLine" =>
       /\ complete[j]
       /\ \A l \in Published : l.depth # jobDepth[j]
       /\ \A i \in Jobs : pc[i] = "addLine" /\ jobDepth[i] = jobDepth[j] => i = j

LinesInv ==
  /\ \A l \in Published : l.depth < depth
  /\ OneLinePerDepth
  /\ LinesAreGenuine

(* About to sleep with the mutex held, the main thread has seen no line, and *)
(* whoever stopped the round since then is still in front of the mutex.      *)
WakeInv ==
  /\ pc[Main] = "sleep" =>
       /\ lines = {}
       /\ stopped => \E t \in Threads : stopping[t] = "lock"
  /\ NoLostWakeup

IInv ==
  TypeOK /\ LabelsInv /\ (\A j \in Jobs : JobInv(j)) /\ LinesInv /\ WakeInv /\ BestIsDeepest

-----------------------------------------------------------------------------
(* A nonempty batch has a deepest line. *)
LEMMA DeepestLine ==
  ASSUME NEW L, L \subseteq Line, L # {}
  PROVE  \E l \in L : \A m \in L : m.depth <= l.depth
<1> DEFINE D == {l.depth : l \in L}
<1>1. MaxDepth \in Nat
  BY BoundsAssumption
<1>2. D \subseteq 0..MaxDepth /\ D # {}
  BY <1>1 DEF Line
<1> HIDE DEF D
<1>3. PICK d \in D : \A e \in D : e <= d
  BY <1>1, <1>2, GreatestNatural
<1> QED
  BY <1>3 DEF D

-----------------------------------------------------------------------------
LEMMA InitInv == Init => IInv
<1> SUFFICES ASSUME Init PROVE IInv
  OBVIOUS
<1> USE ThreadsAssumption, BoundsAssumption
<1>1. TypeOK
  <2>1. pc \in [Threads -> JobLabels \union MainLabels \union {"client"}]
    BY DEF Init, StartPC, JobLabels, MainLabels
  <2>2. depth \in 1..(MaxDepth + 1) /\ round \in 1..MaxRounds
    BY DEF Init
  <2>3. jobDepth \in [Jobs -> 1..MaxDepth] /\ complete \in [Jobs -> BOOLEAN]
    BY DEF Init
  <2>4. stopping \in [Threads -> {"no", "lock", "notify"}]
    BY DEF Init
  <2>5. best \in Line \union {NoLine} /\ lines \subseteq Line /\ reported \subseteq Line
    BY DEF Init
  <2> QED
    BY <2>1, <2>2, <2>3, <2>4, <2>5 DEF Init, TypeOK, JobLabels, MainLabels
<1>2. pc[Main] = "wait" /\ \A j \in Jobs : pc[j] = "search" /\ jobDepth[j] = 1
  BY DEF Init, StartPC, Threads
<1>3. stopping[Main] = "no" /\ lock # Main /\ lines = {} /\ reported = {} /\ best = NoLine
  BY DEF Init, Threads
<1>4. LabelsInv
  <2>1. \A j \in Jobs : pc[j] \in JobLabels
    BY <1>2 DEF JobLabels
  <2>2. pc[Main] \in MainLabels
    BY <1>2 DEF MainLabels
  <2>3. (lock = Main) <=> (pc[Main] = "sleep")
    BY <1>2, <1>3
  <2> QED
    BY <2>1, <2>2, <2>3, <1>3 DEF LabelsInv
<1>5. ASSUME NEW j \in Jobs PROVE JobInv(j)
  <2>1. jobDepth[j] <= depth
    BY <1>2 DEF Init
  <2> QED
    BY <2>1, <1>2 DEF JobInv
<1>6. LinesInv
  BY <1>3 DEF LinesInv, OneLinePerDepth, LinesAreGenuine, Published
<1>7. WakeInv
  BY <1>2 DEF WakeInv, NoLostWakeup
<1>8. BestIsDeepest
  BY <1>3 DEF BestIsDeepest
<1> QED
  BY <1>1, <1>4, <1>5, <1>6, <1>7, <1>8 DEF IInv

LEMMA SearchCompleteInv ==
  ASSUME NEW t \in Jobs, IInv, SearchComplete(t)
  PROVE  IInv'
<1> USE ThreadsAssumption, BoundsAssumption
<1>1. TypeOK'
  BY DEF SearchComplete, At, Goto, CallStop, NotifyAll, comm, jobVars, mainVars, IInv, TypeOK, Threads
<1>2. LabelsInv'
  BY DEF SearchComplete, At, Goto, CallStop, NotifyAll, comm, jobVars, mainVars, IInv, TypeOK, LabelsInv, JobLabels, MainLabels, Threads
<1>3. ASSUME NEW j \in Jobs PROVE JobInv(j)'
  BY DEF SearchComplete, At, Goto, CallStop, NotifyAll, comm, jobVars, mainVars, IInv, TypeOK, JobInv, Published, Threads
<1>4. LinesInv'
  BY DEF SearchComplete, At, Goto, CallStop, NotifyAll, comm, jobVars, mainVars, IInv, TypeOK, LinesInv, LinesAreGenuine, OneLinePerDepth, Published
<1>5. WakeInv'
  BY DEF SearchComplete, At, Goto, CallStop, NotifyAll, comm, jobVars, mainVars, IInv, TypeOK, LabelsInv, WakeInv, NoLostWakeup, Threads, JobLabels, MainLabels
<1>6. BestIsDeepest'
  BY DEF SearchComplete, At, Goto, CallStop, NotifyAll, comm, jobVars, mainVars, IInv, BestIsDeepest
<1> QED
  BY <1>1, <1>2, <1>3, <1>4, <1>5, <1>6 DEF IInv

LEMMA SearchAbortInv ==
  ASSUME NEW t \in Jobs, IInv, SearchAbort(t)
  PROVE  IInv'
<1> USE ThreadsAssumption, BoundsAssumption
<1>1. TypeOK'
  BY DEF SearchAbort, At, Goto, CallStop, NotifyAll, comm, jobVars, mainVars, IInv, TypeOK, Threads
<1>2. LabelsInv'
  BY DEF SearchAbort, At, Goto, CallStop, NotifyAll, comm, jobVars, mainVars, IInv, TypeOK, LabelsInv, JobLabels, MainLabels, Threads
<1>3. ASSUME NEW j \in Jobs PROVE JobInv(j)'
  BY DEF SearchAbort, At, Goto, CallStop, NotifyAll, comm, jobVars, mainVars, IInv, TypeOK, JobInv, Published, Threads
<1>4. LinesInv'
  BY DEF SearchAbort, At, Goto, CallStop, NotifyAll, comm, jobVars, mainVars, IInv, TypeOK, LinesInv, LinesAreGenuine, OneLinePerDepth, Published
<1>5. WakeInv'
  BY DEF SearchAbort, At, Goto, CallStop, NotifyAll, comm, jobVars, mainVars, IInv, TypeOK, LabelsInv, WakeInv, NoLostWakeup, Threads, JobLabels, MainLabels
<1>6. BestIsDeepest'
  BY DEF SearchAbort, At, Goto, CallStop, NotifyAll, comm, jobVars, mainVars, IInv, BestIsDeepest
<1> QED
  BY <1>1, <1>2, <1>3, <1>4, <1>5, <1>6 DEF IInv

LEMMA SearchTimeoutInv ==
  ASSUME NEW t \in Jobs, IInv, SearchTimeout(t)
  PROVE  IInv'
<1> USE ThreadsAssumption, BoundsAssumption
<1>1. TypeOK'
  BY DEF SearchTimeout, At, Goto, CallStop, NotifyAll, comm, jobVars, mainVars, IInv, TypeOK, Threads
<1>2. LabelsInv'
  BY DEF SearchTimeout, At, Goto, CallStop, NotifyAll, comm, jobVars, mainVars, IInv, TypeOK, LabelsInv, JobLabels, MainLabels, Threads
<1>3. ASSUME NEW j \in Jobs PROVE JobInv(j)'
  BY DEF SearchTimeout, At, Goto, CallStop, NotifyAll, comm, jobVars, mainVars, IInv, TypeOK, JobInv, Published, Threads
<1>4. LinesInv'
  BY DEF SearchTimeout, At, Goto, CallStop, NotifyAll, comm, jobVars, mainVars, IInv, TypeOK, LinesInv, LinesAreGenuine, OneLinePerDepth, Published
<1>5. WakeInv'
  BY DEF SearchTimeout, At, Goto, CallStop, NotifyAll, comm, jobVars, mainVars, IInv, TypeOK, LabelsInv, WakeInv, NoLostWakeup, Threads, JobLabels, MainLabels
<1>6. BestIsDeepest'
  BY DEF SearchTimeout, At, Goto, CallStop, NotifyAll, comm, jobVars, mainVars, IInv, BestIsDeepest
<1> QED
  BY <1>1, <1>2, <1>3, <1>4, <1>5, <1>6 DEF IInv

LEMMA CheckStoppedInv ==
  ASSUME NEW t \in Jobs, IInv, CheckStopped(t)
  PROVE  IInv'
<1> USE ThreadsAssumption, BoundsAssumption
<1>1. TypeOK'
  BY DEF CheckStopped, At, Goto, CallStop, NotifyAll, comm, jobVars, mainVars, IInv, TypeOK, Threads
<1>2. LabelsInv'
  BY DEF CheckStopped, At, Goto, CallStop, NotifyAll, comm, jobVars, mainVars, IInv, TypeOK, LabelsInv, JobLabels, MainLabels, Threads
<1>3. ASSUME NEW j \in Jobs PROVE JobInv(j)'
  BY DEF CheckStopped, At, Goto, CallStop, NotifyAll, comm, jobVars, mainVars, IInv, TypeOK, JobInv, Published, Threads
<1>4. LinesInv'
  BY DEF CheckStopped, At, Goto, CallStop, NotifyAll, comm, jobVars, mainVars, IInv, TypeOK, LinesInv, LinesAreGenuine, OneLinePerDepth, Published
<1>5. WakeInv'
  BY DEF CheckStopped, At, Goto, CallStop, NotifyAll, comm, jobVars, mainVars, IInv, TypeOK, LabelsInv, WakeInv, NoLostWakeup, Threads, JobLabels, MainLabels
<1>6. BestIsDeepest'
  BY DEF CheckStopped, At, Goto, CallStop, NotifyAll, comm, jobVars, mainVars, IInv, BestIsDeepest
<1> QED
  BY <1>1, <1>2, <1>3, <1>4, <1>5, <1>6 DEF IInv

LEMMA FinishDepthInv ==
  ASSUME NEW t \in Jobs, IInv, FinishDepth(t)
  PROVE  IInv'
<1> USE ThreadsAssumption, BoundsAssumption
<1>1. TypeOK'
  BY DEF FinishDepth, At, Goto, CallStop, NotifyAll, comm, jobVars, mainVars, IInv, TypeOK, Threads
<1>2. LabelsInv'
  BY DEF FinishDepth, At, Goto, CallStop, NotifyAll, comm, jobVars, mainVars, IInv, TypeOK, LabelsInv, JobLabels, MainLabels, Threads
<1>3. ASSUME NEW j \in Jobs PROVE JobInv(j)'
  <2>1. JobInv(t) /\ JobInv(j) /\ \A i \in Jobs : JobInv(i)
    BY DEF IInv
  <2>2. \A l \in Published : l.depth < depth
    BY DEF IInv, LinesInv
  <2>3. Published' = Published
    BY DEF FinishDepth, jobVars, mainVars, Published
  <2>4. CASE depth = jobDepth[t]
    <3>1. depth' = depth + 1 /\ pc' = [pc EXCEPT ![t] = "addLine"] /\ pc[t] = "finishDepth"
      BY <2>4 DEF FinishDepth, At, Goto
    <3>2. complete[t]
      BY <2>1, <2>4, <3>1 DEF JobInv, IInv, TypeOK
    <3>3. \A i \in Jobs : jobDepth[i] \in Nat /\ depth \in Nat
      BY DEF IInv, TypeOK
    <3> QED
      BY <2>1, <2>2, <2>3, <2>4, <3>1, <3>2, <3>3
         DEF FinishDepth, jobVars, mainVars, IInv, TypeOK, JobInv, Threads
  <2>5. CASE depth # jobDepth[t]
    <3>1. depth' = depth /\ pc' = [pc EXCEPT ![t] = "deepen"]
      BY <2>5 DEF FinishDepth, At, Goto
    <3>2. jobDepth[t] < depth
      BY <2>1, <2>5 DEF IInv, TypeOK, JobInv
    <3> QED
      BY <2>1, <2>2, <2>3, <2>5, <3>1, <3>2
         DEF FinishDepth, jobVars, mainVars, IInv, TypeOK, JobInv, Threads
  <2> QED
    BY <2>4, <2>5
<1>4. LinesInv'
  <2>1. Published' = Published /\ round' = round
    BY DEF FinishDepth, jobVars, mainVars, Published
  <2>2. depth' \in {depth, depth + 1} /\ depth \in Nat
    BY DEF FinishDepth, IInv, TypeOK
  <2>3. \A l \in Published : l.depth \in Nat
    BY DEF Published, IInv, TypeOK, Line
  <2> QED
    BY <2>1, <2>2, <2>3 DEF IInv, LinesInv, LinesAreGenuine, OneLinePerDepth
<1>5. WakeInv'
  BY DEF FinishDepth, At, Goto, CallStop, NotifyAll, comm, jobVars, mainVars, IInv, TypeOK, LabelsInv, WakeInv, NoLostWakeup, Threads, JobLabels, MainLabels
<1>6. BestIsDeepest'
  BY DEF FinishDepth, At, Goto, CallStop, NotifyAll, comm, jobVars, mainVars, IInv, BestIsDeepest
<1> QED
  BY <1>1, <1>2, <1>3, <1>4, <1>5, <1>6 DEF IInv

LEMMA AddLineInv ==
  ASSUME NEW t \in Jobs, IInv, AddLine(t)
  PROVE  IInv'
<1> USE ThreadsAssumption, BoundsAssumption
<1> DEFINE new == [depth |-> jobDepth[t], job |-> t, complete |-> complete[t], round |-> round]
<1>0. new \in Line /\ lines' = lines \union {new} /\ Published' = Published \union {new}
  BY DEF AddLine, IInv, TypeOK, Line, Published, mainVars
<1>1. TypeOK'
  BY <1>0 DEF AddLine, At, Goto, jobVars, mainVars, IInv, TypeOK, Threads
<1>2. LabelsInv'
  BY DEF AddLine, At, Goto, CallStop, NotifyAll, comm, jobVars, mainVars, IInv, TypeOK, LabelsInv, JobLabels, MainLabels, Threads
<1>3. ASSUME NEW j \in Jobs PROVE JobInv(j)'
  BY DEF AddLine, At, Goto, CallStop, NotifyAll, comm, jobVars, mainVars, IInv, TypeOK, JobInv, Published, Threads
<1>4. LinesInv'
  <2>1. JobInv(t) /\ pc[t] = "addLine" /\ round' = round /\ depth' = depth
    BY DEF IInv, AddLine, At
  <2>2. new.complete /\ new.round = round /\ new.depth < depth
    BY <2>1 DEF JobInv
  <2>3. \A l \in Published : l.depth # new.depth
    BY <2>1 DEF JobInv
  <2> QED
    BY <1>0, <2>1, <2>2, <2>3 DEF IInv, LinesInv, LinesAreGenuine, OneLinePerDepth
<1>5. WakeInv'
  BY DEF AddLine, At, Goto, CallStop, NotifyAll, comm, jobVars, mainVars, IInv, TypeOK, LabelsInv, WakeInv, NoLostWakeup, Threads, JobLabels, MainLabels
<1>6. BestIsDeepest'
  BY DEF AddLine, At, Goto, CallStop, NotifyAll, comm, jobVars, mainVars, IInv, BestIsDeepest
<1> QED
  BY <1>1, <1>2, <1>3, <1>4, <1>5, <1>6 DEF IInv

LEMMA AddLineNotifyInv ==
  ASSUME NEW t \in Jobs, IInv, AddLineNotify(t)
  PROVE  IInv'
<1> USE ThreadsAssumption, BoundsAssumption
<1>1. TypeOK'
  BY DEF AddLineNotify, At, Goto, CallStop, NotifyAll, comm, jobVars, mainVars, IInv, TypeOK, Threads
<1>2. LabelsInv'
  BY DEF AddLineNotify, At, Goto, CallStop, NotifyAll, comm, jobVars, mainVars, IInv, TypeOK, LabelsInv, JobLabels, MainLabels, Threads
<1>3. ASSUME NEW j \in Jobs PROVE JobInv(j)'
  BY DEF AddLineNotify, At, Goto, CallStop, NotifyAll, comm, jobVars, mainVars, IInv, TypeOK, JobInv, Published, Threads
<1>4. LinesInv'
  BY DEF AddLineNotify, At, Goto, CallStop, NotifyAll, comm, jobVars, mainVars, IInv, TypeOK, LinesInv, LinesAreGenuine, OneLinePerDepth, Published
<1>5. WakeInv'
  BY DEF AddLineNotify, At, Goto, CallStop, NotifyAll, comm, jobVars, mainVars, IInv, TypeOK, LabelsInv, WakeInv, NoLostWakeup, Threads, JobLabels, MainLabels
<1>6. BestIsDeepest'
  BY DEF AddLineNotify, At, Goto, CallStop, NotifyAll, comm, jobVars, mainVars, IInv, BestIsDeepest
<1> QED
  BY <1>1, <1>2, <1>3, <1>4, <1>5, <1>6 DEF IInv

LEMMA DeepenInv ==
  ASSUME NEW t \in Jobs, IInv, Deepen(t)
  PROVE  IInv'
<1> USE ThreadsAssumption, BoundsAssumption
<1>1. TypeOK'
  <2>1. jobDepth' \in [Jobs -> 1..MaxDepth]
    BY DEF Deepen, IInv, TypeOK
  <2>2. pc' = [pc EXCEPT ![t] = "search"] \/ pc' = [pc EXCEPT ![t] = "done"]
    BY DEF Deepen, Goto
  <2>3. stopped' \in BOOLEAN /\ stopping' \in [Threads -> {"no", "lock", "notify"}]
    BY DEF Deepen, CallStop, IInv, TypeOK
  <2> QED
    BY <2>1, <2>2, <2>3 DEF Deepen, mainVars, IInv, TypeOK
<1>2. LabelsInv'
  BY DEF Deepen, At, Goto, CallStop, NotifyAll, comm, jobVars, mainVars, IInv, TypeOK, LabelsInv, JobLabels, MainLabels, Threads
<1>3. ASSUME NEW j \in Jobs PROVE JobInv(j)'
  BY DEF Deepen, At, Goto, CallStop, NotifyAll, comm, jobVars, mainVars, IInv, TypeOK, JobInv, Published, Threads
<1>4. LinesInv'
  BY DEF Deepen, At, Goto, CallStop, NotifyAll, comm, jobVars, mainVars, IInv, TypeOK, LinesInv, LinesAreGenuine, OneLinePerDepth, Published
<1>5. WakeInv'
  BY DEF Deepen, At, Goto, CallStop, NotifyAll, comm, jobVars, mainVars, IInv, TypeOK, LabelsInv, WakeInv, NoLostWakeup, Threads, JobLabels, MainLabels
<1>6. BestIsDeepest'
  BY DEF Deepen, At, Goto, CallStop, NotifyAll, comm, jobVars, mainVars, IInv, BestIsDeepest
<1> QED
  BY <1>1, <1>2, <1>3, <1>4, <1>5, <1>6 DEF IInv

LEMMA StopLockInv ==
  ASSUME NEW t \in Threads, IInv, StopLock(t)
  PROVE  IInv'
<1> USE ThreadsAssumption, BoundsAssumption
<1>1. TypeOK'
  BY DEF StopLock, At, Goto, CallStop, NotifyAll, comm, jobVars, mainVars, IInv, TypeOK, Threads
<1>2. LabelsInv'
  BY DEF StopLock, At, Goto, CallStop, NotifyAll, comm, jobVars, mainVars, IInv, TypeOK, LabelsInv, JobLabels, MainLabels, Threads
<1>3. ASSUME NEW j \in Jobs PROVE JobInv(j)'
  BY DEF StopLock, At, Goto, CallStop, NotifyAll, comm, jobVars, mainVars, IInv, TypeOK, JobInv, Published, Threads
<1>4. LinesInv'
  BY DEF StopLock, At, Goto, CallStop, NotifyAll, comm, jobVars, mainVars, IInv, TypeOK, LinesInv, LinesAreGenuine, OneLinePerDepth, Published
<1>5. WakeInv'
  BY DEF StopLock, At, Goto, CallStop, NotifyAll, comm, jobVars, mainVars, IInv, TypeOK, LabelsInv, WakeInv, NoLostWakeup, Threads, JobLabels, MainLabels
<1>6. BestIsDeepest'
  BY DEF StopLock, At, Goto, CallStop, NotifyAll, comm, jobVars, mainVars, IInv, BestIsDeepest
<1> QED
  BY <1>1, <1>2, <1>3, <1>4, <1>5, <1>6 DEF IInv

LEMMA StopNotifyInv ==
  ASSUME NEW t \in Threads, IInv, StopNotify(t)
  PROVE  IInv'
<1> USE ThreadsAssumption, BoundsAssumption
<1>1. TypeOK'
  BY DEF StopNotify, At, Goto, CallStop, NotifyAll, comm, jobVars, mainVars, IInv, TypeOK, Threads
<1>2. LabelsInv'
  BY DEF StopNotify, At, Goto, CallStop, NotifyAll, comm, jobVars, mainVars, IInv, TypeOK, LabelsInv, JobLabels, MainLabels, Threads
<1>3. ASSUME NEW j \in Jobs PROVE JobInv(j)'
  BY DEF StopNotify, At, Goto, CallStop, NotifyAll, comm, jobVars, mainVars, IInv, TypeOK, JobInv, Published, Threads
<1>4. LinesInv'
  BY DEF StopNotify, At, Goto, CallStop, NotifyAll, comm, jobVars, mainVars, IInv, TypeOK, LinesInv, LinesAreGenuine, OneLinePerDepth, Published
<1>5. WakeInv'
  BY DEF StopNotify, At, Goto, CallStop, NotifyAll, comm, jobVars, mainVars, IInv, TypeOK, LabelsInv, WakeInv, NoLostWakeup, Threads, JobLabels, MainLabels
<1>6. BestIsDeepest'
  BY DEF StopNotify, At, Goto, CallStop, NotifyAll, comm, jobVars, mainVars, IInv, BestIsDeepest
<1> QED
  BY <1>1, <1>2, <1>3, <1>4, <1>5, <1>6 DEF IInv

LEMMA WaitForEventInv ==
  ASSUME IInv, WaitForEvent
  PROVE  IInv'
<1> USE ThreadsAssumption, BoundsAssumption
<1>1. TypeOK'
  BY DEF WaitForEvent, At, Goto, CallStop, NotifyAll, comm, jobVars, mainVars, CheckEvent, IInv, TypeOK, Threads
<1>2. LabelsInv'
  BY DEF WaitForEvent, At, Goto, CallStop, NotifyAll, comm, jobVars, mainVars, IInv, TypeOK, LabelsInv, JobLabels, MainLabels, Threads
<1>3. ASSUME NEW j \in Jobs PROVE JobInv(j)'
  BY DEF WaitForEvent, At, Goto, CallStop, NotifyAll, comm, jobVars, mainVars, IInv, TypeOK, JobInv, Published, Threads
<1>4. LinesInv'
  BY DEF WaitForEvent, At, Goto, CallStop, NotifyAll, comm, jobVars, mainVars, IInv, TypeOK, LinesInv, LinesAreGenuine, OneLinePerDepth, Published
<1>5. WakeInv'
  BY DEF WaitForEvent, At, Goto, CallStop, NotifyAll, comm, jobVars, mainVars, CheckEvent, IInv, TypeOK, LabelsInv, WakeInv, NoLostWakeup, Threads, JobLabels, MainLabels
<1>6. BestIsDeepest'
  BY DEF WaitForEvent, At, Goto, CallStop, NotifyAll, comm, jobVars, mainVars, IInv, BestIsDeepest
<1> QED
  BY <1>1, <1>2, <1>3, <1>4, <1>5, <1>6 DEF IInv

LEMMA WaitSleepInv ==
  ASSUME IInv, WaitSleep
  PROVE  IInv'
<1> USE ThreadsAssumption, BoundsAssumption
<1>1. TypeOK'
  BY DEF WaitSleep, At, Goto, CallStop, NotifyAll, comm, jobVars, mainVars, IInv, TypeOK, Threads
<1>2. LabelsInv'
  BY DEF WaitSleep, At, Goto, CallStop, NotifyAll, comm, jobVars, mainVars, IInv, TypeOK, LabelsInv, JobLabels, MainLabels, Threads
<1>3. ASSUME NEW j \in Jobs PROVE JobInv(j)'
  BY DEF WaitSleep, At, Goto, CallStop, NotifyAll, comm, jobVars, mainVars, IInv, TypeOK, JobInv, Published, Threads
<1>4. LinesInv'
  BY DEF WaitSleep, At, Goto, CallStop, NotifyAll, comm, jobVars, mainVars, IInv, TypeOK, LinesInv, LinesAreGenuine, OneLinePerDepth, Published
<1>5. WakeInv'
  BY DEF WaitSleep, At, Goto, CallStop, NotifyAll, comm, jobVars, mainVars, IInv, TypeOK, LabelsInv, WakeInv, NoLostWakeup, Threads, JobLabels, MainLabels
<1>6. BestIsDeepest'
  BY DEF WaitSleep, At, Goto, CallStop, NotifyAll, comm, jobVars, mainVars, IInv, BestIsDeepest
<1> QED
  BY <1>1, <1>2, <1>3, <1>4, <1>5, <1>6 DEF IInv

LEMMA WaitTimeoutInv ==
  ASSUME IInv, WaitTimeout
  PROVE  IInv'
<1> USE ThreadsAssumption, BoundsAssumption
<1>1. TypeOK'
  BY DEF WaitTimeout, At, Goto, CallStop, NotifyAll, comm, jobVars, mainVars, IInv, TypeOK, Threads
<1>2. LabelsInv'
  BY DEF WaitTimeout, At, Goto, CallStop, NotifyAll, comm, jobVars, mainVars, IInv, TypeOK, LabelsInv, JobLabels, MainLabels, Threads
<1>3. ASSUME NEW j \in Jobs PROVE JobInv(j)'
  BY DEF WaitTimeout, At, Goto, CallStop, NotifyAll, comm, jobVars, mainVars, IInv, TypeOK, JobInv, Published, Threads
<1>4. LinesInv'
  BY DEF WaitTimeout, At, Goto, CallStop, NotifyAll, comm, jobVars, mainVars, IInv, TypeOK, LinesInv, LinesAreGenuine, OneLinePerDepth, Published
<1>5. WakeInv'
  BY DEF WaitTimeout, At, Goto, CallStop, NotifyAll, comm, jobVars, mainVars, IInv, TypeOK, LabelsInv, WakeInv, NoLostWakeup, Threads, JobLabels, MainLabels
<1>6. BestIsDeepest'
  BY DEF WaitTimeout, At, Goto, CallStop, NotifyAll, comm, jobVars, mainVars, IInv, BestIsDeepest
<1> QED
  BY <1>1, <1>2, <1>3, <1>4, <1>5, <1>6 DEF IInv

LEMMA WaitRecheckInv ==
  ASSUME IInv, WaitRecheck
  PROVE  IInv'
<1> USE ThreadsAssumption, BoundsAssumption
<1>1. TypeOK'
  BY DEF WaitRecheck, At, Goto, CallStop, NotifyAll, comm, jobVars, mainVars, CheckEvent, IInv, TypeOK, Threads
<1>2. LabelsInv'
  BY DEF WaitRecheck, At, Goto, CallStop, NotifyAll, comm, jobVars, mainVars, IInv, TypeOK, LabelsInv, JobLabels, MainLabels, Threads
<1>3. ASSUME NEW j \in Jobs PROVE JobInv(j)'
  BY DEF WaitRecheck, At, Goto, CallStop, NotifyAll, comm, jobVars, mainVars, IInv, TypeOK, JobInv, Published, Threads
<1>4. LinesInv'
  BY DEF WaitRecheck, At, Goto, CallStop, NotifyAll, comm, jobVars, mainVars, IInv, TypeOK, LinesInv, LinesAreGenuine, OneLinePerDepth, Published
<1>5. WakeInv'
  BY DEF WaitRecheck, At, Goto, CallStop, NotifyAll, comm, jobVars, mainVars, IInv, TypeOK, LabelsInv, WakeInv, NoLostWakeup, Threads, JobLabels, MainLabels
<1>6. BestIsDeepest'
  BY DEF WaitRecheck, At, Goto, CallStop, NotifyAll, comm, jobVars, mainVars, IInv, BestIsDeepest
<1> QED
  BY <1>1, <1>2, <1>3, <1>4, <1>5, <1>6 DEF IInv

LEMMA HandleEventInv ==
  ASSUME IInv, HandleEvent
  PROVE  IInv'
<1> USE ThreadsAssumption, BoundsAssumption
<1>1. TypeOK'
  <2>1. best' \in Line \union {NoLine} /\ lines' \subseteq Line /\ reported' \subseteq Line
    BY DEF HandleEvent, Improvements, IInv, TypeOK
  <2>2. \E label \in {"join", "checkLimits"} : pc' = [pc EXCEPT ![Main] = label]
    BY DEF HandleEvent, Goto
  <2> QED
    BY <2>1, <2>2 DEF HandleEvent, jobVars, IInv, TypeOK
<1>2. LabelsInv'
  BY DEF HandleEvent, At, Goto, CallStop, NotifyAll, comm, jobVars, mainVars, IInv, TypeOK, LabelsInv, JobLabels, MainLabels, Threads
<1>3. ASSUME NEW j \in Jobs PROVE JobInv(j)'
  BY DEF HandleEvent, At, Goto, CallStop, NotifyAll, comm, jobVars, mainVars, IInv, TypeOK, JobInv, Published, Threads
<1>4. LinesInv'
  BY DEF HandleEvent, At, Goto, CallStop, NotifyAll, comm, jobVars, mainVars, IInv, TypeOK, LinesInv, LinesAreGenuine, OneLinePerDepth, Published
<1>5. WakeInv'
  BY DEF HandleEvent, At, Goto, CallStop, NotifyAll, comm, jobVars, mainVars, IInv, TypeOK, LabelsInv, WakeInv, NoLostWakeup, Threads, JobLabels, MainLabels
<1>6. BestIsDeepest'
  <2>1. CASE event # "NewLines"
    BY <2>1 DEF HandleEvent, IInv, BestIsDeepest
  <2>2. CASE event = "NewLines"
    <3>1. reported' = reported \union lines
      BY <2>2 DEF HandleEvent
    <3>2. /\ \A l \in lines \union reported : l.depth \in Nat /\ l.depth > 0
          /\ BestDepth \in Nat
          /\ NoLine \notin lines \union reported
          /\ \A l \in reported : best \in reported /\ best # NoLine /\ l.depth <= BestDepth
      BY NoLineAssumption DEF IInv, TypeOK, Line, BestDepth, BestIsDeepest
    <3>3. CASE best' \in Improvements(lines)
      <4>1. best' \in lines /\ best'.depth > BestDepth /\ \A m \in lines : m.depth <= best'.depth
        BY <3>3 DEF Improvements
      <4>2. \A l \in reported : l.depth <= best'.depth
        BY <3>2, <4>1
      <4> QED
        BY <3>1, <3>2, <4>1, <4>2 DEF BestIsDeepest
    <3>4. CASE Improvements(lines) = {} /\ best' = best
      <4>1. CASE lines = {}
        BY <3>1, <3>4, <4>1 DEF IInv, BestIsDeepest
      <4>2. CASE lines # {}
        <5>1. PICK l \in lines : \A m \in lines : m.depth <= l.depth
          BY <4>2, DeepestLine DEF IInv, TypeOK
        <5>2. l.depth <= BestDepth
          BY <3>2, <3>4, <5>1 DEF Improvements
        <5>3. best # NoLine /\ BestDepth = best.depth
          BY <3>2, <5>1, <5>2 DEF BestDepth
        <5>4. best \in reported
          BY <5>3 DEF IInv, BestIsDeepest
        <5>5. \A m \in lines \union reported : m.depth <= best.depth
          BY <3>2, <5>1, <5>2, <5>3
        <5> QED
          BY <3>1, <3>4, <5>3, <5>4, <5>5 DEF BestIsDeepest
      <4> QED
        BY <4>1, <4>2
    <3> QED
      BY <2>2, <3>3, <3>4 DEF HandleEvent
  <2> QED
    BY <2>1, <2>2
<1> QED
  BY <1>1, <1>2, <1>3, <1>4, <1>5, <1>6 DEF IInv

LEMMA CheckLimitsInv ==
  ASSUME IInv, CheckLimits
  PROVE  IInv'
<1> USE ThreadsAssumption, BoundsAssumption
<1>1. TypeOK'
  BY DEF CheckLimits, At, Goto, CallStop, NotifyAll, comm, jobVars, mainVars, IInv, TypeOK, Threads
<1>2. LabelsInv'
  BY DEF CheckLimits, At, Goto, CallStop, NotifyAll, comm, jobVars, mainVars, IInv, TypeOK, LabelsInv, JobLabels, MainLabels, Threads
<1>3. ASSUME NEW j \in Jobs PROVE JobInv(j)'
  BY DEF CheckLimits, At, Goto, CallStop, NotifyAll, comm, jobVars, mainVars, IInv, TypeOK, JobInv, Published, Threads
<1>4. LinesInv'
  BY DEF CheckLimits, At, Goto, CallStop, NotifyAll, comm, jobVars, mainVars, IInv, TypeOK, LinesInv, LinesAreGenuine, OneLinePerDepth, Published
<1>5. WakeInv'
  BY DEF CheckLimits, At, Goto, CallStop, NotifyAll, comm, jobVars, mainVars, IInv, TypeOK, LabelsInv, WakeInv, NoLostWakeup, Threads, JobLabels, MainLabels
<1>6. BestIsDeepest'
  BY DEF CheckLimits, At, Goto, CallStop, NotifyAll, comm, jobVars, mainVars, IInv, BestIsDeepest
<1> QED
  BY <1>1, <1>2, <1>3, <1>4, <1>5, <1>6 DEF IInv

LEMMA JoinAndFinishInv ==
  ASSUME IInv, JoinAndFinish
  PROVE  IInv'
<1> USE ThreadsAssumption, BoundsAssumption
<1>1. TypeOK'
  BY DEF JoinAndFinish, At, Goto, CallStop, NotifyAll, comm, jobVars, mainVars, IInv, TypeOK, Threads
<1>2. LabelsInv'
  BY DEF JoinAndFinish, At, Goto, CallStop, NotifyAll, comm, jobVars, mainVars, IInv, TypeOK, LabelsInv, JobLabels, MainLabels, Threads
<1>3. ASSUME NEW j \in Jobs PROVE JobInv(j)'
  BY DEF JoinAndFinish, At, Goto, CallStop, NotifyAll, comm, jobVars, mainVars, IInv, TypeOK, JobInv, Published, Threads
<1>4. LinesInv'
  BY DEF JoinAndFinish, At, Goto, CallStop, NotifyAll, comm, jobVars, mainVars, IInv, TypeOK, LinesInv, LinesAreGenuine, OneLinePerDepth, Published
<1>5. WakeInv'
  BY DEF JoinAndFinish, At, Goto, CallStop, NotifyAll, comm, jobVars, mainVars, IInv, TypeOK, LabelsInv, WakeInv, NoLostWakeup, Threads, JobLabels, MainLabels
<1>6. BestIsDeepest'
  BY DEF JoinAndFinish, At, Goto, CallStop, NotifyAll, comm, jobVars, mainVars, IInv, BestIsDeepest
<1> QED
  BY <1>1, <1>2, <1>3, <1>4, <1>5, <1>6 DEF IInv

LEMMA ExpireInv ==
  ASSUME IInv, Expire
  PROVE  IInv'
<1> USE ThreadsAssumption, BoundsAssumption
<1>1. TypeOK'
  BY DEF Expire, At, Goto, CallStop, NotifyAll, comm, jobVars, mainVars, IInv, TypeOK, Threads
<1>2. LabelsInv'
  BY DEF Expire, At, Goto, CallStop, NotifyAll, comm, jobVars, mainVars, IInv, TypeOK, LabelsInv, JobLabels, MainLabels, Threads
<1>3. ASSUME NEW j \in Jobs PROVE JobInv(j)'
  BY DEF Expire, At, Goto, CallStop, NotifyAll, comm, jobVars, mainVars, IInv, TypeOK, JobInv, Published, Threads
<1>4. LinesInv'
  BY DEF Expire, At, Goto, CallStop, NotifyAll, comm, jobVars, mainVars, IInv, TypeOK, LinesInv, LinesAreGenuine, OneLinePerDepth, Published
<1>5. WakeInv'
  BY DEF Expire, At, Goto, CallStop, NotifyAll, comm, jobVars, mainVars, IInv, TypeOK, LabelsInv, WakeInv, NoLostWakeup, Threads, JobLabels, MainLabels
<1>6. BestIsDeepest'
  BY DEF Expire, At, Goto, CallStop, NotifyAll, comm, jobVars, mainVars, IInv, BestIsDeepest
<1> QED
  BY <1>1, <1>2, <1>3, <1>4, <1>5, <1>6 DEF IInv

LEMMA ClientStopInv ==
  ASSUME IInv, ClientStop
  PROVE  IInv'
<1> USE ThreadsAssumption, BoundsAssumption
<1>1. TypeOK'
  BY DEF ClientStop, At, Goto, CallStop, NotifyAll, comm, jobVars, mainVars, IInv, TypeOK, Threads
<1>2. LabelsInv'
  BY DEF ClientStop, At, Goto, CallStop, NotifyAll, comm, jobVars, mainVars, IInv, TypeOK, LabelsInv, JobLabels, MainLabels, Threads
<1>3. ASSUME NEW j \in Jobs PROVE JobInv(j)'
  BY DEF ClientStop, At, Goto, CallStop, NotifyAll, comm, jobVars, mainVars, IInv, TypeOK, JobInv, Published, Threads
<1>4. LinesInv'
  BY DEF ClientStop, At, Goto, CallStop, NotifyAll, comm, jobVars, mainVars, IInv, TypeOK, LinesInv, LinesAreGenuine, OneLinePerDepth, Published
<1>5. WakeInv'
  BY DEF ClientStop, At, Goto, CallStop, NotifyAll, comm, jobVars, mainVars, IInv, TypeOK, LabelsInv, WakeInv, NoLostWakeup, Threads, JobLabels, MainLabels
<1>6. BestIsDeepest'
  BY DEF ClientStop, At, Goto, CallStop, NotifyAll, comm, jobVars, mainVars, IInv, BestIsDeepest
<1> QED
  BY <1>1, <1>2, <1>3, <1>4, <1>5, <1>6 DEF IInv

(* A restart begins like the first round, on a communicator whose mutex is *)
(* free and which nobody is stopping.                                      *)
LEMMA RestartInv ==
  ASSUME IInv, Restart
  PROVE  IInv'
<1> USE ThreadsAssumption, BoundsAssumption
<1>1. pc'[Main] = "wait" /\ \A j \in Jobs : pc'[j] = "search" /\ jobDepth'[j] = 1
  BY DEF Restart, StartPC, Threads
<1>2. lines' = {} /\ reported' = {} /\ best' = NoLine /\ depth' = 1 /\ stopped' = FALSE
  BY DEF Restart, Reset
<1>3. stopping' = stopping /\ lock' = lock /\ lock # Main /\ stopping[Main] = "no"
  <2>1. pc[Main] = "done"
    BY DEF Restart
  <2> QED
    BY <2>1 DEF Restart, IInv, LabelsInv, TypeOK, Threads
<1>4. TypeOK'
  <2>1. pc' \in [Threads -> JobLabels \union MainLabels \union {"client"}]
    BY DEF Restart, StartPC, JobLabels, MainLabels
  <2>2. jobDepth' \in [Jobs -> 1..MaxDepth] /\ complete' \in [Jobs -> BOOLEAN]
    BY DEF Restart
  <2>3. round' \in 1..MaxRounds
    BY DEF Restart, IInv, TypeOK
  <2>4. depth' \in 1..(MaxDepth + 1)
    BY <1>2
  <2> QED
    BY <1>2, <1>3, <2>1, <2>2, <2>3, <2>4
       DEF Restart, IInv, TypeOK, JobLabels, MainLabels
<1>5. LabelsInv'
  <2>1. \A j \in Jobs : pc'[j] \in JobLabels
    BY <1>1 DEF JobLabels
  <2>2. pc'[Main] \in MainLabels
    BY <1>1 DEF MainLabels
  <2> QED
    BY <1>1, <1>3, <2>1, <2>2 DEF LabelsInv
<1>6. ASSUME NEW j \in Jobs PROVE JobInv(j)'
  BY <1>1, <1>2 DEF JobInv
<1>7. LinesInv'
  BY <1>2 DEF LinesInv, OneLinePerDepth, LinesAreGenuine, Published
<1>8. WakeInv'
  BY <1>1 DEF WakeInv, NoLostWakeup
<1>9. BestIsDeepest'
  BY <1>2 DEF BestIsDeepest
<1> QED
  BY <1>4, <1>5, <1>6, <1>7, <1>8, <1>9 DEF IInv

LEMMA NextInv == IInv /\ [Next]_vars => IInv'
<1> SUFFICES ASSUME IInv, [Next]_vars PROVE IInv'
  OBVIOUS
<1>1. ASSUME NEW t \in Threads, Runs(t) PROVE IInv'
  <2>1. CASE StopLock(t) \/ StopNotify(t)
    BY <2>1, StopLockInv, StopNotifyInv
  <2>2. CASE t \in Jobs
    BY <1>1, <2>1, <2>2, ThreadsAssumption, SearchAbortInv, CheckStoppedInv, FinishDepthInv,
       AddLineInv, AddLineNotifyInv, DeepenInv DEF Runs
  <2>3. CASE t = Main
    BY <1>1, <2>1, <2>3, ThreadsAssumption, WaitForEventInv, WaitSleepInv, WaitTimeoutInv,
       WaitRecheckInv, HandleEventInv, CheckLimitsInv, JoinAndFinishInv DEF Runs
  <2> QED
    BY <1>1, <2>1, <2>2, <2>3 DEF Runs
<1>2. ASSUME NEW j \in Jobs, SearchComplete(j) \/ SearchTimeout(j) PROVE IInv'
  BY <1>2, SearchCompleteInv, SearchTimeoutInv
<1>3. CASE Expire \/ ClientStop \/ Restart
  BY <1>3, ExpireInv, ClientStopInv, RestartInv
<1>4. CASE UNCHANGED vars
  BY <1>4 DEF vars, comm, jobVars, mainVars, IInv, TypeOK, LabelsInv, JobInv, LinesInv,
     OneLinePerDepth, LinesAreGenuine, Published, WakeInv, NoLostWakeup, BestIsDeepest
<1> QED
  BY <1>1, <1>2, <1>3, <1>4 DEF Next

LEMMA Invariance == Spec => []IInv
  BY InitInv, NextInv, PTL DEF Spec

-----------------------------------------------------------------------------
(* The variables keep their types; the depth never passes MaxDepth + 1. *)
THEOREM TypeCorrect == Spec => []TypeOK
<1>1. IInv => TypeOK
  BY DEF IInv
<1> QED
  BY <1>1, Invariance, PTL

(* JobCommunicator::finishDepth() lets one job publish each depth. *)
THEOREM DepthsArePublishedOnce == Spec => []OneLinePerDepth
<1>1. IInv => OneLinePerDepth
  BY DEF IInv, LinesInv
<1> QED
  BY <1>1, Invariance, PTL

(* Job::run publishes nothing that a cut search or an earlier round left. *)
THEOREM PublishedLinesAreGenuine == Spec => []LinesAreGenuine
<1>1. IInv => LinesAreGenuine
  BY DEF IInv, LinesInv
<1> QED
  BY <1>1, Invariance, PTL

(* JobCommunicator::stop() and addLine() wake the main thread. *)
THEOREM WakeupsAreNotLost == Spec => []NoLostWakeup
<1>1. IInv => NoLostWakeup
  BY DEF IInv, WakeInv
<1> QED
  BY <1>1, Invariance, PTL

(* MainThread::extractLines() keeps the move of the deepest line. *)
THEOREM DeepestLineIsPlayed == Spec => []BestIsDeepest
<1>1. IInv => BestIsDeepest
  BY DEF IInv
<1> QED
  BY <1>1, Invariance, PTL

=============================================================================
