---------------------------- MODULE SearchRound ----------------------------
(***************************************************************************)
(* One search after another on the same JobCommunicator                    *)
(* (search/private/job.h, job.cpp) and the main loop that listens to it    *)
(* (JobRunner::MainThread in search/private/job_runner.cpp).               *)
(*                                                                         *)
(* Every job deepens iteratively on its own; the first job to finish a     *)
(* depth claims it and publishes a PV line.  Anybody may stop the round:   *)
(* a job that runs out of time or of depths, the main loop, the client.    *)
(*                                                                         *)
(* A round starts where the jobs exist (the life of the main thread itself *)
(* is the matter of module JobRunner) and Restart stands for the next      *)
(* start() of the client, which joins the main thread and resets the       *)
(* communicator.  A line is reduced to its depth, its author, the round it *)
(* was made in and whether the search behind it ran to its end.            *)
(***************************************************************************)
EXTENDS Naturals

CONSTANTS
  Jobs,       \* the search jobs
  Main,       \* the runner's main thread
  Client,     \* the thread that calls start() and stop()
  Nobody,     \* owner of a free mutex
  NoLine,     \* bestMove_ == Move::null()
  MaxDepth,   \* min(limits.depth, MAX_DEPTH)
  Limit,      \* the other limit of the search: "none", "time" or "nodes"
  MaxRounds   \* bound of the model: how many searches are started

ASSUME ThreadsAssumption ==
  /\ Main \notin Jobs /\ Client \notin Jobs /\ Main # Client
  /\ Nobody \notin Jobs \union {Main, Client}

ASSUME BoundsAssumption == MaxDepth \in Nat \ {0} /\ MaxRounds \in Nat \ {0}

ASSUME LimitAssumption == Limit \in {"none", "time", "nodes"}

Threads == Jobs \union {Main, Client}

Line == [depth : 1..MaxDepth, job : Jobs, complete : BOOLEAN, round : 1..MaxRounds]

ASSUME NoLineAssumption == NoLine \notin Line

VARIABLES
  depth,      \* depth_ : the depth the jobs must search now
  stopped,    \* stopped_
  lines,      \* lines_ : published, not extracted yet
  lock,       \* lock_ : its owner
  pc,         \* where each job and the main thread is
  stopping,   \* where each thread is inside stop()
  jobDepth,   \* the loop variable of Job::run
  complete,   \* the search of the job's current depth was not cut short
  event,      \* what waitForEvent() last returned to the main loop
  reported,   \* lines passed to server_.sendResult()
  best,       \* the line bestMove_ comes from
  expired,    \* the time or node limit is exceeded
  round       \* which start() this is

comm == <<depth, stopped, lines, lock>>
jobVars == <<jobDepth, complete>>
mainVars == <<event, reported, best>>
vars == <<comm, pc, stopping, jobVars, mainVars, expired, round>>

Goto(t, label) == pc' = [pc EXCEPT ![t] = label]

(* A thread runs its own code only when it is not inside stop(). *)
At(t, label) == pc[t] = label /\ stopping[t] = "no"

-----------------------------------------------------------------------------
(* JobCommunicator *)

(* stop(): the first caller goes on to pass through the mutex and to notify, *)
(* the others return at once.                                                *)
CallStop(t) ==
  /\ stopped' = TRUE
  /\ stopping' = IF stopped THEN stopping ELSE [stopping EXCEPT ![t] = "lock"]

(* Mutant: stop() without the lock()/unlock() pair. *)
StopWithoutLock(t) ==
  /\ stopping[t] = "lock"
  /\ stopping' = [stopping EXCEPT ![t] = "notify"]
  /\ UNCHANGED <<comm, pc, jobVars, mainVars, expired, round>>

StopLock(t) ==
  /\ stopping[t] = "lock"
  /\ lock = Nobody
  /\ stopping' = [stopping EXCEPT ![t] = "notify"]
  /\ UNCHANGED <<comm, pc, jobVars, mainVars, expired, round>>

(* event_.notify_all(): the main thread is the only one that ever waits. *)
NotifyAll == IF pc[Main] = "asleep" THEN [pc EXCEPT ![Main] = "woken"] ELSE pc

StopNotify(t) ==
  /\ stopping[t] = "notify"
  /\ stopping' = [stopping EXCEPT ![t] = "no"]
  /\ pc' = NotifyAll
  /\ UNCHANGED <<comm, jobVars, mainVars, expired, round>>

(* checkEventUnlocked(): pending lines come before a stop. *)
CheckEvent ==
  IF lines # {} THEN "NewLines" ELSE IF stopped THEN "Stopped" ELSE "Timeout"

-----------------------------------------------------------------------------
(* Job::run *)

(* Searcher::run() reaches the end of the search of this depth. *)
SearchComplete(j) ==
  /\ At(j, "search")
  /\ Goto(j, "searched")
  /\ complete' = [complete EXCEPT ![j] = TRUE]
  /\ UNCHANGED <<comm, stopping, jobDepth, mainVars, expired, round>>

(* Mutant: mustStop() that looks at the depth only. *)
AbortOnDepthOnly(j) ==
  /\ At(j, "search")
  /\ depth # jobDepth[j]
  /\ Goto(j, "searched")
  /\ complete' = [complete EXCEPT ![j] = FALSE]
  /\ UNCHANGED <<comm, stopping, jobDepth, mainVars, expired, round>>

(* mustStop(): the round is stopped, or somebody else finished this depth. *)
SearchAbort(j) ==
  /\ At(j, "search")
  /\ stopped \/ depth # jobDepth[j]
  /\ Goto(j, "searched")
  /\ complete' = [complete EXCEPT ![j] = FALSE]
  /\ UNCHANGED <<comm, stopping, jobDepth, mainVars, expired, round>>

(* mustStop() at every 1024th node: checkTimeout() stops the round itself. *)
SearchTimeout(j) ==
  /\ At(j, "search")
  /\ Limit = "time" /\ expired
  /\ CallStop(j)
  /\ Goto(j, "searched")
  /\ complete' = [complete EXCEPT ![j] = FALSE]
  /\ UNCHANGED <<depth, lines, lock, jobDepth, mainVars, expired, round>>

(* Mutant: the job does not look at isStopped() after the search. *)
CheckNothing(j) ==
  /\ At(j, "searched")
  /\ Goto(j, "finishDepth")
  /\ UNCHANGED <<comm, stopping, jobVars, mainVars, expired, round>>

CheckStopped(j) ==
  /\ At(j, "searched")
  /\ Goto(j, IF stopped THEN "done" ELSE "finishDepth")
  /\ UNCHANGED <<comm, stopping, jobVars, mainVars, expired, round>>

(* Mutant: a load and a store instead of the compare-and-swap. *)
FinishDepthBlindly(j) ==
  /\ At(j, "finishDepth")
  /\ depth' = jobDepth[j] + 1
  /\ Goto(j, "addLine")
  /\ UNCHANGED <<stopped, lines, lock, stopping, jobVars, mainVars, expired, round>>

(* finishDepth(): compare-and-swap, so one job per depth is told it was first. *)
FinishDepth(j) ==
  /\ At(j, "finishDepth")
  /\ \/ /\ depth = jobDepth[j]
        /\ depth' = depth + 1
        /\ Goto(j, "addLine")
     \/ /\ depth # jobDepth[j]
        /\ Goto(j, "deepen")
        /\ UNCHANGED depth
  /\ UNCHANGED <<stopped, lines, lock, stopping, jobVars, mainVars, expired, round>>

(* addLine(): the push is made under the mutex, the notification after it. *)
AddLine(j) ==
  /\ At(j, "addLine")
  /\ lock = Nobody
  /\ lines' = lines \union
       {[depth |-> jobDepth[j], job |-> j, complete |-> complete[j], round |-> round]}
  /\ Goto(j, "notify")
  /\ UNCHANGED <<depth, stopped, lock, stopping, jobVars, mainVars, expired, round>>

AddLineNotify(j) ==
  /\ At(j, "notify")
  /\ pc' = [NotifyAll EXCEPT ![j] = "deepen"]
  /\ UNCHANGED <<comm, stopping, jobVars, mainVars, expired, round>>

(* The loop header; a job that is out of depths stops everybody. *)
Deepen(j) ==
  /\ At(j, "deepen")
  /\ \/ /\ jobDepth[j] < MaxDepth
        /\ jobDepth' = [jobDepth EXCEPT ![j] = @ + 1]
        /\ Goto(j, "search")
        /\ UNCHANGED <<stopped, stopping>>
     \/ /\ jobDepth[j] = MaxDepth
        /\ CallStop(j)
        /\ Goto(j, "done")
        /\ UNCHANGED jobDepth
  /\ UNCHANGED <<depth, lines, lock, complete, mainVars, expired, round>>

-----------------------------------------------------------------------------
(* MainThread: runMainLoop, joinThreads, finishSearch *)

(* waitForEvent(), up to the point where it holds the mutex and goes to wait. *)
WaitForEvent ==
  /\ At(Main, "wait")
  /\ lock = Nobody
  /\ \/ /\ CheckEvent # "Timeout"
        /\ event' = CheckEvent
        /\ Goto(Main, "handle")
        /\ UNCHANGED lock
     \/ /\ CheckEvent = "Timeout"
        /\ lock' = Main
        /\ Goto(Main, "sleep")
        /\ UNCHANGED event
  /\ UNCHANGED <<depth, stopped, lines, stopping, jobVars, reported, best, expired, round>>

(* event_.wait_for() releases the mutex and blocks in one step ... *)
WaitSleep ==
  /\ At(Main, "sleep")
  /\ lock' = Nobody
  /\ Goto(Main, "asleep")
  /\ UNCHANGED <<depth, stopped, lines, stopping, jobVars, mainVars, expired, round>>

(* ... until a notification, or the tick of 30 ms, or for no reason at all. *)
WaitTimeout ==
  /\ At(Main, "asleep")
  /\ Goto(Main, "woken")
  /\ UNCHANGED <<comm, stopping, jobVars, mainVars, expired, round>>

WaitRecheck ==
  /\ At(Main, "woken")
  /\ lock = Nobody
  /\ event' = CheckEvent
  /\ Goto(Main, "handle")
  /\ UNCHANGED <<comm, stopping, jobVars, reported, best, expired, round>>

BestDepth == IF best = NoLine THEN 0 ELSE best.depth

(* Mutant: bestMove_ is taken from the last line of the batch. *)
LastOf(batch) == {l \in batch : \A m \in batch : m.depth <= l.depth}

(* extractLines() walks the batch in the order of depth, and a line replaces *)
(* the best one only when it is deeper: what is left is the deepest line of  *)
(* the batch, if it beats the best one so far.                               *)
Improvements(batch) ==
  {l \in batch : l.depth > BestDepth /\ \A m \in batch : m.depth <= l.depth}

HandleEvent ==
  /\ At(Main, "handle")
  /\ \/ /\ event = "Stopped"
        /\ Goto(Main, "join")
        /\ UNCHANGED <<lines, reported, best>>
     \/ /\ event = "Timeout"
        /\ Goto(Main, "checkLimits")
        /\ UNCHANGED <<lines, reported, best>>
     \/ /\ event = "NewLines"
        /\ lock = Nobody
        /\ reported' = reported \union lines
        /\ \/ best' \in Improvements(lines)
           \/ Improvements(lines) = {} /\ UNCHANGED best
        /\ lines' = {}
        /\ Goto(Main, "checkLimits")
  /\ UNCHANGED <<depth, stopped, lock, stopping, jobVars, event, expired, round>>

(* Mutant: MainThread::mustStop() that never fires. *)
IgnoreLimits ==
  /\ At(Main, "checkLimits")
  /\ Goto(Main, "wait")
  /\ UNCHANGED <<comm, stopping, jobVars, mainVars, expired, round>>

(* MainThread::mustStop() compares the nodes and the time with the limits. *)
CheckLimits ==
  /\ At(Main, "checkLimits")
  /\ IF expired THEN CallStop(Main) ELSE UNCHANGED <<stopped, stopping>>
  /\ Goto(Main, "wait")
  /\ UNCHANGED <<depth, lines, lock, jobVars, mainVars, expired, round>>

(* joinThreads() waits for every job, then finishSearch() answers with the *)
(* best move, a random one when there is none.                             *)
JoinAndFinish ==
  /\ At(Main, "join")
  /\ \A j \in Jobs : At(j, "done")
  /\ Goto(Main, "done")
  /\ UNCHANGED <<comm, stopping, jobVars, mainVars, expired, round>>

-----------------------------------------------------------------------------
(* The surroundings: the clock and the client *)

Expire ==
  /\ Limit # "none" /\ ~expired
  /\ pc[Main] # "done"
  /\ expired' = TRUE
  /\ UNCHANGED <<comm, pc, stopping, jobVars, mainVars, round>>

(* JobRunner::stop(), or the stop() with which join() begins. *)
ClientStop ==
  /\ stopping[Client] = "no"
  /\ ~stopped
  /\ CallStop(Client)
  /\ UNCHANGED <<depth, lines, lock, pc, jobVars, mainVars, expired, round>>

StartPC == [t \in Threads |-> IF t \in Jobs THEN "search" ELSE
                              IF t = Main THEN "wait" ELSE "client"]

(* Mutant: reset() that keeps lines_. *)
ResetKeepingLines == depth' = 1 /\ stopped' = FALSE /\ UNCHANGED lines

Reset == depth' = 1 /\ stopped' = FALSE /\ lines' = {}

(* JobRunner::start() after its join(): the next round begins. *)
Restart ==
  /\ pc[Main] = "done" /\ stopping[Client] = "no"
  /\ round < MaxRounds
  /\ round' = round + 1
  /\ Reset
  /\ pc' = StartPC
  /\ jobDepth' = [j \in Jobs |-> 1]
  /\ complete' = [j \in Jobs |-> FALSE]
  /\ event' = "Timeout" /\ reported' = {} /\ best' = NoLine
  /\ expired' = FALSE
  /\ UNCHANGED <<lock, stopping>>

-----------------------------------------------------------------------------
Init ==
  /\ depth = 1 /\ stopped = FALSE /\ lines = {} /\ lock = Nobody
  /\ pc = StartPC
  /\ stopping = [t \in Threads |-> "no"]
  /\ jobDepth = [j \in Jobs |-> 1]
  /\ complete = [j \in Jobs |-> FALSE]
  /\ event = "Timeout" /\ reported = {} /\ best = NoLine
  /\ expired = FALSE
  /\ round = 1

(* What a thread does of its own accord, apart from the search proper. *)
Runs(t) ==
  \/ StopLock(t) \/ StopNotify(t)
  \/ /\ t \in Jobs
     /\ \/ SearchAbort(t) \/ CheckStopped(t) \/ FinishDepth(t)
        \/ AddLine(t) \/ AddLineNotify(t) \/ Deepen(t)
  \/ /\ t = Main
     /\ \/ WaitForEvent \/ WaitSleep \/ WaitTimeout \/ WaitRecheck
        \/ HandleEvent \/ CheckLimits \/ JoinAndFinish

Next ==
  \/ \E t \in Threads : Runs(t)
  \/ \E j \in Jobs : SearchComplete(j) \/ SearchTimeout(j)
  \/ Expire \/ ClientStop \/ Restart

Spec == Init /\ [][Next]_vars

(* The threads run and wait_for() times out.  Strong fairness, because a      *)
(* thread that keeps asking for lock_ gets it: the main thread is its only    *)
(* frequent user and sleeps with the mutex released.  Nothing says that a     *)
(* search ever completes, that a job looks at the clock, that a limit is      *)
(* exceeded or that the client stops the round.                               *)
Fairness == \A t \in Threads : SF_vars(Runs(t))

FairSpec == Spec /\ Fairness

-----------------------------------------------------------------------------
(* Properties *)

Published == lines \union reported

TypeOK ==
  /\ depth \in 1..(MaxDepth + 1)
  /\ stopped \in BOOLEAN
  /\ lines \subseteq Line
  /\ lock \in {Nobody, Main}
  /\ pc \in [Threads -> {"search", "searched", "finishDepth", "addLine", "notify", "deepen",
                         "wait", "sleep", "asleep", "woken", "handle", "checkLimits",
                         "join", "done", "client"}]
  /\ stopping \in [Threads -> {"no", "lock", "notify"}]
  /\ jobDepth \in [Jobs -> 1..MaxDepth]
  /\ complete \in [Jobs -> BOOLEAN]
  /\ event \in {"Timeout", "Stopped", "NewLines"}
  /\ reported \subseteq Line
  /\ best \in Line \union {NoLine}
  /\ expired \in BOOLEAN
  /\ round \in 1..MaxRounds

(* However the jobs overtake each other, a depth is published once: of the   *)
(* jobs that finish it, one wins finishDepth().                              *)
OneLinePerDepth == \A l, m \in Published : l.depth = m.depth => l = m

(* What reaches the server is the outcome of a whole search of this round,   *)
(* although mustStop() unwinds a cut search with scores that mean nothing.   *)
LinesAreGenuine == \A l \in Published : l.complete /\ l.round = round

(* The comment in JobCommunicator::stop(): once the thread that set stopped_ *)
(* has notified, or the thread that pushed a line has, the main thread is    *)
(* not left asleep until the tick.                                           *)
NoLostWakeup ==
  pc[Main] = "asleep" =>
    /\ stopped => \E t \in Threads : stopping[t] # "no"
    /\ lines # {} => \E j \in Jobs : pc[j] = "notify"

(* The move to be played comes from the deepest line the main loop saw, in   *)
(* whatever order the batches brought the lines.                             *)
BestIsDeepest ==
  /\ (best = NoLine) <=> (reported = {})
  /\ \A l \in reported : best \in reported /\ l.depth <= best.depth

(* A stopped round ends: stop() reaches the jobs, and the main loop leaves   *)
(* its wait and joins them.                                                  *)
StopIsHonoured == stopped ~> pc[Main] = "done"

(* A round whose time or node budget is exceeded ends, even if no job ever   *)
(* looks at the clock.                                                       *)
LimitIsHonoured == expired ~> pc[Main] = "done"

(* The comment on Event::Stopped: once it was returned, every further call   *)
(* of waitForEvent() would return it too.                                    *)
StoppedIsFinal == event = "Stopped" => CheckEvent = "Stopped"
=============================================================================
