----------------------------- MODULE JobRunner -----------------------------
(***************************************************************************)
(* The life of a search in JobRunner (search/private/job_runner.cpp): the  *)
(* client thread starts, stops and reconfigures, the main thread closes    *)
(* the configuration, creates the jobs, answers and opens it again.        *)
(*                                                                         *)
(* What happens inside the round, between the creation of the jobs and     *)
(* their end, is module SearchRound; here it is one state, "searching".    *)
(* Sections under applyConfigLock_ do not block inside, so each of them is *)
(* one step.  The transposition table is reduced to its size, its epoch    *)
(* and the searches that left entries in it.                               *)
(***************************************************************************)
EXTENDS Naturals, Sequences

CONSTANTS
  Positions,      \* positions the client searches: [first, moves]
  JobCounts,      \* values of option Threads
  DefaultJobs,    \* DEFAULT_NUM_JOBS
  HashSizes,      \* values of option Hash, in units of the smallest table
  DefaultSize,    \* TranspositionTable::DEFAULT_SIZE, in the same units
  NoPosition,     \* lastPosition_ == std::nullopt
  EpochMod,       \* 256: epoch_ is an uint8_t
  MaxSearches,    \* bound of the model: calls of start()
  MaxRequests     \* bound of the model: configuration calls

(* A position is a first board and the list of moves made from it. *)
ASSUME PositionsAssumption ==
  \A p \in Positions :
    /\ p # NoPosition /\ Len(p.moves) \in Nat
    /\ p = [first |-> p.first, moves |-> p.moves]
    /\ p.moves = [i \in 1..Len(p.moves) |-> p.moves[i]]

ASSUME OptionsAssumption ==
  /\ JobCounts \subseteq Nat \ {0} /\ DefaultJobs \in JobCounts
  /\ HashSizes \subseteq Nat \ {0} /\ DefaultSize \in HashSizes

ASSUME BoundsAssumption ==
  /\ EpochMod \in Nat \ {0} /\ MaxSearches \in Nat /\ MaxRequests \in Nat

VARIABLES
  cfg,        \* what applyConfigLock_ protects, and the table
  clientPc,   \* the client thread: "idle", "joining" or "starting"
  mainPc,     \* the main thread, "none" when mainThread_ is not joinable
  next,       \* the position of the pending start(), NoPosition for a bare join()
  captured,   \* what start() handed to the main thread: position_, jobCount_ (and game)
  stopped,    \* comm_.isStopped()
  debug,      \* debugMode_
  game,       \* history: games the client has announced
  raced,      \* history: a request came between start() and disableReconfiguration()
  searches, requests   \* counters for the bounds

threadVars == <<clientPc, mainPc, next, captured, stopped>>
history == <<game, raced>>
counters == <<searches, requests>>
vars == <<cfg, threadVars, debug, history, counters>>

-----------------------------------------------------------------------------
(* TranspositionTable as the runner sees it *)

(* sizeBytes() after resize(): the greatest power of two within the request. *)
TableSize(size) ==
  CHOOSE s \in {2^k : k \in 0..size} : s <= size /\ size < 2 * s

(* The sizes offered are closed under rounding. *)
ASSUME RoundingAssumption == \A size \in HashSizes : TableSize(size) \in HashSizes

GrowEpoch(epoch, amount) == (epoch + amount) % EpochMod

ResetEpoch(epoch) == (epoch + 19) % EpochMod

-----------------------------------------------------------------------------
(* tryApplyConfigUnlocked *)

ApplyJobs(c) == [c EXCEPT !.evaluators = c.numJobs]

(* Mutant: the cleared table keeps its last position. *)
ApplyHashKeepingPosition(c) ==
  IF c.needClearHash \/ c.tableSize # c.hashSize
  THEN [c EXCEPT !.entries = IF c.needClearHash THEN {} ELSE @,
                 !.tableSize = TableSize(c.hashSize),
                 !.hashSize = TableSize(c.hashSize)]
  ELSE c

(* A cleared table forgets the last position; resize() rounds the size, and *)
(* hashSize_ takes the rounded value.                                       *)
ApplyHash(c) ==
  IF c.needClearHash \/ c.tableSize # c.hashSize
  THEN [c EXCEPT !.lastPosition = IF c.needClearHash THEN NoPosition ELSE @,
                 !.entries = IF c.needClearHash THEN {} ELSE @,
                 !.tableSize = TableSize(c.hashSize),
                 !.needClearHash = FALSE,
                 !.hashSize = TableSize(c.hashSize)]
  ELSE c

(* Mutant: a new game forgets the position but stays in the epoch. *)
ApplyNewGameInPlace(c) ==
  IF c.needNewGame
  THEN [c EXCEPT !.needNewGame = FALSE, !.lastPosition = NoPosition]
  ELSE c

ApplyNewGame(c) ==
  IF c.needNewGame
  THEN [c EXCEPT !.needNewGame = FALSE,
                 !.lastPosition = NoPosition,
                 !.epoch = IF c.lastPosition # NoPosition THEN ResetEpoch(@) ELSE @]
  ELSE c

(* Mutant: the configuration is applied whether a search runs or not. *)
TryApplyAnyway(c) == ApplyNewGame(ApplyHash(ApplyJobs(c)))

TryApply(c) == IF c.canApply THEN ApplyNewGame(ApplyHash(ApplyJobs(c))) ELSE c

-----------------------------------------------------------------------------
(* setPosition *)

(* commonPrefix() for positions with the same first board. *)
CommonPrefix(p, q) ==
  CHOOSE n \in 0..Len(p.moves) :
    /\ n <= Len(q.moves)
    /\ \A i \in 1..n : p.moves[i] = q.moves[i]
    /\ n = Len(p.moves) \/ n = Len(q.moves) \/ p.moves[n + 1] # q.moves[n + 1]

(* Plies from one position to the other, through the last common one. *)
Distance(p, q) ==
  (Len(p.moves) - CommonPrefix(p, q)) + (Len(q.moves) - CommonPrefix(p, q))

EpochFor(c, p) ==
  IF c.lastPosition = NoPosition THEN c.epoch
  ELSE IF c.lastPosition.first # p.first THEN ResetEpoch(c.epoch)
  ELSE IF Distance(c.lastPosition, p) <= 5
       THEN GrowEpoch(c.epoch, Distance(c.lastPosition, p))
       ELSE ResetEpoch(c.epoch)

(* Mutant: a position far away in the same game does not reset the epoch. *)
SetPositionNearOnly(c, p) ==
  [c EXCEPT !.lastPosition = p,
            !.epoch = IF c.lastPosition # NoPosition /\ c.lastPosition.first = p.first
                         /\ Distance(c.lastPosition, p) > 5
                      THEN @ ELSE EpochFor(c, p)]

SetPosition(c, p) == [c EXCEPT !.lastPosition = p, !.epoch = EpochFor(c, p)]

-----------------------------------------------------------------------------
(* Calls of the client thread *)

(* The main thread exists, but has not closed the configuration yet. *)
InWindow == mainPc = "created"

Configure(c) ==
  /\ clientPc = "idle"
  /\ requests < MaxRequests
  /\ requests' = requests + 1
  /\ cfg' = TryApply(c)
  /\ raced' = (raced \/ InWindow)
  /\ UNCHANGED <<threadVars, debug, searches>>

ClearHash ==
  /\ Configure([cfg EXCEPT !.needClearHash = TRUE])
  /\ UNCHANGED game

NewGame ==
  /\ Configure([cfg EXCEPT !.needNewGame = TRUE])
  /\ game' = game + 1

SetHashSize(size) ==
  /\ Configure([cfg EXCEPT !.hashSize = size])
  /\ UNCHANGED game

SetNumJobs(jobs) ==
  /\ Configure([cfg EXCEPT !.numJobs = jobs])
  /\ UNCHANGED game

SetDebugMode(enable) ==
  /\ clientPc = "idle"
  /\ requests < MaxRequests
  /\ requests' = requests + 1
  /\ debug' = enable
  /\ UNCHANGED <<cfg, threadVars, history, searches>>

Stop ==
  /\ clientPc = "idle"
  /\ stopped' = TRUE
  /\ UNCHANGED <<cfg, clientPc, mainPc, next, captured, debug, history, counters>>

(* join(): stops the search, if there is a main thread to wait for. *)
CallJoin(p) ==
  /\ clientPc = "idle"
  /\ clientPc' = "joining"
  /\ next' = p
  /\ stopped' = (stopped \/ mainPc # "none")
  /\ UNCHANGED <<cfg, mainPc, captured, debug, history>>

Join == CallJoin(NoPosition) /\ UNCHANGED counters

Start(p) ==
  /\ searches < MaxSearches
  /\ searches' = searches + 1
  /\ CallJoin(p)
  /\ UNCHANGED requests

JoinReturns ==
  /\ clientPc = "joining"
  /\ mainPc \in {"none", "exited"}
  /\ mainPc' = "none"
  /\ clientPc' = IF next = NoPosition THEN "idle" ELSE "starting"
  /\ UNCHANGED <<cfg, next, captured, stopped, debug, history, counters>>

(* The rest of start(): comm_.reset(), setPosition() and the new thread. *)
Spawn ==
  /\ clientPc = "starting"
  /\ stopped' = FALSE
  /\ cfg' = SetPosition(cfg, next)
  /\ captured' = [position |-> next, jobCount |-> cfg.numJobs, game |-> game]
  /\ mainPc' = "created"
  /\ clientPc' = "idle"
  /\ UNCHANGED <<next, debug, game, raced, counters>>

-----------------------------------------------------------------------------
(* MainThread::run *)

MainStep(from, to) == mainPc = from /\ mainPc' = to

DisableReconfiguration ==
  /\ MainStep("created", "create")
  /\ cfg' = [cfg EXCEPT !.canApply = FALSE]
  /\ UNCHANGED <<clientPc, next, captured, stopped, debug, history, counters>>

(* createJobsAndThreads(): the assertion ends the process; if it holds, the *)
(* jobs start to leave entries of this search in the table.                 *)
CreateJobsAndThreads ==
  /\ mainPc = "create"
  /\ IF cfg.evaluators = captured.jobCount
     THEN /\ mainPc' = "searching"
          /\ cfg' = [cfg EXCEPT !.entries = @ \union
                       {[position |-> captured.position, game |-> captured.game,
                         epoch |-> cfg.epoch]}]
     ELSE mainPc' = "panic" /\ UNCHANGED cfg
  /\ UNCHANGED <<clientPc, next, captured, stopped, debug, history, counters>>

(* The main loop ends, and joinThreads() returns, in a stopped round only. *)
EndSearch ==
  /\ MainStep("searching", "finish")
  /\ stopped' = TRUE
  /\ UNCHANGED <<cfg, clientPc, next, captured, debug, history, counters>>

MainOnly == UNCHANGED <<cfg, clientPc, next, captured, stopped, debug, history, counters>>

(* finishSearch(): the answer, then in debug mode one more message. *)
FinishSearch == MainStep("finish", "finished") /\ MainOnly

(* Mutant: the time is sent in any mode. *)
AlwaysSendTime == MainStep("finished", "sendTime") /\ MainOnly

CheckDebugMode == MainStep("finished", IF debug THEN "sendTime" ELSE "enable") /\ MainOnly

SendTime == MainStep("sendTime", "enable") /\ MainOnly

(* Mutant: the configuration is opened, but what was deferred is forgotten. *)
EnableOnly ==
  /\ MainStep("enable", "exited")
  /\ cfg' = [cfg EXCEPT !.canApply = TRUE]
  /\ UNCHANGED <<clientPc, next, captured, stopped, debug, history, counters>>

EnableReconfiguration ==
  /\ MainStep("enable", "exited")
  /\ cfg' = TryApply([cfg EXCEPT !.canApply = TRUE])
  /\ UNCHANGED <<clientPc, next, captured, stopped, debug, history, counters>>

-----------------------------------------------------------------------------
Init ==
  /\ cfg = [numJobs |-> DefaultJobs, evaluators |-> DefaultJobs,
            hashSize |-> DefaultSize, tableSize |-> DefaultSize,
            needClearHash |-> FALSE, needNewGame |-> FALSE, canApply |-> TRUE,
            lastPosition |-> NoPosition, epoch |-> 0, entries |-> {}]
  /\ clientPc = "idle" /\ mainPc = "none"
  /\ next = NoPosition
  /\ captured = [position |-> NoPosition, jobCount |-> DefaultJobs, game |-> 0]
  /\ stopped = FALSE /\ debug = FALSE
  /\ game = 0 /\ raced = FALSE
  /\ searches = 0 /\ requests = 0

ClientNext ==
  \/ ClearHash \/ NewGame
  \/ \E size \in HashSizes : SetHashSize(size)
  \/ \E jobs \in JobCounts : SetNumJobs(jobs)
  \/ \E enable \in BOOLEAN : SetDebugMode(enable)
  \/ Stop \/ Join
  \/ \E p \in Positions : Start(p)
  \/ JoinReturns \/ Spawn

MainNext ==
  \/ DisableReconfiguration \/ CreateJobsAndThreads \/ EndSearch
  \/ FinishSearch \/ CheckDebugMode \/ SendTime \/ EnableReconfiguration

(* An assertion that failed has ended the process. *)
Next == mainPc # "panic" /\ (ClientNext \/ MainNext)

Spec == Init /\ [][Next]_vars

(* Both threads run on; a search ends by itself or not, but it does end when *)
(* it is stopped (StopIsHonoured of SearchRound).                            *)
Fairness ==
  /\ WF_vars(Next /\ (DisableReconfiguration \/ CreateJobsAndThreads))
  /\ WF_vars(Next /\ EndSearch /\ stopped)
  /\ WF_vars(Next /\ (FinishSearch \/ CheckDebugMode \/ SendTime \/ EnableReconfiguration))
  /\ WF_vars(Next /\ (JoinReturns \/ Spawn))

FairSpec == Spec /\ Fairness

-----------------------------------------------------------------------------
(* Properties *)

Entry == [position : Positions, game : Nat, epoch : 0..(EpochMod - 1)]

Captured == [position : Positions \union {NoPosition}, jobCount : JobCounts, game : Nat]

Config ==
  [numJobs : JobCounts, evaluators : JobCounts,
   hashSize : HashSizes, tableSize : HashSizes,
   needClearHash : BOOLEAN, needNewGame : BOOLEAN, canApply : BOOLEAN,
   lastPosition : Positions \union {NoPosition}, epoch : 0..(EpochMod - 1),
   entries : SUBSET Entry]

TypeOK ==
  /\ cfg \in Config
  /\ clientPc \in {"idle", "joining", "starting"}
  /\ mainPc \in {"none", "created", "create", "searching", "finish", "finished",
                 "sendTime", "enable", "exited", "panic"}
  /\ next \in Positions \union {NoPosition}
  /\ clientPc = "starting" => next # NoPosition
  /\ captured \in Captured
  /\ stopped \in BOOLEAN /\ debug \in BOOLEAN
  /\ game \in Nat /\ raced \in BOOLEAN
  /\ searches \in Nat /\ requests \in Nat

(* tryApplyConfigUnlocked(): no request stays behind.  Whenever the          *)
(* configuration is open, what the client asked for last is what is in force.*)
NoRequestIsForgotten ==
  cfg.canApply =>
    /\ cfg.evaluators = cfg.numJobs /\ cfg.tableSize = cfg.hashSize
    /\ ~cfg.needClearHash /\ ~cfg.needNewGame

InForce == <<cfg.evaluators, cfg.tableSize, cfg.epoch, cfg.entries>>

(* Jobs hold references to evaluators_ and to the table, so from their       *)
(* creation to their end neither is resized, cleared or moved to another     *)
(* epoch, whatever the client asks for.                                      *)
ConfigIsFrozen == [][(mainPc \in {"searching", "finish"}) => InForce' = InForce]_vars

(* isCurrentEpoch() tells the entries of this search from older ones: no     *)
(* other position, and no other game, has left entries in the current epoch. *)
(* It is not so once a request slipped in before disableReconfiguration().   *)
EpochIdentifiesPosition ==
  ~raced /\ mainPc = "searching" =>
    \A e \in cfg.entries :
      e.epoch = cfg.epoch => e.position = captured.position /\ e.game = captured.game

(* start() promises jobCount evaluators to the thread it creates: the        *)
(* assertion in createJobsAndThreads() holds unless a request slipped in.    *)
EvaluatorsMatchUnlessRaced ==
  mainPc = "create" /\ ~raced => cfg.evaluators = captured.jobCount

(* The assertion of createJobsAndThreads(), and what setNumJobs() promises:  *)
(* a change of the number of jobs waits for the next search.                 *)
EvaluatorPerJob == mainPc = "create" => cfg.evaluators = captured.jobCount
=============================================================================
