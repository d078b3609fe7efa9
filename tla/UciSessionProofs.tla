-------------------------- MODULE UciSessionProofs --------------------------
(***************************************************************************)
(* First what module JobRunner promises for any positions, options and     *)
(* number of calls: no configuration request is forgotten, the             *)
(* configuration of a running search does not change, and the assertion on *)
(* the number of evaluators holds for every search that was not raced by a *)
(* request.  The invariant ties canApplyConfig_ to the place of the main   *)
(* thread, and carries the captured number of jobs from start() to the     *)
(* assertion.  A second one says what the epoch of the table tells of its *)
(* entries until it comes round.                                           *)
(*                                                                         *)
(* Then what a session promises for any number of searches and requests:   *)
(* it is a run of JobRunner, so everything proved there holds here; no     *)
(* call of the main thread is refused; and it implements SearchService.    *)
(* The invariant follows the mutex: while the poll thread holds it, it is  *)
(* clientPc that tells how far start() has come and therefore whether the  *)
(* main thread has an answer to give; while it is free, searchStarted_     *)
(* does.                                                                   *)
(***************************************************************************)
EXTENDS UciSession, Limits, OrderFacts, TLAPS

-----------------------------------------------------------------------------
(* The runner *)

Closed == {"create", "searching", "finish", "finished", "sendTime", "enable", "panic"}

(* The configuration is closed from disableReconfiguration() to              *)
(* enableReconfiguration(), and while it is open nothing is pending.         *)
GateInv ==
  /\ cfg.canApply <=> mainPc \notin Closed
  /\ NoRequestIsForgotten

(* The number of jobs the main thread will count on. *)
CrewInv ==
  /\ mainPc = "created" /\ ~raced => cfg.evaluators = captured.jobCount
  /\ EvaluatorsMatchUnlessRaced

(* start() goes on only when the old main thread is joined, and hands a      *)
(* position to the new one.                                                  *)
StartInv ==
  /\ clientPc = "starting" => mainPc = "none"
  /\ mainPc \in {"created", "create"} => captured.position \in Positions

IInv == TypeOK /\ GateInv /\ CrewInv /\ StartInv

-----------------------------------------------------------------------------
(* The operators *)

(* commonPrefix() is the length of a common prefix that cannot be extended. *)
LEMMA CommonPrefixCorrect ==
  ASSUME NEW p \in Positions, NEW q \in Positions
  PROVE  /\ CommonPrefix(p, q) \in 0..Len(p.moves)
         /\ CommonPrefix(p, q) <= Len(q.moves)
         /\ \A i \in 1..CommonPrefix(p, q) : p.moves[i] = q.moves[i]
<1> DEFINE Common == {n \in 0..Len(p.moves) :
                        n <= Len(q.moves) /\ \A i \in 1..n : p.moves[i] = q.moves[i]}
           Maximal(n) == n = Len(p.moves) \/ n = Len(q.moves)
                         \/ p.moves[n + 1] # q.moves[n + 1]
<1>1. Len(p.moves) \in Nat /\ Len(q.moves) \in Nat
  BY PositionsAssumption
<1>2. Common \subseteq 0..Len(p.moves) /\ 0 \in Common
  BY <1>1
<1>3. PICK n \in Common : \A m \in Common : m <= n
  <2> HIDE DEF Common
  <2> QED
    BY <1>1, <1>2, GreatestNatural
<1>4. Maximal(n)
  <2> SUFFICES ASSUME ~Maximal(n) PROVE FALSE
    OBVIOUS
  <2>1. n \in Nat /\ n < Len(p.moves) /\ n < Len(q.moves)
    BY <1>1
  <2>2. \A i \in 1..(n + 1) : i \in 1..n \/ i = n + 1
    BY <2>1
  <2>3. \A i \in 1..(n + 1) : p.moves[i] = q.moves[i]
    BY <2>2
  <2>4. n + 1 \in Common
    BY <1>1, <2>1, <2>3
  <2> QED
    BY <1>3, <2>1, <2>4
<1>5. \E m \in 0..Len(p.moves) :
        /\ m <= Len(q.moves)
        /\ \A i \in 1..m : p.moves[i] = q.moves[i]
        /\ Maximal(m)
  BY <1>4
<1> QED
  BY <1>5 DEF CommonPrefix

(* The distance of two positions is a number of plies. *)
LEMMA DistanceType ==
  ASSUME NEW p \in Positions, NEW q \in Positions
  PROVE  Distance(p, q) \in Nat
<1>1. Len(p.moves) \in Nat /\ Len(q.moves) \in Nat
  BY PositionsAssumption
<1>2. CommonPrefix(p, q) \in 0..Len(p.moves) /\ CommonPrefix(q, p) \in 0..Len(q.moves)
      /\ CommonPrefix(p, q) <= Len(q.moves)
  BY CommonPrefixCorrect
<1> HIDE DEF CommonPrefix
<1> QED
  BY <1>1, <1>2 DEF Distance

LEMMA EpochType ==
  ASSUME NEW c \in Config, NEW p \in Positions
  PROVE  EpochFor(c, p) \in 0..(EpochMod - 1)
<1>1. EpochMod \in Nat \ {0}
  BY BoundsAssumption
<1>2. c.epoch \in 0..(EpochMod - 1)
  BY DEF Config
<1>3. \A n \in Nat : n % EpochMod \in 0..(EpochMod - 1)
  BY <1>1
<1>4. ResetEpoch(c.epoch) \in 0..(EpochMod - 1)
  BY <1>1, <1>2, <1>3 DEF ResetEpoch
<1>5. CASE c.lastPosition \in Positions
  <2>1. Distance(c.lastPosition, p) \in Nat
    BY <1>5, DistanceType
  <2>2. GrowEpoch(c.epoch, Distance(c.lastPosition, p)) \in 0..(EpochMod - 1)
    BY <1>1, <1>2, <1>3, <2>1 DEF GrowEpoch
  <2> QED
    BY <1>2, <1>4, <2>2 DEF EpochFor
<1>6. CASE c.lastPosition = NoPosition
  BY <1>2, <1>6 DEF EpochFor
<1> QED
  BY <1>5, <1>6 DEF Config

(* A position that is set keeps the types. *)
LEMMA SetPositionType ==
  ASSUME NEW c \in Config, NEW p \in Positions
  PROVE  /\ SetPosition(c, p) \in Config
         /\ SetPosition(c, p) = [c EXCEPT !.lastPosition = p, !.epoch = EpochFor(c, p)]
<1>1. EpochFor(c, p) \in 0..(EpochMod - 1)
  BY EpochType
<1> QED
  BY <1>1 DEF SetPosition, Config

(* The parts of tryApplyConfigUnlocked() keep the type and leave the other   *)
(* parts alone.                                                              *)
LEMMA ApplyJobsFacts ==
  ASSUME NEW c \in Config
  PROVE  LET d == ApplyJobs(c) IN
         /\ d \in Config
         /\ d.canApply = c.canApply /\ d.numJobs = c.numJobs /\ d.evaluators = c.numJobs
BY DEF ApplyJobs, Config

LEMMA ApplyHashFacts ==
  ASSUME NEW c \in Config
  PROVE  LET d == ApplyHash(c) IN
         /\ d \in Config
         /\ d.canApply = c.canApply /\ d.numJobs = c.numJobs /\ d.evaluators = c.evaluators
         /\ d.tableSize = d.hashSize /\ ~d.needClearHash
<1>1. TableSize(c.hashSize) \in HashSizes
  BY RoundingAssumption DEF Config
<1> QED
  BY <1>1 DEF ApplyHash, Config

LEMMA ApplyNewGameFacts ==
  ASSUME NEW c \in Config
  PROVE  LET d == ApplyNewGame(c) IN
         /\ d \in Config
         /\ d.canApply = c.canApply /\ d.numJobs = c.numJobs /\ d.evaluators = c.evaluators
         /\ d.tableSize = c.tableSize /\ d.hashSize = c.hashSize
         /\ d.needClearHash = c.needClearHash /\ ~d.needNewGame
<1>1. ResetEpoch(c.epoch) \in 0..(EpochMod - 1)
  BY BoundsAssumption DEF ResetEpoch, Config
<1> QED
  BY <1>1 DEF ApplyNewGame, Config

Applied(c) ==
  /\ c.evaluators = c.numJobs /\ c.tableSize = c.hashSize
  /\ ~c.needClearHash /\ ~c.needNewGame

LEMMA TryApplyFacts ==
  ASSUME NEW c \in Config
  PROVE  /\ TryApply(c) \in Config
         /\ TryApply(c).canApply = c.canApply /\ TryApply(c).numJobs = c.numJobs
         /\ c.canApply => Applied(TryApply(c))
         /\ ~c.canApply => TryApply(c) = c
<1> DEFINE d == ApplyJobs(c)
           e == ApplyHash(d)
           f == ApplyNewGame(e)
<1>1. /\ d \in Config
      /\ d.canApply = c.canApply /\ d.numJobs = c.numJobs /\ d.evaluators = c.numJobs
  BY ApplyJobsFacts
<1> HIDE DEF d
<1>2. /\ e \in Config
      /\ e.canApply = d.canApply /\ e.numJobs = d.numJobs /\ e.evaluators = d.evaluators
      /\ e.tableSize = e.hashSize /\ ~e.needClearHash
  BY <1>1, ApplyHashFacts
<1> HIDE DEF e
<1>3. /\ f \in Config
      /\ f.canApply = e.canApply /\ f.numJobs = e.numJobs /\ f.evaluators = e.evaluators
      /\ f.tableSize = e.tableSize /\ f.hashSize = e.hashSize
      /\ f.needClearHash = e.needClearHash /\ ~f.needNewGame
  BY <1>2, ApplyNewGameFacts
<1>4. TryApply(c) = IF c.canApply THEN f ELSE c
  BY DEF TryApply, f, e, d
<1> HIDE DEF f
<1>5. c.canApply => Applied(f)
  BY <1>1, <1>2, <1>3 DEF Applied
<1> QED
  BY <1>1, <1>2, <1>3, <1>4, <1>5

-----------------------------------------------------------------------------
LEMMA InitInv == Init => IInv
<1> SUFFICES ASSUME Init PROVE IInv
  OBVIOUS
<1>1. TypeOK
  <2>1. 0 \in 0..(EpochMod - 1)
    BY BoundsAssumption
  <2>2. cfg \in Config
    BY <2>1, OptionsAssumption DEF Init, Config
  <2>3. captured \in Captured
    BY OptionsAssumption DEF Init, Captured
  <2> QED
    BY <2>2, <2>3 DEF Init, TypeOK
<1>2. GateInv /\ CrewInv /\ StartInv
  BY DEF Init, StartInv, GateInv, CrewInv, Closed, NoRequestIsForgotten, EvaluatorsMatchUnlessRaced
<1> QED
  BY <1>1, <1>2 DEF IInv

(* A configuration call: whoever comes between start() and                   *)
(* disableReconfiguration() makes the search raced.                          *)
LEMMA ConfigureInv ==
  ASSUME IInv, NEW c \in Config, c.canApply = cfg.canApply, c.evaluators = cfg.evaluators,
         game' \in Nat, Configure(c)
  PROVE  IInv'
<1>1. /\ TryApply(c) \in Config
      /\ TryApply(c).canApply = c.canApply
      /\ c.canApply => Applied(TryApply(c))
      /\ ~c.canApply => TryApply(c) = c
  BY TryApplyFacts
<1>2. cfg' = TryApply(c) /\ requests' = requests + 1 /\ raced' = (raced \/ mainPc = "created")
  BY DEF Configure, InWindow
<1>3. UNCHANGED <<clientPc, mainPc, next, captured, stopped, debug, searches>>
  BY DEF Configure, threadVars
<1>4. TypeOK'
  BY <1>1, <1>2, <1>3 DEF IInv, TypeOK
<1>5. GateInv'
  BY <1>1, <1>2, <1>3 DEF IInv, GateInv, NoRequestIsForgotten, Applied
<1>6. CrewInv'
  BY <1>1, <1>2, <1>3 DEF IInv, GateInv, CrewInv, Closed, EvaluatorsMatchUnlessRaced
<1>7. StartInv'
  BY <1>3 DEF IInv, StartInv
<1> QED
  BY <1>4, <1>5, <1>6, <1>7 DEF IInv

LEMMA RequestInv ==
  ASSUME IInv, \/ ClearHash \/ NewGame
               \/ \E size \in HashSizes : SetHashSize(size)
               \/ \E jobs \in JobCounts : SetNumJobs(jobs)
  PROVE  IInv'
<1>1. cfg \in Config /\ game \in Nat
  BY DEF IInv, TypeOK
<1>2. CASE ClearHash
  <2> DEFINE c == [cfg EXCEPT !.needClearHash = TRUE]
  <2>1. c \in Config /\ c.canApply = cfg.canApply /\ c.evaluators = cfg.evaluators
    BY <1>1 DEF Config
  <2>2. Configure(c) /\ game' \in Nat
    BY <1>1, <1>2 DEF ClearHash
  <2> HIDE DEF c
  <2> QED
    BY <2>1, <2>2, ConfigureInv
<1>3. CASE NewGame
  <2> DEFINE c == [cfg EXCEPT !.needNewGame = TRUE]
  <2>1. c \in Config /\ c.canApply = cfg.canApply /\ c.evaluators = cfg.evaluators
    BY <1>1 DEF Config
  <2>2. Configure(c) /\ game' \in Nat
    BY <1>1, <1>3 DEF NewGame
  <2> HIDE DEF c
  <2> QED
    BY <2>1, <2>2, ConfigureInv
<1>4. ASSUME NEW size \in HashSizes, SetHashSize(size) PROVE IInv'
  <2> DEFINE c == [cfg EXCEPT !.hashSize = size]
  <2>1. c \in Config /\ c.canApply = cfg.canApply /\ c.evaluators = cfg.evaluators
    BY <1>1 DEF Config
  <2>2. Configure(c) /\ game' \in Nat
    BY <1>1, <1>4 DEF SetHashSize
  <2> HIDE DEF c
  <2> QED
    BY <2>1, <2>2, ConfigureInv
<1>5. ASSUME NEW jobs \in JobCounts, SetNumJobs(jobs) PROVE IInv'
  <2> DEFINE c == [cfg EXCEPT !.numJobs = jobs]
  <2>1. c \in Config /\ c.canApply = cfg.canApply /\ c.evaluators = cfg.evaluators
    BY <1>1 DEF Config
  <2>2. Configure(c) /\ game' \in Nat
    BY <1>1, <1>5 DEF SetNumJobs
  <2> HIDE DEF c
  <2> QED
    BY <2>1, <2>2, ConfigureInv
<1> QED
  BY <1>2, <1>3, <1>4, <1>5

(* Steps that leave the configuration and the place of the main thread alone. *)
LEMMA QuietInv ==
  ASSUME IInv, TypeOK', UNCHANGED <<cfg, mainPc, captured, raced>>,
         clientPc' = "starting" => clientPc = "starting"
  PROVE  IInv'
BY DEF IInv, StartInv, GateInv, CrewInv, NoRequestIsForgotten, EvaluatorsMatchUnlessRaced

LEMMA ClientInv ==
  ASSUME IInv, \/ \E enable \in BOOLEAN : SetDebugMode(enable)
               \/ Stop \/ Join \/ (\E p \in Positions : Start(p))
               \/ JoinReturns \/ Spawn
  PROVE  IInv'
<1> USE DEF history, counters, threadVars
<1>1. CASE \E enable \in BOOLEAN : SetDebugMode(enable)
  <2>1. TypeOK'
    BY <1>1 DEF IInv, TypeOK, SetDebugMode
  <2> QED
    BY <1>1, <2>1, QuietInv DEF SetDebugMode
<1>2. CASE Stop
  <2>1. TypeOK'
    BY <1>2 DEF IInv, TypeOK, Stop
  <2> QED
    BY <1>2, <2>1, QuietInv DEF Stop
<1>3. CASE Join
  <2>1. TypeOK'
    BY <1>3 DEF IInv, TypeOK, Join, CallJoin
  <2> QED
    BY <1>3, <2>1, QuietInv DEF Join, CallJoin
<1>4. CASE \E p \in Positions : Start(p)
  <2>1. TypeOK'
    BY <1>4 DEF IInv, TypeOK, Start, CallJoin
  <2> QED
    BY <1>4, <2>1, QuietInv DEF Start, CallJoin
<1>5. CASE JoinReturns
  <2>1. TypeOK'
    BY <1>5 DEF IInv, TypeOK, JoinReturns
  <2>2. GateInv' /\ CrewInv' /\ StartInv'
    BY <1>5 DEF JoinReturns, StartInv, IInv, GateInv, CrewInv, Closed, NoRequestIsForgotten,
                EvaluatorsMatchUnlessRaced
  <2> QED
    BY <2>1, <2>2 DEF IInv
<1>6. CASE Spawn
  <2>1. next \in Positions /\ cfg \in Config
    BY <1>6 DEF Spawn, IInv, TypeOK
  <2>2. /\ cfg' \in Config
        /\ cfg' = [cfg EXCEPT !.lastPosition = next, !.epoch = EpochFor(cfg, next)]
    BY <1>6, <2>1, SetPositionType DEF Spawn
  <2>3. /\ cfg'.canApply = cfg.canApply /\ cfg'.numJobs = cfg.numJobs
        /\ cfg'.evaluators = cfg.evaluators /\ cfg'.tableSize = cfg.tableSize
        /\ cfg'.hashSize = cfg.hashSize /\ cfg'.needClearHash = cfg.needClearHash
        /\ cfg'.needNewGame = cfg.needNewGame
    BY <2>1, <2>2 DEF Config
  <2>4. /\ captured' \in Captured /\ captured'.jobCount = cfg.numJobs
        /\ captured'.position \in Positions
    BY <1>6, <2>1 DEF Spawn, Captured, Config, IInv, TypeOK
  <2>5. TypeOK'
    BY <1>6, <2>2, <2>4 DEF IInv, TypeOK, Spawn
  <2>6. GateInv' /\ CrewInv' /\ StartInv'
    BY <1>6, <2>3, <2>4 DEF Spawn, StartInv, IInv, GateInv, CrewInv, Closed, NoRequestIsForgotten,
                            EvaluatorsMatchUnlessRaced
  <2> QED
    BY <2>5, <2>6 DEF IInv
<1> QED
  BY <1>1, <1>2, <1>3, <1>4, <1>5, <1>6

LEMMA MainInv == ASSUME IInv, MainNext PROVE IInv'
<1> USE DEF history, counters, threadVars, MainStep
<1>0. cfg \in Config /\ captured \in Captured
  BY DEF IInv, TypeOK
<1>1. CASE DisableReconfiguration
  <2>1. cfg' = [cfg EXCEPT !.canApply = FALSE] /\ cfg' \in Config
    BY <1>0, <1>1 DEF DisableReconfiguration, Config
  <2>2. ~cfg'.canApply /\ cfg'.evaluators = cfg.evaluators
    BY <1>0, <2>1 DEF Config
  <2>3. TypeOK'
    BY <1>1, <2>1 DEF DisableReconfiguration, IInv, TypeOK
  <2>4. GateInv' /\ CrewInv' /\ StartInv'
    BY <1>1, <2>2 DEF DisableReconfiguration, IInv, GateInv, CrewInv, StartInv, Closed,
                      NoRequestIsForgotten, EvaluatorsMatchUnlessRaced
  <2> QED
    BY <2>3, <2>4 DEF IInv
<1>2. CASE CreateJobsAndThreads
  <2>1. cfg' \in Config /\ cfg'.canApply = cfg.canApply
    <3>1. CASE cfg.evaluators # captured.jobCount
      BY <1>0, <1>2, <3>1 DEF CreateJobsAndThreads
    <3>2. CASE cfg.evaluators = captured.jobCount
      <4> DEFINE e == [position |-> captured.position, game |-> captured.game,
                       epoch |-> cfg.epoch]
      <4>1. e \in Entry
        BY <1>0, <1>2 DEF IInv, StartInv, CreateJobsAndThreads, Config, Captured, Entry
      <4>2. cfg' = [cfg EXCEPT !.entries = @ \union {e}]
        BY <1>2, <3>2 DEF CreateJobsAndThreads
      <4> HIDE DEF e
      <4> QED
        BY <1>0, <4>1, <4>2 DEF Config
    <3> QED
      BY <3>1, <3>2
  <2>2. mainPc' \in {"searching", "panic"} /\ UNCHANGED <<clientPc, captured, raced>>
    BY <1>2 DEF CreateJobsAndThreads
  <2>3. TypeOK'
    BY <1>2, <2>1, <2>2 DEF CreateJobsAndThreads, IInv, TypeOK
  <2>4. GateInv' /\ CrewInv' /\ StartInv'
    BY <1>2, <2>1, <2>2 DEF CreateJobsAndThreads, IInv, GateInv, CrewInv, StartInv, Closed,
                            NoRequestIsForgotten, EvaluatorsMatchUnlessRaced
  <2> QED
    BY <2>3, <2>4 DEF IInv
<1>3. CASE EndSearch
  <2>1. TypeOK'
    BY <1>3 DEF EndSearch, IInv, TypeOK
  <2>2. GateInv' /\ CrewInv' /\ StartInv'
    BY <1>3 DEF EndSearch, IInv, GateInv, CrewInv, StartInv, Closed, NoRequestIsForgotten,
                EvaluatorsMatchUnlessRaced
  <2> QED
    BY <2>1, <2>2 DEF IInv
<1>4. CASE FinishSearch \/ CheckDebugMode \/ SendTime
  <2>1. /\ mainPc \in {"finish", "finished", "sendTime"}
        /\ mainPc' \in {"finished", "sendTime", "enable"}
        /\ MainOnly
    BY <1>4 DEF FinishSearch, CheckDebugMode, SendTime
  <2>2. TypeOK'
    BY <2>1 DEF MainOnly, IInv, TypeOK
  <2>3. GateInv' /\ CrewInv' /\ StartInv'
    BY <2>1 DEF MainOnly, IInv, GateInv, CrewInv, StartInv, Closed, NoRequestIsForgotten,
                EvaluatorsMatchUnlessRaced
  <2> QED
    BY <2>2, <2>3 DEF IInv
<1>5. CASE EnableReconfiguration
  <2> DEFINE c == [cfg EXCEPT !.canApply = TRUE]
  <2>1. c \in Config /\ c.canApply
    BY <1>0 DEF Config
  <2>2. cfg' = TryApply(c)
    BY <1>5 DEF EnableReconfiguration
  <2> HIDE DEF c
  <2>3. cfg' \in Config /\ cfg'.canApply /\ Applied(cfg')
    BY <2>1, <2>2, TryApplyFacts
  <2>4. TypeOK'
    BY <1>5, <2>3 DEF EnableReconfiguration, IInv, TypeOK
  <2>5. GateInv' /\ CrewInv' /\ StartInv'
    BY <1>5, <2>3 DEF EnableReconfiguration, IInv, GateInv, CrewInv, StartInv, Closed,
                      NoRequestIsForgotten, EvaluatorsMatchUnlessRaced, Applied
  <2> QED
    BY <2>4, <2>5 DEF IInv
<1> QED
  BY <1>1, <1>2, <1>3, <1>4, <1>5 DEF MainNext

LEMMA NextInv == IInv /\ [Next]_vars => IInv'
<1> SUFFICES ASSUME IInv, [Next]_vars PROVE IInv'
  OBVIOUS
<1>1. CASE UNCHANGED vars
  BY <1>1 DEF vars, threadVars, history, counters, IInv, TypeOK, GateInv, CrewInv, StartInv,
              NoRequestIsForgotten, EvaluatorsMatchUnlessRaced
<1>2. CASE Next
  BY <1>2, RequestInv, ClientInv, MainInv DEF Next, ClientNext
<1> QED
  BY <1>1, <1>2

(* The inductive invariant of the job runner. *)
THEOREM Invariance == Spec => []IInv
<1>1. Init => IInv
  BY InitInv
<1>2. IInv /\ [Next]_vars => IInv'
  BY NextInv
<1> QED
  BY <1>1, <1>2, PTL DEF Spec

-----------------------------------------------------------------------------
(* The configuration, the threads and the counters keep their types; in      *)
(* particular the epoch stays an epoch, however far apart the positions are. *)
THEOREM TypeCorrect == Spec => []TypeOK
<1>1. IInv => TypeOK
  BY DEF IInv
<1> QED
  BY <1>1, Invariance, PTL

(* Whenever the configuration is open, every request of the client - made    *)
(* before, during or after a search - is in force.                           *)
THEOREM RequestsTakeEffect == Spec => []NoRequestIsForgotten
<1>1. IInv => NoRequestIsForgotten
  BY DEF IInv, GateInv
<1> QED
  BY <1>1, Invariance, PTL

(* The assertion in createJobsAndThreads() holds for every search that no    *)
(* request raced.                                                            *)
THEOREM EveryJobHasAnEvaluator == Spec => []EvaluatorsMatchUnlessRaced
<1>1. IInv => EvaluatorsMatchUnlessRaced
  BY DEF IInv, CrewInv
<1> QED
  BY <1>1, Invariance, PTL

LEMMA FrozenStep ==
  ASSUME IInv, [Next]_vars, mainPc \in {"searching", "finish"}
  PROVE  InForce' = InForce
<1> USE DEF history, counters, threadVars, MainStep, InForce
<1>1. ~cfg.canApply /\ cfg \in Config
  BY DEF IInv, TypeOK, GateInv, Closed
<1>2. ASSUME NEW c \in Config, Configure(c), ~c.canApply,
             c.evaluators = cfg.evaluators, c.tableSize = cfg.tableSize,
             c.epoch = cfg.epoch, c.entries = cfg.entries
      PROVE  InForce' = InForce
  BY <1>2, TryApplyFacts DEF Configure
<1>3. CASE ClearHash
  <2> DEFINE c == [cfg EXCEPT !.needClearHash = TRUE]
  <2>1. /\ c \in Config /\ ~c.canApply /\ c.evaluators = cfg.evaluators
        /\ c.tableSize = cfg.tableSize /\ c.epoch = cfg.epoch /\ c.entries = cfg.entries
    BY <1>1 DEF Config
  <2>2. Configure(c)
    BY <1>3 DEF ClearHash
  <2> HIDE DEF c
  <2> QED
    BY <1>2, <2>1, <2>2
<1>4. CASE NewGame
  <2> DEFINE c == [cfg EXCEPT !.needNewGame = TRUE]
  <2>1. /\ c \in Config /\ ~c.canApply /\ c.evaluators = cfg.evaluators
        /\ c.tableSize = cfg.tableSize /\ c.epoch = cfg.epoch /\ c.entries = cfg.entries
    BY <1>1 DEF Config
  <2>2. Configure(c)
    BY <1>4 DEF NewGame
  <2> HIDE DEF c
  <2> QED
    BY <1>2, <2>1, <2>2
<1>5. ASSUME NEW size \in HashSizes, SetHashSize(size) PROVE InForce' = InForce
  <2> DEFINE c == [cfg EXCEPT !.hashSize = size]
  <2>1. /\ c \in Config /\ ~c.canApply /\ c.evaluators = cfg.evaluators
        /\ c.tableSize = cfg.tableSize /\ c.epoch = cfg.epoch /\ c.entries = cfg.entries
    BY <1>1 DEF Config
  <2>2. Configure(c)
    BY <1>5 DEF SetHashSize
  <2> HIDE DEF c
  <2> QED
    BY <1>2, <2>1, <2>2
<1>6. ASSUME NEW jobs \in JobCounts, SetNumJobs(jobs) PROVE InForce' = InForce
  <2> DEFINE c == [cfg EXCEPT !.numJobs = jobs]
  <2>1. /\ c \in Config /\ ~c.canApply /\ c.evaluators = cfg.evaluators
        /\ c.tableSize = cfg.tableSize /\ c.epoch = cfg.epoch /\ c.entries = cfg.entries
    BY <1>1 DEF Config
  <2>2. Configure(c)
    BY <1>6 DEF SetNumJobs
  <2> HIDE DEF c
  <2> QED
    BY <1>2, <2>1, <2>2
<1>7. CASE Spawn
  BY <1>7 DEF Spawn, IInv, StartInv
<1>8. CASE \/ (\E enable \in BOOLEAN : SetDebugMode(enable)) \/ Stop \/ Join
           \/ (\E p \in Positions : Start(p)) \/ JoinReturns
  BY <1>8 DEF SetDebugMode, Stop, Join, Start, CallJoin, JoinReturns
<1>9. CASE MainNext
  BY <1>9 DEF MainNext, DisableReconfiguration, CreateJobsAndThreads, EndSearch, FinishSearch,
              CheckDebugMode, SendTime, MainOnly, EnableReconfiguration
<1>10. CASE UNCHANGED vars
  BY <1>10 DEF vars
<1> QED
  BY <1>3, <1>4, <1>5, <1>6, <1>7, <1>8, <1>9, <1>10 DEF Next, ClientNext

(* From the creation of the jobs to their end, no request resizes, clears or *)
(* re-dates what they hold references to.                                    *)
THEOREM RunningSearchKeepsConfig == Spec => ConfigIsFrozen
<1>1. IInv /\ [Next]_vars => [(mainPc \in {"searching", "finish"}) => InForce' = InForce]_vars
  BY FrozenStep
<1> QED
  BY <1>1, Invariance, PTL DEF Spec, ConfigIsFrozen

-----------------------------------------------------------------------------
(* The epochs of the table                                                   *)
(*                                                                           *)
(* The epoch is a byte and comes round.  What is proved is that it tells the *)
(* entries of a search from older ones for as long as it cannot have done    *)
(* so: each start() and each ucinewgame moves it by at most 19.              *)

(* What s searches and r requests may have moved it by. *)
Moved(s, r) == 19 * (s + r)
Few == Moved(searches, requests) < EpochMod

(* Moves of the epoch that are still to come: a start() that has not set its *)
(* position, a new game that waits for the end of the search.                *)
StartToCome == IF clientPc # "idle" /\ next # NoPosition THEN 19 ELSE 0
GameToCome(c) == IF c.needNewGame THEN 19 ELSE 0

RoomInv == cfg.epoch + StartToCome + GameToCome(cfg) <= Moved(searches, requests)

(* No entry is of a later epoch than this one, and those of this one are of  *)
(* the last position and of the game it was searched in.                     *)
Told(c, cap) ==
  \A e \in c.entries :
    /\ e.epoch <= c.epoch
    /\ e.epoch = c.epoch => e.position = c.lastPosition /\ e.game = cap.game

(* The last position is the one that was handed to the main thread, of the   *)
(* present game g unless a new game is still to be taken note of.            *)
LastIs(c, cap, g) ==
  c.lastPosition # NoPosition =>
    c.lastPosition = cap.position /\ (c.needNewGame \/ cap.game = g)

(* The main thread knows the last position for as long as it may use it. *)
KnownInv == mainPc \in Closed \union {"created"} => cfg.lastPosition = captured.position

EpochInv ==
  RoomInv /\ (~raced => Told(cfg, captured) /\ LastIs(cfg, captured, game) /\ KnownInv)

LEMMA MovedFacts ==
  ASSUME NEW s \in Nat, NEW r \in Nat
  PROVE  /\ Moved(s, r) \in Nat
         /\ Moved(s + 1, r) = Moved(s, r) + 19 /\ Moved(s, r + 1) = Moved(s, r) + 19
BY DEF Moved

LEMMA NoDistance ==
  ASSUME NEW p \in Positions, NEW q \in Positions, p.first = q.first, Distance(p, q) = 0
  PROVE  p = q
<1>1. Len(p.moves) \in Nat /\ Len(q.moves) \in Nat
  BY PositionsAssumption
<1>2. /\ CommonPrefix(p, q) \in 0..Len(p.moves)
      /\ CommonPrefix(p, q) <= Len(q.moves)
      /\ \A i \in 1..CommonPrefix(p, q) : p.moves[i] = q.moves[i]
  BY CommonPrefixCorrect
<1> HIDE DEF CommonPrefix
<1>3. Len(p.moves) = CommonPrefix(p, q) /\ Len(q.moves) = CommonPrefix(p, q)
  BY <1>1, <1>2 DEF Distance
<1>4. /\ p.moves = [i \in 1..Len(p.moves) |-> p.moves[i]]
      /\ q.moves = [i \in 1..Len(q.moves) |-> q.moves[i]]
      /\ p = [first |-> p.first, moves |-> p.moves]
      /\ q = [first |-> q.first, moves |-> q.moves]
  BY PositionsAssumption
<1>5. p.moves = q.moves
  <2>1. PICK n : n = Len(p.moves) /\ n = Len(q.moves)
    BY <1>3
  <2>2. \A i \in 1..n : p.moves[i] = q.moves[i]
    BY <1>2, <1>3, <2>1
  <2>3. [i \in 1..n |-> p.moves[i]] = [i \in 1..n |-> q.moves[i]]
    BY <2>2
  <2> QED
    BY <1>4, <2>1, <2>3
<1> QED
  BY <1>4, <1>5

(* setPosition() moves the epoch forward, unless it sets the last position   *)
(* again or none is known.                                                   *)
LEMMA EpochGrows ==
  ASSUME NEW c \in Config, NEW p \in Positions, c.epoch + 19 < EpochMod
  PROVE  /\ c.epoch <= EpochFor(c, p) /\ EpochFor(c, p) <= c.epoch + 19
         /\ EpochFor(c, p) = c.epoch => c.lastPosition = NoPosition \/ c.lastPosition = p
<1>1. EpochMod \in Nat \ {0} /\ c.epoch \in Nat
  BY BoundsAssumption DEF Config
<1>2. \A n \in 0..19 : (c.epoch + n) % EpochMod = c.epoch + n
  BY <1>1
<1>3. ResetEpoch(c.epoch) = c.epoch + 19
  BY <1>2 DEF ResetEpoch
<1>4. CASE c.lastPosition = NoPosition
  BY <1>1, <1>4 DEF EpochFor
<1>5. CASE c.lastPosition # NoPosition
  <2>1. c.lastPosition \in Positions
    BY <1>5 DEF Config
  <2>2. CASE c.lastPosition.first # p.first
    BY <1>1, <1>3, <1>5, <2>2 DEF EpochFor
  <2>3. CASE c.lastPosition.first = p.first
    <3>1. PICK n \in Nat : n = Distance(c.lastPosition, p)
      BY <2>1, DistanceType
    <3>2. n = 0 => c.lastPosition = p
      BY <2>1, <2>3, <3>1, NoDistance
    <3>3. EpochFor(c, p) = IF n <= 5 THEN GrowEpoch(c.epoch, n) ELSE ResetEpoch(c.epoch)
      BY <1>5, <2>3, <3>1 DEF EpochFor
    <3>4. n <= 5 => GrowEpoch(c.epoch, n) = c.epoch + n
      BY <1>2, <3>1 DEF GrowEpoch
    <3> QED
      BY <1>1, <1>3, <3>1, <3>2, <3>3, <3>4
  <2> QED
    BY <2>2, <2>3
<1> QED
  BY <1>4, <1>5

(* tryApplyConfigUnlocked(): the table loses its last position only together *)
(* with its entries or with the epoch.                                       *)
LEMMA HashEpoch ==
  ASSUME NEW c \in Config, NEW d, d = ApplyHash(ApplyJobs(c))
  PROVE  /\ d.epoch = c.epoch /\ d.needNewGame = c.needNewGame
         /\ \/ d.lastPosition = c.lastPosition /\ d.entries = c.entries
            \/ d.lastPosition = NoPosition /\ d.entries = {}
<1>1. PICK b : b = ApplyJobs(c)
  OBVIOUS
<1>2. /\ b \in Config /\ b.epoch = c.epoch /\ b.needNewGame = c.needNewGame
      /\ b.lastPosition = c.lastPosition /\ b.entries = c.entries
  BY <1>1, ApplyJobsFacts DEF ApplyJobs, Config
<1>3. d = ApplyHash(b)
  BY <1>1
<1>4. CASE ~(b.needClearHash \/ b.tableSize # b.hashSize)
  BY <1>2, <1>3, <1>4 DEF ApplyHash
<1>5. CASE b.needClearHash
  BY <1>2, <1>3, <1>5 DEF ApplyHash, Config
<1>6. CASE ~b.needClearHash /\ b.tableSize # b.hashSize
  BY <1>2, <1>3, <1>6 DEF ApplyHash, Config
<1> QED
  BY <1>4, <1>5, <1>6

LEMMA ApplyEpoch ==
  ASSUME NEW c \in Config, c.canApply, c.epoch + GameToCome(c) < EpochMod,
         NEW d, d = TryApply(c)
  PROVE  /\ c.epoch <= d.epoch /\ d.epoch <= c.epoch + GameToCome(c)
         /\ d.entries \in {c.entries, {}} /\ d.lastPosition \in {c.lastPosition, NoPosition}
         /\ d.lastPosition # NoPosition => d.epoch = c.epoch /\ ~c.needNewGame
         /\ d.epoch = c.epoch => d.entries = {} \/ d.lastPosition = c.lastPosition
<1>1. PICK b : b = ApplyHash(ApplyJobs(c))
  OBVIOUS
<1>2. /\ b.epoch = c.epoch /\ b.needNewGame = c.needNewGame
      /\ \/ b.lastPosition = c.lastPosition /\ b.entries = c.entries
         \/ b.lastPosition = NoPosition /\ b.entries = {}
  BY <1>1, HashEpoch
<1>3. b \in Config
  <2>1. PICK a : a = ApplyJobs(c)
    OBVIOUS
  <2>2. a \in Config
    BY <2>1, ApplyJobsFacts
  <2> QED
    BY <1>1, <2>1, <2>2, ApplyHashFacts
<1>4. d = ApplyNewGame(b)
  BY <1>1 DEF TryApply
<1>5. EpochMod \in Nat \ {0} /\ b.epoch \in Nat
  BY <1>3, BoundsAssumption DEF Config
<1>6. b.needNewGame => ResetEpoch(b.epoch) = b.epoch + 19
  BY <1>2, <1>5 DEF ResetEpoch, GameToCome
<1>7. CASE ~b.needNewGame
  BY <1>2, <1>4, <1>5, <1>7 DEF ApplyNewGame, GameToCome
<1>8. CASE b.needNewGame
  <2>1. /\ d.lastPosition = NoPosition /\ d.entries = b.entries
        /\ d.epoch = IF b.lastPosition # NoPosition THEN b.epoch + 19 ELSE b.epoch
    BY <1>3, <1>4, <1>6, <1>8 DEF ApplyNewGame, Config
  <2>2. GameToCome(c) = 19
    BY <1>2, <1>8 DEF GameToCome
  <2> QED
    BY <1>2, <1>5, <2>1, <2>2
<1> QED
  BY <1>7, <1>8

(* So the epoch still tells, and has still room. *)
LEMMA ApplyTold ==
  ASSUME NEW c \in Config, c.epoch + GameToCome(c) < EpochMod,
         NEW d, d = TryApply(c), NEW cap, NEW g
  PROVE  /\ d.epoch + GameToCome(d) <= c.epoch + GameToCome(c)
         /\ Told(c, cap) => Told(d, cap)
         /\ LastIs(c, cap, g) => LastIs(d, cap, g)
<1>1. CASE ~c.canApply
  <2>1. d = c
    BY <1>1 DEF TryApply
  <2> QED
    BY <2>1 DEF Config, GameToCome
<1>2. CASE c.canApply
  <2>1. /\ c.epoch <= d.epoch /\ d.epoch <= c.epoch + GameToCome(c)
        /\ d.entries \in {c.entries, {}} /\ d.lastPosition \in {c.lastPosition, NoPosition}
        /\ d.lastPosition # NoPosition => d.epoch = c.epoch /\ ~c.needNewGame
        /\ d.epoch = c.epoch => d.entries = {} \/ d.lastPosition = c.lastPosition
    BY <1>2, ApplyEpoch
  <2>2. d \in Config /\ ~d.needNewGame
    BY <1>2, TryApplyFacts DEF Applied
  <2>3. c.epoch \in Nat /\ d.epoch \in Nat /\ \A e \in c.entries : e.epoch \in Nat
    BY <2>2, BoundsAssumption DEF Config, Entry
  <2>4. d.epoch + GameToCome(d) <= c.epoch + GameToCome(c)
    BY <2>1, <2>2, <2>3 DEF GameToCome
  <2>5. ASSUME Told(c, cap) PROVE Told(d, cap)
    BY <2>1, <2>3, <2>5 DEF Told
  <2>6. ASSUME LastIs(c, cap, g) PROVE LastIs(d, cap, g)
    BY <2>1, <2>6 DEF LastIs
  <2> QED
    BY <2>4, <2>5, <2>6
<1> QED
  BY <1>1, <1>2

(* The configuration calls. *)
LEMMA ConfigureEpoch ==
  ASSUME IInv, EpochInv, Few, NEW c \in Config, Configure(c), game' \in Nat,
         c.epoch = cfg.epoch, c.lastPosition = cfg.lastPosition, c.entries = cfg.entries,
         c.canApply = cfg.canApply,
         GameToCome(c) <= GameToCome(cfg) + 19, cfg.needNewGame => c.needNewGame,
         game' # game => c.needNewGame, Few'
  PROVE  EpochInv'
<1>1. /\ cfg' = TryApply(c) /\ requests' = requests + 1 /\ raced' = (raced \/ mainPc = "created")
      /\ UNCHANGED <<clientPc, mainPc, next, captured, searches>>
  BY DEF Configure, InWindow, threadVars
<1>2. /\ cfg.epoch \in Nat /\ searches \in Nat /\ requests \in Nat /\ EpochMod \in Nat \ {0}
      /\ raced \in BOOLEAN
  BY BoundsAssumption DEF IInv, TypeOK, Config
<1>3. StartToCome \in {0, 19} /\ StartToCome' = StartToCome
  BY <1>1 DEF StartToCome
<1>4. GameToCome(c) \in {0, 19} /\ GameToCome(cfg) \in {0, 19} /\ GameToCome(cfg') \in {0, 19}
  BY DEF GameToCome
<1>5. /\ cfg.epoch + StartToCome + GameToCome(c) <= Moved(searches, requests')
      /\ Moved(searches, requests') \in Nat
  <2>1. /\ Moved(searches, requests) \in Nat
        /\ Moved(searches, requests') = Moved(searches, requests) + 19
    BY <1>1, <1>2, MovedFacts
  <2>2. cfg.epoch + StartToCome + GameToCome(cfg) <= Moved(searches, requests)
    BY DEF EpochInv, RoomInv
  <2> QED
    BY <1>2, <1>3, <1>4, <2>1, <2>2
<1>6. c.epoch + GameToCome(c) < EpochMod
  BY <1>1, <1>2, <1>3, <1>4, <1>5 DEF Few
<1>7. PICK d : d = TryApply(c)
  OBVIOUS
<1>8. /\ d.epoch + GameToCome(d) <= c.epoch + GameToCome(c)
      /\ Told(c, captured) => Told(d, captured)
      /\ LastIs(c, captured, game') => LastIs(d, captured, game')
  BY <1>6, <1>7, ApplyTold
<1>9. d \in Config /\ d.epoch \in Nat /\ cfg' = d
  BY <1>1, <1>7, TryApplyFacts, BoundsAssumption DEF Config
<1>10. RoomInv'
  BY <1>1, <1>2, <1>3, <1>4, <1>5, <1>8, <1>9 DEF RoomInv
<1>11. ASSUME ~raced'
       PROVE  Told(cfg, captured)' /\ LastIs(cfg, captured, game)' /\ KnownInv'
  <2>1. ~raced /\ mainPc # "created"
    BY <1>1, <1>2, <1>11
  <2>2. Told(cfg, captured) /\ LastIs(cfg, captured, game) /\ KnownInv
    BY <2>1 DEF EpochInv
  <2>3. Told(c, captured)
    BY <2>2 DEF Told
  <2>4. LastIs(c, captured, game')
    BY <2>2 DEF LastIs
  <2>5. Told(d, captured) /\ LastIs(d, captured, game')
    BY <1>8, <2>3, <2>4
  <2>6. ASSUME mainPc \in Closed PROVE cfg' = c
    <3>1. ~c.canApply
      BY <2>6 DEF IInv, GateInv
    <3> QED
      BY <1>1, <3>1, TryApplyFacts
  <2>7. KnownInv'
    BY <1>1, <2>1, <2>2, <2>6 DEF KnownInv
  <2> QED
    BY <1>1, <1>9, <2>5, <2>7
<1> QED
  BY <1>10, <1>11 DEF EpochInv

LEMMA RequestEpoch ==
  ASSUME IInv, EpochInv, Few, Few',
         \/ ClearHash \/ NewGame
         \/ \E size \in HashSizes : SetHashSize(size)
         \/ \E jobs \in JobCounts : SetNumJobs(jobs)
  PROVE  EpochInv'
<1>1. cfg \in Config /\ game \in Nat
  BY DEF IInv, TypeOK
<1>2. CASE ClearHash
  <2> DEFINE c == [cfg EXCEPT !.needClearHash = TRUE]
  <2>1. /\ c \in Config /\ c.canApply = cfg.canApply /\ c.epoch = cfg.epoch
        /\ c.lastPosition = cfg.lastPosition /\ c.entries = cfg.entries
        /\ c.needNewGame = cfg.needNewGame
    BY <1>1 DEF Config
  <2>2. Configure(c) /\ game' = game
    BY <1>2 DEF ClearHash
  <2> HIDE DEF c
  <2>3. GameToCome(c) <= GameToCome(cfg) + 19
    BY <2>1 DEF GameToCome
  <2> QED
    BY <1>1, <2>1, <2>2, <2>3, ConfigureEpoch
<1>3. CASE NewGame
  <2> DEFINE c == [cfg EXCEPT !.needNewGame = TRUE]
  <2>1. /\ c \in Config /\ c.canApply = cfg.canApply /\ c.epoch = cfg.epoch
        /\ c.lastPosition = cfg.lastPosition /\ c.entries = cfg.entries
        /\ c.needNewGame
    BY <1>1 DEF Config
  <2>2. Configure(c) /\ game' = game + 1
    BY <1>3 DEF NewGame
  <2> HIDE DEF c
  <2>3. GameToCome(c) <= GameToCome(cfg) + 19
    BY <2>1 DEF GameToCome
  <2> QED
    BY <1>1, <2>1, <2>2, <2>3, ConfigureEpoch
<1>4. ASSUME NEW size \in HashSizes, SetHashSize(size) PROVE EpochInv'
  <2> DEFINE c == [cfg EXCEPT !.hashSize = size]
  <2>1. /\ c \in Config /\ c.canApply = cfg.canApply /\ c.epoch = cfg.epoch
        /\ c.lastPosition = cfg.lastPosition /\ c.entries = cfg.entries
        /\ c.needNewGame = cfg.needNewGame
    BY <1>1 DEF Config
  <2>2. Configure(c) /\ game' = game
    BY <1>4 DEF SetHashSize
  <2> HIDE DEF c
  <2>3. GameToCome(c) <= GameToCome(cfg) + 19
    BY <2>1 DEF GameToCome
  <2> QED
    BY <1>1, <2>1, <2>2, <2>3, ConfigureEpoch
<1>5. ASSUME NEW jobs \in JobCounts, SetNumJobs(jobs) PROVE EpochInv'
  <2> DEFINE c == [cfg EXCEPT !.numJobs = jobs]
  <2>1. /\ c \in Config /\ c.canApply = cfg.canApply /\ c.epoch = cfg.epoch
        /\ c.lastPosition = cfg.lastPosition /\ c.entries = cfg.entries
        /\ c.needNewGame = cfg.needNewGame
    BY <1>1 DEF Config
  <2>2. Configure(c) /\ game' = game
    BY <1>5 DEF SetNumJobs
  <2> HIDE DEF c
  <2>3. GameToCome(c) <= GameToCome(cfg) + 19
    BY <2>1 DEF GameToCome
  <2> QED
    BY <1>1, <2>1, <2>2, <2>3, ConfigureEpoch
<1> QED
  BY <1>2, <1>3, <1>4, <1>5

(* Steps that leave the configuration and what was handed over alone. *)
LEMMA QuietEpoch ==
  ASSUME IInv, EpochInv, UNCHANGED <<cfg, captured, game, raced>>,
         searches' \in Nat, requests' \in Nat, StartToCome' \in Nat,
         StartToCome' - StartToCome <= Moved(searches', requests') - Moved(searches, requests),
         mainPc' \in Closed \union {"created"} => mainPc \in Closed \union {"created"}
  PROVE  EpochInv'
<1>1. /\ cfg.epoch \in Nat /\ searches \in Nat /\ requests \in Nat
      /\ GameToCome(cfg) \in {0, 19} /\ StartToCome \in {0, 19}
      /\ Moved(searches, requests) \in Nat /\ Moved(searches', requests') \in Nat
  BY BoundsAssumption, MovedFacts DEF IInv, TypeOK, Config, GameToCome, StartToCome
<1>2. GameToCome(cfg)' = GameToCome(cfg)
  BY DEF GameToCome
<1>3. RoomInv'
  BY <1>1, <1>2 DEF EpochInv, RoomInv
<1>4. ~raced => (Told(cfg, captured) /\ LastIs(cfg, captured, game) /\ KnownInv)'
  BY DEF EpochInv, Told, LastIs, KnownInv
<1> QED
  BY <1>3, <1>4 DEF EpochInv

(* start() sets the position when the old main thread is gone, so that the   *)
(* configuration is open and no new game is pending.                         *)
LEMMA SpawnEpoch ==
  ASSUME IInv, EpochInv, Few, Spawn
  PROVE  EpochInv'
<1>1. /\ clientPc = "starting" /\ clientPc' = "idle" /\ mainPc = "none" /\ mainPc' = "created"
      /\ cfg' = SetPosition(cfg, next)
      /\ captured' = [position |-> next, jobCount |-> cfg.numJobs, game |-> game]
      /\ UNCHANGED <<next, game, raced, searches, requests>>
  BY DEF Spawn, IInv, StartInv, counters
<1>2. /\ cfg \in Config /\ next \in Positions /\ next # NoPosition
      /\ cfg.epoch \in Nat /\ searches \in Nat /\ requests \in Nat /\ EpochMod \in Nat \ {0}
  BY <1>1, BoundsAssumption, PositionsAssumption DEF IInv, TypeOK, Config
<1>3. ~cfg.needNewGame
  BY <1>1 DEF IInv, GateInv, NoRequestIsForgotten, Closed
<1>4. StartToCome = 19 /\ StartToCome' = 0 /\ GameToCome(cfg) = 0
  BY <1>1, <1>2, <1>3 DEF StartToCome, GameToCome
<1>5. cfg.epoch + 19 <= Moved(searches, requests) /\ Moved(searches, requests) \in Nat
  <2>1. Moved(searches, requests) \in Nat
    BY <1>2, MovedFacts
  <2> QED
    BY <1>2, <1>4, <2>1 DEF EpochInv, RoomInv
<1>6. cfg.epoch + 19 < EpochMod
  BY <1>2, <1>5 DEF Few
<1>7. PICK n : n = EpochFor(cfg, next)
  OBVIOUS
<1>8. /\ cfg.epoch <= n /\ n <= cfg.epoch + 19 /\ n \in Nat
      /\ n = cfg.epoch => cfg.lastPosition = NoPosition \/ cfg.lastPosition = next
  BY <1>2, <1>6, <1>7, EpochGrows, EpochType
<1>9. /\ cfg'.epoch = n /\ cfg'.lastPosition = next /\ cfg'.entries = cfg.entries
      /\ cfg'.needNewGame = cfg.needNewGame
  BY <1>1, <1>2, <1>7 DEF SetPosition, Config
<1>10. captured'.position = next /\ captured'.game = game
  BY <1>1
<1>11. GameToCome(cfg)' = 0
  BY <1>3, <1>9 DEF GameToCome
<1>12. RoomInv'
  BY <1>1, <1>2, <1>4, <1>5, <1>8, <1>9, <1>11 DEF RoomInv
<1>13. ASSUME ~raced'
       PROVE  Told(cfg, captured)' /\ LastIs(cfg, captured, game)' /\ KnownInv'
  <2>1. Told(cfg, captured) /\ LastIs(cfg, captured, game)
    BY <1>1, <1>13 DEF EpochInv
  <2>2. LastIs(cfg, captured, game)' /\ KnownInv'
    BY <1>1, <1>9, <1>10 DEF LastIs, KnownInv
  <2>3. ASSUME NEW e \in cfg.entries
        PROVE  e.epoch <= n /\ (e.epoch = n => e.position = next /\ e.game = game)
    <3>0. cfg.entries \subseteq Entry
      BY <1>2 DEF Config
    <3>1. e.epoch \in Nat /\ e.position \in Positions /\ e.position # NoPosition
      <4>1. e \in Entry
        BY <3>0
      <4>2. e.epoch \in Nat /\ e.position \in Positions
        BY <1>2, <4>1 DEF Entry
      <4> QED
        BY <4>2, PositionsAssumption
    <3>2. /\ e.epoch <= cfg.epoch
          /\ e.epoch = cfg.epoch => e.position = cfg.lastPosition /\ e.game = captured.game
      BY <2>1 DEF Told
    <3>3. e.epoch <= n
      BY <1>2, <1>8, <3>1, <3>2
    <3>4. ASSUME e.epoch = n PROVE e.position = next /\ e.game = game
      <4>1. n = cfg.epoch
        BY <1>2, <1>8, <3>1, <3>2, <3>4
      <4>2. e.position = cfg.lastPosition /\ cfg.lastPosition = next
        BY <1>8, <3>1, <3>2, <3>4, <4>1
      <4>3. captured.game = game
        BY <1>3, <2>1, <3>1, <4>2 DEF LastIs
      <4> QED
        BY <3>2, <3>4, <4>1, <4>2, <4>3
    <3> QED
      BY <3>3, <3>4
  <2>4. Told(cfg, captured)'
    BY <1>9, <1>10, <2>3 DEF Told
  <2> QED
    BY <2>2, <2>4
<1> QED
  BY <1>12, <1>13 DEF EpochInv

LEMMA ClientEpoch ==
  ASSUME IInv, IInv', EpochInv, Few,
         \/ \E enable \in BOOLEAN : SetDebugMode(enable)
         \/ Stop \/ Join \/ (\E p \in Positions : Start(p)) \/ JoinReturns
  PROVE  EpochInv'
<1> USE DEF history, counters, threadVars
<1>1. /\ searches \in Nat /\ requests \in Nat /\ searches' \in Nat /\ requests' \in Nat
      /\ Moved(searches, requests) \in Nat
      /\ Moved(searches + 1, requests) = Moved(searches, requests) + 19
      /\ Moved(searches, requests + 1) = Moved(searches, requests) + 19
  BY MovedFacts DEF IInv, TypeOK
<1>2. CASE \E enable \in BOOLEAN : SetDebugMode(enable)
  <2>1. /\ UNCHANGED <<cfg, captured, game, raced, clientPc, next, mainPc, searches>>
        /\ requests' = requests + 1
    BY <1>2 DEF SetDebugMode
  <2>2. StartToCome' = StartToCome /\ StartToCome \in {0, 19}
    BY <2>1 DEF StartToCome
  <2> QED
    BY <1>1, <2>1, <2>2, QuietEpoch
<1>3. CASE Stop
  <2>1. UNCHANGED <<cfg, captured, game, raced, clientPc, next, mainPc, searches, requests>>
    BY <1>3 DEF Stop
  <2>2. StartToCome' = StartToCome /\ StartToCome \in {0, 19}
    BY <2>1 DEF StartToCome
  <2> QED
    BY <1>1, <2>1, <2>2, QuietEpoch
<1>4. CASE Join
  <2>1. /\ UNCHANGED <<cfg, captured, game, raced, mainPc, searches, requests>>
        /\ next' = NoPosition
    BY <1>4 DEF Join, CallJoin
  <2>2. StartToCome' = 0 /\ StartToCome \in {0, 19}
    BY <2>1 DEF StartToCome
  <2> QED
    BY <1>1, <2>1, <2>2, QuietEpoch
<1>5. CASE \E p \in Positions : Start(p)
  <2>1. /\ UNCHANGED <<cfg, captured, game, raced, mainPc, requests>>
        /\ clientPc = "idle" /\ searches' = searches + 1
    BY <1>5 DEF Start, CallJoin
  <2>2. StartToCome' \in {0, 19} /\ StartToCome = 0
    BY <2>1 DEF StartToCome
  <2> QED
    BY <1>1, <2>1, <2>2, QuietEpoch
<1>6. CASE JoinReturns
  <2>1. /\ UNCHANGED <<cfg, captured, game, raced, next, searches, requests>>
        /\ clientPc = "joining" /\ mainPc' = "none"
        /\ clientPc' = IF next = NoPosition THEN "idle" ELSE "starting"
    BY <1>6 DEF JoinReturns
  <2>2. StartToCome' = StartToCome /\ StartToCome \in {0, 19}
    BY <2>1 DEF StartToCome
  <2>3. "none" \notin Closed \union {"created"}
    BY DEF Closed
  <2> QED
    BY <1>1, <2>1, <2>2, <2>3, QuietEpoch
<1> QED
  BY <1>2, <1>3, <1>4, <1>5, <1>6

LEMMA MainEpoch ==
  ASSUME IInv, IInv', EpochInv, Few, MainNext
  PROVE  EpochInv'
<1> USE DEF history, counters, threadVars, MainStep
<1>1. /\ cfg \in Config /\ cfg' \in Config /\ cfg.epoch \in Nat /\ cfg'.epoch \in Nat
      /\ searches \in Nat /\ requests \in Nat /\ EpochMod \in Nat \ {0}
  BY BoundsAssumption DEF IInv, TypeOK, Config
<1>0. Moved(searches, requests) \in Nat
  BY <1>1, MovedFacts
<1>2. UNCHANGED <<clientPc, next, captured, game, raced, searches, requests>>
  BY DEF MainNext, DisableReconfiguration, CreateJobsAndThreads, EndSearch, FinishSearch,
         CheckDebugMode, SendTime, EnableReconfiguration, MainOnly
<1>3. StartToCome' = StartToCome /\ StartToCome \in {0, 19} /\ GameToCome(cfg) \in {0, 19}
  BY <1>2 DEF StartToCome, GameToCome
<1>4. CASE DisableReconfiguration
  <2>1. /\ cfg'.epoch = cfg.epoch /\ cfg'.lastPosition = cfg.lastPosition
        /\ cfg'.entries = cfg.entries /\ cfg'.needNewGame = cfg.needNewGame
        /\ mainPc = "created"
    BY <1>1, <1>4 DEF DisableReconfiguration, Config
  <2>2. RoomInv'
    BY <1>2, <1>3, <2>1 DEF EpochInv, RoomInv, GameToCome
  <2>3. ~raced => (Told(cfg, captured) /\ LastIs(cfg, captured, game) /\ KnownInv)'
    BY <1>2, <2>1 DEF EpochInv, Told, LastIs, KnownInv
  <2> QED
    BY <1>2, <2>2, <2>3 DEF EpochInv
<1>5. CASE CreateJobsAndThreads /\ cfg.evaluators # captured.jobCount
  <2>1. UNCHANGED cfg /\ mainPc = "create"
    BY <1>5 DEF CreateJobsAndThreads
  <2>2. RoomInv' /\ "create" \in Closed
    BY <1>2, <1>3, <2>1 DEF EpochInv, RoomInv, Closed, GameToCome
  <2>3. ~raced => (Told(cfg, captured) /\ LastIs(cfg, captured, game) /\ KnownInv)'
    BY <1>2, <2>1, <2>2 DEF EpochInv, Told, LastIs, KnownInv
  <2> QED
    BY <1>2, <2>2, <2>3 DEF EpochInv
<1>6. CASE CreateJobsAndThreads /\ cfg.evaluators = captured.jobCount
  <2> DEFINE new == [position |-> captured.position, game |-> captured.game,
                     epoch |-> cfg.epoch]
  <2>1. new.position = captured.position /\ new.game = captured.game /\ new.epoch = cfg.epoch
    OBVIOUS
  <2>2. cfg' = [cfg EXCEPT !.entries = @ \union {new}] /\ mainPc = "create"
    BY <1>6 DEF CreateJobsAndThreads
  <2> HIDE DEF new
  <2>3. /\ cfg'.epoch = cfg.epoch /\ cfg'.lastPosition = cfg.lastPosition
        /\ cfg'.entries = cfg.entries \union {new} /\ cfg'.needNewGame = cfg.needNewGame
    BY <1>1, <2>2 DEF Config
  <2>4. RoomInv' /\ "create" \in Closed
    BY <1>2, <1>3, <2>3 DEF EpochInv, RoomInv, GameToCome, Closed
  <2>5. ASSUME ~raced
        PROVE  (Told(cfg, captured) /\ LastIs(cfg, captured, game) /\ KnownInv)'
    <3>1. Told(cfg, captured) /\ LastIs(cfg, captured, game) /\ KnownInv
      BY <2>5 DEF EpochInv
    <3>2. cfg.lastPosition = captured.position
      BY <2>2, <2>4, <3>1 DEF KnownInv
    <3>3. Told(cfg, captured)'
      BY <1>1, <1>2, <2>1, <2>3, <3>1, <3>2 DEF Told
    <3>4. LastIs(cfg, captured, game)' /\ KnownInv'
      BY <1>2, <2>3, <3>1, <3>2 DEF LastIs, KnownInv
    <3> QED
      BY <3>3, <3>4
  <2> QED
    BY <1>2, <2>4, <2>5 DEF EpochInv
<1>7. CASE EndSearch \/ FinishSearch \/ CheckDebugMode \/ SendTime
  <2>1. UNCHANGED cfg /\ mainPc \in Closed
    BY <1>7 DEF EndSearch, FinishSearch, CheckDebugMode, SendTime, MainOnly, Closed
  <2> QED
    BY <1>0, <1>1, <1>2, <1>3, <2>1, QuietEpoch
<1>8. CASE EnableReconfiguration
  <2> DEFINE c == [cfg EXCEPT !.canApply = TRUE]
  <2>1. /\ c \in Config /\ c.epoch = cfg.epoch /\ c.lastPosition = cfg.lastPosition
        /\ c.entries = cfg.entries /\ c.needNewGame = cfg.needNewGame
    BY <1>1 DEF Config
  <2>2. cfg' = TryApply(c) /\ mainPc' = "exited"
    BY <1>8 DEF EnableReconfiguration
  <2> HIDE DEF c
  <2>3. GameToCome(c) = GameToCome(cfg)
    BY <2>1 DEF GameToCome
  <2>4. c.epoch + GameToCome(c) < EpochMod
    BY <1>0, <1>1, <1>3, <2>1, <2>3 DEF EpochInv, RoomInv, Few
  <2>5. PICK d : d = TryApply(c)
    OBVIOUS
  <2>6. /\ d.epoch + GameToCome(d) <= c.epoch + GameToCome(c)
        /\ Told(c, captured) => Told(d, captured)
        /\ LastIs(c, captured, game) => LastIs(d, captured, game)
    BY <2>1, <2>4, <2>5, ApplyTold
  <2>7. cfg' = d /\ GameToCome(d) \in {0, 19}
    BY <2>2, <2>5 DEF GameToCome
  <2>8. RoomInv'
    BY <1>0, <1>1, <1>2, <1>3, <2>1, <2>3, <2>6, <2>7 DEF EpochInv, RoomInv
  <2>9. ~raced => (Told(cfg, captured) /\ LastIs(cfg, captured, game))'
    <3>1. Told(cfg, captured) => Told(c, captured)
      BY <2>1 DEF Told
    <3>2. LastIs(cfg, captured, game) => LastIs(c, captured, game)
      BY <2>1 DEF LastIs
    <3> QED
      BY <1>2, <2>6, <2>7, <3>1, <3>2 DEF EpochInv
  <2>10. KnownInv'
    BY <2>2 DEF KnownInv, Closed
  <2> QED
    BY <1>2, <2>8, <2>9, <2>10 DEF EpochInv
<1> QED
  BY <1>4, <1>5, <1>6, <1>7, <1>8 DEF MainNext

LEMMA FewerBefore ==
  ASSUME IInv, [Next]_vars, Few'
  PROVE  Few
<1>1. /\ searches \in Nat /\ requests \in Nat /\ EpochMod \in Nat
      /\ searches' \in {searches, searches + 1} /\ requests' \in {requests, requests + 1}
  BY BoundsAssumption
     DEF IInv, TypeOK, vars, counters, threadVars, Next, ClientNext, MainNext, ClearHash,
         NewGame, SetHashSize, SetNumJobs, Configure, SetDebugMode, Stop, Join, Start, CallJoin,
         JoinReturns, Spawn, DisableReconfiguration, CreateJobsAndThreads, EndSearch,
         FinishSearch, CheckDebugMode, SendTime, EnableReconfiguration, MainOnly
<1>2. /\ Moved(searches, requests) \in Nat /\ Moved(searches', requests') \in Nat
      /\ Moved(searches, requests) <= Moved(searches', requests')
  <2>1. /\ Moved(searches, requests) \in Nat
        /\ Moved(searches + 1, requests) = Moved(searches, requests) + 19
        /\ Moved(searches, requests + 1) = Moved(searches, requests) + 19
        /\ Moved(searches + 1, requests + 1) = Moved(searches + 1, requests) + 19
    BY <1>1, MovedFacts
  <2> QED
    BY <1>1, <2>1
<1> QED
  BY <1>1, <1>2 DEF Few

LEMMA NextEpoch == IInv /\ IInv' /\ (Few => EpochInv) /\ [Next]_vars => (Few => EpochInv)'
<1> SUFFICES ASSUME IInv, IInv', Few => EpochInv, [Next]_vars, Few' PROVE EpochInv'
  OBVIOUS
<1>1. Few /\ EpochInv
  BY FewerBefore
<1>2. CASE UNCHANGED vars
  BY <1>1, <1>2 DEF vars, threadVars, history, counters, EpochInv, RoomInv, StartToCome,
                    GameToCome, Told, LastIs, KnownInv
<1>3. CASE Next
  BY <1>1, <1>3, RequestEpoch, ClientEpoch, SpawnEpoch, MainEpoch DEF Next, ClientNext
<1> QED
  BY <1>2, <1>3

(* isCurrentEpoch() tells the entries of this search from older ones, from   *)
(* other positions and from other games, however the positions follow each   *)
(* other and whenever the client clears the table or begins a new game,      *)
(* unless a request slipped in between start() and disableReconfiguration(). *)
(* With an epoch of one byte this is so for any 13 searches and requests.    *)
THEOREM EpochsTellPositionsApart == Spec => [](Few => EpochIdentifiesPosition)
<1>1. Init => EpochInv
  <2> SUFFICES ASSUME Init PROVE EpochInv
    OBVIOUS
  <2>1. RoomInv
    BY DEF Init, RoomInv, StartToCome, GameToCome, Moved
  <2>2. Told(cfg, captured) /\ LastIs(cfg, captured, game) /\ KnownInv
    BY DEF Init, Told, LastIs, KnownInv
  <2> QED
    BY <2>1, <2>2 DEF EpochInv
<1>2. IInv /\ IInv' /\ (Few => EpochInv) /\ [Next]_vars => (Few => EpochInv)'
  BY NextEpoch
<1>3. IInv /\ (Few => EpochInv) => (Few => EpochIdentifiesPosition)
  BY DEF IInv, EpochInv, KnownInv, Told, EpochIdentifiesPosition, Closed
<1> QED
  BY <1>1, <1>2, <1>3, Invariance, PTL DEF Spec

-----------------------------------------------------------------------------
(* The session *)

Busy == searchStarted \/ mutex = Poller

TallyInv == searches = answered + (IF Busy THEN 1 ELSE 0)

GoInv ==
  mutex = Poller =>
    /\ ~searchStarted
    /\ clientPc = "joining" => ~Unanswered /\ next # NoPosition
    /\ clientPc = "idle" => Unanswered \/ mainPc = "panic"

QuitInv ==
  /\ session = "quitting" => clientPc = "idle"
  /\ session = "disconnecting" => clientPc = "joining" /\ next = NoPosition
  /\ session = "closed" => clientPc = "idle" /\ mainPc = "none"

SInv ==
  /\ SessionTypeOK /\ TallyInv /\ GoInv /\ QuitInv
  /\ StartedMeansRunning /\ NoCallIsRefused

-----------------------------------------------------------------------------
(* Every step of the session is a step of the runner, or none of its business. *)
LEMMA SessionStep == [SessionNext]_sessionVars => [Next]_vars
<1> USE DEF Next, ClientNext, MainNext
<1>1. CASE UNCHANGED sessionVars
  BY <1>1 DEF sessionVars
<1>2. CASE mainPc # "panic" /\ PollerNext
  <2>1. CASE UciNewGame \/ SetOption \/ StopCommand
    BY <1>2, <2>1 DEF UciNewGame, SetOption, StopCommand, Command
  <2>2. CASE DebugCommand
    BY <1>2, <2>2 DEF DebugCommand, Command
  <2>3. CASE \E p \in Positions : Go(p)
    BY <1>2, <2>3 DEF Go
  <2>4. CASE GoSpawn \/ Disconnect \/ JoinDone
    BY <1>2, <2>4 DEF GoSpawn, Disconnect, JoinDone
  <2>5. CASE GoReturn \/ Quit
    BY <2>5 DEF GoReturn, Quit
  <2> QED
    BY <1>2, <2>1, <2>2, <2>3, <2>4, <2>5 DEF PollerNext
<1>3. CASE mainPc # "panic" /\ RunnerNext
  BY <1>3 DEF RunnerNext, RunSearch, SendReport, AnswerSearch, SendTimeString
<1> QED
  BY <1>1, <1>2, <1>3 DEF SessionNext

(* A session behaves as a client of JobRunner: what holds of the runner for  *)
(* any sequence of calls holds in a session.                                 *)
THEOREM SessionDrivesRunner == SessionSpec => Spec
<1>1. SessionInit => Init
  BY DEF SessionInit
<1> QED
  BY <1>1, SessionStep, PTL DEF SessionSpec, Spec

-----------------------------------------------------------------------------
LEMMA SessionInitInv == SessionInit => SInv
<1> SUFFICES ASSUME SessionInit PROVE SInv
  OBVIOUS
<1>1. /\ mutex = Nobody /\ mutex # Poller /\ searchStarted = FALSE /\ session = "open"
      /\ answered = 0 /\ dropped = FALSE
      /\ searches = 0 /\ clientPc = "idle" /\ mainPc = "none"
  BY OwnersAssumption DEF SessionInit, Init
<1>2. SessionTypeOK
  BY <1>1 DEF SessionTypeOK
<1>3. ~Busy
  BY <1>1 DEF Busy
<1>4. TallyInv
  BY <1>1, <1>3 DEF TallyInv
<1>5. GoInv /\ QuitInv /\ StartedMeansRunning /\ NoCallIsRefused
  BY <1>1 DEF GoInv, QuitInv, StartedMeansRunning, Unanswered, NoCallIsRefused
<1> QED
  BY <1>2, <1>4, <1>5 DEF SInv

(* Commands that do not block leave the session as it is. *)
LEMMA CommandInv ==
  ASSUME IInv, SInv, UNCHANGED serverVars, UNCHANGED <<clientPc, mainPc, next, searches>>
  PROVE  SInv'
BY DEF SInv, SessionTypeOK, TallyInv, Busy, GoInv, QuitInv, StartedMeansRunning, Unanswered,
       NoCallIsRefused, serverVars

LEMMA GoBeginInv ==
  ASSUME IInv, SInv, NEW p \in Positions, Go(p), mainPc # "panic"
  PROVE  SInv'
<1> USE OwnersAssumption DEF Go, Start, CallJoin, Unanswered
<1>1. searches \in Nat /\ answered \in Nat /\ p # NoPosition
  BY PositionsAssumption DEF IInv, TypeOK, SInv, SessionTypeOK
<1>2. SessionTypeOK' /\ QuitInv' /\ NoCallIsRefused'
  BY <1>1 DEF SInv, SessionTypeOK, QuitInv, NoCallIsRefused
<1>3. TallyInv'
  BY <1>1 DEF SInv, TallyInv, Busy
<1>4. GoInv' /\ StartedMeansRunning'
  BY <1>1 DEF SInv, GoInv, StartedMeansRunning
<1> QED
  BY <1>2, <1>3, <1>4 DEF SInv

LEMMA GoEndInv ==
  ASSUME IInv, SInv, GoSpawn \/ GoReturn, mainPc # "panic"
  PROVE  SInv'
<1> USE OwnersAssumption DEF Unanswered
<1>1. CASE GoSpawn
  BY <1>1 DEF GoSpawn, Spawn, serverVars, counters, SInv, SessionTypeOK, TallyInv, Busy, GoInv,
              QuitInv, StartedMeansRunning, NoCallIsRefused
<1>2. CASE GoReturn
  BY <1>2 DEF GoReturn, vars, threadVars, counters, SInv, SessionTypeOK, TallyInv, Busy, GoInv,
              QuitInv, StartedMeansRunning, NoCallIsRefused
<1> QED
  BY <1>1, <1>2

LEMMA QuitStepInv ==
  ASSUME IInv, SInv, Quit \/ Disconnect \/ JoinDone, mainPc # "panic"
  PROVE  SInv'
<1> USE OwnersAssumption DEF Unanswered
<1>1. CASE Quit
  BY <1>1 DEF Quit, vars, threadVars, counters, SInv, SessionTypeOK, TallyInv, Busy, GoInv,
              QuitInv, StartedMeansRunning, NoCallIsRefused
<1>2. CASE Disconnect
  BY <1>2 DEF Disconnect, Join, CallJoin, counters, SInv, SessionTypeOK, TallyInv, Busy, GoInv,
              QuitInv, StartedMeansRunning, NoCallIsRefused
<1>3. CASE JoinDone
  BY <1>3 DEF JoinDone, JoinReturns, counters, SInv, SessionTypeOK, TallyInv, Busy, GoInv,
              QuitInv, StartedMeansRunning, NoCallIsRefused
<1> QED
  BY <1>1, <1>2, <1>3

LEMMA RunnerStepInv ==
  ASSUME IInv, SInv, RunnerNext, mainPc # "panic"
  PROVE  SInv'
<1> USE OwnersAssumption DEF Unanswered
<1>1. CASE SendReport
  BY <1>1 DEF SendReport, vars, threadVars, counters, SInv, SessionTypeOK, TallyInv, Busy, GoInv,
              QuitInv, StartedMeansRunning, NoCallIsRefused
<1>2. CASE AnswerSearch
  <2>1. answered \in Nat /\ searches \in Nat
    BY DEF IInv, TypeOK, SInv, SessionTypeOK
  <2>2. /\ mutex = Nobody /\ mainPc = "finish" /\ mainPc' = "finished" /\ searchStarted
        /\ UNCHANGED <<clientPc, next, searches, mutex, session, dropped>>
        /\ answered' = answered + 1 /\ searchStarted' = FALSE
    BY <1>2 DEF AnswerSearch, FinishSearch, MainStep, MainOnly, counters, SInv,
                StartedMeansRunning
  <2>3. TallyInv'
    BY <2>1, <2>2 DEF SInv, TallyInv, Busy
  <2>4. mutex' # Poller
    BY <2>2
  <2>5. SessionTypeOK'
    <3>1. searchStarted' \in BOOLEAN
      BY <2>2, Zenon
    <3>2. answered' \in Nat
      BY <2>1, <2>2
    <3>3. UNCHANGED <<clientPc, mutex, session, dropped>>
      BY <2>2
    <3> QED
      BY <3>1, <3>2, <3>3 DEF SInv, SessionTypeOK
  <2>6. GoInv' /\ QuitInv' /\ StartedMeansRunning' /\ NoCallIsRefused'
    BY <2>2, <2>4 DEF SInv, GoInv, QuitInv, StartedMeansRunning, NoCallIsRefused
  <2> QED
    BY <2>3, <2>5, <2>6 DEF SInv
<1>3. CASE SendTimeString
  BY <1>3 DEF SendTimeString, SendTime, MainStep, MainOnly, serverVars, counters, SInv,
              SessionTypeOK, TallyInv, Busy, GoInv, QuitInv, StartedMeansRunning,
              NoCallIsRefused
<1>4. CASE RunSearch
  <2>1. /\ UNCHANGED <<clientPc, next, searches>> /\ UNCHANGED serverVars
        /\ mainPc' = "panic" \/ (mainPc' \in {"created", "create", "searching", "finish"}
                                <=> mainPc \in {"created", "create", "searching", "finish"})
        /\ mainPc # "none"
    BY <1>4 DEF RunSearch, DisableReconfiguration, CreateJobsAndThreads, EndSearch,
                CheckDebugMode, EnableReconfiguration, MainStep, MainOnly, counters
  <2> QED
    BY <2>1 DEF serverVars, SInv, SessionTypeOK, TallyInv, Busy, GoInv, QuitInv,
                StartedMeansRunning, NoCallIsRefused
<1> QED
  BY <1>1, <1>2, <1>3, <1>4 DEF RunnerNext

LEMMA SessionNextInv == IInv /\ SInv /\ [SessionNext]_sessionVars => SInv'
<1> SUFFICES ASSUME IInv, SInv, [SessionNext]_sessionVars PROVE SInv'
  OBVIOUS
<1>1. CASE UNCHANGED sessionVars
  BY <1>1, CommandInv DEF sessionVars, vars, threadVars, counters
<1>2. CASE mainPc # "panic" /\ (UciNewGame \/ SetOption \/ DebugCommand \/ StopCommand)
  <2>1. UNCHANGED <<clientPc, mainPc, next, searches>> /\ UNCHANGED serverVars
    BY <1>2 DEF UciNewGame, SetOption, DebugCommand, StopCommand, Command, NewGame, ClearHash,
                SetHashSize, SetNumJobs, Configure, SetDebugMode, Stop, threadVars, counters
  <2> QED
    BY <2>1, CommandInv
<1> QED
  BY <1>1, <1>2, GoBeginInv, GoEndInv, QuitStepInv, RunnerStepInv DEF SessionNext, PollerNext

(* The inductive invariant of the session, beside that of the runner. *)
THEOREM SessionInvariance == SessionSpec => [](IInv /\ SInv)
<1>1. SessionInit => IInv /\ SInv
  BY InitInv, SessionInitInv DEF SessionInit
<1>2. IInv /\ SInv /\ [SessionNext]_sessionVars => (IInv /\ SInv)'
  BY NextInv, SessionStep, SessionNextInv
<1> QED
  BY <1>1, <1>2, PTL DEF SessionSpec

-----------------------------------------------------------------------------
(* The engine never reports outside a search, even when the search is over   *)
(* before "go" has returned.                                                 *)
THEOREM CallsAreExpected == SessionSpec => []NoCallIsRefused
<1>1. SInv => NoCallIsRefused
  BY DEF SInv
<1> QED
  BY <1>1, SessionInvariance, PTL

(* searchStarted_ is set exactly while an answer is due. *)
THEOREM FlagIsTrue == SessionSpec => []StartedMeansRunning
<1>1. SInv => StartedMeansRunning
  BY DEF SInv
<1> QED
  BY <1>1, SessionInvariance, PTL

LEMMA ServiceStep ==
  ASSUME IInv, SInv, [SessionNext]_sessionVars
  PROVE  [Service!Next]_(Service!vars)
<1> USE DEF Service!Next, Service!vars, Service!Busy
<1>1. searches \in Nat /\ answered \in Nat /\ TallyInv
  BY DEF IInv, TypeOK, SInv, SessionTypeOK
<1>2. CASE UNCHANGED <<searches, answered, session>>
  BY <1>2
<1>3. CASE mainPc # "panic" /\ \E p \in Positions : Go(p)
  <2>1. mutex = Nobody /\ ~searchStarted /\ session = "open"
    BY <1>3 DEF Go
  <2>2. searches' = searches + 1 /\ UNCHANGED <<answered, session>>
    BY <1>3 DEF Go, Start
  <2>3. searches = answered
    BY <1>1, <2>1, OwnersAssumption DEF TallyInv, Busy
  <2>4. Service!Ask
    BY <2>1, <2>2, <2>3 DEF Service!Ask
  <2> QED
    BY <2>4
<1>4. CASE mainPc # "panic" /\ AnswerSearch
  <2>1. searchStarted /\ session # "closed"
    BY <1>4 DEF AnswerSearch, FinishSearch, MainStep, SInv, StartedMeansRunning, Unanswered,
                QuitInv
  <2>2. answered' = answered + 1 /\ UNCHANGED <<searches, session>>
    BY <1>4, <2>1 DEF AnswerSearch, FinishSearch, MainOnly, counters
  <2>3. searches = answered + 1
    BY <1>1, <2>1 DEF TallyInv, Busy
  <2>4. Service!Answer
    BY <1>1, <2>1, <2>2, <2>3 DEF Service!Answer
  <2> QED
    BY <2>4
<1>5. CASE mainPc # "panic" /\ JoinDone
  <2>1. CASE session # "disconnecting"
    BY <1>2, <1>5, <2>1 DEF JoinDone, JoinReturns, counters
  <2>2. CASE session = "disconnecting"
    <3>1. mutex # Poller /\ ~searchStarted
      BY <1>5, <2>2, OwnersAssumption
         DEF JoinDone, JoinReturns, SInv, SessionTypeOK, StartedMeansRunning, Unanswered
    <3>2. session' = "closed" /\ UNCHANGED <<searches, answered>>
      BY <1>5, <2>2 DEF JoinDone, JoinReturns, counters
    <3>3. searches = answered
      BY <1>1, <3>1 DEF TallyInv, Busy
    <3>4. Service!Close
      BY <2>2, <3>2, <3>3 DEF Service!Close
    <3> QED
      BY <3>4
  <2> QED
    BY <2>1, <2>2
<1>6. CASE mainPc # "panic" /\ (UciNewGame \/ SetOption \/ DebugCommand \/ StopCommand)
  <2>1. UNCHANGED <<searches, answered, session>>
    BY <1>6 DEF UciNewGame, SetOption, DebugCommand, StopCommand, Command, NewGame, ClearHash,
                SetHashSize, SetNumJobs, Configure, SetDebugMode, Stop, threadVars, counters,
                serverVars
  <2> QED
    BY <1>2, <2>1
<1>7. CASE mainPc # "panic" /\ (GoSpawn \/ GoReturn)
  BY <1>2, <1>7 DEF GoSpawn, Spawn, GoReturn, vars, counters, serverVars
<1>8. CASE mainPc # "panic" /\ (Quit \/ Disconnect)
  <2>1. UNCHANGED <<searches, answered>> /\ session # "closed" /\ session' # "closed"
    BY <1>8 DEF Quit, Disconnect, Join, CallJoin, vars, counters
  <2> QED
    BY <2>1
<1>9. CASE mainPc # "panic" /\ (RunSearch \/ SendReport \/ SendTimeString)
  <2>1. UNCHANGED <<searches, answered, session>>
    BY <1>9 DEF RunSearch, DisableReconfiguration, CreateJobsAndThreads, EndSearch,
                CheckDebugMode, EnableReconfiguration, MainOnly, SendReport, SendTimeString,
                SendTime, vars, counters, serverVars
  <2> QED
    BY <1>2, <2>1
<1>10. CASE UNCHANGED sessionVars
  BY <1>2, <1>10 DEF sessionVars, vars, counters, serverVars
<1> QED
  BY <1>3, <1>4, <1>5, <1>6, <1>7, <1>8, <1>9, <1>10 DEF SessionNext, PollerNext, RunnerNext

(* The session implements the service: every accepted "go" is answered once, *)
(* before the next one and before the client is gone.                        *)
THEOREM SessionImplementsService == SessionSpec => ImplementsService
<1>1. SessionInit => Service!Init
  BY DEF SessionInit, Init, Service!Init
<1>2. IInv /\ SInv /\ [SessionNext]_sessionVars => [Service!Next]_(Service!vars)
  BY ServiceStep
<1> QED
  BY <1>1, <1>2, SessionInvariance, PTL DEF SessionSpec, ImplementsService, Service!Spec

-----------------------------------------------------------------------------
(* The limit of a search that is asked for with clocks *)

(* From 77 moves on, the hard margin no longer grows with them. *)
LEMMA MarginsInMilliseconds ==
  ASSUME NEW moves \in 1..1000
  PROVE  /\ HardMargin(moves) \in Nat /\ SoftMargin(moves) \in Nat
         /\ moves <= 76 => HardMargin(moves) = 20 + 3 * moves
         /\ moves > 76 => HardMargin(moves) = 250
         /\ SoftMargin(moves) >= HardMargin(moves)
BY DEF HardMargin, SoftMargin, Lesser, HardTimeMargin, SoftTimeMargin, MinTimeMargin,
         HardTimeMarginPerMove, SoftTimeMarginPerMove

(* The limit leaves the hard margin on the clock, unless it is minimal. *)
LEMMA ThinkingTimeKeepsMargin ==
  ASSUME NEW moves \in 1..1000, NEW number \in Nat, NEW time \in Nat, NEW inc \in Nat
  PROVE  /\ ThinkingTime(number, time, inc, moves) \in Nat
         /\ time <= HardMargin(moves) => ThinkingTime(number, time, inc, moves) = 1
         /\ \/ ThinkingTime(number, time, inc, moves) <= 2
            \/ ThinkingTime(number, time, inc, moves) <= time - HardMargin(moves)
<1>1. HardMargin(moves) \in Nat /\ SoftMargin(moves) \in Nat
  BY MarginsInMilliseconds, ZenonT(60)
<1>2. MovesLeft(number, moves) \in Nat
  BY DEF MovesLeft, Lesser, MaxMovesLeft
<1>3. (time - SoftMargin(moves)) \div (MovesLeft(number, moves) + 1) \in Int
  BY <1>1, <1>2
<1> DEFINE q == (time - SoftMargin(moves)) \div (MovesLeft(number, moves) + 1)
<1> HIDE DEF q
<1>4. Share(number, time, moves) = Greater(2, q) /\ q \in Int
  BY <1>3 DEF Share, q
<1>5. Share(number, time, moves) \in Nat
  BY <1>4 DEF Greater
<1> QED
  BY <1>1, <1>5, MarginsInMilliseconds DEF ThinkingTime, Greater, Lesser

(* Either way a move leaves 3 milliseconds for each of the others. *)
LEMMA TimeLasts ==
  ASSUME NEW moves \in 1..83, NEW number \in Nat, NEW time \in Nat, NEW inc \in Nat,
         NEW lag \in 0..2, EnoughTime(moves, time)
  PROVE  EnoughTime(moves - 1, time - (ThinkingTime(number, time, inc, moves) + lag))
<1> DEFINE limit == ThinkingTime(number, time, inc, moves)
           hard == HardMargin(moves)
<1>1. moves \in 1..1000
  OBVIOUS
<1>2. /\ hard \in Nat
      /\ moves <= 76 => hard = 20 + 3 * moves
      /\ moves > 76 => hard = 250
  BY <1>1, MarginsInMilliseconds
<1>3. /\ limit \in Nat
      /\ time <= hard => limit = 1
      /\ limit <= 2 \/ limit <= time - hard
  BY <1>1, ThinkingTimeKeepsMargin, ZenonT(60)
<1>4. time > 3 * moves
  BY DEF EnoughTime, HardTimeMarginPerMove
<1> HIDE DEF limit, hard
<1>5. time - (limit + lag) > 3 * (moves - 1)
  <2>1. CASE time <= hard
    BY <1>3, <1>4, <2>1
  <2>2. CASE time > hard /\ limit <= 2
    BY <1>2, <1>3, <2>2
  <2>3. CASE time > hard /\ limit <= time - hard
    BY <1>2, <1>3, <2>3
  <2> QED
    BY <1>2, <1>3, <2>1, <2>2, <2>3
<1> QED
  BY <1>5 DEF EnoughTime, HardTimeMarginPerMove, limit

(* The clock lasts to the next time control: while there are 3 milliseconds   *)
(* on it for each move, a move that takes the engine's limit and a lag of up  *)
(* to 2 milliseconds leaves 3 for each of the others, whatever the increment  *)
(* and the share of the move are.  With more than 83 moves to go the margin   *)
(* is no longer enough for all of them.                                       *)
THEOREM ClockLasts ==
  ASSUME NEW board, NEW timeControl, NEW lag \in 0..2,
         board.moveNumber \in Nat, timeControl.movesToGo \in 1..83,
         timeControl.clock[board.side].time \in Nat,
         timeControl.clock[board.side].inc \in Nat,
         EnoughTime(timeControl.movesToGo, timeControl.clock[board.side].time)
  PROVE  EnoughTime(timeControl.movesToGo - 1,
                    timeControl.clock[board.side].time
                      - (CalculateMaxTime(board, timeControl) + lag))
<1> DEFINE time == timeControl.clock[board.side].time
           inc == timeControl.clock[board.side].inc
           moves == timeControl.movesToGo
           number == board.moveNumber
<1>1. time # Unset
  BY DEF Unset
<1>2. Lesser(MaxMovesToGo, moves) = moves
  BY DEF Lesser, MaxMovesToGo
<1>3. CalculateMaxTime(board, timeControl) = ThinkingTime(number, time, inc, moves)
  BY <1>1, <1>2 DEF CalculateMaxTime
<1>4. number \in Nat /\ time \in Nat /\ inc \in Nat /\ moves \in 1..83
      /\ EnoughTime(moves, time)
  OBVIOUS
<1> HIDE DEF time, inc, moves, number
<1>5. EnoughTime(moves - 1, time - (ThinkingTime(number, time, inc, moves) + lag))
  BY <1>4, TimeLasts
<1> QED
  BY <1>3, <1>5 DEF time, moves
=============================================================================
