---------------------------- MODULE UciSession ----------------------------
(***************************************************************************)
(* A UCI session (bot_api/clients/uci.cpp) over the engine                 *)
(* (search/search.cpp) and its JobRunner.                                  *)
(*                                                                         *)
(* The poll thread is the client thread of JobRunner: it reads a command,  *)
(* takes mutex_ for as long as the command lasts and calls the runner.     *)
(* The main thread of the runner calls the server back under the same      *)
(* mutex.  A command that does not block is one step; "go" blocks in       *)
(* join(), so it is split.  Refused commands (a second "go", a "stop" with *)
(* no search) and commands that only print change no state.  Output to the *)
(* GUI does not fail.                                                      *)
(***************************************************************************)
EXTENDS JobRunner

CONSTANTS
  Nobody, Poller   \* owners of mutex_: free, or held by the poll thread

ASSUME OwnersAssumption == Nobody # Poller

VARIABLES
  mutex,          \* mutex_ : its owner; the runner's own calls are single steps
  searchStarted,  \* searchStarted_
  session,        \* "open", "quitting" (poll loop left), "disconnecting", "closed"
  answered,       \* history: "bestmove" lines printed
  dropped         \* history: server calls refused as UnexpectedCall

serverVars == <<mutex, searchStarted, session, answered, dropped>>
sessionVars == <<vars, serverVars>>

-----------------------------------------------------------------------------
(* Commands *)

(* A command that takes mutex_, calls the runner once and returns. *)
Command(call) ==
  /\ session = "open"
  /\ mutex = Nobody
  /\ call
  /\ UNCHANGED serverVars

UciNewGame == Command(NewGame)

SetOption ==
  \/ Command(ClearHash)
  \/ \E size \in HashSizes : Command(SetHashSize(size))
  \/ \E jobs \in JobCounts : Command(SetNumJobs(jobs))

DebugCommand ==
  \E enable \in BOOLEAN : enable # debug /\ Command(SetDebugMode(enable))

StopCommand == searchStarted /\ Command(Stop)

(* processUciGo(): refused if a search is started, otherwise the poll thread *)
(* enters start() with the mutex in its hands.                               *)
Go(p) ==
  /\ session = "open"
  /\ mutex = Nobody
  /\ ~searchStarted
  /\ Start(p)
  /\ mutex' = Poller
  /\ UNCHANGED <<searchStarted, session, answered, dropped>>

(* Mutant: the mutex is released before searchStarted_ is set. *)
SpawnAndRelease ==
  /\ Spawn
  /\ mutex' = Nobody
  /\ UNCHANGED <<searchStarted, session, answered, dropped>>

GoSpawn == Spawn /\ UNCHANGED serverVars

(* doStartSearch() after start() has returned. *)
GoReturn ==
  /\ mutex = Poller /\ clientPc = "idle"
  /\ searchStarted' = TRUE
  /\ mutex' = Nobody
  /\ UNCHANGED <<vars, session, answered, dropped>>

(* "quit" or the end of the input: the poll loop ends. *)
Quit ==
  /\ session = "open"
  /\ mutex = Nobody /\ clientPc = "idle"
  /\ session' = "quitting"
  /\ UNCHANGED <<vars, mutex, searchStarted, answered, dropped>>

(* Mutant: the engine is disconnected without join(). *)
DisconnectAtOnce ==
  /\ session = "quitting"
  /\ session' = "closed"
  /\ UNCHANGED <<vars, mutex, searchStarted, answered, dropped>>

(* Mutant: the engine is disconnected by the "quit" command, under the mutex. *)
DisconnectLocked ==
  /\ session = "quitting"
  /\ Join
  /\ session' = "disconnecting"
  /\ mutex' = Poller
  /\ UNCHANGED <<searchStarted, answered, dropped>>

(* Engine::disconnect(): join(), without the mutex. *)
Disconnect ==
  /\ session = "quitting"
  /\ Join
  /\ session' = "disconnecting"
  /\ UNCHANGED <<mutex, searchStarted, answered, dropped>>

(* join() has returned, to "go" or to disconnect(). *)
JoinDone ==
  /\ JoinReturns
  /\ session' = IF session = "disconnecting" THEN "closed" ELSE session
  /\ UNCHANGED <<mutex, searchStarted, answered, dropped>>

-----------------------------------------------------------------------------
(* Calls of the main thread *)

(* sendResult(), sendNodeCount(), sendHashHits() *)
SendReport ==
  /\ mainPc = "searching"
  /\ mutex = Nobody
  /\ dropped' = IF searchStarted THEN dropped ELSE TRUE
  /\ UNCHANGED <<vars, mutex, searchStarted, session, answered>>

(* Mutant: the answer is sent, but the search is not marked as finished. *)
AnswerAndStayStarted ==
  /\ FinishSearch
  /\ mutex = Nobody
  /\ IF searchStarted
     THEN answered' = answered + 1 /\ UNCHANGED <<searchStarted, dropped>>
     ELSE dropped' = TRUE /\ UNCHANGED <<answered, searchStarted>>
  /\ UNCHANGED <<mutex, session>>

(* finishSearch() *)
AnswerSearch ==
  /\ FinishSearch
  /\ mutex = Nobody
  /\ IF searchStarted
     THEN answered' = answered + 1 /\ searchStarted' = FALSE /\ UNCHANGED dropped
     ELSE dropped' = TRUE /\ UNCHANGED <<answered, searchStarted>>
  /\ UNCHANGED <<mutex, session>>

(* sendString() in debug mode; it does not look at searchStarted_. *)
SendTimeString == SendTime /\ mutex = Nobody /\ UNCHANGED serverVars

(* What the main thread does without the server. *)
RunSearch ==
  /\ \/ DisableReconfiguration \/ CreateJobsAndThreads \/ EndSearch
     \/ CheckDebugMode \/ EnableReconfiguration
  /\ UNCHANGED serverVars

-----------------------------------------------------------------------------
SessionInit ==
  /\ Init
  /\ mutex = Nobody /\ searchStarted = FALSE /\ session = "open"
  /\ answered = 0 /\ dropped = FALSE

PollerNext ==
  \/ UciNewGame \/ SetOption \/ DebugCommand \/ StopCommand
  \/ \E p \in Positions : Go(p)
  \/ GoSpawn \/ GoReturn
  \/ Quit \/ Disconnect \/ JoinDone

RunnerNext == RunSearch \/ SendReport \/ AnswerSearch \/ SendTimeString

SessionNext == mainPc # "panic" /\ (PollerNext \/ RunnerNext)

SessionSpec == SessionInit /\ [][SessionNext]_sessionVars

(* The poll thread finishes what it has begun, the main thread runs on, and  *)
(* a search that is stopped ends.  The calls under mutex_ get their turn     *)
(* because the poll thread sits in getline() with the mutex released.        *)
SessionFairness ==
  /\ WF_sessionVars(SessionNext /\ (JoinDone \/ GoSpawn \/ GoReturn \/ Disconnect))
  /\ WF_sessionVars(SessionNext /\ RunSearch /\ mainPc # "searching")
  /\ WF_sessionVars(SessionNext /\ RunSearch /\ stopped)
  /\ SF_sessionVars(SessionNext /\ (AnswerSearch \/ SendTimeString))

FairSessionSpec == SessionSpec /\ SessionFairness

-----------------------------------------------------------------------------
(* Properties *)

SessionTypeOK ==
  /\ mutex \in {Nobody, Poller}
  /\ searchStarted \in BOOLEAN
  /\ session \in {"open", "quitting", "disconnecting", "closed"}
  /\ answered \in Nat
  /\ dropped \in BOOLEAN
  /\ mutex = Poller => session = "open"
  /\ clientPc # "idle" => mutex = Poller \/ session = "disconnecting"

Service == INSTANCE SearchService
  WITH asked <- searches, answered <- answered, closed <- session = "closed"

(* The session implements the service: an accepted "go" is answered by one   *)
(* "bestmove", before the next "go" is accepted and before the client is     *)
(* gone, whether the search ends by itself, by "stop" or by "quit".          *)
ImplementsService == Service!Spec

(* The comments in bot_api/server.h: the engine reports only during the      *)
(* search, so no call of the main thread is refused as unexpected - even if  *)
(* the search is over before "go" has returned.                              *)
NoCallIsRefused == ~dropped

(* searchStarted_ tells the truth: between commands it is set exactly while  *)
(* the main thread has not answered.                                         *)
Unanswered == mainPc \in {"created", "create", "searching", "finish"}

StartedMeansRunning ==
  mutex = Nobody /\ mainPc # "panic" => (searchStarted <=> Unanswered)

(* "stop" brings the answer. *)
StopIsAnswered ==
  searchStarted /\ stopped ~> ~searchStarted \/ mainPc = "panic"

(* "quit" ends the session, in the middle of a search and in debug mode too. *)
QuitEnds == session = "quitting" ~> session = "closed" \/ mainPc = "panic"

(* "go" returns to the poll loop as long as nobody turns the debug mode on. *)
GoReturnsWithoutDebug ==
  []~debug => (mutex = Poller ~> mutex = Nobody \/ mainPc = "panic")

(* Starting a search must not block the poll thread (bot_api/client.h): it   *)
(* never waits for a main thread that waits for the mutex it holds.          *)
GoDoesNotBlock == ~(mutex = Poller /\ clientPc = "joining" /\ mainPc = "sendTime")
=============================================================================
