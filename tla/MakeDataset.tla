---------------------------- MODULE MakeDataset ----------------------------
(***************************************************************************)
(* The whole of make_dataset: the reader of game sets feeds the boards of  *)
(* each game to the threads of Dataset.  processGameSet() stops at the end *)
(* of the file or at the first game it cannot use; in either case it       *)
(* finishes the consumers before it returns.                               *)
(***************************************************************************)
EXTENDS Dataset, GameSet

CONSTANT Files    \* the files to read

ASSUME FilesAssumption == Files \subseteq Seq(Lines)

(* No value of lastBoard_ is no board. *)
ASSUME NoBoardAssumption == NoBoard \notin [from : Nat, moves : Seq(MoveKinds)]

VARIABLES
  file,          \* the lines of the input
  filterBoards,  \* not option "all"
  reader,        \* GameReader
  games,         \* count_ of GameConsumer
  pending,       \* the rows of the current game that consume() has still to pass on
  result,        \* of processGameSet(): "none" until it is known
  rows           \* history: the rows in the order they were passed on

readerVars == <<file, filterBoards, reader, games, pending, result, rows>>
programVars == <<datasetVars, readerVars>>

ProgramInit ==
  /\ Init
  /\ file \in Files /\ filterBoards \in BOOLEAN
  /\ reader = NewReader
  /\ games = 0
  /\ pending = <<>> /\ rows = <<>>
  /\ result = "none"

-----------------------------------------------------------------------------
(* processGameSet() and GameConsumer::consume() *)

Line == LineAfter(reader.line, file)

(* The reader is asked for something: the rows of the last game are passed on. *)
Reads(phase) ==
  /\ At(Main, "reading")
  /\ pending = <<>> /\ result = "none"
  /\ reader.phase = phase
  /\ UNCHANGED <<datasetVars, file, filterBoards, rows>>

OpenFile ==
  /\ Reads("opening")
  /\ reader' = ReadFirst(reader, Line)
  /\ UNCHANGED <<games, pending, result>>

NextGame ==
  /\ Reads("idle")
  /\ reader' = BeginGame(reader)
  /\ result' = CASE reader'.phase = "reading" -> "none"
                 [] reader'.command.kind = "endOfStream" -> "ok"
                 [] reader'.command.kind = "error" -> "error"
  /\ UNCHANGED <<games, pending>>

(* A game ends at the next one, or at the end of the file. *)
ReadCommand ==
  /\ Reads("reading")
  /\ reader' = ReadInner(reader, Line)
  /\ \/ /\ reader'.phase = "reading"
        /\ UNCHANGED <<games, pending, result>>
     \/ /\ reader'.phase = "idle"
        /\ reader'.command.kind # "error"
        /\ CanConsume(reader'.game)
        /\ games' = games + 1
        /\ pending' = Rows(reader'.game, reader'.captured, games', filterBoards)
        /\ UNCHANGED result
     \/ /\ reader'.phase = "idle"
        /\ reader'.command.kind = "error" \/ ~CanConsume(reader'.game)
        /\ result' = "error"
        /\ UNCHANGED <<games, pending>>

PassRow ==
  /\ pending # <<>>
  /\ ReadBoard
  /\ pending' = Tail(pending)
  /\ rows' = Append(rows, Head(pending))
  /\ UNCHANGED <<file, filterBoards, reader, games, result>>

FinishConsumers ==
  /\ result # "none"
  /\ EndOfInput
  /\ UNCHANGED readerVars

(* What the main thread does before it reads and after it has read. *)
Aside ==
  \/ PutHeader \/ FeedSample \/ DrainLastBatch
  \/ CloseBoards \/ JoinWorkers \/ JoinPrinter

ThreadsNext ==
  \/ PrinterNext
  \/ (\E w \in Workers : WorkerNext(w))
  \/ (\E t \in Threads : InQueue(t))
  \/ Wakeup \/ Done

ProgramMain ==
  OpenFile \/ NextGame \/ ReadCommand \/ PassRow \/ FinishConsumers \/ (Aside /\ UNCHANGED readerVars)

ProgramNext == ProgramMain \/ (ThreadsNext /\ UNCHANGED readerVars)

(* Every thread runs on. *)
ProgramSpec ==
  /\ ProgramInit /\ [][ProgramNext]_programVars
  /\ WF_programVars(ProgramMain)
  /\ WF_programVars(PrinterNext /\ UNCHANGED readerVars)
  /\ \A w \in Workers : WF_programVars(WorkerNext(w) /\ UNCHANGED readerVars)
  /\ \A t \in Threads : WF_programVars(InQueue(t) /\ UNCHANGED readerVars)

-----------------------------------------------------------------------------
(* Properties *)

(* Where the rows of game number n are. *)
RowsOf(n) == {k \in DOMAIN rows : rows[k].gameId = n}

(* What docs/gameset.md says of a file is what the program does with it: it   *)
(* fails exactly on files that are broken or not canonical, the boards it     *)
(* gets out are those of the games before the failure, all of them if nothing *)
(* is filtered, each with the game's winner and its distance from the end.    *)
ReaderFollowsFormat ==
  pc[Main] = "done" =>
    /\ (result = "ok") = IsUsable(file)
    /\ games = Cardinality(UsableGames(file))
    /\ \A k \in DOMAIN rows : rows[k].gameId \in 1..games
    /\ \A i \in UsableGames(file) :
          LET own == RowsOf(Cardinality({j \in UsableGames(file) : j <= i}))
              total == BoardsIn(file, i)
          IN  /\ \A k \in own :
                    /\ rows[k].winner = file[i].winner
                    /\ rows[k].total = total
                    /\ rows[k].left = total - 1 - Len(rows[k].board.moves)
              /\ ~filterBoards => Cardinality(own) = total
              /\ \A k, m \in own : k < m => rows[m].left < rows[k].left

(* run() returns, whatever the file. *)
ProgramReturns == <>(pc[Main] = "done")
=============================================================================
