# Verification of SoFCheck

SoFCheck is a chess engine in C++: a library of board, moves and move
generation, an evaluation with tunable weights, a parallel search with a shared
transposition table, a UCI front end, and tools that read recorded games and
make data sets of them. This directory holds TLA+ models of the parts in which
threads, callbacks and shared state meet and of the chess core the rest stands
on, the TLC runs that check them on small instances, and theorems with proofs
checked by TLAPS.

Paths below are those of the repository's `src/` directory; `gen/` and
`selftest/` are the directories of these names beside it.

## 1. Inventory

| Part | State | Operations | Hard because of |
|---|---|---|---|
| Job communication, `search/private/job.{h,cpp}` | `JobCommunicator`: depth, stopped flag, published lines, mutex, condition variable | `stop`, `finishDepth`, `addLine`, `extractLines`, `waitForEvent`, `checkTimeout`, `reset` | every job, the main loop and the client call it at once; notifications after unlocking |
| Main loop, `JobRunner::MainThread` in `search/private/job_runner.cpp` | jobs, threads, best move and depth, statistics | main loop, limits, join, answer | lines arrive late and out of order; limits nobody else looks at |
| Job runner, `search/private/job_runner.{h,cpp}` | evaluators, table, deferred requests, "may apply" flag, last position, main thread | `start`, `stop`, `join`, `newGame`, `clearHash`, `setHashSize`, `setNumJobs`, `setDebugMode` | requests at any time of a search that must not see them |
| Search tree, `Searcher` in `job.cpp`, move pickers, killers, repetition table | frames, history, repetition set, node counter | `search`, `doSearch`, quiescence, `mustStop` | recursion cut short at any node while it writes to the shared table |
| Transposition table, `search/private/transposition_table.{h,cpp}` | entries of two atomic words, size, epoch | `load`, `store`, `resize`, `clear`, epochs | no lock: torn entries; parallel resizing; a byte of epoch |
| Limits, `search/private/limits.{h,cpp}` | none | limits from a time control | arithmetic at its edges |
| Engine, `search/search.cpp` | runner, options, position | the client's side of the bot API | called by the poll thread only |
| UCI session, `bot_api/clients/uci.cpp`, `bot_api/connection.cpp` | mutex, "search started" flag, debug flag | commands of the GUI; calls of the engine | two threads under one mutex, one of which joins the other |
| Bot API contract, `bot_api/client.h`, `bot_api/server.h` | none | promises in comments | the abstract specification of the session |
| Options and types of the API, `bot_api/options.*`, `types.h` | option values | `set...` with checks | bounds |
| Blocking queue, `util/queue.h` | items, closed flag, mutex, two condition variables | `push`, `pop`, `close` | single notifications after unlocking |
| make_dataset, `eval/feat/bin/make_dataset.cpp` | two queues, batch, sample, workers, printer | read, sample, batch, extract, print, finish | a pipeline with back-pressure and an order of closing |
| Chess core, `core/*`, tables by `gen/core/*` | board, bitboards, hash | make, unmake, generate, check validity and legality, read and write FEN and moves | long sequences of reversible changes; six descriptions of the same moves; packed tables |
| Evaluation, `eval/*`, tables by `gen/eval/*` | weights, pawn cache, incremental tags | evaluate, update a tag | increments must equal a fresh start; three places must agree on the order of the features |
| Game sets, `gameset/*` | reader over lines of text | `nextGame` | errors in the middle of a game |
| Self-tests, `selftest/*` | a second chess engine, Dodecahedron | `depthDump`, `selfTest` | the two engines must agree everywhere |
| Utilities, `util/*` | a buffered writer, loggers, random numbers | parallel loops, strings, files | segment borders |
| Generators, benchmarks, version | none at run time | | not part of the running engine |

How they interact. The poll thread reads a UCI command, takes the session's
mutex and calls the engine, which passes the call to the job runner. `start()`
joins the previous main thread, resets the communicator and spawns a new main
thread; that one closes the configuration, creates the jobs, sleeps in
`waitForEvent()`, sends lines and the answer to the session under the session's
mutex, and opens the configuration again. Jobs meet each other in the
communicator and, without any lock, in the transposition table. make_dataset is
a program of its own: the game set reader feeds one main thread, several workers
and one printer around two blocking queues. The self-test is another: it walks
one tree of moves on the core and, in a second build, on Dodecahedron, and the
outputs are compared.

What makes each part correct:

- communication: one line per depth, only from complete searches, no lost
  wakeup, every stop and every exceeded limit ends the round, the deepest line
  is played;
- runner: a running search keeps its evaluators and its table, requests are
  deferred but never forgotten, an early stop is not lost, `start()` returns;
- session: one answer per accepted `go`, no report outside a search, `stop` and
  `quit` take effect;
- table: a load never returns what was not stored under its key, and resizing
  keeps what it says it keeps;
- queue: a thread waits only if somebody will wake it, and `close()` frees all;
- make_dataset: the file holds the header and then each selected row once, and
  the rows are those the format of game sets promises;
- search tree: however it is cut, the board and the repetition table come back;
  the first result of a depth rests on no cut call; no mate is made up;
- chess core: unmaking restores the board, what is kept for speed equals what is
  computed afresh, the generators describe one set of moves, legality foreseen is
  legality found out, texts are read back, and Dodecahedron agrees with all of it;
- move picker: each move once and none forgotten, whatever the killers are;
- evaluation: the tag follows the moves, and each column of coefficients counts
  what the header of the table names.

## 2. Modules

| Module | Models | EXTENDS |
|---|---|---|
| `SearchRound` | the communicator, `Job::run`, the main loop | |
| `SearchRoundProofs` | proofs about it | `SearchRound` |
| `JobRunner` | the runner and the frame of `MainThread::run` | |
| `MCJobRunner` | positions for TLC | `JobRunner` |
| `SearchService` | what the bot API promises, abstractly | |
| `UciSession` | poll thread, mutex and server calls | `JobRunner`, instance of `SearchService` |
| `Limits` | the time a search gets from clocks, as operators | |
| `MCUciSession` | positions and clocks for TLC | `UciSession`, `Limits` |
| `UciSessionProofs` | proofs about the runner and the session, the refinement included | `UciSession`, `Limits`, `OrderFacts` |
| `TransTable` | the transposition table | |
| `Parallel` | the segments of a parallel loop, as operators | |
| `MCTransTable` | symmetry of jobs, segments of small tables | `TransTable`, `Parallel` |
| `TransTableProofs` | proofs | `TransTable`, `Parallel`, `OrderFacts` |
| `BlockingQueue` | queues and threads that use them | |
| `Dataset` | the threads of make_dataset | `BlockingQueue` |
| `GameSet` | the game set reader and what becomes a row, as operators | |
| `MakeDataset` | the whole program: the reader feeds the threads | `Dataset`, `GameSet` |
| `MCDataset` | threads, queues, values and files for TLC | `MakeDataset` |
| `DatasetProofs` | proofs about the queue, the threads, the reader and the program | `MakeDataset`, which extends `BlockingQueue`; `OrderFacts` |
| `SearchTree` | `Searcher` and the deepening loop of `Job::run` | |
| `MCSearchTree` | a small game for TLC | `SearchTree` |
| `Score` | scores, mates, costs and packed pairs, as operators | |
| `SearchTreeProofs` | proofs | `SearchTree`, instance of `Score` |
| `ChessTypes` | coordinates, cells, moves, attack and magic tables | |
| `ChessBoard` | boards, hashes, making and unmaking | `ChessTypes` |
| `ChessMoveGen` | generators, validity, legality, attacks | `ChessBoard` |
| `ChessText` | FEN and the texts of moves | `ChessMoveGen` |
| `MovePicker` | stages, killers, the quiescence picker | `ChessMoveGen` |
| `Evaluation` | features, coefficients, tags, the evaluator | `ChessMoveGen` |
| `Dodecahedron` | the second engine | |
| `SelfTest` | both engines in lock step, with tag, texts and picker | `ChessText`, `Evaluation`, `MovePicker`, instance of `Dodecahedron` |
| `MCSelfTest` | twelve positions and edges of scores for TLC | `SelfTest`, `Score` |
| `ChessProofs` | proofs about boards, moves, the generators, the magic tables and legality | `ChessMoveGen` |
| `SelfTestProofs` | proofs about the walk, the tags and the texts | `SelfTest`, `ChessProofs`, `OrderFacts` |
| `OrderFacts` | facts about least and greatest elements, induction, and folds step by step | |

### SearchRound

`depth`, `stopped`, `lines`, `lock` are the fields of `JobCommunicator`;
`pc` and `stopping` say where a thread is, the latter inside `stop()`, which any
thread may be in the middle of. A line keeps its depth, its job, the round and
whether the search behind it was complete; the last two are history that only
the properties read. The search of one depth is one state that ends in
`SearchComplete`, `SearchAbort` (`mustStop()`) or `SearchTimeout`
(`checkTimeout()`). `stop()` is three steps: the compare-and-swap, the passage
through the mutex, the notification. `waitForEvent()` is four: the check under
the mutex, going to sleep (which releases it), waking, checking again.
`Expire` is the clock, or the count of nodes; `Restart` is the next `start()`.

### JobRunner

`cfg` gathers everything `applyConfigLock_` protects, with the table reduced to
its size, its epoch and the searches that left entries in it. `clientPc` is the
thread that calls the runner (it blocks in `join()`), `mainPc` the main thread;
the state `created` is the window between `start()` and
`disableReconfiguration()`. `raced` remembers that a request fell into this
window: the code then breaks two of its own promises, and the properties that
depend on it say so. `searches`, `requests` and `game` count.

### SearchService and UciSession

`SearchService` counts what was asked and answered. `UciSession` composes the
session with the runner: the poll thread is the runner's client thread, a
command is one step unless it blocks, and `go` is split into entering
(`Go`), the end of `join()` (`JoinDone`), the rest of `start()` (`GoSpawn`)
and `doStartSearch()` (`GoReturn`), with the mutex held from the first to the
last. Calls of the main thread need the mutex. The refinement maps `asked` to
the number of accepted starts, `answered` to the printed `bestmove` lines, and
`closed` to the end of the session.

### TransTable

`values[i]` and `words[i]` are the two atomic words of entry `i`. A word of the
second kind is the pair (key, data) whose exclusive or it is, so decoding
succeeds exactly for that data; an accidental match of unrelated 64-bit words is
left out. `op` is what each job is doing: two relaxed loads or two relaxed
stores, in either order. `resize()`, `clear()` and the epochs happen while no
job is in the table, which is what `ConfigIsFrozen` of `JobRunner` shows. While
the table grows its entries are copied in parallel, so where several go to one
slot either word may be from any of them, and a torn pair may lead anywhere.
`GrowKeepsEntries` therefore speaks of a table in which no entry is torn or out
of its place; sizes divide one another because all are powers of two.

### Limits, Parallel and Score

Three pure parts, as operators, each beside the module that rests on it.
`Limits` is `calculateMaxTime()`: margins, share, increment and safeguards, in
milliseconds, with the side and the number of the move from the board.
`SearchRound` lets a limit be exceeded at any moment; `Limits` says when that is.
`Parallel` cuts a segment the way `processSegmentParallel()` does; its pieces are
the threads of `Clear`, `Grow` and `Shrink` in `TransTable`. `Score` has the
16-bit scores with mates coded by their distance, their packed pairs (a word of
32 bits in which a negative low half borrows one from the high half), and the
costs shown to the GUI, with which mates take the ends of a 32-bit range.

`MCUciSession`, `MCTransTable` and `MCSelfTest` assume what is wanted of them on
small inputs (`LimitsKeepTheClock`, `PiecesAreFair`, `ScoresAreConsistent`, the
last with the pairs that `score.h` asserts at compile time), so TLC evaluates it
at the beginning of each of these runs; section 5 has the theorems.

### BlockingQueue and Dataset

A call is a record of its kind, its queue, its value and the step it is at:
under the mutex, before the notification of `emptyEvent_`, before that of
`fullEvent_`. `waiting` holds the two sets of waiters. `Dataset` puts the
reader, the workers and the printer on two such queues. A batch, and the string
made of it, is the set of its boards. The sampler keeps a set of boards, which
is what shuffling makes of it. `fed` is history.

### GameSet and MakeDataset

A file is a sequence of lines, and a line is what its text amounts to: a known
command that can be read or not, or one to skip. A move is quiet, a capture (or
promotion), a check or illegal, which is what the filter tells apart; a board is
the line that set it up and the moves made since. `TryReadCommand` is the
function of the same name; `BeginGame` and `ReadInner` are the beginning and the
loop body of `nextGame()`, and `phase` says who reads. `MakeDataset` makes one
action of each line, and passes the rows of a finished game on one by one, so
that reading, filtering and sampling interleave with the workers.
`processGameSet()` finishes its consumers after success and after failure alike.

The second half of `GameSet` is not the code: it says what `docs/gameset.md` says
of a file, by cutting it into games instead of reading it line by line, and
`ReaderFollowsFormat` compares the two, in the runs for thirteen files and by
proof for all. `FilesAssumption` says what a line can be; `NoBoardAssumption`, that
the empty `lastBoard_` is not itself a board.

### ChessTypes, ChessBoard, ChessMoveGen, ChessText

A bitboard is the set of its cells, and a hash the set of the Zobrist keys that
were combined into it, so that two hashes are equal exactly if the same keys are
in them; accidental collisions are left out and nothing else. A board is a
record with all the fields of `Board`: `MoveMake` and `MoveUnmake` change each
of them the way `moveMake()` and `moveUnmake()` do, branch by branch, and
`Update` computes the derived ones from the cells. The counters wrap at 16 bits.
Generators return one set per inner generator; the masks that answer a check or
leave out captures are those of the code. The tables of attacks, of magic
lookups (BMI2 build: `Pext`, groups of cells that share an array, entries written
by the longer one) and of cells in between are computed as the generators and
`magic.cpp` compute them. `ChessText` has the FEN reader and writer token by
token, with the bounds checks in their order, and the move parser.

### Dodecahedron and SelfTest

`Dodecahedron` is the second engine with its lists of pieces, and keeps the names
of its source. `SelfTest` is `depthDump()`: `frames` is its recursion, a frame
has the moves still to try in the order of `getMoveHash()`, and each step makes
or unmakes the same move in both engines. `UnmakeRestores` compares every
restored board with the one that was left. The walk adds two things the search
does on the same board: the null move and the evaluation's tag. `TestsAssumption`
says of the positions what the program insists on before it walks them:
`boardFromFen()` panics if the FEN is refused, and `selfTest(board)`, called first
(`selftest/test.cpp:131`), panics if `validate()` refuses the position
(`core/test/selftest.cpp:41`).

### MovePicker and Evaluation

`Picks` gives, stage by stage, what `next()` returns until it returns
`Move::invalid()`. `Evaluation` is the evaluator over coefficients (the instance
make_dataset uses): a score is a function from features to multiples of
`1 / COEF_UNIT`, so that an equality holds for all weights at once. Features and
offsets are computed from the shape of `features.json` by what `Features::load()`
does; the tables are those `gen/eval/` prints.

### SearchTree

The recursion of `search()`, `doSearch()` and `quiescenseSearch()` with an
explicit stack: a frame is a call with its parameters, its locals and the phase
it is in, `ret[j]` is what the last call returned. An `Enter...` action is the
beginning of a call up to its first recursive call or its return; `TryMove`,
`TryCapture` and `SkipIllegal` are one round of the loop over the moves;
`CutShort` and `Resume` follow a recursive call, with `mustStop()` answering yes
or no; `NoMoreMoves` is the end. `RazorDone` has no `mustStop()`, as in the
code. A step has at most one access to the shared table and one call of
`mustStop()`, because other jobs may come in between.

The game is a constant: positions, which stand for their hashes, their
pseudo-legal moves, an evaluation, checks and dead positions. The thresholds
and depths of `consts.h` are constants too. The order of the moves within a
stage of the picker is a choice, and so is whether the first quiet move is a
killer. A store may be refused and a load may miss, which is what
`TransTable` allows; collisions of hashes are left out. The repetition table is
the set of its hashes. `Finish` takes the check of `isStopped()` and
`finishDepth()` in one step; `SearchRound` has them apart, and has `unwindPv()`
abstracted to the line it adds.

`misled`, `cut` and `falseStores` are history: whether a call has gone on with
the result of a call that was cut, and what it has stored after that. This can
happen: at every 1024th call `mustStop()` asks the clock and not the depth, so a
parent may take the 0 of an aborted child for a score.

## 3. Runs

| Run | Bounds | Shows |
|---|---|---|
| `search_round` | 2 jobs, 2 depths, time limit, 2 rounds | `OneLinePerDepth`, `LinesAreGenuine`, `NoLostWakeup`, `BestIsDeepest`, `StopIsHonoured`, `LimitIsHonoured` |
| `uci_session` | 3 searches of 4 positions, 2 requests, 1 or 2 jobs, 3 table sizes | `NoCallIsRefused`, `NoRequestIsForgotten`, `EpochIdentifiesPosition`, `ConfigIsFrozen`, `ImplementsService`, `StopIsAnswered`, `QuitEnds`, `GoReturnsWithoutDebug` |
| `trans_table` | 2 jobs, 3 keys, tables of 2 and 4, 2 stores, 1 change of epoch | `LoadIsTruthful`, `OldEntriesYield`, `GrowKeepsEntries`, `ShrinkKeepsHeaviest` |
| `blocking_queue` | 3 threads, 1 queue of 2 | `NoLostPop`, `NoLostPush`, `CloseReleases` |
| `dataset` | 13 files, 2 workers, up to 4 boards, batches of 2, queues of 1, samples of 0, 1 or all, filter on and off | `EachRowIsInOnePlace`, `FileIsComplete`, `HeaderIsFirst`, `ReaderFollowsFormat`, `ProgramReturns` |
| `search_tree` | 1 searcher, 8 positions, depths 1 to 4, the clock asked at every call | `SearchLeavesNoTrace`, `MateClaimsHold` |
| `search_jobs` | 2 searchers, the same game, depths 1 and 2, the clock at every 5th call | `WinnersWereNotCut`, `FalseEntriesAreFew` |
| `self_test` | 12 positions, walks of one or two moves and the null move | `BoardStaysFresh`, `SameAsDodecahedron`, `GeneratorsAgree`, `LegalityIsForeseen`, `TextRoundTrips`, `MagicTablesAreExact`, `TagIsFresh`, `ColumnsCountWhatTheyName`, `PickedOnce`, `UnmakeRestores` |

The type invariants of the modules with threads are theorems (section 5), and
were checked by TLC before they were proved.

Why the bounds are enough to be interesting. Two jobs and two depths give every
way one job can overtake another, win or lose a depth, and publish after the
main loop has looked; the second round shows what is left over from the first.
Four positions are at distance 0, 1 to 5, more than 5, and on another first
board, which are the cases of `setPosition()`; three sizes include one that is
rounded. Two stores are what it takes to tear an entry and to fill both sides
of a resize; key 0 is there because empty entries lead to slot 0. Queues of one
or two places are full or empty all the time. Four boards with batches of two
fill two batches, or one and a half. The files hold one or two games: sound
ones, with all results and with comments, and one for each error of the reader
and of `GameConsumer`, after a game that is sound. The twelve positions have
castling of every kind and the loss of its rights, both ways in which en passant
may be illegal or answer a check, promotions with and without capture on both
sides, pins, a double check, pawns of every kind the evaluation names, and both
counters at 65535; two moves are enough for a double move and its capture, for a
right lost and a castling, and for an unmaking after an unmaking. Every text that
differs in one token from the cells of a root is read, too. The game of `MCSearchTree` has a forced mate
in three plies with a detour around it, an illegal move, a dead draw, a
promotion, a cycle for repetitions, a position that occurred twice before the
root, and entries left by earlier searches; the numbers of `consts.h` are scaled
to it, so that futility pruning, razoring, late move reductions, cutoffs by exact
and by lower bounds and the move counter all come into play within four plies. (An
upper bound is never stored: `frame.bestMove` is null then.) With the clock asked at every call (period 1) a search can be
cut at every node; with period 5 the depth check is sometimes skipped, and twice
never within one unwinding, which is what 1024 means for a stack of 265.
`FalseEntriesAreFew` depends on that relation.

Deadlock is checked in `trans_table`, `blocking_queue`, `dataset` and the runs of
`SearchTree` (the end of the latter two is the step `Done`). It is not in the
others: a bounded number of searches, or a walk, ends there.

Four runs look for a violation of what a comment or an assertion says, and find it:

- `stopped_is_final`: the comment on `Event::Stopped` (`search/private/job.h:44`)
  promises that it is final. A job that passed its `isStopped()` check publishes
  its line after the stop; the line is lost, and after depth 1 the engine plays a
  random move with the warning that nothing was found.
- `evaluator_per_job`: the assertion of `createJobsAndThreads()`
  (`search/private/job_runner.cpp:152`) fails when the number of threads is set
  between `start()` and the first step of the new main thread.
- `go_does_not_block`: in debug mode the main thread still calls the server
  after it has answered (`job_runner.cpp:257`), while the next `go` holds the
  session's mutex and joins it (`bot_api/client.h:80` says that a search does
  not block the current thread).

- `capture_flag`: `Flags::Capture` says "The last move was capture"
  (`search/private/job.cpp:151`), but `doSearch()` asks `isMoveCapture()` of the
  board on which the move has been made (`job.cpp:524` after `513`), where the
  destination is never empty. Every call below a move has the flag, and the flag
  disables the null move, which therefore is never tried.

## 4. Fairness

- `SearchRound`: every thread runs on, strongly fair because it may have to ask
  for `lock_` repeatedly; its only frequent user sleeps with the mutex released.
  Nothing is assumed of a search ending by itself, of a job looking at the clock
  or of the client, so `LimitIsHonoured` rests on the tick of the main loop.
- `JobRunner`: both threads run on; a search ends when it is stopped, which is
  `StopIsHonoured` of `SearchRound`, and otherwise need not end.
- `UciSession`: the poll thread finishes a command it has begun; the main thread
  gets the mutex, because the poll thread releases it to wait for input. The GUI
  need not send anything.
- `SearchTree`: none; its properties are safety properties. That a search which
  is stopped ends is `StopIsHonoured` of `SearchRound`.
- `BlockingQueue`, `Dataset`, `MakeDataset`: a thread inside a call runs on
  unless it waits; spurious wakeups are possible and never assumed; the input is
  finite.
- `SelfTest` and the modules under it are sequential: no fairness, safety only.

## 5. Theorems

All hold for every value of the constants, under the assumptions named in the
modules.

| Theorem | Property | Argument |
|---|---|---|
| `SearchRoundProofs!TypeCorrect`, `DepthsArePublishedOnce`, `PublishedLinesAreGenuine`, `WakeupsAreNotLost`, `DeepestLineIsPlayed` | `TypeOK`, `OneLinePerDepth`, `LinesAreGenuine`, `NoLostWakeup`, `BestIsDeepest` | one inductive invariant, below |
| `UciSessionProofs!TypeCorrect`, `RequestsTakeEffect`, `EveryJobHasAnEvaluator` | `TypeOK`, `NoRequestIsForgotten`, `EvaluatorsMatchUnlessRaced` | the flag `canApplyConfig_` follows the place of the main thread |
| `UciSessionProofs!RunningSearchKeepsConfig` | `ConfigIsFrozen` | an action property from the same invariant |
| `UciSessionProofs!EpochsTellPositionsApart` | `EpochIdentifiesPosition`, for as long as 19 times the searches and requests so far is less than `EpochMod` | no entry is of a later epoch; those of this one are of the last position and its game |
| `UciSessionProofs!SessionDrivesRunner` | | each step of the session is a step of the runner or none, so the runner's invariant is the session's too |
| `UciSessionProofs!CallsAreExpected`, `FlagIsTrue` | `NoCallIsRefused`, `StartedMeansRunning` | the flag and the place of the main thread, while the mutex is free and while `go` holds it |
| `UciSessionProofs!SessionImplementsService` | `ImplementsService` | refinement: `Spawn` asks, `AnswerSearch` answers, the last `JoinDone` closes |
| `TransTableProofs!TypeCorrect`, `LoadsAreTruthful` | `TypeOK`, `LoadIsTruthful` | every word in the table or in the hands of a job was made of stored data |
| `TransTableProofs!GrowingKeepsEntries`, `ShrinkingKeepsHeaviest` | `GrowKeepsEntries`, `ShrinkKeepsHeaviest` | for growing, places modulo the new size tell sources apart that places modulo the old one do; for shrinking, the heaviest of a finite set |
| `TransTableProofs!OldEntriesAreReplaced` | `OldEntriesYield` | arithmetic on weights: twice 19 exceeds 35 plus the bonus of an exact bound |
| `DatasetProofs!QueueTypeCorrect`, `ConsumersAreWoken`, `ProducersAreWoken` | `QueueTypeOK`, `NoLostPop`, `NoLostPush` | with "who waits is inside the call that waits", the two are inductive together |
| `DatasetProofs!DatasetUsesQueues` | | each step of make_dataset is a step of the queues or none, so the queue theorems hold of its queues |
| `DatasetProofs!HeaderComesFirst`, `ProgramHeaderComesFirst` | `HeaderIsFirst` | until the header is in the queue of strings nobody can put anything else there; from then on it is ahead of everything |
| `DatasetProofs!RowsAreInOnePlace`, `FileHoldsAllRows`, `ProgramFileIsComplete` | `EachRowIsInOnePlace`, `FileIsComplete` | each step moves the rows of one place to one other; who is told that nothing will come has seen its queue closed and empty |
| `DatasetProofs!ReaderReadsTheFormat` | `ReaderFollowsFormat` | line by line: the games read so far are usable and have their rows, and the game being read is fine so far |
| `UciSessionProofs!ClockLasts` | | arithmetic on margins: what a move may use up leaves 3 ms for each of the others |
| `TransTableProofs!EachElementHasOneThread` | | a piece ends where the next begins; the last piece that begins before an element has it |
| `SearchTreeProofs!PairsAddUp` | | a sum of words is the word of the sums, and halves come out of a word as they went in |
| `SearchTreeProofs!CostsKeepTheOrder`, `MatesComeBack`, `AdjustmentsDoNotWrap` | | cases of `score.h`: lost, won, neither |
| `DatasetProofs!ProgramImplementsThreads`, `ProgramPushesAreAccepted` | | each step of the program on any file is a step of `Dataset` or none, so what is proved of the threads holds of the program |
| `DatasetProofs!DatasetTypeCorrect`, `PushesAreNeverRefused` | `DatasetTypeOK`; for the second, `PushesAreAccepted`, which no run repeats | what may be pushed and what is closed follow from the place of the main thread; workers push only before they are joined |
| `SearchTreeProofs!TypeCorrect`, `WinnersSearchToTheEnd`, `NullMoveIsDead` | `TypeOK`, `WinnersWereNotCut`; for the last, `NullMoveIsNeverTried` | a call can have been cut only in a job that is "dirty": stopped, or left behind by another one |
| `SearchTreeProofs!SearchCleansUp` | `SearchLeavesNoTrace` | the calls of a job stand in a line from the root, no two have entered the same position, and a call that returns has its own board |
| `SearchTreeProofs!MatesAreReal` | `MateClaimsHold`, if the table is truthful when the search begins | scores read as claims about the position: the claims of calls, of results and of the table are true together |
| `ChessProofs!GeneratedMakeable`, `MoveMade`, `MoveUnmade` | | `moveMake()` and `moveUnmake()` kind by kind, on any board that `update()` would leave alone |
| `ChessProofs!LegalityForeseen`, `SelfTestProofs!LegalityIsExact` | `LegalityIsForeseen` for the second | attacks are read from the cells; what a move uncovers or blocks is compared with the masked bitboards, kind by kind |
| `ChessProofs!MoveKeepsSound` | | pieces and kings are counted: a move replaces one own piece, castling two, and no king is taken because the one that could be was not attacked |
| `SelfTestProofs!WalkIsChained`, `BoardIsFresh`, `UnmakeGivesBack` | `BoardStaysFresh`, `UnmakeRestores` for the last two | each frame of the walk remembers how the board of the next one was made from its own |
| `SelfTestProofs!TagFollowsMove`, `TagsAreFresh` | `TagIsFresh` for the second | a tag is a sum over the occupied cells; a sum changes by what is put down and taken away |
| `SelfTestProofs!GeneratorsAreRight` | `GeneratorsAgree` | generated and valid moves are described by where pieces go; a legal move answers the check, because each attacker is taken or its line cut |
| `SelfTestProofs!NoMoveComesTwice` | `PickedOnce` | the stages share no move, and each gives what a generator wrote, less what an earlier stage gave |
| `SelfTestProofs!TextsReadBack` | `TextRoundTrips` | the reader of cells, token by token, stands behind as many slashes and cells as it has read |
| `ChessProofs!LookupsAreExact`, `SelfTestProofs!MagicIsExact` | `MagicTablesAreExact` for the second | an occupancy cut down to the mask is its index put back, a cell fills the entries of its own indices, and what the other cells of its group put there is off its lines or next to it |

The inductive invariants. None of the properties above is inductive by itself.
For `SearchRound` the strengthening says that at most one job holds a claim on
each depth between `finishDepth()` and `addLine()`, that this depth has not been
published yet, that a job past its check of `isStopped()` had a complete search
(a search is cut only when the round is stopped or the depth has moved on, and
then `finishDepth()` fails), and that a sleeping main thread saw an empty
mailbox under the mutex. For `JobRunner` it ties `canApplyConfig_`, the main
thread's place and the captured job count together. For the epochs (`EpochInv`) it
adds that the entries of this epoch are of the last position and of the game it
was searched in, that `lastPosition_` is what was handed to the main thread for as
long as it may use it, and how far the epoch has moved at most: 19 for each
`start()` and each new game, less what is still to come. Nothing keeps a byte
from coming round, so this is proved, and true, only of the first 13 of them. For `UciSession` it adds
who holds the mutex at which point of `go`. For `TransTable` it says that each
value word and each key word was made of data some job has stored, which
survives any mixing, because a key word that decodes names its own data; and
that a slot without data has the key word `clear()` gave it and at most one job
stores there, which is what the resizes need (`ContentInv`). For
`BlockingQueue` it names a saviour for each waiter; a step can take only its own
thread from the set of saviours, and then leaves another. For `Dataset` it is
the order in which the main thread goes through its states; for the header it
adds that before the header is pushed the queues, the workers' hands and the file
are empty and the printer waits, and that afterwards nothing stands before it: it
is in the file, or in the printer's hands with the file empty, or in front of the
queue. For the rows it adds what each thread has in its hands (`InHand`: the
argument of a push that has not happened, the result of a pop that has), that only
threads in their own code between two calls have any, that a thread which got nothing
from `pop()` left its queue closed and empty, and how large the sample is. For
`SearchTree` it says that frames and results of a job that is not dirty rest on no cut call, that
every frame of a call with a zero window has the flag of a capture, and that no
job is ahead of the shared depth; a job becomes clean again only where it begins
a new depth with an empty stack. One lemma per action shows that the job's frames
stay in this set; one lemma for all of them, that the other jobs can only become
dirty by the step. What a search leaves behind needs a second invariant (`Trace`):
the first call of a job starts at the root, a call under razoring looks at the board
of its caller, no two calls have entered the same position, and the board is that of
the call on top whenever this one is about to use it, while in the middle of a
move it is the child's. The mates need a third one (`MateInv`). It reads a score as a
claim, counted from the ply of the call: at least this much, or at most this
much. The window of a call is not empty; an alpha above the alpha it began with is true of
the position; once a call other than a quiescence has tried moves, each legal move is still
to be tried, is being searched, or loses as fast as alpha says; quiescence may
stand pat, so its alpha claims no lost mate; and a result is true as the bound that
its window makes of it. `ttStore()` takes the ply out of a claim and
`adjustCheckmate()` puts it back. That `Fate`, a recursive function of the number
of plies, is what its definition says (`FateUnfolds`) is shown by
`OrderFacts!NaturalInduction`, which speaks of sets. The proof needs that
the stack is never as deep as twice the threshold of mate scores
(`PlyAssumption`): `MAX_STACK_DEPTH` is `MAX_DEPTH + 10` (`consts.h:28`), the
threshold is 28000. For `SelfTest` it is `Chained`: the board in hand is sound,
and each frame but the first remembers a sound board, a move the code of
`moveMake()` is written for, and what `moveMake()` returned for the two, while
the next frame remembers, or the walk stands on, the board so made; the tag a frame
carries is the one computed from its board. A board is
fresh if `update()` would change nothing, and sound if `validate()` accepts it
besides. Freshness is kept because each kind of move changes the cells, the
bitboards and the hash alike; it is what lets the generators' sets of bitboards be
read as statements about cells, so that generated moves are such moves. Soundness
is kept because the walk goes on only from positions in which the side that moved
cannot lose its king, and needs in turn that legality is what `validate()` asks
for. It is also what `isMoveLegal()` rests on: it looks for one king of the side
to move, and a capture of a king would be unlike anything it masks. A hash being
a set of keys, the proofs hold whatever the values of the keys.

The generators are compared through a description of single moves: a move from s
to d of a kind goes where its piece may go, is wanted by the generator, and
answers the check (`Answering`: in no check anything; in a single one a king's
move, en passant, or a move onto the attacker or its line; in a double one a
king's move). The inner generators are sets made by shifting and masking, and for
each a lemma says which moves it holds (`InnerAre`). `isMoveValid()` accepts the
same moves without asking about the check (`ValidAre`), which the
generators may drop only because it costs no legal move (`LegalAnswers`): after a
legal move no attacker reaches the king, so if the king stays each of
them is taken or has its line cut, and two lines to a king have no cell in
common. En passant, which takes a pawn and puts another one elsewhere, is the case
that has to be looked at by itself (`PassingFacts`).

The magic tables need no invariant: `LookupsAreExact` is about any set of occupied
cells. It turns rays, masks and diagonals into statements about rows and columns.
Two facts carry it. The mask leaves out only the last cell of each ray, whose
occupancy never matters; and the one other rook of a pair stands a diagonal step
away, the other three bishops of a four stand in the same row or column, so that
the only cells on the lines of both that the other can attack are next to
the first, where they are attacked whatever is occupied.

A fold has no induction principle here either, but a fold over 1..n is followed
step by step: `OrderFacts` shows that the results of all its steps exist as a
function (`FoldExists`), and `NaturalInduction` goes along that function. Two theorems
rest on this.

`TextsReadBack` reads what `asFen()` has written. The reader of the cells is a state
machine over tokens; after the x-th slash and a stretch of y cells it must
stand at cell 8x + y, and it refuses a text at the first token where a row is
too long, too short, or unknown. What the writer puts into a row fills exactly eight
cells, with no two stretches next to each other, and puts the cells it was given
where the reader looks for them; the rest of a FEN is read back field by field. A
misprint is refused or accepted by the same description, so the proof takes any
sequence of tokens (`BoardTextIs`) and not only the misprints. A
generated move is read back because its cells and its promotion leave one kind only.

`ReaderReadsTheFormat` compares a program that sees one line at a time with a format
that sees the file cut into games. Its invariant (`ReaderInv`) has one case for
each place the reader can be in. Before the first command all lines were
skipped. Inside the game of line g (`InGame`) each line so far was fine as the
format has it (`FineLine`): there are as many commands that set up a board as lines
that do, there is a last board exactly if there was such a line, the captured
boards are as many as the format counts (`BoardCount`), and if only one was set up, the
k-th of them is k - 1 moves away from it, which is where a row's distance from
the end comes from. Of the games before g, each is usable, is followed by a line
that does not stop the reader, was counted, and has the rows the format gives
it (`Settled`). At the end of a game the reader consumes it exactly if the format
calls it usable (`ConsumedIsUsable`); if the game or the line after it stops the
reader, nothing more is usable (`Refused`). While the reader waits, the command in
hand is the last one, so that `nextGame()` reports the outcome of that one. Rows that are passed on only move from `pending` to
`rows`, so the threads cannot disturb any of this; and the main thread does not
leave the reader before the result is known.

Only model-checked: every liveness property (`StopIsHonoured`,
`LimitIsHonoured`, `StopIsAnswered`, `QuitEnds`, `GoReturnsWithoutDebug`,
`CloseReleases`, `ProgramReturns`), because the prover has no rules for fairness;
`FalseEntriesAreFew` of `SearchTree`, which is about the numbers of one game; and
of `self_test` `SameAsDodecahedron`, which compares two engines, and
`ColumnsCountWhatTheyName`, which is about folds over the columns of the feature
tables. The first does not hold for every FEN the core accepts: `update()`
(`board.cpp:438`) also drops an en passant pawn whose passed cell is occupied,
while `fix_board()` (`dodecahedron/board.cpp:280`) only looks for the pawn. A
theorem needs the assumption that no test position is of this kind, as none of
the listed ones is.

## 6. Not modelled, and why

- Output errors of the session. After one the GUI is gone; `finishSearch()` then
  leaves `searchStarted_` set (`uci.cpp:112`).
- `hardware_concurrency()` returning 0: make_dataset would have no worker. The
  model assumes at least one.
- Wrap-around of the epoch, a byte: it can come round after 14 searches and new
  games, and an old entry then passes for one of the present search (`EpochMod` is
  256 and the runs are shorter).
- `unwindPv()`, which only reads the table; the history table, which orders moves
  within a stage; the buckets and the growth of the repetition table (it is a
  set in `SearchTree`); the pawn cache of the evaluator; collisions of 64-bit
  hashes.
- The evaluator's instance over `score_t`: the same template with other numbers.
- The magic multipliers of builds without BMI2, which a generator finds at random.
- What a root position that has occurred twice before does: `search()` returns 0
  without a move (`job.cpp:216`), and the game goes on with a random one. The
  model has this return, but no document says what the move should be.
- The counter of quiet moves after a null move while a8 is occupied
  (`move.cpp:228`): a null move goes from a8 to a8, so the code takes it for a
  capture and resets the counter. `SameAsDodecahedron` names this exception
  (`NullMoveOverA8`). No document says what the counter of a null move should
  be, and the null move is never tried (theorem `NullMoveIsDead`).
- Parsing and printing: UCI commands and options, `asPretty()`, saving and
  replacing features, the writing of games, the text of a row.
- Options of the bot API, utilities other than parallel loops, benchmarks, generators' output,
  the version string, build files.

## 7. Plan

Done: the threads of search, session and make_dataset; the transposition table;
the search tree; the chess core with its texts, tables and second engine; move
picker, evaluation and game sets; time limits, scores and parallel segments.
Left, in this order:

1. Proofs: that the moves of both engines are the same (`SameAsDodecahedron`),
   for test positions whose en passant pawn has really just passed an empty cell.
2. Options of the bot API against a reference definition.
3. The buckets of the repetition table and the pawn cache, as implementations of
   a set and of a function.
4. Output errors in `UciSession`.
