------------------------------ MODULE Dataset ------------------------------
(***************************************************************************)
(* make_dataset (eval/feat/bin/make_dataset.cpp): the main thread reads    *)
(* games and hands batches of boards to the workers through boardQueue_;   *)
(* the workers turn them into strings for the printer in stringQueue_.     *)
(*                                                                         *)
(* A board is a number, in the order of consume(), and a batch, as well as *)
(* the string made of it, is the set of its boards; all rows differ,       *)
(* because they hold the game and the place in it.  Why reading ends (end  *)
(* of the input, a bad game) is left out: the code finishes the consumers  *)
(* in any case.  BufWriter is reduced to what it is given.                 *)
(***************************************************************************)
EXTENDS BlockingQueue, FiniteSets

CONSTANTS
  Main, Printer, Workers,    \* the threads
  BoardQueue, StringQueue,   \* the queues
  Header,                    \* the first line of the file
  BatchSize,                 \* BATCH_SIZE
  SampleSizes, NoSampling,   \* values of option "count", and its absence
  MaxBoards                  \* bound of the model: boards of the input

Boards == 1..MaxBoards

(* At least one worker: option "jobs" or, without it, hardware_concurrency(), *)
(* which is taken to know the number of cores (the standard lets it be 0).    *)
ASSUME ThreadsAssumption ==
  /\ Workers # {} /\ Main # Printer /\ {Main, Printer} \intersect Workers = {}
  /\ Threads = {Main, Printer} \union Workers

ASSUME QueuesAssumption ==
  /\ BoardQueue # StringQueue /\ Queues = {BoardQueue, StringQueue}
  /\ Header \notin Boards /\ Values = SUBSET (Boards \union {Header})

ASSUME BoundsAssumption ==
  /\ MaxBoards \in Nat /\ BatchSize \in Nat \ {0}
  /\ SampleSizes \subseteq Nat \union {NoSampling} /\ NoSampling \notin Nat

VARIABLES
  pc,          \* where each thread is
  sampleSize,  \* sampleSize_
  read,        \* count_ of BoardSampler
  sample,      \* sample_
  batch,       \* batch_
  printed,     \* what the printer has written
  fed          \* history: the boards that reached FeatureExtractor::consume()

mainVars == <<sampleSize, read, sample, batch, fed>>
datasetVars == <<queueVars, pc, mainVars, printed>>

(* A thread runs its own code only outside the queues. *)
At(t, label) == pc[t] = label /\ call[t] = NoCall

Goto(t, label) == pc' = [pc EXCEPT ![t] = label]

CallPush(t, q, value) ==
  Enter(t, "push", q, value) /\ UNCHANGED <<items, closed, waiting, got>>

CallPop(t, q) ==
  Enter(t, "pop", q, NoValue) /\ UNCHANGED <<items, closed, waiting, got>>

CallClose(t, q) ==
  Enter(t, "close", q, NoValue) /\ UNCHANGED <<items, closed, waiting, got>>

-----------------------------------------------------------------------------
(* The main thread *)

(* Mutant: no header. *)
PutNoHeader ==
  /\ At(Main, "start")
  /\ Goto(Main, "reading")
  /\ UNCHANGED <<queueVars, mainVars, printed>>

(* FeatureExtractor(): the threads run already, but nothing is in the queues. *)
PutHeader ==
  /\ At(Main, "start")
  /\ CallPush(Main, StringQueue, {Header})
  /\ Goto(Main, "reading")
  /\ UNCHANGED <<mainVars, printed>>

(* Mutant: the batch is pushed, but not emptied. *)
ConsumeAndKeep(board) ==
  /\ fed' = fed \union {board}
  /\ IF Cardinality(batch) + 1 = BatchSize
     THEN CallPush(Main, BoardQueue, batch \union {board})
     ELSE UNCHANGED queueVars
  /\ batch' = batch \union {board}

(* FeatureExtractor::consume() *)
Consume(board) ==
  /\ fed' = fed \union {board}
  /\ IF Cardinality(batch) + 1 = BatchSize
     THEN CallPush(Main, BoardQueue, batch \union {board}) /\ batch' = {}
     ELSE batch' = batch \union {board} /\ UNCHANGED queueVars

(* Mutant: a board that comes late replaces nothing, but is added. *)
NewSampleGrowing(board) ==
  IF Cardinality(sample) < sampleSize THEN {sample \union {board}}
  ELSE {sample} \union {sample \union {board} : old \in sample}

(* The reservoir: once it is full, a board replaces any of it, or none. *)
NewSample(board) ==
  IF Cardinality(sample) < sampleSize THEN {sample \union {board}}
  ELSE {sample} \union {(sample \ {old}) \union {board} : old \in sample}

(* BoardSampler::consume() *)
ReadBoard ==
  /\ At(Main, "reading")
  /\ read < MaxBoards
  /\ read' = read + 1
  /\ \/ /\ sampleSize = NoSampling
        /\ Consume(read + 1)
        /\ UNCHANGED sample
     \/ /\ sampleSize # NoSampling
        /\ sample' \in NewSample(read + 1)
        /\ UNCHANGED <<queueVars, batch, fed>>
  /\ UNCHANGED <<pc, sampleSize, printed>>

EndOfInput ==
  /\ At(Main, "reading")
  /\ Goto(Main, "feeding")
  /\ UNCHANGED <<queueVars, mainVars, printed>>

(* BoardSampler::finish(): the sample goes on in any order. *)
FeedSample ==
  /\ At(Main, "feeding")
  /\ \E board \in sample :
       Consume(board) /\ sample' = sample \ {board}
  /\ UNCHANGED <<pc, sampleSize, read, printed>>

(* Mutant: the last batch is left behind. *)
ForgetLastBatch ==
  /\ At(Main, "feeding")
  /\ sample = {}
  /\ Goto(Main, "closing")
  /\ UNCHANGED <<queueVars, mainVars, printed>>

(* FeatureExtractor::finish() begins with what is left in the batch ... *)
DrainLastBatch ==
  /\ At(Main, "feeding")
  /\ sample = {}
  /\ IF batch # {} THEN CallPush(Main, BoardQueue, batch) ELSE UNCHANGED queueVars
  /\ batch' = {}
  /\ Goto(Main, "closing")
  /\ UNCHANGED <<sampleSize, read, sample, printed, fed>>

CloseBoards ==
  /\ At(Main, "closing")
  /\ CallClose(Main, BoardQueue)
  /\ Goto(Main, "joining")
  /\ UNCHANGED <<mainVars, printed>>

(* ... and closes the second queue only after all workers have left. *)
JoinWorkers ==
  /\ At(Main, "joining")
  /\ \A w \in Workers : At(w, "done")
  /\ CallClose(Main, StringQueue)
  /\ Goto(Main, "leaving")
  /\ UNCHANGED <<mainVars, printed>>

JoinPrinter ==
  /\ At(Main, "leaving")
  /\ At(Printer, "done")
  /\ Goto(Main, "done")
  /\ UNCHANGED <<queueVars, mainVars, printed>>

-----------------------------------------------------------------------------
(* Worker::run and Printer::run *)

PopBatch(w) ==
  /\ At(w, "pop")
  /\ CallPop(w, BoardQueue)
  /\ Goto(w, "popped")
  /\ UNCHANGED <<mainVars, printed>>

Extract(w) ==
  /\ At(w, "popped")
  /\ IF got[w] = NoValue
     THEN Goto(w, "done") /\ UNCHANGED queueVars
     ELSE Goto(w, "pop") /\ CallPush(w, StringQueue, got[w])
  /\ UNCHANGED <<mainVars, printed>>

PopString ==
  /\ At(Printer, "pop")
  /\ CallPop(Printer, StringQueue)
  /\ Goto(Printer, "popped")
  /\ UNCHANGED <<mainVars, printed>>

WriteString ==
  /\ At(Printer, "popped")
  /\ IF got[Printer] = NoValue
     THEN Goto(Printer, "done") /\ UNCHANGED printed
     ELSE Goto(Printer, "pop") /\ printed' = Append(printed, got[Printer])
  /\ UNCHANGED <<queueVars, mainVars>>

-----------------------------------------------------------------------------
Init ==
  /\ QueueInit
  /\ pc = [t \in Threads |-> IF t = Main THEN "start" ELSE "pop"]
  /\ sampleSize \in SampleSizes
  /\ read = 0
  /\ sample = {} /\ batch = {}
  /\ printed = <<>> /\ fed = {}

InQueue(t) == CallStep(t) /\ UNCHANGED <<pc, mainVars, printed>>

MainNext ==
  \/ PutHeader \/ ReadBoard \/ EndOfInput \/ FeedSample \/ DrainLastBatch
  \/ CloseBoards \/ JoinWorkers \/ JoinPrinter

WorkerNext(w) == PopBatch(w) \/ Extract(w)

PrinterNext == PopString \/ WriteString

Wakeup ==
  /\ \E t \in Threads, q \in Queues : SpuriousWakeup(t, q)
  /\ UNCHANGED <<pc, mainVars, printed>>

(* The end of run() *)
Done == pc[Main] = "done" /\ UNCHANGED datasetVars

Next ==
  \/ MainNext \/ PrinterNext
  \/ \E w \in Workers : WorkerNext(w)
  \/ \E t \in Threads : InQueue(t)
  \/ Wakeup \/ Done

Spec == Init /\ [][Next]_datasetVars

(* Every thread runs on; the input is finite. *)
Fairness ==
  /\ WF_datasetVars(MainNext) /\ WF_datasetVars(PrinterNext)
  /\ \A w \in Workers : WF_datasetVars(WorkerNext(w))
  /\ \A t \in Threads : WF_datasetVars(InQueue(t))

FairSpec == Spec /\ Fairness

-----------------------------------------------------------------------------
(* Properties *)

DatasetTypeOK ==
  /\ QueueTypeOK
  /\ pc \in [Threads -> {"start", "reading", "feeding", "closing", "joining", "leaving",
                         "pop", "popped", "done"}]
  /\ sampleSize \in SampleSizes
  /\ read \in 0..MaxBoards
  /\ sample \subseteq 1..read /\ batch \subseteq 1..read /\ fed \subseteq 1..read
  /\ printed \in Seq(Values)

Given == fed \union IF pc[Main] = "start" THEN {} ELSE {Header}

(* What a thread has in its hands. *)
InHand(t) ==
  IF call[t] # NoCall /\ call[t].step = "try"
  THEN IF call[t].kind = "push" THEN call[t].value ELSE {}
  ELSE IF pc[t] = "popped" /\ got[t] # NoValue THEN got[t] ELSE {}

Places ==
  {<<"hand", t>> : t \in Threads}
    \union {<<"batch", Main>>}
    \union {<<"file", i>> : i \in DOMAIN printed}
    \union UNION {{<<"queue", q, i>> : i \in DOMAIN items[q]} : q \in Queues}

Content(place) ==
  CASE place[1] = "hand"  -> InHand(place[2])
    [] place[1] = "batch" -> batch
    [] place[1] = "file"  -> printed[place[2]]
    [] place[1] = "queue" -> items[place[2]][place[3]]

(* No row is lost or written twice, however the threads overtake each other: *)
(* at any time it is in one place between the batch and the file, and        *)
(* nothing else is.                                                          *)
EachRowIsInOnePlace ==
  /\ \A row \in Given : Cardinality({p \in Places : row \in Content(p)}) = 1
  /\ UNION {Content(p) : p \in Places} \subseteq Given

(* When run() returns the file holds every row that was extracted, as many   *)
(* as option "count" asks for, or as there are.                              *)
FileIsComplete ==
  pc[Main] = "done" =>
    /\ UNION {printed[i] : i \in DOMAIN printed} = fed \union {Header}
    /\ Cardinality(fed) =
         IF sampleSize # NoSampling /\ sampleSize < read THEN sampleSize ELSE read

(* The header is the first line, although the threads run before it is pushed. *)
HeaderIsFirst == printed # <<>> => printed[1] = {Header}

(* Nobody looks at the result of push(), so no push may meet a closed queue. *)
PushesAreAccepted ==
  \A t \in Threads, q \in Queues : Trying(t, "push", q) => ~closed[q]

=============================================================================
