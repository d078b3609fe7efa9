--------------------------- MODULE BlockingQueue ---------------------------
(***************************************************************************)
(* Buffered blocking queues (util/queue.h) and the threads that call them. *)
(*                                                                         *)
(* A queue is a mutex with two condition variables.  What happens under    *)
(* the mutex is one step.  The notifications come after it is unlocked,    *)
(* one after the other, so other calls get in between.  notify_one() wakes *)
(* any one waiter or, if there is none, nobody; a waiter may also wake for *)
(* no reason.                                                              *)
(***************************************************************************)
EXTENDS Naturals, Sequences

CONSTANTS
  Threads, Queues, Values,
  Size,      \* size_
  NoCall,    \* the thread is not inside a queue
  NoValue    \* std::nullopt

ASSUME SizeAssumption == Size \in Nat \ {0}

ASSUME ValuesAssumption == NoValue \notin Values

VARIABLES
  items,     \* queue_ of each queue
  closed,    \* closed_
  waiting,   \* the threads that wait for fullEvent_ and for emptyEvent_
  call,      \* what each thread is doing in a queue
  got        \* what the last pop() of each thread returned

queueVars == <<items, closed, waiting, call, got>>

Call ==
  [kind : {"push", "pop", "close"}, queue : Queues, value : Values \union {NoValue},
   step : {"try", "notifyEmpty", "notifyFull"}]

ASSUME NoCallAssumption == NoCall \notin Call

Asleep(t, q) == t \in waiting[q].empty \union waiting[q].full

(* A thread inside a call can run on, unless it waits. *)
AtStep(t, step) ==
  call[t] # NoCall /\ call[t].step = step /\ ~Asleep(t, call[t].queue)

Trying(t, kind, q) == AtStep(t, "try") /\ call[t].kind = kind /\ call[t].queue = q

Notifying(t, step, q) == AtStep(t, step) /\ call[t].queue = q

-----------------------------------------------------------------------------
(* The effect of a call on the thread that makes it *)

Enter(t, kind, q, value) ==
  call' = [call EXCEPT ![t] =
            [kind |-> kind, queue |-> q, value |-> value, step |-> "try"]]

GoOn(t, step) == call' = [call EXCEPT ![t].step = step]

Return(t) == call' = [call EXCEPT ![t] = NoCall]

-----------------------------------------------------------------------------
(* push() *)

PushRefused(t, q) ==
  /\ Trying(t, "push", q)
  /\ closed[q]
  /\ Return(t)
  /\ UNCHANGED <<items, closed, waiting, got>>

PushWait(t, q) ==
  /\ Trying(t, "push", q)
  /\ ~closed[q] /\ Len(items[q]) = Size
  /\ waiting' = [waiting EXCEPT ![q].full = @ \union {t}]
  /\ UNCHANGED <<items, closed, call, got>>

(* Mutant: a producer notifies other producers only. *)
PushQuietly(t, q) ==
  /\ Trying(t, "push", q)
  /\ ~closed[q] /\ Len(items[q]) # Size
  /\ items' = [items EXCEPT ![q] = Append(@, call[t].value)]
  /\ GoOn(t, "notifyFull")
  /\ UNCHANGED <<closed, waiting, got>>

PushValue(t, q) ==
  /\ Trying(t, "push", q)
  /\ ~closed[q] /\ Len(items[q]) # Size
  /\ items' = [items EXCEPT ![q] = Append(@, call[t].value)]
  /\ GoOn(t, "notifyEmpty")
  /\ UNCHANGED <<closed, waiting, got>>

(* pop() *)

PopNothing(t, q) ==
  /\ Trying(t, "pop", q)
  /\ closed[q] /\ items[q] = <<>>
  /\ got' = [got EXCEPT ![t] = NoValue]
  /\ Return(t)
  /\ UNCHANGED <<items, closed, waiting>>

PopWait(t, q) ==
  /\ Trying(t, "pop", q)
  /\ ~closed[q] /\ items[q] = <<>>
  /\ waiting' = [waiting EXCEPT ![q].empty = @ \union {t}]
  /\ UNCHANGED <<items, closed, call, got>>

PopValue(t, q) ==
  /\ Trying(t, "pop", q)
  /\ items[q] # <<>>
  /\ got' = [got EXCEPT ![t] = Head(items[q])]
  /\ items' = [items EXCEPT ![q] = Tail(@)]
  /\ GoOn(t, "notifyEmpty")
  /\ UNCHANGED <<closed, waiting>>

(* close() *)

CloseAgain(t, q) ==
  /\ Trying(t, "close", q)
  /\ closed[q]
  /\ Return(t)
  /\ UNCHANGED <<items, closed, waiting, got>>

Close(t, q) ==
  /\ Trying(t, "close", q)
  /\ ~closed[q]
  /\ closed' = [closed EXCEPT ![q] = TRUE]
  /\ GoOn(t, "notifyEmpty")
  /\ UNCHANGED <<items, waiting, got>>

-----------------------------------------------------------------------------
(* The notifications after the mutex is unlocked *)

One(waiters) == IF waiters = {} THEN {{}} ELSE {{t} : t \in waiters}

(* Mutant: close() notifies like push() and pop(). *)
WokenOne(kind, waiters) == One(waiters)

(* notify_all() in close(), notify_one() elsewhere *)
Woken(kind, waiters) == IF kind = "close" THEN {waiters} ELSE One(waiters)

(* Mutant: the threads that wait for room are not notified. *)
NotifyEmptyOnly(t, q) ==
  /\ Notifying(t, "notifyEmpty", q)
  /\ \E w \in Woken(call[t].kind, waiting[q].empty) :
       waiting' = [waiting EXCEPT ![q].empty = @ \ w]
  /\ Return(t)
  /\ UNCHANGED <<items, closed, got>>

NotifyEmpty(t, q) ==
  /\ Notifying(t, "notifyEmpty", q)
  /\ \E w \in Woken(call[t].kind, waiting[q].empty) :
       waiting' = [waiting EXCEPT ![q].empty = @ \ w]
  /\ GoOn(t, "notifyFull")
  /\ UNCHANGED <<items, closed, got>>

NotifyFull(t, q) ==
  /\ Notifying(t, "notifyFull", q)
  /\ \E w \in Woken(call[t].kind, waiting[q].full) :
       waiting' = [waiting EXCEPT ![q].full = @ \ w]
  /\ Return(t)
  /\ UNCHANGED <<items, closed, got>>

SpuriousWakeup(t, q) ==
  /\ Asleep(t, q)
  /\ waiting' = [waiting EXCEPT ![q].empty = @ \ {t}, ![q].full = @ \ {t}]
  /\ UNCHANGED <<items, closed, call, got>>

-----------------------------------------------------------------------------
QueueInit ==
  /\ items = [q \in Queues |-> <<>>]
  /\ closed = [q \in Queues |-> FALSE]
  /\ waiting = [q \in Queues |-> [empty |-> {}, full |-> {}]]
  /\ call = [t \in Threads |-> NoCall]
  /\ got = [t \in Threads |-> NoValue]

InCall(t, q) ==
  \/ PushRefused(t, q) \/ PushWait(t, q) \/ PushValue(t, q)
  \/ PopNothing(t, q) \/ PopWait(t, q) \/ PopValue(t, q)
  \/ CloseAgain(t, q) \/ Close(t, q)
  \/ NotifyEmpty(t, q) \/ NotifyFull(t, q)

CallStep(t) == \E q \in Queues : InCall(t, q)

(* Threads that call whatever they like. *)
Begin(t, kind, q, value) ==
  /\ call[t] = NoCall
  /\ Enter(t, kind, q, value)
  /\ UNCHANGED <<items, closed, waiting, got>>

QueueNext ==
  \E t \in Threads :
    \/ CallStep(t)
    \/ \E q \in Queues :
         \/ SpuriousWakeup(t, q)
         \/ Begin(t, "pop", q, NoValue) \/ Begin(t, "close", q, NoValue)
         \/ \E v \in Values : Begin(t, "push", q, v)

QueueSpec == QueueInit /\ [][QueueNext]_queueVars

(* A thread inside a call runs on unless it waits; nobody has to wake it up *)
(* but the others.                                                          *)
FairQueueSpec == QueueSpec /\ \A t \in Threads : WF_queueVars(CallStep(t))

-----------------------------------------------------------------------------
(* Properties *)

QueueTypeOK ==
  /\ items \in [Queues -> Seq(Values)]
  /\ \A q \in Queues : Len(items[q]) <= Size
  /\ closed \in [Queues -> BOOLEAN]
  /\ waiting \in [Queues -> [empty : SUBSET Threads, full : SUBSET Threads]]
  /\ call \in [Threads -> Call \union {NoCall}]
  /\ got \in [Threads -> Values \union {NoValue}]

(* What keeps notify_one() from losing a wakeup: while a thread waits for an *)
(* item that is there, or for the end of a closed queue, either a            *)
(* notification of that event is still to come, or somebody who is awake     *)
(* will take the item and then notify the next one.                          *)
NoLostPop ==
  \A q \in Queues :
    waiting[q].empty # {} =>
      /\ items[q] # <<>> =>
           \E t \in Threads : Trying(t, "pop", q) \/ Notifying(t, "notifyEmpty", q)
      /\ closed[q] =>
           \E t \in Threads : Notifying(t, "notifyEmpty", q) /\ call[t].kind = "close"

(* The same for threads that wait for room. *)
NoLostPush ==
  \A q \in Queues :
    waiting[q].full # {} =>
      /\ Len(items[q]) # Size =>
           \E t \in Threads :
             \/ Trying(t, "push", q)
             \/ Notifying(t, "notifyEmpty", q) \/ Notifying(t, "notifyFull", q)
      /\ closed[q] =>
           \E t \in Threads :
             /\ Notifying(t, "notifyEmpty", q) \/ Notifying(t, "notifyFull", q)
             /\ call[t].kind = "close"

(* close() releases everybody: no call on a closed queue lasts for ever. *)
CloseReleases ==
  \A q \in Queues, t \in Threads :
    closed[q] /\ call[t] # NoCall /\ call[t].queue = q ~> call[t] = NoCall
=============================================================================
