--------------------------- MODULE DatasetProofs ---------------------------
(***************************************************************************)
(* No wakeup of a blocking queue is lost, for any number of threads and    *)
(* queues of any size.  The two properties are inductive together once it  *)
(* is known that whoever waits is in the middle of the call that waits;    *)
(* the thread that saves a waiter is then the one that has just acted, or  *)
(* one that the step does not touch.                                       *)
(*                                                                         *)
(* The threads of make_dataset use their queues as BlockingQueue allows,   *)
(* so no wakeup is lost between them, and they close the queues in an      *)
(* order in which no push() is ever refused: whoever pushes has not been   *)
(* joined yet, and a queue is closed only after its producers are.  The    *)
(* header of the file comes before everything the workers make: until it   *)
(* is in the queue of strings, nobody has anything else to put there.  And *)
(* no row is lost or doubled on its way: it is in the batch, in the hands  *)
(* of one thread, in a queue, or in the file.                              *)
(*                                                                         *)
(* And the rows are those that the format promises, for every file.  The   *)
(* reader is followed line by line: inside a game all lines so far are     *)
(* fine, and the commands and boards it holds are those of these lines;    *)
(* the games before it can all be used, they were counted, and their rows  *)
(* are there.                                                              *)
(***************************************************************************)
EXTENDS MakeDataset, OrderFacts, FiniteSetTheorems, SequenceTheorems, TLAPS

-----------------------------------------------------------------------------
(* Blocking queues *)

(* A thread waits for an item inside pop(), and for room inside push(). *)
WaitersCall ==
  \A q \in Queues, t \in Threads :
    /\ t \in waiting[q].empty =>
         call[t] # NoCall /\ call[t].kind = "pop" /\ call[t].step = "try" /\ call[t].queue = q
    /\ t \in waiting[q].full =>
         call[t] # NoCall /\ call[t].kind = "push" /\ call[t].step = "try" /\ call[t].queue = q

(* A call carries a value exactly if it is a push(). *)
PushesCarry ==
  \A t \in Threads : call[t] # NoCall /\ call[t].kind = "push" => call[t].value \in Values

(* The two properties, for one queue. *)
PopSafe(q) ==
  waiting[q].empty # {} =>
    /\ items[q] # <<>> =>
         \E t \in Threads : Trying(t, "pop", q) \/ Notifying(t, "notifyEmpty", q)
    /\ closed[q] =>
         \E t \in Threads : Notifying(t, "notifyEmpty", q) /\ call[t].kind = "close"

PushSafe(q) ==
  waiting[q].full # {} =>
    /\ Len(items[q]) # Size =>
         \E t \in Threads :
           \/ Trying(t, "push", q)
           \/ Notifying(t, "notifyEmpty", q) \/ Notifying(t, "notifyFull", q)
    /\ closed[q] =>
         \E t \in Threads :
           /\ Notifying(t, "notifyEmpty", q) \/ Notifying(t, "notifyFull", q)
           /\ call[t].kind = "close"

Safe == \A q \in Queues : PopSafe(q) /\ PushSafe(q)

(* The two properties, queue by queue. *)
LEMMA SafeIsNoLost == Safe <=> NoLostPop /\ NoLostPush
BY DEF Safe, PopSafe, PushSafe, NoLostPop, NoLostPush

QueueInv == QueueTypeOK /\ WaitersCall /\ PushesCarry /\ Safe

(* What a step of thread t leaves alone: the calls of others, and their sleep. *)
Spares(t) ==
  /\ \A u \in Threads : u # t => call'[u] = call[u]
  /\ \A q \in Queues :
       /\ waiting'[q].empty \subseteq waiting[q].empty \union {t}
       /\ waiting'[q].full \subseteq waiting[q].full \union {t}

Same(q) == items'[q] = items[q] /\ closed'[q] = closed[q]

-----------------------------------------------------------------------------
(* A thread that is awake in a call stays there while another one steps. *)
LEMMA OthersGoOn ==
  ASSUME NEW t \in Threads, NEW u \in Threads, u # t, Spares(t), NEW q \in Queues
  PROVE  /\ Trying(u, "pop", q) => Trying(u, "pop", q)'
         /\ Trying(u, "push", q) => Trying(u, "push", q)'
         /\ Notifying(u, "notifyEmpty", q) => Notifying(u, "notifyEmpty", q)'
         /\ Notifying(u, "notifyFull", q) => Notifying(u, "notifyFull", q)'
         /\ call'[u] = call[u]
<1>1. call'[u] = call[u]
  BY DEF Spares
<1>2. Asleep(u, q)' => Asleep(u, q)
  BY DEF Spares, Asleep
<1> QED
  BY <1>1, <1>2 DEF Trying, Notifying, AtStep

(* A step keeps a queue safe for consumers if it neither touches the queue, *)
(* nor adds waiters, nor is made by a thread that may save them.            *)
LEMMA PopKept ==
  ASSUME NEW t \in Threads, Spares(t), NEW q \in Queues, PopSafe(q), Same(q),
         waiting'[q].empty \subseteq waiting[q].empty,
         ~Trying(t, "pop", q), ~Notifying(t, "notifyEmpty", q)
  PROVE  PopSafe(q)'
<1> SUFFICES ASSUME waiting'[q].empty # {} PROVE PopSafe(q)'
  BY DEF PopSafe
<1>1. waiting[q].empty # {}
  OBVIOUS
<1>2. ASSUME items[q] # <<>>
      PROVE  \E u \in Threads : Trying(u, "pop", q)' \/ Notifying(u, "notifyEmpty", q)'
  BY <1>1, <1>2, OthersGoOn DEF PopSafe
<1>3. ASSUME closed[q]
      PROVE  \E u \in Threads : Notifying(u, "notifyEmpty", q)' /\ call'[u].kind = "close"
  <2>1. PICK u \in Threads : Notifying(u, "notifyEmpty", q) /\ call[u].kind = "close"
    BY <1>1, <1>3 DEF PopSafe
  <2> QED
    BY <2>1, OthersGoOn
<1> QED
  BY <1>2, <1>3 DEF PopSafe, Same

(* The same for threads that wait for room. *)
LEMMA PushKept ==
  ASSUME NEW t \in Threads, Spares(t), NEW q \in Queues, PushSafe(q), Same(q),
         waiting'[q].full \subseteq waiting[q].full,
         ~Trying(t, "push", q), ~Notifying(t, "notifyEmpty", q), ~Notifying(t, "notifyFull", q)
  PROVE  PushSafe(q)'
<1> SUFFICES ASSUME waiting'[q].full # {} PROVE PushSafe(q)'
  BY DEF PushSafe
<1>1. waiting[q].full # {}
  OBVIOUS
<1>2. ASSUME Len(items[q]) # Size
      PROVE  \E u \in Threads :
               \/ Trying(u, "push", q)'
               \/ Notifying(u, "notifyEmpty", q)' \/ Notifying(u, "notifyFull", q)'
  BY <1>1, <1>2, OthersGoOn DEF PushSafe
<1>3. ASSUME closed[q]
      PROVE  \E u \in Threads :
               /\ Notifying(u, "notifyEmpty", q)' \/ Notifying(u, "notifyFull", q)'
               /\ call'[u].kind = "close"
  <2>1. PICK u \in Threads : /\ Notifying(u, "notifyEmpty", q) \/ Notifying(u, "notifyFull", q)
                             /\ call[u].kind = "close"
    BY <1>1, <1>3 DEF PushSafe
  <2> QED
    BY <2>1, OthersGoOn
<1> QED
  BY <1>2, <1>3 DEF PushSafe, Same

(* The queues that a call is not about are as safe as before. *)
LEMMA OtherQueuesSafe ==
  ASSUME NEW t \in Threads, Spares(t), NEW q \in Queues, Safe,
         call[t] # NoCall => call[t].queue = q,
         \A p \in Queues : p # q => Same(p) /\ waiting'[p] = waiting[p],
         PopSafe(q)', PushSafe(q)'
  PROVE  Safe'
<1> SUFFICES ASSUME NEW p \in Queues, p # q PROVE PopSafe(p)' /\ PushSafe(p)'
  BY DEF Safe
<1>1. ~Trying(t, "pop", p) /\ ~Trying(t, "push", p)
  BY DEF Trying, AtStep
<1>2. ~Notifying(t, "notifyEmpty", p) /\ ~Notifying(t, "notifyFull", p)
  BY DEF Notifying, AtStep
<1> QED
  BY <1>1, <1>2, PopKept, PushKept DEF Safe

(* A thread awake in its call waits in no queue. *)
LEMMA AwakeNowhere ==
  ASSUME WaitersCall, NEW t \in Threads, call[t] = NoCall \/ ~Asleep(t, call[t].queue)
  PROVE  \A q \in Queues : t \notin waiting[q].empty /\ t \notin waiting[q].full
BY DEF WaitersCall, Asleep

(* The other waiters are still in their calls. *)
LEMMA WaitersKept ==
  ASSUME WaitersCall, NEW t \in Threads, Spares(t),
         \A q \in Queues : t \notin waiting'[q].empty /\ t \notin waiting'[q].full
  PROVE  WaitersCall'
BY DEF WaitersCall, Spares

(* A push keeps what it carries. *)
LEMMA PushesKept ==
  ASSUME PushesCarry, NEW t \in Threads, Spares(t),
         call'[t] = NoCall \/ call'[t].kind # "push" \/ call'[t].value \in Values
  PROVE  PushesCarry'
BY DEF PushesCarry, Spares

-----------------------------------------------------------------------------
(* The changes that calls are made of *)

(* What Return, GoOn and Enter do to the calls. *)
LEMMA ReturnFacts ==
  ASSUME QueueTypeOK, NEW t \in Threads, Return(t)
  PROVE  /\ call' \in [Threads -> Call \union {NoCall}]
         /\ \A u \in Threads : u # t => call'[u] = call[u]
         /\ call'[t] = NoCall
BY DEF Return, QueueTypeOK

LEMMA GoOnFacts ==
  ASSUME QueueTypeOK, NEW t \in Threads, call[t] # NoCall,
         NEW step \in {"try", "notifyEmpty", "notifyFull"}, GoOn(t, step)
  PROVE  /\ call' \in [Threads -> Call \union {NoCall}]
         /\ \A u \in Threads : u # t => call'[u] = call[u]
         /\ call'[t] # NoCall /\ call'[t].step = step
         /\ call'[t].kind = call[t].kind /\ call'[t].queue = call[t].queue
         /\ call'[t].value = call[t].value
<1>1. call[t] \in Call /\ call \in [Threads -> Call \union {NoCall}]
  BY DEF QueueTypeOK
<1>2. [call[t] EXCEPT !.step = step] \in Call
  BY <1>1 DEF Call
<1>3. call' = [call EXCEPT ![t] = [call[t] EXCEPT !.step = step]]
  BY DEF GoOn
<1>4. call'[t] = [call[t] EXCEPT !.step = step]
  BY <1>1, <1>3
<1>5. call'[t] # NoCall
  BY <1>2, <1>4, NoCallAssumption
<1> QED
  BY <1>1, <1>2, <1>3, <1>4, <1>5 DEF Call

LEMMA EnterFacts ==
  ASSUME QueueTypeOK, NEW t \in Threads, NEW kind \in {"push", "pop", "close"},
         NEW q \in Queues, NEW value \in Values \union {NoValue}, Enter(t, kind, q, value)
  PROVE  /\ call' \in [Threads -> Call \union {NoCall}]
         /\ \A u \in Threads : u # t => call'[u] = call[u]
         /\ call'[t] # NoCall /\ call'[t].step = "try"
         /\ call'[t].kind = kind /\ call'[t].queue = q /\ call'[t].value = value
<1> DEFINE c == [kind |-> kind, queue |-> q, value |-> value, step |-> "try"]
<1>1. c \in Call /\ c # NoCall
  BY NoCallAssumption DEF Call
<1>2. call' = [call EXCEPT ![t] = c]
  BY DEF Enter
<1>3. call'[t] = c /\ call \in [Threads -> Call \union {NoCall}]
  BY <1>2 DEF QueueTypeOK
<1> QED
  BY <1>1, <1>2, <1>3

-----------------------------------------------------------------------------
(* The steps inside a call *)

(* Every step of a call keeps the invariant: push() ... *)
LEMMA PushRefusedInv ==
  ASSUME QueueInv, NEW t \in Threads, NEW q \in Queues, PushRefused(t, q)
  PROVE  QueueInv'
<1>1. /\ Trying(t, "push", q) /\ call[t] # NoCall /\ call[t].queue = q /\ closed[q]
      /\ Return(t) /\ UNCHANGED <<items, closed, waiting, got>>
  BY DEF PushRefused, Trying, AtStep
<1>2. /\ call' \in [Threads -> Call \union {NoCall}] /\ call'[t] = NoCall
      /\ \A u \in Threads : u # t => call'[u] = call[u]
  BY <1>1, ReturnFacts DEF QueueInv
<1>3. Spares(t)
  BY <1>1, <1>2 DEF Spares
<1>4. WaitersCall' /\ PushesCarry'
  BY <1>1, <1>2, <1>3, AwakeNowhere, WaitersKept, PushesKept DEF QueueInv, Trying, AtStep
<1>5. PopSafe(q)'
  BY <1>1, <1>3, PopKept DEF QueueInv, Safe, Same, Trying, Notifying, AtStep
<1>6. PushSafe(q)'
  <2> SUFFICES ASSUME waiting[q].full # {} PROVE PushSafe(q)'
    BY <1>1 DEF PushSafe
  <2>1. PICK u \in Threads : /\ Notifying(u, "notifyEmpty", q) \/ Notifying(u, "notifyFull", q)
                             /\ call[u].kind = "close"
    BY <1>1 DEF QueueInv, Safe, PushSafe
  <2>2. u # t
    BY <1>1, <2>1 DEF Trying, Notifying, AtStep
  <2> QED
    BY <1>3, <2>1, <2>2, OthersGoOn DEF PushSafe
<1>7. Safe'
  BY <1>1, <1>3, <1>5, <1>6, OtherQueuesSafe DEF QueueInv, Same
<1> QED
  BY <1>1, <1>2, <1>4, <1>7 DEF QueueInv, QueueTypeOK

LEMMA PushWaitInv ==
  ASSUME QueueInv, NEW t \in Threads, NEW q \in Queues, PushWait(t, q)
  PROVE  QueueInv'
<1>1. /\ Trying(t, "push", q) /\ call[t] # NoCall /\ call[t].queue = q
      /\ call[t].kind = "push" /\ call[t].step = "try"
      /\ ~closed[q] /\ Len(items[q]) = Size /\ UNCHANGED <<items, closed, call, got>>
      /\ waiting' = [waiting EXCEPT ![q].full = @ \union {t}]
  BY DEF PushWait, Trying, AtStep
<1>2. /\ waiting' \in [Queues -> [empty : SUBSET Threads, full : SUBSET Threads]]
      /\ waiting'[q].full = waiting[q].full \union {t} /\ waiting'[q].empty = waiting[q].empty
      /\ \A p \in Queues : p # q => waiting'[p] = waiting[p]
  BY <1>1, ZenonT(60) DEF QueueInv, QueueTypeOK
<1>3. Spares(t)
  BY <1>1, <1>2 DEF Spares
<1>4. WaitersCall'
  BY <1>1, <1>2 DEF QueueInv, WaitersCall
<1>5. PopSafe(q)'
  BY <1>1, <1>2, <1>3, PopKept DEF QueueInv, Safe, Same, Trying, Notifying, AtStep
<1>6. PushSafe(q)'
  BY <1>1 DEF PushSafe
<1>7. Safe'
  BY <1>1, <1>2, <1>3, <1>5, <1>6, OtherQueuesSafe DEF QueueInv, Same
<1>8. PushesCarry'
  BY <1>1 DEF QueueInv, PushesCarry
<1> QED
  BY <1>1, <1>2, <1>4, <1>7, <1>8 DEF QueueInv, QueueTypeOK

LEMMA PushValueInv ==
  ASSUME QueueInv, NEW t \in Threads, NEW q \in Queues, PushValue(t, q)
  PROVE  QueueInv'
<1>1. /\ Trying(t, "push", q) /\ call[t] # NoCall /\ call[t].queue = q
      /\ call[t].kind = "push" /\ call[t].step = "try" /\ ~Asleep(t, q)
      /\ ~closed[q] /\ Len(items[q]) # Size /\ UNCHANGED <<closed, waiting, got>>
      /\ items' = [items EXCEPT ![q] = Append(@, call[t].value)]
      /\ GoOn(t, "notifyEmpty")
  BY DEF PushValue, Trying, AtStep
<1>2. /\ call' \in [Threads -> Call \union {NoCall}]
      /\ \A u \in Threads : u # t => call'[u] = call[u]
      /\ call'[t] # NoCall /\ call'[t].step = "notifyEmpty"
      /\ call'[t].kind = "push" /\ call'[t].queue = q /\ call'[t].value = call[t].value
  BY <1>1, GoOnFacts DEF QueueInv
<1>3. Spares(t)
  BY <1>1, <1>2 DEF Spares
<1>4. call[t].value \in Values
  BY <1>1 DEF QueueInv, PushesCarry
<1>5. /\ items' \in [Queues -> Seq(Values)]
      /\ items'[q] = Append(items[q], call[t].value)
      /\ \A p \in Queues : p # q => items'[p] = items[p]
  BY <1>1, <1>4 DEF QueueInv, QueueTypeOK
<1>6. \A p \in Queues : Len(items'[p]) <= Size
  <2>1. Len(items'[q]) <= Size
    BY <1>1, <1>4, <1>5, SizeAssumption DEF QueueInv, QueueTypeOK
  <2> QED
    BY <1>5, <2>1 DEF QueueInv, QueueTypeOK
<1>7. WaitersCall' /\ PushesCarry'
  BY <1>1, <1>2, <1>3, <1>4, AwakeNowhere, WaitersKept, PushesKept DEF QueueInv, Asleep
<1>8. Notifying(t, "notifyEmpty", q)' /\ ~closed'[q]
  BY <1>1, <1>2 DEF Notifying, AtStep, Asleep
<1>9. PopSafe(q)' /\ PushSafe(q)'
  BY <1>8 DEF PopSafe, PushSafe
<1>10. Safe'
  BY <1>1, <1>3, <1>5, <1>9, OtherQueuesSafe DEF QueueInv, Same
<1> QED
  BY <1>1, <1>2, <1>5, <1>6, <1>7, <1>10 DEF QueueInv, QueueTypeOK

(* ... pop() ... *)
LEMMA PopNothingInv ==
  ASSUME QueueInv, NEW t \in Threads, NEW q \in Queues, PopNothing(t, q)
  PROVE  QueueInv'
<1>1. /\ Trying(t, "pop", q) /\ call[t] # NoCall /\ call[t].queue = q
      /\ closed[q] /\ items[q] = <<>> /\ got' = [got EXCEPT ![t] = NoValue]
      /\ Return(t) /\ UNCHANGED <<items, closed, waiting>>
  BY DEF PopNothing, Trying, AtStep
<1>2. /\ call' \in [Threads -> Call \union {NoCall}] /\ call'[t] = NoCall
      /\ \A u \in Threads : u # t => call'[u] = call[u]
  BY <1>1, ReturnFacts DEF QueueInv
<1>3. Spares(t)
  BY <1>1, <1>2 DEF Spares
<1>4. WaitersCall' /\ PushesCarry'
  BY <1>1, <1>2, <1>3, AwakeNowhere, WaitersKept, PushesKept DEF QueueInv, Trying, AtStep
<1>5. PushSafe(q)'
  BY <1>1, <1>3, PushKept DEF QueueInv, Safe, Same, Trying, Notifying, AtStep
<1>6. PopSafe(q)'
  <2> SUFFICES ASSUME waiting[q].empty # {} PROVE PopSafe(q)'
    BY <1>1 DEF PopSafe
  <2>1. PICK u \in Threads : Notifying(u, "notifyEmpty", q) /\ call[u].kind = "close"
    BY <1>1 DEF QueueInv, Safe, PopSafe
  <2>2. u # t
    BY <1>1, <2>1 DEF Trying, Notifying, AtStep
  <2> QED
    BY <1>1, <1>3, <2>1, <2>2, OthersGoOn DEF PopSafe
<1>7. Safe'
  BY <1>1, <1>3, <1>5, <1>6, OtherQueuesSafe DEF QueueInv, Same
<1> QED
  BY <1>1, <1>2, <1>4, <1>7 DEF QueueInv, QueueTypeOK

LEMMA PopWaitInv ==
  ASSUME QueueInv, NEW t \in Threads, NEW q \in Queues, PopWait(t, q)
  PROVE  QueueInv'
<1>1. /\ Trying(t, "pop", q) /\ call[t] # NoCall /\ call[t].queue = q
      /\ call[t].kind = "pop" /\ call[t].step = "try"
      /\ ~closed[q] /\ items[q] = <<>> /\ UNCHANGED <<items, closed, call, got>>
      /\ waiting' = [waiting EXCEPT ![q].empty = @ \union {t}]
  BY DEF PopWait, Trying, AtStep
<1>2. /\ waiting' \in [Queues -> [empty : SUBSET Threads, full : SUBSET Threads]]
      /\ waiting'[q].empty = waiting[q].empty \union {t} /\ waiting'[q].full = waiting[q].full
      /\ \A p \in Queues : p # q => waiting'[p] = waiting[p]
  BY <1>1, ZenonT(60) DEF QueueInv, QueueTypeOK
<1>3. Spares(t)
  BY <1>1, <1>2 DEF Spares
<1>4. WaitersCall'
  BY <1>1, <1>2 DEF QueueInv, WaitersCall
<1>5. PushSafe(q)'
  BY <1>1, <1>2, <1>3, PushKept DEF QueueInv, Safe, Same, Trying, Notifying, AtStep
<1>6. PopSafe(q)'
  BY <1>1 DEF PopSafe
<1>7. Safe'
  BY <1>1, <1>2, <1>3, <1>5, <1>6, OtherQueuesSafe DEF QueueInv, Same
<1>8. PushesCarry'
  BY <1>1 DEF QueueInv, PushesCarry
<1> QED
  BY <1>1, <1>2, <1>4, <1>7, <1>8 DEF QueueInv, QueueTypeOK

LEMMA PopValueInv ==
  ASSUME QueueInv, NEW t \in Threads, NEW q \in Queues, PopValue(t, q)
  PROVE  QueueInv'
<1>1. /\ Trying(t, "pop", q) /\ call[t] # NoCall /\ call[t].queue = q
      /\ call[t].kind = "pop" /\ call[t].step = "try" /\ ~Asleep(t, q)
      /\ items[q] # <<>> /\ UNCHANGED <<closed, waiting>>
      /\ got' = [got EXCEPT ![t] = Head(items[q])]
      /\ items' = [items EXCEPT ![q] = Tail(@)]
      /\ GoOn(t, "notifyEmpty")
  BY DEF PopValue, Trying, AtStep
<1>2. /\ call' \in [Threads -> Call \union {NoCall}]
      /\ \A u \in Threads : u # t => call'[u] = call[u]
      /\ call'[t] # NoCall /\ call'[t].step = "notifyEmpty"
      /\ call'[t].kind = "pop" /\ call'[t].queue = q
  BY <1>1, GoOnFacts DEF QueueInv
<1>3. Spares(t)
  BY <1>1, <1>2 DEF Spares
<1>4. items[q] \in Seq(Values) /\ Len(items[q]) <= Size
  BY DEF QueueInv, QueueTypeOK
<1>5. Head(items[q]) \in Values /\ Tail(items[q]) \in Seq(Values) /\ Len(Tail(items[q])) <= Size
  BY <1>1, <1>4, SizeAssumption
<1>6. /\ items' \in [Queues -> Seq(Values)] /\ items'[q] = Tail(items[q])
      /\ \A p \in Queues : p # q => items'[p] = items[p]
      /\ got' \in [Threads -> Values \union {NoValue}]
  BY <1>1, <1>5 DEF QueueInv, QueueTypeOK
<1>7. \A p \in Queues : Len(items'[p]) <= Size
  BY <1>5, <1>6 DEF QueueInv, QueueTypeOK
<1>8. WaitersCall' /\ PushesCarry'
  BY <1>1, <1>2, <1>3, AwakeNowhere, WaitersKept, PushesKept DEF QueueInv, Asleep
<1>9. Notifying(t, "notifyEmpty", q)'
  BY <1>1, <1>2 DEF Notifying, AtStep, Asleep
<1>10. PopSafe(q)'
  <2> SUFFICES ASSUME waiting[q].empty # {}, closed[q]
               PROVE  \E u \in Threads : Notifying(u, "notifyEmpty", q)' /\ call'[u].kind = "close"
    BY <1>1, <1>9 DEF PopSafe
  <2>1. PICK u \in Threads : Notifying(u, "notifyEmpty", q) /\ call[u].kind = "close"
    BY DEF QueueInv, Safe, PopSafe
  <2>2. u # t
    BY <1>1, <2>1
  <2> QED
    BY <1>3, <2>1, <2>2, OthersGoOn
<1>11. PushSafe(q)'
  <2> SUFFICES ASSUME waiting[q].full # {}, closed[q]
               PROVE  \E u \in Threads :
                        /\ Notifying(u, "notifyEmpty", q)' \/ Notifying(u, "notifyFull", q)'
                        /\ call'[u].kind = "close"
    BY <1>1, <1>9 DEF PushSafe
  <2>1. PICK u \in Threads : /\ Notifying(u, "notifyEmpty", q) \/ Notifying(u, "notifyFull", q)
                             /\ call[u].kind = "close"
    BY DEF QueueInv, Safe, PushSafe
  <2>2. u # t
    BY <1>1, <2>1
  <2> QED
    BY <1>3, <2>1, <2>2, OthersGoOn
<1>12. Safe'
  BY <1>1, <1>3, <1>6, <1>10, <1>11, OtherQueuesSafe DEF QueueInv, Same
<1> QED
  BY <1>1, <1>2, <1>6, <1>7, <1>8, <1>12 DEF QueueInv, QueueTypeOK

(* ... close() ... *)
LEMMA CloseAgainInv ==
  ASSUME QueueInv, NEW t \in Threads, NEW q \in Queues, CloseAgain(t, q)
  PROVE  QueueInv'
<1>1. /\ Trying(t, "close", q) /\ call[t] # NoCall /\ call[t].queue = q
      /\ Return(t) /\ UNCHANGED <<items, closed, waiting, got>>
  BY DEF CloseAgain, Trying, AtStep
<1>2. /\ call' \in [Threads -> Call \union {NoCall}] /\ call'[t] = NoCall
      /\ \A u \in Threads : u # t => call'[u] = call[u]
  BY <1>1, ReturnFacts DEF QueueInv
<1>3. Spares(t)
  BY <1>1, <1>2 DEF Spares
<1>4. WaitersCall' /\ PushesCarry'
  BY <1>1, <1>2, <1>3, AwakeNowhere, WaitersKept, PushesKept DEF QueueInv, Trying, AtStep
<1>5. PopSafe(q)' /\ PushSafe(q)'
  BY <1>1, <1>3, PopKept, PushKept DEF QueueInv, Safe, Same, Trying, Notifying, AtStep
<1>6. Safe'
  BY <1>1, <1>3, <1>5, OtherQueuesSafe DEF QueueInv, Same
<1> QED
  BY <1>1, <1>2, <1>4, <1>6 DEF QueueInv, QueueTypeOK

LEMMA CloseInv ==
  ASSUME QueueInv, NEW t \in Threads, NEW q \in Queues, Close(t, q)
  PROVE  QueueInv'
<1>1. /\ Trying(t, "close", q) /\ call[t] # NoCall /\ call[t].queue = q
      /\ call[t].kind = "close" /\ ~Asleep(t, q)
      /\ closed' = [closed EXCEPT ![q] = TRUE]
      /\ GoOn(t, "notifyEmpty") /\ UNCHANGED <<items, waiting, got>>
  BY DEF Close, Trying, AtStep
<1>2. /\ call' \in [Threads -> Call \union {NoCall}]
      /\ \A u \in Threads : u # t => call'[u] = call[u]
      /\ call'[t] # NoCall /\ call'[t].step = "notifyEmpty"
      /\ call'[t].kind = "close" /\ call'[t].queue = q
  BY <1>1, GoOnFacts DEF QueueInv
<1>3. Spares(t)
  BY <1>1, <1>2 DEF Spares
<1>4. /\ closed' \in [Queues -> BOOLEAN]
      /\ \A p \in Queues : p # q => closed'[p] = closed[p]
  BY <1>1 DEF QueueInv, QueueTypeOK
<1>5. WaitersCall' /\ PushesCarry'
  BY <1>1, <1>2, <1>3, AwakeNowhere, WaitersKept, PushesKept DEF QueueInv, Asleep
<1>6. Notifying(t, "notifyEmpty", q)'
  BY <1>1, <1>2 DEF Notifying, AtStep, Asleep
<1>7. PopSafe(q)' /\ PushSafe(q)'
  BY <1>2, <1>6 DEF PopSafe, PushSafe
<1>8. Safe'
  BY <1>1, <1>3, <1>4, <1>7, OtherQueuesSafe DEF QueueInv, Same
<1> QED
  BY <1>1, <1>2, <1>4, <1>5, <1>8 DEF QueueInv, QueueTypeOK

(* Nobody, one waiter, or all of them. *)
LEMMA WokenFacts ==
  ASSUME NEW kind, NEW waiters, NEW w \in Woken(kind, waiters), waiters \ w # {}
  PROVE  kind # "close" /\ \E u \in waiters : w = {u}
BY DEF Woken, One

(* ... the notifications, which wake whom the next step needs ... *)
LEMMA NotifyEmptyInv ==
  ASSUME QueueInv, NEW t \in Threads, NEW q \in Queues, NotifyEmpty(t, q)
  PROVE  QueueInv'
<1>1. PICK w \in Woken(call[t].kind, waiting[q].empty) :
        waiting' = [waiting EXCEPT ![q].empty = @ \ w]
  BY DEF NotifyEmpty
<1>2. /\ Notifying(t, "notifyEmpty", q) /\ call[t] # NoCall /\ call[t].queue = q
      /\ call[t].step = "notifyEmpty" /\ ~Asleep(t, q)
      /\ GoOn(t, "notifyFull") /\ UNCHANGED <<items, closed, got>>
  BY DEF NotifyEmpty, Notifying, AtStep
<1>3. /\ call' \in [Threads -> Call \union {NoCall}]
      /\ \A u \in Threads : u # t => call'[u] = call[u]
      /\ call'[t] # NoCall /\ call'[t].step = "notifyFull"
      /\ call'[t].kind = call[t].kind /\ call'[t].queue = q /\ call'[t].value = call[t].value
  BY <1>2, GoOnFacts DEF QueueInv
<1>4. /\ waiting' \in [Queues -> [empty : SUBSET Threads, full : SUBSET Threads]]
      /\ waiting'[q].empty = waiting[q].empty \ w /\ waiting'[q].full = waiting[q].full
      /\ \A p \in Queues : p # q => waiting'[p] = waiting[p]
  BY <1>1 DEF QueueInv, QueueTypeOK
<1>5. Spares(t)
  BY <1>3, <1>4 DEF Spares
<1>6. \A p \in Queues : t \notin waiting'[p].empty /\ t \notin waiting'[p].full
  BY <1>2, <1>4, AwakeNowhere DEF QueueInv
<1>7. WaitersCall' /\ PushesCarry'
  BY <1>2, <1>3, <1>5, <1>6, WaitersKept, PushesKept DEF QueueInv, PushesCarry
<1>8. Notifying(t, "notifyFull", q)'
  BY <1>3, <1>6 DEF Notifying, AtStep, Asleep
<1>9. PopSafe(q)'
  <2> SUFFICES ASSUME waiting[q].empty \ w # {} PROVE PopSafe(q)'
    BY <1>4 DEF PopSafe
  <2>1. PICK u \in waiting[q].empty : call[t].kind # "close" /\ w = {u}
    BY <1>1, WokenFacts
  <2>2. u \in Threads /\ Trying(u, "pop", q)'
    <3>1. /\ u \in Threads /\ u \notin waiting[q].full /\ u # t
          /\ call[u] # NoCall /\ call[u].kind = "pop" /\ call[u].step = "try" /\ call[u].queue = q
      BY <1>2, <2>1 DEF QueueInv, QueueTypeOK, WaitersCall
    <3>2. ~Asleep(u, q)'
      BY <1>4, <2>1, <3>1 DEF Asleep
    <3> QED
      BY <1>3, <3>1, <3>2 DEF Trying, AtStep
  <2>3. ASSUME closed[q]
        PROVE  \E v \in Threads : Notifying(v, "notifyEmpty", q)' /\ call'[v].kind = "close"
    <3>1. PICK v \in Threads : Notifying(v, "notifyEmpty", q) /\ call[v].kind = "close"
      BY <2>3 DEF QueueInv, Safe, PopSafe
    <3>2. v # t
      BY <2>1, <3>1
    <3> QED
      BY <1>5, <3>1, <3>2, OthersGoOn
  <2> QED
    BY <1>2, <2>2, <2>3 DEF PopSafe
<1>10. PushSafe(q)'
  <2> SUFFICES ASSUME waiting[q].full # {}, closed[q]
               PROVE  \E u \in Threads :
                        /\ Notifying(u, "notifyEmpty", q)' \/ Notifying(u, "notifyFull", q)'
                        /\ call'[u].kind = "close"
    BY <1>2, <1>4, <1>8 DEF PushSafe
  <2>1. PICK u \in Threads : /\ Notifying(u, "notifyEmpty", q) \/ Notifying(u, "notifyFull", q)
                             /\ call[u].kind = "close"
    BY DEF QueueInv, Safe, PushSafe
  <2>2. CASE u = t
    BY <1>3, <1>8, <2>1, <2>2
  <2>3. CASE u # t
    BY <1>5, <2>1, <2>3, OthersGoOn
  <2> QED
    BY <2>2, <2>3
<1>11. Safe'
  BY <1>2, <1>4, <1>5, <1>9, <1>10, OtherQueuesSafe DEF QueueInv, Same
<1> QED
  BY <1>2, <1>3, <1>4, <1>7, <1>11 DEF QueueInv, QueueTypeOK

LEMMA NotifyFullInv ==
  ASSUME QueueInv, NEW t \in Threads, NEW q \in Queues, NotifyFull(t, q)
  PROVE  QueueInv'
<1>1. PICK w \in Woken(call[t].kind, waiting[q].full) :
        waiting' = [waiting EXCEPT ![q].full = @ \ w]
  BY DEF NotifyFull
<1>2. /\ Notifying(t, "notifyFull", q) /\ call[t] # NoCall /\ call[t].queue = q
      /\ call[t].step = "notifyFull" /\ ~Asleep(t, q)
      /\ Return(t) /\ UNCHANGED <<items, closed, got>>
  BY DEF NotifyFull, Notifying, AtStep
<1>3. /\ call' \in [Threads -> Call \union {NoCall}] /\ call'[t] = NoCall
      /\ \A u \in Threads : u # t => call'[u] = call[u]
  BY <1>2, ReturnFacts DEF QueueInv
<1>4. /\ waiting' \in [Queues -> [empty : SUBSET Threads, full : SUBSET Threads]]
      /\ waiting'[q].full = waiting[q].full \ w /\ waiting'[q].empty = waiting[q].empty
      /\ \A p \in Queues : p # q => waiting'[p] = waiting[p]
  BY <1>1 DEF QueueInv, QueueTypeOK
<1>5. Spares(t)
  BY <1>3, <1>4 DEF Spares
<1>6. \A p \in Queues : t \notin waiting'[p].empty /\ t \notin waiting'[p].full
  BY <1>2, <1>4, AwakeNowhere DEF QueueInv
<1>7. WaitersCall' /\ PushesCarry'
  BY <1>3, <1>5, <1>6, WaitersKept, PushesKept DEF QueueInv
<1>8. PopSafe(q)'
  BY <1>2, <1>4, <1>5, PopKept DEF QueueInv, Safe, Same, Trying, Notifying, AtStep
<1>9. PushSafe(q)'
  <2> SUFFICES ASSUME waiting[q].full \ w # {} PROVE PushSafe(q)'
    BY <1>4 DEF PushSafe
  <2>1. PICK u \in waiting[q].full : call[t].kind # "close" /\ w = {u}
    BY <1>1, WokenFacts
  <2>2. u \in Threads /\ Trying(u, "push", q)'
    <3>1. /\ u \in Threads /\ u \notin waiting[q].empty /\ u # t
          /\ call[u] # NoCall /\ call[u].kind = "push" /\ call[u].step = "try" /\ call[u].queue = q
      BY <1>2, <2>1 DEF QueueInv, QueueTypeOK, WaitersCall
    <3>2. ~Asleep(u, q)'
      BY <1>4, <2>1, <3>1 DEF Asleep
    <3> QED
      BY <1>3, <3>1, <3>2 DEF Trying, AtStep
  <2>3. ASSUME closed[q]
        PROVE  \E v \in Threads :
                 /\ Notifying(v, "notifyEmpty", q)' \/ Notifying(v, "notifyFull", q)'
                 /\ call'[v].kind = "close"
    <3>1. PICK v \in Threads : /\ Notifying(v, "notifyEmpty", q) \/ Notifying(v, "notifyFull", q)
                               /\ call[v].kind = "close"
      BY <2>3 DEF QueueInv, Safe, PushSafe
    <3>2. v # t
      BY <2>1, <3>1
    <3> QED
      BY <1>5, <3>1, <3>2, OthersGoOn
  <2> QED
    BY <1>2, <2>2, <2>3 DEF PushSafe
<1>10. Safe'
  BY <1>2, <1>4, <1>5, <1>8, <1>9, OtherQueuesSafe DEF QueueInv, Same
<1> QED
  BY <1>2, <1>3, <1>4, <1>7, <1>10 DEF QueueInv, QueueTypeOK

-----------------------------------------------------------------------------
(* Spurious wakeups and new calls *)

(* ... a wakeup out of the blue, and the beginning of a call. *)
LEMMA SpuriousWakeupInv ==
  ASSUME QueueInv, NEW t \in Threads, NEW q \in Queues, SpuriousWakeup(t, q)
  PROVE  QueueInv'
<1>1. /\ Asleep(t, q) /\ UNCHANGED <<items, closed, call, got>>
      /\ waiting' = [waiting EXCEPT ![q].empty = @ \ {t}, ![q].full = @ \ {t}]
  BY DEF SpuriousWakeup
<1>2. /\ waiting' \in [Queues -> [empty : SUBSET Threads, full : SUBSET Threads]]
      /\ waiting'[q].full = waiting[q].full \ {t} /\ waiting'[q].empty = waiting[q].empty \ {t}
      /\ \A p \in Queues : p # q => waiting'[p] = waiting[p]
  BY <1>1 DEF QueueInv, QueueTypeOK
<1>3. Spares(t)
  BY <1>1, <1>2 DEF Spares
<1>4. call[t].queue = q /\ \A p \in Queues : p # q => ~Asleep(t, p)
  BY <1>1 DEF QueueInv, WaitersCall, Asleep
<1>5. WaitersCall' /\ PushesCarry'
  BY <1>1, <1>2 DEF QueueInv, WaitersCall, PushesCarry
<1>6. ~Trying(t, "pop", q) /\ ~Trying(t, "push", q)
      /\ ~Notifying(t, "notifyEmpty", q) /\ ~Notifying(t, "notifyFull", q)
  BY <1>1 DEF Trying, Notifying, AtStep
<1>7. PopSafe(q)' /\ PushSafe(q)'
  BY <1>1, <1>2, <1>3, <1>6, PopKept, PushKept DEF QueueInv, Safe, Same
<1>8. Safe'
  BY <1>1, <1>2, <1>3, <1>4, <1>7, OtherQueuesSafe DEF QueueInv, Same
<1> QED
  BY <1>1, <1>2, <1>5, <1>8 DEF QueueInv, QueueTypeOK

LEMMA BeginInv ==
  ASSUME QueueInv, NEW t \in Threads, NEW q \in Queues, NEW kind \in {"push", "pop", "close"},
         NEW value \in Values \union {NoValue}, kind = "push" => value \in Values,
         Begin(t, kind, q, value)
  PROVE  QueueInv'
<1>1. call[t] = NoCall /\ Enter(t, kind, q, value) /\ UNCHANGED <<items, closed, waiting, got>>
  BY DEF Begin
<1>2. /\ call' \in [Threads -> Call \union {NoCall}]
      /\ \A u \in Threads : u # t => call'[u] = call[u]
      /\ call'[t] # NoCall /\ call'[t].kind = kind /\ call'[t].value = value
  BY <1>1, EnterFacts DEF QueueInv
<1>3. Spares(t)
  BY <1>1, <1>2 DEF Spares
<1>4. WaitersCall' /\ PushesCarry'
  BY <1>1, <1>2, <1>3, AwakeNowhere, WaitersKept, PushesKept DEF QueueInv
<1>5. \A p \in Queues : /\ ~Trying(t, "pop", p) /\ ~Trying(t, "push", p)
                        /\ ~Notifying(t, "notifyEmpty", p) /\ ~Notifying(t, "notifyFull", p)
  BY <1>1 DEF Trying, Notifying, AtStep
<1>6. Safe'
  BY <1>1, <1>3, <1>5, PopKept, PushKept DEF QueueInv, Safe, Same
<1> QED
  BY <1>1, <1>2, <1>4, <1>6 DEF QueueInv, QueueTypeOK

(* All steps inside a call. *)
LEMMA InCallInv ==
  ASSUME QueueInv, NEW t \in Threads, NEW q \in Queues, InCall(t, q)
  PROVE  QueueInv'
BY PushRefusedInv, PushWaitInv, PushValueInv, PopNothingInv, PopWaitInv, PopValueInv,
   CloseAgainInv, CloseInv, NotifyEmptyInv, NotifyFullInv DEF InCall

-----------------------------------------------------------------------------
(* In the beginning nobody waits. *)
LEMMA QueueInitInv == QueueInit => QueueInv
<1> SUFFICES ASSUME QueueInit PROVE QueueInv
  OBVIOUS
<1>1. QueueTypeOK
  BY SizeAssumption DEF QueueInit, QueueTypeOK
<1>2. WaitersCall /\ PushesCarry
  BY DEF QueueInit, WaitersCall, PushesCarry
<1>3. Safe
  BY DEF QueueInit, Safe, PopSafe, PushSafe
<1> QED
  BY <1>1, <1>2, <1>3 DEF QueueInv

(* Every step keeps the invariant. *)
LEMMA QueueNextInv == QueueInv /\ [QueueNext]_queueVars => QueueInv'
<1> SUFFICES ASSUME QueueInv, [QueueNext]_queueVars PROVE QueueInv'
  OBVIOUS
<1>1. CASE UNCHANGED queueVars
  BY <1>1 DEF queueVars, QueueInv, QueueTypeOK, WaitersCall, PushesCarry, Safe, PopSafe, PushSafe,
              Trying, Notifying, AtStep, Asleep
<1>2. ASSUME NEW t \in Threads, NEW q \in Queues, InCall(t, q) PROVE QueueInv'
  BY <1>2, InCallInv
<1>3. ASSUME NEW t \in Threads, NEW q \in Queues, SpuriousWakeup(t, q) PROVE QueueInv'
  BY <1>3, SpuriousWakeupInv
<1>4. ASSUME NEW t \in Threads, NEW q \in Queues,
             \/ Begin(t, "pop", q, NoValue) \/ Begin(t, "close", q, NoValue)
             \/ \E v \in Values : Begin(t, "push", q, v)
      PROVE  QueueInv'
  <2>1. ASSUME NEW kind \in {"pop", "close"}, Begin(t, kind, q, NoValue) PROVE QueueInv'
    BY <2>1, BeginInv
  <2>2. ASSUME NEW v \in Values, Begin(t, "push", q, v) PROVE QueueInv'
    BY <2>2, BeginInv
  <2> QED
    BY <1>4, <2>1, <2>2
<1> QED
  BY <1>1, <1>2, <1>3, <1>4 DEF QueueNext, CallStep

(* The inductive invariant of the queues. *)
THEOREM QueueInvariance == QueueSpec => []QueueInv
BY QueueInitInv, QueueNextInv, PTL DEF QueueSpec

(* The queues are typed correctly, and none grows beyond its size. *)
THEOREM QueueTypeCorrect == QueueSpec => []QueueTypeOK
<1>1. QueueInv => QueueTypeOK
  BY DEF QueueInv
<1> QED
  BY <1>1, QueueInvariance, PTL

(* Whatever the threads call, a consumer is never left asleep beside an item *)
(* or a closed queue with nobody to wake it.                                 *)
THEOREM ConsumersAreWoken == QueueSpec => []NoLostPop
<1>1. QueueInv => NoLostPop
  BY SafeIsNoLost DEF QueueInv
<1> QED
  BY <1>1, QueueInvariance, PTL

(* Nor is a producer beside a free place. *)
THEOREM ProducersAreWoken == QueueSpec => []NoLostPush
<1>1. QueueInv => NoLostPush
  BY SafeIsNoLost DEF QueueInv
<1> QED
  BY <1>1, QueueInvariance, PTL

-----------------------------------------------------------------------------
(* The threads of make_dataset *)

Labels == {"start", "reading", "feeding", "closing", "joining", "leaving", "pop", "popped", "done"}

(* Who is in which call, and what is closed, follows from where they are. *)
ClosedInOrder ==
  /\ closed[BoardQueue] => pc[Main] \in {"joining", "leaving", "done"}
  /\ closed[StringQueue] => pc[Main] \in {"leaving", "done"}

ClosesInOrder ==
  \A t \in Threads : call[t] # NoCall /\ call[t].kind = "close" =>
    /\ t = Main
    /\ call[t].queue = BoardQueue => pc[Main] \in {"joining", "leaving", "done"}
    /\ call[t].queue = StringQueue => pc[Main] \in {"leaving", "done"}

PushesInOrder ==
  \A t \in Threads : call[t] # NoCall /\ call[t].kind = "push" =>
    IF t = Main THEN pc[Main] \in {"reading", "feeding", "closing"}
    ELSE t \in Workers /\ pc[t] # "done" /\ call[t].queue = StringQueue

WorkersJoined ==
  pc[Main] \in {"leaving", "done"} => \A w \in Workers : pc[w] = "done"

OrderInv == ClosedInOrder /\ ClosesInOrder /\ PushesInOrder /\ WorkersJoined

DatasetInv == QueueInv /\ DatasetTypeOK /\ OrderInv

-----------------------------------------------------------------------------
(* The main thread, the printer, the workers and the queues all differ. *)
LEMMA ThreadFacts ==
  /\ Main \in Threads /\ Printer \in Threads /\ Workers \subseteq Threads
  /\ Main \notin Workers /\ Printer \notin Workers /\ Main # Printer
  /\ BoardQueue \in Queues /\ StringQueue \in Queues /\ BoardQueue # StringQueue
  /\ \A q \in Queues : q = BoardQueue \/ q = StringQueue
BY ThreadsAssumption, QueuesAssumption

(* The order of closing is enough for no push() to be refused. *)
LEMMA OrderIsEnough == DatasetInv => PushesAreAccepted
<1> SUFFICES ASSUME DatasetInv, NEW t \in Threads, NEW q \in Queues, Trying(t, "push", q)
             PROVE  ~closed[q]
  BY DEF PushesAreAccepted
<1>1. call[t] # NoCall /\ call[t].kind = "push" /\ call[t].queue = q
  BY DEF Trying, AtStep
<1>2. CASE t = Main
  BY <1>1, <1>2, ThreadFacts DEF DatasetInv, OrderInv, PushesInOrder, ClosedInOrder
<1>3. CASE t # Main
  BY <1>1, <1>3, ThreadFacts DEF DatasetInv, OrderInv, PushesInOrder, ClosedInOrder, WorkersJoined
<1> QED
  BY <1>2, <1>3

(* A step inside a queue neither changes what a call is about nor closes *)
(* anything but by close().                                              *)
LEMMA CallGoesOn ==
  ASSUME QueueInv, NEW t \in Threads, NEW q \in Queues, InCall(t, q)
  PROVE  /\ call[t] # NoCall /\ call[t].queue = q
         /\ \A u \in Threads : u # t => call'[u] = call[u]
         /\ call'[t] # NoCall =>
              call'[t].kind = call[t].kind /\ call'[t].queue = call[t].queue
         /\ \A p \in Queues : closed'[p] => closed[p] \/ (p = q /\ call[t].kind = "close")
<1>1. call[t] # NoCall /\ call[t].queue = q
  BY DEF InCall, PushRefused, PushWait, PushValue, PopNothing, PopWait, PopValue, CloseAgain,
         Close, NotifyEmpty, NotifyFull, Trying, Notifying, AtStep
<1>2. \/ Return(t) \/ UNCHANGED call
      \/ \E step \in {"try", "notifyEmpty", "notifyFull"} : GoOn(t, step)
  <2>1. ASSUME PushRefused(t, q) \/ PopNothing(t, q) \/ CloseAgain(t, q) \/ NotifyFull(t, q)
        PROVE  Return(t)
    BY <2>1 DEF PushRefused, PopNothing, CloseAgain, NotifyFull
  <2>2. ASSUME PushWait(t, q) \/ PopWait(t, q) PROVE UNCHANGED call
    BY <2>2 DEF PushWait, PopWait
  <2>3. ASSUME PushValue(t, q) \/ PopValue(t, q) \/ Close(t, q) PROVE GoOn(t, "notifyEmpty")
    BY <2>3 DEF PushValue, PopValue, Close
  <2>4. ASSUME NotifyEmpty(t, q) PROVE GoOn(t, "notifyFull")
    BY <2>4 DEF NotifyEmpty
  <2> QED
    BY <2>1, <2>2, <2>3, <2>4 DEF InCall
<1>3. closed' = closed \/ (closed' = [closed EXCEPT ![q] = TRUE] /\ call[t].kind = "close")
  <2>1. ASSUME Close(t, q)
        PROVE  closed' = [closed EXCEPT ![q] = TRUE] /\ call[t].kind = "close"
    BY <2>1 DEF Close, Trying
  <2>2. ASSUME PushRefused(t, q) \/ PushWait(t, q) \/ PushValue(t, q) PROVE closed' = closed
    BY <2>2 DEF PushRefused, PushWait, PushValue
  <2>3. ASSUME PopNothing(t, q) \/ PopWait(t, q) \/ PopValue(t, q) PROVE closed' = closed
    BY <2>3 DEF PopNothing, PopWait, PopValue
  <2>4. ASSUME CloseAgain(t, q) \/ NotifyEmpty(t, q) \/ NotifyFull(t, q) PROVE closed' = closed
    BY <2>4 DEF CloseAgain, NotifyEmpty, NotifyFull
  <2> QED
    BY <2>1, <2>2, <2>3, <2>4 DEF InCall
<1>4. ASSUME NEW p \in Queues, closed'[p], ~closed[p]
      PROVE  p = q /\ call[t].kind = "close"
  <2>1. closed' # closed
    BY <1>4
  <2>2. closed' = [closed EXCEPT ![q] = TRUE] /\ call[t].kind = "close"
    BY <1>3, <2>1
  <2>3. p = q
    BY <1>4, <2>2 DEF QueueInv, QueueTypeOK
  <2> QED
    BY <2>2, <2>3
<1>5. /\ \A u \in Threads : u # t => call'[u] = call[u]
      /\ call'[t] # NoCall =>
           call'[t].kind = call[t].kind /\ call'[t].queue = call[t].queue
  <2>1. CASE Return(t)
    BY <2>1, ReturnFacts DEF QueueInv
  <2>2. CASE UNCHANGED call
    BY <2>2
  <2>3. CASE \E step \in {"try", "notifyEmpty", "notifyFull"} : GoOn(t, step)
    BY <1>1, <2>3, GoOnFacts DEF QueueInv
  <2> QED
    BY <1>2, <2>1, <2>2, <2>3
<1>6. \A p \in Queues : closed'[p] => closed[p] \/ (p = q /\ call[t].kind = "close")
  BY <1>4
<1> QED
  BY <1>1, <1>5, <1>6

-----------------------------------------------------------------------------
(* The steps, as the queues see them *)

(* Feeding a board to the extractor is a push of the batch, or no call. *)
LEMMA ConsumeSteps ==
  ASSUME DatasetInv, NEW board \in Boards, call[Main] = NoCall, Consume(board)
  PROVE  /\ batch' \subseteq batch \union {board} /\ fed' = fed \union {board}
         /\ \/ UNCHANGED queueVars
            \/ \E v \in Values : Begin(Main, "push", BoardQueue, v)
<1>1. batch \union {board} \in Values
  BY QueuesAssumption, BoundsAssumption DEF DatasetInv, DatasetTypeOK, Boards
<1>2. /\ fed' = fed \union {board}
      /\ \/ CallPush(Main, BoardQueue, batch \union {board}) /\ batch' = {}
         \/ batch' = batch \union {board} /\ UNCHANGED queueVars
  BY DEF Consume
<1>3. CallPush(Main, BoardQueue, batch \union {board}) =>
        Begin(Main, "push", BoardQueue, batch \union {board})
  BY DEF CallPush, Begin
<1> QED
  BY <1>1, <1>2, <1>3

(* A call that the main thread begins keeps the order if the place it goes *)
(* on from allows the call.                                                *)
LEMMA MainCalls ==
  ASSUME DatasetInv, NEW label \in Labels, NEW kind \in {"push", "close"}, NEW q \in Queues,
         NEW value \in Values \union {NoValue}, call[Main] = NoCall,
         Begin(Main, kind, q, value), Goto(Main, label),
         kind = "push" => label \in {"reading", "feeding", "closing"},
         kind = "close" /\ q = BoardQueue => label \in {"joining", "leaving", "done"},
         kind = "close" /\ q = StringQueue => label \in {"leaving", "done"},
         pc[Main] \in {"joining", "leaving", "done"} => label \in {"joining", "leaving", "done"},
         pc[Main] \in {"leaving", "done"} => label \in {"leaving", "done"},
         label \in {"leaving", "done"} => \A w \in Workers : pc[w] = "done"
  PROVE  OrderInv'
<1>1. /\ Enter(Main, kind, q, value) /\ UNCHANGED closed /\ pc' = [pc EXCEPT ![Main] = label]
      /\ QueueTypeOK
  BY DEF Begin, Goto, DatasetInv, DatasetTypeOK
<1>2. /\ \A u \in Threads : u # Main => call'[u] = call[u]
      /\ call'[Main] # NoCall /\ call'[Main].kind = kind /\ call'[Main].queue = q
  BY <1>1, ThreadFacts, EnterFacts
<1>3. pc'[Main] = label /\ \A u \in Threads : u # Main => pc'[u] = pc[u]
  BY <1>1, ThreadFacts DEF DatasetInv, DatasetTypeOK
<1>4. ClosedInOrder'
  BY <1>1, <1>3 DEF DatasetInv, OrderInv, ClosedInOrder
<1>5. ClosesInOrder'
  BY <1>2, <1>3 DEF DatasetInv, OrderInv, ClosesInOrder
<1>6. PushesInOrder'
  BY <1>2, <1>3 DEF DatasetInv, OrderInv, PushesInOrder
<1>7. WorkersJoined'
  BY <1>3, ThreadFacts DEF DatasetInv, OrderInv, WorkersJoined
<1> QED
  BY <1>4, <1>5, <1>6, <1>7 DEF OrderInv

(* The same when the main thread goes on without a call. *)
LEMMA MainGoesOn ==
  ASSUME DatasetInv, NEW label \in Labels, call[Main] = NoCall,
         UNCHANGED queueVars, Goto(Main, label),
         pc[Main] \in {"joining", "leaving", "done"} => label \in {"joining", "leaving", "done"},
         pc[Main] \in {"leaving", "done"} => label \in {"leaving", "done"},
         label \in {"leaving", "done"} => \A w \in Workers : pc[w] = "done"
  PROVE  OrderInv'
<1>1. UNCHANGED <<closed, call>> /\ pc' = [pc EXCEPT ![Main] = label]
  BY DEF Goto, queueVars
<1>2. pc'[Main] = label /\ \A u \in Threads : u # Main => pc'[u] = pc[u]
  BY <1>1, ThreadFacts DEF DatasetInv, DatasetTypeOK
<1>3. ClosedInOrder' /\ ClosesInOrder' /\ PushesInOrder'
  BY <1>1, <1>2 DEF DatasetInv, OrderInv, ClosedInOrder, ClosesInOrder, PushesInOrder
<1>4. WorkersJoined'
  BY <1>2, ThreadFacts DEF DatasetInv, OrderInv, WorkersJoined
<1> QED
  BY <1>3, <1>4 DEF OrderInv

(* Another thread keeps the order if it ends only outside a call, and *)
(* if only workers push, and only strings.                            *)
LEMMA OtherGoesOn ==
  ASSUME DatasetInv, NEW t \in Threads, t # Main, NEW label \in Labels, Goto(t, label),
         UNCHANGED closed, \A u \in Threads : u # t => call'[u] = call[u],
         pc[t] # "done",
         call'[t] # NoCall =>
           \/ call'[t].kind = "pop"
           \/ /\ call'[t].kind = "push" /\ call'[t].queue = StringQueue
              /\ t \in Workers /\ label # "done"
  PROVE  OrderInv'
<1>1. pc' = [pc EXCEPT ![t] = label]
  BY DEF Goto
<1>2. pc'[t] = label /\ \A u \in Threads : u # t => pc'[u] = pc[u]
  BY <1>1 DEF DatasetInv, DatasetTypeOK
<1>3. ClosedInOrder'
  BY <1>2, ThreadFacts DEF DatasetInv, OrderInv, ClosedInOrder
<1>4. ClosesInOrder'
  BY <1>2, ThreadFacts DEF DatasetInv, OrderInv, ClosesInOrder
<1>5. PushesInOrder'
  BY <1>2, ThreadFacts DEF DatasetInv, OrderInv, PushesInOrder
<1>6. WorkersJoined'
  BY <1>2, ThreadFacts DEF DatasetInv, OrderInv, WorkersJoined
<1> QED
  BY <1>3, <1>4, <1>5, <1>6 DEF OrderInv

(* A step inside a queue keeps the order. *)
LEMMA InQueueOrder ==
  ASSUME DatasetInv, NEW t \in Threads, InQueue(t)
  PROVE  OrderInv'
<1>1. PICK q \in Queues : InCall(t, q)
  BY DEF InQueue, CallStep
<1>2. /\ call[t] # NoCall /\ call[t].queue = q /\ UNCHANGED pc
      /\ \A u \in Threads : u # t => call'[u] = call[u]
      /\ call'[t] # NoCall =>
           call'[t].kind = call[t].kind /\ call'[t].queue = call[t].queue
  BY <1>1, CallGoesOn DEF DatasetInv, InQueue
<1>3. \A p \in Queues : closed'[p] => closed[p] \/ (p = q /\ call[t].kind = "close")
  BY <1>1, CallGoesOn DEF DatasetInv
<1>4. ClosedInOrder'
  <2>1. ASSUME closed'[BoardQueue], ~closed[BoardQueue]
        PROVE  pc[Main] \in {"joining", "leaving", "done"}
    BY <1>2, <1>3, <2>1, ThreadFacts DEF DatasetInv, OrderInv, ClosesInOrder
  <2>2. ASSUME closed'[StringQueue], ~closed[StringQueue]
        PROVE  pc[Main] \in {"leaving", "done"}
    BY <1>2, <1>3, <2>2, ThreadFacts DEF DatasetInv, OrderInv, ClosesInOrder
  <2> QED
    BY <1>2, <2>1, <2>2 DEF DatasetInv, OrderInv, ClosedInOrder
<1>5. ClosesInOrder'
  BY <1>2 DEF DatasetInv, OrderInv, ClosesInOrder
<1>6. PushesInOrder'
  BY <1>2 DEF DatasetInv, OrderInv, PushesInOrder
<1>7. WorkersJoined'
  BY <1>2 DEF DatasetInv, OrderInv, WorkersJoined
<1> QED
  BY <1>4, <1>5, <1>6, <1>7 DEF OrderInv

-----------------------------------------------------------------------------
(* What a step shows to the queues: a step of theirs, or nothing. *)
LEMMA StepUsesQueues ==
  ASSUME DatasetInv, [Next]_datasetVars
  PROVE  [QueueNext]_queueVars
<1>1. ASSUME PutHeader PROVE QueueNext
  <2>1. {Header} \in Values
    BY QueuesAssumption
  <2>2. Begin(Main, "push", StringQueue, {Header})
    BY <1>1 DEF PutHeader, CallPush, Begin, At
  <2> QED
    BY <2>1, <2>2, ThreadFacts DEF QueueNext
<1>2. ASSUME ReadBoard \/ FeedSample PROVE [QueueNext]_queueVars
  <2>1. CASE UNCHANGED queueVars
    BY <2>1
  <2>2. CASE \E board \in Boards : Consume(board) /\ call[Main] = NoCall
    BY <2>2, ConsumeSteps, ThreadFacts DEF QueueNext
  <2>3. 1..read \subseteq Boards /\ sample \subseteq Boards
    BY BoundsAssumption DEF DatasetInv, DatasetTypeOK, Boards
  <2>4. CASE ReadBoard
    <3>1. read + 1 \in Boards
      BY <2>4, BoundsAssumption DEF ReadBoard, DatasetInv, DatasetTypeOK, Boards
    <3> QED
      BY <2>1, <2>2, <2>4, <3>1 DEF ReadBoard, At
  <2>5. CASE FeedSample
    BY <2>2, <2>3, <2>5 DEF FeedSample, At
  <2> QED
    BY <1>2, <2>4, <2>5
<1>3. ASSUME DrainLastBatch PROVE [QueueNext]_queueVars
  <2>1. batch \in Values
    BY QueuesAssumption, BoundsAssumption DEF DatasetInv, DatasetTypeOK, Boards
  <2>2. Begin(Main, "push", BoardQueue, batch) \/ UNCHANGED queueVars
    BY <1>3 DEF DrainLastBatch, CallPush, Begin, At
  <2> QED
    BY <2>1, <2>2, ThreadFacts DEF QueueNext
<1>4. ASSUME CloseBoards \/ JoinWorkers PROVE QueueNext
  <2>1. \E q \in Queues : Begin(Main, "close", q, NoValue)
    BY <1>4, ThreadFacts DEF CloseBoards, JoinWorkers, CallClose, Begin, At
  <2> QED
    BY <2>1, ThreadFacts DEF QueueNext
<1>5. ASSUME EndOfInput \/ JoinPrinter \/ WriteString \/ Done PROVE UNCHANGED queueVars
  BY <1>5 DEF EndOfInput, JoinPrinter, WriteString, Done, datasetVars
<1>6. ASSUME NEW w \in Workers, WorkerNext(w) PROVE [QueueNext]_queueVars
  <2>1. CASE PopBatch(w)
    <3>1. Begin(w, "pop", BoardQueue, NoValue)
      BY <2>1 DEF PopBatch, CallPop, Begin, At
    <3> QED
      BY <3>1, ThreadFacts DEF QueueNext
  <2>2. CASE Extract(w)
    <3>1. \/ UNCHANGED queueVars
          \/ got[w] \in Values /\ Begin(w, "push", StringQueue, got[w])
      BY <2>2, ThreadFacts
         DEF Extract, CallPush, Begin, At, DatasetInv, DatasetTypeOK, QueueTypeOK
    <3> QED
      BY <3>1, ThreadFacts DEF QueueNext
  <2> QED
    BY <1>6, <2>1, <2>2 DEF WorkerNext
<1>7. ASSUME PopString PROVE QueueNext
  <2>1. Begin(Printer, "pop", StringQueue, NoValue)
    BY <1>7 DEF PopString, CallPop, Begin, At
  <2> QED
    BY <2>1, ThreadFacts DEF QueueNext
<1>8. ASSUME NEW t \in Threads, InQueue(t) PROVE QueueNext
  BY <1>8 DEF InQueue, QueueNext
<1>9. ASSUME Wakeup PROVE QueueNext
  BY <1>9 DEF Wakeup, QueueNext
<1>10. ASSUME UNCHANGED datasetVars PROVE UNCHANGED queueVars
  BY <1>10 DEF datasetVars
<1> QED
  BY <1>1, <1>2, <1>3, <1>4, <1>5, <1>6, <1>7, <1>8, <1>9, <1>10
     DEF Next, MainNext, PrinterNext

-----------------------------------------------------------------------------
(* The steps, as they change what is typed in Dataset itself *)

TypedHere ==
  /\ pc \in [Threads -> Labels]
  /\ sampleSize \in SampleSizes
  /\ read \in 0..MaxBoards
  /\ sample \subseteq 1..read /\ batch \subseteq 1..read /\ fed \subseteq 1..read
  /\ printed \in Seq(Values)

(* The type invariant is that of the queues and what is typed here. *)
LEMMA TypeParts == DatasetTypeOK <=> QueueTypeOK /\ TypedHere
BY DEF DatasetTypeOK, TypedHere, Labels

(* A thread that goes to a label stays typed. *)
LEMMA GotoTyped ==
  ASSUME TypedHere, NEW t \in Threads, NEW label \in Labels, Goto(t, label)
  PROVE  pc' \in [Threads -> Labels]
BY DEF TypedHere, Goto

(* The reservoir never holds a board that was not read. *)
LEMMA SampleTyped ==
  ASSUME TypedHere, read < MaxBoards, NEW s \in NewSample(read + 1)
  PROVE  s \subseteq 1..(read + 1)
BY BoundsAssumption DEF TypedHere, NewSample

(* The steps of the main thread keep the invariant ... *)
LEMMA ReadBoardInv ==
  ASSUME DatasetInv, ReadBoard
  PROVE  TypedHere' /\ OrderInv'
<1>1. /\ At(Main, "reading") /\ read < MaxBoards /\ read' = read + 1
      /\ UNCHANGED <<pc, sampleSize, printed>> /\ TypedHere /\ read \in Nat
  BY TypeParts DEF ReadBoard, DatasetInv, TypedHere
<1>2. read + 1 \in Boards /\ 1..read \subseteq 1..(read + 1) /\ read + 1 \in 1..(read + 1)
  BY <1>1, BoundsAssumption DEF Boards
<1>3. Goto(Main, "reading") /\ "reading" \in Labels
  BY <1>1 DEF Goto, At, TypedHere, Labels
<1>4. CASE Consume(read + 1) /\ UNCHANGED sample
  <2>1. /\ batch' \subseteq batch \union {read + 1} /\ fed' = fed \union {read + 1}
        /\ \/ UNCHANGED queueVars
           \/ \E v \in Values : Begin(Main, "push", BoardQueue, v)
    BY <1>1, <1>2, <1>4, ConsumeSteps DEF At
  <2>2. TypedHere'
    BY <1>1, <1>2, <1>4, <2>1, BoundsAssumption DEF TypedHere
  <2>3. OrderInv'
    BY <1>1, <1>3, <2>1, MainCalls, MainGoesOn, ThreadFacts DEF At
  <2> QED
    BY <2>2, <2>3
<1>5. CASE sample' \in NewSample(read + 1) /\ UNCHANGED <<queueVars, batch, fed>>
  <2>1. sample' \subseteq 1..(read + 1)
    BY <1>1, <1>5, SampleTyped
  <2>2. TypedHere'
    BY <1>1, <1>2, <1>5, <2>1, BoundsAssumption DEF TypedHere
  <2>3. OrderInv'
    BY <1>1, <1>3, <1>5, MainGoesOn DEF At
  <2> QED
    BY <2>2, <2>3
<1> QED
  BY <1>4, <1>5 DEF ReadBoard

LEMMA FeedSampleInv ==
  ASSUME DatasetInv, FeedSample
  PROVE  TypedHere' /\ OrderInv'
<1>1. /\ At(Main, "feeding") /\ UNCHANGED <<pc, sampleSize, read, printed>>
      /\ TypedHere /\ read \in Nat
  BY TypeParts DEF FeedSample, DatasetInv, TypedHere
<1>2. PICK board \in sample : Consume(board) /\ sample' = sample \ {board}
  BY DEF FeedSample
<1>3. board \in Boards /\ board \in 1..read
  BY <1>1, <1>2, BoundsAssumption DEF TypedHere, Boards
<1>4. /\ batch' \subseteq batch \union {board} /\ fed' = fed \union {board}
      /\ \/ UNCHANGED queueVars
         \/ \E v \in Values : Begin(Main, "push", BoardQueue, v)
  BY <1>1, <1>2, <1>3, ConsumeSteps DEF At
<1>5. Goto(Main, "feeding") /\ "feeding" \in Labels
  BY <1>1 DEF Goto, At, TypedHere, Labels
<1>6. TypedHere'
  BY <1>1, <1>2, <1>3, <1>4 DEF TypedHere
<1>7. OrderInv'
  BY <1>1, <1>4, <1>5, MainCalls, MainGoesOn, ThreadFacts DEF At
<1> QED
  BY <1>6, <1>7

LEMMA DrainLastBatchInv ==
  ASSUME DatasetInv, DrainLastBatch
  PROVE  TypedHere' /\ OrderInv'
<1>1. /\ At(Main, "feeding") /\ batch' = {} /\ Goto(Main, "closing") /\ TypedHere
      /\ UNCHANGED <<sampleSize, read, sample, printed, fed>> /\ "closing" \in Labels
  BY TypeParts DEF DrainLastBatch, DatasetInv, Labels
<1>2. batch \in Values
  BY QueuesAssumption, BoundsAssumption DEF DatasetInv, DatasetTypeOK, Boards
<1>3. Begin(Main, "push", BoardQueue, batch) \/ UNCHANGED queueVars
  BY DEF DrainLastBatch, CallPush, Begin, At
<1>4. TypedHere'
  BY <1>1, GotoTyped, ThreadFacts DEF TypedHere
<1>5. OrderInv'
  BY <1>1, <1>2, <1>3, MainCalls, MainGoesOn, ThreadFacts DEF At
<1> QED
  BY <1>4, <1>5

(* Steps of the main thread that change nothing else but where it is. *)
LEMMA MainMovesInv ==
  ASSUME DatasetInv, PutHeader \/ EndOfInput \/ CloseBoards \/ JoinWorkers \/ JoinPrinter
  PROVE  TypedHere' /\ OrderInv'
<1>1. TypedHere
  BY TypeParts DEF DatasetInv
<1>2. \A label \in Labels : Goto(Main, label) /\ UNCHANGED <<mainVars, printed>> => TypedHere'
  BY <1>1, GotoTyped, ThreadFacts DEF TypedHere, mainVars
<1>3. ASSUME PutHeader PROVE TypedHere' /\ OrderInv'
  <2>1. {Header} \in Values
    BY QueuesAssumption
  <2>2. Begin(Main, "push", StringQueue, {Header}) /\ At(Main, "start")
    BY <1>3 DEF PutHeader, CallPush, Begin, At
  <2> QED
    BY <1>2, <1>3, <2>1, <2>2, MainCalls, ThreadFacts DEF PutHeader, At, Labels
<1>4. ASSUME EndOfInput PROVE TypedHere' /\ OrderInv'
  BY <1>2, <1>4, MainGoesOn DEF EndOfInput, At, Labels
<1>5. ASSUME CloseBoards PROVE TypedHere' /\ OrderInv'
  <2>1. Begin(Main, "close", BoardQueue, NoValue) /\ At(Main, "closing")
    BY <1>5 DEF CloseBoards, CallClose, Begin, At
  <2> QED
    BY <1>2, <1>5, <2>1, MainCalls, ThreadFacts DEF CloseBoards, At, Labels
<1>6. ASSUME JoinWorkers PROVE TypedHere' /\ OrderInv'
  <2>1. /\ Begin(Main, "close", StringQueue, NoValue) /\ At(Main, "joining")
        /\ \A w \in Workers : pc[w] = "done"
    BY <1>6 DEF JoinWorkers, CallClose, Begin, At
  <2> QED
    BY <1>2, <1>6, <2>1, MainCalls, ThreadFacts DEF JoinWorkers, At, Labels
<1>7. ASSUME JoinPrinter PROVE TypedHere' /\ OrderInv'
  <2>1. \A w \in Workers : pc[w] = "done"
    BY <1>7 DEF JoinPrinter, At, DatasetInv, OrderInv, WorkersJoined
  <2> QED
    BY <1>2, <1>7, <2>1, MainGoesOn DEF JoinPrinter, At, Labels
<1> QED
  BY <1>3, <1>4, <1>5, <1>6, <1>7

(* ... and those of the workers, of the printer, and inside the queues. *)
LEMMA WorkerInv ==
  ASSUME DatasetInv, NEW w \in Workers, WorkerNext(w)
  PROVE  TypedHere' /\ OrderInv'
<1>1. TypedHere /\ QueueTypeOK /\ w \in Threads /\ w # Main /\ UNCHANGED <<mainVars, printed>>
  BY TypeParts, ThreadFacts DEF DatasetInv, WorkerNext, PopBatch, Extract
<1>2. \A label \in Labels : Goto(w, label) => TypedHere'
  BY <1>1, GotoTyped DEF TypedHere, mainVars
<1>3. CASE PopBatch(w)
  <2>1. /\ Enter(w, "pop", BoardQueue, NoValue) /\ UNCHANGED closed
        /\ pc[w] = "pop" /\ Goto(w, "popped") /\ "popped" \in Labels
    BY <1>3 DEF PopBatch, CallPop, At, Labels
  <2>2. /\ \A u \in Threads : u # w => call'[u] = call[u]
        /\ call'[w].kind = "pop"
    BY <1>1, <2>1, EnterFacts, ThreadFacts
  <2> QED
    BY <1>1, <1>2, <2>1, <2>2, OtherGoesOn
<1>4. CASE Extract(w) /\ got[w] = NoValue
  <2>1. /\ UNCHANGED queueVars /\ pc[w] = "popped" /\ call[w] = NoCall
        /\ Goto(w, "done") /\ "done" \in Labels
    BY <1>4 DEF Extract, At, Labels
  <2> QED
    BY <1>1, <1>2, <2>1, OtherGoesOn DEF queueVars
<1>5. CASE Extract(w) /\ got[w] # NoValue
  <2>1. /\ Enter(w, "push", StringQueue, got[w]) /\ UNCHANGED closed
        /\ pc[w] = "popped" /\ Goto(w, "pop") /\ "pop" \in Labels
        /\ got[w] \in Values \union {NoValue}
    BY <1>1, <1>5 DEF Extract, CallPush, At, Labels, QueueTypeOK
  <2>2. /\ \A u \in Threads : u # w => call'[u] = call[u]
        /\ call'[w].kind = "push" /\ call'[w].queue = StringQueue
    BY <1>1, <2>1, EnterFacts, ThreadFacts
  <2> QED
    BY <1>1, <1>2, <2>1, <2>2, OtherGoesOn
<1> QED
  BY <1>3, <1>4, <1>5 DEF WorkerNext

LEMMA PrinterInv ==
  ASSUME DatasetInv, PrinterNext
  PROVE  TypedHere' /\ OrderInv'
<1>1. TypedHere /\ QueueTypeOK /\ UNCHANGED mainVars /\ Printer \in Threads /\ Printer # Main
  BY TypeParts, ThreadFacts DEF DatasetInv, PrinterNext, PopString, WriteString
<1>2. CASE PopString
  <2>1. /\ Enter(Printer, "pop", StringQueue, NoValue) /\ UNCHANGED <<closed, printed>>
        /\ pc[Printer] = "pop" /\ Goto(Printer, "popped") /\ "popped" \in Labels
    BY <1>2 DEF PopString, CallPop, At, Labels
  <2>2. /\ \A u \in Threads : u # Printer => call'[u] = call[u]
        /\ call'[Printer].kind = "pop"
    BY <1>1, <2>1, EnterFacts, ThreadFacts
  <2>3. TypedHere'
    BY <1>1, <2>1, GotoTyped DEF TypedHere, mainVars
  <2> QED
    BY <1>1, <2>1, <2>2, <2>3, OtherGoesOn
<1>3. CASE WriteString
  <2>1. /\ UNCHANGED <<call, closed>> /\ pc[Printer] = "popped" /\ call[Printer] = NoCall
        /\ \E label \in {"done", "pop"} : Goto(Printer, label)
    BY <1>3 DEF WriteString, At, queueVars
  <2>2. printed' \in Seq(Values)
    <3>1. printed' = printed \/ (got[Printer] \in Values /\ printed' = Append(printed, got[Printer]))
      BY <1>1, <1>3 DEF WriteString, QueueTypeOK
    <3> QED
      BY <1>1, <3>1 DEF TypedHere
  <2>3. TypedHere'
    BY <1>1, <2>1, <2>2, GotoTyped DEF TypedHere, mainVars, Labels
  <2> QED
    BY <1>1, <2>1, <2>3, OtherGoesOn DEF Labels
<1> QED
  BY <1>2, <1>3 DEF PrinterNext

LEMMA QueueStepInv ==
  ASSUME DatasetInv, (\E t \in Threads : InQueue(t)) \/ Wakeup \/ Done \/ UNCHANGED datasetVars
  PROVE  TypedHere' /\ OrderInv'
<1>1. UNCHANGED <<pc, mainVars, printed>> /\ TypedHere
  BY TypeParts DEF InQueue, Wakeup, Done, datasetVars, DatasetInv
<1>2. TypedHere'
  BY <1>1 DEF TypedHere, mainVars
<1>3. CASE \E t \in Threads : InQueue(t)
  BY <1>2, <1>3, InQueueOrder
<1>4. CASE UNCHANGED <<call, closed>>
  BY <1>1, <1>2, <1>4
     DEF DatasetInv, OrderInv, ClosedInOrder, ClosesInOrder, PushesInOrder, WorkersJoined
<1>5. Wakeup \/ Done \/ UNCHANGED datasetVars => UNCHANGED <<call, closed>>
  BY DEF Wakeup, SpuriousWakeup, Done, datasetVars, queueVars
<1> QED
  BY <1>2, <1>3, <1>4, <1>5

-----------------------------------------------------------------------------
(* In the beginning no queue is closed and nobody calls. *)
LEMMA DatasetInitInv == Init => DatasetInv
<1> SUFFICES ASSUME Init PROVE DatasetInv
  OBVIOUS
<1>1. QueueInv
  BY QueueInitInv DEF Init
<1>2. TypedHere
  BY ThreadFacts, BoundsAssumption DEF Init, TypedHere, Labels
<1>3. OrderInv
  BY ThreadFacts
     DEF Init, QueueInit, OrderInv, ClosedInOrder, ClosesInOrder, PushesInOrder, WorkersJoined
<1> QED
  BY <1>1, <1>2, <1>3, TypeParts DEF DatasetInv, QueueInv

(* Every step keeps the invariant. *)
LEMMA DatasetNextInv == DatasetInv /\ [Next]_datasetVars => DatasetInv'
<1> SUFFICES ASSUME DatasetInv, [Next]_datasetVars PROVE DatasetInv'
  OBVIOUS
<1>1. QueueInv'
  BY StepUsesQueues, QueueNextInv DEF DatasetInv
<1>2. TypedHere' /\ OrderInv'
  BY ReadBoardInv, FeedSampleInv, DrainLastBatchInv, MainMovesInv, WorkerInv, PrinterInv,
     QueueStepInv DEF Next, MainNext
<1>3. QueueTypeOK'
  BY <1>1 DEF QueueInv
<1>4. DatasetTypeOK'
  BY <1>2, <1>3 DEF DatasetTypeOK, TypedHere, Labels
<1> QED
  BY <1>1, <1>2, <1>4 DEF DatasetInv

(* The inductive invariant: types, calls and the order in which queues are closed. *)
THEOREM DatasetInvariance == Spec => []DatasetInv
BY DatasetInitInv, DatasetNextInv, PTL DEF Spec

(* Every variable of make_dataset keeps its type, for any number of workers, *)
(* any batch size and queues of any size.                                    *)
THEOREM DatasetTypeCorrect == Spec => []DatasetTypeOK
<1>1. DatasetInv => DatasetTypeOK
  BY DEF DatasetInv
<1> QED
  BY <1>1, DatasetInvariance, PTL

(* make_dataset is one of the programs BlockingQueue speaks about: all that  *)
(* was proved of queues holds of its two.                                    *)
THEOREM DatasetUsesQueues == Spec => QueueSpec
<1>1. Init => QueueInit
  BY DEF Init
<1>2. DatasetInv /\ [Next]_datasetVars => [QueueNext]_queueVars
  BY StepUsesQueues
<1> QED
  BY <1>1, <1>2, DatasetInvariance, PTL DEF Spec, QueueSpec

(* No push() meets a closed queue, so ignoring what push() returns loses     *)
(* nothing: workers push strings only before they are joined, and the        *)
(* strings are closed after that.                                            *)
THEOREM PushesAreNeverRefused == Spec => []PushesAreAccepted
BY OrderIsEnough, DatasetInvariance, PTL

-----------------------------------------------------------------------------
(* The header is the first line of the file: until it is in the queue of     *)
(* strings nobody else has anything to put there, and from then on it stays  *)
(* ahead of everything, in the queue, in the printer's hands, in the file.   *)

(* Workers take boards, the printer takes strings, and only then do they pop. *)
PopsInOrder ==
  /\ \A t \in Threads : call[t] # NoCall /\ call[t].kind = "pop" =>
       IF t = Printer THEN call[t].queue = StringQueue
       ELSE t \in Workers /\ call[t].queue = BoardQueue
  /\ call[Printer] # NoCall => pc[Printer] = "popped"

(* The header is not in the queue yet. *)
HeaderComing ==
  \/ pc[Main] = "start"
  \/ /\ call[Main] # NoCall /\ call[Main].kind = "push"
     /\ call[Main].queue = StringQueue /\ call[Main].step = "try"

(* The printer has nothing in its hands and is about to pop, or waits in pop(). *)
PrinterWaits ==
  \/ pc[Printer] = "pop" /\ call[Printer] = NoCall
  \/ call[Printer] # NoCall /\ call[Printer].step = "try"

NothingBefore ==
  HeaderComing =>
    /\ \A q \in Queues : items[q] = <<>>
    /\ printed = <<>> /\ PrinterWaits
    /\ \A w \in Workers : got[w] = NoValue /\ (call[w] # NoCall => call[w].kind # "push")
    /\ pc[Main] \in {"start", "reading"}
    /\ call[Main] # NoCall => call[Main].value = {Header}

HeaderWritten == printed # <<>> /\ printed[1] = {Header}

HeaderInHand ==
  /\ printed = <<>> /\ got[Printer] = {Header} /\ pc[Printer] = "popped"
  /\ call[Printer] # NoCall => call[Printer].step # "try"

HeaderQueued ==
  /\ printed = <<>> /\ PrinterWaits
  /\ items[StringQueue] # <<>> /\ Head(items[StringQueue]) = {Header}

HeaderAhead == ~HeaderComing => HeaderWritten \/ HeaderInHand \/ HeaderQueued

HeaderInv == PopsInOrder /\ NothingBefore /\ HeaderAhead

(* A header that is ahead of everything is the first line. *)
LEMMA HeaderInvIsEnough == HeaderInv => HeaderIsFirst
BY DEF HeaderInv, NothingBefore, HeaderAhead, HeaderWritten, HeaderInHand, HeaderQueued,
       HeaderIsFirst

(* At the start the main thread is in no call, and a thread is in one call. *)
LEMMA MainStarts ==
  ASSUME DatasetInv, HeaderInv
  PROVE  /\ pc[Main] = "start" => call[Main] = NoCall
         /\ call[Main] # NoCall => call[Main].kind # "pop"
         /\ call[Printer] # NoCall => call[Printer].kind = "pop" /\ call[Printer].queue = StringQueue
         /\ HeaderComing => ~closed[BoardQueue] /\ ~closed[StringQueue]
<1>1. \A t \in Threads : call[t] # NoCall =>
        /\ call[t].kind \in {"push", "pop", "close"}
        /\ call[t].queue = BoardQueue \/ call[t].queue = StringQueue
  BY ThreadFacts DEF DatasetInv, DatasetTypeOK, QueueTypeOK, Call
<1>2. call[Main] # NoCall => call[Main].kind # "pop"
  BY ThreadFacts DEF HeaderInv, PopsInOrder
<1>3. pc[Main] = "start" => call[Main] = NoCall
  <2>1. call[Main] # NoCall /\ call[Main].kind = "push" => pc[Main] # "start"
    BY ThreadFacts DEF DatasetInv, OrderInv, PushesInOrder
  <2>2. call[Main] # NoCall /\ call[Main].kind = "close" => pc[Main] # "start"
    BY <1>1, ThreadFacts DEF DatasetInv, OrderInv, ClosesInOrder
  <2> QED
    BY <1>1, <1>2, <2>1, <2>2, ThreadFacts
<1>4. call[Printer] # NoCall => call[Printer].kind = "pop" /\ call[Printer].queue = StringQueue
  BY <1>1, ThreadFacts DEF DatasetInv, OrderInv, PushesInOrder, ClosesInOrder, HeaderInv, PopsInOrder
<1>5. HeaderComing => ~closed[BoardQueue] /\ ~closed[StringQueue]
  BY DEF HeaderInv, NothingBefore, DatasetInv, OrderInv, ClosedInOrder
<1> QED
  BY <1>2, <1>3, <1>4, <1>5

(* Once the header is in the queue it is there for good: what keeps it ahead. *)
LEMMA StaysAhead ==
  ASSUME HeaderAhead, ~HeaderComing, UNCHANGED <<printed, got, pc[Printer], call[Printer]>>,
         items'[StringQueue] = items[StringQueue]
           \/ \E v \in Values : /\ items[StringQueue] \in Seq(Values)
                              /\ items'[StringQueue] = Append(items[StringQueue], v)
  PROVE  HeaderAhead'
<1>1. HeaderWritten => HeaderWritten'
  BY DEF HeaderWritten
<1>2. HeaderInHand => HeaderInHand'
  BY DEF HeaderInHand
<1>3. HeaderQueued => HeaderQueued'
  <2>1. PrinterWaits => PrinterWaits'
    BY DEF PrinterWaits
  <2>2. \A s \in Seq(Values), v \in Values : s # <<>> => Append(s, v) # <<>> /\ Head(Append(s, v)) = Head(s)
    OBVIOUS
  <2>3. items[StringQueue] # <<>> =>
          items'[StringQueue] # <<>> /\ Head(items'[StringQueue]) = Head(items[StringQueue])
    BY <2>2
  <2> QED
    BY <2>1, <2>3 DEF HeaderQueued
<1> QED
  BY <1>1, <1>2, <1>3 DEF HeaderAhead

(* Steps that move nothing. *)
LEMMA HeaderUnmoved ==
  ASSUME HeaderInv, UNCHANGED <<items, call, got, pc, printed>>
  PROVE  HeaderInv'
<1>1. PopsInOrder'
  BY DEF HeaderInv, PopsInOrder
<1>2. NothingBefore'
  BY DEF HeaderInv, NothingBefore, HeaderComing, PrinterWaits
<1>3. HeaderAhead'
  BY DEF HeaderInv, HeaderAhead, HeaderComing, PrinterWaits, HeaderWritten, HeaderInHand,
         HeaderQueued
<1> QED
  BY <1>1, <1>2, <1>3 DEF HeaderInv

(* A step inside a call leaves what is popped, and where. *)
LEMMA PopsStay ==
  ASSUME PopsInOrder, NEW t \in Threads, UNCHANGED pc, call[t] # NoCall,
         \A u \in Threads : u # t => call'[u] = call[u],
         call'[t] # NoCall => call'[t].kind = call[t].kind /\ call'[t].queue = call[t].queue
  PROVE  PopsInOrder'
<1>1. ASSUME NEW u \in Threads, call'[u] # NoCall
      PROVE  call[u] # NoCall /\ call'[u].kind = call[u].kind /\ call'[u].queue = call[u].queue
  BY <1>1
<1> QED
  BY <1>1, ThreadFacts DEF PopsInOrder

(* A thread that is past the step under the mutex, and any close(). *)
LEMMA HeaderPastCall ==
  ASSUME DatasetInv, HeaderInv, NEW t \in Threads,
         UNCHANGED <<items, got, pc, printed>>,
         \A u \in Threads : u # t => call'[u] = call[u],
         call[t] # NoCall, call[t].kind = "close" \/ call[t].step # "try",
         call'[t] # NoCall => /\ call'[t].kind = call[t].kind /\ call'[t].queue = call[t].queue
                              /\ call'[t].step # "try"
  PROVE  HeaderInv'
<1>1. PopsInOrder'
  BY PopsStay DEF HeaderInv
<1>2. CASE t = Main
  <2>1. ~HeaderComing /\ ~HeaderComing'
    BY <1>2, MainStarts DEF HeaderComing
  <2>2. HeaderAhead'
    BY <1>2, <2>1, StaysAhead, ThreadFacts DEF HeaderInv
  <2> QED
    BY <1>1, <2>1, <2>2 DEF HeaderInv, NothingBefore
<1>3. CASE t # Main
  <2>1. HeaderComing' <=> HeaderComing
    BY <1>3, ThreadFacts DEF HeaderComing
  <2>2. CASE t = Printer
    <3>1. call[Printer].step # "try" /\ ~PrinterWaits
      BY <2>2, MainStarts DEF PrinterWaits, HeaderInv, PopsInOrder
    <3>2. ~HeaderComing /\ (HeaderWritten \/ HeaderInHand)
      BY <3>1 DEF HeaderInv, NothingBefore, HeaderAhead, HeaderQueued
    <3>3. HeaderWritten' \/ HeaderInHand'
      BY <2>2, <3>2 DEF HeaderWritten, HeaderInHand
    <3> QED
      BY <1>1, <2>1, <3>2, <3>3 DEF HeaderInv, NothingBefore, HeaderAhead
  <2>3. CASE t # Printer
    <3>1. call'[Printer] = call[Printer] /\ call'[Main] = call[Main] /\ (PrinterWaits' <=> PrinterWaits)
      BY <1>3, <2>3, ThreadFacts DEF PrinterWaits
    <3>2. NothingBefore'
      BY <2>1, <3>1, ThreadFacts DEF HeaderInv, NothingBefore
    <3>3. HeaderAhead'
      BY <2>1, <3>1, StaysAhead DEF HeaderInv, HeaderAhead
    <3> QED
      BY <1>1, <3>2, <3>3 DEF HeaderInv
  <2> QED
    BY <2>2, <2>3
<1> QED
  BY <1>2, <1>3

(* push() *)
LEMMA HeaderPushed ==
  ASSUME DatasetInv, HeaderInv, NEW t \in Threads, NEW q \in Queues, PushValue(t, q),
         UNCHANGED <<pc, printed>>
  PROVE  HeaderInv'
<1>1. /\ call[t] # NoCall /\ call[t].kind = "push" /\ call[t].queue = q /\ call[t].step = "try"
      /\ items' = [items EXCEPT ![q] = Append(items[q], call[t].value)]
      /\ UNCHANGED got /\ GoOn(t, "notifyEmpty")
  BY DEF PushValue, Trying, AtStep
<1>2. /\ \A u \in Threads : u # t => call'[u] = call[u]
      /\ call'[t] # NoCall /\ call'[t].step = "notifyEmpty"
      /\ call'[t].kind = "push" /\ call'[t].queue = q
  BY <1>1, GoOnFacts DEF DatasetInv, QueueInv
<1>3. items \in [Queues -> Seq(Values)] /\ call[t].value \in Values
  BY <1>1 DEF DatasetInv, QueueInv, QueueTypeOK, PushesCarry
<1>4. /\ items'[q] = Append(items[q], call[t].value)
      /\ \A p \in Queues : p # q => items'[p] = items[p]
  BY <1>1, <1>3
<1>5. PopsInOrder' /\ t # Printer /\ call'[Printer] = call[Printer]
  BY <1>1, <1>2, ThreadFacts, MainStarts DEF HeaderInv, PopsInOrder
<1>6. CASE t = Main /\ q = StringQueue
  <2>1. HeaderComing /\ ~HeaderComing'
    BY <1>1, <1>2, <1>6, MainStarts DEF HeaderComing
  <2>2. items[StringQueue] = <<>> /\ call[t].value = {Header} /\ printed = <<>> /\ PrinterWaits
    BY <1>1, <1>6, <2>1, ThreadFacts DEF HeaderInv, NothingBefore
  <2>3. items'[StringQueue] # <<>> /\ Head(items'[StringQueue]) = {Header}
    <3>1. items'[StringQueue] = Append(<<>>, {Header}) /\ {Header} \in Values
      BY <1>3, <1>4, <1>6, <2>2
    <3> QED
      BY <3>1
  <2>4. HeaderQueued'
    BY <1>5, <2>2, <2>3 DEF HeaderQueued, PrinterWaits
  <2> QED
    BY <1>5, <2>1, <2>4 DEF HeaderInv, NothingBefore, HeaderAhead
<1>7. CASE ~(t = Main /\ q = StringQueue)
  <2>1. ~HeaderComing /\ ~HeaderComing'
    <3>1. CASE t = Main
      BY <1>1, <1>2, <1>7, <3>1, MainStarts DEF HeaderComing
    <3>2. CASE t # Main
      <4>1. t \in Workers
        BY <1>1, <3>2 DEF DatasetInv, OrderInv, PushesInOrder
      <4>2. ~HeaderComing
        BY <1>1, <4>1 DEF HeaderInv, NothingBefore
      <4> QED
        BY <1>2, <3>2, <4>2, ThreadFacts DEF HeaderComing
    <3> QED
      BY <3>1, <3>2
  <2>2. HeaderAhead'
    <3>1. \/ items'[StringQueue] = items[StringQueue]
          \/ \E v \in Values : /\ items[StringQueue] \in Seq(Values)
                               /\ items'[StringQueue] = Append(items[StringQueue], v)
      BY <1>3, <1>4, ThreadFacts
    <3> QED
      BY <1>1, <1>5, <2>1, <3>1, StaysAhead DEF HeaderInv
  <2> QED
    BY <1>5, <2>1, <2>2 DEF HeaderInv, NothingBefore
<1> QED
  BY <1>6, <1>7

(* pop() *)
LEMMA HeaderPopped ==
  ASSUME DatasetInv, HeaderInv, NEW t \in Threads, NEW q \in Queues,
         PopNothing(t, q) \/ PopValue(t, q), UNCHANGED <<pc, printed>>
  PROVE  HeaderInv'
<1>1. /\ call[t] # NoCall /\ call[t].kind = "pop" /\ call[t].queue = q /\ call[t].step = "try"
  BY DEF PopNothing, PopValue, Trying, AtStep
<1>2. t # Main /\ (t # Printer => t \in Workers /\ q = BoardQueue) /\ (t = Printer => q = StringQueue)
  BY <1>1, ThreadFacts, MainStarts DEF HeaderInv, PopsInOrder
<1>3. /\ \A u \in Threads : u # t => call'[u] = call[u]
      /\ call'[t] # NoCall =>
           call'[t].kind = "pop" /\ call'[t].queue = q /\ call'[t].step = "notifyEmpty"
  <2>1. PopNothing(t, q) => Return(t)
    BY DEF PopNothing
  <2>2. PopValue(t, q) => GoOn(t, "notifyEmpty")
    BY DEF PopValue
  <2> QED
    BY <1>1, <2>1, <2>2, ReturnFacts, GoOnFacts DEF DatasetInv, QueueInv
<1>4. PopsInOrder'
  BY <1>1, <1>3, PopsStay DEF HeaderInv
<1>5. HeaderComing' <=> HeaderComing
  BY <1>2, <1>3, ThreadFacts DEF HeaderComing
<1>6. items \in [Queues -> Seq(Values)] /\ got \in [Threads -> Values \union {NoValue}]
  BY DEF DatasetInv, QueueInv, QueueTypeOK
<1>7. /\ \A u \in Threads : u # t => got'[u] = got[u]
      /\ \A p \in Queues : p # q => items'[p] = items[p]
      /\ \/ items[q] = <<>> /\ closed[q] /\ got'[t] = NoValue /\ items'[q] = items[q]
         \/ items[q] # <<>> /\ got'[t] = Head(items[q])
  BY <1>6 DEF PopNothing, PopValue
<1>8. CASE t = Printer
  <2>1. ~HeaderComing /\ pc[Printer] = "popped"
    BY <1>1, <1>2, <1>7, <1>8, MainStarts, ThreadFacts DEF HeaderInv, NothingBefore, PopsInOrder
  <2>2. HeaderWritten \/ HeaderQueued
    BY <1>1, <1>8, <2>1 DEF HeaderInv, HeaderAhead, HeaderInHand
  <2>3. HeaderWritten => HeaderWritten'
    BY DEF HeaderWritten
  <2>4. HeaderQueued => HeaderInHand'
    BY <1>2, <1>3, <1>7, <1>8, <2>1 DEF HeaderQueued, HeaderInHand
  <2> QED
    BY <1>4, <1>5, <2>1, <2>2, <2>3, <2>4 DEF HeaderInv, NothingBefore, HeaderAhead
<1>9. CASE t # Printer
  <2>1. ~HeaderComing
    BY <1>2, <1>7, <1>9, MainStarts, ThreadFacts DEF HeaderInv, NothingBefore
  <2>2. HeaderAhead'
    <3>1. /\ call'[Printer] = call[Printer] /\ got'[Printer] = got[Printer]
          /\ items'[StringQueue] = items[StringQueue]
      BY <1>2, <1>3, <1>7, <1>9, ThreadFacts
    <3>2. HeaderWritten => HeaderWritten'
      BY DEF HeaderWritten
    <3>3. HeaderInHand => HeaderInHand'
      BY <3>1 DEF HeaderInHand
    <3>4. HeaderQueued => HeaderQueued'
      BY <3>1 DEF HeaderQueued, PrinterWaits
    <3> QED
      BY <2>1, <3>2, <3>3, <3>4 DEF HeaderInv, HeaderAhead
  <2> QED
    BY <1>4, <1>5, <2>1, <2>2 DEF HeaderInv, NothingBefore
<1> QED
  BY <1>8, <1>9

(* A step inside a queue, whichever it is. *)
LEMMA HeaderInQueue ==
  ASSUME DatasetInv, HeaderInv, NEW t \in Threads, InQueue(t)
  PROVE  HeaderInv'
<1>1. PICK q \in Queues : InCall(t, q)
  BY DEF InQueue, CallStep
<1>2. UNCHANGED <<pc, printed>>
  BY DEF InQueue
<1>3. ~PushRefused(t, q)
  BY OrderIsEnough DEF PushRefused, PushesAreAccepted
<1>4. CASE PushWait(t, q) \/ PopWait(t, q)
  BY <1>2, <1>4, HeaderUnmoved DEF PushWait, PopWait
<1>5. CASE PushValue(t, q)
  BY <1>2, <1>5, HeaderPushed
<1>6. CASE PopNothing(t, q) \/ PopValue(t, q)
  BY <1>2, <1>6, HeaderPopped
<1>7. CASE CloseAgain(t, q) \/ Close(t, q)
  <2>1. /\ call[t] # NoCall /\ call[t].kind = "close" /\ UNCHANGED <<items, got>>
        /\ Return(t) \/ GoOn(t, "notifyEmpty")
    BY <1>7 DEF CloseAgain, Close, Trying, AtStep
  <2>2. /\ \A u \in Threads : u # t => call'[u] = call[u]
        /\ call'[t] # NoCall => /\ call'[t].kind = call[t].kind /\ call'[t].queue = call[t].queue
                                /\ call'[t].step # "try"
    BY <2>1, ReturnFacts, GoOnFacts DEF DatasetInv, QueueInv
  <2> QED
    BY <1>2, <2>1, <2>2, HeaderPastCall
<1>8. CASE NotifyEmpty(t, q) \/ NotifyFull(t, q)
  <2>1. /\ call[t] # NoCall /\ call[t].step # "try" /\ UNCHANGED <<items, got>>
        /\ Return(t) \/ GoOn(t, "notifyFull")
    BY <1>8 DEF NotifyEmpty, NotifyFull, Notifying, AtStep
  <2>2. /\ \A u \in Threads : u # t => call'[u] = call[u]
        /\ call'[t] # NoCall => /\ call'[t].kind = call[t].kind /\ call'[t].queue = call[t].queue
                                /\ call'[t].step # "try"
    BY <2>1, ReturnFacts, GoOnFacts DEF DatasetInv, QueueInv
  <2> QED
    BY <1>2, <2>1, <2>2, HeaderPastCall
<1> QED
  BY <1>1, <1>3, <1>4, <1>5, <1>6, <1>7, <1>8 DEF InCall

(* The main thread puts the header before anything else ... *)
LEMMA HeaderPut ==
  ASSUME DatasetInv, HeaderInv, PutHeader
  PROVE  HeaderInv'
<1>1. /\ pc[Main] = "start" /\ Enter(Main, "push", StringQueue, {Header})
      /\ UNCHANGED <<items, got, printed>> /\ pc' = [pc EXCEPT ![Main] = "reading"]
  BY DEF PutHeader, At, CallPush, Goto
<1>2. {Header} \in Values
  BY QueuesAssumption
<1>3. /\ \A u \in Threads : u # Main => call'[u] = call[u]
      /\ call'[Main] # NoCall /\ call'[Main].kind = "push" /\ call'[Main].queue = StringQueue
      /\ call'[Main].value = {Header} /\ call'[Main].step = "try"
  BY <1>1, <1>2, EnterFacts, ThreadFacts DEF DatasetInv, QueueInv
<1>4. pc'[Main] = "reading" /\ \A u \in Threads : u # Main => pc'[u] = pc[u]
  BY <1>1, ThreadFacts DEF DatasetInv, DatasetTypeOK
<1>5. PopsInOrder'
  BY <1>3, <1>4, ThreadFacts DEF HeaderInv, PopsInOrder
<1>6. HeaderComing /\ HeaderComing'
  BY <1>1, <1>3 DEF HeaderComing
<1>7. NothingBefore'
  <2>1. PrinterWaits'
    BY <1>3, <1>4, <1>6, ThreadFacts DEF HeaderInv, NothingBefore, PrinterWaits
  <2> QED
    BY <1>1, <1>3, <1>4, <1>6, <2>1, ThreadFacts DEF HeaderInv, NothingBefore
<1> QED
  BY <1>5, <1>6, <1>7 DEF HeaderInv, HeaderAhead

(* ... and never touches the strings again but to close them. *)
LEMMA HeaderLeft ==
  ASSUME DatasetInv, HeaderInv, At(Main, pc[Main]), pc[Main] # "start",
         UNCHANGED <<items, got, printed>>, NEW label \in Labels \ {"start"}, Goto(Main, label),
         \A u \in Threads : u # Main => call'[u] = call[u],
         call'[Main] # NoCall =>
           call'[Main].kind = "close" \/ (call'[Main].kind = "push" /\ call'[Main].queue = BoardQueue)
  PROVE  HeaderInv'
<1>1. pc'[Main] = label /\ \A u \in Threads : u # Main => pc'[u] = pc[u]
  BY ThreadFacts DEF Goto, DatasetInv, DatasetTypeOK
<1>2. ~HeaderComing /\ ~HeaderComing'
  BY <1>1, ThreadFacts DEF HeaderComing, At
<1>3. PopsInOrder'
  BY <1>1, ThreadFacts DEF HeaderInv, PopsInOrder
<1>4. HeaderAhead'
  BY <1>1, <1>2, StaysAhead, ThreadFacts DEF HeaderInv
<1> QED
  BY <1>2, <1>3, <1>4 DEF HeaderInv, NothingBefore

(* The steps of the main thread, of a worker and of the printer. *)
LEMMA HeaderMain ==
  ASSUME DatasetInv, HeaderInv, MainNext
  PROVE  HeaderInv'
<1>1. CASE PutHeader
  BY <1>1, HeaderPut
<1>2. ASSUME NEW board \in Boards, Consume(board), call[Main] = NoCall
      PROVE  /\ UNCHANGED <<items, got>> /\ \A u \in Threads : u # Main => call'[u] = call[u]
             /\ call'[Main] # NoCall => call'[Main].kind = "push" /\ call'[Main].queue = BoardQueue
  <2>1. UNCHANGED queueVars \/ \E v \in Values : Begin(Main, "push", BoardQueue, v)
    BY <1>2, ConsumeSteps
  <2>2. CASE UNCHANGED queueVars
    BY <1>2, <2>2 DEF queueVars
  <2>3. ASSUME NEW v \in Values, Begin(Main, "push", BoardQueue, v)
        PROVE  /\ UNCHANGED <<items, got>> /\ \A u \in Threads : u # Main => call'[u] = call[u]
               /\ call'[Main].kind = "push" /\ call'[Main].queue = BoardQueue
    <3>1. Enter(Main, "push", BoardQueue, v) /\ UNCHANGED <<items, got>>
      BY <2>3 DEF Begin
    <3> QED
      BY <3>1, EnterFacts, ThreadFacts DEF DatasetInv, QueueInv
  <2> QED
    BY <2>1, <2>2, <2>3
<1>3. CASE ReadBoard
  <2>1. read + 1 \in Boards
    BY <1>3, BoundsAssumption DEF ReadBoard, DatasetInv, DatasetTypeOK, Boards
  <2>2. /\ call[Main] = NoCall /\ pc[Main] = "reading" /\ UNCHANGED <<pc, printed>>
        /\ Consume(read + 1) \/ UNCHANGED queueVars
    BY <1>3 DEF ReadBoard, At
  <2>3. /\ UNCHANGED <<items, got>> /\ \A u \in Threads : u # Main => call'[u] = call[u]
        /\ call'[Main] # NoCall => call'[Main].kind = "push" /\ call'[Main].queue = BoardQueue
    BY <1>2, <2>1, <2>2 DEF queueVars
  <2>4. Goto(Main, "reading")
    BY <2>2 DEF Goto, DatasetInv, DatasetTypeOK
  <2> QED
    BY <2>2, <2>3, <2>4, HeaderLeft DEF At, Labels
<1>4. CASE FeedSample
  <2>1. PICK board \in sample : Consume(board)
    BY <1>4 DEF FeedSample
  <2>2. /\ call[Main] = NoCall /\ pc[Main] = "feeding" /\ UNCHANGED <<pc, printed>>
        /\ board \in Boards
    BY <1>4, <2>1, BoundsAssumption DEF FeedSample, At, DatasetInv, DatasetTypeOK, Boards
  <2>3. /\ UNCHANGED <<items, got>> /\ \A u \in Threads : u # Main => call'[u] = call[u]
        /\ call'[Main] # NoCall => call'[Main].kind = "push" /\ call'[Main].queue = BoardQueue
    BY <1>2, <2>1, <2>2
  <2>4. Goto(Main, "feeding")
    BY <2>2 DEF Goto, DatasetInv, DatasetTypeOK
  <2> QED
    BY <2>2, <2>3, <2>4, HeaderLeft DEF At, Labels
<1>5. CASE DrainLastBatch
  <2>1. batch \in Values
    BY QueuesAssumption, BoundsAssumption DEF DatasetInv, DatasetTypeOK, Boards
  <2>2. /\ call[Main] = NoCall /\ pc[Main] = "feeding" /\ Goto(Main, "closing")
        /\ UNCHANGED <<items, got, printed>>
        /\ Enter(Main, "push", BoardQueue, batch) \/ UNCHANGED call
    BY <1>5 DEF DrainLastBatch, At, CallPush, queueVars
  <2>3. /\ \A u \in Threads : u # Main => call'[u] = call[u]
        /\ call'[Main] # NoCall => call'[Main].kind = "push" /\ call'[Main].queue = BoardQueue
    BY <2>1, <2>2, EnterFacts, ThreadFacts DEF DatasetInv, QueueInv
  <2> QED
    BY <2>2, <2>3, HeaderLeft DEF At, Labels
<1>6. CASE CloseBoards \/ JoinWorkers
  <2>1. PICK q \in Queues : Enter(Main, "close", q, NoValue)
    BY <1>6, ThreadFacts DEF CloseBoards, JoinWorkers, CallClose
  <2>2. /\ call[Main] = NoCall /\ pc[Main] \in {"closing", "joining"}
        /\ UNCHANGED <<items, got, printed>>
        /\ \E label \in Labels \ {"start"} : Goto(Main, label)
    BY <1>6 DEF CloseBoards, JoinWorkers, CallClose, At, Labels
  <2>3. /\ \A u \in Threads : u # Main => call'[u] = call[u]
        /\ call'[Main].kind = "close"
    BY <2>1, EnterFacts, ThreadFacts DEF DatasetInv, QueueInv
  <2> QED
    BY <2>2, <2>3, HeaderLeft DEF At
<1>7. CASE EndOfInput \/ JoinPrinter
  <2>1. /\ call[Main] = NoCall /\ pc[Main] \in {"reading", "leaving"}
        /\ UNCHANGED <<items, got, call, printed>>
        /\ \E label \in Labels \ {"start"} : Goto(Main, label)
    BY <1>7 DEF EndOfInput, JoinPrinter, At, Labels, queueVars
  <2> QED
    BY <2>1, HeaderLeft DEF At
<1> QED
  BY <1>1, <1>3, <1>4, <1>5, <1>6, <1>7 DEF MainNext

LEMMA HeaderWorker ==
  ASSUME DatasetInv, HeaderInv, NEW w \in Workers, WorkerNext(w)
  PROVE  HeaderInv'
<1>1. /\ w \in Threads /\ w # Main /\ w # Printer /\ UNCHANGED <<items, got, printed>>
      /\ call[w] = NoCall
      /\ \E label \in {"pop", "popped", "done"} : Goto(w, label)
  BY ThreadFacts DEF WorkerNext, PopBatch, Extract, CallPop, CallPush, At, queueVars
<1>2. \A u \in Threads : u # w => pc'[u] = pc[u]
  BY <1>1 DEF Goto, DatasetInv, DatasetTypeOK
<1>3. /\ \A u \in Threads : u # w => call'[u] = call[u]
      /\ call'[w] # NoCall =>
           \/ call'[w].kind = "pop" /\ call'[w].queue = BoardQueue
           \/ call'[w].kind = "push" /\ got[w] # NoValue
  <2>1. CASE PopBatch(w)
    BY <1>1, <2>1, EnterFacts, ThreadFacts DEF PopBatch, CallPop, DatasetInv, QueueInv
  <2>2. CASE Extract(w) /\ got[w] = NoValue
    BY <1>1, <2>2 DEF Extract, queueVars
  <2>3. CASE Extract(w) /\ got[w] # NoValue
    <3>1. Enter(w, "push", StringQueue, got[w]) /\ got[w] \in Values
      BY <1>1, <2>3 DEF Extract, CallPush, DatasetInv, QueueInv, QueueTypeOK
    <3> QED
      BY <1>1, <2>3, <3>1, EnterFacts, ThreadFacts DEF DatasetInv, QueueInv
  <2> QED
    BY <2>1, <2>2, <2>3 DEF WorkerNext
<1>4. /\ pc'[Main] = pc[Main] /\ call'[Main] = call[Main]
      /\ pc'[Printer] = pc[Printer] /\ call'[Printer] = call[Printer]
  BY <1>1, <1>2, <1>3, ThreadFacts
<1>5. PopsInOrder'
  BY <1>1, <1>3, <1>4 DEF HeaderInv, PopsInOrder
<1>6. HeaderComing' <=> HeaderComing
  BY <1>4 DEF HeaderComing
<1>7. NothingBefore'
  BY <1>1, <1>3, <1>4, <1>6, ThreadFacts DEF HeaderInv, NothingBefore, PrinterWaits
<1>8. HeaderAhead'
  BY <1>1, <1>4, <1>6, StaysAhead DEF HeaderInv, HeaderAhead
<1> QED
  BY <1>5, <1>7, <1>8 DEF HeaderInv

LEMMA HeaderPrinter ==
  ASSUME DatasetInv, HeaderInv, PrinterNext
  PROVE  HeaderInv'
<1>1. /\ UNCHANGED <<items, got>> /\ call[Printer] = NoCall
      /\ \E label \in {"pop", "popped", "done"} : Goto(Printer, label)
  BY DEF PrinterNext, PopString, WriteString, CallPop, At, queueVars
<1>2. \A u \in Threads : u # Printer => pc'[u] = pc[u]
  BY <1>1 DEF Goto, DatasetInv, DatasetTypeOK
<1>3. CASE PopString
  <2>1. /\ Enter(Printer, "pop", StringQueue, NoValue) /\ UNCHANGED printed
        /\ pc[Printer] = "pop" /\ pc'[Printer] = "popped"
    BY <1>3, ThreadFacts DEF PopString, CallPop, At, Goto, DatasetInv, DatasetTypeOK
  <2>2. /\ \A u \in Threads : u # Printer => call'[u] = call[u]
        /\ call'[Printer] # NoCall /\ call'[Printer].kind = "pop"
        /\ call'[Printer].queue = StringQueue /\ call'[Printer].step = "try"
    BY <2>1, EnterFacts, ThreadFacts DEF DatasetInv, QueueInv
  <2>3. PopsInOrder'
    BY <2>1, <2>2 DEF HeaderInv, PopsInOrder
  <2>4. (HeaderComing' <=> HeaderComing) /\ PrinterWaits'
    BY <1>2, <2>2, ThreadFacts DEF HeaderComing, PrinterWaits
  <2>5. NothingBefore'
    BY <1>1, <1>2, <2>1, <2>2, <2>4, ThreadFacts DEF HeaderInv, NothingBefore
  <2>6. HeaderAhead'
    BY <1>1, <2>1, <2>4
       DEF HeaderInv, HeaderAhead, HeaderWritten, HeaderInHand, HeaderQueued
  <2> QED
    BY <2>3, <2>5, <2>6 DEF HeaderInv
<1>4. CASE WriteString
  <2>1. pc[Printer] = "popped" /\ UNCHANGED call
    BY <1>4 DEF WriteString, At, queueVars
  <2>2. ~HeaderComing /\ ~HeaderComing' /\ (HeaderWritten \/ HeaderInHand)
    <3>1. ~PrinterWaits
      BY <1>1, <2>1 DEF PrinterWaits
    <3> QED
      BY <1>2, <2>1, <3>1, ThreadFacts
         DEF HeaderInv, NothingBefore, HeaderAhead, HeaderQueued, HeaderComing
  <2>3. HeaderWritten'
    <3>1. printed \in Seq(Values) /\ got[Printer] \in Values \union {NoValue}
      BY ThreadFacts DEF DatasetInv, DatasetTypeOK, QueueTypeOK
    <3>2. CASE got[Printer] = NoValue
      <4>1. {Header} # NoValue
        BY QueuesAssumption, ValuesAssumption
      <4> QED
        BY <1>4, <2>2, <3>2, <4>1 DEF WriteString, HeaderWritten, HeaderInHand
    <3>3. CASE got[Printer] # NoValue
      <4>1. printed' = Append(printed, got[Printer]) /\ got[Printer] \in Values
        BY <1>4, <3>1, <3>3 DEF WriteString
      <4>2. printed' # <<>> /\ printed'[1] = IF printed = <<>> THEN got[Printer] ELSE printed[1]
        BY <3>1, <4>1
      <4> QED
        BY <2>2, <4>2 DEF HeaderWritten, HeaderInHand
    <3> QED
      BY <3>2, <3>3
  <2>4. PopsInOrder'
    BY <1>1, <2>1 DEF HeaderInv, PopsInOrder
  <2> QED
    BY <2>2, <2>3, <2>4 DEF HeaderInv, NothingBefore, HeaderAhead
<1> QED
  BY <1>3, <1>4 DEF PrinterNext

(* In the beginning the header is still to come. *)
LEMMA HeaderInitInv == Init => HeaderInv
BY ThreadFacts
   DEF Init, QueueInit, HeaderInv, PopsInOrder, NothingBefore, HeaderAhead, HeaderComing,
       PrinterWaits

(* Every step keeps the header ahead. *)
LEMMA HeaderNextInv == DatasetInv /\ HeaderInv /\ [Next]_datasetVars => HeaderInv'
<1> SUFFICES ASSUME DatasetInv, HeaderInv, [Next]_datasetVars PROVE HeaderInv'
  OBVIOUS
<1>1. Wakeup \/ Done \/ UNCHANGED datasetVars => HeaderInv'
  BY HeaderUnmoved DEF Wakeup, SpuriousWakeup, Done, datasetVars, queueVars
<1> QED
  BY <1>1, HeaderMain, HeaderWorker, HeaderPrinter, HeaderInQueue DEF Next

(* The header is the first line of the file, although the printer and the   *)
(* workers run before it is pushed and overtake each other as they like.    *)
THEOREM HeaderComesFirst == Spec => []HeaderIsFirst
BY HeaderInvIsEnough, HeaderInitInv, HeaderNextInv, DatasetInvariance, PTL DEF Spec

-----------------------------------------------------------------------------
(* Where a row is.  The places are named, so that what follows needs to know  *)
(* only that they differ.                                                     *)

Hand(t) == <<"hand", t>>
BatchOf(t) == <<"batch", t>>
FileLine(i) == <<"file", i>>
Place(q, i) == <<"queue", q, i>>

(* Different places differ. *)
LEMMA PlaceFacts ==
  /\ \A t, u : Hand(t) = Hand(u) => t = u
  /\ \A i, j : FileLine(i) = FileLine(j) => i = j
  /\ \A q, p, i, j : Place(q, i) = Place(p, j) => q = p /\ i = j
  /\ \A t, u, i, j, q : /\ Hand(t) # BatchOf(u) /\ Hand(t) # FileLine(i) /\ Hand(t) # Place(q, i)
                        /\ BatchOf(t) # FileLine(i) /\ BatchOf(t) # Place(q, i)
                        /\ FileLine(i) # Place(q, j)
<1>1. /\ \A t : Hand(t)[1] = "hand" /\ Hand(t)[2] = t
      /\ \A t : BatchOf(t)[1] = "batch"
      /\ \A i : FileLine(i)[1] = "file" /\ FileLine(i)[2] = i
      /\ \A q, i : Place(q, i)[1] = "queue" /\ Place(q, i)[2] = q /\ Place(q, i)[3] = i
  BY DEF Hand, BatchOf, FileLine, Place
<1>2. \A t, u : Hand(t) = Hand(u) => t = u
  BY <1>1
<1>3. \A i, j : FileLine(i) = FileLine(j) => i = j
  BY <1>1
<1>4. \A q, p, i, j : Place(q, i) = Place(p, j) => q = p /\ i = j
  <2> SUFFICES ASSUME NEW q, NEW p, NEW i, NEW j, Place(q, i) = Place(p, j)
               PROVE  q = p /\ i = j
    OBVIOUS
  <2>1. /\ Place(q, i)[2] = q /\ Place(p, j)[2] = p
        /\ Place(q, i)[3] = i /\ Place(p, j)[3] = j
    BY <1>1
  <2> QED
    BY <2>1
<1>5. "hand" # "batch" /\ "hand" # "file" /\ "hand" # "queue" /\ "batch" # "file"
      /\ "batch" # "queue" /\ "file" # "queue"
  OBVIOUS
<1>6. ASSUME NEW t, NEW u, NEW i, NEW j, NEW q
      PROVE  /\ Hand(t) # BatchOf(u) /\ Hand(t) # FileLine(i) /\ Hand(t) # Place(q, i)
             /\ BatchOf(t) # FileLine(i) /\ BatchOf(t) # Place(q, i)
             /\ FileLine(i) # Place(q, j)
  BY <1>1, <1>5
<1> QED
  BY <1>2, <1>3, <1>4, <1>6

(* A row lies in a place. *)
Lies(row, p) ==
  \/ \E t \in Threads : p = Hand(t) /\ row \in InHand(t)
  \/ p = BatchOf(Main) /\ row \in batch
  \/ \E i \in DOMAIN printed : p = FileLine(i) /\ row \in printed[i]
  \/ \E q \in Queues : \E i \in DOMAIN items[q] : p = Place(q, i) /\ row \in items[q][i]

(* That is what the property means by a place and its content. *)
LEMMA LiesThere ==
  ASSUME NEW row, NEW p
  PROVE  Lies(row, p) <=> p \in Places /\ row \in Content(p)
<1>1. /\ \A t : Content(Hand(t)) = InHand(t)
      /\ \A t : Content(BatchOf(t)) = batch
      /\ \A i : Content(FileLine(i)) = printed[i]
      /\ \A q, i : Content(Place(q, i)) = items[q][i]
  BY DEF Content, Hand, BatchOf, FileLine, Place
<1>2. p \in Places <=>
        \/ \E t \in Threads : p = Hand(t)
        \/ p = BatchOf(Main)
        \/ \E i \in DOMAIN printed : p = FileLine(i)
        \/ \E q \in Queues : \E i \in DOMAIN items[q] : p = Place(q, i)
  BY DEF Places, Hand, BatchOf, FileLine, Place
<1> QED
  BY <1>1, <1>2 DEF Lies

(* The rows that lie in each kind of place. *)
LEMMA LiesIn ==
  ASSUME NEW row
  PROVE  /\ \A t \in Threads : Lies(row, Hand(t)) <=> row \in InHand(t)
         /\ Lies(row, BatchOf(Main)) <=> row \in batch
         /\ \A i : Lies(row, FileLine(i)) <=> i \in DOMAIN printed /\ row \in printed[i]
         /\ \A q \in Queues : \A i :
              Lies(row, Place(q, i)) <=> i \in DOMAIN items[q] /\ row \in items[q][i]
<1>1. ASSUME NEW t \in Threads PROVE Lies(row, Hand(t)) <=> row \in InHand(t)
  BY PlaceFacts DEF Lies
<1>2. Lies(row, BatchOf(Main)) <=> row \in batch
  BY PlaceFacts DEF Lies
<1>3. ASSUME NEW i PROVE Lies(row, FileLine(i)) <=> i \in DOMAIN printed /\ row \in printed[i]
  BY PlaceFacts DEF Lies
<1>4. ASSUME NEW q \in Queues, NEW i
      PROVE  Lies(row, Place(q, i)) <=> i \in DOMAIN items[q] /\ row \in items[q][i]
  BY PlaceFacts DEF Lies
<1> QED
  BY <1>1, <1>2, <1>3, <1>4

(* Nothing lies in two places, and exactly the given rows lie somewhere. *)
OneRowOnePlace ==
  /\ \A row, p, o : Lies(row, p) /\ Lies(row, o) => p = o
  /\ \A row : row \in Given <=> \E p : Lies(row, p)

(* That is all the property asks for. *)
LEMMA OnePlaceIsEnough == OneRowOnePlace => EachRowIsInOnePlace
<1> SUFFICES ASSUME OneRowOnePlace PROVE EachRowIsInOnePlace
  OBVIOUS
<1>1. ASSUME NEW row \in Given
      PROVE  Cardinality({p \in Places : row \in Content(p)}) = 1
  <2>1. PICK p : Lies(row, p)
    BY <1>1 DEF OneRowOnePlace
  <2>2. {o \in Places : row \in Content(o)} = {p}
    BY <2>1, LiesThere DEF OneRowOnePlace
  <2> QED
    BY <2>2, FS_Singleton
<1>2. ASSUME NEW p \in Places, NEW row \in Content(p)
      PROVE  row \in Given
  BY <1>2, LiesThere DEF OneRowOnePlace
<1> QED
  BY <1>1, <1>2 DEF EachRowIsInOnePlace

(* Nothing moves. *)
LEMMA RowsUnmoved ==
  ASSUME OneRowOnePlace, \A t \in Threads : InHand(t)' = InHand(t),
         UNCHANGED <<batch, printed, items>>, Given' = Given
  PROVE  OneRowOnePlace'
<1>1. ASSUME NEW row, NEW p PROVE Lies(row, p)' <=> Lies(row, p)
  BY DEF Lies
<1> QED
  BY <1>1 DEF OneRowOnePlace

(* The main thread takes rows of the batch and new ones into its hands. *)
LEMMA RowsTaken ==
  ASSUME OneRowOnePlace, NEW taken, taken \subseteq batch, NEW new, new \cap Given = {},
         InHand(Main) = {}, InHand(Main)' = taken \cup new,
         \A t \in Threads : t # Main => InHand(t)' = InHand(t),
         batch' = batch \ taken, UNCHANGED <<printed, items>>, Given' = Given \cup new
  PROVE  OneRowOnePlace'
<1>1. ASSUME NEW row, NEW p
      PROVE  Lies(row, p)' <=> \/ p = Hand(Main) /\ row \in taken \cup new
                               \/ Lies(row, p) /\ ~(p = BatchOf(Main) /\ row \in taken)
  BY PlaceFacts, ThreadFacts DEF Lies
<1>2. \A row \in taken : Lies(row, BatchOf(Main))
  BY LiesIn
<1>3. \A row \in new : ~ \E p : Lies(row, p)
  BY DEF OneRowOnePlace
<1>4. ASSUME NEW row, NEW p, NEW o, Lies(row, p)', Lies(row, o)' PROVE p = o
  BY <1>1, <1>2, <1>3, <1>4 DEF OneRowOnePlace
<1>5. ASSUME NEW row PROVE row \in Given' <=> \E p : Lies(row, p)'
  <2>1. ASSUME row \in Given, row \notin taken PROVE \E p : Lies(row, p)'
    <3>1. PICK p : Lies(row, p)
      BY <2>1 DEF OneRowOnePlace
    <3> QED
      BY <1>1, <2>1, <3>1
  <2>2. ASSUME row \in taken \cup new PROVE \E p : Lies(row, p)'
    BY <1>1, <2>2
  <2>3. ASSUME NEW p, Lies(row, p)' PROVE row \in Given \cup new
    BY <1>1, <1>2, <2>3 DEF OneRowOnePlace
  <2> QED
    BY <2>1, <2>2, <2>3
<1> QED
  BY <1>4, <1>5 DEF OneRowOnePlace

(* A new row comes into the batch. *)
LEMMA RowBatched ==
  ASSUME OneRowOnePlace, NEW new, new \notin Given, \A t \in Threads : InHand(t)' = InHand(t),
         batch' = batch \cup {new}, UNCHANGED <<printed, items>>, Given' = Given \cup {new}
  PROVE  OneRowOnePlace'
<1>1. ASSUME NEW row, NEW p
      PROVE  Lies(row, p)' <=> Lies(row, p) \/ (p = BatchOf(Main) /\ row = new)
  BY PlaceFacts DEF Lies
<1>2. ~ \E p : Lies(new, p)
  BY DEF OneRowOnePlace
<1> QED
  BY <1>1, <1>2 DEF OneRowOnePlace

(* What a thread has in its hands goes to the end of a queue. *)
LEMMA RowsPushed ==
  ASSUME OneRowOnePlace, NEW t \in Threads, NEW q \in Queues, NEW set, InHand(t) = set,
         InHand(t)' = {}, \A u \in Threads : u # t => InHand(u)' = InHand(u),
         items[q] \in Seq(Values), set \in Values, items'[q] = Append(items[q], set),
         \A r \in Queues : r # q => items'[r] = items[r],
         UNCHANGED <<batch, printed>>, Given' = Given
  PROVE  OneRowOnePlace'
<1> DEFINE n == Len(items[q])
<1>1. /\ n \in Nat /\ DOMAIN items[q] = 1..n /\ DOMAIN items'[q] = 1..(n + 1)
      /\ items'[q][n + 1] = set /\ \A i \in 1..n : items'[q][i] = items[q][i]
  OBVIOUS
<1>2. ASSUME NEW row, NEW p
      PROVE  Lies(row, p)' <=> \/ p = Place(q, n + 1) /\ row \in set
                               \/ Lies(row, p) /\ p # Hand(t)
  <2>1. ASSUME NEW r \in Queues
        PROVE  (\E i \in DOMAIN items'[r] : p = Place(r, i) /\ row \in items'[r][i]) <=>
                 \/ r = q /\ p = Place(q, n + 1) /\ row \in set
                 \/ \E i \in DOMAIN items[r] : p = Place(r, i) /\ row \in items[r][i]
    <3>1. CASE r # q
      BY <3>1
    <3>2. CASE r = q
      <4>1. \A i : i \in 1..(n + 1) <=> i \in 1..n \/ i = n + 1
        BY <1>1
      <4> HIDE DEF n
      <4> QED
        BY <1>1, <3>2, <4>1
    <3> QED
      BY <3>1, <3>2
  <2> HIDE DEF n
  <2>3. (\E u \in Threads : p = Hand(u) /\ row \in InHand(u)') <=>
          (\E u \in Threads : p = Hand(u) /\ row \in InHand(u)) /\ p # Hand(t)
    BY PlaceFacts
  <2>4. (\E r \in Queues : \E i \in DOMAIN items'[r] : p = Place(r, i) /\ row \in items'[r][i]) <=>
          \/ p = Place(q, n + 1) /\ row \in set
          \/ \E r \in Queues : \E i \in DOMAIN items[r] : p = Place(r, i) /\ row \in items[r][i]
    BY <2>1
  <2>5. Lies(row, p)' <=>
          \/ \E u \in Threads : p = Hand(u) /\ row \in InHand(u)'
          \/ p = BatchOf(Main) /\ row \in batch
          \/ \E i \in DOMAIN printed : p = FileLine(i) /\ row \in printed[i]
          \/ \E r \in Queues : \E i \in DOMAIN items'[r] : p = Place(r, i) /\ row \in items'[r][i]
    BY DEF Lies
  <2>6. p # Hand(t) \/ ~( \/ p = BatchOf(Main) \/ (\E i : p = FileLine(i)) \/ (\E r, i : p = Place(r, i)))
    BY PlaceFacts
  <2> QED
    BY <2>3, <2>4, <2>5, <2>6 DEF Lies
<1>3. ASSUME NEW row PROVE ~Lies(row, Place(q, n + 1))
  <2>1. n + 1 \notin DOMAIN items[q]
    BY <1>1
  <2> HIDE DEF n
  <2> QED
    BY <2>1, LiesIn
<1>4. \A row : row \in set <=> Lies(row, Hand(t))
  BY LiesIn
<1> HIDE DEF n
<1>5. ASSUME NEW row, NEW p, NEW o, Lies(row, p)', Lies(row, o)' PROVE p = o
  BY <1>2, <1>4, <1>5 DEF OneRowOnePlace
<1>6. ASSUME NEW row PROVE row \in Given' <=> \E p : Lies(row, p)'
  <2>1. ASSUME row \in Given, row \notin set PROVE \E p : Lies(row, p)'
    <3>1. PICK p : Lies(row, p)
      BY <2>1 DEF OneRowOnePlace
    <3> QED
      BY <1>2, <1>4, <2>1, <3>1
  <2>2. ASSUME row \in set PROVE row \in Given /\ \E p : Lies(row, p)'
    BY <1>2, <1>4, <2>2 DEF OneRowOnePlace
  <2>3. ASSUME NEW p, Lies(row, p)' PROVE row \in Given
    BY <1>2, <1>4, <2>3 DEF OneRowOnePlace
  <2> QED
    BY <2>1, <2>2, <2>3
<1> QED
  BY <1>5, <1>6 DEF OneRowOnePlace

(* The head of a queue comes into the hands of a thread. *)
LEMMA RowsPopped ==
  ASSUME OneRowOnePlace, NEW t \in Threads, NEW q \in Queues, InHand(t) = {},
         items[q] \in Seq(Values), items[q] # <<>>, InHand(t)' = Head(items[q]),
         \A u \in Threads : u # t => InHand(u)' = InHand(u), items'[q] = Tail(items[q]),
         \A r \in Queues : r # q => items'[r] = items[r],
         UNCHANGED <<batch, printed>>, Given' = Given
  PROVE  OneRowOnePlace'
<1> DEFINE n == Len(items[q])
           set == Head(items[q])
<1>1. /\ n \in Nat \ {0} /\ DOMAIN items[q] = 1..n /\ DOMAIN items'[q] = 1..(n - 1)
      /\ items[q][1] = set /\ \A i \in 1..(n - 1) : items'[q][i] = items[q][i + 1]
  OBVIOUS
<1>2. \A row : /\ row \in set <=> Lies(row, Place(q, 1))
               /\ ~Lies(row, Hand(t))
               /\ \A i \in 1..(n - 1) : row \in items'[q][i] <=> Lies(row, Place(q, i + 1))
  <2>1. /\ 1 \in DOMAIN items[q] /\ items[q][1] = set
        /\ \A i \in 1..(n - 1) : i + 1 \in DOMAIN items[q] /\ items'[q][i] = items[q][i + 1]
    BY <1>1
  <2> SUFFICES ASSUME NEW row
               PROVE  /\ row \in set <=> Lies(row, Place(q, 1))
                      /\ ~Lies(row, Hand(t))
                      /\ \A i \in 1..(n - 1) : row \in items'[q][i] <=> Lies(row, Place(q, i + 1))
    OBVIOUS
  <2> HIDE DEF n, set
  <2>2. \A i : Lies(row, Place(q, i)) <=> i \in DOMAIN items[q] /\ row \in items[q][i]
    BY LiesIn
  <2>3. ~Lies(row, Hand(t))
    BY LiesIn
  <2> QED
    BY <2>1, <2>2, <2>3
<1>3. ASSUME NEW row, NEW p
      PROVE  Lies(row, p)' <=>
               \/ p = Hand(t) /\ row \in set
               \/ Lies(row, p) /\ ~(\E i : p = Place(q, i))
               \/ \E i \in 1..(n - 1) : p = Place(q, i) /\ row \in items'[q][i]
  <2>1. ASSUME NEW r \in Queues, NEW i, p = Place(r, i), r # q
        PROVE  ~(\E j : p = Place(q, j))
    BY <2>1, PlaceFacts
  <2> HIDE DEF n, set
  <2>2. Lies(row, p) /\ ~(\E i : p = Place(q, i)) <=>
          \/ \E u \in Threads : p = Hand(u) /\ row \in InHand(u)
          \/ p = BatchOf(Main) /\ row \in batch
          \/ \E i \in DOMAIN printed : p = FileLine(i) /\ row \in printed[i]
          \/ \E r \in Queues : r # q /\ \E i \in DOMAIN items[r] : p = Place(r, i) /\ row \in items[r][i]
    BY <2>1, PlaceFacts DEF Lies
  <2>3. (\E u \in Threads : p = Hand(u) /\ row \in InHand(u)') <=>
          \/ p = Hand(t) /\ row \in set
          \/ \E u \in Threads : p = Hand(u) /\ row \in InHand(u)
    BY DEF set
  <2>4. Lies(row, p)' <=>
          \/ \E u \in Threads : p = Hand(u) /\ row \in InHand(u)'
          \/ p = BatchOf(Main) /\ row \in batch
          \/ \E i \in DOMAIN printed : p = FileLine(i) /\ row \in printed[i]
          \/ \E r \in Queues : r # q /\ \E i \in DOMAIN items[r] : p = Place(r, i) /\ row \in items[r][i]
          \/ \E i \in 1..(n - 1) : p = Place(q, i) /\ row \in items'[q][i]
    BY <1>1 DEF Lies
  <2> QED
    BY <2>2, <2>3, <2>4
<1> HIDE DEF set
<1>4. ASSUME NEW row, NEW p, NEW o, Lies(row, p)', Lies(row, o)' PROVE p = o
  <2>1. \A i, j \in 1..(n - 1) : i + 1 # 1 /\ (i + 1 = j + 1 => i = j)
    BY <1>1
  <2> HIDE DEF n
  <2>2. \A i \in 1..(n - 1) : Lies(row, Place(q, i + 1)) => row \notin set
    BY <1>2, <2>1, PlaceFacts DEF OneRowOnePlace
  <2>3. \A i, j \in 1..(n - 1) :
          Lies(row, Place(q, i + 1)) /\ Lies(row, Place(q, j + 1)) => i = j
    BY <2>1, PlaceFacts DEF OneRowOnePlace
  <2>4. \A r : Lies(row, r) /\ ~(\E i : r = Place(q, i)) =>
          row \notin set /\ ~ \E i \in 1..(n - 1) : Lies(row, Place(q, i + 1))
    BY <1>2 DEF OneRowOnePlace
  <2>5. \A r, s : Lies(row, r) /\ Lies(row, s) => r = s
    BY DEF OneRowOnePlace
  <2>6. \A i \in 1..(n - 1) : row \in items'[q][i] => Lies(row, Place(q, i + 1))
    BY <1>2
  <2>7. /\ \/ p = Hand(t) /\ row \in set
           \/ Lies(row, p) /\ ~(\E i : p = Place(q, i))
           \/ \E i \in 1..(n - 1) : p = Place(q, i) /\ Lies(row, Place(q, i + 1))
        /\ \/ o = Hand(t) /\ row \in set
           \/ Lies(row, o) /\ ~(\E i : o = Place(q, i))
           \/ \E i \in 1..(n - 1) : o = Place(q, i) /\ Lies(row, Place(q, i + 1))
    BY <1>3, <1>4, <2>6
  <2>8. CASE row \in set
    BY <2>2, <2>4, <2>7, <2>8
  <2>9. CASE row \notin set
    BY <2>3, <2>4, <2>5, <2>7, <2>9
  <2> QED
    BY <2>8, <2>9
<1>5. ASSUME NEW row PROVE row \in Given' <=> \E p : Lies(row, p)'
  <2>1. ASSUME row \in Given PROVE \E p : Lies(row, p)'
    <3>1. PICK p : Lies(row, p)
      BY <2>1 DEF OneRowOnePlace
    <3>2. CASE ~(\E i : p = Place(q, i))
      BY <1>3, <3>1, <3>2
    <3>3. CASE \E i : p = Place(q, i)
      <4>1. PICK i \in 1..n : p = Place(q, i)
        BY <1>1, <3>1, <3>3, LiesIn
      <4>2. CASE i = 1
        BY <1>2, <1>3, <3>1, <4>1, <4>2
      <4>3. CASE i # 1
        <5>1. i - 1 \in 1..(n - 1) /\ (i - 1) + 1 = i
          BY <1>1, <4>1, <4>3
        <5>2. row \in items'[q][i - 1]
          BY <1>2, <3>1, <4>1, <5>1
        <5> QED
          BY <1>3, <5>1, <5>2
      <4> QED
        BY <4>2, <4>3
    <3> QED
      BY <3>2, <3>3
  <2> HIDE DEF n
  <2>2. ASSUME NEW p, Lies(row, p)' PROVE row \in Given
    BY <1>2, <1>3, <2>2 DEF OneRowOnePlace
  <2> QED
    BY <2>1, <2>2
<1> QED
  BY <1>4, <1>5 DEF OneRowOnePlace

(* The printer writes what it has in its hands. *)
LEMMA RowsWritten ==
  ASSUME OneRowOnePlace, NEW set, InHand(Printer) = set, set \in Values,
         InHand(Printer)' = {}, \A u \in Threads : u # Printer => InHand(u)' = InHand(u),
         printed \in Seq(Values), printed' = Append(printed, set),
         UNCHANGED <<batch, items>>, Given' = Given
  PROVE  OneRowOnePlace'
<1> DEFINE n == Len(printed)
<1>1. /\ n \in Nat /\ DOMAIN printed = 1..n /\ DOMAIN printed' = 1..(n + 1)
      /\ printed'[n + 1] = set /\ \A i \in 1..n : printed'[i] = printed[i]
  OBVIOUS
<1>2. \A i : i \in 1..(n + 1) <=> i \in 1..n \/ i = n + 1
  BY <1>1
<1>3. ASSUME NEW row PROVE ~Lies(row, FileLine(n + 1))
  <2>1. n + 1 \notin DOMAIN printed
    BY <1>1
  <2> HIDE DEF n
  <2> QED
    BY <2>1, LiesIn
<1> HIDE DEF n
<1>4. \A row : row \in set <=> Lies(row, Hand(Printer))
  BY LiesIn, ThreadFacts
<1>5. ASSUME NEW row, NEW p
      PROVE  Lies(row, p)' <=> \/ p = FileLine(n + 1) /\ row \in set
                               \/ Lies(row, p) /\ p # Hand(Printer)
  BY <1>1, <1>2, PlaceFacts, ThreadFacts DEF Lies
<1>6. ASSUME NEW row, NEW p, NEW o, Lies(row, p)', Lies(row, o)' PROVE p = o
  BY <1>4, <1>5, <1>6 DEF OneRowOnePlace
<1>7. ASSUME NEW row PROVE row \in Given' <=> \E p : Lies(row, p)'
  <2>1. ASSUME row \in Given, row \notin set PROVE \E p : Lies(row, p)'
    <3>1. PICK p : Lies(row, p)
      BY <2>1 DEF OneRowOnePlace
    <3> QED
      BY <1>4, <1>5, <2>1, <3>1
  <2>2. ASSUME row \in set PROVE row \in Given /\ \E p : Lies(row, p)'
    BY <1>4, <1>5, <2>2 DEF OneRowOnePlace
  <2>3. ASSUME NEW p, Lies(row, p)' PROVE row \in Given
    BY <1>4, <1>5, <2>3 DEF OneRowOnePlace
  <2> QED
    BY <2>1, <2>2, <2>3
<1> QED
  BY <1>6, <1>7 DEF OneRowOnePlace

-----------------------------------------------------------------------------
(* Who has rows in hands, and when there are none left                        *)

HandsInOrder ==
  /\ pc[Main] \notin {"pop", "popped"}
  /\ \A t \in Threads : call[t] # NoCall =>
       /\ call[t].kind = "push" => pc[t] # "popped"
       /\ call[t].kind = "pop" => pc[t] = "popped" /\ (call[t].step # "try" => got[t] # NoValue)

(* A worker, or the printer, is told that nothing will come any more. *)
Ended(t) ==
  \/ pc[t] = "done"
  \/ pc[t] = "popped" /\ call[t] = NoCall /\ got[t] = NoValue

Drained(q) == closed[q] /\ items[q] = <<>>

EndsDrained ==
  /\ \A w \in Workers : Ended(w) => Drained(BoardQueue)
  /\ Ended(Printer) => Drained(StringQueue)
  /\ pc[Main] = "done" => pc[Printer] = "done"

(* The rows extracted are the rows read, or the sample once it is passed on. *)
SampledInOrder ==
  /\ sample \cap fed = {}
  /\ sampleSize = NoSampling => sample = {} /\ fed = 1..read
  /\ sampleSize # NoSampling /\ pc[Main] \in {"start", "reading"} => fed = {}
  /\ sampleSize # NoSampling =>
       Cardinality(sample \cup fed) = IF sampleSize < read THEN sampleSize ELSE read
  /\ pc[Main] \in {"closing", "joining", "leaving", "done"} => sample = {} /\ batch = {}

RowsInv == OneRowOnePlace /\ HandsInOrder /\ EndsDrained /\ SampledInOrder

(* The invariant says what the two properties say, and more. *)
LEMMA RowsInvIsEnough == DatasetInv /\ RowsInv => EachRowIsInOnePlace /\ FileIsComplete
<1> SUFFICES ASSUME DatasetInv, RowsInv PROVE EachRowIsInOnePlace /\ FileIsComplete
  OBVIOUS
<1>1. EachRowIsInOnePlace
  BY OnePlaceIsEnough DEF RowsInv
<1>2. ASSUME pc[Main] = "done"
      PROVE  UNION {printed[i] : i \in DOMAIN printed} = fed \union {Header}
  <2>1. /\ pc[Printer] = "done" /\ \A w \in Workers : pc[w] = "done"
        /\ \E w : w \in Workers
    BY <1>2, ThreadsAssumption DEF RowsInv, EndsDrained, DatasetInv, OrderInv, WorkersJoined
  <2>2. \A q \in Queues : items[q] = <<>>
    BY <2>1, ThreadFacts DEF RowsInv, EndsDrained, Ended, Drained
  <2>3. \A t \in Threads : pc[t] = "done"
    BY <1>2, <2>1, ThreadsAssumption
  <2>4. \A t \in Threads : InHand(t) = {}
    BY <1>2, <2>3 DEF InHand, DatasetInv, OrderInv, PushesInOrder
  <2>5. batch = {} /\ Given = fed \union {Header}
    BY <1>2 DEF RowsInv, SampledInOrder, Given
  <2>6. \A q \in Queues : DOMAIN items[q] = {}
    BY <2>2
  <2>7. \A row : row \in Given <=> \E i \in DOMAIN printed : row \in printed[i]
    <3>1. \A row, p : Lies(row, p) <=> \E i \in DOMAIN printed : p = FileLine(i) /\ row \in printed[i]
      BY <2>4, <2>5, <2>6 DEF Lies
    <3> QED
      BY <3>1 DEF RowsInv, OneRowOnePlace
  <2> QED
    BY <2>5, <2>7
<1>3. ASSUME pc[Main] = "done"
      PROVE  Cardinality(fed) =
               IF sampleSize # NoSampling /\ sampleSize < read THEN sampleSize ELSE read
  <2>1. read \in Nat /\ sample = {}
    BY <1>3, BoundsAssumption DEF RowsInv, SampledInOrder, DatasetInv, DatasetTypeOK
  <2>2. CASE sampleSize = NoSampling
    <3>1. fed = 1..read
      BY <2>2 DEF RowsInv, SampledInOrder
    <3> QED
      BY <2>1, <2>2, <3>1, FS_Interval
  <2>3. CASE sampleSize # NoSampling
    <3>1. sample \cup fed = fed
      BY <2>1
    <3> QED
      BY <2>3, <3>1 DEF RowsInv, SampledInOrder
  <2> QED
    BY <2>2, <2>3
<1> QED
  BY <1>1, <1>2, <1>3 DEF FileIsComplete

(* In the beginning there are no rows, and nobody has ended. *)
LEMMA RowsInitInv == Init => RowsInv
<1> SUFFICES ASSUME Init PROVE RowsInv
  OBVIOUS
<1>1. /\ \A t \in Threads : call[t] = NoCall /\ got[t] = NoValue /\ pc[t] # "popped" /\ pc[t] # "done"
      /\ pc[Main] = "start" /\ batch = {} /\ fed = {} /\ printed = <<>> /\ sample = {} /\ read = 0
      /\ \A q \in Queues : items[q] = <<>>
      /\ sampleSize \in SampleSizes
  BY ThreadFacts DEF Init, QueueInit
<1>2. OneRowOnePlace
  <2>1. \A t \in Threads : InHand(t) = {}
    BY <1>1 DEF InHand
  <2>2. Given = {} /\ DOMAIN printed = {} /\ \A q \in Queues : DOMAIN items[q] = {}
    BY <1>1 DEF Given
  <2>3. \A row, p : ~Lies(row, p)
    BY <1>1, <2>1, <2>2 DEF Lies
  <2> QED
    BY <2>2, <2>3 DEF OneRowOnePlace
<1>3. HandsInOrder /\ EndsDrained
  BY <1>1, ThreadFacts DEF HandsInOrder, EndsDrained, Ended
<1>4. SampledInOrder
  <2>1. sample \cup fed = {} /\ 1..0 = {} /\ Cardinality({}) = 0
    BY <1>1, FS_EmptySet
  <2>2. sampleSize # NoSampling => sampleSize \in Nat
    BY <1>1, BoundsAssumption
  <2> QED
    BY <1>1, <2>1, <2>2 DEF SampledInOrder
<1> QED
  BY <1>2, <1>3, <1>4 DEF RowsInv

(* What a thread has in its hands depends on that thread only. *)
LEMMA HandsStay ==
  ASSUME NEW t, pc'[t] = pc[t], call'[t] = call[t], got'[t] = got[t]
  PROVE  InHand(t)' = InHand(t) /\ (Ended(t)' <=> Ended(t))
BY DEF InHand, Ended

-----------------------------------------------------------------------------
(* The steps of the main thread *)

(* A step of the main thread leaves who has ended, and what is drained, alone. *)
LEMMA RowsMainStep ==
  ASSUME DatasetInv, RowsInv, UNCHANGED <<items, closed, got>>,
         NEW label \in Labels \ {"pop", "popped"}, Goto(Main, label),
         \A u \in Threads : u # Main => call'[u] = call[u],
         call'[Main] # NoCall => call'[Main].kind # "pop",
         label = "done" => pc[Printer] = "done",
         OneRowOnePlace', SampledInOrder'
  PROVE  RowsInv'
<1>1. pc'[Main] = label /\ \A u \in Threads : u # Main => pc'[u] = pc[u]
  BY ThreadFacts DEF Goto, DatasetInv, DatasetTypeOK
<1>2. HandsInOrder'
  <2>1. pc'[Main] \notin {"pop", "popped"}
    BY <1>1
  <2> QED
    BY <1>1, <2>1, ThreadFacts DEF RowsInv, HandsInOrder
<1>3. \A u \in Threads : u # Main => (Ended(u)' <=> Ended(u))
  BY <1>1, HandsStay
<1>4. EndsDrained'
  BY <1>1, <1>3, ThreadFacts DEF RowsInv, EndsDrained, Drained
<1> QED
  BY <1>2, <1>4 DEF RowsInv

(* A board that reaches the extractor is in the batch, or on its way with it. *)
LEMMA RowsConsumed ==
  ASSUME DatasetInv, RowsInv, call[Main] = NoCall, pc[Main] \in {"reading", "feeding"},
         NEW board \in Boards, board \notin fed, Consume(board), UNCHANGED <<pc, printed>>
  PROVE  /\ OneRowOnePlace' /\ UNCHANGED <<items, closed, got>>
         /\ \A u \in Threads : u # Main => call'[u] = call[u]
         /\ call'[Main] # NoCall => call'[Main].kind # "pop"
<1>1. /\ board \notin Given /\ Given' = Given \cup {board}
  BY QueuesAssumption DEF Given, Consume
<1>2. InHand(Main) = {}
  BY DEF InHand, RowsInv, HandsInOrder
<1>3. CASE CallPush(Main, BoardQueue, batch \cup {board}) /\ batch' = {}
  <2> DEFINE b == batch \cup {board}
  <2>1. Enter(Main, "push", BoardQueue, b) /\ UNCHANGED <<items, closed, got>> /\ b \in Values
    BY <1>3, QueuesAssumption, BoundsAssumption
       DEF CallPush, DatasetInv, DatasetTypeOK, Boards
  <2>2. /\ \A u \in Threads : u # Main => call'[u] = call[u]
        /\ call'[Main] # NoCall /\ call'[Main].kind = "push" /\ call'[Main].step = "try"
        /\ call'[Main].value = b
    BY <2>1, EnterFacts, ThreadFacts DEF DatasetInv, QueueInv
  <2>3. InHand(Main)' = b
    BY <2>2 DEF InHand
  <2>4. \A u \in Threads : u # Main => InHand(u)' = InHand(u)
    BY <2>1, <2>2, HandsStay
  <2>5. batch' = batch \ batch /\ {board} \cap Given = {}
    BY <1>1, <1>3
  <2>6. OneRowOnePlace'
    BY <1>1, <1>2, <2>1, <2>3, <2>4, <2>5, RowsTaken DEF RowsInv
  <2> QED
    BY <2>1, <2>2, <2>6
<1>4. CASE batch' = batch \cup {board} /\ UNCHANGED queueVars
  <2>1. UNCHANGED <<items, closed, got, call>>
    BY <1>4 DEF queueVars
  <2>2. \A u \in Threads : InHand(u)' = InHand(u)
    BY <2>1, HandsStay
  <2>3. OneRowOnePlace'
    BY <1>1, <1>4, <2>1, <2>2, RowBatched DEF RowsInv
  <2> QED
    BY <2>1, <2>3
<1> QED
  BY <1>3, <1>4 DEF Consume

(* The reservoir grows until it is full, and then keeps its size. *)
LEMMA NewSampleSize ==
  ASSUME NEW s, IsFiniteSet(s), NEW n \in Nat, NEW new \in Nat, new \notin s, NEW max \in Nat,
         Cardinality(s) = IF max < n THEN max ELSE n, sampleSize = max, sample = s,
         NEW chosen \in NewSample(new)
  PROVE  Cardinality(chosen) = IF max < n + 1 THEN max ELSE n + 1
<1>1. Cardinality(s \cup {new}) = Cardinality(s) + 1
  BY FS_AddElement
<1>2. CASE Cardinality(s) < max
  <2>1. chosen = s \cup {new}
    BY <1>2 DEF NewSample
  <2> QED
    BY <1>1, <1>2, <2>1
<1>3. CASE ~(Cardinality(s) < max)
  <2>1. Cardinality(s) = max /\ ~(n < max)
    BY <1>3
  <2>2. chosen = s \/ \E old \in s : chosen = (s \ {old}) \cup {new}
    BY <1>3 DEF NewSample
  <2>3. ASSUME NEW old \in s PROVE Cardinality((s \ {old}) \cup {new}) = Cardinality(s)
    <3>1. IsFiniteSet(s \ {old}) /\ Cardinality(s \ {old}) = Cardinality(s) - 1
      BY FS_RemoveElement
    <3>2. Cardinality((s \ {old}) \cup {new}) = Cardinality(s \ {old}) + 1
      BY <3>1, FS_AddElement
    <3>3. Cardinality(s) \in Int
      BY <2>1
    <3> QED
      BY <3>1, <3>2, <3>3
  <2> QED
    BY <2>1, <2>2, <2>3
<1> QED
  BY <1>2, <1>3

(* A board that is read goes to the extractor, or perhaps into the sample. *)
LEMMA RowsRead ==
  ASSUME DatasetInv, RowsInv, ReadBoard
  PROVE  RowsInv'
<1>1. /\ pc[Main] = "reading" /\ call[Main] = NoCall /\ read < MaxBoards /\ read' = read + 1
      /\ UNCHANGED <<pc, sampleSize, printed>> /\ Goto(Main, "reading")
  BY DEF ReadBoard, At, Goto, DatasetInv, DatasetTypeOK
<1>2. /\ read \in Nat /\ MaxBoards \in Nat /\ fed \subseteq 1..read /\ sample \subseteq 1..read
      /\ 1..(read + 1) = 1..read \cup {read + 1} /\ read + 1 \notin 1..read
      /\ read + 1 \in Boards
      /\ sampleSize # NoSampling => sampleSize \in Nat
  BY <1>1, BoundsAssumption DEF DatasetInv, DatasetTypeOK, Boards
<1>3. CASE sampleSize = NoSampling /\ Consume(read + 1) /\ UNCHANGED sample
  <2>1. read + 1 \notin fed
    BY <1>2
  <2>2. /\ OneRowOnePlace' /\ UNCHANGED <<items, closed, got>>
        /\ \A u \in Threads : u # Main => call'[u] = call[u]
        /\ call'[Main] # NoCall => call'[Main].kind # "pop"
    BY <1>1, <1>2, <1>3, <2>1, RowsConsumed
  <2>3. SampledInOrder'
    <3>1. fed' = fed \cup {read + 1}
      BY <1>3 DEF Consume
    <3> QED
      BY <1>1, <1>2, <1>3, <3>1 DEF RowsInv, SampledInOrder
  <2> QED
    BY <1>1, <2>2, <2>3, RowsMainStep DEF Labels
<1>4. CASE /\ sampleSize # NoSampling /\ sample' \in NewSample(read + 1)
           /\ UNCHANGED <<queueVars, batch, fed>>
  <2>1. UNCHANGED <<items, closed, got, call>>
    BY <1>4 DEF queueVars
  <2>2. Given' = Given /\ \A u \in Threads : InHand(u)' = InHand(u)
    BY <1>1, <1>4, <2>1, HandsStay DEF Given
  <2>3. OneRowOnePlace'
    BY <1>1, <1>4, <2>1, <2>2, RowsUnmoved DEF RowsInv
  <2>4. fed = {} /\ sample \cup fed = sample /\ fed' = {} /\ sample' \cup fed' = sample'
    BY <1>1, <1>4 DEF RowsInv, SampledInOrder
  <2>5. Cardinality(sample) = IF sampleSize < read THEN sampleSize ELSE read
    BY <1>4, <2>4 DEF RowsInv, SampledInOrder
  <2>6. IsFiniteSet(sample)
    <3>1. IsFiniteSet(1..read) /\ sample \in SUBSET (1..read)
      BY <1>2, FS_Interval
    <3> QED
      BY <3>1, FS_Subset
  <2>7. Cardinality(sample') = IF sampleSize < read + 1 THEN sampleSize ELSE read + 1
    BY <1>2, <1>4, <2>5, <2>6, NewSampleSize
  <2>8. SampledInOrder'
    BY <1>1, <1>4, <2>4, <2>7 DEF SampledInOrder
  <2> QED
    BY <1>1, <1>2, <2>1, <2>3, <2>8, RowsMainStep DEF Labels
<1> QED
  BY <1>3, <1>4 DEF ReadBoard

(* A board of the sample goes to the extractor when the input has ended. *)
LEMMA RowsFed ==
  ASSUME DatasetInv, RowsInv, FeedSample
  PROVE  RowsInv'
<1>1. PICK board \in sample : Consume(board) /\ sample' = sample \ {board}
  BY DEF FeedSample
<1>2. /\ pc[Main] = "feeding" /\ call[Main] = NoCall
      /\ UNCHANGED <<pc, sampleSize, read, printed>> /\ Goto(Main, "feeding")
      /\ board \in Boards /\ fed' = fed \cup {board}
  BY <1>1, BoundsAssumption
     DEF FeedSample, At, Goto, DatasetInv, DatasetTypeOK, Boards, Consume
<1>3. board \notin fed
  BY DEF RowsInv, SampledInOrder
<1>4. /\ OneRowOnePlace' /\ UNCHANGED <<items, closed, got>>
      /\ \A u \in Threads : u # Main => call'[u] = call[u]
      /\ call'[Main] # NoCall => call'[Main].kind # "pop"
  BY <1>1, <1>2, <1>3, RowsConsumed
<1>5. sample' \cup fed' = sample \cup fed /\ sample' \cap fed' = {}
  BY <1>1, <1>2 DEF RowsInv, SampledInOrder
<1>6. SampledInOrder'
  BY <1>2, <1>5 DEF RowsInv, SampledInOrder
<1> QED
  BY <1>2, <1>4, <1>6, RowsMainStep DEF Labels

(* The header is new in the hands of the main thread. *)
LEMMA RowsHeaderPut ==
  ASSUME DatasetInv, RowsInv, PutHeader
  PROVE  RowsInv'
<1>1. /\ pc[Main] = "start" /\ call[Main] = NoCall
      /\ Enter(Main, "push", StringQueue, {Header}) /\ {Header} \in Values
      /\ UNCHANGED <<items, closed, got, printed, mainVars>> /\ Goto(Main, "reading")
  BY QueuesAssumption DEF PutHeader, At, CallPush
<1>2. /\ \A u \in Threads : u # Main => call'[u] = call[u]
      /\ call'[Main] # NoCall /\ call'[Main].kind = "push" /\ call'[Main].step = "try"
      /\ call'[Main].value = {Header}
  BY <1>1, EnterFacts, ThreadFacts DEF DatasetInv, QueueInv
<1>3. pc'[Main] = "reading" /\ \A u \in Threads : u # Main => pc'[u] = pc[u]
  BY <1>1, ThreadFacts DEF Goto, DatasetInv, DatasetTypeOK
<1>4. {Header} \cap Given = {} /\ Given' = Given \cup {Header}
  <2>1. fed \subseteq Boards
    BY BoundsAssumption DEF DatasetInv, DatasetTypeOK, Boards
  <2> QED
    BY <1>1, <1>3, <2>1, QueuesAssumption DEF Given, mainVars
<1>5. OneRowOnePlace'
  <2>1. InHand(Main) = {} /\ InHand(Main)' = {} \cup {Header}
    BY <1>1, <1>2 DEF InHand
  <2>2. \A u \in Threads : u # Main => InHand(u)' = InHand(u)
    BY <1>1, <1>2, <1>3, HandsStay
  <2>3. batch' = batch \ {} /\ {} \subseteq batch
    BY <1>1 DEF mainVars
  <2> QED
    BY <1>1, <1>4, <2>1, <2>2, <2>3, RowsTaken DEF RowsInv
<1>6. SampledInOrder'
  BY <1>1, <1>3 DEF RowsInv, SampledInOrder, mainVars
<1> QED
  BY <1>1, <1>2, <1>5, <1>6, RowsMainStep DEF Labels

(* What is left in the batch goes on its way. *)
LEMMA RowsDrained ==
  ASSUME DatasetInv, RowsInv, DrainLastBatch
  PROVE  RowsInv'
<1>1. /\ pc[Main] = "feeding" /\ call[Main] = NoCall /\ sample = {} /\ batch' = {}
      /\ UNCHANGED <<items, closed, got, printed, sampleSize, read, sample, fed>>
      /\ Goto(Main, "closing")
      /\ \/ batch # {} /\ Enter(Main, "push", BoardQueue, batch)
         \/ batch = {} /\ UNCHANGED call
  BY DEF DrainLastBatch, At, CallPush, queueVars
<1>2. pc'[Main] = "closing" /\ \A u \in Threads : u # Main => pc'[u] = pc[u]
  BY <1>1, ThreadFacts DEF Goto, DatasetInv, DatasetTypeOK
<1>3. batch \in Values
  BY QueuesAssumption, BoundsAssumption DEF DatasetInv, DatasetTypeOK, Boards
<1>4. /\ \A u \in Threads : u # Main => call'[u] = call[u]
      /\ \/ /\ call'[Main] # NoCall /\ call'[Main].kind = "push" /\ call'[Main].step = "try"
            /\ call'[Main].value = batch
         \/ batch = {} /\ call'[Main] = NoCall
  BY <1>1, <1>3, EnterFacts, ThreadFacts DEF DatasetInv, QueueInv
<1>5. Given' = Given
  BY <1>1, <1>2 DEF Given
<1>6. OneRowOnePlace'
  <2>1. InHand(Main) = {} /\ InHand(Main)' = batch \cup {}
    BY <1>1, <1>2, <1>4 DEF InHand
  <2>2. \A u \in Threads : u # Main => InHand(u)' = InHand(u)
    BY <1>1, <1>2, <1>4, HandsStay
  <2>3. batch' = batch \ batch /\ {} \cap Given = {} /\ Given' = Given \cup {}
    BY <1>1, <1>5
  <2> QED
    BY <1>1, <2>1, <2>2, <2>3, RowsTaken DEF RowsInv
<1>7. SampledInOrder'
  BY <1>1, <1>2 DEF RowsInv, SampledInOrder
<1> QED
  BY <1>1, <1>4, <1>6, <1>7, RowsMainStep DEF Labels

(* The other steps of the main thread move no row. *)
LEMMA RowsMainMoves ==
  ASSUME DatasetInv, RowsInv, EndOfInput \/ CloseBoards \/ JoinWorkers \/ JoinPrinter
  PROVE  RowsInv'
<1>1. /\ call[Main] = NoCall /\ UNCHANGED <<items, closed, got, printed, mainVars>>
      /\ UNCHANGED call \/ \E q \in Queues : Enter(Main, "close", q, NoValue)
  BY ThreadFacts
     DEF EndOfInput, CloseBoards, JoinWorkers, JoinPrinter, At, CallClose, queueVars
<1>2. PICK label \in Labels \ {"start", "pop", "popped"} :
        /\ Goto(Main, label)
        /\ label = "done" => pc[Printer] = "done"
        /\ pc[Main] \in {"reading", "closing", "joining", "leaving"}
        /\ label # "reading"
        /\ label \in {"closing", "joining", "leaving", "done"} => pc[Main] # "reading"
  BY DEF EndOfInput, CloseBoards, JoinWorkers, JoinPrinter, At, Labels
<1>3. pc'[Main] = label /\ \A u \in Threads : u # Main => pc'[u] = pc[u]
  BY <1>2, ThreadFacts DEF Goto, DatasetInv, DatasetTypeOK
<1>4. /\ \A u \in Threads : u # Main => call'[u] = call[u]
      /\ call'[Main] # NoCall => call'[Main].kind = "close"
  BY <1>1, EnterFacts, ThreadFacts DEF DatasetInv, QueueInv
<1>5. OneRowOnePlace'
  <2>1. InHand(Main) = {} /\ InHand(Main)' = {}
    BY <1>1, <1>2, <1>3, <1>4 DEF InHand
  <2>2. \A u \in Threads : u # Main => InHand(u)' = InHand(u)
    BY <1>1, <1>3, <1>4, HandsStay
  <2>3. Given' = Given
    BY <1>1, <1>2, <1>3 DEF Given, mainVars
  <2> QED
    BY <1>1, <2>1, <2>2, <2>3, RowsUnmoved DEF RowsInv, mainVars
<1>6. SampledInOrder'
  BY <1>1, <1>2, <1>3 DEF RowsInv, SampledInOrder, mainVars
<1> QED
  BY <1>1, <1>2, <1>4, <1>5, <1>6, RowsMainStep

-----------------------------------------------------------------------------
(* The steps of the others *)

(* A worker takes a batch from its hands into a call, or begins or ends. *)
LEMMA RowsWorker ==
  ASSUME DatasetInv, RowsInv, NEW w \in Workers, WorkerNext(w)
  PROVE  RowsInv'
<1>1. /\ w \in Threads /\ w # Main /\ w # Printer /\ call[w] = NoCall
      /\ UNCHANGED <<items, closed, got, printed, mainVars>>
  BY ThreadFacts
     DEF WorkerNext, PopBatch, Extract, CallPop, CallPush, At, queueVars
<1>2. \/ /\ pc[w] = "pop" /\ Goto(w, "popped") /\ Enter(w, "pop", BoardQueue, NoValue)
      \/ /\ pc[w] = "popped" /\ got[w] = NoValue /\ Goto(w, "done") /\ UNCHANGED call
      \/ /\ pc[w] = "popped" /\ got[w] # NoValue /\ Goto(w, "pop")
         /\ Enter(w, "push", StringQueue, got[w])
  BY DEF WorkerNext, PopBatch, Extract, CallPop, CallPush, At, queueVars
<1>3. \A u \in Threads : u # w => pc'[u] = pc[u]
  BY <1>1, <1>2 DEF Goto, DatasetInv, DatasetTypeOK
<1>4. got[w] \in Values \union {NoValue}
  BY <1>1 DEF DatasetInv, DatasetTypeOK, QueueTypeOK
<1>5. /\ \A u \in Threads : u # w => call'[u] = call[u]
      /\ \/ /\ pc[w] = "pop" /\ pc'[w] = "popped" /\ call'[w] # NoCall
            /\ call'[w].kind = "pop" /\ call'[w].step = "try"
         \/ /\ pc[w] = "popped" /\ got[w] = NoValue /\ pc'[w] = "done" /\ call'[w] = NoCall
         \/ /\ pc[w] = "popped" /\ got[w] # NoValue /\ pc'[w] = "pop" /\ call'[w] # NoCall
            /\ call'[w].kind = "push" /\ call'[w].step = "try" /\ call'[w].value = got[w]
  BY <1>1, <1>2, <1>4, EnterFacts, ThreadFacts
     DEF Goto, DatasetInv, DatasetTypeOK, QueueInv
<1>6. \A u \in Threads : InHand(u)' = InHand(u)
  <2>1. InHand(w)' = InHand(w)
    BY <1>1, <1>5 DEF InHand
  <2> QED
    BY <1>1, <1>3, <1>5, <2>1, HandsStay
<1>7. pc'[Main] = pc[Main] /\ Given' = Given
  BY <1>1, <1>3, ThreadFacts DEF Given, mainVars
<1>8. OneRowOnePlace'
  BY <1>1, <1>6, <1>7, RowsUnmoved DEF RowsInv, mainVars
<1>9. HandsInOrder'
  BY <1>1, <1>3, <1>5, <1>7 DEF RowsInv, HandsInOrder
<1>10. EndsDrained'
  <2>1. \A u \in Threads : Ended(u)' => Ended(u)
    <3>1. Ended(w)' => Ended(w)
      BY <1>1, <1>5 DEF Ended
    <3> QED
      BY <1>1, <1>3, <1>5, <3>1, HandsStay
  <2> QED
    BY <1>1, <1>3, <1>7, <2>1, ThreadFacts DEF RowsInv, EndsDrained, Drained
<1>11. SampledInOrder'
  BY <1>1, <1>7 DEF RowsInv, SampledInOrder, mainVars
<1> QED
  BY <1>8, <1>9, <1>10, <1>11 DEF RowsInv

(* The printer does the same, but it writes what it has in its hands. *)
LEMMA RowsPrinter ==
  ASSUME DatasetInv, RowsInv, PrinterNext
  PROVE  RowsInv'
<1>1. call[Printer] = NoCall /\ UNCHANGED <<items, closed, got, mainVars>>
  BY DEF PrinterNext, PopString, WriteString, CallPop, At, queueVars
<1>2. \/ /\ pc[Printer] = "pop" /\ Goto(Printer, "popped")
         /\ Enter(Printer, "pop", StringQueue, NoValue) /\ UNCHANGED printed
      \/ /\ pc[Printer] = "popped" /\ got[Printer] = NoValue /\ Goto(Printer, "done")
         /\ UNCHANGED <<call, printed>>
      \/ /\ pc[Printer] = "popped" /\ got[Printer] # NoValue /\ Goto(Printer, "pop")
         /\ UNCHANGED call /\ printed' = Append(printed, got[Printer])
  BY DEF PrinterNext, PopString, WriteString, CallPop, At, queueVars
<1>3. \A u \in Threads : u # Printer => pc'[u] = pc[u]
  BY <1>2 DEF Goto, DatasetInv, DatasetTypeOK
<1>4. got[Printer] \in Values \union {NoValue} /\ printed \in Seq(Values)
  BY ThreadFacts DEF DatasetInv, DatasetTypeOK, QueueTypeOK
<1>5. /\ \A u \in Threads : u # Printer => call'[u] = call[u]
      /\ \/ /\ pc[Printer] = "pop" /\ pc'[Printer] = "popped" /\ call'[Printer] # NoCall
            /\ call'[Printer].kind = "pop" /\ call'[Printer].step = "try" /\ UNCHANGED printed
         \/ /\ pc[Printer] = "popped" /\ got[Printer] = NoValue /\ pc'[Printer] = "done"
            /\ call'[Printer] = NoCall /\ UNCHANGED printed
         \/ /\ pc[Printer] = "popped" /\ got[Printer] # NoValue /\ pc'[Printer] = "pop"
            /\ call'[Printer] = NoCall /\ printed' = Append(printed, got[Printer])
  BY <1>1, <1>2, EnterFacts, ThreadFacts DEF Goto, DatasetInv, DatasetTypeOK, QueueInv
<1>6. \A u \in Threads : u # Printer => InHand(u)' = InHand(u) /\ (Ended(u)' <=> Ended(u))
  BY <1>1, <1>3, <1>5, HandsStay
<1>7. pc'[Main] = pc[Main] /\ Given' = Given
  BY <1>1, <1>3, ThreadFacts DEF Given, mainVars
<1>8. OneRowOnePlace'
  <2>1. CASE UNCHANGED printed /\ (pc'[Printer] = "popped" \/ pc'[Printer] = "done")
    <3>1. InHand(Printer) = {} /\ InHand(Printer)' = {}
      BY <1>1, <1>5, <2>1 DEF InHand
    <3> QED
      BY <1>1, <1>6, <1>7, <2>1, <3>1, RowsUnmoved DEF RowsInv, mainVars
  <2>2. CASE /\ pc[Printer] = "popped" /\ got[Printer] # NoValue /\ pc'[Printer] = "pop"
             /\ call'[Printer] = NoCall /\ printed' = Append(printed, got[Printer])
    <3>1. InHand(Printer) = got[Printer] /\ InHand(Printer)' = {} /\ got[Printer] \in Values
      BY <1>1, <1>4, <2>2 DEF InHand
    <3> QED
      BY <1>1, <1>4, <1>6, <1>7, <2>2, <3>1, RowsWritten DEF RowsInv, mainVars
  <2> QED
    BY <1>5, <2>1, <2>2
<1>9. HandsInOrder'
  BY <1>1, <1>3, <1>5, <1>7, ThreadFacts DEF RowsInv, HandsInOrder
<1>10. EndsDrained'
  <2>1. Ended(Printer)' => Ended(Printer)
    BY <1>1, <1>5 DEF Ended
  <2>2. pc'[Main] = "done" => pc'[Printer] = "done"
    BY <1>5, <1>7 DEF RowsInv, EndsDrained
  <2> QED
    BY <1>1, <1>6, <2>1, <2>2, ThreadFacts DEF RowsInv, EndsDrained, Drained
<1>11. SampledInOrder'
  BY <1>1, <1>7 DEF RowsInv, SampledInOrder, mainVars
<1> QED
  BY <1>8, <1>9, <1>10, <1>11 DEF RowsInv

(* A step inside a call leaves everything in order if the rows stay in one    *)
(* place each, and if whoever is given nothing has drained its queue.         *)
LEMMA RowsCallStep ==
  ASSUME DatasetInv, HeaderInv, RowsInv, NEW t \in Threads, NEW q \in Queues, InCall(t, q),
         UNCHANGED <<pc, mainVars>>, OneRowOnePlace',
         call[t].kind = "pop" /\ call'[t] # NoCall /\ call'[t].step # "try" => got'[t] # NoValue,
         call[t].kind = "pop" /\ call'[t] = NoCall /\ got'[t] = NoValue => Drained(q)',
         \A u \in Threads : u # t => got'[u] = got[u],
         \A r \in Queues : Drained(r) => Drained(r)'
  PROVE  RowsInv'
<1>1. /\ call[t] # NoCall /\ call[t].queue = q /\ pc' = pc
      /\ \A u \in Threads : u # t => call'[u] = call[u]
      /\ call'[t] # NoCall =>
           call'[t].kind = call[t].kind /\ call'[t].queue = call[t].queue
  BY CallGoesOn DEF DatasetInv
<1>2. HandsInOrder'
  <2>1. ASSUME NEW u \in Threads, call'[u] # NoCall
        PROVE  /\ call'[u].kind = "push" => pc[u] # "popped"
               /\ call'[u].kind = "pop" => pc[u] = "popped" /\ (call'[u].step # "try" => got'[u] # NoValue)
    <3>1. CASE u # t
      BY <1>1, <2>1, <3>1 DEF RowsInv, HandsInOrder
    <3>2. CASE u = t
      BY <1>1, <2>1, <3>2 DEF RowsInv, HandsInOrder
    <3> QED
      BY <3>1, <3>2
  <2> QED
    BY <1>1, <2>1 DEF RowsInv, HandsInOrder
<1>3. SampledInOrder'
  BY <1>1 DEF RowsInv, SampledInOrder, mainVars
<1>4. \A u \in Threads : u # t => (Ended(u)' <=> Ended(u))
  BY <1>1, HandsStay
<1>5. ASSUME Ended(t)', t # Main
      PROVE  Drained(q)' /\ q = IF t = Printer THEN StringQueue ELSE BoardQueue
  <2>1. pc[t] = "done" \/ (pc[t] = "popped" /\ call'[t] = NoCall /\ got'[t] = NoValue)
    BY <1>1, <1>5 DEF Ended
  <2>2. call[t].kind # "push"
    BY <1>1, <1>5, <2>1
       DEF RowsInv, HandsInOrder, DatasetInv, OrderInv, PushesInOrder
  <2>3. call[t].kind # "close"
    BY <1>1, <1>5 DEF DatasetInv, OrderInv, ClosesInOrder
  <2>4. call[t].kind = "pop"
    BY <1>1, <2>2, <2>3 DEF DatasetInv, DatasetTypeOK, QueueTypeOK, Call
  <2>5. pc[t] = "popped"
    BY <1>1, <2>4 DEF RowsInv, HandsInOrder
  <2> QED
    BY <1>1, <2>1, <2>4, <2>5 DEF HeaderInv, PopsInOrder
<1>6. EndsDrained'
  <2>1. ASSUME NEW w \in Workers, Ended(w)' PROVE Drained(BoardQueue)'
    BY <1>4, <1>5, <2>1, ThreadFacts DEF RowsInv, EndsDrained
  <2>2. ASSUME Ended(Printer)' PROVE Drained(StringQueue)'
    BY <1>4, <1>5, <2>2, ThreadFacts DEF RowsInv, EndsDrained
  <2>3. pc'[Main] = "done" => pc'[Printer] = "done"
    BY <1>1 DEF RowsInv, EndsDrained
  <2> QED
    BY <2>1, <2>2, <2>3 DEF EndsDrained
<1> QED
  BY <1>2, <1>3, <1>6 DEF RowsInv


(* A push() that is not refused brings what it carries into the queue. *)
LEMMA RowsPushStep ==
  ASSUME DatasetInv, HeaderInv, RowsInv, NEW t \in Threads, NEW q \in Queues, PushValue(t, q),
         UNCHANGED <<pc, mainVars, printed>>
  PROVE  RowsInv'
<1>1. /\ call[t] # NoCall /\ call[t].kind = "push" /\ call[t].step = "try" /\ ~closed[q]
      /\ items' = [items EXCEPT ![q] = Append(@, call[t].value)]
      /\ GoOn(t, "notifyEmpty") /\ UNCHANGED <<closed, got>> /\ InCall(t, q)
  BY DEF PushValue, Trying, AtStep, InCall
<1>2. items \in [Queues -> Seq(Values)] /\ call[t].value \in Values
  BY <1>1 DEF DatasetInv, QueueInv, QueueTypeOK, PushesCarry
<1>3. /\ items'[q] = Append(items[q], call[t].value) /\ items[q] \in Seq(Values)
      /\ \A r \in Queues : r # q => items'[r] = items[r]
  BY <1>1, <1>2
<1>4. /\ \A u \in Threads : u # t => call'[u] = call[u]
      /\ call'[t] # NoCall /\ call'[t].step = "notifyEmpty" /\ call'[t].kind = "push"
  BY <1>1, GoOnFacts DEF DatasetInv, QueueInv
<1>5. InHand(t) = call[t].value /\ InHand(t)' = {}
  <2>1. pc[t] # "popped"
    BY <1>1 DEF RowsInv, HandsInOrder
  <2> QED
    BY <1>1, <1>4, <2>1 DEF InHand
<1>6. \A u \in Threads : u # t => InHand(u)' = InHand(u)
  BY <1>1, <1>4, HandsStay
<1>7. Given' = Given
  BY DEF Given, mainVars
<1>8. OneRowOnePlace'
  BY <1>2, <1>3, <1>5, <1>6, <1>7, RowsPushed DEF RowsInv, mainVars
<1>9. \A r \in Queues : Drained(r) => Drained(r)'
  BY <1>1, <1>3 DEF Drained
<1> QED
  BY <1>1, <1>8, <1>9, RowsCallStep

(* A pop() that gets something brings it into the hands of its thread. *)
LEMMA RowsPopStep ==
  ASSUME DatasetInv, HeaderInv, RowsInv, NEW t \in Threads, NEW q \in Queues, PopValue(t, q),
         UNCHANGED <<pc, mainVars, printed>>
  PROVE  RowsInv'
<1>1. /\ call[t] # NoCall /\ call[t].kind = "pop" /\ call[t].step = "try" /\ items[q] # <<>>
      /\ items' = [items EXCEPT ![q] = Tail(@)] /\ got' = [got EXCEPT ![t] = Head(items[q])]
      /\ GoOn(t, "notifyEmpty") /\ UNCHANGED closed /\ InCall(t, q)
  BY DEF PopValue, Trying, AtStep, InCall
<1>2. items \in [Queues -> Seq(Values)] /\ got \in [Threads -> Values \union {NoValue}]
  BY DEF DatasetInv, QueueInv, QueueTypeOK
<1>3. /\ items'[q] = Tail(items[q]) /\ items[q] \in Seq(Values)
      /\ \A r \in Queues : r # q => items'[r] = items[r]
      /\ got'[t] = Head(items[q]) /\ Head(items[q]) \in Values
      /\ \A u \in Threads : u # t => got'[u] = got[u]
  BY <1>1, <1>2
<1>4. /\ \A u \in Threads : u # t => call'[u] = call[u]
      /\ call'[t] # NoCall /\ call'[t].step = "notifyEmpty" /\ call'[t].kind = "pop"
  BY <1>1, GoOnFacts DEF DatasetInv, QueueInv
<1>5. got'[t] # NoValue
  BY <1>3, ValuesAssumption
<1>6. InHand(t) = {} /\ InHand(t)' = Head(items[q])
  <2>1. pc[t] = "popped"
    BY <1>1 DEF RowsInv, HandsInOrder
  <2> QED
    BY <1>1, <1>3, <1>4, <1>5, <2>1 DEF InHand
<1>7. \A u \in Threads : u # t => InHand(u)' = InHand(u)
  BY <1>3, <1>4, HandsStay
<1>8. Given' = Given
  BY DEF Given, mainVars
<1>9. OneRowOnePlace'
  BY <1>1, <1>3, <1>6, <1>7, <1>8, RowsPopped DEF RowsInv, mainVars
<1>10. \A r \in Queues : Drained(r) => Drained(r)'
  BY <1>1, <1>3 DEF Drained
<1> QED
  BY <1>1, <1>3, <1>4, <1>5, <1>9, <1>10, RowsCallStep

(* The other steps inside a call move no row. *)
LEMMA RowsCallMoves ==
  ASSUME DatasetInv, HeaderInv, RowsInv, NEW t \in Threads, NEW q \in Queues, InCall(t, q),
         UNCHANGED <<pc, mainVars, printed, items>>,
         InHand(t)' = InHand(t), \A u \in Threads : u # t => got'[u] = got[u],
         \A r \in Queues : closed[r] => closed'[r],
         call[t].kind = "pop" /\ call'[t] # NoCall /\ call'[t].step # "try" => got'[t] # NoValue,
         call[t].kind = "pop" /\ call'[t] = NoCall /\ got'[t] = NoValue => Drained(q)'
  PROVE  RowsInv'
<1>1. \A u \in Threads : u # t => call'[u] = call[u]
  BY CallGoesOn DEF DatasetInv
<1>2. \A u \in Threads : InHand(u)' = InHand(u)
  BY <1>1, HandsStay
<1>3. Given' = Given
  BY DEF Given, mainVars
<1>4. OneRowOnePlace'
  BY <1>2, <1>3, RowsUnmoved DEF RowsInv, mainVars
<1>5. \A r \in Queues : Drained(r) => Drained(r)'
  BY DEF Drained
<1> QED
  BY <1>4, <1>5, RowsCallStep

(* A step inside a queue, whichever it is. *)
LEMMA RowsInQueue ==
  ASSUME DatasetInv, HeaderInv, RowsInv, NEW t \in Threads, InQueue(t)
  PROVE  RowsInv'
<1>1. PICK q \in Queues : InCall(t, q)
  BY DEF InQueue, CallStep
<1>2. UNCHANGED <<pc, mainVars, printed>> /\ call[t] # NoCall
  BY <1>1, CallGoesOn DEF InQueue, DatasetInv
<1>3. ~PushRefused(t, q)
  BY OrderIsEnough DEF PushRefused, PushesAreAccepted
<1>4. CASE PushWait(t, q) \/ PopWait(t, q)
  <2>1. UNCHANGED <<items, closed, call, got>> /\ call[t].step = "try"
    BY <1>4 DEF PushWait, PopWait, Trying, AtStep
  <2>2. InHand(t)' = InHand(t)
    BY <1>2, <2>1, HandsStay
  <2> QED
    BY <1>1, <1>2, <2>1, <2>2, RowsCallMoves
<1>5. CASE PushValue(t, q)
  BY <1>2, <1>5, RowsPushStep
<1>6. CASE PopValue(t, q)
  BY <1>2, <1>6, RowsPopStep
<1>7. CASE PopNothing(t, q)
  <2>1. /\ call[t].kind = "pop" /\ call[t].step = "try" /\ closed[q] /\ items[q] = <<>>
        /\ got' = [got EXCEPT ![t] = NoValue] /\ Return(t) /\ UNCHANGED <<items, closed>>
    BY <1>7 DEF PopNothing, Trying, AtStep
  <2>2. got'[t] = NoValue /\ \A u \in Threads : u # t => got'[u] = got[u]
    BY <2>1 DEF DatasetInv, QueueInv, QueueTypeOK
  <2>3. call'[t] = NoCall
    BY <2>1, ReturnFacts DEF DatasetInv, QueueInv
  <2>4. InHand(t) = {} /\ InHand(t)' = {}
    BY <1>2, <2>1, <2>2, <2>3 DEF InHand
  <2>5. Drained(q)'
    BY <2>1 DEF Drained
  <2> QED
    BY <1>1, <1>2, <2>1, <2>2, <2>3, <2>4, <2>5, RowsCallMoves
<1>8. CASE CloseAgain(t, q) \/ Close(t, q)
  <2>1. /\ call[t].kind = "close" /\ UNCHANGED <<items, got>>
        /\ Return(t) \/ GoOn(t, "notifyEmpty")
        /\ closed' = closed \/ closed' = [closed EXCEPT ![q] = TRUE]
    BY <1>8 DEF CloseAgain, Close, Trying, AtStep
  <2>2. \A r \in Queues : closed[r] => closed'[r]
    BY <2>1 DEF DatasetInv, QueueInv, QueueTypeOK
  <2>3. pc[t] # "popped"
    BY <1>2, <2>1 DEF RowsInv, HandsInOrder, DatasetInv, OrderInv, ClosesInOrder
  <2>4. call'[t] # NoCall => call'[t].kind = "close"
    BY <1>1, <2>1, CallGoesOn DEF DatasetInv
  <2>5. InHand(t) = {} /\ InHand(t)' = {}
    BY <1>2, <2>1, <2>3, <2>4 DEF InHand
  <2> QED
    BY <1>1, <1>2, <2>1, <2>2, <2>5, RowsCallMoves
<1>9. CASE NotifyEmpty(t, q) \/ NotifyFull(t, q)
  <2>1. /\ call[t].step # "try" /\ UNCHANGED <<items, closed, got>>
        /\ Return(t) \/ GoOn(t, "notifyFull")
    BY <1>9 DEF NotifyEmpty, NotifyFull, Notifying, AtStep
  <2>2. call'[t] # NoCall => call'[t].step # "try"
    BY <1>2, <2>1, ReturnFacts, GoOnFacts DEF DatasetInv, QueueInv
  <2>3. InHand(t)' = InHand(t)
    BY <1>2, <2>1, <2>2 DEF InHand
  <2>4. call[t].kind = "pop" => got'[t] # NoValue
    BY <1>2, <2>1 DEF RowsInv, HandsInOrder
  <2> QED
    BY <1>1, <1>2, <2>1, <2>3, <2>4, RowsCallMoves
<1> QED
  BY <1>1, <1>3, <1>4, <1>5, <1>6, <1>7, <1>8, <1>9 DEF InCall

-----------------------------------------------------------------------------
(* Whatever a step does, each row stays in one place. *)
LEMMA RowsNextInv == DatasetInv /\ HeaderInv /\ RowsInv /\ [Next]_datasetVars => RowsInv'
<1> SUFFICES ASSUME DatasetInv, HeaderInv, RowsInv, [Next]_datasetVars PROVE RowsInv'
  OBVIOUS
<1>1. ASSUME MainNext PROVE RowsInv'
  BY <1>1, RowsHeaderPut, RowsRead, RowsFed, RowsDrained, RowsMainMoves DEF MainNext
<1>2. ASSUME Wakeup \/ Done \/ UNCHANGED datasetVars PROVE RowsInv'
  <2>1. UNCHANGED <<items, closed, call, got, pc, mainVars, printed>>
    BY <1>2 DEF Wakeup, SpuriousWakeup, Done, datasetVars, queueVars
  <2>2. \A u \in Threads : InHand(u)' = InHand(u)
    BY <2>1, HandsStay
  <2>3. OneRowOnePlace'
    BY <2>1, <2>2, RowsUnmoved DEF RowsInv, Given, mainVars
  <2>4. HandsInOrder'
    BY <2>1 DEF RowsInv, HandsInOrder
  <2>5. EndsDrained'
    BY <2>1 DEF RowsInv, EndsDrained, Ended, Drained
  <2>6. SampledInOrder'
    BY <2>1 DEF RowsInv, SampledInOrder, mainVars
  <2> QED
    BY <2>3, <2>4, <2>5, <2>6 DEF RowsInv
<1> QED
  BY <1>1, <1>2, RowsWorker, RowsPrinter, RowsInQueue DEF Next

(* The inductive invariant of the rows. *)
THEOREM RowsInvariance == Spec => [](HeaderInv /\ RowsInv)
<1>1. Init => HeaderInv /\ RowsInv
  BY HeaderInitInv, RowsInitInv
<1>2. DatasetInv /\ (HeaderInv /\ RowsInv) /\ [Next]_datasetVars => (HeaderInv /\ RowsInv)'
  BY HeaderNextInv, RowsNextInv
<1> QED
  BY <1>1, <1>2, DatasetInvariance, PTL DEF Spec

(* No row is lost or written twice: from the moment it reaches the extractor *)
(* it is in one place between the batch and the file, and nothing else is,   *)
(* however the threads overtake each other.                                  *)
THEOREM RowsAreInOnePlace == Spec => []EachRowIsInOnePlace
BY RowsInvIsEnough, RowsInvariance, DatasetInvariance, PTL

(* When run() returns the file holds every row that was extracted, as many  *)
(* as option "count" asks for, or as there are.                             *)
THEOREM FileHoldsAllRows == Spec => []FileIsComplete
BY RowsInvIsEnough, RowsInvariance, DatasetInvariance, PTL

-----------------------------------------------------------------------------
(* Reading the file does not disturb the threads. *)
LEMMA ReadingIsAside ==
  (OpenFile \/ NextGame \/ ReadCommand) => UNCHANGED datasetVars
<1>1. \A phase : Reads(phase) => UNCHANGED datasetVars
  BY DEF Reads
<1> QED
  BY <1>1 DEF OpenFile, NextGame, ReadCommand

(* A step of the program is a step of the threads, or they stutter. *)
LEMMA ProgramStepIsThreadStep == [ProgramNext]_programVars => [Next]_datasetVars
<1> SUFFICES ASSUME [ProgramNext]_programVars
             PROVE  [Next]_datasetVars
  OBVIOUS
<1>1. CASE OpenFile \/ NextGame \/ ReadCommand
  BY <1>1, ReadingIsAside
<1>2. CASE PassRow
  BY <1>2 DEF PassRow, Next, MainNext
<1>3. CASE FinishConsumers
  BY <1>3 DEF FinishConsumers, Next, MainNext
<1>4. CASE Aside
  BY <1>4 DEF Aside, Next, MainNext
<1>5. CASE ThreadsNext
  BY <1>5 DEF ThreadsNext, Next
<1>6. CASE UNCHANGED programVars
  BY <1>6 DEF programVars
<1> QED
  BY <1>1, <1>2, <1>3, <1>4, <1>5, <1>6 DEF ProgramNext, ProgramMain

(* The whole program, with its reader, is one of the behaviours of its       *)
(* threads on any input: what is proved of Spec holds whatever file is read. *)
THEOREM ProgramImplementsThreads == ProgramSpec => Spec
<1>1. ProgramInit => Init
  BY DEF ProgramInit
<1> QED
  BY <1>1, ProgramStepIsThreadStep, PTL DEF ProgramSpec, Spec

(* ... so no push() of the whole program is refused. *)
THEOREM ProgramPushesAreAccepted == ProgramSpec => []PushesAreAccepted
BY ProgramImplementsThreads, PushesAreNeverRefused, PTL

(* ... and the file of the whole program begins with the header. *)
THEOREM ProgramHeaderComesFirst == ProgramSpec => []HeaderIsFirst
BY ProgramImplementsThreads, HeaderComesFirst, PTL

(* ... and it gets every row once. *)
THEOREM ProgramFileIsComplete == ProgramSpec => [](EachRowIsInOnePlace /\ FileIsComplete)
BY ProgramImplementsThreads, RowsAreInOnePlace, FileHoldsAllRows, PTL

-----------------------------------------------------------------------------
(* Games in a file *)

LEMMA LineFacts ==
  ASSUME NEW l \in Lines
  PROVE  /\ l.kind \in {"skip", "title", "start", "game", "board", "moves"} /\ l # NoLine
         /\ l.kind \in {"game", "board"} => l.ok \in BOOLEAN
         /\ l.kind = "game" => l.winner \in Winners
         /\ l.kind = "moves" => l.moves \in Seq(MoveKinds)
<1>1. CASE l \in {Skip, Title, Start}
  BY <1>1 DEF Skip, Title, Start, NoLine
<1>2. CASE l \in [kind : {"game"}, ok : BOOLEAN, winner : Winners]
  BY <1>2 DEF NoLine
<1>3. CASE l \in [kind : {"board"}, ok : BOOLEAN]
  BY <1>3 DEF NoLine
<1>4. CASE l \in [kind : {"moves"}, moves : Seq(MoveKinds)]
  BY <1>4 DEF NoLine
<1> QED
  BY <1>1, <1>2, <1>3, <1>4 DEF Lines

LEMMA StartFacts ==
  ASSUME NEW f \in Seq(Lines), NEW g \in GameStarts(f)
  PROVE  /\ g \in 1..Len(f) /\ f[g] \in Lines /\ f[g].kind = "game"
         /\ f[g].ok \in BOOLEAN /\ f[g].winner \in Winners
<1>1. g \in 1..Len(f) /\ f[g] \in Lines /\ f[g].kind = "game"
  BY DEF GameStarts
<1> QED
  BY <1>1, LineFacts

(* A game ends before the next one, or with the file. *)
LEMMA EndIs ==
  ASSUME NEW f \in Seq(Lines), NEW g \in GameStarts(f)
  PROVE  /\ EndOf(f, g) \in (g + 1)..(Len(f) + 1)
         /\ EndOf(f, g) \in GameStarts(f) \union {Len(f) + 1}
         /\ \A j \in GameStarts(f) : j > g => EndOf(f, g) <= j
<1> DEFINE n == Len(f)
           later == {j \in GameStarts(f) : j > g} \union {n + 1}
<1>1. n \in Nat /\ g \in 1..n /\ GameStarts(f) \subseteq 1..n
  BY StartFacts DEF GameStarts
<1>2. later \subseteq Nat /\ later # {}
  BY <1>1
<1>3. \A j \in later : j \in (g + 1)..(n + 1)
  BY <1>1
<1>4. EndOf(f, g) = Min(later)
  BY DEF EndOf
<1> HIDE DEF later, n
<1>5. \E x \in later : \A y \in later : x <= y
  BY <1>2, LeastNatural
<1>6. Min(later) \in later /\ \A y \in later : Min(later) <= y
  BY <1>5 DEF Min
<1>7. EndOf(f, g) \in (g + 1)..(n + 1) /\ \A y \in later : EndOf(f, g) <= y
  BY <1>3, <1>4, <1>6
<1> QED
  BY <1>4, <1>6, <1>7 DEF later, n

(* Its lines. *)
LEMMA BodyIs ==
  ASSUME NEW f \in Seq(Lines), NEW g \in GameStarts(f)
  PROVE  /\ Body(f, g) \in Seq(Lines) /\ Len(Body(f, g)) = EndOf(f, g) - 1 - g
         /\ \A k \in 1..(EndOf(f, g) - 1 - g) : Body(f, g)[k] = f[g + k]
<1> DEFINE m == g + 1
           n == EndOf(f, g) - 1
<1>1. m \in Int /\ n \in Int /\ g \in Int /\ m <= n + 1 /\ n - m + 1 = n - g /\ 1 <= m /\ n <= Len(f)
  BY EndIs, StartFacts
<1>2. \A k \in m..n : f[k] \in Lines
  BY <1>1
<1>3. Body(f, g) = SubSeq(f, m, n)
  BY DEF Body
<1>4. \A k \in 1..(n - g) : m + k - 1 = g + k
  BY <1>1
<1> HIDE DEF m, n
<1>5. /\ SubSeq(f, m, n) \in Seq(Lines) /\ Len(SubSeq(f, m, n)) = (IF m <= n THEN n - m + 1 ELSE 0)
      /\ \A k \in 1..(n - m + 1) : SubSeq(f, m, n)[k] = f[m + k - 1]
  <2>1. m \in Int /\ n \in Int
    BY <1>1
  <2>2. SubSeq(f, m, n) \in Seq(Lines)
    BY <1>2, <2>1, SubSeqProperties, Zenon
  <2>3. Len(SubSeq(f, m, n)) = (IF m <= n THEN n - m + 1 ELSE 0)
    BY <1>2, <2>1, SubSeqProperties, Zenon
  <2>4. \A k \in 1..(n - m + 1) : SubSeq(f, m, n)[k] = f[m + k - 1]
    <3>1. SUFFICES ASSUME NEW k \in 1..(n - m + 1) PROVE SubSeq(f, m, n)[k] = f[m + k - 1]
      OBVIOUS
    <3>2. \A i \in m..n : f[i] \in Lines
      BY <1>2
    <3> QED
      BY <2>1, <3>2, SubSeqProperties
  <2> QED
    BY <2>2, <2>3, <2>4
<1>6. Len(SubSeq(f, m, n)) = n - g
  BY <1>1, <1>5
<1>7. \A k \in 1..(n - g) : SubSeq(f, m, n)[k] = f[g + k]
  BY <1>1, <1>4, <1>5
<1> QED
  BY <1>3, <1>5, <1>6, <1>7 DEF n

(* A line that the reader takes, in the game that starts at line g. *)
FineLine(f, g, l) ==
  /\ f[l].kind = "board" => f[l].ok
  /\ f[l].kind = "moves" =>
       /\ f[l].moves # <<>> /\ \A i \in DOMAIN f[l].moves : f[l].moves[i] # "illegal"
       /\ \E k \in (g + 1)..(l - 1) : SetsUp(f[k])

SetUps(f, g, l) == {k \in (g + 1)..l : SetsUp(f[k])}

LEMMA ValidIsFine ==
  ASSUME NEW f \in Seq(Lines), NEW g \in GameStarts(f), NEW l \in (g + 1)..(EndOf(f, g) - 1)
  PROVE  IsValidLine(Body(f, g), l - g) <=> FineLine(f, g, l)
<1> DEFINE body == Body(f, g)
           n == l - g
           m == EndOf(f, g) - 1 - g
<1> SUFFICES IsValidLine(body, n) <=> FineLine(f, g, l)
  OBVIOUS
<1>1. g \in Nat /\ l \in Nat /\ n \in 1..m /\ g + n = l /\ m \in Nat
  BY EndIs, StartFacts
<1>2. body[n] = f[l] /\ f[l] \in Lines
  BY <1>1, BodyIs, EndIs
<1>3. \A k \in 1..(n - 1) : body[k] = f[g + k]
  <2>1. \A k \in 1..m : body[k] = f[g + k]
    BY BodyIs
  <2> HIDE DEF body, m, n
  <2> QED
    BY <1>1, <2>1
<1>4. (\E k \in 1..(n - 1) : SetsUp(body[k])) <=> (\E k \in (g + 1)..(l - 1) : SetsUp(f[k]))
  <2>1. ASSUME NEW k \in 1..(n - 1), SetsUp(body[k]) PROVE \E i \in (g + 1)..(l - 1) : SetsUp(f[i])
    <3>1. g + k \in (g + 1)..(l - 1)
      BY <1>1
    <3> HIDE DEF body, n
    <3> QED
      BY <1>3, <2>1, <3>1
  <2>2. ASSUME NEW i \in (g + 1)..(l - 1), SetsUp(f[i]) PROVE \E k \in 1..(n - 1) : SetsUp(body[k])
    <3>1. i - g \in 1..(n - 1) /\ g + (i - g) = i
      BY <1>1
    <3> HIDE DEF body, n
    <3> QED
      BY <1>3, <2>2, <3>1
  <2> QED
    BY <2>1, <2>2
<1>5. f[l].kind = "moves" => ("illegal" \notin ToSet(f[l].moves) <=>
                                \A i \in DOMAIN f[l].moves : f[l].moves[i] # "illegal")
  BY DEF ToSet
<1> HIDE DEF body, n
<1>6. CASE f[l].kind = "board"
  BY <1>2, <1>6, LineFacts DEF IsValidLine, FineLine
<1>7. CASE f[l].kind = "moves"
  BY <1>2, <1>4, <1>5, <1>7 DEF IsValidLine, FineLine
<1>8. CASE f[l].kind \notin {"board", "moves"}
  BY <1>2, <1>8 DEF IsValidLine, FineLine
<1> QED
  BY <1>6, <1>7, <1>8

(* The places of the boards, counted in the game or in the file. *)
LEMMA SetUpsAre ==
  ASSUME NEW f \in Seq(Lines), NEW g \in GameStarts(f)
  PROVE  Cardinality({n \in DOMAIN Body(f, g) : SetsUp(Body(f, g)[n])})
           = Cardinality(SetUps(f, g, EndOf(f, g) - 1))
<1> DEFINE e == EndOf(f, g) - 1
           m == e - g
           body == Body(f, g)
           inside == {n \in 1..m : SetsUp(body[n])}
           outside == SetUps(f, g, e)
           shift == [n \in inside |-> g + n]
<1>1. g \in Nat /\ e \in Nat /\ m \in Nat
  BY EndIs, StartFacts
<1>2. DOMAIN body = 1..m /\ \A n \in 1..m : body[n] = f[g + n]
  BY BodyIs
<1>3. IsFiniteSet(inside)
  <2>1. inside \subseteq 1..m /\ IsFiniteSet(1..m)
    BY <1>1, FS_Interval
  <2> HIDE DEF inside
  <2> QED
    BY <2>1, FS_Subset
<1> HIDE DEF body
<1>4. shift \in Bijection(inside, outside)
  <2>1. \A n \in inside : shift[n] \in outside
    <3>1. ASSUME NEW n \in inside PROVE g + n \in (g + 1)..e /\ f[g + n] = body[n] /\ SetsUp(body[n])
      BY <1>1, <1>2
    <3> QED
      BY <3>1 DEF SetUps
  <2>2. \A a, b \in inside : shift[a] = shift[b] => a = b
    BY <1>1
  <2>3. \A k \in outside : \E n \in inside : shift[n] = k
    <3>1. ASSUME NEW k \in outside PROVE k - g \in inside /\ shift[k - g] = k
      <4>1. k \in (g + 1)..e /\ SetsUp(f[k])
        BY DEF SetUps
      <4>2. k - g \in 1..m /\ g + (k - g) = k
        BY <1>1, <4>1
      <4>3. body[k - g] = f[k]
        BY <1>2, <4>2
      <4> QED
        BY <4>1, <4>2, <4>3
    <3> QED
      BY <3>1
  <2> HIDE DEF inside, outside
  <2> QED
    BY <2>1, <2>2, <2>3 DEF Bijection, Injection, Surjection, IsInjective
<1> HIDE DEF inside, outside, shift
<1>5. Cardinality(inside) = Cardinality(outside)
  BY <1>3, <1>4, FS_Bijection DEF ExistsBijection
<1> QED
  BY <1>2, <1>5 DEF inside, outside, body, e

(* A game can be used if its lines are fine and one of them sets up a board. *)
LEMMA UsableIs ==
  ASSUME NEW f \in Seq(Lines), NEW g \in GameStarts(f)
  PROVE  IsUsableGame(f, g) <=>
           /\ f[g].ok /\ f[g].winner # "unknown"
           /\ \A l \in (g + 1)..(EndOf(f, g) - 1) : FineLine(f, g, l)
           /\ Cardinality(SetUps(f, g, EndOf(f, g) - 1)) = 1
<1> DEFINE e == EndOf(f, g) - 1
           m == e - g
<1>1. g \in Nat /\ e \in Nat /\ m \in Nat
  BY EndIs, StartFacts
<1>2. DOMAIN Body(f, g) = 1..m
  BY BodyIs
<1>3. (\A n \in 1..m : IsValidLine(Body(f, g), n)) <=> (\A l \in (g + 1)..e : FineLine(f, g, l))
  <2>1. ASSUME NEW n \in 1..m, \A l \in (g + 1)..e : FineLine(f, g, l)
        PROVE  IsValidLine(Body(f, g), n)
    <3>1. g + n \in (g + 1)..e /\ (g + n) - g = n
      BY <1>1
    <3> QED
      BY <2>1, <3>1, ValidIsFine
  <2>2. ASSUME NEW l \in (g + 1)..e, \A n \in 1..m : IsValidLine(Body(f, g), n)
        PROVE  FineLine(f, g, l)
    <3>1. l - g \in 1..m
      BY <1>1
    <3> QED
      BY <2>2, <3>1, ValidIsFine
  <2> QED
    BY <2>1, <2>2
<1> QED
  BY <1>2, <1>3, SetUpsAre DEF IsUsableGame, e

-----------------------------------------------------------------------------
(* The boards of a game, counted line by line *)

Added(l) == CASE SetsUp(l) -> 1 [] l.kind = "moves" -> Len(l.moves) [] OTHER -> 0

LEMMA AddedFacts ==
  ASSUME NEW l \in Lines
  PROVE  /\ Added(l) \in Nat
         /\ SetsUp(l) => Added(l) = 1
         /\ l.kind = "moves" => Added(l) = Len(l.moves)
         /\ ~SetsUp(l) /\ l.kind # "moves" => Added(l) = 0
<1>1. SetsUp(l) => Added(l) = 1
  BY DEF SetsUp, Added
<1>2. l.kind = "moves" => Added(l) = Len(l.moves) /\ Len(l.moves) \in Nat
  <2>1. SUFFICES ASSUME l.kind = "moves" PROVE Added(l) = Len(l.moves) /\ Len(l.moves) \in Nat
    OBVIOUS
  <2>2. l.moves \in Seq(MoveKinds)
    BY <2>1, LineFacts
  <2> QED
    BY <2>1, <2>2 DEF SetsUp, Added
<1>3. ~SetsUp(l) /\ l.kind # "moves" => Added(l) = 0
  BY DEF Added
<1> QED
  BY <1>1, <1>2, <1>3

(* c[k] boards are in the first k lines of the game. *)
Tally(f, g, c) ==
  /\ c[0] = 0
  /\ \A k \in 1..(EndOf(f, g) - 1 - g) : c[k] = c[k - 1] + Added(f[g + k])
  /\ BoardsIn(f, g) = c[EndOf(f, g) - 1 - g]

LEMMA TallyExists ==
  ASSUME NEW f \in Seq(Lines), NEW g \in GameStarts(f)
  PROVE  \E c : Tally(f, g, c)
<1> DEFINE body == Body(f, g)
           n == EndOf(f, g) - 1 - g
           S == DOMAIN body
           put(l, t) == l + Added(t)
           IsFold(h) == h = [s \in SUBSET S |->
                               IF s = {} THEN 0
                               ELSE put(h[s \ {Max(s)}], body[Max(s)])]
           iter == CHOOSE h : IsFold(h)
           F == [t \in Int \X (1..n) |-> put(t[1], body[t[2]])]
<1>1. BoardsIn(f, g) = iter[S]
  BY DEF BoardsIn, FoldLeft, MapThenFoldSet, Added
<1>2. n \in Nat /\ S = 1..n /\ \A k \in 1..n : body[k] \in Lines /\ body[k] = f[g + k]
  BY BodyIs, EndIs, StartFacts
<1>3. 0 \in Int
  OBVIOUS
<1> HIDE DEF S, body, n
<1>4. F \in [Int \X (1..n) -> Int]
  <2>1. ASSUME NEW l \in Int, NEW t \in Lines PROVE put(l, t) \in Int
    <3>1. Added(t) \in Int
      BY AddedFacts
    <3> QED
      BY <3>1
  <2>2. \A t \in Int \X (1..n) : t[1] \in Int /\ body[t[2]] \in Lines
    BY <1>2
  <2> HIDE DEF put
  <2> QED
    BY <2>1, <2>2
<1>5. PICK h : Folded(h, Int, 0, F, n, n)
  <2> HIDE DEF F
  <2> QED
    BY <1>2, <1>3, <1>4, FoldExists
<1>6. IsFold(h)
  <2>1. ASSUME NEW s \in SUBSET S, s # {}
        PROVE  h[s] = put(h[s \ {Max(s)}], body[Max(s)])
    <3>1. h[s] = F[<<h[s \ {Max(s)}], Max(s)>>]
      BY <1>2, <1>5, <2>1 DEF Folded
    <3>2. Max(s) \in 1..n /\ h[s \ {Max(s)}] \in Int
      BY <1>2, <1>5, <2>1, GreatestOf DEF Folded
    <3> HIDE DEF put
    <3> QED
      BY <1>2, <3>1, <3>2
  <2> QED
    BY <1>2, <1>5, <2>1 DEF Folded
<1>7. IsFold(iter)
  BY <1>6
<1> HIDE DEF iter
<1> DEFINE run == [k \in 0..n |-> iter[1..k]]
<1>8. iter[{}] = 0
  BY <1>7
<1>9. ASSUME NEW k \in 1..n PROVE run[k] = put(run[k - 1], body[k])
  <2>1. /\ 1..k \in SUBSET S /\ 1..k # {} /\ Max(1..k) = k /\ (1..k) \ {k} = 1..(k - 1)
    BY <1>2, InitialSets
  <2>2. iter[1..k] = put(iter[(1..k) \ {Max(1..k)}], body[Max(1..k)])
    BY <1>7, <2>1
  <2>3. run[k] = iter[1..k] /\ run[k - 1] = iter[1..(k - 1)]
    BY <1>2
  <2> HIDE DEF put
  <2> QED
    BY <2>1, <2>2, <2>3
<1>10. run[0] = 0 /\ run[n] = iter[S]
  BY <1>2, <1>8
<1>11. \A k \in 1..n : run[k] = run[k - 1] + Added(f[g + k])
  <2> HIDE DEF run
  <2> QED
    BY <1>2, <1>9
<1> HIDE DEF run
<1> QED
  BY <1>1, <1>10, <1>11 DEF Tally, n

BoardCount(f, g) == CHOOSE c : Tally(f, g, c)

LEMMA BoardCountIs ==
  ASSUME NEW f \in Seq(Lines), NEW g \in GameStarts(f)
  PROVE  Tally(f, g, BoardCount(f, g))
BY TallyExists DEF BoardCount

-----------------------------------------------------------------------------
(* The rows of a game *)

(* The boards that are kept of the first i: in their order, and all of them *)
(* if nothing is filtered.                                                  *)
Keeps(kept, i, filter) ==
  /\ kept \in Seq(1..i)
  /\ \A a, b \in DOMAIN kept : a < b => kept[a] < kept[b]
  /\ ~filter => Len(kept) = i

LEMMA KeptOneMore ==
  ASSUME NEW i \in Nat, NEW kept, NEW filter, Keeps(kept, i, filter)
  PROVE  /\ Keeps(Append(kept, i + 1), i + 1, filter)
         /\ filter => Keeps(kept, i + 1, filter)
<1>1. kept \in Seq(1..i) /\ Len(kept) \in Nat
  BY DEF Keeps
<1>2. kept \in Seq(1..(i + 1))
  <2>1. \A a \in 1..Len(kept) : kept[a] \in 1..(i + 1)
    BY <1>1
  <2> QED
    BY <1>1, <2>1
<1> DEFINE more == Append(kept, i + 1)
<1>3. /\ more \in Seq(1..(i + 1)) /\ Len(more) = Len(kept) + 1
      /\ \A a \in 1..Len(kept) : more[a] = kept[a] /\ kept[a] \in 1..i
      /\ more[Len(kept) + 1] = i + 1
  BY <1>1, <1>2
<1> HIDE DEF more
<1>4. \A a, b \in DOMAIN more : a < b => more[a] < more[b]
  <2>1. SUFFICES ASSUME NEW a \in DOMAIN more, NEW b \in DOMAIN more, a < b PROVE more[a] < more[b]
    OBVIOUS
  <2>2. a \in 1..Len(kept) /\ b \in 1..(Len(kept) + 1)
    BY <1>1, <1>3, <2>1
  <2>3. CASE b = Len(kept) + 1
    BY <1>3, <2>2, <2>3
  <2>4. CASE b \in 1..Len(kept)
    <3>1. kept[a] < kept[b]
      BY <1>1, <2>1, <2>2, <2>4 DEF Keeps
    <3> QED
      BY <1>3, <2>2, <2>4, <3>1
  <2> QED
    BY <1>1, <2>2, <2>3, <2>4
<1> QED
  BY <1>2, <1>3, <1>4 DEF Keeps, more

RowsOfKept(game, boards, number, filter, kept) ==
  /\ Keeps(kept, Len(boards), filter)
  /\ Rows(game, boards, number, filter) =
       [k \in DOMAIN kept |->
         [winner |-> game.winner, gameId |-> number, total |-> Len(boards),
          left |-> Len(boards) - kept[k], board |-> boards[kept[k]]]]

LEMMA RowsKeep ==
  ASSUME NEW A, NEW game, NEW boards \in Seq(A), NEW number, NEW filter
  PROVE  \E kept : RowsOfKept(game, boards, number, filter, kept)
<1> DEFINE n == Len(boards)
           all == [i \in DOMAIN boards |-> i]
           S == DOMAIN all
           omit(i) == filter /\ IsFiltered(boards, MovesOf(game), i)
           put(before, i) == IF filter /\ IsFiltered(boards, MovesOf(game), i) THEN before
                                                                               ELSE Append(before, i)
           IsFold(h) == h = [s \in SUBSET S |->
                               IF s = {} THEN <<>>
                               ELSE put(h[s \ {Max(s)}], all[Max(s)])]
           iter == CHOOSE h : IsFold(h)
           F == [t \in Seq(Nat) \X (1..n) |-> put(t[1], t[2])]
<1>1. Rows(game, boards, number, filter) =
        [k \in DOMAIN iter[S] |->
           [winner |-> game.winner, gameId |-> number, total |-> Len(boards),
            left |-> Len(boards) - iter[S][k], board |-> boards[iter[S][k]]]]
  BY DEF Rows, FoldLeftDomain, FoldLeft, MapThenFoldSet
<1>2. n \in Nat /\ S = 1..n /\ \A k \in 1..n : all[k] = k
  OBVIOUS
<1>3. <<>> \in Seq(Nat)
  OBVIOUS
<1> HIDE DEF S, all, n
<1>4. F \in [Seq(Nat) \X (1..n) -> Seq(Nat)]
  <2>1. ASSUME NEW before \in Seq(Nat), NEW i \in 1..n PROVE put(before, i) \in Seq(Nat)
    <3>1. Append(before, i) \in Seq(Nat)
      OBVIOUS
    <3> QED
      BY <3>1
  <2> HIDE DEF put
  <2> QED
    BY <2>1
<1>5. PICK h : Folded(h, Seq(Nat), <<>>, F, n, n)
  <2> HIDE DEF F
  <2> QED
    BY <1>2, <1>3, <1>4, FoldExists
<1>6. IsFold(h)
  <2>1. ASSUME NEW s \in SUBSET S, s # {}
        PROVE  h[s] = put(h[s \ {Max(s)}], all[Max(s)])
    <3>1. h[s] = F[<<h[s \ {Max(s)}], Max(s)>>]
      BY <1>2, <1>5, <2>1 DEF Folded
    <3>2. Max(s) \in 1..n /\ h[s \ {Max(s)}] \in Seq(Nat)
      BY <1>2, <1>5, <2>1, GreatestOf DEF Folded
    <3> HIDE DEF put
    <3> QED
      BY <1>2, <3>1, <3>2
  <2> HIDE DEF put
  <2> QED
    BY <1>2, <1>5, <2>1 DEF Folded
<1>7. IsFold(iter)
  <2> HIDE DEF IsFold
  <2> QED
    BY <1>6
<1> HIDE DEF iter
<1>8. iter[{}] = <<>>
  <2> HIDE DEF put
  <2> QED
    BY <1>7
<1>9. ASSUME NEW k \in 1..n PROVE iter[1..k] = put(iter[1..(k - 1)], k)
  <2>1. /\ 1..k \in SUBSET S /\ 1..k # {} /\ Max(1..k) = k /\ (1..k) \ {k} = 1..(k - 1)
    BY <1>2, InitialSets
  <2> HIDE DEF put
  <2>2. iter[1..k] = put(iter[(1..k) \ {Max(1..k)}], all[Max(1..k)])
    BY <1>7, <2>1
  <2> QED
    BY <1>2, <2>1, <2>2
<1> DEFINE P == {k \in 0..n : Keeps(iter[1..k], k, filter)}
<1>10. 0 \in P
  <2>1. Keeps(<<>>, 0, filter)
    BY DEF Keeps
  <2>2. 1..0 = {}
    OBVIOUS
  <2> QED
    BY <1>2, <1>8, <2>1, <2>2
<1>11. \A k \in 1..n : k - 1 \in P => k \in P
  <2>1. SUFFICES ASSUME NEW k \in 1..n, Keeps(iter[1..(k - 1)], k - 1, filter)
                 PROVE  Keeps(iter[1..k], k, filter)
    BY <1>2
  <2>2. k - 1 \in Nat /\ (k - 1) + 1 = k
    BY <1>2
  <2>3. /\ Keeps(Append(iter[1..(k - 1)], k), k, filter)
        /\ filter => Keeps(iter[1..(k - 1)], k, filter)
    BY <2>1, <2>2, KeptOneMore
  <2> QED
    BY <1>9, <2>3
<1> HIDE DEF P
<1>12. n \in P
  <2>1. n \in Nat
    BY <1>2
  <2>2. \A k \in 0..n : k \in P
    BY <1>10, <1>11, <2>1, CountUp
  <2> QED
    BY <2>1, <2>2
<1>13. Keeps(iter[S], Len(boards), filter)
  BY <1>2, <1>12 DEF P, n
<1> QED
  BY <1>1, <1>13 DEF RowsOfKept

-----------------------------------------------------------------------------
(* One line of the reader *)

GameBoard == [from : Nat, moves : Seq(MoveKinds)]

Command ==
  [kind : {"none", "endOfStream", "title", "board"}]
  \union [kind : {"error"}, line : Nat]
  \union [kind : {"game"}, winner : Winners]
  \union [kind : {"moves"}, moves : Seq(MoveKinds)]

ReaderType ==
  [phase : {"opening", "reading", "idle"}, line : Nat, last : Command,
   lastBoard : GameBoard \union {NoBoard}, captured : Seq(GameBoard), command : Command,
   game : [winner : Winners, commands : Seq(Command)]]

LEMMA BoardFacts ==
  ASSUME NEW b \in GameBoard, NEW moves \in Seq(MoveKinds)
  PROVE  /\ b # NoBoard
         /\ [b EXCEPT !.moves = @ \o moves] \in GameBoard
         /\ Len([b EXCEPT !.moves = @ \o moves].moves) = Len(b.moves) + Len(moves)
<1>1. b \in [from : Nat, moves : Seq(MoveKinds)]
  BY DEF GameBoard
<1>2. b # NoBoard
  BY <1>1, NoBoardAssumption
<1>3. b.moves \o moves \in Seq(MoveKinds) /\ Len(b.moves \o moves) = Len(b.moves) + Len(moves)
  <2> DEFINE old == b.moves
  <2>1. old \in Seq(MoveKinds)
    BY DEF GameBoard
  <2> HIDE DEF old
  <2>2. old \o moves \in Seq(MoveKinds) /\ Len(old \o moves) = Len(old) + Len(moves)
    BY <2>1
  <2> QED
    BY <2>2 DEF old
<1>4. [b EXCEPT !.moves = @ \o moves] = [from |-> b.from, moves |-> b.moves \o moves]
  <2> DEFINE joined == b.moves \o moves
  <2>1. [b EXCEPT !.moves = @ \o moves] = [b EXCEPT !.moves = joined]
    OBVIOUS
  <2> HIDE DEF joined
  <2>2. [b EXCEPT !.moves = joined] = [from |-> b.from, moves |-> joined]
    BY DEF GameBoard
  <2> QED
    BY <2>1, <2>2 DEF joined
<1>5. b.from \in Nat
  BY DEF GameBoard
<1> QED
  BY <1>2, <1>3, <1>4, <1>5 DEF GameBoard

LEMMA SetUpIs ==
  ASSUME NEW r \in ReaderType
  PROVE  LET b == [from |-> r.line, moves |-> <<>>]
             s == SetBoard(r)
         IN  /\ s \in ReaderType /\ b \in GameBoard
             /\ s.phase = r.phase /\ s.line = r.line /\ s.game = r.game
             /\ s.command = [kind |-> "board"]
             /\ s.lastBoard = b /\ s.captured = Append(r.captured, b)
<1> DEFINE b == [from |-> r.line, moves |-> <<>>]
<1>1. b \in GameBoard
  BY DEF GameBoard, ReaderType
<1>2. Append(r.captured, b) \in Seq(GameBoard)
  BY <1>1 DEF ReaderType
<1>3. [kind |-> "board"] \in Command
  BY DEF Command
<1>4. SetBoard(r) = [r EXCEPT !.lastBoard = b, !.captured = Append(@, b), !.command = [kind |-> "board"]]
  BY DEF SetBoard
<1> HIDE DEF b
<1> QED
  BY <1>1, <1>2, <1>3, <1>4 DEF ReaderType, b

LEMMA OpenGameIs ==
  ASSUME NEW r \in ReaderType, NEW l \in Lines, l.kind = "game"
  PROVE  LET s == OpenGame(r, l)
         IN  /\ s \in ReaderType
             /\ s.phase = r.phase /\ s.line = r.line /\ s.game = r.game /\ s.captured = r.captured
             /\ l.ok => s.command = [kind |-> "game", winner |-> l.winner] /\ s.lastBoard = NoBoard
             /\ ~l.ok => s.command = Error(r.line) /\ s.lastBoard = r.lastBoard
<1>1. [kind |-> "game", winner |-> l.winner] \in Command
  BY LineFacts DEF Command
<1>2. Error(r.line) \in Command
  BY DEF Command, Error, ReaderType
<1>3. CASE l.ok
  <2>1. OpenGame(r, l) = [r EXCEPT !.lastBoard = NoBoard,
                                   !.command = [kind |-> "game", winner |-> l.winner]]
    BY <1>3 DEF OpenGame
  <2> QED
    BY <1>1, <1>3, <2>1 DEF ReaderType
<1>4. CASE ~l.ok
  <2>1. OpenGame(r, l) = [r EXCEPT !.command = Error(r.line)]
    BY <1>4 DEF OpenGame
  <2> QED
    BY <1>2, <1>4, <2>1 DEF ReaderType
<1> QED
  BY <1>3, <1>4

(* Moves that are all legal. *)
LEMMA MovesAre ==
  ASSUME NEW r \in ReaderType, r.lastBoard \in GameBoard, NEW moves \in Seq(MoveKinds),
         \A i \in DOMAIN moves : moves[i] # "illegal"
  PROVE  LET s == MakeMoves(r, moves)
             n == Len(r.captured)
         IN  /\ s \in ReaderType
             /\ s.phase = r.phase /\ s.line = r.line /\ s.game = r.game
             /\ s.command = [kind |-> "moves", moves |-> moves]
             /\ s.lastBoard \in GameBoard
             /\ Len(s.lastBoard.moves) = Len(r.lastBoard.moves) + Len(moves)
             /\ Len(s.captured) = n + Len(moves)
             /\ \A k \in 1..n : s.captured[k] = r.captured[k]
             /\ \A k \in 1..Len(moves) :
                  Len(s.captured[n + k].moves) = Len(r.lastBoard.moves) + k
<1> DEFINE b == r.lastBoard
           m == Len(moves)
           board(k) == [b EXCEPT !.moves = @ \o SubSeq(moves, 1, k)]
           new == [k \in 1..m |-> board(k)]
           bad == {i \in DOMAIN moves : moves[i] = "illegal"}
           command == [kind |-> "moves", moves |-> moves]
<1>1. m \in Nat /\ bad = {} /\ r.captured \in Seq(GameBoard) /\ b \in GameBoard
  BY DEF ReaderType
<1>2. ASSUME NEW k \in 0..m
      PROVE  board(k) \in GameBoard /\ Len(board(k).moves) = Len(b.moves) + k
  <2> DEFINE first == SubSeq(moves, 1, k)
  <2>1. first \in Seq(MoveKinds) /\ Len(first) = k
    <3>1. \A i \in 1..k : moves[i] \in MoveKinds
      BY <1>1
    <3>2. 1 \in Int /\ k \in Int
      BY <1>1
    <3>3. SubSeq(moves, 1, k) \in Seq(MoveKinds)
      BY <3>1, <3>2, SubSeqProperties, Zenon
    <3> DEFINE one == 1
    <3>4. one = 1
      OBVIOUS
    <3>5. one \in Int /\ k \in Int /\ \A i \in one..k : moves[i] \in MoveKinds
      BY <3>1, <3>2
    <3> HIDE DEF one
    <3>6. Len(SubSeq(moves, one, k)) = IF one <= k THEN k - one + 1 ELSE 0
      BY <3>5, SubSeqProperties
    <3>7. k \in Nat
      BY <1>1
    <3>8. Len(SubSeq(moves, one, k)) = k
      <4> DEFINE length == Len(SubSeq(moves, one, k))
      <4>1. length = IF one <= k THEN k - one + 1 ELSE 0
        BY <3>6
      <4> HIDE DEF length
      <4>2. length = k
        BY <3>4, <3>7, <4>1
      <4> QED
        BY <4>2 DEF length
    <3>9. Len(SubSeq(moves, 1, k)) = k
      BY <3>8 DEF one
    <3> QED
      BY <3>3, <3>9
  <2>2. board(k) = [b EXCEPT !.moves = @ \o first]
    OBVIOUS
  <2> HIDE DEF first, board, b
  <2> QED
    BY <1>1, <2>1, <2>2, BoardFacts
<1>3. MakeMoves(r, moves) = [r EXCEPT !.lastBoard = board(m), !.captured = @ \o new,
                                      !.command = command]
  <2> HIDE DEF bad, m
  <2>1. MakeMoves(r, moves) =
          LET made == IF bad = {} THEN m ELSE Min(bad) - 1
          IN  [r EXCEPT !.lastBoard = board(made), !.captured = @ \o [k \in 1..made |-> board(k)],
                        !.command = IF bad = {} THEN command ELSE Error(r.line)]
    BY DEF MakeMoves, bad, m
  <2> QED
    BY <1>1, <2>1
<1>4. new \in Seq(GameBoard) /\ Len(new) = m /\ \A k \in 1..m : new[k] = board(k)
  <2> HIDE DEF board
  <2>1. \A k \in 1..m : board(k) \in GameBoard
    BY <1>1, <1>2
  <2>2. new \in [1..m -> GameBoard]
    BY <2>1
  <2> QED
    BY <1>1, <2>2
<1>5. board(m) \in GameBoard /\ Len(board(m).moves) = Len(b.moves) + m
  <2> HIDE DEF board
  <2> QED
    BY <1>1, <1>2
<1>6. command \in Command
  BY DEF Command
<1>7. \A k \in 1..m : Len(new[k].moves) = Len(b.moves) + k
  <2> HIDE DEF board, new
  <2>1. \A k \in 1..m : k \in 0..m
    BY <1>1
  <2> QED
    BY <1>2, <1>4, <2>1
<1> DEFINE last == board(m)
           all == r.captured \o new
<1>8. /\ all \in Seq(GameBoard) /\ Len(all) = Len(r.captured) + m
      /\ \A k \in 1..Len(r.captured) : all[k] = r.captured[k]
      /\ \A k \in 1..m : all[Len(r.captured) + k] = new[k]
  <2> DEFINE old == r.captured
  <2>1. old \in Seq(GameBoard) /\ all = old \o new /\ new \in Seq(GameBoard) /\ Len(new) = m
    BY <1>1, <1>4
  <2>2. all = old \o new
    OBVIOUS
  <2> HIDE DEF new, m, old, all
  <2>3. /\ old \o new \in Seq(GameBoard) /\ Len(old \o new) = Len(old) + m
        /\ \A k \in 1..Len(old) : (old \o new)[k] = old[k]
        /\ \A k \in 1..m : (old \o new)[Len(old) + k] = new[k]
    <3>1. m \in Nat /\ Len(old) \in Nat
      BY <1>1, <2>1
    <3>2. /\ old \o new \in Seq(GameBoard) /\ Len(old \o new) = Len(old) + Len(new)
          /\ \A i \in 1..(Len(old) + Len(new)) :
               (old \o new)[i] = IF i <= Len(old) THEN old[i] ELSE new[i - Len(old)]
      BY <2>1, ConcatProperties
    <3> DEFINE n == Len(old)
               both == old \o new
    <3>3. n \in Nat /\ \A i \in 1..(n + m) : both[i] = IF i <= n THEN old[i] ELSE new[i - n]
      BY <2>1, <3>1, <3>2
    <3> HIDE DEF n, both
    <3>4. ASSUME NEW k \in 1..m PROVE both[n + k] = new[k]
      <4>1. n + k \in 1..(n + m) /\ ~(n + k <= n) /\ (n + k) - n = k
        BY <3>1, <3>3
      <4> QED
        BY <3>3, <4>1
    <3>5. \A k \in 1..n : both[k] = old[k]
      BY <3>1, <3>3
    <3> QED
      BY <2>1, <3>2, <3>4, <3>5 DEF n, both
  <2> QED
    BY <2>2, <2>3 DEF old
<1>9. MakeMoves(r, moves) = [r EXCEPT !.lastBoard = last, !.captured = all, !.command = command]
  BY <1>3
<1>10. last \in GameBoard
  BY <1>5
<1> HIDE DEF last, all, command, new
<1>11. /\ MakeMoves(r, moves) \in ReaderType
       /\ MakeMoves(r, moves).phase = r.phase /\ MakeMoves(r, moves).line = r.line
       /\ MakeMoves(r, moves).game = r.game
       /\ MakeMoves(r, moves).command = command
       /\ MakeMoves(r, moves).lastBoard = last
       /\ MakeMoves(r, moves).captured = all
  BY <1>6, <1>8, <1>9, <1>10 DEF ReaderType
<1>12. \A k \in 1..m : Len(all[Len(r.captured) + k].moves) = Len(b.moves) + k
  BY <1>7, <1>8
<1>13. Len(last.moves) = Len(b.moves) + m
  BY <1>5 DEF last
<1> HIDE DEF b, m
<1> QED
  BY <1>8, <1>10, <1>11, <1>12, <1>13 DEF command, b, m

LEMMA IllegalIs ==
  ASSUME NEW r \in ReaderType, NEW moves \in Seq(MoveKinds),
         \E i \in DOMAIN moves : moves[i] = "illegal"
  PROVE  /\ MakeMoves(r, moves).command = Error(r.line)
         /\ {"phase", "command"} \subseteq DOMAIN MakeMoves(r, moves)
<1> DEFINE bad == {i \in DOMAIN moves : moves[i] = "illegal"}
<1>1. bad # {}
  OBVIOUS
<1> HIDE DEF bad
<1>2. \E last, captured : MakeMoves(r, moves) = [r EXCEPT !.lastBoard = last, !.captured = captured,
                                                         !.command = Error(r.line)]
  BY <1>1 DEF MakeMoves, bad
<1>3. PICK last, captured : MakeMoves(r, moves) = [r EXCEPT !.lastBoard = last, !.captured = captured,
                                                           !.command = Error(r.line)]
  BY <1>2
<1> DEFINE error == Error(r.line)
<1> HIDE DEF error
<1> QED
  BY <1>3 DEF ReaderType, error

(* What tryReadCommand() does with each kind of line. *)
Stays(s, r) ==
  /\ s \in ReaderType
  /\ s.phase = r.phase /\ s.game = r.game

LEMMA LineRead ==
  ASSUME NEW r \in ReaderType, NEW l \in Lines
  PROVE  LET s == TryReadCommand(r, l)
             b == [from |-> r.line + 1, moves |-> <<>>]
         IN  /\ l.kind \in {"skip", "title"} =>
                  /\ Stays(s, r) /\ s.line = r.line + 1
                  /\ s.lastBoard = r.lastBoard /\ s.captured = r.captured
                  /\ s.command = IF l.kind = "skip" THEN NoCommand ELSE [kind |-> "title"]
             /\ l.kind = "start" \/ (l.kind = "board" /\ l.ok) =>
                  /\ Stays(s, r) /\ s.line = r.line + 1 /\ b \in GameBoard
                  /\ s.lastBoard = b /\ s.captured = Append(r.captured, b)
                  /\ s.command = [kind |-> "board"]
             /\ l.kind = "game" =>
                  /\ Stays(s, r) /\ s.line = r.line + 1 /\ s.captured = r.captured
                  /\ l.ok => s.command = [kind |-> "game", winner |-> l.winner]
                             /\ s.lastBoard = NoBoard
                  /\ ~l.ok => s.command.kind = "error" /\ s.lastBoard = r.lastBoard
             /\ (l.kind = "board" /\ ~l.ok)
                  \/ (l.kind = "moves" /\ (l.moves = <<>> \/ r.lastBoard = NoBoard)) =>
                  /\ Stays(s, r) /\ s.line = r.line + 1 /\ s.captured = r.captured
                  /\ s.command.kind = "error" /\ s.lastBoard = r.lastBoard
             /\ l.kind = "moves" /\ l.moves # <<>> /\ r.lastBoard # NoBoard =>
                  /\ (\E i \in DOMAIN l.moves : l.moves[i] = "illegal") =>
                       s.command.kind = "error" /\ {"phase", "command"} \subseteq DOMAIN s
                  /\ (\A i \in DOMAIN l.moves : l.moves[i] # "illegal") =>
                       /\ Stays(s, r) /\ s.line = r.line + 1
                       /\ s.command = [kind |-> "moves", moves |-> l.moves]
                       /\ s.lastBoard \in GameBoard
                       /\ Len(s.lastBoard.moves) = Len(r.lastBoard.moves) + Len(l.moves)
                       /\ Len(s.captured) = Len(r.captured) + Len(l.moves)
                       /\ \A k \in 1..Len(r.captured) : s.captured[k] = r.captured[k]
                       /\ \A k \in 1..Len(l.moves) :
                            Len(s.captured[Len(r.captured) + k].moves) = Len(r.lastBoard.moves) + k
<1> DEFINE s == TryReadCommand(r, l)
           q == [r EXCEPT !.line = @ + 1]
           b == [from |-> r.line + 1, moves |-> <<>>]
<1>1. /\ q \in ReaderType /\ q.line = r.line + 1 /\ q.phase = r.phase /\ q.game = r.game
      /\ q.lastBoard = r.lastBoard /\ q.captured = r.captured
  BY SMTT(30) DEF ReaderType
<1>2. s = Interpret(q, l)
  BY LineFacts DEF TryReadCommand
<1> HIDE DEF q, s
<1>3. CASE l.kind \in {"skip", "title"}
  <2> DEFINE command == IF l.kind = "skip" THEN NoCommand ELSE [kind |-> "title"]
  <2>1. s = [q EXCEPT !.command = command]
    BY <1>2, <1>3 DEF Interpret
  <2>2. command \in Command
    BY DEF Command, NoCommand
  <2> HIDE DEF command
  <2>3. s \in ReaderType /\ s.phase = q.phase /\ s.game = q.game /\ s.line = q.line
        /\ s.lastBoard = q.lastBoard /\ s.captured = q.captured /\ s.command = command
    BY <1>1, <2>1, <2>2 DEF ReaderType
  <2> QED
    BY <1>1, <1>3, <2>3 DEF Stays, s, command
<1>4. CASE l.kind = "start" \/ (l.kind = "board" /\ l.ok)
  <2>1. s = SetBoard(q)
    BY <1>2, <1>4 DEF Interpret
  <2> QED
    BY <1>1, <1>4, <2>1, SetUpIs DEF Stays, s
<1>5. CASE l.kind = "game"
  <2>1. s = OpenGame(q, l)
    BY <1>2, <1>5 DEF Interpret
  <2>2. ~l.ok => s.command.kind = "error"
    <3>1. ~l.ok => s.command = Error(q.line)
      BY <1>1, <1>5, <2>1, OpenGameIs
    <3> QED
      BY <3>1 DEF Error
  <2> QED
    BY <1>1, <1>5, <2>1, <2>2, OpenGameIs DEF Stays, s
<1>6. CASE \/ l.kind = "board" /\ ~l.ok
           \/ l.kind = "moves" /\ (l.moves = <<>> \/ r.lastBoard = NoBoard)
  <2> DEFINE command == Error(q.line)
  <2>1. s = [q EXCEPT !.command = command]
    BY <1>1, <1>2, <1>6 DEF Interpret
  <2>2. command \in Command /\ command.kind = "error"
    BY <1>1 DEF Command, Error, ReaderType
  <2> HIDE DEF command
  <2>3. s \in ReaderType /\ s.phase = q.phase /\ s.game = q.game /\ s.line = q.line
        /\ s.lastBoard = q.lastBoard /\ s.captured = q.captured /\ s.command = command
    BY <1>1, <2>1, <2>2 DEF ReaderType
  <2> QED
    BY <1>1, <1>6, <2>2, <2>3 DEF Stays, s
<1>7. CASE l.kind = "moves" /\ l.moves # <<>> /\ r.lastBoard # NoBoard
  <2>1. s = MakeMoves(q, l.moves) /\ l.moves \in Seq(MoveKinds)
    BY <1>1, <1>2, <1>7, LineFacts DEF Interpret
  <2>2. q.lastBoard \in GameBoard
    BY <1>1, <1>7 DEF ReaderType
  <2>3. (\E i \in DOMAIN l.moves : l.moves[i] = "illegal") =>
          s.command.kind = "error" /\ {"phase", "command"} \subseteq DOMAIN s
    <3>1. SUFFICES ASSUME \E i \in DOMAIN l.moves : l.moves[i] = "illegal"
                   PROVE  s.command.kind = "error" /\ {"phase", "command"} \subseteq DOMAIN s
      OBVIOUS
    <3>2. s.command = Error(q.line) /\ {"phase", "command"} \subseteq DOMAIN s
      BY <1>1, <2>1, <3>1, IllegalIs
    <3> QED
      BY <3>2 DEF Error
  <2>4. (\A i \in DOMAIN l.moves : l.moves[i] # "illegal") =>
          /\ Stays(s, q) /\ s.line = q.line
          /\ s.command = [kind |-> "moves", moves |-> l.moves]
          /\ s.lastBoard \in GameBoard
          /\ Len(s.lastBoard.moves) = Len(q.lastBoard.moves) + Len(l.moves)
          /\ Len(s.captured) = Len(q.captured) + Len(l.moves)
          /\ \A k \in 1..Len(q.captured) : s.captured[k] = q.captured[k]
          /\ \A k \in 1..Len(l.moves) :
               Len(s.captured[Len(q.captured) + k].moves) = Len(q.lastBoard.moves) + k
    <3>1. SUFFICES ASSUME \A i \in DOMAIN l.moves : l.moves[i] # "illegal"
                   PROVE  /\ Stays(s, q) /\ s.line = q.line
                          /\ s.command = [kind |-> "moves", moves |-> l.moves]
                          /\ s.lastBoard \in GameBoard
                          /\ Len(s.lastBoard.moves) = Len(q.lastBoard.moves) + Len(l.moves)
                          /\ Len(s.captured) = Len(q.captured) + Len(l.moves)
                          /\ \A k \in 1..Len(q.captured) : s.captured[k] = q.captured[k]
                          /\ \A k \in 1..Len(l.moves) :
                               Len(s.captured[Len(q.captured) + k].moves)
                                 = Len(q.lastBoard.moves) + k
      OBVIOUS
    <3> QED
      BY <1>1, <2>1, <2>2, <3>1, MovesAre, ZenonT(60) DEF Stays
  <2>5. Stays(s, q) => Stays(s, r)
    BY <1>1 DEF Stays
  <2> QED
    BY <1>1, <1>7, <2>3, <2>4, <2>5 DEF s
<1> QED
  BY <1>3, <1>4, <1>5, <1>6, <1>7

-----------------------------------------------------------------------------
(* A game being read *)

SetsUpIn(game) == {n \in DOMAIN game.commands : game.commands[n].kind = "board"}

(* The reader r is in the game that starts at line g: every line so far was fine, *)
(* and the commands and the boards are those of these lines.                      *)
InGame(r, f, g) ==
  /\ r \in ReaderType /\ r.phase = "reading"
  /\ r.line \in g..(EndOf(f, g) - 1)
  /\ f[g].ok /\ r.game.winner = f[g].winner
  /\ \A l \in (g + 1)..r.line : FineLine(f, g, l)
  /\ r.lastBoard = NoBoard <=> SetUps(f, g, r.line) = {}
  /\ Cardinality(SetsUpIn(r.game)) = Cardinality(SetUps(f, g, r.line))
  /\ Len(r.captured) = BoardCount(f, g)[r.line - g]
  /\ Cardinality(SetUps(f, g, r.line)) = 0 => Len(r.captured) = 0
  /\ Cardinality(SetUps(f, g, r.line)) = 1 =>
       /\ Len(r.captured) = Len(r.lastBoard.moves) + 1
       /\ \A k \in 1..Len(r.captured) : Len(r.captured[k].moves) = k - 1

LEMMA SetUpsGrow ==
  ASSUME NEW f \in Seq(Lines), NEW g \in GameStarts(f), NEW l \in g..(EndOf(f, g) - 1)
  PROVE  /\ IsFiniteSet(SetUps(f, g, l)) /\ Cardinality(SetUps(f, g, l)) \in Nat
         /\ Cardinality(SetUps(f, g, l)) = 0 <=> SetUps(f, g, l) = {}
         /\ SetUps(f, g, g) = {}
         /\ SetsUp(f[l + 1]) =>
              /\ SetUps(f, g, l + 1) # {}
              /\ Cardinality(SetUps(f, g, l + 1)) = Cardinality(SetUps(f, g, l)) + 1
         /\ ~SetsUp(f[l + 1]) => SetUps(f, g, l + 1) = SetUps(f, g, l)
<1>1. g \in Nat /\ l \in Nat
  BY EndIs, StartFacts
<1>2. IsFiniteSet(SetUps(f, g, l))
  <2>1. IsFiniteSet((g + 1)..l)
    BY <1>1, FS_Interval
  <2>2. SetUps(f, g, l) \subseteq (g + 1)..l
    BY DEF SetUps
  <2> QED
    BY <2>1, <2>2, FS_Subset
<1>3. /\ Cardinality(SetUps(f, g, l)) \in Nat
      /\ Cardinality(SetUps(f, g, l)) = 0 <=> SetUps(f, g, l) = {}
  BY <1>2, FS_CardinalityType, FS_EmptySet
<1>4. SetUps(f, g, g) = {}
  BY <1>1 DEF SetUps
<1>5. SetsUp(f[l + 1]) => SetUps(f, g, l + 1) = SetUps(f, g, l) \union {l + 1}
  <2>1. \A k : k \in (g + 1)..(l + 1) <=> k \in (g + 1)..l \/ k = l + 1
    BY <1>1
  <2> QED
    BY <2>1 DEF SetUps
<1>6. l + 1 \notin SetUps(f, g, l)
  BY <1>1 DEF SetUps
<1>7. SetsUp(f[l + 1]) =>
        Cardinality(SetUps(f, g, l + 1)) = Cardinality(SetUps(f, g, l)) + 1
  BY <1>2, <1>5, <1>6, FS_AddElement
<1>8. ~SetsUp(f[l + 1]) => SetUps(f, g, l + 1) = SetUps(f, g, l)
  <2>1. \A k : k \in (g + 1)..(l + 1) <=> k \in (g + 1)..l \/ k = l + 1
    BY <1>1
  <2> QED
    BY <2>1 DEF SetUps
<1> QED
  BY <1>2, <1>3, <1>4, <1>5, <1>7, <1>8

(* The commands of a game, one more. *)
Further(game, command) == [game EXCEPT !.commands = Append(@, command)]

LEMMA CommandAdded ==
  ASSUME NEW game \in [winner : Winners, commands : Seq(Command)], NEW c \in Command
  PROVE  /\ Further(game, c) \in [winner : Winners, commands : Seq(Command)]
         /\ Further(game, c).winner = game.winner
         /\ IsFiniteSet(SetsUpIn(game))
         /\ c.kind = "board" =>
              Cardinality(SetsUpIn(Further(game, c))) = Cardinality(SetsUpIn(game)) + 1
         /\ c.kind # "board" => SetsUpIn(Further(game, c)) = SetsUpIn(game)
<1> DEFINE old == game.commands
           new == Append(old, c)
           n == Len(old)
<1>1. old \in Seq(Command) /\ n \in Nat /\ DOMAIN old = 1..n
  OBVIOUS
<1>2. /\ new \in Seq(Command) /\ DOMAIN new = 1..(n + 1) /\ new[n + 1] = c
      /\ \A k \in 1..n : new[k] = old[k]
  BY <1>1
<1>3. Further(game, c) = [winner |-> game.winner, commands |-> new]
  BY SMTT(30) DEF Further
<1> HIDE DEF new
<1>4. SetsUpIn(game) = {k \in 1..n : old[k].kind = "board"} /\ SetsUpIn(game) \subseteq 1..n
  BY <1>1 DEF SetsUpIn
<1>5. SetsUpIn(Further(game, c)) = {k \in 1..(n + 1) : new[k].kind = "board"}
  BY <1>2, <1>3 DEF SetsUpIn
<1> HIDE DEF n, old
<1>6. IsFiniteSet(SetsUpIn(game))
  BY <1>1, <1>4, FS_Interval, FS_Subset
<1>7. \A k : k \in 1..(n + 1) <=> k \in 1..n \/ k = n + 1
  BY <1>1
<1>8. c.kind = "board" => SetsUpIn(Further(game, c)) = SetsUpIn(game) \union {n + 1}
  BY <1>2, <1>4, <1>5, <1>7
<1>9. c.kind # "board" => SetsUpIn(Further(game, c)) = SetsUpIn(game)
  BY <1>2, <1>4, <1>5, <1>7
<1>10. n + 1 \notin SetsUpIn(game)
  BY <1>1, <1>4
<1>11. c.kind = "board" =>
         Cardinality(SetsUpIn(Further(game, c))) = Cardinality(SetsUpIn(game)) + 1
  BY <1>6, <1>8, <1>10, FS_AddElement
<1> QED
  BY <1>2, <1>3, <1>6, <1>9, <1>11

(* nextGame() begins a game. *)
LEMMA GameBegins ==
  ASSUME NEW f \in Seq(Lines), NEW g \in GameStarts(f), NEW r \in ReaderType,
         r.line = g, r.lastBoard = NoBoard, f[g].ok,
         r.last = [kind |-> "game", winner |-> f[g].winner]
  PROVE  InGame(BeginGame(r), f, g)
<1> DEFINE game == [winner |-> f[g].winner, commands |-> <<>>]
           s == BeginGame(r)
<1>1. ~IsErr(r.last) /\ r.last.kind = "game" /\ r.last.winner = f[g].winner
  BY DEF IsErr
<1>2. s = [r EXCEPT !.phase = "reading", !.captured = <<>>, !.game = game]
  BY <1>1 DEF BeginGame
<1>3. game \in [winner : Winners, commands : Seq(Command)]
  BY StartFacts
<1>4. game.winner = f[g].winner /\ SetsUpIn(game) = {}
  BY DEF SetsUpIn
<1> HIDE DEF s, game
<1>5. /\ s \in ReaderType /\ s.phase = "reading" /\ s.line = g /\ s.lastBoard = NoBoard
      /\ s.captured = <<>> /\ s.game = game
  <2>1. <<>> \in Seq(GameBoard)
    OBVIOUS
  <2> DEFINE none == <<>>
  <2>2. none \in Seq(GameBoard) /\ s = [r EXCEPT !.phase = "reading", !.captured = none, !.game = game]
    BY <1>2
  <2> HIDE DEF none
  <2>3. /\ s \in ReaderType /\ s.phase = "reading" /\ s.line = g /\ s.lastBoard = NoBoard
        /\ s.captured = none /\ s.game = game
    BY <1>3, <2>2 DEF ReaderType
  <2> QED
    BY <2>3 DEF none
<1>6. g \in Nat /\ g \in g..(EndOf(f, g) - 1)
  BY EndIs, StartFacts
<1>7. SetUps(f, g, g) = {}
  BY <1>6, SetUpsGrow
<1>8. Cardinality({}) = 0
  BY FS_EmptySet
<1>9. BoardCount(f, g)[g - g] = 0
  <2>1. g - g = 0
    BY <1>6
  <2> QED
    BY <2>1, BoardCountIs DEF Tally
<1>10. \A l \in (g + 1)..g : FALSE
  BY <1>6
<1>11. Cardinality(SetsUpIn(s.game)) = 0 /\ Cardinality(SetUps(f, g, g)) = 0
  BY <1>4, <1>5, <1>7, <1>8
<1>12. Len(s.captured) = 0
  BY <1>5
<1>13. f[g].ok /\ s.game.winner = f[g].winner
  BY <1>4, <1>5
<1>14. InGame(s, f, g)
  BY <1>5, <1>6, <1>7, <1>9, <1>10, <1>11, <1>12, <1>13 DEF InGame
<1> QED
  BY <1>14 DEF s

(* It reads one more line of it. *)
LEMMA CountGoesOn ==
  ASSUME NEW f \in Seq(Lines), NEW g \in GameStarts(f), NEW l \in g..(EndOf(f, g) - 2)
  PROVE  /\ BoardCount(f, g)[(l + 1) - g] = BoardCount(f, g)[l - g] + Added(f[l + 1])
         /\ f[l + 1] \in Lines /\ f[l + 1].kind # "game"
         /\ l + 1 \in (g + 1)..(EndOf(f, g) - 1)
<1>1. g \in Nat /\ EndOf(f, g) \in Nat /\ l \in Nat /\ EndOf(f, g) <= Len(f) + 1
  BY EndIs, StartFacts
<1> DEFINE k == (l + 1) - g
<1>2. k \in 1..(EndOf(f, g) - 1 - g) /\ k - 1 = l - g /\ g + k = l + 1
  BY <1>1
<1>3. BoardCount(f, g)[k] = BoardCount(f, g)[k - 1] + Added(f[g + k])
  <2> HIDE DEF k
  <2> QED
    BY <1>2, BoardCountIs DEF Tally
<1>4. l + 1 \in (g + 1)..(EndOf(f, g) - 1) /\ l + 1 \in 1..Len(f) /\ l + 1 > g /\ ~(EndOf(f, g) <= l + 1)
  BY <1>1
<1>5. l + 1 \notin GameStarts(f)
  BY <1>4, EndIs
<1>6. f[l + 1] \in Lines /\ f[l + 1].kind # "game"
  BY <1>4, <1>5 DEF GameStarts
<1>7. BoardCount(f, g)[(l + 1) - g] = BoardCount(f, g)[l - g] + Added(f[l + 1])
  <2> HIDE DEF k
  <2>1. BoardCount(f, g)[k] = BoardCount(f, g)[l - g] + Added(f[l + 1])
    BY <1>2, <1>3
  <2> QED
    BY <2>1 DEF k
<1> QED
  BY <1>4, <1>6, <1>7

(* A board to set up before the line is the same as a board that is known. *)
LEMMA FineIs ==
  ASSUME NEW f \in Seq(Lines), NEW g \in GameStarts(f), NEW r, InGame(r, f, g),
         NEW l, l = f[r.line + 1], l \in Lines
  PROVE  FineLine(f, g, r.line + 1) <=>
           /\ l.kind = "board" => l.ok
           /\ l.kind = "moves" =>
                /\ l.moves # <<>> /\ r.lastBoard # NoBoard
                /\ \A i \in DOMAIN l.moves : l.moves[i] # "illegal"
<1>1. g \in Nat /\ r.line \in Nat
  BY EndIs, StartFacts DEF InGame
<1>2. (r.line + 1) - 1 = r.line
  BY <1>1
<1>3. r.lastBoard # NoBoard <=> \E k \in (g + 1)..((r.line + 1) - 1) : SetsUp(f[k])
  BY <1>2 DEF InGame, SetUps
<1> QED
  BY <1>3 DEF FineLine

LEMMA LineFails ==
  ASSUME NEW f \in Seq(Lines), NEW g \in GameStarts(f), NEW r, InGame(r, f, g),
         r.line < EndOf(f, g) - 1, ~FineLine(f, g, r.line + 1)
  PROVE  LET s == ReadInner(r, f[r.line + 1])
         IN  s.phase = "idle" /\ s.command.kind = "error"
<1> DEFINE l == f[r.line + 1]
           t == TryReadCommand(r, l)
<1>1. r \in ReaderType /\ r.line \in g..(EndOf(f, g) - 2) /\ g \in Nat
  BY EndIs, StartFacts DEF InGame
<1>2. l \in Lines /\ l.kind # "game"
  BY <1>1, CountGoesOn
<1>3. \/ l.kind = "board" /\ ~l.ok
      \/ l.kind = "moves" /\ (l.moves = <<>> \/ r.lastBoard = NoBoard)
      \/ l.kind = "moves" /\ l.moves # <<>> /\ r.lastBoard # NoBoard
           /\ \E i \in DOMAIN l.moves : l.moves[i] = "illegal"
  BY <1>2, FineIs
<1>4. t.command.kind = "error" /\ {"phase", "command"} \subseteq DOMAIN t
  <2> HIDE DEF l
  <2>1. t \in ReaderType => {"phase", "command"} \subseteq DOMAIN t
    BY DEF ReaderType
  <2> QED
    BY <1>1, <1>2, <1>3, <2>1, LineRead DEF Stays
<1>5. ReadInner(r, l) = [t EXCEPT !.last = t.command, !.phase = "idle"]
  BY <1>4 DEF ReadInner, IsErr
<1> QED
  BY <1>4, <1>5

LEMMA GoesOn ==
  ASSUME NEW f \in Seq(Lines), NEW g \in GameStarts(f), NEW r, InGame(r, f, g),
         r.line < EndOf(f, g) - 1, FineLine(f, g, r.line + 1),
         NEW s \in ReaderType, s.phase = "reading", s.line = r.line + 1,
         s.game.winner = r.game.winner,
         s.lastBoard = NoBoard <=> SetUps(f, g, r.line + 1) = {},
         Cardinality(SetsUpIn(s.game)) = Cardinality(SetUps(f, g, r.line + 1)),
         Len(s.captured) = Len(r.captured) + Added(f[r.line + 1]),
         Cardinality(SetUps(f, g, r.line + 1)) = 0 => Len(s.captured) = 0,
         Cardinality(SetUps(f, g, r.line + 1)) = 1 =>
           /\ Len(s.captured) = Len(s.lastBoard.moves) + 1
           /\ \A k \in 1..Len(s.captured) : Len(s.captured[k].moves) = k - 1
  PROVE  InGame(s, f, g)
<1>1. g \in Nat /\ r.line \in g..(EndOf(f, g) - 2) /\ r.line \in Nat /\ EndOf(f, g) \in Nat
  BY EndIs, StartFacts DEF InGame
<1>2. /\ BoardCount(f, g)[(r.line + 1) - g] = BoardCount(f, g)[r.line - g] + Added(f[r.line + 1])
      /\ r.line + 1 \in g..(EndOf(f, g) - 1)
  <2> DEFINE l == r.line
  <2>1. l \in g..(EndOf(f, g) - 2)
    BY <1>1
  <2> HIDE DEF l
  <2>2. /\ BoardCount(f, g)[(l + 1) - g] = BoardCount(f, g)[l - g] + Added(f[l + 1])
        /\ l + 1 \in (g + 1)..(EndOf(f, g) - 1)
    BY <2>1, CountGoesOn
  <2>3. l + 1 \in g..(EndOf(f, g) - 1)
    BY <1>1, <2>2
  <2> QED
    BY <2>2, <2>3 DEF l
<1>3. Len(s.captured) = BoardCount(f, g)[s.line - g]
  <2>1. Len(r.captured) = BoardCount(f, g)[r.line - g]
    BY DEF InGame
  <2> QED
    BY <1>2, <2>1
<1>4. \A l \in (g + 1)..s.line : FineLine(f, g, l)
  <2>1. \A l \in (g + 1)..(r.line + 1) : l \in (g + 1)..r.line \/ l = r.line + 1
    BY <1>1
  <2>2. \A l \in (g + 1)..r.line : FineLine(f, g, l)
    BY DEF InGame
  <2> QED
    BY <2>1, <2>2
<1>5. f[g].ok /\ s.game.winner = f[g].winner
  BY DEF InGame
<1> QED
  BY <1>2, <1>3, <1>4, <1>5 DEF InGame

LEMMA CommandGoesIn ==
  ASSUME NEW t \in ReaderType
  PROVE  LET s == [t EXCEPT !.game.commands = Append(@, t.command)]
         IN  /\ s \in ReaderType /\ s.game = Further(t.game, t.command)
             /\ s.phase = t.phase /\ s.line = t.line /\ s.lastBoard = t.lastBoard
             /\ s.captured = t.captured
<1> DEFINE c == t.command
           game == Further(t.game, c)
           s == [t EXCEPT !.game.commands = Append(@, t.command)]
<1>1. t.game \in [winner : Winners, commands : Seq(Command)] /\ c \in Command
  BY DEF ReaderType
<1>2. game \in [winner : Winners, commands : Seq(Command)]
  BY <1>1, CommandAdded
<1>3. s = [t EXCEPT !.game = game]
  BY DEF Further
<1> HIDE DEF s, game, c
<1>4. /\ s \in ReaderType /\ s.game = game
      /\ s.phase = t.phase /\ s.line = t.line /\ s.lastBoard = t.lastBoard
      /\ s.captured = t.captured
  BY <1>2, <1>3 DEF ReaderType
<1> QED
  BY <1>4 DEF s, game, c

LEMMA IdleLine ==
  ASSUME NEW f \in Seq(Lines), NEW g \in GameStarts(f), NEW r, InGame(r, f, g),
         r.line < EndOf(f, g) - 1, f[r.line + 1].kind \in {"skip", "title"}
  PROVE  InGame(ReadInner(r, f[r.line + 1]), f, g)
<1> DEFINE l == f[r.line + 1]
           s == TryReadCommand(r, l)
<1>1. g \in Nat /\ r.line \in g..(EndOf(f, g) - 2) /\ r.line \in g..(EndOf(f, g) - 1)
      /\ r \in ReaderType /\ r.phase = "reading"
  BY EndIs, StartFacts DEF InGame
<1>2. l \in Lines
  BY <1>1, CountGoesOn
<1> HIDE DEF l
<1>3. /\ s \in ReaderType /\ s.phase = "reading" /\ s.game = r.game /\ s.line = r.line + 1
      /\ s.lastBoard = r.lastBoard /\ s.captured = r.captured
      /\ s.command = IF l.kind = "skip" THEN NoCommand ELSE [kind |-> "title"]
  BY <1>1, <1>2, LineRead DEF Stays, l
<1>4. s.command.kind \in {"none", "title"}
  BY <1>3 DEF NoCommand
<1>5. ReadInner(r, l) = s
  BY <1>4 DEF ReadInner, IsErr
<1>6. ~SetsUp(l) /\ Added(l) = 0
  BY DEF l, SetsUp, Added
<1>7. SetUps(f, g, r.line + 1) = SetUps(f, g, r.line)
  BY <1>1, <1>6, SetUpsGrow DEF l
<1>8. FineLine(f, g, r.line + 1)
  BY DEF FineLine
<1>9. Len(r.captured) + Added(l) = Len(r.captured)
  BY <1>1, <1>6 DEF ReaderType
<1> HIDE DEF s
<1>10. /\ s.lastBoard = NoBoard <=> SetUps(f, g, r.line + 1) = {}
       /\ Cardinality(SetsUpIn(s.game)) = Cardinality(SetUps(f, g, r.line + 1))
       /\ Len(s.captured) = Len(r.captured) + Added(l)
  BY <1>3, <1>7, <1>9 DEF InGame
<1>11. /\ Cardinality(SetUps(f, g, r.line + 1)) = 0 => Len(s.captured) = 0
       /\ Cardinality(SetUps(f, g, r.line + 1)) = 1 =>
            /\ Len(s.captured) = Len(s.lastBoard.moves) + 1
            /\ \A k \in 1..Len(s.captured) : Len(s.captured[k].moves) = k - 1
  BY <1>3, <1>7 DEF InGame
<1>12. InGame(s, f, g)
  BY <1>3, <1>8, <1>10, <1>11, GoesOn DEF l
<1> QED
  BY <1>5, <1>12 DEF l

LEMMA BoardIsSetUp ==
  ASSUME NEW f \in Seq(Lines), NEW g \in GameStarts(f), NEW r, InGame(r, f, g),
         r.line < EndOf(f, g) - 1, FineLine(f, g, r.line + 1), SetsUp(f[r.line + 1])
  PROVE  InGame(ReadInner(r, f[r.line + 1]), f, g)
<1> DEFINE l == f[r.line + 1]
           t == TryReadCommand(r, l)
           s == ReadInner(r, l)
           b == [from |-> r.line + 1, moves |-> <<>>]
           n == Cardinality(SetUps(f, g, r.line))
<1>1. g \in Nat /\ r.line \in g..(EndOf(f, g) - 2) /\ r.line \in g..(EndOf(f, g) - 1)
      /\ r \in ReaderType /\ r.phase = "reading"
  BY EndIs, StartFacts DEF InGame
<1>2. l \in Lines /\ (l.kind = "start" \/ (l.kind = "board" /\ l.ok))
  BY <1>1, CountGoesOn DEF FineLine, SetsUp
<1> HIDE DEF l
<1>3. /\ t \in ReaderType /\ t.phase = "reading" /\ t.game = r.game /\ t.line = r.line + 1
      /\ b \in GameBoard /\ t.lastBoard = b /\ t.captured = Append(r.captured, b)
      /\ t.command = [kind |-> "board"]
  BY <1>1, <1>2, LineRead DEF Stays
<1>4. t.command.kind = "board" /\ t.command \in Command
  BY <1>3 DEF ReaderType
<1>5. s = [t EXCEPT !.game.commands = Append(@, t.command)]
  BY <1>4 DEF ReadInner, IsErr
<1> HIDE DEF s, t, b
<1>6. /\ s \in ReaderType /\ s.game = Further(r.game, t.command)
      /\ s.phase = "reading" /\ s.line = r.line + 1 /\ s.lastBoard = b
      /\ s.captured = Append(r.captured, b)
  BY <1>3, <1>5, CommandGoesIn
<1>7. r.game \in [winner : Winners, commands : Seq(Command)] /\ r.captured \in Seq(GameBoard)
  BY <1>1 DEF ReaderType
<1>8. /\ s.game.winner = r.game.winner
      /\ Cardinality(SetsUpIn(s.game)) = Cardinality(SetsUpIn(r.game)) + 1
  <2> DEFINE c == t.command
             game == r.game
  <2>1. game \in [winner : Winners, commands : Seq(Command)] /\ c \in Command /\ c.kind = "board"
    BY <1>4, <1>7
  <2>2. s.game = Further(game, c)
    BY <1>6
  <2> HIDE DEF c, game
  <2>3. /\ s.game.winner = game.winner
        /\ Cardinality(SetsUpIn(s.game)) = Cardinality(SetsUpIn(game)) + 1
    BY <2>1, <2>2, CommandAdded
  <2> QED
    BY <2>3 DEF game
<1>9. /\ n \in Nat /\ (n = 0 <=> SetUps(f, g, r.line) = {})
      /\ SetUps(f, g, r.line + 1) # {} /\ Cardinality(SetUps(f, g, r.line + 1)) = n + 1
  BY <1>1, SetUpsGrow DEF l
<1>10. b # NoBoard /\ b.moves = <<>>
  <2>1. <<>> \in Seq(MoveKinds)
    OBVIOUS
  <2>2. b # NoBoard
    BY <1>3, <2>1, BoardFacts
  <2> QED
    BY <2>2 DEF b
<1>11. /\ Len(s.captured) = Len(r.captured) + 1 /\ Added(l) = 1 /\ Len(r.captured) \in Nat
       /\ s.captured[Len(r.captured) + 1] = b
  <2>1. Added(l) = 1
    BY <1>2, AddedFacts DEF SetsUp
  <2> DEFINE old == r.captured
  <2>2. old \in Seq(GameBoard) /\ b \in GameBoard /\ s.captured = Append(old, b)
    BY <1>3, <1>6, <1>7
  <2> HIDE DEF old
  <2>3. Len(old) \in Nat /\ Len(s.captured) = Len(old) + 1 /\ s.captured[Len(old) + 1] = b
    BY <2>2
  <2> QED
    BY <2>1, <2>3 DEF old
<1>12. Cardinality(SetsUpIn(s.game)) = Cardinality(SetUps(f, g, r.line + 1))
  BY <1>8, <1>9 DEF InGame
<1> HIDE DEF n
<1>13. n + 1 # 0 /\ (n + 1 = 1 => n = 0)
  BY <1>9
<1>14. Cardinality(SetUps(f, g, r.line + 1)) = 1 =>
         /\ Len(s.captured) = Len(s.lastBoard.moves) + 1
         /\ \A k \in 1..Len(s.captured) : Len(s.captured[k].moves) = k - 1
  <2>1. SUFFICES ASSUME n = 0
                 PROVE  /\ Len(s.captured) = Len(s.lastBoard.moves) + 1
                        /\ \A k \in 1..Len(s.captured) : Len(s.captured[k].moves) = k - 1
    BY <1>9, <1>13
  <2>2. Len(r.captured) = 0
    BY <2>1 DEF InGame, n
  <2>3. Len(s.captured) = 1 /\ s.captured[1] = b /\ Len(b.moves) = 0
    BY <1>10, <1>11, <2>2
  <2>4. \A k \in 1..1 : k = 1
    OBVIOUS
  <2> QED
    BY <1>6, <2>3, <2>4
<1>15. s.lastBoard = NoBoard <=> SetUps(f, g, r.line + 1) = {}
  BY <1>6, <1>9, <1>10
<1>16. Cardinality(SetUps(f, g, r.line + 1)) # 0
  BY <1>9, <1>13
<1>17. Len(s.captured) = Len(r.captured) + Added(l)
  BY <1>11
<1>18. InGame(s, f, g)
  BY <1>6, <1>8, <1>12, <1>14, <1>15, <1>16, <1>17, GoesOn DEF l
<1> QED
  BY <1>18 DEF s, l

LEMMA MovesAreMade ==
  ASSUME NEW f \in Seq(Lines), NEW g \in GameStarts(f), NEW r, InGame(r, f, g),
         r.line < EndOf(f, g) - 1, FineLine(f, g, r.line + 1), f[r.line + 1].kind = "moves"
  PROVE  InGame(ReadInner(r, f[r.line + 1]), f, g)
<1> DEFINE l == f[r.line + 1]
           t == TryReadCommand(r, l)
           s == ReadInner(r, l)
           n == Len(r.captured)
           m == Len(l.moves)
<1>1. g \in Nat /\ r.line \in g..(EndOf(f, g) - 2) /\ r.line \in g..(EndOf(f, g) - 1)
      /\ r \in ReaderType /\ r.phase = "reading"
  BY EndIs, StartFacts DEF InGame
<1>2. l \in Lines /\ l.kind = "moves"
  BY <1>1, CountGoesOn
<1>3. l.moves # <<>> /\ r.lastBoard # NoBoard /\ \A i \in DOMAIN l.moves : l.moves[i] # "illegal"
  BY <1>2, FineIs
<1> HIDE DEF l
<1>4. /\ t \in ReaderType /\ t.phase = "reading" /\ t.game = r.game /\ t.line = r.line + 1
      /\ t.command = [kind |-> "moves", moves |-> l.moves]
      /\ t.lastBoard \in GameBoard
      /\ Len(t.lastBoard.moves) = Len(r.lastBoard.moves) + m
      /\ Len(t.captured) = n + m
      /\ \A k \in 1..n : t.captured[k] = r.captured[k]
      /\ \A k \in 1..m : Len(t.captured[n + k].moves) = Len(r.lastBoard.moves) + k
  BY <1>1, <1>2, <1>3, LineRead DEF Stays
<1>5. t.command.kind = "moves" /\ t.command \in Command
  BY <1>4 DEF ReaderType
<1>6. s = [t EXCEPT !.game.commands = Append(@, t.command)]
  BY <1>5 DEF ReadInner, IsErr
<1> HIDE DEF s, t
<1>7. /\ s \in ReaderType /\ s.game = Further(r.game, t.command)
      /\ s.phase = "reading" /\ s.line = r.line + 1 /\ s.lastBoard = t.lastBoard
      /\ s.captured = t.captured
  BY <1>4, <1>6, CommandGoesIn
<1>8. r.game \in [winner : Winners, commands : Seq(Command)] /\ n \in Nat /\ m \in Nat
      /\ r.lastBoard \in GameBoard /\ Len(r.lastBoard.moves) \in Nat
  <2>1. r.lastBoard \in GameBoard /\ r.captured \in Seq(GameBoard)
        /\ r.game \in [winner : Winners, commands : Seq(Command)]
    BY <1>1, <1>3 DEF ReaderType
  <2>2. r.lastBoard.moves \in Seq(MoveKinds) /\ l.moves \in Seq(MoveKinds)
    BY <1>2, <2>1, LineFacts DEF GameBoard
  <2> QED
    BY <2>1, <2>2
<1>9. s.game.winner = r.game.winner /\ SetsUpIn(s.game) = SetsUpIn(r.game)
  BY <1>5, <1>7, <1>8, CommandAdded
<1>10. ~SetsUp(l) /\ Added(l) = m
  BY <1>2, AddedFacts DEF SetsUp
<1>11. SetUps(f, g, r.line + 1) = SetUps(f, g, r.line)
  BY <1>1, <1>10, SetUpsGrow DEF l
<1>12. SetUps(f, g, r.line) # {} /\ Cardinality(SetUps(f, g, r.line)) # 0
  <2>1. SetUps(f, g, r.line) # {}
    BY <1>3 DEF InGame
  <2> QED
    BY <1>1, <2>1, SetUpsGrow
<1>13. s.lastBoard # NoBoard
  <2>1. <<>> \in Seq(MoveKinds)
    OBVIOUS
  <2> QED
    BY <1>4, <1>7, <2>1, BoardFacts
<1>14. Cardinality(SetUps(f, g, r.line)) = 1 =>
         /\ Len(s.captured) = Len(s.lastBoard.moves) + 1
         /\ \A k \in 1..Len(s.captured) : Len(s.captured[k].moves) = k - 1
  <2> DEFINE p == Len(r.lastBoard.moves)
  <2>1. SUFFICES ASSUME Cardinality(SetUps(f, g, r.line)) = 1
                 PROVE  /\ Len(s.captured) = Len(s.lastBoard.moves) + 1
                        /\ \A k \in 1..Len(s.captured) : Len(s.captured[k].moves) = k - 1
    OBVIOUS
  <2>2. n = p + 1 /\ \A k \in 1..n : Len(r.captured[k].moves) = k - 1
    BY <2>1 DEF InGame
  <2>3. p \in Nat /\ Len(s.captured) = n + m /\ Len(s.lastBoard.moves) = p + m
    BY <1>4, <1>7, <1>8
  <2>4. Len(s.captured) = Len(s.lastBoard.moves) + 1
    <3> HIDE DEF p, n, m
    <3> QED
      BY <1>8, <2>2, <2>3
  <2>5. ASSUME NEW k \in 1..(n + m) PROVE Len(s.captured[k].moves) = k - 1
    <3>1. CASE k <= n
      <4>1. k \in 1..n
        <5> HIDE DEF n, m
        <5> QED
          BY <1>8, <3>1
      <4> QED
        BY <1>4, <1>7, <2>2, <4>1
    <3>2. CASE ~(k <= n)
      <4> DEFINE j == k - n
      <4>1. j \in 1..m /\ n + j = k /\ p + j = k - 1
        <5> HIDE DEF n, m, p
        <5> QED
          BY <1>8, <2>2, <2>3, <3>2
      <4>2. Len(t.captured[n + j].moves) = p + j
        <5> HIDE DEF j
        <5> QED
          BY <1>4, <4>1
      <4> HIDE DEF j, n, p
      <4> QED
        BY <1>7, <4>1, <4>2
    <3> QED
      BY <3>1, <3>2
  <2> QED
    BY <2>3, <2>4, <2>5
<1>15. Len(s.captured) = Len(r.captured) + Added(l)
  BY <1>4, <1>7, <1>10
<1>16. Cardinality(SetsUpIn(s.game)) = Cardinality(SetUps(f, g, r.line + 1))
  BY <1>9, <1>11 DEF InGame
<1>17. InGame(s, f, g)
  BY <1>7, <1>9, <1>11, <1>12, <1>13, <1>14, <1>15, <1>16, GoesOn DEF l
<1> QED
  BY <1>17 DEF s, l

(* A line that is fine is taken. *)
LEMMA LineIsTaken ==
  ASSUME NEW f \in Seq(Lines), NEW g \in GameStarts(f), NEW r, InGame(r, f, g),
         r.line < EndOf(f, g) - 1, FineLine(f, g, r.line + 1)
  PROVE  InGame(ReadInner(r, f[r.line + 1]), f, g)
<1>1. r.line \in g..(EndOf(f, g) - 2) /\ g \in Nat
  BY EndIs, StartFacts DEF InGame
<1>2. f[r.line + 1] \in Lines /\ f[r.line + 1].kind # "game"
  BY <1>1, CountGoesOn
<1>3. f[r.line + 1].kind \in {"skip", "title"} \/ SetsUp(f[r.line + 1]) \/ f[r.line + 1].kind = "moves"
  BY <1>2, LineFacts DEF SetsUp
<1> QED
  BY <1>3, IdleLine, BoardIsSetUp, MovesAreMade

(* The game ends: with the file, with the next game, or with a line that fails. *)
LEMMA GameEnds ==
  ASSUME NEW f \in Seq(Lines), NEW g \in GameStarts(f), NEW r, InGame(r, f, g),
         r.line = EndOf(f, g) - 1
  PROVE  LET e == EndOf(f, g)
             s == ReadInner(r, LineAfter(r.line, f))
         IN  /\ s \in ReaderType /\ s.phase = "idle" /\ s.last = s.command
             /\ s.game = r.game /\ s.captured = r.captured
             /\ e = Len(f) + 1 => s.command = EndOfStream
             /\ e # Len(f) + 1 => /\ e \in GameStarts(f)
                                  /\ ~f[e].ok => s.command.kind = "error"
                                  /\ f[e].ok => /\ s.line = e /\ s.lastBoard = NoBoard
                                                /\ s.command = [kind |-> "game", winner |-> f[e].winner]
<1> DEFINE e == EndOf(f, g)
           l == LineAfter(r.line, f)
           t == TryReadCommand(r, l)
           s == ReadInner(r, l)
<1>1. /\ e \in Nat /\ r.line + 1 = e /\ r.line \in Nat /\ e <= Len(f) + 1 /\ Len(f) \in Nat
      /\ r \in ReaderType /\ r.phase = "reading"
      /\ e # Len(f) + 1 => e \in GameStarts(f) /\ r.line < Len(f)
      /\ e = Len(f) + 1 => ~(r.line < Len(f))
  BY EndIs, StartFacts DEF InGame
<1>2. CASE e = Len(f) + 1
  <2>1. l = NoLine
    BY <1>1, <1>2 DEF LineAfter
  <2>2. t = [r EXCEPT !.command = EndOfStream]
    BY <2>1 DEF TryReadCommand
  <2>3. EndOfStream \in Command /\ EndOfStream.kind = "endOfStream"
    BY DEF Command, EndOfStream
  <2> HIDE DEF t, l
  <2>4. /\ t \in ReaderType /\ t.command = EndOfStream /\ t.game = r.game /\ t.captured = r.captured
    BY <1>1, <2>2, <2>3 DEF ReaderType
  <2>5. s = [t EXCEPT !.last = t.command, !.phase = "idle"]
    BY <2>3, <2>4 DEF ReadInner, IsErr, t
  <2> HIDE DEF s
  <2>6. /\ s \in ReaderType /\ s.phase = "idle" /\ s.last = s.command
        /\ s.game = r.game /\ s.captured = r.captured /\ s.command = EndOfStream
    BY <2>4, <2>5 DEF ReaderType
  <2> QED
    BY <1>2, <2>6 DEF s, l
<1>3. CASE e # Len(f) + 1
  <2>1. l = f[e] /\ e \in GameStarts(f)
    BY <1>1, <1>3 DEF LineAfter
  <2>2. l \in Lines /\ l.kind = "game"
    BY <2>1, StartFacts
  <2> HIDE DEF l, e
  <2>3. /\ t \in ReaderType /\ t.game = r.game /\ t.line = r.line + 1 /\ t.captured = r.captured
        /\ l.ok => t.command = [kind |-> "game", winner |-> l.winner] /\ t.lastBoard = NoBoard
        /\ ~l.ok => t.command.kind = "error"
    BY <1>1, <2>2, LineRead DEF Stays
  <2>4. t.command.kind \in {"game", "error"}
    BY <2>3
  <2>5. s = [t EXCEPT !.last = t.command, !.phase = "idle"]
    BY <2>4 DEF ReadInner, IsErr
  <2> HIDE DEF s, t
  <2>6. /\ s \in ReaderType /\ s.phase = "idle" /\ s.last = s.command
        /\ s.game = r.game /\ s.captured = r.captured /\ s.command = t.command
        /\ s.line = t.line /\ s.lastBoard = t.lastBoard
    BY <2>3, <2>5 DEF ReaderType
  <2> QED
    BY <1>1, <1>3, <2>1, <2>3, <2>6 DEF s, l, e
<1> QED
  BY <1>2, <1>3

(* It can be consumed exactly if it is one that can be used. *)
LEMMA ConsumedIsUsable ==
  ASSUME NEW f \in Seq(Lines), NEW g \in GameStarts(f), NEW r, InGame(r, f, g),
         r.line = EndOf(f, g) - 1
  PROVE  CanConsume(r.game) <=> IsUsableGame(f, g)
<1> DEFINE sets == SetsUpIn(r.game)
<1>1. Cardinality(sets) = 1 => r.game.commands # <<>>
  <2>1. SUFFICES ASSUME r.game.commands = <<>> PROVE Cardinality(sets) # 1
    OBVIOUS
  <2>2. sets = {}
    BY <2>1 DEF SetsUpIn
  <2> QED
    BY <2>2, FS_EmptySet
<1>2. IsCanonical(r.game) <=> Cardinality(sets) = 1
  BY <1>1 DEF IsCanonical, SetsUpIn
<1>3. /\ r.game.winner = f[g].winner /\ f[g].ok
      /\ Cardinality(sets) = Cardinality(SetUps(f, g, EndOf(f, g) - 1))
      /\ \A l \in (g + 1)..(EndOf(f, g) - 1) : FineLine(f, g, l)
  BY DEF InGame
<1> HIDE DEF sets
<1> QED
  BY <1>2, <1>3, UsableIs DEF CanConsume

(* The rows of the game that starts at line g, as game number n. *)
Row == [winner : Winners, gameId : Nat, total : Nat, left : Int, board : GameBoard]

OwnRows(f, g, n, new, filter) ==
  /\ \A k \in 1..Len(new) :
       /\ new[k].gameId = n
       /\ new[k].winner = f[g].winner
       /\ new[k].total = BoardsIn(f, g)
       /\ new[k].left = BoardsIn(f, g) - 1 - Len(new[k].board.moves)
  /\ ~filter => Len(new) = BoardsIn(f, g)
  /\ \A k, m \in 1..Len(new) : k < m => new[m].left < new[k].left

LEMMA GameGivesRows ==
  ASSUME NEW f \in Seq(Lines), NEW g \in GameStarts(f), NEW r, InGame(r, f, g),
         r.line = EndOf(f, g) - 1, IsUsableGame(f, g), NEW n \in Nat, NEW filter
  PROVE  LET new == Rows(r.game, r.captured, n, filter)
         IN  new \in Seq(Row) /\ OwnRows(f, g, n, new, filter)
<1> DEFINE new == Rows(r.game, r.captured, n, filter)
           boards == r.captured
           total == Len(boards)
           winner == r.game.winner
<1>1. /\ boards \in Seq(GameBoard) /\ total \in Nat /\ winner \in Winners /\ winner = f[g].winner
      /\ \A k \in 1..total : boards[k] \in GameBoard
  BY DEF InGame, ReaderType
<1>2. Cardinality(SetUps(f, g, r.line)) = 1
  BY UsableIs
<1>3. \A k \in 1..total : Len(boards[k].moves) = k - 1
  BY <1>2 DEF InGame
<1>4. total = BoardsIn(f, g)
  <2>1. total = BoardCount(f, g)[EndOf(f, g) - 1 - g]
    BY DEF InGame
  <2> QED
    BY <2>1, BoardCountIs DEF Tally
<1>5. PICK kept : /\ Keeps(kept, total, filter)
                  /\ new = [k \in DOMAIN kept |->
                              [winner |-> winner, gameId |-> n, total |-> total,
                               left |-> total - kept[k], board |-> boards[kept[k]]]]
  <2>1. boards \in Seq(GameBoard)
    BY <1>1
  <2> HIDE DEF boards
  <2>2. \E kept : RowsOfKept(r.game, boards, n, filter, kept)
    BY <2>1, RowsKeep
  <2> QED
    BY <2>2 DEF RowsOfKept, boards
<1> HIDE DEF new, total, winner, boards
<1>6. /\ kept \in Seq(1..total) /\ Len(kept) \in Nat /\ DOMAIN kept = 1..Len(kept)
      /\ \A k \in 1..Len(kept) : kept[k] \in 1..total
      /\ \A a, b \in 1..Len(kept) : a < b => kept[a] < kept[b]
      /\ ~filter => Len(kept) = total
  <2>1. /\ kept \in Seq(1..total) /\ \A a, b \in DOMAIN kept : a < b => kept[a] < kept[b]
        /\ ~filter => Len(kept) = total
    BY <1>5 DEF Keeps
  <2> DEFINE T == 1..total
  <2>2. kept \in Seq(T)
    BY <2>1
  <2> HIDE DEF T
  <2>3. Len(kept) \in Nat /\ DOMAIN kept = 1..Len(kept) /\ \A k \in 1..Len(kept) : kept[k] \in T
    BY <2>2
  <2> QED
    BY <2>1, <2>3 DEF T
<1> DEFINE row(k) == [winner |-> winner, gameId |-> n, total |-> total,
                      left |-> total - kept[k], board |-> boards[kept[k]]]
<1>7. ASSUME NEW k \in 1..Len(kept)
      PROVE  /\ row(k) \in Row /\ row(k).gameId = n /\ row(k).winner = winner /\ row(k).total = total
             /\ row(k).left = total - kept[k] /\ row(k).left = total - 1 - Len(row(k).board.moves)
  <2> DEFINE i == kept[k]
             b == boards[i]
             left == total - i
  <2>1. i \in 1..total /\ b \in GameBoard /\ Len(b.moves) = i - 1 /\ i \in Int
    <3>1. i \in 1..total
      BY <1>6, Zenon
    <3> HIDE DEF i
    <3>2. i \in Int
      BY <1>1, <3>1
    <3> QED
      BY <1>1, <1>3, <3>1, <3>2
  <2>2. left \in Int /\ left = total - 1 - Len(b.moves)
    <3> HIDE DEF i, b
    <3> QED
      BY <1>1, <2>1
  <2>3. row(k) = [winner |-> winner, gameId |-> n, total |-> total, left |-> left, board |-> b]
    OBVIOUS
  <2> HIDE DEF row
  <2>4. left = total - kept[k]
    OBVIOUS
  <2> HIDE DEF left, b
  <2>5. row(k) \in Row
    BY <1>1, <2>1, <2>2, <2>3 DEF Row
  <2> QED
    BY <2>2, <2>3, <2>4, <2>5
<1>8. new = [k \in 1..Len(kept) |-> row(k)]
  BY <1>5, <1>6
<1> HIDE DEF row
<1>9. new \in Seq(Row) /\ Len(new) = Len(kept) /\ \A k \in 1..Len(kept) : new[k] = row(k)
  <2>1. new \in [1..Len(kept) -> Row]
    BY <1>7, <1>8
  <2> QED
    BY <1>6, <1>8, <2>1
<1>10. \A k, m \in 1..Len(kept) : k < m => new[m].left < new[k].left
  <2>1. SUFFICES ASSUME NEW k \in 1..Len(kept), NEW m \in 1..Len(kept), k < m
                 PROVE  new[m].left < new[k].left
    OBVIOUS
  <2>2. new[m].left = total - kept[m] /\ new[k].left = total - kept[k]
    BY <1>7, <1>9
  <2>3. kept[k] < kept[m] /\ kept[k] \in Int /\ kept[m] \in Int
    BY <1>6, <2>1
  <2> DEFINE p == kept[k]
             q == kept[m]
  <2>4. total - q < total - p
    <3> HIDE DEF p, q
    <3>1. p < q /\ p \in Int /\ q \in Int
      BY <2>3 DEF p, q
    <3> QED
      BY <1>1, <3>1
  <2> QED
    BY <2>2, <2>4
<1>11. \A k \in 1..Len(kept) :
         /\ new[k].gameId = n /\ new[k].winner = winner /\ new[k].total = total
         /\ new[k].left = total - 1 - Len(new[k].board.moves)
  BY <1>7, <1>9
<1>12. OwnRows(f, g, n, new, filter)
  BY <1>1, <1>4, <1>6, <1>9, <1>10, <1>11 DEF OwnRows
<1> QED
  BY <1>9, <1>12 DEF new, boards

-----------------------------------------------------------------------------
(* The games before a line, and their rows *)

Before(f, x) == {j \in GameStarts(f) : j < x}
Number(f, i) == Cardinality({j \in GameStarts(f) : j <= i})
Own(all, n) == {k \in 1..Len(all) : all[k].gameId = n}

GameRows(f, i, all, filter) ==
  /\ \A k \in Own(all, Number(f, i)) :
       /\ all[k].winner = f[i].winner
       /\ all[k].total = BoardsIn(f, i)
       /\ all[k].left = BoardsIn(f, i) - 1 - Len(all[k].board.moves)
  /\ ~filter => Cardinality(Own(all, Number(f, i))) = BoardsIn(f, i)
  /\ \A k, m \in Own(all, Number(f, i)) : k < m => all[m].left < all[k].left

(* So many games were consumed, and these are their rows.                         *)
Counted(f, x, count, all, filter) ==
  /\ count = Cardinality(Before(f, x))
  /\ all \in Seq(Row)
  /\ \A k \in 1..Len(all) : all[k].gameId \in 1..count
  /\ \A i \in Before(f, x) : GameRows(f, i, all, filter)

(* Nothing before line x stops the reader.                                        *)
Settled(f, x, count, all, filter) ==
  /\ StartsWithGame(f)
  /\ \A j \in Before(f, x) : IsUsableGame(f, j) /\ (EndOf(f, j) \in DOMAIN f => f[EndOf(f, j)].ok)
  /\ Counted(f, x, count, all, filter)

LEMMA BeforeFacts ==
  ASSUME NEW f \in Seq(Lines), NEW x
  PROVE  /\ GameStarts(f) \subseteq 1..Len(f)
         /\ IsFiniteSet(Before(f, x)) /\ Cardinality(Before(f, x)) \in Nat
         /\ Before(f, x) \subseteq GameStarts(f)
<1>1. GameStarts(f) \subseteq 1..Len(f) /\ Len(f) \in Nat
  BY DEF GameStarts
<1>2. Before(f, x) \subseteq GameStarts(f)
  BY DEF Before
<1>3. IsFiniteSet(Before(f, x))
  <2> DEFINE n == Len(f)
  <2>1. n \in Int /\ Before(f, x) \subseteq 1..n
    BY <1>1, <1>2
  <2> HIDE DEF n
  <2>2. IsFiniteSet(1..n)
    BY <2>1, FS_Interval
  <2> QED
    BY <2>1, <2>2, FS_Subset
<1> QED
  BY <1>1, <1>2, <1>3, FS_CardinalityType

LEMMA NumberFacts ==
  ASSUME NEW f \in Seq(Lines), NEW g \in GameStarts(f)
  PROVE  /\ Number(f, g) = Cardinality(Before(f, g)) + 1
         /\ \A j \in Before(f, g) : Number(f, j) \in 0..Cardinality(Before(f, g))
<1>1. g \in Nat /\ GameStarts(f) \subseteq Nat
  BY StartFacts, BeforeFacts
<1>2. {j \in GameStarts(f) : j <= g} = Before(f, g) \union {g}
  BY <1>1 DEF Before
<1>3. g \notin Before(f, g)
  BY <1>1 DEF Before
<1>4. Number(f, g) = Cardinality(Before(f, g)) + 1
  BY <1>2, <1>3, BeforeFacts, FS_AddElement DEF Number
<1>5. ASSUME NEW j \in Before(f, g) PROVE Number(f, j) \in 0..Cardinality(Before(f, g))
  <2> DEFINE upTo == {i \in GameStarts(f) : i <= j}
  <2>1. upTo \subseteq Before(f, g)
    BY <1>1 DEF Before
  <2> HIDE DEF upTo
  <2>2. IsFiniteSet(upTo) /\ Cardinality(upTo) <= Cardinality(Before(f, g))
    BY <2>1, BeforeFacts, FS_Subset
  <2>3. Cardinality(upTo) \in Nat /\ Cardinality(Before(f, g)) \in Nat
    BY <2>2, BeforeFacts, FS_CardinalityType
  <2>4. Cardinality(upTo) \in 0..Cardinality(Before(f, g))
    BY <2>2, <2>3
  <2> QED
    BY <2>4 DEF Number, upTo
<1> QED
  BY <1>4, <1>5

LEMMA BeforeEnd ==
  ASSUME NEW f \in Seq(Lines), NEW g \in GameStarts(f)
  PROVE  /\ Before(f, EndOf(f, g)) = Before(f, g) \union {g}
         /\ Cardinality(Before(f, EndOf(f, g))) = Cardinality(Before(f, g)) + 1
<1>1. g \in Nat /\ GameStarts(f) \subseteq Nat /\ EndOf(f, g) \in Nat /\ g < EndOf(f, g)
  BY StartFacts, BeforeFacts, EndIs
<1>2. \A j \in GameStarts(f) : j > g => ~(j < EndOf(f, g))
  BY <1>1, EndIs
<1>3. Before(f, EndOf(f, g)) = Before(f, g) \union {g}
  BY <1>1, <1>2 DEF Before
<1>4. g \notin Before(f, g)
  BY <1>1 DEF Before
<1> QED
  BY <1>3, <1>4, BeforeFacts, FS_AddElement

(* The rows of games that have been consumed stay where they are.                 *)
LEMMA OldRowsStay ==
  ASSUME NEW all \in Seq(Row), NEW new \in Seq(Row), NEW count \in Nat,
         \A k \in 1..Len(new) : new[k].gameId = count + 1,
         \A k \in 1..Len(all) : all[k].gameId \in 1..count
  PROVE  /\ \A k \in 1..Len(all) : (all \o new)[k] = all[k]
         /\ \A k \in 1..Len(new) : (all \o new)[Len(all) + k] = new[k]
         /\ all \o new \in Seq(Row) /\ Len(all \o new) = Len(all) + Len(new)
         /\ \A k \in 1..Len(all \o new) : (all \o new)[k].gameId \in 1..(count + 1)
         /\ \A n \in 0..count : Own(all \o new, n) = Own(all, n)
         /\ Own(all \o new, count + 1) = (Len(all) + 1)..(Len(all) + Len(new))
<1> DEFINE both == all \o new
           p == Len(all)
           q == Len(new)
<1>1. both \in Seq(Row) /\ Len(both) = p + q
  BY ConcatProperties
<1>2. p \in Nat /\ q \in Nat
  OBVIOUS
<1>3. \A i \in 1..(p + q) : both[i] = IF i <= p THEN all[i] ELSE new[i - p]
  BY ConcatProperties
<1>a. \A k \in 1..q : new[k].gameId = count + 1
  OBVIOUS
<1>b. \A k \in 1..p : all[k].gameId \in 1..count
  OBVIOUS
<1> HIDE DEF both, p, q
<1>4. \A k \in 1..p : both[k] = all[k]
  BY <1>2, <1>3
<1>5. \A k \in 1..q : both[p + k] = new[k]
  <2>1. ASSUME NEW k \in 1..q PROVE both[p + k] = new[k]
    <3>1. p + k \in 1..(p + q) /\ ~(p + k <= p) /\ (p + k) - p = k
      BY <1>2
    <3> QED
      BY <1>3, <3>1
  <2> QED
    BY <2>1
<1>6. ASSUME NEW k \in 1..(p + q)
      PROVE  \/ k \in 1..p /\ both[k].gameId = all[k].gameId /\ both[k].gameId \in 1..count
             \/ k \in (p + 1)..(p + q) /\ both[k].gameId = count + 1
  <2>1. CASE k <= p
    <3>1. k \in 1..p
      BY <1>2, <2>1
    <3> QED
      BY <1>4, <1>b, <3>1
  <2>2. CASE ~(k <= p)
    <3>1. k \in (p + 1)..(p + q) /\ k - p \in 1..q
      BY <1>2, <2>2
    <3>2. both[k] = new[k - p]
      BY <1>3, <2>2
    <3> QED
      BY <1>a, <3>1, <3>2
  <2> QED
    BY <2>1, <2>2
<1>7. \A k \in 1..(p + q) : both[k].gameId \in 1..(count + 1)
  BY <1>6
<1>8. ASSUME NEW n \in 0..count PROVE Own(both, n) = Own(all, n)
  <2>1. Own(both, n) = {k \in 1..(p + q) : both[k].gameId = n} /\ Own(all, n) = {k \in 1..p : all[k].gameId = n}
    BY <1>1 DEF Own, p
  <2>2. n # count + 1
    OBVIOUS
  <2>3. \A k \in 1..p : k \in 1..(p + q)
    BY <1>2
  <2>4. \A k \in 1..(p + q) : both[k].gameId = n => k \in 1..p /\ all[k].gameId = n
    BY <1>6, <2>2
  <2>5. \A k \in 1..p : all[k].gameId = n => both[k].gameId = n
    BY <1>4
  <2> QED
    BY <2>1, <2>3, <2>4, <2>5
<1>9. Own(both, count + 1) = (p + 1)..(p + q)
  <2>1. Own(both, count + 1) = {k \in 1..(p + q) : both[k].gameId = count + 1}
    BY <1>1 DEF Own
  <2>2. \A k \in 1..(p + q) : both[k].gameId = count + 1 => k \in (p + 1)..(p + q)
    BY <1>6
  <2>3. ASSUME NEW k \in (p + 1)..(p + q)
        PROVE  k \in 1..(p + q) /\ both[k].gameId = count + 1
    <3>1. k \in 1..(p + q) /\ k \notin 1..p
      BY <1>2
    <3> QED
      BY <1>6, <3>1
  <2> QED
    BY <2>1, <2>2, <2>3
<1> QED
  BY <1>1, <1>4, <1>5, <1>7, <1>8, <1>9 DEF both, p, q

LEMMA NextSettled ==
  ASSUME NEW f \in Seq(Lines), NEW g \in GameStarts(f), NEW count, NEW all, NEW filter,
         Settled(f, g, count, all, filter), IsUsableGame(f, g),
         EndOf(f, g) \in DOMAIN f => f[EndOf(f, g)].ok,
         NEW new \in Seq(Row), OwnRows(f, g, count + 1, new, filter)
  PROVE  Settled(f, EndOf(f, g), count + 1, all \o new, filter)
<1> DEFINE both == all \o new
           p == Len(all)
           q == Len(new)
<1>1. /\ count = Cardinality(Before(f, g)) /\ count \in Nat /\ all \in Seq(Row)
      /\ \A k \in 1..Len(all) : all[k].gameId \in 1..count
      /\ \A i \in Before(f, g) : GameRows(f, i, all, filter)
  BY BeforeFacts DEF Settled, Counted
<1>2. \A k \in 1..Len(new) : new[k].gameId = count + 1
  BY DEF OwnRows
<1>3. /\ \A k \in 1..p : both[k] = all[k]
      /\ \A k \in 1..q : both[p + k] = new[k]
      /\ both \in Seq(Row) /\ Len(both) = p + q
      /\ \A k \in 1..Len(both) : both[k].gameId \in 1..(count + 1)
      /\ \A n \in 0..count : Own(both, n) = Own(all, n)
      /\ Own(both, count + 1) = (p + 1)..(p + q)
  BY <1>1, <1>2, OldRowsStay
<1>4. p \in Nat /\ q \in Nat
  BY <1>1
<1>5. Before(f, EndOf(f, g)) = Before(f, g) \union {g} /\ count + 1 = Cardinality(Before(f, EndOf(f, g)))
  BY <1>1, BeforeEnd
<1>6. Number(f, g) = count + 1 /\ \A j \in Before(f, g) : Number(f, j) \in 0..count
  BY <1>1, NumberFacts
<1> HIDE DEF both
<1>7. ASSUME NEW i \in Before(f, g) PROVE GameRows(f, i, both, filter)
  <2>1. GameRows(f, i, all, filter) /\ Own(both, Number(f, i)) = Own(all, Number(f, i))
    BY <1>1, <1>3, <1>6
  <2>2. \A k \in Own(all, Number(f, i)) : both[k] = all[k]
    BY <1>3 DEF Own
  <2> QED
    BY <2>1, <2>2 DEF GameRows
<1>8. GameRows(f, g, both, filter)
  <2> DEFINE own == (p + 1)..(p + q)
  <2>1. Own(both, Number(f, g)) = own
    BY <1>3, <1>6
  <2>2. ASSUME NEW k \in own PROVE k - p \in 1..q /\ both[k] = new[k - p] /\ k \in Int
    <3>1. k - p \in 1..q /\ p + (k - p) = k
      <4> HIDE DEF p, q
      <4> QED
        BY <1>4
    <3> HIDE DEF p, q
    <3>2. both[p + (k - p)] = new[k - p]
      BY <1>3, <3>1
    <3> QED
      BY <1>4, <3>1, <3>2
  <2>3. /\ \A k \in 1..q :
             /\ new[k].winner = f[g].winner /\ new[k].total = BoardsIn(f, g)
             /\ new[k].left = BoardsIn(f, g) - 1 - Len(new[k].board.moves)
        /\ ~filter => q = BoardsIn(f, g)
        /\ \A k, m \in 1..q : k < m => new[m].left < new[k].left
    BY DEF OwnRows
  <2>4. Cardinality(own) = q
    <3> HIDE DEF p, q
    <3>1. Cardinality(own) = IF p + 1 > p + q THEN 0 ELSE (p + q) - (p + 1) + 1
      BY <1>4, FS_Interval
    <3> QED
      BY <1>4, <3>1
  <2>5. \A k, m \in own : k < m => both[m].left < both[k].left
    <3>1. SUFFICES ASSUME NEW k \in own, NEW m \in own, k < m PROVE both[m].left < both[k].left
      OBVIOUS
    <3>2. k - p \in 1..q /\ m - p \in 1..q /\ both[k] = new[k - p] /\ both[m] = new[m - p]
          /\ k \in Int /\ m \in Int
      BY <2>2
    <3>3. k - p < m - p
      <4> HIDE DEF p, q
      <4> QED
        BY <1>4, <3>1, <3>2
    <3> HIDE DEF own, p, q
    <3> QED
      BY <2>3, <3>2, <3>3
  <2>6. \A k \in own :
          /\ both[k].winner = f[g].winner /\ both[k].total = BoardsIn(f, g)
          /\ both[k].left = BoardsIn(f, g) - 1 - Len(both[k].board.moves)
    <3> HIDE DEF own, p, q
    <3> QED
      BY <2>2, <2>3
  <2> HIDE DEF own, p, q
  <2> QED
    BY <2>1, <2>3, <2>4, <2>5, <2>6 DEF GameRows
<1>9. Counted(f, EndOf(f, g), count + 1, both, filter)
  BY <1>3, <1>5, <1>7, <1>8 DEF Counted
<1>10. Settled(f, EndOf(f, g), count + 1, both, filter)
  BY <1>5, <1>9 DEF Settled
<1> QED
  BY <1>10 DEF both

(* A game, or its end, stops the reader: nothing more can be used.                *)
LEMMA Refused ==
  ASSUME NEW f \in Seq(Lines), NEW g \in GameStarts(f), NEW count, NEW all, NEW filter,
         Settled(f, g, count, all, filter),
         ~(IsUsableGame(f, g) /\ (EndOf(f, g) \in DOMAIN f => f[EndOf(f, g)].ok))
  PROVE  UsableGames(f) = Before(f, g) /\ ~IsUsable(f)
<1> DEFINE e == EndOf(f, g)
<1>1. g \in Nat /\ GameStarts(f) \subseteq 1..Len(f) /\ e \in Nat /\ g < e
  BY StartFacts, BeforeFacts, EndIs
<1>2. e \in DOMAIN f => e \in GameStarts(f)
  BY <1>1, EndIs
<1>3. e \in DOMAIN f /\ ~f[e].ok => ~IsUsableGame(f, e)
  BY <1>2, UsableIs
<1>4. ~IsUsable(f)
  BY <1>2, <1>3 DEF IsUsable
<1>5. Before(f, g) \subseteq UsableGames(f)
  <2>1. ASSUME NEW i \in Before(f, g) PROVE i \in UsableGames(f)
    <3>1. i \in GameStarts(f) /\ i < g /\ i \in Nat
      BY <1>1 DEF Before
    <3>2. \A j \in GameStarts(f) : j <= i => j \in Before(f, g)
      BY <1>1, <3>1 DEF Before
    <3> QED
      BY <2>1, <3>1, <3>2 DEF Settled, UsableGames
  <2> QED
    BY <2>1
<1>6. ASSUME NEW i \in UsableGames(f) PROVE i \in Before(f, g)
  <2>1. SUFFICES ASSUME ~(i < g) PROVE FALSE
    BY DEF Before, UsableGames
  <2>2. /\ i \in GameStarts(f) /\ \A j \in GameStarts(f) : j <= i => IsUsableGame(f, j)
        /\ EndOf(f, i) \in DOMAIN f => f[EndOf(f, i)].ok
    BY DEF UsableGames
  <2>3. i \in Nat /\ g <= i
    BY <1>1, <2>1, <2>2
  <2>4. IsUsableGame(f, g) /\ e \in DOMAIN f /\ ~f[e].ok
    BY <2>2, <2>3
  <2>5. i # g
    BY <2>2, <2>4
  <2>6. e <= i
    BY <1>1, <2>2, <2>3, <2>5, EndIs
  <2>7. IsUsableGame(f, e)
    BY <1>2, <2>2, <2>4, <2>6
  <2> QED
    BY <1>3, <2>4, <2>7
<1> QED
  BY <1>4, <1>5, <1>6

(* The end of the file: all can be used.                                          *)
LEMMA AllUsed ==
  ASSUME NEW f \in Seq(Lines), NEW count, NEW all, NEW filter,
         Settled(f, Len(f) + 1, count, all, filter)
  PROVE  UsableGames(f) = Before(f, Len(f) + 1) /\ IsUsable(f)
<1>1. GameStarts(f) \subseteq 1..Len(f) /\ Len(f) \in Nat
  BY BeforeFacts
<1>2. Before(f, Len(f) + 1) = GameStarts(f)
  BY <1>1 DEF Before
<1> QED
  BY <1>2 DEF Settled, UsableGames, IsUsable

(* Before the first game. *)
LEMMA NoGamesBefore ==
  ASSUME NEW f \in Seq(Lines), NEW x \in 1..(Len(f) + 1), \A l \in 1..(x - 1) : f[l].kind = "skip",
         NEW filter
  PROVE  /\ Before(f, x) = {} /\ Counted(f, x, 0, <<>>, filter)
         /\ x \in GameStarts(f) \/ x = Len(f) + 1 => Settled(f, x, 0, <<>>, filter)
         /\ x <= Len(f) /\ f[x].kind \notin {"skip", "game"} =>
              UsableGames(f) = {} /\ ~IsUsable(f)
<1>1. GameStarts(f) \subseteq 1..Len(f) /\ Len(f) \in Nat /\ x \in Nat
  BY BeforeFacts
<1>2. \A j \in GameStarts(f) : ~(j < x)
  <2>1. ASSUME NEW j \in GameStarts(f), j < x PROVE FALSE
    <3>1. j \in 1..(x - 1) /\ f[j].kind = "game"
      BY <1>1, <2>1 DEF GameStarts
    <3> QED
      BY <3>1
  <2> QED
    BY <2>1
<1>3. Before(f, x) = {}
  BY <1>2 DEF Before
<1>4. Counted(f, x, 0, <<>>, filter)
  <2>1. Cardinality({}) = 0
    BY FS_EmptySet
  <2>2. <<>> \in Seq(Row) /\ Len(<<>>) = 0 /\ 1..0 = {}
    OBVIOUS
  <2> QED
    BY <1>3, <2>1, <2>2 DEF Counted
<1>5. x \in GameStarts(f) \/ x = Len(f) + 1 => StartsWithGame(f)
  <2>1. SUFFICES ASSUME x \in GameStarts(f) \/ x = Len(f) + 1,
                        NEW i \in DOMAIN f, f[i].kind # "skip"
                 PROVE  \E j \in GameStarts(f) : j <= i
    BY DEF StartsWithGame
  <2>2. i \in 1..Len(f) /\ ~(i \in 1..(x - 1))
    BY <2>1
  <2>3. x <= i
    BY <1>1, <2>2
  <2> QED
    BY <1>1, <2>1, <2>2, <2>3
<1>6. x <= Len(f) /\ f[x].kind \notin {"skip", "game"} => ~StartsWithGame(f)
  <2>1. SUFFICES ASSUME x <= Len(f), f[x].kind \notin {"skip", "game"}, StartsWithGame(f) PROVE FALSE
    OBVIOUS
  <2>2. x \in DOMAIN f
    BY <1>1, <2>1
  <2>3. PICK j \in GameStarts(f) : j <= x
    BY <2>1, <2>2 DEF StartsWithGame
  <2>4. j = x
    BY <1>1, <1>2, <2>3
  <2> QED
    BY <2>1, <2>3, <2>4 DEF GameStarts
<1> QED
  BY <1>3, <1>4, <1>5, <1>6 DEF Settled, UsableGames, IsUsable

-----------------------------------------------------------------------------
(* The program *)

(* Before the first command. *)
Opening ==
  /\ reader.phase = "opening" /\ reader.lastBoard = NoBoard /\ reader \in ReaderType
  /\ reader.line <= Len(file) /\ games = 0 /\ rows \o pending = <<>>
  /\ \A l \in 1..reader.line : file[l].kind = "skip"

(* The last command begins a game, or nothing comes any more, or it must not stand *)
(* there.                                                                           *)
Waiting ==
  /\ reader.phase = "idle" /\ reader \in ReaderType /\ reader.command = reader.last
  /\ \/ /\ reader.line \in GameStarts(file) /\ file[reader.line].ok /\ reader.lastBoard = NoBoard
        /\ reader.last = [kind |-> "game", winner |-> file[reader.line].winner]
        /\ Settled(file, reader.line, games, rows \o pending, filterBoards)
     \/ /\ reader.last = EndOfStream
        /\ Settled(file, Len(file) + 1, games, rows \o pending, filterBoards)
     \/ /\ reader.last.kind \notin {"game", "endOfStream"}
        /\ UsableGames(file) = {} /\ ~IsUsable(file)
        /\ Counted(file, 0, games, rows \o pending, filterBoards)

Reading ==
  \E g \in GameStarts(file) :
    /\ InGame(reader, file, g)
    /\ Settled(file, g, games, rows \o pending, filterBoards)

Finished ==
  /\ result \in {"ok", "error"} /\ (result = "ok" <=> IsUsable(file))
  /\ pending = <<>>
  /\ \E x \in Nat : /\ UsableGames(file) = Before(file, x)
                    /\ Counted(file, x, games, rows, filterBoards)

(* The invariant of the reader. *)
ReaderInv ==
  /\ file \in Seq(Lines) /\ filterBoards \in BOOLEAN
  /\ rows \in Seq(Row) /\ pending \in Seq(Row)
  /\ pc[Main] \in {"start", "reading"} \/ result # "none"
  /\ \/ result = "none" /\ (Opening \/ Waiting \/ Reading)
     \/ Finished

LEMMA ReaderInvIsEnough == ReaderInv => ReaderFollowsFormat
<1>1. SUFFICES ASSUME ReaderInv, pc[Main] = "done" PROVE ReaderFollowsFormat
  BY DEF ReaderFollowsFormat
<1>2. file \in Seq(Lines) /\ rows \in Seq(Row) /\ Finished
  BY <1>1 DEF ReaderInv
<1>3. PICK x \in Nat : /\ UsableGames(file) = Before(file, x)
                       /\ Counted(file, x, games, rows, filterBoards)
  BY <1>2 DEF Finished
<1>4. (result = "ok") = IsUsable(file)
  <2>1. IsUsable(file) \in BOOLEAN
    BY DEF IsUsable
  <2> QED
    BY <1>2, <2>1 DEF Finished
<1>5. games = Cardinality(UsableGames(file)) /\ \A k \in DOMAIN rows : rows[k].gameId \in 1..games
  BY <1>2, <1>3 DEF Counted
<1>6. ASSUME NEW i \in UsableGames(file)
      PROVE  LET own == RowsOf(Cardinality({j \in UsableGames(file) : j <= i}))
                 total == BoardsIn(file, i)
             IN  /\ \A k \in own :
                       /\ rows[k].winner = file[i].winner
                       /\ rows[k].total = total
                       /\ rows[k].left = total - 1 - Len(rows[k].board.moves)
                 /\ ~filterBoards => Cardinality(own) = total
                 /\ \A k, m \in own : k < m => rows[m].left < rows[k].left
  <2>1. i \in Before(file, x)
    BY <1>3
  <2>2. i < x /\ i \in Nat /\ \A j \in GameStarts(file) : j \in Nat
    <3>1. GameStarts(file) \subseteq 1..Len(file) /\ Len(file) \in Nat
      BY <1>2, BeforeFacts
    <3>2. i \in GameStarts(file) /\ i < x
      BY <2>1 DEF Before
    <3>3. \A j \in 1..Len(file) : j \in Nat
      BY <3>1
    <3> QED
      BY <3>1, <3>2, <3>3
  <2>5. {j \in UsableGames(file) : j <= i} = {j \in GameStarts(file) : j <= i}
    <3>1. ASSUME NEW j \in GameStarts(file), j <= i PROVE j \in UsableGames(file)
      <4>1. j < x
        BY <2>2, <3>1
      <4> QED
        BY <1>3, <3>1, <4>1 DEF Before
    <3>2. UsableGames(file) \subseteq GameStarts(file)
      BY DEF UsableGames
    <3> QED
      BY <3>1, <3>2
  <2>3. RowsOf(Cardinality({j \in UsableGames(file) : j <= i})) = Own(rows, Number(file, i))
    <3>1. DOMAIN rows = 1..Len(rows)
      BY <1>2
    <3>2. RowsOf(Number(file, i)) = Own(rows, Number(file, i))
      BY <3>1 DEF RowsOf, Own
    <3> QED
      BY <2>5, <3>2 DEF Number
  <2>4. GameRows(file, i, rows, filterBoards)
    BY <1>3, <2>1 DEF Counted
  <2> DEFINE own == RowsOf(Cardinality({j \in UsableGames(file) : j <= i}))
  <2>6. own = Own(rows, Number(file, i))
    BY <2>3
  <2> HIDE DEF own
  <2>7. /\ \A k \in own : /\ rows[k].winner = file[i].winner
                          /\ rows[k].total = BoardsIn(file, i)
                          /\ rows[k].left = BoardsIn(file, i) - 1 - Len(rows[k].board.moves)
        /\ ~filterBoards => Cardinality(own) = BoardsIn(file, i)
        /\ \A k, m \in own : k < m => rows[m].left < rows[k].left
    BY <2>4, <2>6 DEF GameRows
  <2> QED
    BY <2>7 DEF own
<1> QED
  BY <1>4, <1>5, <1>6 DEF ReaderFollowsFormat

LEMMA ReaderInit == ProgramInit => ReaderInv
<1>1. SUFFICES ASSUME ProgramInit PROVE ReaderInv
  OBVIOUS
<1>2. file \in Seq(Lines) /\ filterBoards \in BOOLEAN /\ rows = <<>> /\ pending = <<>> /\ games = 0
      /\ result = "none" /\ reader = NewReader
  BY <1>1, FilesAssumption DEF ProgramInit
<1>3. pc[Main] = "start"
  BY <1>1, ThreadsAssumption DEF ProgramInit, Init
<1>4. NewReader \in ReaderType /\ NewReader.phase = "opening" /\ NewReader.line = 0
      /\ NewReader.lastBoard = NoBoard
  <2> DEFINE captured == <<>>
             commands == <<>>
             game == [winner |-> "unknown", commands |-> commands]
  <2>1. captured \in Seq(GameBoard) /\ commands \in Seq(Command)
    OBVIOUS
  <2>2. EndOfStream \in Command /\ NoCommand \in Command
    BY DEF EndOfStream, NoCommand, Command
  <2>3. NewReader = [phase |-> "opening", line |-> 0, last |-> EndOfStream, lastBoard |-> NoBoard,
                     captured |-> captured, command |-> NoCommand, game |-> game]
    BY DEF NewReader
  <2> HIDE DEF captured, commands
  <2>4. game \in [winner : Winners, commands : Seq(Command)]
    BY <2>1 DEF Winners
  <2> HIDE DEF game
  <2> QED
    BY <2>1, <2>2, <2>3, <2>4 DEF ReaderType
<1>5. Opening
  <2>1. <<>> \o <<>> = <<>> /\ 0 <= Len(file) /\ \A l \in 1..0 : FALSE
    BY <1>2
  <2> QED
    BY <1>2, <1>4, <2>1 DEF Opening
<1>6. <<>> \in Seq(Row)
  OBVIOUS
<1> QED
  BY <1>2, <1>3, <1>5, <1>6 DEF ReaderInv

(* Before any game, nothing is counted. *)
LEMMA NothingIsCounted ==
  ASSUME NEW f \in Seq(Lines), NEW filter
  PROVE  Before(f, 0) = {} /\ Counted(f, 0, 0, <<>>, filter)
<1>1. Before(f, 0) = {}
  <2>1. GameStarts(f) \subseteq 1..Len(f)
    BY BeforeFacts
  <2>2. \A j \in GameStarts(f) : ~(j < 0)
    BY <2>1
  <2> QED
    BY <2>2 DEF Before
<1>2. Cardinality({}) = 0
  BY FS_EmptySet
<1>3. Len(<<>>) = 0 /\ <<>> \in Seq(Row)
  OBVIOUS
<1>4. \A k \in 1..0 : FALSE
  OBVIOUS
<1> QED
  BY <1>1, <1>2, <1>3, <1>4 DEF Counted

LEMMA ReadsFacts ==
  ASSUME ReaderInv, NEW phase, Reads(phase)
  PROVE  /\ pc[Main] = "reading" /\ pc' = pc /\ pending = <<>> /\ result = "none"
         /\ reader.phase = phase
         /\ file' = file /\ filterBoards' = filterBoards /\ rows' = rows
         /\ file \in Seq(Lines) /\ rows \in Seq(Row) /\ <<>> \in Seq(Row) /\ rows \o <<>> = rows
         /\ Opening \/ Waiting \/ Reading
<1>1. /\ pc[Main] = "reading" /\ pending = <<>> /\ result = "none" /\ reader.phase = phase
      /\ file' = file /\ filterBoards' = filterBoards /\ rows' = rows /\ pc' = pc
  BY DEF Reads, At, datasetVars
<1>2. file \in Seq(Lines) /\ rows \in Seq(Row) /\ <<>> \in Seq(Row)
  BY DEF ReaderInv
<1>3. rows \o <<>> = rows
  BY <1>2, ConcatEmptySeq
<1>4. Opening \/ Waiting \/ Reading
  BY <1>1 DEF ReaderInv, Finished
<1> QED
  BY <1>1, <1>2, <1>3, <1>4

(* What remains to show of a step of the reader. *)
LEMMA ReaderGoesOn ==
  ASSUME ReaderInv, NEW phase, Reads(phase),
         pending' \in Seq(Row),
         \/ result' = "none" /\ (Opening' \/ Waiting' \/ Reading')
         \/ Finished'
  PROVE  ReaderInv'
<1>1. /\ file' \in Seq(Lines) /\ filterBoards' \in BOOLEAN /\ rows' \in Seq(Row)
      /\ pc'[Main] \in {"start", "reading"}
  BY ReadsFacts DEF ReaderInv
<1> QED
  BY <1>1 DEF ReaderInv

-----------------------------------------------------------------------------
(* The first command *)

LEMMA FirstCommandIs ==
  ASSUME NEW r \in ReaderType, NEW l, TryReadCommand(r, l) \in ReaderType
  PROVE  LET t == TryReadCommand(r, l)
             s == ReadFirst(r, l)
         IN  /\ t.command = NoCommand => s = t
             /\ t.command # NoCommand =>
                  /\ s \in ReaderType /\ s.phase = "idle" /\ s.last = t.command
                  /\ s.line = t.line /\ s.lastBoard = t.lastBoard /\ s.command = t.command
<1> DEFINE t == TryReadCommand(r, l)
           s == ReadFirst(r, l)
           last == t.command
<1>1. t.command = NoCommand => s = t
  BY DEF ReadFirst
<1>2. ASSUME t.command # NoCommand
      PROVE  /\ s \in ReaderType /\ s.phase = "idle" /\ s.last = t.command
             /\ s.line = t.line /\ s.lastBoard = t.lastBoard /\ s.command = t.command
  <2>1. s = [t EXCEPT !.last = last, !.phase = "idle"]
    BY <1>2 DEF ReadFirst
  <2>2. t \in ReaderType
    OBVIOUS
  <2> HIDE DEF t, s
  <2>3. last \in Command
    BY <2>2 DEF ReaderType
  <2>4. last = t.command
    OBVIOUS
  <2> HIDE DEF last
  <2> QED
    BY <2>1, <2>2, <2>3, <2>4 DEF ReaderType
<1> QED
  BY <1>1, <1>2

LEMMA OpeningFacts ==
  ASSUME ReaderInv, OpenFile
  PROVE  /\ Reads("opening") /\ Opening /\ games' = 0 /\ pending' = <<>> /\ result' = "none"
         /\ reader' = ReadFirst(reader, Line) /\ rows' \o pending' = <<>> /\ rows' \o <<>> = <<>>
<1>1. /\ Reads("opening") /\ games' = games /\ pending' = pending /\ result' = result
      /\ reader' = ReadFirst(reader, Line)
  BY DEF OpenFile
<1>2. /\ reader.phase = "opening" /\ pending = <<>> /\ result = "none" /\ rows' = rows
      /\ Opening \/ Waiting \/ Reading
  BY <1>1, ReadsFacts
<1>3. Opening
  BY <1>2 DEF Waiting, Reading, InGame
<1>4. games = 0 /\ rows \o pending = <<>>
  BY <1>3 DEF Opening
<1> QED
  BY <1>1, <1>2, <1>3, <1>4

LEMMA OpenFileInv ==
  ASSUME ReaderInv, OpenFile
  PROVE  ReaderInv'
<1>1. /\ Reads("opening") /\ Opening /\ games' = 0 /\ pending' = <<>> /\ result' = "none"
      /\ reader' = ReadFirst(reader, Line) /\ rows' \o pending' = <<>>
  BY OpeningFacts
<1>2. /\ reader.phase = "opening" /\ reader.lastBoard = NoBoard /\ reader \in ReaderType
      /\ reader.line <= Len(file) /\ \A l \in 1..reader.line : file[l].kind = "skip"
  BY <1>1 DEF Opening
<1>3. file' = file /\ filterBoards' = filterBoards /\ file \in Seq(Lines)
  BY <1>1, ReadsFacts
<1> DEFINE line == reader.line
           x == line + 1
<1>4. line \in Nat /\ Len(file) \in Nat
  BY <1>2, <1>3 DEF ReaderType
<1>5. line <= Len(file) /\ line = reader.line
  BY <1>2
<1> HIDE DEF line
<1>6. x \in 1..(Len(file) + 1) /\ x - 1 = line
  BY <1>4, <1>5
<1>7. \A l \in 1..(x - 1) : file[l].kind = "skip"
  BY <1>2, <1>5, <1>6
<1>8. /\ x \in GameStarts(file) \/ x = Len(file) + 1 => Settled(file, x, 0, <<>>, filterBoards)
      /\ x <= Len(file) /\ file[x].kind \notin {"skip", "game"} =>
           UsableGames(file) = {} /\ ~IsUsable(file)
      /\ Before(file, x) = {}
  BY <1>3, <1>6, <1>7, NoGamesBefore
<1>9. Before(file, 0) = {} /\ Counted(file, 0, 0, <<>>, filterBoards)
  BY <1>3, NothingIsCounted
<1>10. SUFFICES Opening' \/ Waiting'
  <2>1. <<>> \in Seq(Row)
    OBVIOUS
  <2> QED
    BY <1>1, <2>1, ReaderGoesOn
<1>11. CASE line = Len(file)
  <2>1. Line = NoLine
    BY <1>4, <1>5, <1>11 DEF Line, LineAfter
  <2> DEFINE t == TryReadCommand(reader, NoLine)
  <2>2. t = [reader EXCEPT !.command = EndOfStream]
    BY DEF TryReadCommand
  <2>3. EndOfStream \in Command /\ EndOfStream # NoCommand
    BY DEF EndOfStream, NoCommand, Command
  <2>4. t \in ReaderType /\ t.command = EndOfStream
    BY <1>2, <2>2, <2>3 DEF ReaderType
  <2>5. reader' \in ReaderType /\ reader'.phase = "idle" /\ reader'.last = EndOfStream
        /\ reader'.command = EndOfStream
    BY <1>1, <1>2, <2>1, <2>3, <2>4, FirstCommandIs
  <2>6. Settled(file, Len(file) + 1, 0, <<>>, filterBoards)
    BY <1>8, <1>11
  <2> QED
    BY <1>1, <1>3, <2>5, <2>6 DEF Waiting
<1>12. CASE line # Len(file)
  <2> DEFINE l == file[x]
             t == TryReadCommand(reader, l)
  <2>1. line < Len(file) /\ x <= Len(file) /\ x \in 1..Len(file) /\ x = reader.line + 1
    BY <1>4, <1>5, <1>6, <1>12
  <2>2. Line = l
    BY <1>5, <2>1 DEF Line, LineAfter
  <2>3. l \in Lines
    BY <1>3, <2>1
  <2>4. l.kind \in {"skip", "title", "start", "game", "board", "moves"}
        /\ (l.kind \in {"game", "board"} => l.ok \in BOOLEAN)
    BY <2>3, LineFacts
  <2>5. reader' = ReadFirst(reader, l)
    BY <1>1, <2>2
  <2>6. CASE l.kind = "skip"
    <3>1. /\ t \in ReaderType /\ t.phase = reader.phase /\ t.line = reader.line + 1
          /\ t.lastBoard = reader.lastBoard /\ t.command = NoCommand
      BY <1>2, <2>3, <2>6, LineRead DEF Stays
    <3>2. reader' = t
      BY <1>2, <2>5, <3>1, FirstCommandIs
    <3>3. \A k \in 1..x : file[k].kind = "skip"
      BY <1>4, <1>7, <2>6
    <3> HIDE DEF t, l
    <3> QED
      BY <1>1, <1>2, <1>3, <2>1, <3>1, <3>2, <3>3 DEF Opening
  <2>7. CASE l.kind = "game" /\ l.ok
    <3> DEFINE c == [kind |-> "game", winner |-> l.winner]
    <3>1. t \in ReaderType /\ t.line = reader.line + 1 /\ t.lastBoard = NoBoard /\ t.command = c
      <4> HIDE DEF l
      <4>1. Stays(t, reader) /\ t.line = reader.line + 1 /\ t.command = c /\ t.lastBoard = NoBoard
        BY <1>2, <2>3, <2>7, LineRead
      <4> QED
        BY <4>1 DEF Stays
    <3>2. c # NoCommand
      BY DEF NoCommand
    <3>3. reader' \in ReaderType /\ reader'.phase = "idle" /\ reader'.last = c /\ reader'.command = c
          /\ reader'.line = x /\ reader'.lastBoard = NoBoard
      BY <1>2, <2>1, <2>5, <3>1, <3>2, FirstCommandIs
    <3>4. x \in GameStarts(file)
      BY <1>3, <2>1, <2>7 DEF GameStarts
    <3>5. Settled(file, x, 0, <<>>, filterBoards)
      BY <1>8, <3>4
    <3>6. file[x].ok
      BY <2>7
    <3> HIDE DEF x
    <3>7. /\ reader'.line \in GameStarts(file') /\ file'[reader'.line].ok
          /\ reader'.last = [kind |-> "game", winner |-> file'[reader'.line].winner]
          /\ Settled(file', reader'.line, games', rows' \o pending', filterBoards')
      BY <1>1, <1>3, <3>3, <3>4, <3>5, <3>6
    <3> QED
      BY <3>3, <3>7 DEF Waiting
  <2>8. CASE l.kind # "skip" /\ ~(l.kind = "game" /\ l.ok)
    <3>1. t \in ReaderType /\ t.command.kind \in {"title", "board", "error"}
      <4>1. CASE l.kind = "game"
        BY <1>2, <2>3, <2>8, <4>1, LineRead DEF Stays
      <4>2. CASE l.kind = "title"
        <5>1. Stays(t, reader) /\ t.command = IF l.kind = "skip" THEN NoCommand
                                                                ELSE [kind |-> "title"]
          BY <1>2, <2>3, <4>2, LineRead
        <5> QED
          BY <4>2, <5>1 DEF Stays
      <4>3. CASE l.kind = "start" \/ (l.kind = "board" /\ l.ok)
        <5>1. Stays(t, reader) /\ t.command = [kind |-> "board"]
          BY <1>2, <2>3, <4>3, LineRead
        <5> QED
          BY <5>1 DEF Stays
      <4>4. CASE l.kind = "moves" \/ (l.kind = "board" /\ ~l.ok)
        BY <1>2, <2>3, <4>4, LineRead DEF Stays
      <4> QED
        BY <2>4, <2>8, <4>1, <4>2, <4>3, <4>4
    <3>2. t.command # NoCommand
      BY <3>1 DEF NoCommand
    <3>3. reader' \in ReaderType /\ reader'.phase = "idle" /\ reader'.last = t.command
          /\ reader'.command = t.command
      BY <1>2, <2>5, <3>1, <3>2, FirstCommandIs
    <3>4. UsableGames(file) = {} /\ ~IsUsable(file)
      <4>1. CASE l.kind = "game"
        <5>1. x \in GameStarts(file)
          BY <1>3, <2>1, <4>1 DEF GameStarts
        <5>2. Settled(file, x, 0, <<>>, filterBoards)
          BY <1>8, <5>1
        <5>3. ~IsUsableGame(file, x)
          BY <2>8, <4>1 DEF IsUsableGame
        <5> QED
          BY <1>3, <1>8, <5>1, <5>2, <5>3, Refused
      <4>2. CASE l.kind # "game"
        BY <1>8, <2>1, <2>8, <4>2
      <4> QED
        BY <4>1, <4>2
    <3>5. reader'.last.kind \notin {"game", "endOfStream"}
      BY <3>1, <3>3
    <3> HIDE DEF t
    <3> QED
      BY <1>1, <1>3, <1>9, <3>3, <3>4, <3>5 DEF Waiting
  <2> QED
    BY <2>6, <2>7, <2>8
<1> QED
  BY <1>11, <1>12

-----------------------------------------------------------------------------
(* nextGame() *)

LEMMA NextGameInv ==
  ASSUME ReaderInv, NextGame
  PROVE  ReaderInv'
<1>1. /\ Reads("idle") /\ games' = games /\ pending' = pending
      /\ reader' = BeginGame(reader)
      /\ result' = CASE reader'.phase = "reading" -> "none"
                     [] reader'.command.kind = "endOfStream" -> "ok"
                     [] reader'.command.kind = "error" -> "error"
  BY DEF NextGame
<1>2. /\ file' = file /\ filterBoards' = filterBoards /\ rows' = rows
      /\ file \in Seq(Lines) /\ rows \in Seq(Row) /\ pending = <<>> /\ <<>> \in Seq(Row)
      /\ rows \o <<>> = rows /\ reader.phase = "idle" /\ (Opening \/ Waiting \/ Reading)
  BY <1>1, ReadsFacts
<1>3. Waiting
  BY <1>2 DEF Opening, Reading, InGame
<1>4. reader \in ReaderType /\ reader.command = reader.last
  BY <1>3 DEF Waiting
<1>5. SUFFICES (result' = "none" /\ Reading') \/ Finished'
  BY <1>1, <1>2, ReaderGoesOn
<1>6. CASE /\ reader.line \in GameStarts(file) /\ file[reader.line].ok /\ reader.lastBoard = NoBoard
           /\ reader.last = [kind |-> "game", winner |-> file[reader.line].winner]
           /\ Settled(file, reader.line, games, rows \o pending, filterBoards)
  <2>1. InGame(reader', file, reader.line)
    BY <1>1, <1>2, <1>4, <1>6, GameBegins
  <2>2. reader'.phase = "reading"
    BY <2>1 DEF InGame
  <2>5. reader' = [reader EXCEPT !.phase = "reading", !.captured = <<>>,
                                 !.game = [winner |-> reader.last.winner, commands |-> <<>>]]
    BY <1>1, <1>6 DEF BeginGame, IsErr
  <2>6. reader'.command = reader.last
    BY <1>4, <2>5 DEF ReaderType
  <2>3. result' = "none"
    BY <1>1, <1>6, <2>2, <2>6
  <2>4. Reading'
    BY <1>1, <1>2, <1>6, <2>1 DEF Reading
  <2> QED
    BY <2>3, <2>4
<1>7. CASE /\ reader.last = EndOfStream
           /\ Settled(file, Len(file) + 1, games, rows \o pending, filterBoards)
  <2>1. reader' = [reader EXCEPT !.command = EndOfStream]
    <3>1. IsErr(reader.last) /\ reader.last.kind # "game"
      BY <1>7 DEF IsErr, EndOfStream
    <3> QED
      BY <1>1, <1>7, <3>1 DEF BeginGame
  <2>2. reader'.phase = "idle" /\ reader'.command.kind = "endOfStream"
    BY <1>2, <1>4, <2>1 DEF ReaderType, EndOfStream
  <2>3. result' = "ok"
    BY <1>1, <2>2
  <2>4. UsableGames(file) = Before(file, Len(file) + 1) /\ IsUsable(file)
    BY <1>2, <1>7, AllUsed
  <2>5. Counted(file, Len(file) + 1, games, rows, filterBoards)
    BY <1>2, <1>7 DEF Settled
  <2>6. Len(file) + 1 \in Nat
    BY <1>2
  <2> QED
    BY <1>1, <1>2, <2>3, <2>4, <2>5, <2>6 DEF Finished
<1>8. CASE /\ reader.last.kind \notin {"game", "endOfStream"}
           /\ UsableGames(file) = {} /\ ~IsUsable(file)
           /\ Counted(file, 0, games, rows \o pending, filterBoards)
  <2>1. reader'.phase = "idle" /\ reader'.command.kind = "error"
    <3> DEFINE last == reader.last
               failure == Error(reader.line)
    <3>1. CASE last.kind = "error"
      <4>1. reader' = [reader EXCEPT !.command = last]
        BY <1>1, <3>1 DEF BeginGame, IsErr
      <4> HIDE DEF last
      <4> QED
        BY <1>2, <1>4, <3>1, <4>1 DEF ReaderType
    <3>2. CASE last.kind # "error"
      <4>1. reader' = [reader EXCEPT !.command = failure]
        BY <1>1, <1>8, <3>2 DEF BeginGame, IsErr
      <4>2. failure.kind = "error"
        BY DEF Error
      <4> HIDE DEF failure
      <4> QED
        BY <1>2, <1>4, <4>1, <4>2 DEF ReaderType
    <3> QED
      BY <3>1, <3>2
  <2>2. result' = "error"
    BY <1>1, <2>1
  <2>3. UsableGames(file) = Before(file, 0)
    BY <1>2, <1>8, NothingIsCounted
  <2> QED
    BY <1>1, <1>2, <1>8, <2>2, <2>3 DEF Finished
<1> QED
  BY <1>3, <1>6, <1>7, <1>8 DEF Waiting

-----------------------------------------------------------------------------
(* A line of a game *)

LEMMA ReadingFacts ==
  ASSUME ReaderInv, ReadCommand
  PROVE  /\ Reads("reading") /\ Reading
         /\ reader' = ReadInner(reader, Line)
         /\ file' = file /\ filterBoards' = filterBoards /\ rows' = rows /\ pending = <<>>
         /\ file \in Seq(Lines) /\ rows \in Seq(Row) /\ <<>> \in Seq(Row)
         /\ rows \o <<>> = rows /\ result = "none"
<1>1. Reads("reading") /\ reader' = ReadInner(reader, Line)
  BY DEF ReadCommand
<1>2. /\ file' = file /\ filterBoards' = filterBoards /\ rows' = rows /\ pending = <<>>
      /\ file \in Seq(Lines) /\ rows \in Seq(Row) /\ <<>> \in Seq(Row)
      /\ rows \o <<>> = rows /\ result = "none" /\ reader.phase = "reading"
      /\ Opening \/ Waiting \/ Reading
  BY <1>1, ReadsFacts
<1>3. Reading
  BY <1>2 DEF Opening, Waiting
<1> QED
  BY <1>1, <1>2, <1>3

(* The game goes on, or the line fails. *)
LEMMA InnerLineInv ==
  ASSUME ReaderInv, ReadCommand, NEW g \in GameStarts(file), InGame(reader, file, g),
         Settled(file, g, games, rows \o pending, filterBoards), reader.line < EndOf(file, g) - 1
  PROVE  ReaderInv'
<1>1. /\ Reads("reading") /\ reader' = ReadInner(reader, Line)
      /\ file' = file /\ filterBoards' = filterBoards /\ rows' = rows /\ pending = <<>>
      /\ file \in Seq(Lines) /\ rows \in Seq(Row) /\ <<>> \in Seq(Row)
      /\ rows \o <<>> = rows /\ result = "none"
  BY ReadingFacts
<1> DEFINE line == reader.line
           end == EndOf(file, g)
<1>2. /\ line \in Nat /\ end \in (g + 1)..(Len(file) + 1) /\ line \in g..(end - 1)
      /\ g \in 1..Len(file) /\ Len(file) \in Nat /\ line < end - 1
  <2>1. line \in Nat /\ line \in g..(end - 1)
    BY DEF InGame, ReaderType
  <2>2. end \in (g + 1)..(Len(file) + 1) /\ g \in 1..Len(file) /\ Len(file) \in Nat
    BY <1>1, EndIs, StartFacts
  <2> QED
    BY <2>1, <2>2
<1>3. line = reader.line /\ end = EndOf(file, g)
  OBVIOUS
<1> HIDE DEF line, end
<1>4. line < Len(file) /\ line + 1 \in (g + 1)..(end - 1)
  BY <1>2
<1>5. Line = file[line + 1]
  BY <1>3, <1>4 DEF Line, LineAfter
<1>6. CASE FineLine(file, g, line + 1)
  <2>1. InGame(reader', file, g)
    BY <1>1, <1>3, <1>5, <1>6, LineIsTaken
  <2>2. reader'.phase = "reading"
    BY <2>1 DEF InGame
  <2>3. games' = games /\ pending' = pending /\ result' = result
    BY <2>2 DEF ReadCommand
  <2>4. Reading'
    BY <1>1, <2>1, <2>3 DEF Reading
  <2> QED
    BY <1>1, <2>3, <2>4, ReaderGoesOn
<1>7. CASE ~FineLine(file, g, line + 1)
  <2>1. reader'.phase = "idle" /\ reader'.command.kind = "error"
    BY <1>1, <1>3, <1>5, <1>7, LineFails
  <2>2. games' = games /\ pending' = pending /\ result' = "error"
    BY <2>1 DEF ReadCommand
  <2>3. ~IsUsableGame(file, g)
    BY <1>1, <1>3, <1>4, <1>7, UsableIs
  <2>4. UsableGames(file) = Before(file, g) /\ ~IsUsable(file)
    BY <1>1, <2>3, Refused
  <2>5. Counted(file, g, games, rows, filterBoards)
    BY <1>1 DEF Settled
  <2>6. g \in Nat
    BY <1>2
  <2>7. Finished'
    BY <1>1, <2>2, <2>4, <2>5, <2>6 DEF Finished
  <2> QED
    BY <1>1, <2>2, <2>7, ReaderGoesOn
<1> QED
  BY <1>6, <1>7

(* The game is over. *)
LEMMA LastLineInv ==
  ASSUME ReaderInv, ReadCommand, NEW g \in GameStarts(file), InGame(reader, file, g),
         Settled(file, g, games, rows \o pending, filterBoards), reader.line = EndOf(file, g) - 1
  PROVE  ReaderInv'
<1>1. /\ Reads("reading") /\ reader' = ReadInner(reader, Line)
      /\ file' = file /\ filterBoards' = filterBoards /\ rows' = rows /\ pending = <<>>
      /\ file \in Seq(Lines) /\ rows \in Seq(Row) /\ <<>> \in Seq(Row)
      /\ rows \o <<>> = rows /\ result = "none"
  BY ReadingFacts
<1> DEFINE e == EndOf(file, g)
<1>2. /\ reader' \in ReaderType /\ reader'.phase = "idle" /\ reader'.last = reader'.command
      /\ reader'.game = reader.game /\ reader'.captured = reader.captured
      /\ e = Len(file) + 1 => reader'.command = EndOfStream
      /\ e # Len(file) + 1 =>
           /\ e \in GameStarts(file)
           /\ ~file[e].ok => reader'.command.kind = "error"
           /\ file[e].ok => /\ reader'.line = e /\ reader'.lastBoard = NoBoard
                            /\ reader'.command = [kind |-> "game", winner |-> file[e].winner]
  BY <1>1, GameEnds DEF Line
<1>3. CanConsume(reader'.game) <=> IsUsableGame(file, g)
  BY <1>1, <1>2, ConsumedIsUsable
<1>4. Settled(file, g, games, rows, filterBoards)
  BY <1>1
<1>5. games \in Nat
  BY <1>1, <1>4, BeforeFacts DEF Settled, Counted
<1>6. GameStarts(file) \subseteq 1..Len(file) /\ DOMAIN file = 1..Len(file) /\ Len(file) \in Nat
  BY <1>1, BeforeFacts
<1>7. CASE /\ reader'.command.kind # "error" /\ CanConsume(reader'.game)
           /\ games' = games + 1 /\ result' = result
           /\ pending' = Rows(reader'.game, reader'.captured, games', filterBoards)
  <2> DEFINE new == Rows(reader.game, reader.captured, games + 1, filterBoards)
  <2>1. new \in Seq(Row) /\ OwnRows(file, g, games + 1, new, filterBoards)
    <3>1. games + 1 \in Nat
      BY <1>5
    <3> QED
      BY <1>1, <1>3, <1>7, <3>1, GameGivesRows
  <2>2. pending' = new
    BY <1>2, <1>7
  <2> HIDE DEF new
  <2>3. e # Len(file) + 1 => file[e].ok
    BY <1>2, <1>7
  <2>4. e \in DOMAIN file => file[e].ok
    BY <1>6, <2>3
  <2>5. Settled(file, e, games + 1, rows \o new, filterBoards)
    BY <1>1, <1>3, <1>4, <1>7, <2>1, <2>4, NextSettled
  <2> HIDE DEF e
  <2>6. Settled(file', e, games', rows' \o pending', filterBoards')
    BY <1>1, <1>7, <2>2, <2>5
  <2>7. Waiting'
    <3>1. CASE e = Len(file) + 1
      BY <1>1, <1>2, <2>6, <3>1 DEF Waiting
    <3>2. CASE e # Len(file) + 1
      <4>1. /\ reader'.line = e /\ reader'.lastBoard = NoBoard /\ e \in GameStarts(file')
            /\ file'[e].ok /\ reader'.last = [kind |-> "game", winner |-> file'[e].winner]
        BY <1>1, <1>2, <2>3, <3>2
      <4> QED
        BY <1>2, <2>6, <4>1 DEF Waiting
    <3> QED
      BY <3>1, <3>2
  <2> QED
    BY <1>1, <1>7, <2>1, <2>2, <2>7, ReaderGoesOn
<1>8. CASE /\ reader'.command.kind = "error" \/ ~CanConsume(reader'.game)
           /\ result' = "error" /\ games' = games /\ pending' = pending
  <2>1. ~(IsUsableGame(file, g) /\ (e \in DOMAIN file => file[e].ok))
    <3>1. CASE reader'.command.kind = "error"
      <4>1. e # Len(file) + 1
        BY <1>2, <3>1 DEF EndOfStream
      <4>2. e \in DOMAIN file /\ ~file[e].ok
        BY <1>2, <1>6, <3>1, <4>1
      <4> QED
        BY <4>2
    <3>2. CASE ~CanConsume(reader'.game)
      BY <1>3, <3>2
    <3> QED
      BY <1>8, <3>1, <3>2
  <2>2. UsableGames(file) = Before(file, g) /\ ~IsUsable(file)
    BY <1>1, <1>4, <2>1, Refused
  <2>3. Counted(file, g, games, rows, filterBoards) /\ g \in Nat
    BY <1>4, <1>6 DEF Settled
  <2>4. Finished'
    BY <1>1, <1>8, <2>2, <2>3 DEF Finished
  <2> QED
    BY <1>1, <1>8, <2>4, ReaderGoesOn
<1> QED
  BY <1>2, <1>7, <1>8 DEF ReadCommand

LEMMA ReadCommandInv ==
  ASSUME ReaderInv, ReadCommand
  PROVE  ReaderInv'
<1>1. PICK g \in GameStarts(file) :
        /\ InGame(reader, file, g)
        /\ Settled(file, g, games, rows \o pending, filterBoards)
  BY ReadingFacts DEF Reading
<1>2. file \in Seq(Lines)
  BY DEF ReaderInv
<1>3. reader.line < EndOf(file, g) - 1 \/ reader.line = EndOf(file, g) - 1
  <2> DEFINE line == reader.line
             end == EndOf(file, g)
  <2>1. line \in g..(end - 1) /\ line \in Nat
    BY <1>1 DEF InGame, ReaderType
  <2>2. end \in (g + 1)..(Len(file) + 1) /\ Len(file) \in Nat /\ g \in 1..Len(file)
    BY <1>2, EndIs, StartFacts
  <2> HIDE DEF line, end
  <2>3. line < end - 1 \/ line = end - 1
    BY <2>1, <2>2
  <2> QED
    BY <2>3 DEF line, end
<1> QED
  BY <1>1, <1>3, InnerLineInv, LastLineInv

-----------------------------------------------------------------------------
(* The rows go on to the threads *)

LEMMA PassRowInv ==
  ASSUME ReaderInv, PassRow
  PROVE  ReaderInv'
<1>1. /\ pending # <<>> /\ pending' = Tail(pending) /\ rows' = Append(rows, Head(pending))
      /\ file' = file /\ filterBoards' = filterBoards /\ reader' = reader /\ games' = games
      /\ result' = result
  BY DEF PassRow
<1>2. pc[Main] = "reading" /\ pc' = pc
  BY DEF PassRow, ReadBoard, At
<1>3. rows \in Seq(Row) /\ pending \in Seq(Row)
  BY DEF ReaderInv
<1>4. pending' \in Seq(Row) /\ rows' \in Seq(Row) /\ rows' \o pending' = rows \o pending
  BY <1>1, <1>3
<1>5. result = "none" /\ (Opening \/ Waiting \/ Reading)
  BY <1>1 DEF ReaderInv, Finished
<1>6. Opening => Opening'
  BY <1>1, <1>4 DEF Opening
<1>7. Waiting => Waiting'
  BY <1>1, <1>4 DEF Waiting
<1>8. Reading => Reading'
  BY <1>1, <1>4 DEF Reading
<1> QED
  BY <1>1, <1>2, <1>4, <1>5, <1>6, <1>7, <1>8 DEF ReaderInv

(* The threads leave the reader alone, and the main thread is there for it until *)
(* the result is known.                                                          *)
LEMMA AsideInv ==
  ASSUME ReaderInv, UNCHANGED readerVars, pc'[Main] \in {"start", "reading"} \/ result # "none"
  PROVE  ReaderInv'
<1>1. /\ file' = file /\ filterBoards' = filterBoards /\ reader' = reader /\ games' = games
      /\ pending' = pending /\ result' = result /\ rows' = rows
  BY DEF readerVars
<1>2. /\ Opening => Opening'
      /\ Waiting => Waiting'
      /\ Reading => Reading'
      /\ Finished => Finished'
  BY <1>1 DEF Opening, Waiting, Reading, Finished
<1> QED
  BY <1>1, <1>2 DEF ReaderInv

LEMMA MainIsThere ==
  ASSUME ReaderInv, DatasetTypeOK,
         Aside \/ ThreadsNext \/ FinishConsumers \/ UNCHANGED datasetVars
  PROVE  pc'[Main] \in {"start", "reading"} \/ result # "none"
<1>1. /\ Main \in Threads /\ Main # Printer /\ Main \notin Workers
  BY ThreadsAssumption
<1>2. DOMAIN pc = Threads
  BY DEF DatasetTypeOK
<1>3. pc[Main] \in {"start", "reading"} \/ result # "none"
  BY DEF ReaderInv
<1>4. CASE PutHeader
  BY <1>1, <1>2, <1>4 DEF PutHeader, Goto
<1>5. CASE FeedSample \/ DrainLastBatch \/ CloseBoards \/ JoinWorkers \/ JoinPrinter
  <2>1. pc[Main] \in {"feeding", "closing", "joining", "leaving"}
    BY <1>5 DEF FeedSample, DrainLastBatch, CloseBoards, JoinWorkers, JoinPrinter, At
  <2> QED
    BY <1>3, <2>1
<1>6. CASE PrinterNext
  BY <1>1, <1>2, <1>3, <1>6 DEF PrinterNext, PopString, WriteString, Goto
<1>7. CASE \E w \in Workers : WorkerNext(w)
  BY <1>1, <1>2, <1>3, <1>7 DEF WorkerNext, PopBatch, Extract, Goto
<1>8. CASE (\E t \in Threads : InQueue(t)) \/ Wakeup \/ Done \/ UNCHANGED datasetVars
  BY <1>3, <1>8 DEF InQueue, Wakeup, Done, datasetVars
<1>9. CASE FinishConsumers
  BY <1>9 DEF FinishConsumers
<1> QED
  BY <1>4, <1>5, <1>6, <1>7, <1>8, <1>9 DEF Aside, ThreadsNext

LEMMA ReaderNextInv == DatasetTypeOK /\ ReaderInv /\ [ProgramNext]_programVars => ReaderInv'
<1>1. SUFFICES ASSUME DatasetTypeOK, ReaderInv, [ProgramNext]_programVars PROVE ReaderInv'
  OBVIOUS
<1>2. CASE OpenFile
  BY <1>1, <1>2, OpenFileInv
<1>3. CASE NextGame
  BY <1>1, <1>3, NextGameInv
<1>4. CASE ReadCommand
  BY <1>1, <1>4, ReadCommandInv
<1>5. CASE PassRow
  BY <1>1, <1>5, PassRowInv
<1>6. CASE (Aside \/ ThreadsNext \/ FinishConsumers \/ UNCHANGED datasetVars) /\ UNCHANGED readerVars
  BY <1>1, <1>6, MainIsThere, AsideInv
<1> QED
  BY <1>1, <1>2, <1>3, <1>4, <1>5, <1>6 DEF ProgramNext, ProgramMain, FinishConsumers, programVars

(* Whatever the file, run() ends with what docs/gameset.md says of it: it fails *)
(* exactly if the file is broken or not canonical, and the rows it has passed   *)
(* on are those of the games before the failure.                                *)
THEOREM ReaderReadsTheFormat == ProgramSpec => []ReaderFollowsFormat
<1>1. ProgramSpec => []DatasetTypeOK
  BY ProgramImplementsThreads, DatasetTypeCorrect, PTL
<1>2. ReaderInv /\ DatasetTypeOK /\ [ProgramNext]_programVars => ReaderInv'
  BY ReaderNextInv
<1> QED
  BY <1>1, <1>2, ReaderInit, ReaderInvIsEnough, PTL DEF ProgramSpec
=============================================================================
