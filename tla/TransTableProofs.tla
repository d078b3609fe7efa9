-------------------------- MODULE TransTableProofs --------------------------
(***************************************************************************)
(* The table tells the truth for any number of jobs, keys, sizes and       *)
(* stores.  The invariant speaks about key words only: a key word that was *)
(* made of some data was made by a store of that data under that key.      *)
(* Value words need none, because load() believes a pair only if the key   *)
(* word was made of the value it read; so neither the order of the reads   *)
(* and writes nor what resize() copies where can do harm.                  *)
(***************************************************************************)
EXTENDS TransTable, Parallel, OrderFacts, TLAPS

Genuine(w) == w.data # NoData => [key |-> w.key, data |-> w.data] \in stored

TableInv == \A i \in Slots : Genuine(words[i])

OpInv ==
  \A j \in Jobs : op[j] # NoOp =>
    /\ Genuine(op[j].word)
    /\ op[j].kind = "store" => [key |-> op[j].key, data |-> op[j].data] \in stored

IInv == TypeOK /\ TableInv /\ OpInv

-----------------------------------------------------------------------------
(* load() never answers with data of another key. *)
LEMMA GenuineLoad == IInv => LoadIsTruthful
<1> SUFFICES ASSUME IInv, NEW j \in Jobs,
                    op[j] # NoOp, op[j].kind = "load", Loaded(op[j]) # NoData
             PROVE  [key |-> op[j].key, data |-> Loaded(op[j])] \in stored
  BY DEF LoadIsTruthful
<1>1. op[j].word = [key |-> op[j].key, data |-> op[j].data] /\ Loaded(op[j]) = op[j].data
  BY DEF Loaded, Decode
<1>2. op[j].word.key = op[j].key /\ op[j].word.data = op[j].data
  BY <1>1
<1>3. Genuine(op[j].word)
  BY DEF IInv, OpInv
<1> QED
  BY <1>1, <1>2, <1>3 DEF Genuine

(* A key is looked for within the table. *)
LEMMA IndexType ==
  ASSUME NEW key \in Keys, NEW entries \in Sizes
  PROVE  Index(key, entries) \in 0..(entries - 1)
BY KeysAssumption, SizesAssumption DEF Index

(* The table of the constructor is sound. *)
LEMMA InitInv == Init => IInv
<1> SUFFICES ASSUME Init PROVE IInv
  OBVIOUS
<1>1. EmptyWord \in Word /\ EmptyWord.data = NoData
  BY KeysAssumption DEF EmptyWord, Word
<1>2. TypeOK
  BY <1>1, DataAssumption DEF Init, TypeOK
<1>3. TableInv /\ OpInv
  BY <1>1 DEF Init, TableInv, OpInv, Genuine
<1> QED
  BY <1>2, <1>3 DEF IInv

(* store() is announced in the history before it writes. *)
LEMMA StoreBeginInv ==
  ASSUME IInv, NEW j \in Jobs, NEW key \in Keys, NEW data \in NewData, StoreBegin(j, key, data)
  PROVE  IInv'
<1> DEFINE new == [data EXCEPT !.epoch = epoch]
           o == [kind |-> "store", key |-> key, data |-> new, word |-> EmptyWord,
                 todo |-> {"value", "key"}]
<1>1. new \in Data /\ new # NoData
  BY ZeroAssumption DEF IInv, TypeOK, NewData, Data
<1>2. /\ op' = [op EXCEPT ![j] = o] /\ stored' = stored \union {[key |-> key, data |-> new]}
      /\ UNCHANGED <<size, values, words, epoch, epochs>>
  BY DEF StoreBegin, table
<1> HIDE DEF new
<1>3. EmptyWord \in Word /\ EmptyWord.data = NoData
  BY KeysAssumption DEF EmptyWord, Word
<1>4. o \in Op /\ o.kind = "store" /\ o.key = key /\ o.data = new /\ o.word = EmptyWord
  BY <1>1, <1>3 DEF Op
<1> HIDE DEF o
<1>5. TypeOK'
  BY <1>1, <1>2, <1>4 DEF IInv, TypeOK, Slots
<1>6. \A w : Genuine(w) => Genuine(w)'
  BY <1>2 DEF Genuine
<1>7. TableInv'
  BY <1>2, <1>6 DEF IInv, TableInv, Slots, Genuine
<1>8. OpInv'
  <2> SUFFICES ASSUME NEW i \in Jobs, op'[i] # NoOp
               PROVE  /\ Genuine(op[i].word)'
                      /\ op'[i].kind = "store" =>
                           [key |-> op'[i].key, data |-> op'[i].data] \in stored'
    BY DEF OpInv
  <2>1. CASE i = j
    BY <1>2, <1>3, <1>4, <2>1 DEF IInv, TypeOK, Genuine
  <2>2. CASE i # j
    BY <1>2, <2>2 DEF IInv, TypeOK, OpInv, Genuine
  <2> QED
    BY <2>1, <2>2
<1> QED
  BY <1>5, <1>7, <1>8 DEF IInv

(* The two writes: a value word needs nothing, a key word is genuine. *)
LEMMA StoreWriteInv ==
  ASSUME IInv, NEW j \in Jobs, StoreValue(j) \/ StoreKey(j)
  PROVE  IInv'
<1>1. /\ op[j] \in Op /\ op[j].kind = "store" /\ op[j].key \in Keys
      /\ op[j].data \in Data \union {NoData} /\ size \in Sizes
      /\ [key |-> op[j].key, data |-> op[j].data] \in stored
  BY DEF StoreValue, StoreKey, IInv, TypeOK, OpInv, Op
<1>2. Index(op[j].key, size) \in Slots
  BY <1>1, IndexType DEF Slots
<1>3. PICK w \in {"value", "key"} : op' = [op EXCEPT ![j].todo = @ \ {w}]
  BY DEF StoreValue, StoreKey
<1>4. op' \in [Jobs -> Op \union {NoOp}]
  <2>1. [op[j] EXCEPT !.todo = @ \ {w}] \in Op
    BY <1>1 DEF Op
  <2> QED
    BY <1>3, <2>1 DEF IInv, TypeOK
<1>5. UNCHANGED <<size, epoch, stored, epochs>>
  BY DEF StoreValue, StoreKey
<1>6. OpInv'
  <2> SUFFICES ASSUME NEW i \in Jobs, op'[i] # NoOp
               PROVE  /\ Genuine(op[i].word)'
                      /\ op'[i].kind = "store" =>
                           [key |-> op'[i].key, data |-> op'[i].data] \in stored'
    BY DEF OpInv
  <2>1. op[i] # NoOp
    BY <1>1, <1>3 DEF IInv, TypeOK, StoreValue, StoreKey
  <2>2. op'[i].word = op[i].word /\ op'[i].kind = op[i].kind /\ op'[i].key = op[i].key
        /\ op'[i].data = op[i].data
    BY <1>1, <1>3, <2>1 DEF IInv, TypeOK, Op
  <2> QED
    BY <1>5, <2>1, <2>2 DEF IInv, OpInv, Genuine
<1>7. CASE StoreValue(j)
  <2>1. values' \in [Slots -> Data \union {NoData}] /\ UNCHANGED words
    BY <1>1, <1>2, <1>7 DEF StoreValue, IInv, TypeOK
  <2>2. TypeOK'
    BY <1>4, <1>5, <2>1 DEF IInv, TypeOK, Slots
  <2>3. TableInv'
    BY <1>5, <2>1 DEF IInv, TableInv, Slots, Genuine
  <2> QED
    BY <1>6, <2>2, <2>3 DEF IInv
<1>8. CASE StoreKey(j)
  <2> DEFINE new == [key |-> op[j].key, data |-> op[j].data]
  <2>1. new \in Word /\ new.key = op[j].key /\ new.data = op[j].data
    BY <1>1 DEF Word
  <2>2. words' = [words EXCEPT ![Index(op[j].key, size)] = new] /\ UNCHANGED values
    BY <1>8 DEF StoreKey
  <2> HIDE DEF new
  <2>3. TypeOK'
    BY <1>2, <1>4, <1>5, <2>1, <2>2 DEF IInv, TypeOK, Slots
  <2>4. TableInv'
    <3> SUFFICES ASSUME NEW i \in Slots PROVE Genuine(words[i])'
      BY <1>5 DEF TableInv, Slots
    <3>1. words'[i] = IF i = Index(op[j].key, size) THEN new ELSE words[i]
      BY <2>2 DEF IInv, TypeOK
    <3> QED
      BY <1>1, <1>5, <2>1, <3>1 DEF IInv, TableInv, Genuine
  <2> QED
    BY <1>6, <2>3, <2>4 DEF IInv
<1> QED
  BY <1>7, <1>8

(* The operations of a searching thread, and the maintenance between searches. *)
LEMMA LoadInv ==
  ASSUME IInv, NEW j \in Jobs,
         (\E key \in Keys : LoadBegin(j, key)) \/ LoadValue(j) \/ LoadKey(j) \/ Return(j)
  PROVE  IInv'
<1>1. UNCHANGED <<size, values, words, epoch, stored, epochs>>
  BY DEF LoadBegin, LoadValue, LoadKey, Return, table
<1>2. TableInv'
  BY <1>1 DEF IInv, TableInv, Slots, Genuine
<1>3. SUFFICES ASSUME op' \in [Jobs -> Op \union {NoOp}] /\ OpInv' => IInv'
               PROVE  op' \in [Jobs -> Op \union {NoOp}] /\ OpInv'
  BY <1>1, <1>2 DEF IInv, TypeOK, Slots
<1>4. ASSUME NEW o \in Op \union {NoOp}, op' = [op EXCEPT ![j] = o],
             o # NoOp => o.kind = "load" /\ Genuine(o.word)
      PROVE  op' \in [Jobs -> Op \union {NoOp}] /\ OpInv'
  <2>1. op' \in [Jobs -> Op \union {NoOp}]
    BY <1>4 DEF IInv, TypeOK
  <2>2. \A i \in Jobs : op'[i] = IF i = j THEN o ELSE op[i]
    BY <1>4 DEF IInv, TypeOK
  <2>3. OpInv'
    BY <1>1, <1>4, <2>2 DEF IInv, OpInv, Genuine
  <2> QED
    BY <2>1, <2>3
<1>5. CASE \E key \in Keys : LoadBegin(j, key)
  <2>1. PICK key \in Keys : LoadBegin(j, key)
    BY <1>5
  <2> DEFINE o == [kind |-> "load", key |-> key, data |-> NoData, word |-> EmptyWord,
                   todo |-> {"value", "key"}]
  <2>2. EmptyWord \in Word /\ EmptyWord.data = NoData
    BY KeysAssumption DEF EmptyWord, Word
  <2>3. o \in Op /\ o.kind = "load" /\ o.word = EmptyWord
    BY <2>2 DEF Op
  <2>4. op' = [op EXCEPT ![j] = o]
    BY <2>1 DEF LoadBegin
  <2> HIDE DEF o
  <2> QED
    BY <1>4, <2>2, <2>3, <2>4 DEF Genuine
<1>6. CASE LoadValue(j)
  <2> DEFINE o == [op[j] EXCEPT !.data = values[Index(op[j].key, size)],
                                !.todo = @ \ {"value"}]
  <2>1. op[j] \in Op /\ op[j] # NoOp /\ op[j].kind = "load"
    BY <1>6 DEF LoadValue, IInv, TypeOK
  <2>2. values[Index(op[j].key, size)] \in Data \union {NoData}
    BY <2>1, IndexType DEF IInv, TypeOK, Op, Slots
  <2>3. o \in Op /\ o.kind = "load" /\ o.word = op[j].word
    BY <2>1, <2>2 DEF Op
  <2>4. op' = [op EXCEPT ![j] = o]
    BY <1>6, <2>1 DEF LoadValue, IInv, TypeOK
  <2>5. Genuine(o.word)
    BY <2>1, <2>3 DEF IInv, OpInv
  <2> HIDE DEF o
  <2> QED
    BY <1>4, <2>3, <2>4, <2>5
<1>7. CASE LoadKey(j)
  <2> DEFINE o == [op[j] EXCEPT !.word = words[Index(op[j].key, size)],
                                !.todo = @ \ {"key"}]
  <2>1. op[j] \in Op /\ op[j] # NoOp /\ op[j].kind = "load"
    BY <1>7 DEF LoadKey, IInv, TypeOK
  <2>2. Index(op[j].key, size) \in Slots
    BY <2>1, IndexType DEF IInv, TypeOK, Op, Slots
  <2>3. /\ words[Index(op[j].key, size)] \in Word
        /\ Genuine(words[Index(op[j].key, size)])
    BY <2>2 DEF IInv, TypeOK, TableInv
  <2>4. o \in Op /\ o.kind = "load" /\ o.word = words[Index(op[j].key, size)]
    BY <2>1, <2>3 DEF Op
  <2>5. op' = [op EXCEPT ![j] = o]
    BY <1>7, <2>1 DEF LoadKey, IInv, TypeOK
  <2> HIDE DEF o
  <2> QED
    BY <1>4, <2>3, <2>4, <2>5
<1>8. CASE Return(j)
  BY <1>4, <1>8 DEF Return
<1> QED
  BY <1>5, <1>6, <1>7, <1>8

-----------------------------------------------------------------------------
(* While no job is in the table, any table made of genuine key words will do. *)
LEMMA MaintenanceInv ==
  ASSUME IInv, Quiescent, UNCHANGED op,
         size' \in Sizes, epoch' \in 0..(EpochMod - 1), epochs' \in Nat,
         values' \in [Slots' -> Data \union {NoData}], words' \in [Slots' -> Word],
         stored' \subseteq [key : Keys, data : Data],
         \A i \in Slots' : Genuine(words[i])'
  PROVE  IInv'
<1>1. TypeOK'
  BY DEF IInv, TypeOK
<1>2. TableInv' /\ OpInv'
  BY DEF TableInv, OpInv, Quiescent
<1> QED
  BY <1>1, <1>2 DEF IInv

LEMMA ClearInv ==
  ASSUME IInv, NEW entries \in Sizes, Clear(entries)
  PROVE  IInv'
<1>1. EmptyWord \in Word /\ EmptyWord.data = NoData
  BY KeysAssumption DEF EmptyWord, Word
<1>2. Slots' = 0..(entries - 1) /\ size' = entries /\ Quiescent /\ stored' = {}
      /\ UNCHANGED <<epoch, op, epochs>>
  BY DEF Clear, Slots
<1>3. values' \in [Slots' -> Data \union {NoData}] /\ words' \in [Slots' -> Word]
  BY <1>1, <1>2 DEF Clear
<1>4. \A i \in Slots' : words'[i] = EmptyWord
  BY <1>2 DEF Clear
<1>5. \A i \in Slots' : Genuine(words[i])'
  BY <1>1, <1>4 DEF Genuine
<1> QED
  BY <1>2, <1>3, <1>5, MaintenanceInv DEF IInv, TypeOK

(* Whatever entry a word of the bigger table was copied from, it is genuine. *)
LEMMA GrowInv ==
  ASSUME IInv, NEW entries \in Sizes, Grow(entries)
  PROVE  IInv'
<1> DEFINE NewSlots == 0..(entries - 1)
<1>1. EmptyWord \in Word /\ EmptyWord.data = NoData
  BY KeysAssumption DEF EmptyWord, Word
<1>2. Slots' = NewSlots /\ size' = entries /\ Quiescent /\ UNCHANGED <<epoch, op, stored, epochs>>
  BY DEF Grow, Slots
<1>3. PICK from \in [NewSlots -> Slots \union {size}] :
        values' = [n \in NewSlots |-> IF from[n] = size THEN NoData ELSE values[from[n]]]
  BY DEF Grow
<1>4. PICK key \in [NewSlots -> Slots \union {size}] :
        words' = [n \in NewSlots |-> IF key[n] = size THEN EmptyWord ELSE words[key[n]]]
  BY DEF Grow
<1>5. values' \in [NewSlots -> Data \union {NoData}]
  BY <1>3 DEF IInv, TypeOK
<1>6. words' \in [NewSlots -> Word]
  BY <1>1, <1>4 DEF IInv, TypeOK
<1>7. ASSUME NEW n \in NewSlots PROVE Genuine(words[n])'
  <2>1. words'[n] = IF key[n] = size THEN EmptyWord ELSE words[key[n]]
    BY <1>4
  <2>2. key[n] \in Slots \/ key[n] = size
    OBVIOUS
  <2> QED
    BY <1>1, <1>2, <2>1, <2>2 DEF IInv, TableInv, Genuine
<1> QED
  BY <1>2, <1>5, <1>6, <1>7, MaintenanceInv DEF IInv, TypeOK

LEMMA ShrinkInv ==
  ASSUME IInv, NEW entries \in Sizes, Shrink(entries)
  PROVE  IInv'
<1> DEFINE NewSlots == 0..(entries - 1)
<1>1. Slots' = NewSlots /\ size' = entries /\ Quiescent /\ UNCHANGED <<epoch, op, stored, epochs>>
  BY DEF Shrink, Slots
<1>2. PICK from \in [NewSlots -> Slots] :
        /\ values' = [n \in NewSlots |-> values[from[n]]]
        /\ words' = [n \in NewSlots |-> words[from[n]]]
  BY DEF Shrink
<1>3. values' \in [NewSlots -> Data \union {NoData}] /\ words' \in [NewSlots -> Word]
  BY <1>2 DEF IInv, TypeOK
<1>4. ASSUME NEW n \in NewSlots PROVE Genuine(words[n])'
  <2>1. words'[n] = words[from[n]] /\ from[n] \in Slots
    BY <1>2
  <2> QED
    BY <1>1, <2>1 DEF IInv, TableInv, Genuine
<1> QED
  BY <1>1, <1>3, <1>4, MaintenanceInv DEF IInv, TypeOK

LEMMA EpochInv ==
  ASSUME IInv, NEW amount \in EpochSteps, NextEpoch(amount)
  PROVE  IInv'
<1>1. epoch' \in 0..(EpochMod - 1) /\ epochs' \in Nat
  BY DataAssumption DEF NextEpoch, IInv, TypeOK
<1>2. Quiescent /\ UNCHANGED <<size, values, words, op, stored>>
  BY DEF NextEpoch
<1> QED
  BY <1>1, <1>2, MaintenanceInv DEF IInv, TypeOK, TableInv, Slots, Genuine

(* The inductive invariant of the table. *)
THEOREM Invariance == Spec => []IInv
<1>1. Init => IInv
  BY InitInv
<1>2. IInv /\ [Next]_vars => IInv'
  <2> SUFFICES ASSUME IInv, [Next]_vars PROVE IInv'
    OBVIOUS
  <2>1. CASE UNCHANGED vars
    BY <2>1 DEF vars, table, IInv, TypeOK, TableInv, OpInv, Slots, Genuine
  <2>2. ASSUME NEW j \in Jobs, JobNext(j) PROVE IInv'
    BY <2>2, StoreBeginInv, StoreWriteInv, LoadInv DEF JobNext
  <2>3. CASE \E entries \in Sizes : Clear(entries) \/ Grow(entries) \/ Shrink(entries)
    BY <2>3, ClearInv, GrowInv, ShrinkInv
  <2>4. CASE \E amount \in EpochSteps : NextEpoch(amount)
    BY <2>4, EpochInv
  <2> QED
    BY <2>1, <2>2, <2>3, <2>4 DEF Next
<1> QED
  BY <1>1, <1>2, PTL DEF Spec

-----------------------------------------------------------------------------
(* The table is typed correctly. *)
THEOREM TypeCorrect == Spec => []TypeOK
<1>1. IInv => TypeOK
  BY DEF IInv
<1> QED
  BY <1>1, Invariance, PTL

(* Without a lock, load() returns only what was stored under its key. *)
THEOREM LoadsAreTruthful == Spec => []LoadIsTruthful
<1> QED
  BY GenuineLoad, Invariance, PTL

(* An entry no deeper than 35 that is 19 or more epochs old weighs no more   *)
(* than any fresh data, whatever the depth of that data: growing the epoch   *)
(* by 19, as resetEpoch() does, is enough to let a new game take the table.  *)
THEOREM OldEntriesAreReplaced == Spec => []OldEntriesYield
<1>1. TypeOK => OldEntriesYield
  <2> SUFFICES ASSUME TypeOK, NEW i \in Slots, values[i] # NoData,
                      (epoch - values[i].epoch) % EpochMod >= 19, values[i].depth <= 35,
                      NEW data \in NewData
               PROVE  ~Heavier(values[i], [data EXCEPT !.epoch = epoch])
    BY DEF OldEntriesYield
  <2> DEFINE new == [data EXCEPT !.epoch = epoch]
             age == (epoch - values[i].epoch) % EpochMod
  <2>1. values[i] \in Data /\ new \in Data /\ new # NoData /\ new.epoch = epoch
    BY ZeroAssumption DEF TypeOK, NewData, Data
  <2>2. values[i].depth \in Nat /\ new.depth \in Nat /\ age \in Nat
    BY <2>1, DataAssumption DEF TypeOK, Data
  <2>3. (epoch - new.epoch) % EpochMod = 0
    BY <2>1, DataAssumption DEF TypeOK
  <2> HIDE DEF age
  <2>4. Weight(values[i]) <= 0
    <3>1. Weight(values[i]) = values[i].depth - 2 * age + IF values[i].exact THEN 3 ELSE 0
      BY DEF Weight, age
    <3>2. age >= 19
      BY DEF age
    <3> QED
      BY <2>2, <3>1, <3>2
  <2> HIDE DEF new
  <2>5. Weight(new) >= 0
    BY <2>2, <2>3 DEF Weight
  <2>6. Weight(values[i]) \in Int /\ Weight(new) \in Int
    BY <2>2, <2>3 DEF Weight, age
  <2>7. ~(Weight(values[i]) > Weight(new))
    BY <2>4, <2>5, <2>6
  <2> QED
    BY <2>1, <2>7 DEF Heavier, new
<1> QED
  BY <1>1, TypeCorrect, PTL

-----------------------------------------------------------------------------
(* Products and divisions, for a solver that knows sums only. *)
LEMMA Products ==
  ASSUME NEW i \in Int, NEW j \in Int, NEW b \in Nat, i <= j
  PROVE  i * b \in Int /\ j * b \in Int /\ i * b <= j * b
OBVIOUS

LEMMA Factors ==
  ASSUME NEW a \in Int, NEW b \in Int, NEW c \in Int
  PROVE  /\ b * c \in Int /\ a * (b * c) = (a * b) * c
         /\ a * (b + c) = a * b + a * c
OBVIOUS

LEMMA Blocks ==
  ASSUME NEW d \in Nat, NEW n \in Nat \ {0}
  PROVE  /\ d \div n \in Nat /\ d % n \in 0..(n - 1)
         /\ n * (d \div n) + (d % n) = d
OBVIOUS


-----------------------------------------------------------------------------
(* What resizing keeps *)

(* Nothing is in the table that was not stored since the last clear(), and   *)
(* the only key words that belong to no data are those clear() has written.  *)
ContentInv ==
  \A i \in Slots :
    /\ values[i] # NoData => \E r \in stored : r.data = values[i]
    /\ words[i].data = NoData => words[i] = EmptyWord

(* store() never writes an empty value or key word. *)
LEMMA StoreWritesData ==
  ASSUME IInv, NEW j \in Jobs, op[j] # NoOp, op[j].kind = "store"
  PROVE  op[j].data # NoData /\ \E r \in stored : r.data = op[j].data
<1>1. [key |-> op[j].key, data |-> op[j].data] \in stored
  BY DEF IInv, OpInv
<1>2. stored \subseteq [key : Keys, data : Data]
  BY DEF IInv, TypeOK
<1> QED
  BY <1>1, <1>2, ZeroAssumption

(* A step of a job: the table has at most one word more, and it is of a store. *)
LEMMA JobContent ==
  ASSUME IInv, ContentInv, NEW j \in Jobs, JobNext(j)
  PROVE  ContentInv'
<1>1. CASE StoreValue(j)
  <2>1. /\ values' = [values EXCEPT ![Index(op[j].key, size)] = op[j].data]
        /\ UNCHANGED <<size, words, stored>> /\ op[j] # NoOp /\ op[j].kind = "store"
    BY <1>1 DEF StoreValue
  <2>2. \A i \in Slots : values'[i] = values[i] \/ values'[i] = op[j].data
    BY <2>1 DEF IInv, TypeOK
  <2> QED
    BY <2>1, <2>2, StoreWritesData DEF ContentInv, Slots, EmptyWord
<1>2. CASE StoreKey(j)
  <2>1. /\ words' = [words EXCEPT ![Index(op[j].key, size)] =
                       [key |-> op[j].key, data |-> op[j].data]]
        /\ UNCHANGED <<size, values, stored>> /\ op[j] # NoOp /\ op[j].kind = "store"
    BY <1>2 DEF StoreKey
  <2>2. \A i \in Slots : words'[i] = words[i] \/ words'[i].data = op[j].data
    BY <2>1 DEF IInv, TypeOK
  <2> QED
    BY <2>1, <2>2, StoreWritesData DEF ContentInv, Slots, EmptyWord
<1>3. ASSUME UNCHANGED <<size, values, words>>, stored \subseteq stored'
      PROVE  ContentInv'
  BY <1>3 DEF ContentInv, Slots, EmptyWord
<1>4. CASE \E key \in Keys, data \in NewData : StoreBegin(j, key, data)
  BY <1>3, <1>4 DEF StoreBegin, table
<1>5. CASE (\E key \in Keys : LoadBegin(j, key)) \/ LoadValue(j) \/ LoadKey(j) \/ Return(j)
  BY <1>3, <1>5 DEF LoadBegin, LoadValue, LoadKey, Return, table
<1> QED
  BY <1>1, <1>2, <1>4, <1>5 DEF JobNext

(* A table of words that were copied, or are empty, is as good as the old one. *)
LEMMA CopiedContent ==
  ASSUME ContentInv, UNCHANGED stored,
         \A n \in Slots' : \/ values'[n] = NoData
                           \/ \E i \in Slots : values'[n] = values[i],
         \A n \in Slots' : \/ words'[n] = EmptyWord
                           \/ \E i \in Slots : words'[n] = words[i]
  PROVE  ContentInv'
BY DEF ContentInv, EmptyWord

LEMMA MaintenanceContent ==
  ASSUME IInv, ContentInv, NEW entries \in Sizes,
         Clear(entries) \/ Grow(entries) \/ Shrink(entries)
  PROVE  ContentInv'
<1> DEFINE NewSlots == 0..(entries - 1)
<1>1. Slots' = NewSlots
  BY DEF Clear, Grow, Shrink, Slots
<1>2. CASE Clear(entries)
  BY <1>1, <1>2 DEF Clear, ContentInv, EmptyWord
<1>3. CASE Grow(entries)
  <2>1. PICK from \in [NewSlots -> Slots \union {size}] :
          values' = [n \in NewSlots |-> IF from[n] = size THEN NoData ELSE values[from[n]]]
    BY <1>3 DEF Grow
  <2>2. PICK key \in [NewSlots -> Slots \union {size}] :
          words' = [n \in NewSlots |-> IF key[n] = size THEN EmptyWord ELSE words[key[n]]]
    BY <1>3 DEF Grow
  <2>3. UNCHANGED stored
    BY <1>3 DEF Grow
  <2> HIDE DEF NewSlots
  <2>4. \A n \in NewSlots : values'[n] = NoData \/ \E i \in Slots : values'[n] = values[i]
    BY <2>1
  <2>5. \A n \in NewSlots : words'[n] = EmptyWord \/ \E i \in Slots : words'[n] = words[i]
    BY <2>2
  <2> QED
    BY <1>1, <2>3, <2>4, <2>5, CopiedContent
<1>4. CASE Shrink(entries)
  <2>1. PICK from \in [NewSlots -> Slots] :
          /\ values' = [n \in NewSlots |-> values[from[n]]]
          /\ words' = [n \in NewSlots |-> words[from[n]]]
    BY <1>4 DEF Shrink
  <2>2. UNCHANGED stored
    BY <1>4 DEF Shrink
  <2> HIDE DEF NewSlots
  <2>3. \A n \in NewSlots : \E i \in Slots : values'[n] = values[i] /\ words'[n] = words[i]
    BY <2>1
  <2> QED
    BY <1>1, <2>2, <2>3, CopiedContent
<1> QED
  BY <1>2, <1>3, <1>4

(* The inductive invariant of what is stored: any data in a slot was stored by someone. *)
THEOREM ContentInvariance == Spec => []ContentInv
<1>1. Init => ContentInv
  BY DEF Init, ContentInv
<1>2. IInv /\ ContentInv /\ [Next]_vars => ContentInv'
  <2> SUFFICES ASSUME IInv, ContentInv, [Next]_vars PROVE ContentInv'
    OBVIOUS
  <2>1. CASE UNCHANGED vars
    BY <2>1 DEF vars, table, ContentInv, Slots, EmptyWord
  <2>2. CASE \E amount \in EpochSteps : NextEpoch(amount)
    BY <2>2 DEF NextEpoch, ContentInv, Slots, EmptyWord
  <2> QED
    BY <2>1, <2>2, JobContent, MaintenanceContent DEF Next
<1> QED
  BY <1>1, <1>2, Invariance, PTL DEF Spec

(* A remainder is known from any multiple of its blocks. *)
LEMMA OneRemainder ==
  ASSUME NEW n \in Nat \ {0}, NEW p \in Int, NEW q \in Int,
         NEW r \in 0..(n - 1), NEW s \in 0..(n - 1), n * p + r = n * q + s
  PROVE  r = s
<1>1. ASSUME NEW a \in Int, NEW b \in Int, a < b PROVE n * a + n <= n * b
  <2>1. n * (b - a) >= n
    BY <1>1
  <2>2. n * (b - a) = n * b - n * a
    OBVIOUS
  <2> QED
    BY <2>1, <2>2
<1>2. n * p \in Int /\ n * q \in Int
  OBVIOUS
<1>3. ~(p < q)
  <2>1. SUFFICES ASSUME p < q PROVE FALSE
    OBVIOUS
  <2>2. n * p + n <= n * q
    BY <1>1, <2>1
  <2> QED
    BY <1>2, <2>2
<1>4. ~(q < p)
  <2>1. SUFFICES ASSUME q < p PROVE FALSE
    OBVIOUS
  <2>2. n * q + n <= n * p
    BY <1>1, <2>1
  <2> QED
    BY <1>2, <2>2
<1>5. p = q
  BY <1>3, <1>4
<1> QED
  BY <1>2, <1>5

(* The slot of a key in a small table follows from its slot in a bigger one. *)
LEMMA SlotsNest ==
  ASSUME NEW key \in Nat, NEW small \in Nat \ {0}, NEW big \in Nat \ {0}, big % small = 0
  PROVE  (key % big) % small = key % small
<1> DEFINE q == key \div big
           s == key % big
           r == big \div small
           u == s \div small
           t == s % small
           v == key \div small
           w == key % small
<1>1. q \in Nat /\ s \in 0..(big - 1) /\ big * q + s = key
  BY Blocks
<1>2. r \in Nat /\ small * r + 0 = big
  BY Blocks
<1>3. v \in Nat /\ w \in 0..(small - 1) /\ small * v + w = key
  BY Blocks
<1> HIDE DEF q, s, r, v, w
<1>4. u \in Nat /\ t \in 0..(small - 1) /\ small * u + t = s
  <2>1. s \in Nat
    BY <1>1
  <2> QED
    BY <2>1, Blocks
<1> HIDE DEF u, t
<1>5. r * q \in Int /\ small * (r * q) = big * q
  <2>1. r \in Int /\ q \in Int /\ small \in Int
    BY <1>1, <1>2
  <2>2. small * (r * q) = (small * r) * q /\ r * q \in Int
    BY <2>1, Factors
  <2> QED
    BY <1>2, <2>2
<1>6. small * (r * q + u) = small * (r * q) + small * u
  <2>1. r * q \in Int /\ u \in Int /\ small \in Int
    BY <1>4, <1>5
  <2> QED
    BY <2>1, Factors
<1> DEFINE x == r * q + u
<1>7. x \in Int /\ small * x \in Int /\ small * u \in Int /\ small * x = big * q + small * u
  <2>1. r * q + u \in Int /\ small \in Int
    BY <1>4, <1>5
  <2> QED
    BY <1>4, <1>5, <1>6, <2>1
<1> HIDE DEF x
<1>8. small * x + t = small * v + w
  BY <1>1, <1>3, <1>4, <1>7
<1>9. t = w
  <2>1. v \in Int /\ x \in Int
    BY <1>3, <1>7
  <2> QED
    BY <1>3, <1>4, <1>8, <2>1, OneRemainder
<1> QED
  BY <1>9 DEF s, t, w

(* In a sound table at most one entry goes to a slot of the bigger one, other *)
(* than slot 0: the old slot of a key is the new one modulo the old size.     *)
LEMMA OneWriter ==
  ASSUME IInv, ContentInv, \A i \in Slots : Intact(i) /\ Home(i),
         NEW entries \in Sizes, size <= entries,
         NEW i \in Slots, NEW k \in Slots,
         Index(words[i].key, entries) = Index(words[k].key, entries),
         Index(words[i].key, entries) # 0
  PROVE  i = k
<1>1. size \in Sizes /\ words[i] \in Word /\ words[k] \in Word
  BY DEF IInv, TypeOK
<1>2. /\ words[i].key \in Nat /\ words[k].key \in Nat
      /\ size \in Nat \ {0} /\ entries \in Nat \ {0} /\ entries % size = 0
  BY <1>1, KeysAssumption, SizesAssumption DEF Word
<1>3. EmptyWord.key = 0 /\ 0 % entries = 0
  BY <1>2 DEF EmptyWord
<1>4. words[i] # EmptyWord /\ words[k] # EmptyWord
  BY <1>3 DEF Index
<1>5. words[i].key % size = i /\ words[k].key % size = k
  BY <1>4 DEF Home, Index
<1>6. /\ (words[i].key % entries) % size = words[i].key % size
      /\ (words[k].key % entries) % size = words[k].key % size
  BY <1>2, SlotsNest
<1> QED
  BY <1>5, <1>6 DEF Index

(* Growing keeps each entry of a sound table, but for slot 0.  A torn entry   *)
(* may lead anywhere when it is copied, and what it leaves there may match a  *)
(* value of another key by chance, so soundness is asked of the table as it   *)
(* is; the entries need not have been sound before.                           *)
LEMMA GrowingKeeps ==
  ASSUME IInv, ContentInv, NEW entries \in Sizes, Grow(entries),
         \A i \in Slots : Intact(i) /\ Home(i),
         NEW i \in Slots, Index(words[i].key, size') # 0
  PROVE  LET slot == Index(words[i].key, size')
         IN  values'[slot] = values[i] /\ words'[slot] = words[i]
<1> DEFINE NewSlots == 0..(entries - 1)
           slot == Index(words[i].key, entries)
           Last(to, from) ==
             \A n \in NewSlots :
               LET writers == {k \in Slots : to[k] = n} IN
               from[n] \in IF writers = {} THEN {size} ELSE writers
<1>1. size' = entries /\ size < entries /\ size \in Sizes
  BY SizesAssumption DEF Grow, IInv, TypeOK
<1>2. PICK to \in [Slots -> NewSlots] :
        /\ \A k \in Slots : Target(k, to[k], entries)
        /\ \E from \in [NewSlots -> Slots \union {size}] :
             /\ Last(to, from)
             /\ values' = [n \in NewSlots |->
                             IF from[n] = size THEN NoData ELSE values[from[n]]]
        /\ \E key \in [NewSlots -> Slots \union {size}] :
             /\ Last(to, key)
             /\ words' = [n \in NewSlots |->
                            IF key[n] = size THEN EmptyWord ELSE words[key[n]]]
  BY DEF Grow
<1>3. \A k \in Slots : to[k] = Index(words[k].key, entries)
  BY <1>2 DEF Target, Intact
<1>4. slot \in NewSlots /\ slot # 0
  BY <1>1, <1>2, <1>3
<1>5. {k \in Slots : to[k] = slot} = {i}
  <2>1. size <= entries
    BY <1>1, SizesAssumption
  <2>2. \A k \in Slots : to[k] = slot => k = i
    BY <1>3, <1>4, <2>1, OneWriter
  <2> QED
    BY <1>3, <2>2
<1>6. i # size
  BY <1>1, SizesAssumption DEF Slots
<1> HIDE DEF slot, NewSlots
<1>7. ASSUME NEW from, Last(to, from) PROVE from[slot] = i
  BY <1>4, <1>5, <1>7
<1> HIDE DEF Last
<1>8. values'[slot] = values[i]
  <2>1. PICK from \in [NewSlots -> Slots \union {size}] :
          /\ Last(to, from)
          /\ values' = [n \in NewSlots |->
                          IF from[n] = size THEN NoData ELSE values[from[n]]]
    BY <1>2
  <2> QED
    BY <1>4, <1>6, <1>7, <2>1
<1>9. words'[slot] = words[i]
  <2>1. PICK key \in [NewSlots -> Slots \union {size}] :
          /\ Last(to, key)
          /\ words' = [n \in NewSlots |->
                         IF key[n] = size THEN EmptyWord ELSE words[key[n]]]
    BY <1>2
  <2> QED
    BY <1>4, <1>6, <1>7, <2>1
<1> QED
  BY <1>1, <1>8, <1>9 DEF slot

(* The size changes with these three only. *)
LEMMA SizeChanges ==
  ASSUME [Next]_vars, size' # size
  PROVE  \E entries \in Sizes :
           size' = entries /\ (Clear(entries) \/ Grow(entries) \/ Shrink(entries))
<1>1. ~UNCHANGED vars
  BY DEF vars, table
<1>2. ASSUME NEW j \in Jobs, JobNext(j) PROVE FALSE
  BY <1>2 DEF JobNext, StoreBegin, StoreValue, StoreKey, LoadBegin, LoadValue, LoadKey,
              Return, table
<1>3. ASSUME NEW amount \in EpochSteps, NextEpoch(amount) PROVE FALSE
  BY <1>3 DEF NextEpoch
<1>4. PICK entries \in Sizes : Clear(entries) \/ Grow(entries) \/ Shrink(entries)
  BY <1>1, <1>2, <1>3 DEF Next
<1> QED
  BY <1>4 DEF Clear, Grow, Shrink

(* A table in which nothing was stored is empty, so clearing it loses nothing. *)
LEMMA NothingToLose ==
  ASSUME IInv, ContentInv, stored = {}, NEW i \in Slots
  PROVE  values[i] = NoData /\ words[i] = EmptyWord
BY DEF IInv, TableInv, ContentInv, Genuine

(* "We try to retain some information that already exists": growing finds    *)
(* every entry of a sound table again, except in slot 0, whatever the order  *)
(* in which the threads copy.                                                *)
THEOREM GrowingKeepsEntries == Spec => GrowKeepsEntries
<1>1. IInv /\ ContentInv /\ [Next]_vars =>
        (size' > size /\ stored' = stored /\ (\A i \in Slots : Intact(i) /\ Home(i)) =>
           \A i \in Slots :
             LET slot == Index(words[i].key, size') IN
             slot # 0 => values'[slot] = values[i] /\ words'[slot] = words[i])
  <2> SUFFICES ASSUME IInv, ContentInv, [Next]_vars, size' > size, stored' = stored,
                      \A i \in Slots : Intact(i) /\ Home(i),
                      NEW i \in Slots, Index(words[i].key, size') # 0
               PROVE  LET slot == Index(words[i].key, size')
                      IN  values'[slot] = values[i] /\ words'[slot] = words[i]
    OBVIOUS
  <2>1. size \in Sizes /\ size \in Nat /\ size' # size
    BY SizesAssumption DEF IInv, TypeOK
  <2>2. PICK entries \in Sizes :
          size' = entries /\ (Clear(entries) \/ Grow(entries) \/ Shrink(entries))
    BY <2>1, SizeChanges
  <2>3. CASE Grow(entries)
    BY <2>3, GrowingKeeps
  <2>4. CASE Clear(entries)
    <3>1. stored = {} /\ words[i].key = 0
      BY <2>4, NothingToLose DEF Clear, EmptyWord
    <3>2. 0 % entries = 0
      BY SizesAssumption
    <3> QED
      BY <2>2, <3>1, <3>2 DEF Index
  <2>5. CASE Shrink(entries)
    BY <2>1, <2>2, <2>5, SizesAssumption DEF Shrink
  <2> QED
    BY <2>2, <2>3, <2>4, <2>5
<1>2. Spec => [][IInv /\ ContentInv /\ [Next]_vars]_vars
  BY Invariance, ContentInvariance, PTL DEF Spec
<1> QED
  BY <1>1, <1>2, PTL DEF GrowKeepsEntries

(* Shrinking keeps, of the entries that fall together, one that is not       *)
(* lighter than any other, at the epoch of the shrinking.                    *)
THEOREM ShrinkingKeepsHeaviest == Spec => ShrinkKeepsHeaviest
<1>1. IInv /\ ContentInv /\ [Next]_vars =>
        (size' < size /\ stored' = stored =>
           \A i \in Slots : ~Heavier(values[i], values'[i % size']))
  <2> SUFFICES ASSUME IInv, ContentInv, [Next]_vars, size' < size, stored' = stored,
                      NEW i \in Slots
               PROVE  ~Heavier(values[i], values'[i % size'])
    OBVIOUS
  <2>1. size \in Sizes /\ size \in Nat /\ size' # size
    BY SizesAssumption DEF IInv, TypeOK
  <2>2. PICK entries \in Sizes :
          size' = entries /\ (Clear(entries) \/ Grow(entries) \/ Shrink(entries))
    BY <2>1, SizeChanges
  <2>3. i % entries \in 0..(entries - 1)
    BY <2>1, SizesAssumption DEF Slots
  <2>4. CASE Shrink(entries)
    <3>1. PICK from \in [0..(entries - 1) -> Slots] :
            /\ \A n \in 0..(entries - 1) :
                 from[n] \in Fiber(n, entries) /\ Heir(from[n], n, entries)
            /\ values' = [n \in 0..(entries - 1) |-> values[from[n]]]
      BY <2>4 DEF Shrink
    <3>2. i \in Fiber(i % entries, entries)
      BY DEF Fiber
    <3> QED
      BY <2>2, <2>3, <3>1, <3>2 DEF Heir
  <2>5. CASE Clear(entries)
    BY <2>5, NothingToLose DEF Clear, Heavier
  <2>6. CASE Grow(entries)
    BY <2>1, <2>2, <2>6, SizesAssumption DEF Grow
  <2> QED
    BY <2>2, <2>4, <2>5, <2>6
<1>2. Spec => [][IInv /\ ContentInv /\ [Next]_vars]_vars
  BY Invariance, ContentInvariance, PTL DEF Spec
<1> QED
  BY <1>1, <1>2, PTL DEF ShrinkKeepsHeaviest

-----------------------------------------------------------------------------
(* The pieces in which the table is cleared and copied *)

(* The pieces begin at the left end, end at the right end and do not overlap. *)
LEMMA StartsAreInOrder ==
  ASSUME NEW left \in Nat, NEW right \in Nat, left < right, NEW n \in Nat \ {0}
  PROVE  /\ \A i \in 0..n : PieceStart(left, right, n, i) \in Int
         /\ PieceStart(left, right, n, 0) = left
         /\ PieceStart(left, right, n, n) = right
         /\ \A i, j \in 0..n :
              i <= j => PieceStart(left, right, n, i) <= PieceStart(left, right, n, j)
<1> DEFINE b == (right - left) \div n
           r == (right - left) % n
           Extra(i) == IF i < r THEN i ELSE r
<1>0. right - left \in Nat
  OBVIOUS
<1>1. /\ b \in Nat /\ r \in 0..(n - 1)
      /\ n * b + r = right - left
  BY <1>0, Blocks
<1>2. \A i : PieceStart(left, right, n, i) = left + i * b + Extra(i)
  BY DEF PieceStart
<1> HIDE DEF b, r
<1>3. \A i \in 0..n : Extra(i) \in Int /\ i * b \in Int
  BY <1>1
<1>4. \A i, j \in 0..n : i <= j => Extra(i) <= Extra(j)
  BY <1>1
<1>5. Extra(0) = 0 /\ Extra(n) = r /\ 0 * b = 0
  BY <1>1
<1> HIDE DEF Extra
<1>6. \A i \in 0..n : PieceStart(left, right, n, i) \in Int
  BY <1>2, <1>3
<1>7. PieceStart(left, right, n, 0) = left
  BY <1>2, <1>5
<1>8. PieceStart(left, right, n, n) = right
  BY <1>1, <1>2, <1>5
<1>9. ASSUME NEW i \in 0..n, NEW j \in 0..n, i <= j
      PROVE  PieceStart(left, right, n, i) <= PieceStart(left, right, n, j)
  <2>1. i * b <= j * b
    BY <1>1, <1>9, Products
  <2> QED
    BY <1>2, <1>3, <1>4, <1>9, <2>1
<1> QED
  BY <1>6, <1>7, <1>8, <1>9

(* Each element is in one piece: the last one that begins before it. *)
LEMMA PiecesPartition ==
  ASSUME NEW left \in Nat, NEW right \in Nat, left < right,
         NEW n \in Nat \ {0}, NEW x \in left..(right - 1)
  PROVE  \E i \in 0..(n - 1) :
           /\ x \in Piece(left, right, n, i)
           /\ \A k \in 0..(n - 1) : x \in Piece(left, right, n, k) => k = i
<1> DEFINE Start(i) == PieceStart(left, right, n, i)
           Begun == {i \in 0..(n - 1) : Start(i) <= x}
<1>1. /\ \A i \in 0..n : Start(i) \in Int
      /\ Start(0) = left /\ Start(n) = right
      /\ \A i, j \in 0..n : i <= j => Start(i) <= Start(j)
  BY StartsAreInOrder
<1>2. \A i : x \in Piece(left, right, n, i) <=> x \in Start(i)..(Start(i + 1) - 1)
  BY DEF Piece
<1> HIDE DEF Start
<1>3. PICK i \in Begun : \A k \in Begun : k <= i
  <2>1. 0 \in Begun
    BY <1>1
  <2>2. Begun \subseteq 0..(n - 1) /\ n - 1 \in Nat
    OBVIOUS
  <2> HIDE DEF Begun
  <2> QED
    BY <2>1, <2>2, GreatestNatural
<1>4. i \in 0..(n - 1) /\ i \in 0..n /\ i + 1 \in 0..n /\ Start(i) <= x
  OBVIOUS
<1>5. x < Start(i + 1)
  <2>1. CASE i + 1 = n
    BY <1>1, <2>1
  <2>2. CASE i + 1 # n
    <3>1. i + 1 \in 0..(n - 1) /\ i + 1 \notin Begun
      BY <1>3, <1>4, <2>2
    <3> QED
      BY <1>1, <1>4, <3>1
  <2> QED
    BY <2>1, <2>2
<1>6. x \in Piece(left, right, n, i)
  BY <1>1, <1>2, <1>4, <1>5
<1>7. ASSUME NEW k \in 0..(n - 1), x \in Piece(left, right, n, k)
      PROVE  k = i
  <2>1. k \in 0..n /\ k + 1 \in 0..n /\ Start(k) \in Int /\ Start(k + 1) \in Int
    BY <1>1
  <2>2. Start(k) <= x /\ x < Start(k + 1)
    BY <1>2, <1>7, <2>1
  <2>3. k <= i
    BY <1>3, <2>2
  <2>4. ~(k < i)
    <3>1. SUFFICES ASSUME k + 1 <= i PROVE FALSE
      BY <1>4
    <3>2. Start(k + 1) <= Start(i)
      BY <1>1, <1>4, <2>1, <3>1
    <3> QED
      BY <1>1, <1>4, <2>1, <2>2, <3>2
  <2> QED
    BY <1>4, <2>3, <2>4
<1> QED
  BY <1>4, <1>6, <1>7
(* Each entry of the table is cleared, or copied, by exactly one of the       *)
(* threads of processSegmentParallel(), whatever the table's size and the     *)
(* number of jobs: the threads need no lock for the entries they own.         *)
THEOREM EachElementHasOneThread ==
  ASSUME NEW left \in Nat, NEW right \in Nat, NEW jobs \in Nat \ {0},
         NEW x \in left..(right - 1)
  PROVE  LET pieces == Pieces(left, right, jobs) IN
         \E i \in DOMAIN pieces :
           x \in pieces[i] /\ \A k \in DOMAIN pieces : x \in pieces[k] => k = i
<1> DEFINE threads == ThreadCount(left, right, jobs)
           pieces == Pieces(left, right, jobs)
<1>1. left < right /\ ~(left >= right)
  OBVIOUS
<1>2. threads \in Nat \ {0}
  BY <1>1 DEF ThreadCount
<1>3. pieces = [i \in 0..(threads - 1) |-> Piece(left, right, threads, i)]
  BY <1>1 DEF Pieces
<1> HIDE DEF threads, pieces
<1>4. PICK i \in 0..(threads - 1) :
        /\ x \in Piece(left, right, threads, i)
        /\ \A k \in 0..(threads - 1) : x \in Piece(left, right, threads, k) => k = i
  BY <1>1, <1>2, PiecesPartition
<1>5. \E m \in DOMAIN pieces :
        x \in pieces[m] /\ \A k \in DOMAIN pieces : x \in pieces[k] => k = m
  BY <1>3, <1>4
<1> QED
  BY <1>5 DEF pieces
=============================================================================
