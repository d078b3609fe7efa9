----------------------------- MODULE TransTable -----------------------------
(***************************************************************************)
(* The transposition table (search/private/transposition_table.{h,cpp}):   *)
(* all jobs load and store without a lock, and the client thread resizes,  *)
(* clears and re-dates the table while no job runs (see JobRunner).        *)
(*                                                                         *)
(* An entry is two relaxed atomic words, the data and key ^ data, so       *)
(* another thread may see the two writes, or make the two reads, in either *)
(* order.  The exclusive or is kept symbolic: a key word remembers the key *)
(* and the data it was made of, and gives the key back for that data only. *)
(* That two 64-bit words could give some other key by accident is left     *)
(* out.  A move and a score are reduced to a payload.                      *)
(***************************************************************************)
EXTENDS Integers, FiniteSets

CONSTANTS
  Jobs,       \* the threads that load and store
  Keys,       \* Zobrist hashes
  Sizes,      \* numbers of entries the table may have
  Payloads,   \* moves and scores
  Depths,     \* depths of search results
  EpochMod,   \* 256
  EpochSteps, \* what is added to the epoch: 1 to 5, or 19
  NoData,     \* Data::zero()
  NoOp,       \* a job outside the table
  MaxStores,  \* bound of the model: stores
  MaxEpochs   \* bound of the model: changes of the epoch

ASSUME KeysAssumption == Keys \subseteq Nat /\ 0 \in Keys

(* Powers of two. *)
ASSUME SizesAssumption ==
  /\ Sizes \subseteq Nat \ {0}
  /\ \A small, big \in Sizes : small <= big => big % small = 0

ASSUME DataAssumption ==
  /\ Depths \subseteq Nat
  /\ EpochMod \in Nat \ {0} /\ EpochSteps \subseteq 1..5 \union {19}
  /\ MaxStores \in Nat /\ MaxEpochs \in Nat

Data == [payload : Payloads, depth : Depths, exact : BOOLEAN, epoch : 0..(EpochMod - 1)]

ASSUME ZeroAssumption == NoData \notin Data

(* key ^ data *)
Word == [key : Keys, data : Data \union {NoData}]

(* Mutant: the key word holds the key alone. *)
DecodeKeyOnly(word, data, key) == word.key = key

(* The key word, taken apart with the data that was read, gives the key. *)
Decode(word, data, key) == word = [key |-> key, data |-> data]

VARIABLES
  size,      \* size_
  values,    \* table_[i].value
  words,     \* table_[i].key
  epoch,     \* epoch_
  op,        \* what each job is doing in the table
  stored,    \* history: what was stored under which key since the last clear()
  epochs     \* counter for the bound

table == <<size, values, words, epoch>>
vars == <<table, op, stored, epochs>>

Slots == 0..(size - 1)

(* key & (size_ - 1), for a size that is a power of two *)
Index(key, entries) == key % entries

EmptyWord == [key |-> 0, data |-> NoData]

-----------------------------------------------------------------------------
(* Data::weight *)

(* Mutant: the age of an entry is not taken into account. *)
WeightWithoutAge(d) == d.depth + IF d.exact THEN 3 ELSE 0

Weight(d) == d.depth - 2 * ((epoch - d.epoch) % EpochMod) + IF d.exact THEN 3 ELSE 0

(* d1.weight() > d2.weight(), where invalid data weighs least. *)
Heavier(d1, d2) ==
  d1 # NoData /\ (d2 # NoData => Weight(d1) > Weight(d2))

-----------------------------------------------------------------------------
(* load() and store() *)

(* store(): one read of the value decides whether the new data goes in. *)
StoreBegin(j, key, data) ==
  LET new == [data EXCEPT !.epoch = epoch] IN
  /\ op[j] = NoOp
  /\ Cardinality(stored) < MaxStores
  /\ ~Heavier(values[Index(key, size)], new)
  /\ op' = [op EXCEPT ![j] =
             [kind |-> "store", key |-> key, data |-> new, word |-> EmptyWord,
              todo |-> {"value", "key"}]]
  /\ stored' = stored \union {[key |-> key, data |-> new]}
  /\ UNCHANGED <<table, epochs>>

StoreValue(j) ==
  /\ op[j] # NoOp /\ op[j].kind = "store" /\ "value" \in op[j].todo
  /\ values' = [values EXCEPT ![Index(op[j].key, size)] = op[j].data]
  /\ op' = [op EXCEPT ![j].todo = @ \ {"value"}]
  /\ UNCHANGED <<size, words, epoch, stored, epochs>>

StoreKey(j) ==
  /\ op[j] # NoOp /\ op[j].kind = "store" /\ "key" \in op[j].todo
  /\ words' = [words EXCEPT ![Index(op[j].key, size)] =
                [key |-> op[j].key, data |-> op[j].data]]
  /\ op' = [op EXCEPT ![j].todo = @ \ {"key"}]
  /\ UNCHANGED <<size, values, epoch, stored, epochs>>

LoadBegin(j, key) ==
  /\ op[j] = NoOp
  /\ op' = [op EXCEPT ![j] =
             [kind |-> "load", key |-> key, data |-> NoData, word |-> EmptyWord,
              todo |-> {"value", "key"}]]
  /\ UNCHANGED <<table, stored, epochs>>

LoadValue(j) ==
  /\ op[j] # NoOp /\ op[j].kind = "load" /\ "value" \in op[j].todo
  /\ op' = [op EXCEPT ![j].data = values[Index(op[j].key, size)],
                      ![j].todo = @ \ {"value"}]
  /\ UNCHANGED <<table, stored, epochs>>

LoadKey(j) ==
  /\ op[j] # NoOp /\ op[j].kind = "load" /\ "key" \in op[j].todo
  /\ op' = [op EXCEPT ![j].word = words[Index(op[j].key, size)],
                      ![j].todo = @ \ {"key"}]
  /\ UNCHANGED <<table, stored, epochs>>

Return(j) ==
  /\ op[j] # NoOp /\ op[j].todo = {}
  /\ op' = [op EXCEPT ![j] = NoOp]
  /\ UNCHANGED <<table, stored, epochs>>

(* What load() returns. *)
Loaded(o) == IF Decode(o.word, o.data, o.key) THEN o.data ELSE NoData

-----------------------------------------------------------------------------
(* resize(), clear() and the epoch: only while no job is in the table *)

Quiescent == \A j \in Jobs : op[j] = NoOp

Clear(entries) ==
  /\ Quiescent
  /\ size' = entries
  /\ values' = [i \in 0..(entries - 1) |-> NoData]
  /\ words' = [i \in 0..(entries - 1) |-> EmptyWord]
  /\ stored' = {}
  /\ UNCHANGED <<epoch, op, epochs>>

(* Mutant: an entry keeps its place in the bigger table. *)
TargetInPlace(i, slot, entries) == slot = i

(* What the copying threads take for the key of entry i: the exclusive or of *)
(* a pair that does not match is no key at all and may lead anywhere.        *)
Target(i, slot, entries) ==
  words[i].data = values[i] => slot = Index(words[i].key, entries)

(* One thread per segment of the old table copies entries word by word, so   *)
(* where several entries go to one slot - empty ones all go to slot 0 - each *)
(* word is the one that was written last.  "from" and "key" name the entry   *)
(* that wrote the words of a slot last, size stands for none.                *)
Grow(entries) ==
  LET NewSlots == 0..(entries - 1)
      Last(to, from) ==
        \A n \in NewSlots :
          LET writers == {i \in Slots : to[i] = n} IN
          from[n] \in IF writers = {} THEN {size} ELSE writers
  IN
  /\ Quiescent
  /\ entries > size
  /\ size' = entries
  /\ \E to \in [Slots -> NewSlots] :
       /\ \A i \in Slots : Target(i, to[i], entries)
       /\ \E from \in [NewSlots -> Slots \union {size}] :
            /\ Last(to, from)
            /\ values' = [n \in NewSlots |->
                            IF from[n] = size THEN NoData ELSE values[from[n]]]
       /\ \E key \in [NewSlots -> Slots \union {size}] :
            /\ Last(to, key)
            /\ words' = [n \in NewSlots |->
                           IF key[n] = size THEN EmptyWord ELSE words[key[n]]]
  /\ UNCHANGED <<epoch, op, stored, epochs>>

(* The old slots that fall together in slot n of the smaller table. *)
Fiber(n, entries) == {i \in Slots : i % entries = n}

(* Mutant: the smaller table is the first part of the bigger one. *)
FirstOf(i, n, entries) == i = n

(* The heaviest of them, the first one among equals. *)
Heir(i, n, entries) ==
  \A k \in Fiber(n, entries) :
    ~Heavier(values[k], values[i]) /\ (k < i => Heavier(values[i], values[k]))

Shrink(entries) ==
  /\ Quiescent
  /\ entries < size
  /\ size' = entries
  /\ \E from \in [0..(entries - 1) -> Slots] :
       /\ \A n \in 0..(entries - 1) :
            from[n] \in Fiber(n, entries) /\ Heir(from[n], n, entries)
       /\ values' = [n \in 0..(entries - 1) |-> values[from[n]]]
       /\ words' = [n \in 0..(entries - 1) |-> words[from[n]]]
  /\ UNCHANGED <<epoch, op, stored, epochs>>

(* growEpoch() by the distance of two positions, or resetEpoch() *)
NextEpoch(amount) ==
  /\ Quiescent
  /\ epochs < MaxEpochs
  /\ epochs' = epochs + 1
  /\ epoch' = (epoch + amount) % EpochMod
  /\ UNCHANGED <<size, values, words, op, stored>>

-----------------------------------------------------------------------------
Init ==
  /\ size \in Sizes
  /\ values = [i \in Slots |-> NoData]
  /\ words = [i \in Slots |-> EmptyWord]
  /\ epoch = 0
  /\ op = [j \in Jobs |-> NoOp]
  /\ stored = {}
  /\ epochs = 0

(* The data of a search result: store() fills in the epoch. *)
NewData == {d \in Data : d.epoch = 0}

JobNext(j) ==
  \/ \E key \in Keys :
       LoadBegin(j, key) \/ \E data \in NewData : StoreBegin(j, key, data)
  \/ StoreValue(j) \/ StoreKey(j) \/ LoadValue(j) \/ LoadKey(j) \/ Return(j)

Next ==
  \/ \E j \in Jobs : JobNext(j)
  \/ \E entries \in Sizes : Clear(entries) \/ Grow(entries) \/ Shrink(entries)
  \/ \E amount \in EpochSteps : NextEpoch(amount)

Spec == Init /\ [][Next]_vars

-----------------------------------------------------------------------------
(* Properties *)

Op == [kind : {"load", "store"}, key : Keys, data : Data \union {NoData}, word : Word,
       todo : SUBSET {"value", "key"}]

TypeOK ==
  /\ size \in Sizes
  /\ values \in [Slots -> Data \union {NoData}]
  /\ words \in [Slots -> Word]
  /\ epoch \in 0..(EpochMod - 1)
  /\ op \in [Jobs -> Op \union {NoOp}]
  /\ stored \subseteq [key : Keys, data : Data]
  /\ epochs \in Nat

(* However loads and stores of several jobs mix word by word, and whatever   *)
(* resize() made of torn entries, load() returns what some job stored under  *)
(* the very key it asks for, since the last clear(), or nothing.             *)
LoadIsTruthful ==
  \A j \in Jobs :
    op[j] # NoOp /\ op[j].kind = "load" /\ op[j].todo = {} /\ Loaded(op[j]) # NoData =>
      [key |-> op[j].key, data |-> Loaded(op[j])] \in stored

(* The two words are of one store, and are where load() looks for them.      *)
Intact(i) == words[i].data = values[i]
Home(i) == words[i] # EmptyWord => Index(words[i].key, size) = i

(* "We try to retain some information that already exists": a bigger table   *)
(* still finds every entry of a sound table, except that the entry that      *)
(* belongs to slot 0 may be overwritten by an empty one.  A table is sound   *)
(* if no entry is torn or misplaced; the latter can be left by a resize      *)
(* that copied torn entries, where equal data was stored under two keys.     *)
GrowKeepsEntries ==
  [][size' > size /\ stored' = stored /\ (\A i \in Slots : Intact(i) /\ Home(i)) =>
       \A i \in Slots :
         LET slot == Index(words[i].key, size') IN
         slot # 0 => values'[slot] = values[i] /\ words'[slot] = words[i]]_vars

(* A smaller table keeps, of the entries that fall together, one that is not *)
(* lighter than any other.                                                   *)
ShrinkKeepsHeaviest ==
  [][size' < size /\ stored' = stored =>
       \A i \in Slots : ~Heavier(values[i], values'[i % size'])]_vars

(* resetEpoch() adds enough for a new game to take over the table: an entry  *)
(* of before the reset that is no deeper than 35 keeps no new data out.      *)
OldEntriesYield ==
  \A i \in Slots :
    values[i] # NoData /\ (epoch - values[i].epoch) % EpochMod >= 19
      /\ values[i].depth <= 35 =>
    \A data \in NewData : ~Heavier(values[i], [data EXCEPT !.epoch = epoch])
=============================================================================
