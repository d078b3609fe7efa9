--------------------------- MODULE SelfTestProofs ---------------------------
(***************************************************************************)
(* The walk of the self-tests visits sound boards only (see ChessProofs),  *)
(* and its frames form a chain: each frame remembers the board under it,   *)
(* the move made there and all it takes to go back, and the tag that       *)
(* follows the moves is the one of its board (Chained, the inductive       *)
(* invariant).                                                             *)
(*                                                                         *)
(* A tag is a sum over the pieces that stand on the board, coefficient by  *)
(* coefficient, so a move changes it by what is gone and what has come     *)
(* (TagFollowsMove).                                                       *)
(*                                                                         *)
(* What the generators write is described move by move (Answering): where  *)
(* a piece goes, and whether that answers the check.  What isMoveValid()   *)
(* accepts is the same without the answer (ValidAre), and a legal move     *)
(* gives one: each piece that attacked the king is taken or its line cut,  *)
(* and no move does so to two (LegalAnswers).                              *)
(*                                                                         *)
(* The texts: the reader of cells is followed token by token, over any     *)
(* sequence of tokens (BoardTextIs), and what the writer puts into a row   *)
(* stands where the reader looks for it (FenReadsBack, MovesReadBack).     *)
(***************************************************************************)
EXTENDS SelfTest, ChessProofs, OrderFacts, FiniteSetTheorems, SequenceTheorems

-----------------------------------------------------------------------------
(* Sums over finite sets *)

(* Induction over the subsets of a finite set, as a statement about sets. *)
LEMMA SubsetInduction ==
  ASSUME NEW U, IsFiniteSet(U), NEW P, {} \in P,
         \A s \in SUBSET U, x \in U : s \in P /\ x \notin s => s \union {x} \in P
  PROVE  SUBSET U \subseteq P
<1> DEFINE N == {n \in Nat : \A s \in SUBSET U : Cardinality(s) = n => s \in P}
<1>1. \A s \in SUBSET U : IsFiniteSet(s) /\ Cardinality(s) \in Nat
  BY FS_Subset, FS_CardinalityType
<1>2. 0 \in N
  BY <1>1, FS_EmptySet
<1>3. ASSUME NEW n \in Nat, n \in N PROVE n + 1 \in N
  <2> SUFFICES ASSUME NEW s \in SUBSET U, Cardinality(s) = n + 1 PROVE s \in P
    OBVIOUS
  <2>1. s # {}
    BY FS_EmptySet
  <2>2. PICK x : x \in s
    BY <2>1
  <2>3. Cardinality(s \ {x}) = n
    <3>1. Cardinality(s \ {x}) = Cardinality(s) - 1
      BY <1>1, <2>2, FS_RemoveElement
    <3> QED
      BY <3>1
  <2>4. s \ {x} \in P
    <3>1. s \ {x} \in SUBSET U
      OBVIOUS
    <3> QED
      BY <1>3, <2>3, <3>1
  <2>5. (s \ {x}) \union {x} = s /\ x \in U /\ x \notin s \ {x}
    BY <2>2
  <2> QED
    BY <2>4, <2>5
<1>4. \A n \in Nat : n \in N
  <2> HIDE DEF N
  <2> QED
    BY <1>2, <1>3, NaturalInduction
<1> QED
  BY <1>1, <1>4

(* g gives, for each subset of U, the sum of w over it. *)
Sums(g, U, w) ==
  /\ g \in [SUBSET U -> Int] /\ g[{}] = 0
  /\ \A s \in SUBSET U : \A x \in s : g[s] = g[s \ {x}] + w[x]

(* The sum of w over S. *)
SumOver(w, S) == (CHOOSE g : Sums(g, DOMAIN w, w))[S]

LEMMA SumsExist ==
  ASSUME NEW U, IsFiniteSet(U), NEW w \in [U -> Int]
  PROVE  \E g : Sums(g, U, w)
<1> DEFINE P == {s \in SUBSET U : \E g : Sums(g, s, w)}
<1>1. {} \in P
  <2> DEFINE g == [s \in SUBSET {} |-> 0]
  <2>1. Sums(g, {}, w)
    BY DEF Sums
  <2> QED
    BY <2>1
<1>2. ASSUME NEW s \in SUBSET U, NEW x \in U, s \in P, x \notin s
      PROVE  s \union {x} \in P
  <2>1. PICK g : Sums(g, s, w)
    BY <1>2
  <2> DEFINE T == SUBSET (s \union {x})
             h == [t \in T |-> IF x \in t THEN g[t \ {x}] + w[x] ELSE g[t]]
  <2>2. w[x] \in Int /\ \A y \in s : w[y] \in Int
    OBVIOUS
  <2>3. \A t \in T : /\ t \ {x} \in SUBSET s
                     /\ g[t \ {x}] \in Int
                     /\ x \notin t => t \in SUBSET s /\ g[t] \in Int
    BY <2>1 DEF Sums
  <2>4. h \in [T -> Int]
    BY <2>2, <2>3
  <2>5. h[{}] = 0
    BY <2>1 DEF Sums
  <2>6. ASSUME NEW t \in T, NEW y \in t PROVE h[t] = h[t \ {y}] + w[y]
    <3>0. t \ {y} \in T /\ h[t] = (IF x \in t THEN g[t \ {x}] + w[x] ELSE g[t])
          /\ h[t \ {y}] = IF x \in t \ {y} THEN g[(t \ {y}) \ {x}] + w[x] ELSE g[t \ {y}]
      OBVIOUS
    <3> HIDE DEF h
    <3>1. CASE y = x
      BY <3>0, <3>1
    <3>2. CASE y # x /\ x \notin t
      <4>1. t \in SUBSET s
        BY <3>2, <2>3
      <4>2. g[t] = g[t \ {y}] + w[y]
        BY <2>1, <4>1 DEF Sums
      <4> QED
        BY <3>0, <3>2, <4>2
    <3>3. CASE y # x /\ x \in t
      <4>1. t \ {x} \in SUBSET s /\ y \in t \ {x} /\ (t \ {x}) \ {y} = (t \ {y}) \ {x}
        BY <3>3
      <4>2. g[t \ {x}] = g[(t \ {y}) \ {x}] + w[y]
        BY <2>1, <4>1 DEF Sums
      <4>3. g[(t \ {y}) \ {x}] \in Int /\ w[y] \in Int
        BY <2>2, <2>3, <3>0, <4>1
      <4>4. h[t] = g[t \ {x}] + w[x] /\ h[t \ {y}] = g[(t \ {y}) \ {x}] + w[x]
        BY <3>0, <3>3
      <4> HIDE DEF T
      <4> QED
        BY <2>2, <4>2, <4>3, <4>4
    <3> QED
      BY <3>1, <3>2, <3>3
  <2>7. Sums(h, s \union {x}, w)
    <3> HIDE DEF h
    <3> QED
      BY <2>4, <2>5, <2>6 DEF Sums
  <2> QED
    BY <2>7
<1>3. SUBSET U \subseteq P
  <2> HIDE DEF P
  <2> QED
    BY <1>1, <1>2, SubsetInduction
<1> QED
  BY <1>3

(* What a sum is, and how it changes by an element. *)
LEMMA SumFacts ==
  ASSUME NEW U, IsFiniteSet(U), NEW w \in [U -> Int]
  PROVE  /\ SumOver(w, {}) = 0
         /\ \A s \in SUBSET U : /\ SumOver(w, s) \in Int
                                /\ \A x \in s : SumOver(w, s) = SumOver(w, s \ {x}) + w[x]
<1> DEFINE g == CHOOSE g : Sums(g, U, w)
<1>1. Sums(g, U, w)
  BY SumsExist
<1>2. \A s : SumOver(w, s) = g[s]
  BY DEF SumOver
<1> HIDE DEF g
<1> QED
  BY <1>1, <1>2 DEF Sums

(* Adding an element. *)
LEMMA SumAdd ==
  ASSUME NEW U, IsFiniteSet(U), NEW w \in [U -> Int], NEW s \in SUBSET U, NEW x \in U, x \notin s
  PROVE  SumOver(w, s \union {x}) = SumOver(w, s) + w[x]
<1>1. s \union {x} \in SUBSET U /\ x \in s \union {x} /\ (s \union {x}) \ {x} = s
  OBVIOUS
<1> QED
  BY <1>1, SumFacts

(* The sum over two sets that do not meet. *)
LEMMA SumUnion ==
  ASSUME NEW U, IsFiniteSet(U), NEW w \in [U -> Int],
         NEW s \in SUBSET U, NEW t \in SUBSET U, s \cap t = {}
  PROVE  SumOver(w, s \union t) = SumOver(w, s) + SumOver(w, t)
<1> DEFINE P == {r \in SUBSET U : r \cap s = {} => SumOver(w, s \union r) = SumOver(w, s) + SumOver(w, r)}
<1>1. {} \in P
  <2>1. SumOver(w, s) \in Int /\ SumOver(w, {}) = 0 /\ s \union {} = s
    BY SumFacts
  <2> QED
    BY <2>1
<1>2. ASSUME NEW r \in SUBSET U, NEW x \in U, r \in P, x \notin r
      PROVE  r \union {x} \in P
  <2> SUFFICES ASSUME (r \union {x}) \cap s = {}
               PROVE  SumOver(w, s \union (r \union {x})) = SumOver(w, s) + SumOver(w, r \union {x})
    OBVIOUS
  <2> DEFINE sr == s \union r
             rx == r \union {x}
  <2>1. s \union rx = sr \union {x} /\ x \notin sr /\ sr \in SUBSET U /\ rx \in SUBSET U
    BY <1>2
  <2>2. SumOver(w, rx) = SumOver(w, r) + w[x]
    BY <1>2, SumAdd
  <2>3. SumOver(w, sr) = SumOver(w, s) + SumOver(w, r)
    BY <1>2
  <2> HIDE DEF P, sr
  <2>4. SumOver(w, sr \union {x}) = SumOver(w, sr) + w[x]
    BY <2>1, SumAdd
  <2>5. SumOver(w, s) \in Int /\ SumOver(w, r) \in Int /\ w[x] \in Int
    BY SumFacts
  <2>6. SumOver(w, sr \union {x}) = SumOver(w, s) + SumOver(w, rx)
    <3> HIDE DEF rx
    <3> QED
      BY <2>2, <2>3, <2>4, <2>5
  <2> QED
    BY <2>1, <2>6
<1>3. SUBSET U \subseteq P
  <2> HIDE DEF P
  <2> QED
    BY <1>1, <1>2, SubsetInduction
<1> QED
  BY <1>3

(* Two functions that agree on a set have the same sum over it, wherever else *)
(* they are defined.                                                          *)
LEMMA SumAgree ==
  ASSUME NEW U, IsFiniteSet(U), NEW w \in [U -> Int],
         NEW V, IsFiniteSet(V), NEW v \in [V -> Int],
         NEW s \in SUBSET (U \cap V), \A x \in s : w[x] = v[x]
  PROVE  SumOver(w, s) = SumOver(v, s)
<1> DEFINE P == {r \in SUBSET s : SumOver(w, r) = SumOver(v, r)}
<1>1. {} \in P
  BY SumFacts
<1>2. ASSUME NEW r \in SUBSET s, NEW x \in s, r \in P, x \notin r
      PROVE  r \union {x} \in P
  <2>1. r \in SUBSET U /\ r \in SUBSET V /\ x \in U /\ x \in V
    OBVIOUS
  <2>2. /\ SumOver(w, r \union {x}) = SumOver(w, r) + w[x]
        /\ SumOver(v, r \union {x}) = SumOver(v, r) + v[x]
    BY <1>2, <2>1, SumAdd
  <2> QED
    BY <1>2, <2>2
<1>3. IsFiniteSet(s)
  BY FS_Subset
<1>4. SUBSET s \subseteq P
  <2> HIDE DEF P
  <2> QED
    BY <1>1, <1>2, <1>3, SubsetInduction
<1> QED
  BY <1>4

(* What counts nothing may be left out. *)
LEMMA SumSupport ==
  ASSUME NEW U, IsFiniteSet(U), NEW w \in [U -> Int],
         NEW s \in SUBSET U, NEW t \in SUBSET U, t \subseteq s, \A x \in s \ t : w[x] = 0
  PROVE  SumOver(w, s) = SumOver(w, t)
<1> DEFINE P == {r \in SUBSET U : r \subseteq s \ t => SumOver(w, r) = 0}
<1>1. {} \in P
  BY SumFacts
<1>2. ASSUME NEW r \in SUBSET U, NEW x \in U, r \in P, x \notin r
      PROVE  r \union {x} \in P
  <2> SUFFICES ASSUME r \union {x} \subseteq s \ t PROVE SumOver(w, r \union {x}) = 0
    OBVIOUS
  <2>1. SumOver(w, r \union {x}) = SumOver(w, r) + w[x]
    BY <1>2, SumAdd
  <2> QED
    BY <1>2, <2>1
<1>3. SUBSET U \subseteq P
  <2> HIDE DEF P
  <2> QED
    BY <1>1, <1>2, SubsetInduction
<1> DEFINE rest == s \ t
<1>4. rest \in SUBSET U /\ SumOver(w, rest) = 0 /\ t \union rest = s /\ t \cap rest = {}
  BY <1>3
<1> HIDE DEF P, rest
<1>5. SumOver(w, t \union rest) = SumOver(w, t) + SumOver(w, rest)
  BY <1>4, SumUnion
<1>6. SumOver(w, t) \in Int
  BY SumFacts
<1>7. SumOver(w, s) = SumOver(w, t) + SumOver(w, rest)
  BY <1>4, <1>5
<1> QED
  BY <1>4, <1>6, <1>7

(* What a fold computes that takes the elements of a set one by one. *)
FoldsUp(f, S, w) ==
  f = [s \in SUBSET S |->
         IF s = {} THEN 0 ELSE f[s \ {CHOOSE x \in s : TRUE}] + w[CHOOSE x \in s : TRUE]]

LEMMA FoldIsSum ==
  ASSUME NEW U, IsFiniteSet(U), NEW w \in [U -> Int], NEW S \in SUBSET U, NEW f, FoldsUp(f, S, w)
  PROVE  f[S] = SumOver(w, S)
<1> DEFINE N == {n \in Nat : \A s \in SUBSET S : Cardinality(s) = n => f[s] = SumOver(w, s)}
<1>1. \A s \in SUBSET S : IsFiniteSet(s) /\ Cardinality(s) \in Nat
  BY FS_Subset, FS_CardinalityType
<1>2. 0 \in N
  <2>1. {} \in SUBSET S /\ \A s \in SUBSET S : Cardinality(s) = 0 => s = {}
    BY <1>1, FS_EmptySet
  <2>2. f[{}] = 0 /\ SumOver(w, {}) = 0
    BY <2>1, SumFacts DEF FoldsUp
  <2> QED
    BY <2>1, <2>2
<1>3. ASSUME NEW n \in Nat, n \in N PROVE n + 1 \in N
  <2> SUFFICES ASSUME NEW s \in SUBSET S, Cardinality(s) = n + 1 PROVE f[s] = SumOver(w, s)
    OBVIOUS
  <2> DEFINE x == CHOOSE x \in s : TRUE
  <2>1. s # {} /\ s \in SUBSET S
    <3>1. n + 1 # 0
      OBVIOUS
    <3> QED
      BY <3>1, FS_EmptySet
  <2>2. x \in s
    BY <2>1
  <2>3. f[s] = f[s \ {x}] + w[x]
    BY <2>1 DEF FoldsUp
  <2> HIDE DEF x
  <2>4. Cardinality(s \ {x}) = n
    <3>1. Cardinality(s \ {x}) = Cardinality(s) - 1
      BY <1>1, <2>2, FS_RemoveElement
    <3> QED
      BY <3>1
  <2>5. f[s \ {x}] = SumOver(w, s \ {x})
    BY <1>3, <2>4
  <2>6. SumOver(w, s) = SumOver(w, s \ {x}) + w[x]
    <3>1. s \in SUBSET U
      OBVIOUS
    <3> QED
      BY <2>2, <3>1, SumFacts
  <2> QED
    BY <2>3, <2>5, <2>6
<1>4. \A n \in Nat : n \in N
  <2> HIDE DEF N
  <2> QED
    BY <1>2, <1>3, NaturalInduction
<1> QED
  BY <1>1, <1>4

-----------------------------------------------------------------------------
(* Coefficients *)

(* An array of coefficients keeps those that are not zero. *)
IsCoefs(a) == a \in [DOMAIN a -> Int \ {0}]

(* Two arrays are the same if each coefficient is. *)
LEMMA CoefsAgree ==
  ASSUME NEW a, NEW b, IsCoefs(a), IsCoefs(b), \A f : At(a, f) = At(b, f)
  PROVE  a = b
<1>1. ASSUME NEW f PROVE f \in DOMAIN a <=> f \in DOMAIN b
  BY DEF At, IsCoefs
<1>2. DOMAIN a = DOMAIN b
  BY <1>1
<1>3. ASSUME NEW f \in DOMAIN a PROVE a[f] = b[f]
  BY <1>2 DEF At
<1>4. a = [f \in DOMAIN a |-> a[f]] /\ b = [f \in DOMAIN b |-> b[f]]
  BY DEF IsCoefs
<1> QED
  BY <1>2, <1>3, <1>4

LEMMA CoefsAt ==
  ASSUME NEW a, IsCoefs(a)
  PROVE  \A f : At(a, f) \in Int
BY DEF IsCoefs, At

(* What Compact() leaves of a function. *)
LEMMA CompactAt ==
  ASSUME NEW S, NEW v, \A f \in S : v[f] \in Int
  PROVE  /\ IsCoefs(Compact(v, S))
         /\ \A f : At(Compact(v, S), f) = IF f \in S THEN v[f] ELSE 0
<1> DEFINE kept == {g \in S : v[g] # 0}
<1>1. Compact(v, S) = [f \in kept |-> v[f]]
  BY DEF Compact
<1>2. IsCoefs([f \in kept |-> v[f]])
  BY DEF IsCoefs
<1> QED
  BY <1>1, <1>2 DEF At

LEMMA AddAt ==
  ASSUME NEW a, NEW b, IsCoefs(a), IsCoefs(b)
  PROVE  /\ IsCoefs(Add(a, b))
         /\ \A f : At(Add(a, b), f) = At(a, f) + At(b, f)
<1> DEFINE S == DOMAIN a \cup DOMAIN b
           v == [f \in S |-> At(a, f) + At(b, f)]
<1>1. \A f : At(a, f) \in Int /\ At(b, f) \in Int
  BY CoefsAt
<1>2. \A f \in S : v[f] \in Int
  BY <1>1
<1>3. Add(a, b) = Compact(v, S)
  BY DEF Add
<1>4. \A f : f \notin S => At(a, f) = 0 /\ At(b, f) = 0
  BY DEF At
<1>5. \A f \in S : v[f] = At(a, f) + At(b, f)
  OBVIOUS
<1> HIDE DEF v, S
<1>6. /\ IsCoefs(Add(a, b))
      /\ \A f : At(Add(a, b), f) = IF f \in S THEN v[f] ELSE 0
  BY <1>2, <1>3, CompactAt
<1> QED
  BY <1>4, <1>5, <1>6

LEMMA TimesAt ==
  ASSUME NEW a, IsCoefs(a), NEW n \in Int
  PROVE  /\ IsCoefs(Times(a, n))
         /\ \A f : At(Times(a, n), f) = n * At(a, f)
<1> DEFINE v == [f \in DOMAIN a |-> n * a[f]]
<1>1. \A f \in DOMAIN a : a[f] \in Int /\ v[f] = n * a[f]
  BY DEF IsCoefs
<1>2. \A f \in DOMAIN a : v[f] \in Int
  BY <1>1
<1>3. Times(a, n) = Compact(v, DOMAIN a)
  BY DEF Times
<1> HIDE DEF v
<1>4. /\ IsCoefs(Times(a, n))
      /\ \A f : At(Times(a, n), f) = IF f \in DOMAIN a THEN v[f] ELSE 0
  BY <1>2, <1>3, CompactAt
<1>5. n * 0 = 0
  OBVIOUS
<1> QED
  BY <1>1, <1>4, <1>5 DEF At

LEMMA SubAt ==
  ASSUME NEW a, NEW b, IsCoefs(a), IsCoefs(b)
  PROVE  /\ IsCoefs(Sub(a, b))
         /\ \A f : At(Sub(a, b), f) = At(a, f) - At(b, f)
<1>0. -1 \in Int
  OBVIOUS
<1>1. /\ IsCoefs(Times(b, -1))
      /\ \A f : At(Times(b, -1), f) = (-1) * At(b, f)
  BY <1>0, TimesAt
<1>2. /\ IsCoefs(Add(a, Times(b, -1)))
      /\ \A f : At(Add(a, Times(b, -1)), f) = At(a, f) + At(Times(b, -1), f)
  BY <1>1, AddAt
<1>3. \A f : At(a, f) \in Int /\ At(b, f) \in Int
  BY CoefsAt
<1> QED
  BY <1>1, <1>2, <1>3 DEF Sub

(* The fold that adds up a coefficient, as a sum. *)
Added(scores, f, S) == FoldSet(LAMBDA x, n : n + scores[x][f], 0, S)

LEMMA TotalFold ==
  ASSUME NEW X, IsFiniteSet(X), NEW scores, NEW f, NEW S \in SUBSET X, NEW w \in [X -> Int],
         \A x \in S : w[x] = scores[x][f]
  PROVE  Added(scores, f, S) = SumOver(w, S)
<1> DEFINE pick(s) == CHOOSE x \in s : TRUE
           IsFold(g) == g = [s \in SUBSET S |->
                               IF s = {} THEN 0 ELSE g[s \ {pick(s)}] + scores[pick(s)][f]]
           iter == CHOOSE g : IsFold(g)
           h == [s \in SUBSET S |-> SumOver(w, s)]
<1>1. Added(scores, f, S) = iter[S]
  BY DEF Added, FoldSet, MapThenFoldSet
<1>2. \A s \in SUBSET S : s # {} => pick(s) \in s /\ pick(s) \in S
  OBVIOUS
<1> HIDE DEF pick
<1>3. IsFold(h)
  <2>1. ASSUME NEW s \in SUBSET S
        PROVE  h[s] = IF s = {} THEN 0 ELSE h[s \ {pick(s)}] + scores[pick(s)][f]
    <3>1. SumOver(w, {}) = 0
      BY SumFacts
    <3>2. CASE s # {}
      <4>1. pick(s) \in s /\ w[pick(s)] = scores[pick(s)][f] /\ s \in SUBSET X
        BY <1>2, <3>2
      <4>2. SumOver(w, s) = SumOver(w, s \ {pick(s)}) + w[pick(s)]
        BY <4>1, SumFacts
      <4> QED
        BY <3>2, <4>1, <4>2
    <3> QED
      BY <3>1, <3>2
  <2> QED
    BY <2>1
<1>4. IsFold(iter)
  BY <1>3
<1> HIDE DEF iter, h
<1>5. iter = [s \in SUBSET S |-> IF s = {} THEN 0 ELSE iter[s \ {pick(s)}] + w[pick(s)]]
  BY <1>2, <1>4
<1>6. FoldsUp(iter, S, w)
  BY <1>5 DEF FoldsUp, pick
<1>7. iter[S] = SumOver(w, S)
  BY <1>6, FoldIsSum
<1> QED
  BY <1>1, <1>7

LEMMA TotalAt ==
  ASSUME NEW X, IsFiniteSet(X), NEW scores, DOMAIN scores = X, \A x \in X : IsCoefs(scores[x])
  PROVE  /\ IsCoefs(Total(scores))
         /\ \A f : At(Total(scores), f) = SumOver([x \in X |-> At(scores[x], f)], X)
<1> DEFINE using(f) == {x \in X : f \in DOMAIN scores[x]}
           all == UNION {DOMAIN scores[x] : x \in X}
           w(f) == [x \in X |-> At(scores[x], f)]
           v == [f \in all |-> Added(scores, f, using(f))]
<1>1. Total(scores) = Compact(v, all)
  BY DEF Total, Added
<1>2. ASSUME NEW f
      PROVE  w(f) \in [X -> Int] /\ SumOver(w(f), X) \in Int /\ SumOver(w(f), using(f)) = SumOver(w(f), X)
  <2>1. w(f) \in [X -> Int]
    BY CoefsAt
  <2>2. \A x \in X \ using(f) : w(f)[x] = 0
    BY DEF At
  <2>3. X \in SUBSET X /\ using(f) \in SUBSET X
    OBVIOUS
  <2> HIDE DEF w, using
  <2> QED
    BY <2>1, <2>2, <2>3, SumFacts, SumSupport
<1>3. ASSUME NEW f \in all PROVE v[f] = SumOver(w(f), X)
  <2>1. v[f] = Added(scores, f, using(f))
    OBVIOUS
  <2>2. using(f) \in SUBSET X /\ \A x \in using(f) : w(f)[x] = scores[x][f]
    BY DEF At
  <2>3. w(f) \in [X -> Int] /\ SumOver(w(f), using(f)) = SumOver(w(f), X)
    BY <1>2
  <2> HIDE DEF v
  <2>4. Added(scores, f, using(f)) = SumOver(w(f), using(f))
    <3> DEFINE wf == w(f)
               S == using(f)
    <3>1. wf \in [X -> Int] /\ S \in SUBSET X /\ \A x \in S : wf[x] = scores[x][f]
      BY <2>2, <2>3
    <3> HIDE DEF wf, S
    <3>2. Added(scores, f, S) = SumOver(wf, S)
      BY <3>1, TotalFold
    <3> QED
      BY <3>2 DEF wf, S
  <2> HIDE DEF w, using
  <2> QED
    BY <2>1, <2>3, <2>4
<1>4. ASSUME NEW f, f \notin all PROVE SumOver(w(f), X) = 0
  <2>1. \A x \in X : w(f)[x] = 0
    BY <1>4 DEF At
  <2> HIDE DEF w
  <2>2. SumOver(w(f), X) = SumOver(w(f), {})
    <3>1. w(f) \in [X -> Int] /\ X \in SUBSET X /\ {} \in SUBSET X /\ {} \subseteq X
          /\ \A x \in X \ {} : w(f)[x] = 0
      BY <1>2, <2>1
    <3> QED
      BY <3>1, SumSupport
  <2> QED
    BY <1>2, <2>2, SumFacts
<1> HIDE DEF v, all, w
<1>5. \A f \in all : v[f] \in Int
  BY <1>2, <1>3
<1>6. /\ IsCoefs(Total(scores))
      /\ \A f : At(Total(scores), f) = IF f \in all THEN v[f] ELSE 0
  BY <1>1, <1>5, CompactAt
<1>7. \A f : At(Total(scores), f) = SumOver(w(f), X)
  BY <1>3, <1>4, <1>6
<1> QED
  BY <1>6, <1>7 DEF w

-----------------------------------------------------------------------------
(* Pairs of scores, and what pieces cost *)

IsPair(p) == p = Pair(p.first, p.second) /\ IsCoefs(p.first) /\ IsCoefs(p.second)

(* One coefficient of the middle game, or of the end game. *)
PairAt(p, isFirst, f) == IF isFirst THEN At(p.first, f) ELSE At(p.second, f)

LEMMA PairsAgree ==
  ASSUME NEW p, NEW q, IsPair(p), IsPair(q),
         \A half \in BOOLEAN : \A f : PairAt(p, half, f) = PairAt(q, half, f)
  PROVE  p = q
<1>1. \A f : At(p.first, f) = At(q.first, f) /\ At(p.second, f) = At(q.second, f)
  BY DEF PairAt
<1>2. p.first = q.first /\ p.second = q.second
  BY <1>1, CoefsAgree DEF IsPair
<1> QED
  BY <1>2 DEF IsPair

LEMMA PairType ==
  ASSUME NEW p, IsPair(p)
  PROVE  \A half \in BOOLEAN : \A f : PairAt(p, half, f) \in Int
BY CoefsAt DEF IsPair, PairAt

LEMMA PairParts ==
  ASSUME NEW a, NEW b
  PROVE  Pair(a, b).first = a /\ Pair(a, b).second = b
BY DEF Pair

LEMMA AddPairAt ==
  ASSUME NEW p, NEW q, IsPair(p), IsPair(q)
  PROVE  /\ IsPair(AddPair(p, q))
         /\ \A half \in BOOLEAN : \A f :
              PairAt(AddPair(p, q), half, f) = PairAt(p, half, f) + PairAt(q, half, f)
<1>1. AddPair(p, q).first = Add(p.first, q.first) /\ AddPair(p, q).second = Add(p.second, q.second)
      /\ AddPair(p, q) = Pair(AddPair(p, q).first, AddPair(p, q).second)
  BY PairParts DEF AddPair
<1> QED
  BY <1>1, AddAt DEF IsPair, PairAt

LEMMA SubPairAt ==
  ASSUME NEW p, NEW q, IsPair(p), IsPair(q)
  PROVE  /\ IsPair(SubPair(p, q))
         /\ \A half \in BOOLEAN : \A f :
              PairAt(SubPair(p, q), half, f) = PairAt(p, half, f) - PairAt(q, half, f)
<1>1. SubPair(p, q).first = Sub(p.first, q.first) /\ SubPair(p, q).second = Sub(p.second, q.second)
      /\ SubPair(p, q) = Pair(SubPair(p, q).first, SubPair(p, q).second)
  BY PairParts DEF SubPair
<1> QED
  BY <1>1, SubAt DEF IsPair, PairAt

LEMMA TimesPairAt ==
  ASSUME NEW p, IsPair(p), NEW n \in Int
  PROVE  /\ IsPair(TimesPair(p, n))
         /\ \A half \in BOOLEAN : \A f :
              PairAt(TimesPair(p, n), half, f) = n * PairAt(p, half, f)
<1>1. TimesPair(p, n).first = Times(p.first, n) /\ TimesPair(p, n).second = Times(p.second, n)
      /\ TimesPair(p, n) = Pair(TimesPair(p, n).first, TimesPair(p, n).second)
  BY PairParts DEF TimesPair
<1> QED
  BY <1>1, TimesAt DEF IsPair, PairAt

(* What White's pieces cost is a pair of arrays. *)
LEMMA PsqWhitePair ==
  ASSUME NEW p, NEW i
  PROVE  IsPair(PsqWhite(p, i))
<1>1. \A f : IsCoefs(Number(f))
  BY DEF IsCoefs, Number, COEF_UNIT
<1>2. \A f, g : IsCoefs(Number2(f, g))
  BY <1>1, AddAt DEF Number2
<1>3. \E f, g, h, k : PsqWhite(p, i) = Pair(Number2(f, g), Number2(h, k))
  BY DEF PsqWhite
<1>4. PICK f, g, h, k : PsqWhite(p, i) = Pair(Number2(f, g), Number2(h, k))
  BY <1>3
<1> QED
  BY <1>2, <1>4, PairParts DEF IsPair

Placements == Cell \X Coord

LEMMA PlacementsFinite ==
  /\ IsFiniteSet(Placements)
  /\ \A s \in SUBSET Placements : IsFiniteSet(s)
<1>1. IsFiniteSet(Cell) /\ IsFiniteSet(Coord)
  <2>1. Cell \subseteq 0..14 /\ Coord \subseteq Coord /\ 0 \in Int /\ 14 \in Int
    BY DEF Cell, EmptyCell
  <2>2. IsFiniteSet(0..14)
    BY <2>1, FS_Interval
  <2> QED
    BY <2>1, <2>2, FS_Subset, CoordsFinite
<1> QED
  BY <1>1, FS_Product, FS_Subset DEF Placements

(* The cost of a piece on a cell: White's, negated for Black, whose rows are *)
(* turned over; nothing for an empty cell.                                    *)
LEMMA PsqAt ==
  /\ \A cell \in Cell, i \in Coord : IsPair(PSQ[cell][i])
  /\ \A i \in Coord : \A half \in BOOLEAN : \A f : PairAt(PSQ[EmptyCell][i], half, f) = 0
  /\ \A c \in Color, p \in Piece, i \in Coord : \A half \in BOOLEAN : \A f :
       PairAt(PSQ[MakeCell(c, p)][i], half, f)
         = Sign(c) * PairAt(PsqWhite(p, IF c = White THEN i ELSE FlipX(i)), half, f)
<1>1. \A cell \in Cell, i \in Coord :
        PSQ[cell][i] = IF cell = EmptyCell THEN EmptyPair
                       ELSE PsqPiece(CellPieceColor(cell), CellPiece(cell), i)
  BY DEF PSQ
<1>2. IsPair(EmptyPair) /\ \A half \in BOOLEAN : \A f : PairAt(EmptyPair, half, f) = 0
  <2>1. IsCoefs(Empty) /\ \A f : At(Empty, f) = 0
    BY DEF IsCoefs, Empty, At
  <2> QED
    BY <2>1, PairParts DEF IsPair, EmptyPair, PairAt
<1>3. \A c : Sign(c) \in Int
  BY DEF Sign
<1>4. ASSUME NEW c, NEW p, NEW i
      PROVE  /\ IsPair(PsqPiece(c, p, i))
             /\ \A half \in BOOLEAN : \A f :
                  PairAt(PsqPiece(c, p, i), half, f)
                    = Sign(c) * PairAt(PsqWhite(p, IF c = White THEN i ELSE FlipX(i)), half, f)
  BY <1>3, PsqWhitePair, TimesPairAt DEF PsqPiece
<1>5. \A c \in Color, p \in Piece :
        /\ MakeCell(c, p) \in Cell /\ MakeCell(c, p) # EmptyCell
        /\ CellPieceColor(MakeCell(c, p)) = c /\ CellPiece(MakeCell(c, p)) = p
  BY CellFacts DEF CellPiece, MakeCell, ColorOffset, Color, White, Black, Piece
<1>6. EmptyCell \in Cell
  BY CellFacts
<1> QED
  BY <1>1, <1>2, <1>4, <1>5, <1>6

(* How much of a coefficient each placement costs. *)
Costs(half, f) == [x \in Placements |-> PairAt(PSQ[x[1]][x[2]], half, f)]

LEMMA CostsFacts ==
  ASSUME NEW half \in BOOLEAN, NEW f
  PROVE  /\ Costs(half, f) \in [Placements -> Int]
         /\ \A i \in Coord : Costs(half, f)[<<EmptyCell, i>>] = 0
         /\ \A c \in Color, p \in Piece, i \in Coord :
              Costs(half, f)[<<MakeCell(c, p), i>>]
                = Sign(c) * PairAt(PsqWhite(p, IF c = White THEN i ELSE FlipX(i)), half, f)
<1>1. ASSUME NEW x \in Placements PROVE PairAt(PSQ[x[1]][x[2]], half, f) \in Int
  BY PsqAt, PairType DEF Placements
<1>2. Costs(half, f) \in [Placements -> Int]
  BY <1>1 DEF Costs
<1>3. \A cell \in Cell, i \in Coord : Costs(half, f)[<<cell, i>>] = PairAt(PSQ[cell][i], half, f)
  BY DEF Costs, Placements
<1>4. EmptyCell \in Cell /\ \A c \in Color, p \in Piece : MakeCell(c, p) \in Cell
  BY CellFacts
<1>5. \A i \in Coord : Costs(half, f)[<<EmptyCell, i>>] = 0
  BY <1>3, <1>4, PsqAt
<1>6. ASSUME NEW c \in Color, NEW p \in Piece, NEW i \in Coord
      PROVE  Costs(half, f)[<<MakeCell(c, p), i>>]
               = Sign(c) * PairAt(PsqWhite(p, IF c = White THEN i ELSE FlipX(i)), half, f)
  <2>1. Costs(half, f)[<<MakeCell(c, p), i>>] = PairAt(PSQ[MakeCell(c, p)][i], half, f)
    BY <1>3, <1>4
  <2>2. PairAt(PSQ[MakeCell(c, p)][i], half, f)
          = Sign(c) * PairAt(PsqWhite(p, IF c = White THEN i ELSE FlipX(i)), half, f)
    BY PsqAt
  <2> QED
    BY <2>1, <2>2
<1> QED
  BY <1>2, <1>5, <1>6

LEMMA PsqOfAt ==
  ASSUME NEW placed \in SUBSET Placements
  PROVE  /\ IsPair(PsqOf(placed))
         /\ \A half \in BOOLEAN : \A f :
              PairAt(PsqOf(placed), half, f) = SumOver(Costs(half, f), placed)
<1> DEFINE costs == [x \in placed |-> PSQ[x[1]][x[2]]]
           firsts == [x \in placed |-> costs[x].first]
           seconds == [x \in placed |-> costs[x].second]
<1>1. PsqOf(placed) = Pair(Total(firsts), Total(seconds))
  BY DEF PsqOf
<1>2. IsFiniteSet(placed)
  BY PlacementsFinite
<1>3. \A x \in placed : /\ IsPair(PSQ[x[1]][x[2]])
                        /\ firsts[x] = PSQ[x[1]][x[2]].first /\ seconds[x] = PSQ[x[1]][x[2]].second
  BY PsqAt DEF Placements
<1>4. \A x \in placed : IsCoefs(firsts[x]) /\ IsCoefs(seconds[x])
  BY <1>3 DEF IsPair
<1>5. DOMAIN firsts = placed /\ DOMAIN seconds = placed
  OBVIOUS
<1>6. ASSUME NEW half \in BOOLEAN, NEW f
      PROVE  SumOver([x \in placed |-> IF half THEN At(firsts[x], f) ELSE At(seconds[x], f)], placed)
               = SumOver(Costs(half, f), placed)
  <2> DEFINE w == [x \in placed |-> IF half THEN At(firsts[x], f) ELSE At(seconds[x], f)]
  <2>1. \A x \in placed : w[x] = Costs(half, f)[x]
    BY <1>3 DEF Costs, PairAt
  <2>2. w \in [placed -> Int]
    BY <1>4, CoefsAt
  <2>3. Costs(half, f) \in [Placements -> Int]
    BY CostsFacts
  <2>4. placed \in SUBSET (placed \cap Placements)
    OBVIOUS
  <2> HIDE DEF w
  <2>5. SumOver(w, placed) = SumOver(Costs(half, f), placed)
    BY <1>2, <2>1, <2>2, <2>3, <2>4, PlacementsFinite, SumAgree
  <2> QED
    BY <2>5 DEF w
<1> HIDE DEF firsts, seconds
<1>7. /\ IsCoefs(Total(firsts)) /\ IsCoefs(Total(seconds))
      /\ \A f : At(Total(firsts), f) = SumOver([x \in placed |-> At(firsts[x], f)], placed)
      /\ \A f : At(Total(seconds), f) = SumOver([x \in placed |-> At(seconds[x], f)], placed)
  BY <1>2, <1>4, <1>5, TotalAt
<1>8. IsPair(PsqOf(placed))
  BY <1>1, <1>7, PairParts DEF IsPair
<1>9. ASSUME NEW half \in BOOLEAN, NEW f
      PROVE  PairAt(PsqOf(placed), half, f) = SumOver(Costs(half, f), placed)
  <2>1. CASE half
    <3>1. [x \in placed |-> IF half THEN At(firsts[x], f) ELSE At(seconds[x], f)]
            = [x \in placed |-> At(firsts[x], f)]
      BY <2>1
    <3>2. At(Total(firsts), f) = SumOver([x \in placed |-> At(firsts[x], f)], placed)
      BY <1>7
    <3>3. SumOver([x \in placed |-> At(firsts[x], f)], placed) = SumOver(Costs(half, f), placed)
      BY <1>6, <3>1
    <3>4. PairAt(PsqOf(placed), half, f) = At(Total(firsts), f)
      BY <1>1, <2>1, PairParts DEF PairAt
    <3> QED
      BY <3>2, <3>3, <3>4
  <2>2. CASE ~half
    <3>1. [x \in placed |-> IF half THEN At(firsts[x], f) ELSE At(seconds[x], f)]
            = [x \in placed |-> At(seconds[x], f)]
      BY <2>2
    <3>2. At(Total(seconds), f) = SumOver([x \in placed |-> At(seconds[x], f)], placed)
      BY <1>7
    <3>3. SumOver([x \in placed |-> At(seconds[x], f)], placed) = SumOver(Costs(half, f), placed)
      BY <1>6, <3>1
    <3>4. PairAt(PsqOf(placed), half, f) = At(Total(seconds), f)
      BY <1>1, <2>2, PairParts DEF PairAt
    <3> QED
      BY <3>2, <3>3, <3>4
  <2> QED
    BY <2>1, <2>2
<1> QED
  BY <1>8, <1>9

-----------------------------------------------------------------------------
(* The tag, move by move *)

LEMMA SumOne ==
  ASSUME NEW U, IsFiniteSet(U), NEW w \in [U -> Int], NEW x \in U
  PROVE  SumOver(w, {x}) = w[x]
<1>1. SumOver(w, {}) = 0 /\ \A s \in SUBSET U : \A y \in s : SumOver(w, s) = SumOver(w, s \ {y}) + w[y]
  BY SumFacts
<1>2. {x} \in SUBSET U /\ x \in {x} /\ {x} \ {x} = {} /\ w[x] \in Int
  OBVIOUS
<1>3. SumOver(w, {x}) = SumOver(w, {x} \ {x}) + w[x]
  BY <1>1, <1>2
<1> QED
  BY <1>1, <1>2, <1>3

LEMMA SumPair ==
  ASSUME NEW U, IsFiniteSet(U), NEW w \in [U -> Int], NEW x \in U, NEW y \in U, x # y
  PROVE  SumOver(w, {x, y}) = w[x] + w[y]
<1>1. \A s \in SUBSET U : \A z \in s : SumOver(w, s) = SumOver(w, s \ {z}) + w[z]
  BY SumFacts
<1>2. {x, y} \in SUBSET U /\ y \in {x, y} /\ {x, y} \ {y} = {x}
  OBVIOUS
<1>3. SumOver(w, {x, y}) = SumOver(w, {x, y} \ {y}) + w[y]
  BY <1>1, <1>2
<1> QED
  BY <1>2, <1>3, SumOne

(* The pieces that stand on a board. *)
PlacedOn(cells) == {<<cells[x], x>> : x \in Coord}

LEMMA PlacedType ==
  ASSUME NEW cells \in Cells
  PROVE  PlacedOn(cells) \in SUBSET Placements
BY DEF PlacedOn, Cells, Placements

(* The pieces on some cells. *)
Placed(cells, s) == {<<cells[x], x>> : x \in s}

(* What is gone from one board, and what has come to the next. *)
Replaced(old, new, gone, come) ==
  /\ old \in Cells /\ new \in Cells /\ gone \in SUBSET Coord /\ come \in SUBSET gone
  /\ \A x \in Coord : x \in come \/ (x \in gone /\ new[x] = EmptyCell)
                                 \/ (x \notin gone /\ new[x] = old[x])

(* A weight in which empty cells count nothing. *)
Weighs(w) == w \in [Placements -> Int] /\ \A i \in Coord : w[<<EmptyCell, i>>] = 0

(* A sum over what stands on the board changes by what is gone and what has come. *)
LEMMA SumMoved ==
  ASSUME NEW w, Weighs(w), NEW old, NEW new, NEW gone, NEW come, Replaced(old, new, gone, come)
  PROVE  SumOver(w, PlacedOn(new)) = SumOver(w, PlacedOn(old)) - SumOver(w, Placed(old, gone))
                                                       + SumOver(w, Placed(new, come))
<1>0. /\ w \in [Placements -> Int] /\ \A i \in Coord : w[<<EmptyCell, i>>] = 0
      /\ old \in Cells /\ new \in Cells /\ gone \in SUBSET Coord /\ come \in SUBSET Coord
      /\ come \subseteq gone
      /\ \A x \in Coord : x \in come \/ (x \in gone /\ new[x] = EmptyCell)
                                        \/ (x \notin gone /\ new[x] = old[x])
  BY DEF Weighs, Replaced
<1> DEFINE G == {<<old[x], x>> : x \in gone}
           C == {<<new[x], x>> : x \in come}
           R == {<<old[x], x>> : x \in Coord \ gone}
<1>1. /\ G \in SUBSET Placements /\ C \in SUBSET Placements /\ R \in SUBSET Placements
      /\ PlacedOn(old) \in SUBSET Placements /\ PlacedOn(new) \in SUBSET Placements
  BY <1>0 DEF Cells, Placements, PlacedOn
<1>2. PlacedOn(old) = R \union G /\ R \cap G = {}
  BY <1>0 DEF PlacedOn
<1>3. R \union C \subseteq PlacedOn(new) /\ R \cap C = {}
  BY <1>0 DEF PlacedOn
<1>4. \A x \in PlacedOn(new) \ (R \union C) : w[x] = 0
  <2>1. ASSUME NEW i \in Coord, <<new[i], i>> \notin R \union C PROVE new[i] = EmptyCell
    BY <1>0, <2>1
  <2>2. ASSUME NEW x \in PlacedOn(new), x \notin R \union C PROVE w[x] = 0
    <3>1. PICK i \in Coord : x = <<new[i], i>>
      BY DEF PlacedOn
    <3>2. new[i] = EmptyCell
      BY <2>1, <2>2, <3>1
    <3> QED
      BY <1>0, <3>1, <3>2
  <2> QED
    BY <2>2
<1>5. SumOver(w, R) \in Int /\ SumOver(w, G) \in Int /\ SumOver(w, C) \in Int
  <2> HIDE DEF R, G, C
  <2> QED
    BY <1>0, <1>1, PlacementsFinite, SumFacts
<1> HIDE DEF R, G, C
<1>6. SumOver(w, R \union G) = SumOver(w, R) + SumOver(w, G) /\ SumOver(w, R \union C) = SumOver(w, R) + SumOver(w, C)
  BY <1>0, <1>1, <1>2, <1>3, PlacementsFinite, SumUnion
<1>7. R \union C \in SUBSET Placements
  BY <1>1
<1>8. SumOver(w, PlacedOn(new)) = SumOver(w, R \union C)
  BY <1>0, <1>1, <1>3, <1>4, <1>7, PlacementsFinite, SumSupport
<1>9. SumOver(w, PlacedOn(new)) = SumOver(w, PlacedOn(old)) - SumOver(w, G) + SumOver(w, C)
  BY <1>2, <1>5, <1>6, <1>8
<1> QED
  BY <1>9 DEF G, C, Placed

(* What Tag::updated() says of a move that is not castling. *)
LEMMA StepSums ==
  ASSUME NEW b, Fresh(b), NEW m, Makeable(b, m), m.kind \in StepKinds,
         NEW cells \in Cells, CellsMoved(b, m, cells), NEW w, Weighs(w)
  PROVE  /\ Gone(b, m) \in SUBSET Placements /\ Come(b, m) \in SUBSET Placements
         /\ SumOver(w, PlacedOn(cells)) = SumOver(w, PlacedOn(b.cells)) - SumOver(w, Gone(b, m))
                                                                + SumOver(w, Come(b, m))
<1> DEFINE taken == TakenPassing(b, m)
           gone == {m.src, m.dst} \union taken
           come == {m.dst}
<1>1. Stepped(b, m, cells) /\ b.cells \in Cells
  BY StepMoves, BoardFields DEF Fresh
<1>2. /\ m.src \in Coord /\ m.dst \in Coord /\ m.src # m.dst /\ taken \in SUBSET Coord
      /\ \A x \in taken : b.cells[x] = MakeCell(Invert(b.side), Pawn)
      /\ \A x \in Coord : x # m.dst =>
           cells[x] = IF x = m.src \/ x \in taken THEN EmptyCell ELSE b.cells[x]
  BY <1>1 DEF Stepped
<1>3. cells[m.dst] = IF m.kind \in PromoteKinds THEN MakeCell(b.side, PromotePiece(m.kind))
                                                ELSE b.cells[m.src]
  <2>1. CASE m.kind = "Simple"
    BY <1>1, <1>2, <2>1 DEF CellsMoved, PromoteKinds, Cells
  <2>2. CASE m.kind = "PawnDoubleMove"
    BY <1>1, <1>2, <2>2 DEF CellsMoved, PromoteKinds, Cells, Makeable
  <2>3. CASE m.kind \in PromoteKinds
    BY <1>1, <1>2, <2>3 DEF CellsMoved, Cells
  <2>4. CASE m.kind = "Enpassant"
    <3>1. m.dst \notin taken /\ taken = {EnpassantPawnPos(b.side, m.dst)}
      BY <1>1, <2>4 DEF Stepped, TakenPassing
    <3>2. cells[m.dst] = MakeCell(b.side, Pawn) /\ b.cells[m.src] = MakeCell(b.side, Pawn)
      BY <1>1, <1>2, <2>4, <3>1 DEF CellsMoved, Cells, Makeable
    <3> QED
      BY <2>4, <3>2 DEF PromoteKinds
  <2> QED
    BY <2>1, <2>2, <2>3, <2>4 DEF StepKinds
<1>4. Come(b, m) = Placed(cells, come)
  BY <1>3 DEF Come, Placed
<1>5. Gone(b, m) = Placed(b.cells, gone)
  <2>1. EnpassantVictim(b, m) = {<<b.cells[x], x>> : x \in taken}
    BY <1>2 DEF EnpassantVictim, TakenPassing
  <2> HIDE DEF taken
  <2> QED
    BY <2>1 DEF Gone, Placed
<1> HIDE DEF taken
<1>6. gone \in SUBSET Coord /\ come \in SUBSET Coord /\ Replaced(b.cells, cells, gone, come)
  BY <1>1, <1>2 DEF Replaced
<1> HIDE DEF gone, come
<1>7. SumOver(w, PlacedOn(cells)) = SumOver(w, PlacedOn(b.cells)) - SumOver(w, Placed(b.cells, gone))
                                                          + SumOver(w, Placed(cells, come))
  BY <1>6, SumMoved
<1>8. Gone(b, m) \in SUBSET Placements /\ Come(b, m) \in SUBSET Placements
  BY <1>1, <1>4, <1>5, <1>6 DEF Cells, Placements, Placed
<1> QED
  BY <1>4, <1>5, <1>7, <1>8

(* Castling: the king and the rook leave their cells and come to others. *)
LEMMA CastlingSums ==
  ASSUME NEW b, Fresh(b), NEW cells \in Cells, NEW o \in Int, NEW k, NEW f, NEW t,
         Castled(b, cells, o, k, f, t), NEW w, Weighs(w)
  PROVE  LET king == MakeCell(b.side, King)
             rook == MakeCell(b.side, Rook)
         IN  SumOver(w, PlacedOn(cells)) = SumOver(w, PlacedOn(b.cells))
                                         - (w[<<king, o + 4>>] + w[<<rook, f>>])
                                         + (w[<<king, k>>] + w[<<rook, t>>])
<1> DEFINE king == MakeCell(b.side, King)
           rook == MakeCell(b.side, Rook)
           e == o + 4
           gone == {e, f, k, t}
           come == {k, t}
<1>1. b.cells \in Cells /\ king \in Cell /\ rook \in Cell /\ king # rook
      /\ king # EmptyCell /\ rook # EmptyCell /\ EmptyCell \in Cell
  BY BoardFields, CellFacts, PieceFacts DEF Fresh
<1> HIDE DEF king, rook
<1>2. /\ e \in Coord /\ k \in Coord /\ f \in Coord /\ t \in Coord
      /\ b.cells[e] = king /\ b.cells[f] = rook /\ b.cells[k] = EmptyCell /\ b.cells[t] = EmptyCell
      /\ cells[k] = king /\ cells[t] = rook
      /\ \A x \in Coord : x # k /\ x # t =>
           cells[x] = IF x = e \/ x = f THEN EmptyCell ELSE b.cells[x]
  BY DEF Castled, king, rook
<1> HIDE DEF e
<1>3. k # t /\ e # f /\ e # k /\ e # t /\ f # k /\ f # t
  BY <1>1, <1>2
<1>4. SumOver(w, PlacedOn(cells)) = SumOver(w, PlacedOn(b.cells)) - SumOver(w, Placed(b.cells, gone))
                                                          + SumOver(w, Placed(cells, come))
  <2>1. Replaced(b.cells, cells, gone, come)
    BY <1>1, <1>2 DEF Replaced
  <2> HIDE DEF gone, come
  <2> QED
    BY <2>1, SumMoved
<1>5. Placed(cells, come) = {<<king, k>>, <<rook, t>>}
  BY <1>2 DEF Placed
<1> DEFINE left == {<<king, e>>, <<rook, f>>}
           void == {<<EmptyCell, k>>, <<EmptyCell, t>>}
<1>6. Placed(b.cells, gone) = left \union void
  BY <1>2 DEF Placed
<1>7. /\ <<king, e>> \in Placements /\ <<rook, f>> \in Placements
      /\ <<king, k>> \in Placements /\ <<rook, t>> \in Placements
      /\ <<EmptyCell, k>> \in Placements /\ <<EmptyCell, t>> \in Placements
      /\ <<king, e>> # <<rook, f>> /\ <<king, k>> # <<rook, t>> /\ <<EmptyCell, k>> # <<EmptyCell, t>>
      /\ left \cap void = {} /\ left \in SUBSET Placements /\ void \in SUBSET Placements
  BY <1>1, <1>2, <1>3 DEF Placements
<1>8. w \in [Placements -> Int] /\ \A i \in Coord : w[<<EmptyCell, i>>] = 0
  BY DEF Weighs
<1>9. /\ SumOver(w, left) = w[<<king, e>>] + w[<<rook, f>>]
      /\ SumOver(w, {<<king, k>>, <<rook, t>>}) = w[<<king, k>>] + w[<<rook, t>>]
      /\ SumOver(w, void) = w[<<EmptyCell, k>>] + w[<<EmptyCell, t>>]
  BY <1>7, <1>8, PlacementsFinite, SumPair
<1>10. /\ w[<<king, e>>] \in Int /\ w[<<rook, f>>] \in Int
       /\ w[<<EmptyCell, k>>] = 0 /\ w[<<EmptyCell, t>>] = 0
  BY <1>2, <1>7, <1>8
<1> HIDE DEF left, void, gone, come
<1>11. SumOver(w, left \union void) = SumOver(w, left) + SumOver(w, void)
  BY <1>7, <1>8, PlacementsFinite, SumUnion
<1>12. SumOver(w, left \union void) = w[<<king, e>>] + w[<<rook, f>>]
  BY <1>9, <1>10, <1>11
<1>13. SumOver(w, PlacedOn(cells)) = SumOver(w, PlacedOn(b.cells)) - (w[<<king, e>>] + w[<<rook, f>>])
                                                           + (w[<<king, k>>] + w[<<rook, t>>])
  BY <1>4, <1>5, <1>6, <1>9, <1>12
<1> QED
  BY <1>13 DEF king, rook, e

(* The cost of a piece of the first row, as White's on the last. *)
LEMMA HomeCost ==
  ASSUME NEW half \in BOOLEAN, NEW f, NEW c \in Color, NEW p \in Piece, NEW y \in Subcoord
  PROVE  /\ CastlingOffset(c) + y \in Coord /\ MakeCoord(7, y) \in Coord
         /\ Costs(half, f)[<<MakeCell(c, p), CastlingOffset(c) + y>>]
              = Sign(c) * Costs(half, f)[<<MakeCell(White, p), MakeCoord(7, y)>>]
<1> DEFINE i == CastlingOffset(c) + y
           h == MakeCoord(7, y)
           W == PairAt(PsqWhite(p, h), half, f)
<1>1. /\ i \in Coord /\ h \in Coord
      /\ c = White => i = h
      /\ c # White => FlipX(i) = h
  <2>1. c = White \/ c = Black
    BY DEF Color
  <2>2. CASE c = White
    BY <2>2 DEF CastlingOffset, CastlingRow, White, Black, MakeCoord, Coord, Subcoord
  <2>3. CASE c = Black
    <3>1. i = y /\ h = 56 + y /\ i \in Coord /\ h \in Coord
      BY <2>3 DEF CastlingOffset, CastlingRow, White, Black, MakeCoord, Coord, Subcoord
    <3>2. CoordX(i) = 0 /\ CoordY(i) = y
      BY <3>1 DEF CoordX, CoordY, Subcoord
    <3> QED
      BY <2>3, <3>1, <3>2 DEF FlipX, MakeCoord, White, Black
  <2> QED
    BY <2>1, <2>2, <2>3
<1>2. White \in Color /\ Sign(White) = 1
  BY DEF Color, Sign
<1> HIDE DEF i, h
<1>3. Costs(half, f)[<<MakeCell(c, p), i>>]
        = Sign(c) * PairAt(PsqWhite(p, IF c = White THEN i ELSE FlipX(i)), half, f)
  BY <1>1, CostsFacts
<1>4. Costs(half, f)[<<MakeCell(White, p), h>>] = Sign(White) * W
  BY <1>1, <1>2, CostsFacts
<1>5. W \in Int
  BY PsqWhitePair, PairType
<1>6. (IF c = White THEN i ELSE FlipX(i)) = h
  BY <1>1
<1>7. Costs(half, f)[<<MakeCell(c, p), i>>] = Sign(c) * W
  BY <1>3, <1>6
<1>8. Costs(half, f)[<<MakeCell(White, p), h>>] = W
  <2> HIDE DEF W
  <2> QED
    BY <1>2, <1>4, <1>5
<1> QED
  BY <1>1, <1>7, <1>8 DEF i, h

(* What the tables say of castling: king and rook at their new cells less king *)
(* and rook at the old ones.                                                   *)
LEMMA CastlingUpdateAt ==
  ASSUME NEW c \in Color, NEW kd \in Subcoord, NEW rs \in Subcoord, NEW rd \in Subcoord
  PROVE  LET u == CastlingUpdate(kd, rs, rd)[c]
             o == CastlingOffset(c)
             king == MakeCell(c, King)
             rook == MakeCell(c, Rook)
         IN  /\ IsPair(u)
             /\ \A half \in BOOLEAN : \A f :
                  PairAt(u, half, f) = (Costs(half, f)[<<king, o + kd>>] + Costs(half, f)[<<rook, o + rd>>])
                                     - (Costs(half, f)[<<king, o + 4>>] + Costs(half, f)[<<rook, o + rs>>])
<1> DEFINE king(y) == <<MakeCell(White, King), MakeCoord(7, y)>>
           rook(y) == <<MakeCell(White, Rook), MakeCoord(7, y)>>
           update == SubPair(PsqOf({king(kd), rook(rd)}), PsqOf({king(4), rook(rs)}))
           u == CastlingUpdate(kd, rs, rd)[c]
           o == CastlingOffset(c)
<1>1. u = TimesPair(update, Sign(c))
  BY DEF CastlingUpdate
<1>2. 4 \in Subcoord /\ White \in Color /\ King \in Piece /\ Rook \in Piece
      /\ MakeCell(White, King) # MakeCell(White, Rook)
      /\ MakeCell(White, King) \in Cell /\ MakeCell(White, Rook) \in Cell
  BY CellFacts, PieceFacts DEF Subcoord, Color
<1>3. \A y \in Subcoord : MakeCoord(7, y) \in Coord
  BY DEF MakeCoord, Coord, Subcoord
<1>4. /\ king(kd) \in Placements /\ rook(rd) \in Placements /\ king(kd) # rook(rd)
      /\ king(4) \in Placements /\ rook(rs) \in Placements /\ king(4) # rook(rs)
  BY <1>2, <1>3 DEF Placements
<1> HIDE DEF king, rook
<1>5. {king(kd), rook(rd)} \in SUBSET Placements /\ {king(4), rook(rs)} \in SUBSET Placements
  BY <1>4
<1>6. /\ IsPair(PsqOf({king(kd), rook(rd)})) /\ IsPair(PsqOf({king(4), rook(rs)}))
      /\ \A half \in BOOLEAN : \A f :
           /\ PairAt(PsqOf({king(kd), rook(rd)}), half, f) = SumOver(Costs(half, f), {king(kd), rook(rd)})
           /\ PairAt(PsqOf({king(4), rook(rs)}), half, f) = SumOver(Costs(half, f), {king(4), rook(rs)})
  BY <1>5, PsqOfAt
<1>7. IsPair(update) /\ \A half \in BOOLEAN : \A f :
        PairAt(update, half, f) = SumOver(Costs(half, f), {king(kd), rook(rd)})
                                    - SumOver(Costs(half, f), {king(4), rook(rs)})
  BY <1>6, SubPairAt
<1>8. Sign(c) \in {1, -1}
  BY DEF Sign
<1> HIDE DEF update, u
<1>9. IsPair(u) /\ \A half \in BOOLEAN : \A f :
        PairAt(u, half, f) = Sign(c) * PairAt(update, half, f)
  <2>1. Sign(c) \in Int
    BY <1>8
  <2> QED
    BY <1>1, <1>7, <2>1, TimesPairAt
<1>10. ASSUME NEW half \in BOOLEAN, NEW f
       PROVE  PairAt(u, half, f)
                = (Costs(half, f)[<<MakeCell(c, King), o + kd>>] + Costs(half, f)[<<MakeCell(c, Rook), o + rd>>])
                - (Costs(half, f)[<<MakeCell(c, King), o + 4>>] + Costs(half, f)[<<MakeCell(c, Rook), o + rs>>])
  <2> DEFINE w == Costs(half, f)
             s == Sign(c)
  <2>1. w \in [Placements -> Int]
    BY CostsFacts
  <2>2. /\ w[<<MakeCell(c, King), o + kd>>] = s * w[king(kd)]
        /\ w[<<MakeCell(c, Rook), o + rd>>] = s * w[rook(rd)]
        /\ w[<<MakeCell(c, King), o + 4>>] = s * w[king(4)]
        /\ w[<<MakeCell(c, Rook), o + rs>>] = s * w[rook(rs)]
    BY <1>2, HomeCost DEF king, rook
  <2> HIDE DEF w
  <2>3. /\ SumOver(w, {king(kd), rook(rd)}) = w[king(kd)] + w[rook(rd)]
        /\ SumOver(w, {king(4), rook(rs)}) = w[king(4)] + w[rook(rs)]
    BY <1>4, <2>1, SumPair, PlacementsFinite
  <2>4. PairAt(u, half, f) = s * ((w[king(kd)] + w[rook(rd)]) - (w[king(4)] + w[rook(rs)]))
    BY <1>7, <1>9, <2>3 DEF w
  <2>5. w[king(kd)] \in Int /\ w[rook(rd)] \in Int /\ w[king(4)] \in Int /\ w[rook(rs)] \in Int
    BY <1>4, <2>1
  <2> HIDE DEF s
  <2>6. s = 1 \/ s = -1
    BY <1>8 DEF s
  <2>7. PairAt(u, half, f)
           = (w[<<MakeCell(c, King), o + kd>>] + w[<<MakeCell(c, Rook), o + rd>>])
           - (w[<<MakeCell(c, King), o + 4>>] + w[<<MakeCell(c, Rook), o + rs>>])
    BY <2>2, <2>4, <2>5, <2>6
  <2> QED
    BY <2>7 DEF w
<1> QED
  BY <1>9, <1>10 DEF u

(* How far the game has come: the sum of what the pieces count for it. *)
Stages == [x \in Placements |-> STAGES[x[1]]]

LEMMA StagesFacts ==
  /\ Stages \in [Placements -> Int]
  /\ \A i \in Coord : Stages[<<EmptyCell, i>>] = 0
  /\ \A c \in Color, p \in {King, Rook}, i \in Coord, j \in Coord :
       Stages[<<MakeCell(c, p), i>>] = Stages[<<MakeCell(c, p), j>>]
<1>1. ASSUME NEW cell \in Cell PROVE STAGES[cell] \in Int
  <2>1. CASE cell = EmptyCell
    BY <2>1 DEF STAGES
  <2>2. CASE cell # EmptyCell
    <3>1. CellPiece(cell) \in Piece
      BY <2>2 DEF Cell, CellPiece, Piece, EmptyCell
    <3>2. CellPiece(cell) \in {Pawn, King} \/ CellPiece(cell) \in {Knight, Bishop}
            \/ CellPiece(cell) = Rook \/ CellPiece(cell) = Queen
      BY <3>1 DEF Piece, Pawn, King, Knight, Bishop, Rook, Queen
    <3> DEFINE p == CellPiece(cell)
    <3>3. STAGES[cell] = CASE p \in {Pawn, King} -> 0
                           [] p \in {Knight, Bishop} -> 1
                           [] p = Rook -> 2
                           [] p = Queen -> 4
      BY <2>2 DEF STAGES
    <3> HIDE DEF p
    <3>4. p \in {Pawn, King} \/ p \in {Knight, Bishop} \/ p = Rook \/ p = Queen
      BY <3>2 DEF p
    <3> QED
      BY <3>3, <3>4 DEF Pawn, King, Knight, Bishop, Rook, Queen
  <2> QED
    BY <2>1, <2>2
<1>2. Stages \in [Placements -> Int]
  BY <1>1 DEF Stages, Placements
<1>3. \A cell \in Cell, i \in Coord : Stages[<<cell, i>>] = STAGES[cell]
  BY DEF Stages, Placements
<1>4. EmptyCell \in Cell /\ STAGES[EmptyCell] = 0
  BY CellFacts DEF STAGES
<1>5. \A c \in Color, p \in {King, Rook} : MakeCell(c, p) \in Cell
  BY CellFacts, PieceFacts
<1> QED
  BY <1>2, <1>3, <1>4, <1>5

LEMMA StageOfSum ==
  ASSUME NEW placed \in SUBSET Placements
  PROVE  StageOf(placed) = SumOver(Stages, placed)
<1> DEFINE pick(s) == CHOOSE x \in s : TRUE
           IsFold(g) == g = [s \in SUBSET placed |->
                               IF s = {} THEN 0 ELSE g[s \ {pick(s)}] + STAGES[pick(s)[1]]]
           iter == CHOOSE g : IsFold(g)
           h == [s \in SUBSET placed |-> SumOver(Stages, s)]
<1>1. StageOf(placed) = iter[placed]
  BY DEF StageOf, FoldSet, MapThenFoldSet
<1>2. \A s \in SUBSET placed : s # {} => /\ pick(s) \in s /\ pick(s) \in placed
                                         /\ Stages[pick(s)] = STAGES[pick(s)[1]]
  BY DEF Stages
<1> HIDE DEF pick
<1>3. Stages \in [Placements -> Int]
  BY StagesFacts
<1>4. IsFold(h)
  <2>1. ASSUME NEW s \in SUBSET placed
        PROVE  h[s] = IF s = {} THEN 0 ELSE h[s \ {pick(s)}] + STAGES[pick(s)[1]]
    <3>1. SumOver(Stages, {}) = 0
      BY <1>3, PlacementsFinite, SumFacts
    <3>2. CASE s # {}
      <4>1. pick(s) \in s /\ Stages[pick(s)] = STAGES[pick(s)[1]] /\ s \in SUBSET Placements
        BY <1>2, <3>2
      <4>2. SumOver(Stages, s) = SumOver(Stages, s \ {pick(s)}) + Stages[pick(s)]
        BY <1>3, <4>1, PlacementsFinite, SumFacts
      <4> QED
        BY <3>2, <4>1, <4>2
    <3> QED
      BY <3>1, <3>2
  <2> QED
    BY <2>1
<1>5. IsFold(iter)
  BY <1>4
<1> HIDE DEF iter, h
<1>6. iter = [s \in SUBSET placed |->
                IF s = {} THEN 0 ELSE iter[s \ {pick(s)}] + Stages[pick(s)]]
  BY <1>2, <1>5
<1>7. FoldsUp(iter, placed, Stages)
  BY <1>6 DEF FoldsUp, pick
<1>8. iter[placed] = SumOver(Stages, placed)
  BY <1>3, <1>7, PlacementsFinite, FoldIsSum
<1> QED
  BY <1>1, <1>8

(* A tag says what update() would compute it to be. *)
LEMMA TagOf ==
  ASSUME NEW b, b.cells \in Cells
  PROVE  /\ TagFrom(b) = Tag(PsqOf(PlacedOn(b.cells)), StageOf(PlacedOn(b.cells)))
         /\ TagFrom(b).psqCost = PsqOf(PlacedOn(b.cells))
         /\ TagFrom(b).stage = SumOver(Stages, PlacedOn(b.cells))
<1>1. TagFrom(b) = Tag(PsqOf(PlacedOn(b.cells)), StageOf(PlacedOn(b.cells)))
  BY DEF TagFrom, PlacedOn
<1> QED
  BY <1>1, PlacedType, StageOfSum DEF Tag

(* Updated by a move, the tag of a board is the tag of the board the move makes. *)
THEOREM TagFollowsMove ==
  ASSUME NEW b, Fresh(b), NEW m, Makeable(b, m)
  PROVE  TagUpdated(TagFrom(b), b, m) = TagFrom(MoveMake(b, m))
<1> DEFINE r == MoveMake(b, m)
           old == PlacedOn(b.cells)
           new == PlacedOn(r.cells)
           o == CastlingOffset(b.side)
           king == MakeCell(b.side, King)
           rook == MakeCell(b.side, Rook)
<1>1. /\ b.cells \in Cells /\ r.cells \in Cells /\ b.side \in Color
      /\ CellsMoved(b, m, r.cells)
  BY MoveMade, BoardFields DEF Fresh
<1> HIDE DEF r
<1>2. /\ TagFrom(b).psqCost = PsqOf(old) /\ TagFrom(b).stage = SumOver(Stages, old)
      /\ TagFrom(r) = Tag(PsqOf(new), StageOf(new)) /\ StageOf(new) = SumOver(Stages, new)
      /\ TagFrom(b) = Tag(PsqOf(old), StageOf(old)) /\ StageOf(old) = SumOver(Stages, old)
  BY <1>1, TagOf, PlacedType, StageOfSum
<1>3. old \in SUBSET Placements /\ new \in SUBSET Placements
  BY <1>1, PlacedType
<1>4. /\ IsPair(PsqOf(old)) /\ IsPair(PsqOf(new))
      /\ \A half \in BOOLEAN : \A f : /\ PairAt(PsqOf(old), half, f) = SumOver(Costs(half, f), old)
                                      /\ PairAt(PsqOf(new), half, f) = SumOver(Costs(half, f), new)
  BY <1>3, PsqOfAt
<1>5. \A half \in BOOLEAN : \A f : Costs(half, f) \in [Placements -> Int] /\ Weighs(Costs(half, f))
  BY CostsFacts DEF Weighs
<1>6. Stages \in [Placements -> Int] /\ Weighs(Stages)
  BY StagesFacts DEF Weighs
<1> HIDE DEF old, new
<1>7. CASE m.kind \in StepKinds
  <2> DEFINE gone == Gone(b, m)
             come == Come(b, m)
             cost == AddPair(SubPair(PsqOf(old), PsqOf(gone)), PsqOf(come))
  <2>1. TagUpdated(TagFrom(b), b, m)
          = Tag(AddPair(SubPair(TagFrom(b).psqCost, PsqOf(gone)), PsqOf(come)),
                TagFrom(b).stage - StageOf(gone) + StageOf(come))
    BY <1>7 DEF TagUpdated, StepKinds, PromoteKinds
  <2>2. gone \in SUBSET Placements /\ come \in SUBSET Placements
    BY <1>1, <1>6, <1>7, StepSums
  <2>3. \A half \in BOOLEAN : \A f :
          SumOver(Costs(half, f), new) = SumOver(Costs(half, f), old) - SumOver(Costs(half, f), gone)
                                                              + SumOver(Costs(half, f), come)
    BY <1>1, <1>5, <1>7, StepSums DEF old, new
  <2>4. SumOver(Stages, new) = SumOver(Stages, old) - SumOver(Stages, gone) + SumOver(Stages, come)
    BY <1>1, <1>6, <1>7, StepSums DEF old, new
  <2> HIDE DEF gone, come
  <2>5. StageOf(gone) = SumOver(Stages, gone) /\ StageOf(come) = SumOver(Stages, come)
    BY <2>2, StageOfSum
  <2>6. /\ IsPair(PsqOf(gone)) /\ IsPair(PsqOf(come))
        /\ \A half \in BOOLEAN : \A f : /\ PairAt(PsqOf(gone), half, f) = SumOver(Costs(half, f), gone)
                                        /\ PairAt(PsqOf(come), half, f) = SumOver(Costs(half, f), come)
    BY <2>2, PsqOfAt
  <2>7. IsPair(SubPair(PsqOf(old), PsqOf(gone)))
        /\ \A half \in BOOLEAN : \A f :
             PairAt(SubPair(PsqOf(old), PsqOf(gone)), half, f)
               = PairAt(PsqOf(old), half, f) - PairAt(PsqOf(gone), half, f)
    BY <1>4, <2>6, SubPairAt
  <2>8. IsPair(cost)
        /\ \A half \in BOOLEAN : \A f :
             PairAt(cost, half, f) = PairAt(SubPair(PsqOf(old), PsqOf(gone)), half, f)
                                       + PairAt(PsqOf(come), half, f)
    BY <2>6, <2>7, AddPairAt
  <2> HIDE DEF cost
  <2>9. \A half \in BOOLEAN : \A f : PairAt(cost, half, f) = PairAt(PsqOf(new), half, f)
    BY <1>4, <2>3, <2>6, <2>7, <2>8
  <2>10. cost = PsqOf(new)
    BY <1>4, <2>8, <2>9, PairsAgree
  <2> QED
    BY <1>2, <2>1, <2>4, <2>5, <2>10 DEF cost, r
<1>8. ASSUME NEW u, NEW k \in Coord, NEW f \in Coord, NEW t \in Coord,
             IsPair(u), Castled(b, r.cells, o, k, f, t),
             \A half \in BOOLEAN : \A g :
               PairAt(u, half, g) = (Costs(half, g)[<<king, k>>] + Costs(half, g)[<<rook, t>>])
                                  - (Costs(half, g)[<<king, o + 4>>] + Costs(half, g)[<<rook, f>>])
      PROVE  Tag(AddPair(TagFrom(b).psqCost, u), TagFrom(b).stage) = TagFrom(r)
  <2> DEFINE cost == AddPair(PsqOf(old), u)
  <2>1. o \in Int /\ o + 4 \in Coord /\ king \in Cell /\ rook \in Cell
    <3>1. o = 0 \/ o = 56
      BY <1>1, CastlingCells
    <3> QED
      BY <1>1, <3>1, CellFacts, PieceFacts DEF Coord
  <2> HIDE DEF king, rook, o
  <2>2. /\ <<king, k>> \in Placements /\ <<rook, t>> \in Placements
        /\ <<king, o + 4>> \in Placements /\ <<rook, f>> \in Placements
    BY <2>1 DEF Placements
  <2>3. \A half \in BOOLEAN : \A g :
          SumOver(Costs(half, g), new) = SumOver(Costs(half, g), old)
            - (Costs(half, g)[<<king, o + 4>>] + Costs(half, g)[<<rook, f>>])
            + (Costs(half, g)[<<king, k>>] + Costs(half, g)[<<rook, t>>])
    BY <1>1, <1>5, <1>8, <2>1, CastlingSums DEF old, new, king, rook
  <2>4. SumOver(Stages, new) = SumOver(Stages, old)
            - (Stages[<<king, o + 4>>] + Stages[<<rook, f>>])
            + (Stages[<<king, k>>] + Stages[<<rook, t>>])
    BY <1>1, <1>6, <1>8, <2>1, CastlingSums DEF old, new, king, rook
  <2>5. Stages[<<king, o + 4>>] = Stages[<<king, k>>] /\ Stages[<<rook, f>>] = Stages[<<rook, t>>]
    BY <1>1, <2>1, StagesFacts DEF king, rook
  <2>6. SumOver(Stages, new) = SumOver(Stages, old)
    <3>1. Stages[<<king, k>>] \in Int /\ Stages[<<rook, t>>] \in Int
      BY <1>6, <2>2
    <3>2. SumOver(Stages, old) \in Int
      BY <1>3, <1>6, PlacementsFinite, SumFacts
    <3> QED
      BY <2>4, <2>5, <3>1, <3>2
  <2>7. IsPair(cost) /\ \A half \in BOOLEAN : \A g :
          PairAt(cost, half, g) = PairAt(PsqOf(old), half, g) + PairAt(u, half, g)
    BY <1>4, <1>8, AddPairAt
  <2> HIDE DEF cost
  <2>8. ASSUME NEW half \in BOOLEAN, NEW g PROVE PairAt(cost, half, g) = PairAt(PsqOf(new), half, g)
    <3> DEFINE w == Costs(half, g)
    <3>1. /\ w[<<king, k>>] \in Int /\ w[<<rook, t>>] \in Int
          /\ w[<<king, o + 4>>] \in Int /\ w[<<rook, f>>] \in Int
      BY <1>5, <2>2
    <3>2. SumOver(w, old) \in Int
      BY <1>3, <1>5, PlacementsFinite, SumFacts
    <3>3. /\ PairAt(cost, half, g) = PairAt(PsqOf(old), half, g) + PairAt(u, half, g)
          /\ PairAt(PsqOf(old), half, g) = SumOver(w, old) /\ PairAt(PsqOf(new), half, g) = SumOver(w, new)
          /\ PairAt(u, half, g) = (w[<<king, k>>] + w[<<rook, t>>]) - (w[<<king, o + 4>>] + w[<<rook, f>>])
          /\ SumOver(w, new) = SumOver(w, old) - (w[<<king, o + 4>>] + w[<<rook, f>>])
                                       + (w[<<king, k>>] + w[<<rook, t>>])
      BY <1>4, <1>8, <2>3, <2>7 DEF king, rook, o
    <3> HIDE DEF w
    <3> QED
      BY <3>1, <3>2, <3>3
  <2>9. cost = PsqOf(new)
    BY <1>4, <2>7, <2>8, PairsAgree
  <2> QED
    BY <1>2, <2>6, <2>9 DEF cost
<1>9. CASE m.kind = "CastlingKingside"
  <2>1. Castled(b, r.cells, o, o + 6, o + 7, o + 5)
    BY <1>1, <1>9, CastlingLeaves
  <2>2. 6 \in Subcoord /\ 7 \in Subcoord /\ 5 \in Subcoord
    BY DEF Subcoord
  <2>3. /\ IsPair(PSQ_KINGSIDE_UPD[b.side])
        /\ \A half \in BOOLEAN : \A g :
             PairAt(PSQ_KINGSIDE_UPD[b.side], half, g)
               = (Costs(half, g)[<<king, o + 6>>] + Costs(half, g)[<<rook, o + 5>>])
               - (Costs(half, g)[<<king, o + 4>>] + Costs(half, g)[<<rook, o + 7>>])
    BY <1>1, <2>2, CastlingUpdateAt DEF PSQ_KINGSIDE_UPD
  <2>4. TagUpdated(TagFrom(b), b, m)
          = Tag(AddPair(TagFrom(b).psqCost, PSQ_KINGSIDE_UPD[b.side]), TagFrom(b).stage)
    BY <1>9 DEF TagUpdated
  <2>5. o + 6 \in Coord /\ o + 7 \in Coord /\ o + 5 \in Coord
    BY <2>1 DEF Castled
  <2>6. Tag(AddPair(TagFrom(b).psqCost, PSQ_KINGSIDE_UPD[b.side]), TagFrom(b).stage) = TagFrom(r)
    BY <1>8, <2>1, <2>3, <2>5
  <2> QED
    BY <2>4, <2>6 DEF r
<1>10. CASE m.kind = "CastlingQueenside"
  <2>1. Castled(b, r.cells, o, o + 2, o, o + 3)
    BY <1>1, <1>10, CastlingLeaves
  <2>2. 2 \in Subcoord /\ 0 \in Subcoord /\ 3 \in Subcoord
    BY DEF Subcoord
  <2>3. /\ IsPair(PSQ_QUEENSIDE_UPD[b.side])
        /\ \A half \in BOOLEAN : \A g :
             PairAt(PSQ_QUEENSIDE_UPD[b.side], half, g)
               = (Costs(half, g)[<<king, o + 2>>] + Costs(half, g)[<<rook, o + 3>>])
               - (Costs(half, g)[<<king, o + 4>>] + Costs(half, g)[<<rook, o + 0>>])
    BY <1>1, <2>2, CastlingUpdateAt DEF PSQ_QUEENSIDE_UPD
  <2>4. TagUpdated(TagFrom(b), b, m)
          = Tag(AddPair(TagFrom(b).psqCost, PSQ_QUEENSIDE_UPD[b.side]), TagFrom(b).stage)
    BY <1>10 DEF TagUpdated
  <2>5. o + 2 \in Coord /\ o \in Coord /\ o + 3 \in Coord /\ o + 0 = o
    <3>1. o = 0 \/ o = 56
      BY <1>1, CastlingCells
    <3> QED
      BY <3>1 DEF Coord
  <2>6. Tag(AddPair(TagFrom(b).psqCost, PSQ_QUEENSIDE_UPD[b.side]), TagFrom(b).stage) = TagFrom(r)
    BY <1>8, <2>1, <2>3, <2>5
  <2> QED
    BY <2>4, <2>6 DEF r
<1>11. CASE m.kind = "Null"
  <2>1. r.cells = b.cells
    BY <1>1, <1>11 DEF CellsMoved
  <2>2. new = old
    BY <2>1 DEF new, old
  <2>3. TagUpdated(TagFrom(b), b, m) = TagFrom(b)
    BY <1>11 DEF TagUpdated
  <2> QED
    BY <1>2, <2>2, <2>3 DEF r
<1> QED
  BY <1>7, <1>9, <1>10, <1>11 DEF Makeable, MoveKinds, StepKinds

-----------------------------------------------------------------------------
(* The walk of the self-tests *)

(* What update() makes of a position is fresh. *)
LEMMA UpdateFresh ==
  ASSUME NEW a, a.cells \in Cells, a.side \in Color, a.castling \in Flags,
         a.enpassantCoord \in MaybeCoord, a.moveCounter \in Counter, a.moveNumber \in Counter,
         a.enpassantCoord # InvalidCoord => CoordX(a.enpassantCoord) = EnpassantSrcRow(a.side)
  PROVE  Fresh(Update(a))
<1> DEFINE u == Update(a)
           ep == FixedEnpassant(a.cells, a.side, a.enpassantCoord)
           castling == FixedCastling(a.cells, a.castling)
           colors == [c \in Color |-> Occupied(a.cells, c)]
           pieces == [p \in BbIndex |-> {x \in Coord : p # EmptyCell /\ a.cells[x] = p}]
<1>1. /\ u.cells = a.cells /\ u.side = a.side /\ u.castling = castling
      /\ u.enpassantCoord = ep
      /\ u.hash = FreshHash(a.cells, a.side, castling, ep)
      /\ u.bbColor = colors /\ u.bbPieces = pieces
      /\ u.bbAll = Occupied(a.cells, White) \cup Occupied(a.cells, Black)
  BY DEF Update
<1>2. castling \in Flags /\ ep \in MaybeCoord
  BY DEF FixedCastling, FixedEnpassant, Flags, MaybeCoord
<1>3. u \in Board
  <2>1. FreshHash(a.cells, a.side, castling, ep) \in Hash
    BY <1>2, FreshHashType
  <2>2. colors \in ColorBitboards /\ pieces \in PieceBitboards
    BY FreshBitboards
  <2>3. Occupied(a.cells, White) \cup Occupied(a.cells, Black) \in Bitboard
    BY FreshBitboards DEF Bitboard
  <2> HIDE DEF castling, ep, colors, pieces
  <2> QED
    BY <1>2, <2>1, <2>2, <2>3 DEF Update, Board, castling, ep, colors, pieces
<1>4. FixedCastling(a.cells, castling) = castling
  BY DEF FixedCastling
<1>5. /\ FixedEnpassant(a.cells, a.side, ep) = ep
      /\ ep # InvalidCoord => CoordX(ep) = EnpassantSrcRow(a.side)
  BY DEF FixedEnpassant
<1>6. White \in Color /\ Black \in Color
  BY DEF Color
<1> HIDE DEF u, ep, castling
<1>7. BitboardsKept(u) /\ u.bbAll = u.bbColor[White] \cup u.bbColor[Black]
  BY <1>1, <1>6 DEF BitboardsKept
<1>8. HashKept(u) /\ FlagsKept(u) /\ EnpassantKept(u)
  BY <1>1, <1>4, <1>5 DEF HashKept, FlagsKept, EnpassantKept
<1> QED
  BY <1>3, <1>7, <1>8, FreshParts DEF u

(* Reading a position ends with update(), and so leaves nothing stale. *)
LEMMA ReadFresh ==
  ASSUME NEW t \in Tests
  PROVE  Fresh(FromFen(t.fen))
<1> DEFINE f == t.fen
           ep == IF f.enpassant = None THEN InvalidCoord
                 ELSE MakeCoord(EnpassantSrcRow(f.side), f.enpassant[1])
           cells == ReadCells(f.cells).cells
           castling == {f.castling[i] : i \in DOMAIN f.castling}
           a == Essential(cells, f.side, castling, ep, f.moveCounter, f.moveNumber)
<1>1. /\ cells \in Cells /\ f.side \in Color /\ castling \in Flags
      /\ f.enpassant # None => f.enpassant[1] \in Subcoord
      /\ f.moveCounter \in Counter /\ f.moveNumber \in Counter
  BY TestsAssumption DEF Flags
<1>2. /\ ep \in MaybeCoord
      /\ ep # InvalidCoord => CoordX(ep) = EnpassantSrcRow(f.side)
  <2>1. ASSUME NEW y \in Subcoord
        PROVE  LET x == MakeCoord(EnpassantSrcRow(f.side), y)
               IN  x \in Coord /\ CoordX(x) = EnpassantSrcRow(f.side)
    BY <1>1 DEF Subcoord, MakeCoord, EnpassantSrcRow, Coord, CoordX
  <2>2. CASE f.enpassant = None
    BY <2>2 DEF MaybeCoord
  <2>3. CASE f.enpassant # None
    BY <1>1, <2>1, <2>3 DEF MaybeCoord
  <2> QED
    BY <2>2, <2>3
<1>3. FromFen(f) = Update(a)
  BY DEF FromFen
<1> HIDE DEF cells, castling, ep
<1>4. /\ a.cells = cells /\ a.side = f.side /\ a.castling = castling
      /\ a.enpassantCoord = ep /\ a.moveCounter = f.moveCounter /\ a.moveNumber = f.moveNumber
  BY DEF Essential
<1> HIDE DEF a
<1> QED
  BY <1>1, <1>2, <1>3, <1>4, UpdateFresh

(* A record of how a board was made from another, with all it takes to go back. *)
Undoable(u, made) ==
  /\ Sound(u.before) /\ Makeable(u.before, u.move)
  /\ u.p = Persistence(u.before, u.move)
  /\ made = MoveMake(u.before, u.move)

IsFrame(f) == f = [todo |-> f.todo, depth |-> f.depth, tag |-> f.tag, undo |-> f.undo]

(* The board on which the call of frame i goes on. *)
BoardOf(i) == IF i = Len(frames) THEN core ELSE frames[i + 1].undo.before

(* Every frame but the first can be undone, from the board the next one left, and *)
(* its tag is what the board says.                                                *)
Chained ==
  /\ frames \in Seq(Range(frames)) /\ Len(frames) \in Nat \ {0}
  /\ \A i \in 1..Len(frames) : IsFrame(frames[i]) /\ frames[i].tag = TagFrom(BoardOf(i))
  /\ \A i \in 2..Len(frames) : Undoable(frames[i].undo, BoardOf(i))
  /\ Sound(core)

(* Going back from a board arrives at the one before. *)
LEMMA Undone ==
  ASSUME NEW u, NEW made, Undoable(u, made)
  PROVE  MoveUnmake(made, u.move, u.p) = u.before
BY MoveUnmade DEF Undoable, Sound

(* One engine's attempt: a move made, or the board as it was. *)
LEMMA CoreTried ==
  ASSUME Sound(core), NEW text, NEW c, NEW d,
         c = NotGenerated(core) \/ \E m \in CoreMoves(text) : c = CoreTry(m)
  PROVE  /\ c.made \in BOOLEAN
         /\ c.made =>
              /\ Sound(c.board) /\ Makeable(core, c.move) /\ c.p = Persistence(core, c.move)
              /\ c.board = MoveMake(core, c.move)
         /\ c.made /\ d.made => CoreAgreed(c, d) = c.board
         /\ ~(c.made /\ d.made) => CoreAgreed(c, d) = core
<1>1. CASE c = NotGenerated(core)
  BY <1>1 DEF NotGenerated, CoreAgreed
<1>2. CASE \E m \in CoreMoves(text) : c = CoreTry(m)
  <2>1. PICK m \in GenAllMoves(core) \cup {NullMove} : c = CoreTry(m)
    BY <1>2 DEF CoreMoves
  <2>2. Makeable(core, m)
    BY <2>1, GeneratedMakeable DEF Sound
  <2> DEFINE made == MoveMake(core, m)
             p == Persistence(core, m)
  <2>3. /\ MoveUnmake(made, m, p) = core
        /\ WasMoveLegal(made) => Sound(made)
    BY <2>1, <2>2, MoveUnmade, MoveKeepsSound DEF Sound
  <2>4. c = IF WasMoveLegal(made)
            THEN [made |-> TRUE, board |-> made, move |-> m, p |-> p]
            ELSE [made |-> FALSE, board |-> MoveUnmake(made, m, p)]
    BY <2>1 DEF CoreTry
  <2>5. CASE WasMoveLegal(made)
    <3>1. c.made = TRUE /\ c.board = made /\ c.move = m /\ c.p = p
      BY <2>4, <2>5
    <3> HIDE DEF made, p
    <3> QED
      BY <2>2, <2>3, <2>5, <3>1 DEF CoreAgreed, made, p
  <2>6. CASE ~WasMoveLegal(made)
    <3>1. c.made = FALSE /\ c.board = core
      BY <2>3, <2>4, <2>6
    <3> QED
      BY <3>1 DEF CoreAgreed
  <2> QED
    BY <2>5, <2>6
<1> QED
  BY <1>1, <1>2

(* The walk starts from a board just read, with nothing to undo. *)
LEMMA ChainedAtStart ==
  ASSUME Init
  PROVE  Chained
<1>1. PICK t \in Tests : \E c \in {FromFen(t.fen)}, d \in {DodFromFen(t.fen)} :
        /\ core = c
        /\ \E tag \in {TagFrom(c)} : frames = <<Frame(c, d, t.depth, tag, <<>>)>>
  BY DEF Init
<1>2. core = FromFen(t.fen) /\ \E f : frames = <<f>> /\ IsFrame(f) /\ f.tag = TagFrom(core)
  BY <1>1 DEF Frame, IsFrame
<1>3. Sound(core)
  BY <1>2, ReadFresh, SoundIsValid, TestsAssumption
<1>4. PICK f : frames = <<f>> /\ IsFrame(f) /\ f.tag = TagFrom(core)
  BY <1>2
<1>5. Len(frames) = 1 /\ frames[1] = f /\ frames \in Seq({f}) /\ Range(frames) = {f}
  BY <1>4 DEF Range
<1>6. BoardOf(1) = core
  BY <1>5 DEF BoardOf
<1> QED
  BY <1>3, <1>4, <1>5, <1>6 DEF Chained

(* A frame whose todo list changes is a frame, and remembers the same. *)
LEMMA FrameTodo ==
  ASSUME NEW f, IsFrame(f), NEW t
  PROVE  /\ IsFrame([f EXCEPT !.todo = t])
         /\ [f EXCEPT !.todo = t].undo = f.undo /\ [f EXCEPT !.todo = t].tag = f.tag
<1>1. \E a, b, c, d : f = [todo |-> a, depth |-> b, tag |-> c, undo |-> d]
  BY DEF IsFrame
<1>2. PICK a, b, c, d : f = [todo |-> a, depth |-> b, tag |-> c, undo |-> d]
  BY <1>1
<1>3. /\ [f EXCEPT !.todo = t] = [todo |-> t, depth |-> b, tag |-> c, undo |-> d]
      /\ f.undo = d /\ f.tag = c
  BY <1>2
<1> QED
  BY <1>3 DEF IsFrame

(* A frame put on top of the others, whose todo list may have lost a text. *)
LEMMA ChainedByTry ==
  ASSUME Chained, TryMove
  PROVE  /\ Chained'
         /\ \/ Len(frames') = Len(frames) + 1
            \/ Len(frames') = Len(frames) /\ core' = core
<1> DEFINE n == Len(frames)
           top == [frames[n] EXCEPT !.todo = @ \ {First(@)}]
<1>1. /\ frames \in Seq(Range(frames)) /\ n \in Nat \ {0} /\ Sound(core)
      /\ \A i \in 1..n : IsFrame(frames[i]) /\ frames[i].tag = TagFrom(BoardOf(i))
      /\ \A i \in 2..n : Undoable(frames[i].undo, BoardOf(i))
  BY DEF Chained
<1>2. IsFrame(top) /\ top.undo = frames[n].undo /\ top.tag = frames[n].tag
  <2>1. IsFrame(frames[n])
    BY <1>1
  <2> QED
    BY <2>1, FrameTodo
<1>3. Popped = [frames EXCEPT ![n] = top]
  BY DEF Popped
<1> HIDE DEF top
<1> DEFINE S == Range(frames) \cup {top}
<1>4. /\ Popped \in Seq(S) /\ Len(Popped) = n
      /\ \A i \in 1..n : /\ IsFrame(Popped[i])
                         /\ Popped[i].undo = frames[i].undo /\ Popped[i].tag = frames[i].tag
  <2>1. frames \in Seq(S) /\ top \in S
    BY <1>1
  <2>2. Popped \in Seq(S) /\ Len(Popped) = n
    BY <1>1, <1>3, <2>1
  <2>3. \A i \in 1..n : Popped[i] = IF i = n THEN top ELSE frames[i]
    BY <1>1, <1>3
  <2> QED
    BY <1>1, <1>2, <2>2, <2>3
<1>5. PICK text, c, d :
        /\ c = NotGenerated(core) \/ \E m \in CoreMoves(text) : c = CoreTry(m)
        /\ core' = CoreAgreed(c, d)
        /\ frames' = IF c.made /\ d.made
                     THEN Append(Popped,
                                 Frame(c.board, d.board, Current.depth - 1,
                                       TagUpdated(Current.tag, core, c.move),
                                       [move |-> c.move, p |-> c.p, dmove |-> d.move,
                                        dp |-> d.p, before |-> core]))
                     ELSE Popped
  <2> DEFINE Tried(c, d) ==
               /\ core' = CoreAgreed(c, d)
               /\ dod' = DodAgreed(c, d)
               /\ frames' = IF c.made /\ d.made
                            THEN Append(Popped,
                                        Frame(c.board, d.board, Current.depth - 1,
                                              TagUpdated(Current.tag, core, c.move),
                                              [move |-> c.move, p |-> c.p, dmove |-> d.move,
                                               dp |-> d.p, before |-> core]))
                            ELSE Popped
  <2>1. PICK text \in {First(Current.todo)} : \E cores \in {CoreMoves(text)}, dods \in {DodMoves(text)} :
          \E c \in IF cores = {} THEN {NotGenerated(core)} ELSE {CoreTry(m) : m \in cores} :
          \E d \in IF dods = {} THEN {NotGenerated(dod)} ELSE {DodTry(m) : m \in dods} :
            Tried(c, d)
    BY Zenon DEF TryMove
  <2>2. \A c, d : Tried(c, d) =>
          /\ core' = CoreAgreed(c, d)
          /\ frames' = IF c.made /\ d.made
                       THEN Append(Popped,
                                   Frame(c.board, d.board, Current.depth - 1,
                                         TagUpdated(Current.tag, core, c.move),
                                         [move |-> c.move, p |-> c.p, dmove |-> d.move,
                                          dp |-> d.p, before |-> core]))
                       ELSE Popped
    OBVIOUS
  <2> HIDE DEF Tried
  <2>3. PICK c \in IF CoreMoves(text) = {} THEN {NotGenerated(core)}
                   ELSE {CoreTry(m) : m \in CoreMoves(text)} : \E d : Tried(c, d)
    BY <2>1
  <2>4. c = NotGenerated(core) \/ \E m \in CoreMoves(text) : c = CoreTry(m)
    BY <2>3
  <2> QED
    BY <2>2, <2>3, <2>4, Zenon
<1>6. CASE c.made /\ d.made
  <2> DEFINE u == [move |-> c.move, p |-> c.p, dmove |-> d.move, dp |-> d.p, before |-> core]
             f == Frame(c.board, d.board, Current.depth - 1,
                        TagUpdated(Current.tag, core, c.move), u)
             T == S \cup {f}
  <2>1. /\ u.before = core /\ u.move = c.move /\ u.p = c.p
    OBVIOUS
  <2>2. /\ core' = c.board /\ Sound(core') /\ Makeable(core, c.move)
        /\ c.p = Persistence(core, c.move) /\ core' = MoveMake(core, c.move)
    BY <1>1, <1>5, <1>6, CoreTried
  <2>3. Undoable(u, core')
    BY <1>1, <2>1, <2>2 DEF Undoable
  <2> HIDE DEF u
  <2>4. TagUpdated(Current.tag, core, c.move) = TagFrom(core')
    <3>1. Current.tag = TagFrom(core)
      BY <1>1 DEF Current, BoardOf
    <3> QED
      BY <1>1, <2>2, <3>1, TagFollowsMove DEF Sound
  <2>5. IsFrame(f) /\ f.undo = u /\ f.tag = TagFrom(core')
    BY <2>4 DEF Frame, IsFrame
  <2>6. frames' = Append(Popped, f)
    BY <1>5, <1>6 DEF u
  <2> HIDE DEF f, S
  <2>7. /\ frames' \in Seq(T) /\ Len(frames') = n + 1 /\ frames'[n + 1] = f
        /\ \A i \in 1..n : frames'[i] = Popped[i]
    BY <1>1, <1>4, <2>6
  <2>8. frames' \in Seq(Range(frames'))
    BY <2>7 DEF Range
  <2>9. ASSUME NEW i \in 1..(n + 1)
        PROVE  /\ IsFrame(frames'[i]) /\ frames'[i].tag = TagFrom(BoardOf(i)')
               /\ i # 1 => Undoable(frames'[i].undo, BoardOf(i)')
    <3>1. CASE i = n + 1
      <4>1. BoardOf(i)' = core'
        BY <2>7, <3>1 DEF BoardOf
      <4> QED
        BY <2>3, <2>5, <2>7, <3>1, <4>1
    <3>2. CASE i = n
      <4>1. BoardOf(i)' = frames'[n + 1].undo.before /\ BoardOf(i) = core
        BY <1>1, <2>7, <3>2 DEF BoardOf
      <4>2. BoardOf(i)' = BoardOf(i)
        BY <2>1, <2>5, <2>7, <4>1 DEF u
      <4>3. i # 1 => Undoable(frames[i].undo, BoardOf(i))
        BY <1>1, <3>2
      <4> QED
        BY <1>1, <1>4, <2>7, <3>2, <4>2, <4>3
    <3>3. CASE i \in 1..(n - 1)
      <4>1. /\ i \in 1..n /\ i + 1 \in 1..n /\ i # n /\ i # n + 1
        BY <1>1, <3>3
      <4>2. /\ BoardOf(i)' = frames'[i + 1].undo.before
            /\ BoardOf(i) = frames[i + 1].undo.before
        BY <2>7, <4>1 DEF BoardOf
      <4>3. BoardOf(i)' = BoardOf(i)
        BY <1>4, <2>7, <4>1, <4>2
      <4>4. /\ frames[i].tag = TagFrom(BoardOf(i))
            /\ i # 1 => Undoable(frames[i].undo, BoardOf(i))
        BY <1>1, <4>1
      <4> QED
        BY <1>4, <2>7, <4>1, <4>3, <4>4
    <3> QED
      BY <1>1, <3>1, <3>2, <3>3
  <2> QED
    BY <1>1, <2>2, <2>7, <2>8, <2>9 DEF Chained
<1>7. CASE ~(c.made /\ d.made)
  <2>1. core' = core /\ frames' = Popped
    BY <1>1, <1>5, <1>7, CoreTried
  <2> HIDE DEF S
  <2>2. frames' \in Seq(Range(frames')) /\ Len(frames') = n
    BY <1>1, <1>4, <2>1 DEF Range
  <2>3. ASSUME NEW i \in 1..n
        PROVE  /\ IsFrame(frames'[i]) /\ frames'[i].tag = TagFrom(BoardOf(i)')
               /\ i # 1 => Undoable(frames'[i].undo, BoardOf(i)')
    <3>1. IsFrame(frames'[i]) /\ frames'[i].undo = frames[i].undo /\ frames'[i].tag = frames[i].tag
      BY <1>4, <2>1
    <3>2. BoardOf(i)' = BoardOf(i)
      <4>1. CASE i = n
        BY <2>1, <2>2, <4>1 DEF BoardOf
      <4>2. CASE i # n
        <5>1. i + 1 \in 1..n
          BY <1>1, <4>2
        <5> QED
          BY <1>4, <2>1, <2>2, <4>2, <5>1 DEF BoardOf
      <4> QED
        BY <4>1, <4>2
    <3> QED
      BY <1>1, <3>1, <3>2
  <2> QED
    BY <1>1, <2>1, <2>2, <2>3 DEF Chained
<1> QED
  BY <1>6, <1>7

(* Going back along the frames arrives at the board that the last of them remembers. *)
LEMMA ChainedByReturn ==
  ASSUME Chained, Return
  PROVE  Chained' /\ core' = Current.undo.before /\ Len(frames') = Len(frames) - 1
<1> DEFINE n == Len(frames)
           u == frames[n].undo
<1>1. /\ frames \in Seq(Range(frames)) /\ n \in Nat \ {0} /\ Sound(core)
      /\ \A i \in 1..n : IsFrame(frames[i]) /\ frames[i].tag = TagFrom(BoardOf(i))
      /\ \A i \in 2..n : Undoable(frames[i].undo, BoardOf(i))
  BY DEF Chained
<1>2. /\ n > 1
      /\ core' = MoveUnmake(core, u.move, u.p)
      /\ frames' = SubSeq(frames, 1, n - 1)
  BY DEF Return, Current, Front
<1>3. Undoable(u, core)
  <2>1. n \in 2..n /\ BoardOf(n) = core
    BY <1>1, <1>2 DEF BoardOf
  <2> QED
    BY <1>1, <2>1
<1>4. core' = u.before /\ Sound(core')
  <2>1. core' = u.before
    BY <1>2, <1>3, Undone
  <2> QED
    BY <1>3, <2>1 DEF Undoable
<1>5. /\ frames' \in Seq(Range(frames)) /\ Len(frames') = n - 1
      /\ \A i \in 1..(n - 1) : frames'[i] = frames[i]
  <2>1. n - 1 \in Nat /\ \A i \in 1..(n - 1) : i \in 1..n
    BY <1>1, <1>2
  <2> QED
    BY <1>1, <1>2, <2>1
<1> HIDE DEF u
<1>6. frames' \in Seq(Range(frames'))
  BY <1>5 DEF Range
<1>7. ASSUME NEW i \in 1..(n - 1)
      PROVE  /\ IsFrame(frames'[i]) /\ frames'[i].tag = TagFrom(BoardOf(i)')
             /\ i # 1 => Undoable(frames'[i].undo, BoardOf(i)')
  <2>1. i \in 1..n /\ i # n /\ i + 1 \in 1..n
    BY <1>1
  <2>2. BoardOf(i) = frames[i + 1].undo.before
    BY <2>1 DEF BoardOf
  <2>3. BoardOf(i)' = BoardOf(i)
    <3>1. CASE i = n - 1
      <4>1. BoardOf(i)' = core' /\ i + 1 = n
        BY <1>1, <1>5, <3>1 DEF BoardOf
      <4> QED
        BY <1>4, <2>2, <4>1 DEF u
    <3>2. CASE i # n - 1
      <4>1. i + 1 \in 1..(n - 1)
        BY <1>1, <3>2
      <4> QED
        BY <1>5, <2>2, <3>2, <4>1 DEF BoardOf
    <3> QED
      BY <3>1, <3>2
  <2>4. i # 1 => Undoable(frames[i].undo, BoardOf(i))
    BY <1>1, <2>1
  <2> QED
    BY <1>1, <1>5, <2>1, <2>3, <2>4
<1>8. Chained'
  <2>1. Len(frames') \in Nat \ {0}
    BY <1>1, <1>2, <1>5
  <2> QED
    BY <1>1, <1>4, <1>5, <1>6, <1>7, <2>1 DEF Chained
<1> QED
  BY <1>4, <1>5, <1>8 DEF Current, u

(* The invariant of the walk, and what each step does with the board. *)
LEMMA ChainedByNext ==
  ASSUME Chained, [Next]_vars
  PROVE  /\ Chained'
         /\ Len(frames') < Len(frames) => core' = Current.undo.before
         /\ Len(frames') = Len(frames) => core' = core
<1>1. Len(frames) \in Nat
  BY DEF Chained
<1>2. CASE TryMove
  BY <1>1, <1>2, ChainedByTry
<1>3. CASE Return
  BY <1>1, <1>3, ChainedByReturn
<1>4. CASE UNCHANGED vars
  <2>1. core' = core /\ frames' = frames
    BY <1>4 DEF vars
  <2> QED
    BY <1>1, <2>1 DEF Chained, BoardOf
<1> QED
  BY <1>2, <1>3, <1>4 DEF Next

(* Every board the walk left behind can be come back to, whatever was made and    *)
(* unmade since: what moveUnmake() is told is what moveMake() gave for the move   *)
(* that leads from the board of one call of depthDump() to that of the next; and  *)
(* every one of these boards is one that validate() accepts.                      *)
THEOREM WalkIsChained == Spec => []Chained
<1>1. Init => Chained
  BY ChainedAtStart
<1>2. Chained /\ [Next]_vars => Chained'
  BY ChainedByNext
<1> QED
  BY <1>1, <1>2, PTL DEF Spec

(* The bitboards, the hash, the castling flags and the en passant cell that       *)
(* moveMake() and moveUnmake() bring up to date piece by piece are what update()  *)
(* computes from the cells, after any sequence of moves, null moves and returns   *)
(* from a position that the reader and validate() accept; and validate() accepts  *)
(* every position on the way.                                                     *)
THEOREM BoardIsFresh == Spec => []BoardStaysFresh
<1>1. Chained => BoardStaysFresh
  <2>1. Sound(core) => core \in Board /\ core = Update(core) /\ Validate(core) = "Ok"
    BY SoundIsValid DEF Sound, Fresh
  <2> QED
    BY <2>1 DEF Chained, BoardStaysFresh
<1> QED
  BY <1>1, WalkIsChained, PTL

(* Unmaking gives back the board the move was made on, and a move taken back as   *)
(* illegal leaves no trace.                                                       *)
THEOREM UnmakeGivesBack == Spec => UnmakeRestores
<1>1. Chained /\ [Next]_vars =>
        [/\ Len(frames') < Len(frames) => core' = Current.undo.before
         /\ Len(frames') = Len(frames) => core' = core]_vars
  BY ChainedByNext
<1> QED
  BY <1>1, WalkIsChained, PTL DEF Spec, UnmakeRestores

(* The tag that follows the moves - the sum of what the pieces cost on their      *)
(* cells, in both halves of the game, and how far the game has come - is the one  *)
(* that Tag::from() computes from the whole board, for promotions, captures en    *)
(* passant, castling and null moves alike.                                        *)
THEOREM TagsAreFresh == Spec => []TagIsFresh
<1>1. Chained => TagIsFresh
  BY DEF Chained, TagIsFresh, Current, BoardOf
<1> QED
  BY <1>1, WalkIsChained, PTL

(* Asking before a move whether it is legal, with the cells of the move masked,   *)
(* answers what the board answers once it is made, in every position of the walk: *)
(* captures en passant, castling and moves along a pin included.                  *)
THEOREM LegalityIsExact == Spec => []LegalityIsForeseen
<1>1. ASSUME Sound(core), NEW m \in GenAllMoves(core)
      PROVE  IsMoveLegal(core, m) = WasMoveLegal(MoveMake(core, m))
  <2>1. IsMoveLegal(core, m) <=> WasMoveLegal(MoveMake(core, m))
    BY <1>1, LegalityForeseen
  <2>2. IsMoveLegal(core, m) \in BOOLEAN /\ WasMoveLegal(MoveMake(core, m)) \in BOOLEAN
    BY DEF IsMoveLegal, WasMoveLegal, IsCellAttacked, IsCheck
  <2> QED
    BY <2>1, <2>2
<1>2. Chained => LegalityIsForeseen
  BY <1>1 DEF Chained, LegalityIsForeseen
<1> QED
  BY <1>2, WalkIsChained, PTL

(* So the generators see the attacks there are in every position of the walk.     *)
THEOREM MagicIsExact == Spec => []MagicTablesAreExact
<1>1. MagicTablesAreExact
  BY LookupsAreExact DEF MagicTablesAreExact
<1> QED
  BY <1>1, PTL

-----------------------------------------------------------------------------
(* The moves that the generators write *)

LEMMA MoveParts ==
  ASSUME NEW k, NEW s, NEW d
  PROVE  /\ Move(k, s, d).kind = k /\ Move(k, s, d).src = s /\ Move(k, s, d).dst = d
         /\ \A k2, s2, d2 : Move(k, s, d) = Move(k2, s2, d2) <=> k = k2 /\ s = s2 /\ d = d2
BY DEF Move

(* Where advanced pawns come from, and where pawns attack, cell by cell. *)
LEMMA AdvancedFrom ==
  ASSUME NEW c \in Color, NEW bb, bb \subseteq Coord, NEW s \in Coord, NEW d \in Coord
  PROVE  /\ d = s + PawnForwardDelta(c) => (d \in AdvancePawnForward(c, bb) <=> s \in bb)
         /\ d = s + PawnLeftDelta(c) =>
              (d \in AdvancePawnLeft(c, bb) <=> s \in bb /\ CoordY(s) # 0)
         /\ d = s + PawnRightDelta(c) =>
              (d \in AdvancePawnRight(c, bb) <=> s \in bb /\ CoordY(s) # 7)
<1>1. /\ PawnForwardDelta(c) \in Int /\ PawnLeftDelta(c) \in Int /\ PawnRightDelta(c) \in Int
  BY DEF PawnForwardDelta, PawnLeftDelta, PawnRightDelta
<1>2. ASSUME NEW set, set \subseteq Coord, NEW delta \in Int, d = s + delta
      PROVE  d \in Shift(set, delta) <=> s \in set
  <2>1. \A x \in set : x \in Int /\ (x + delta = d <=> x = s)
    BY <1>2 DEF Coord
  <2> QED
    BY <1>2, <2>1 DEF Shift
<1>3. /\ bb \ BbCol[0] \subseteq Coord /\ bb \ BbCol[7] \subseteq Coord
      /\ s \in BbCol[0] <=> CoordY(s) = 0
      /\ s \in BbCol[7] <=> CoordY(s) = 7
  BY LineCells DEF Subcoord
<1> QED
  BY <1>1, <1>2, <1>3 DEF AdvancePawnForward, AdvancePawnLeft, AdvancePawnRight

LEMMA PawnTargets ==
  ASSUME NEW c \in Color, NEW s \in Coord, NEW d \in Coord
  PROVE  d \in PawnAttacks[c][s] <=> \/ d = s + PawnLeftDelta(c) /\ CoordY(s) # 0
                                     \/ d = s + PawnRightDelta(c) /\ CoordY(s) # 7
<1>1. d \in PawnAttacks[c][s] <=> /\ CoordX(d) - CoordX(s) = IF c = White THEN -1 ELSE 1
                                  /\ CoordY(d) - CoordY(s) \in {-1, 1}
  BY NearCells
<1> QED
  BY <1>1 DEF Coord, CoordX, CoordY, PawnLeftDelta, PawnRightDelta, White

(* What a pawn may do. *)
PawnSteps(b, s, d) == b.cells[d] = EmptyCell /\ d = s + PawnForwardDelta(b.side)
PawnTakes(b, s, d) == Own(Invert(b.side), b.cells[d]) /\ d \in PawnAttacks[b.side][s]
PawnJumps(b, s, d) ==
  /\ CoordX(s) = DoubleMoveSrcRow(b.side)
  /\ b.cells[s + PawnForwardDelta(b.side)] = EmptyCell /\ b.cells[d] = EmptyCell
  /\ d = s + 2 * PawnForwardDelta(b.side)
PawnPasses(b, s, d) ==
  /\ b.enpassantCoord # InvalidCoord
  /\ \/ CoordY(b.enpassantCoord) # 0 /\ s = b.enpassantCoord - 1
     \/ CoordY(b.enpassantCoord) # 7 /\ s = b.enpassantCoord + 1
  /\ d = b.enpassantCoord + PawnForwardDelta(b.side)

(* A pawn promotes from the row before the last, and only there. *)
Promoting(b, s) == CoordX(s) = PromoteSrcRow(b.side)
PawnKind(k, isPromote) == IF isPromote THEN k \in PromoteKinds ELSE k = "Simple"

LEMMA PawnMovesAre ==
  ASSUME NEW k, NEW s, NEW d, NEW s2, NEW d2, NEW isPromote \in BOOLEAN
  PROVE  Move(k, s, d) \in PawnMoves(s2, d2, isPromote) <=>
           s = s2 /\ d = d2 /\ PawnKind(k, isPromote)
BY MoveParts DEF PawnMoves, PawnKind

LEMMA SinglesAre ==
  ASSUME NEW b, Fresh(b), NEW pawns, pawns \subseteq Coord, NEW isPromote \in BOOLEAN, NEW mask,
         NEW k, NEW s, NEW d
  PROVE  Move(k, s, d) \in DoGenPawnSingle(b, b.side, pawns, isPromote, mask) <=>
           /\ s \in Coord /\ d \in Coord /\ s \in pawns /\ d \in mask
           /\ PawnSteps(b, s, d) /\ PawnKind(k, isPromote)
<1> DEFINE c == b.side
           delta == PawnForwardDelta(c)
           dsts == (AdvancePawnForward(c, pawns) \ b.bbAll) \cap mask
<1>1. c \in Color /\ delta \in Int
  BY BoardFields DEF Fresh, PawnForwardDelta
<1>2. \A x : x \in b.bbAll <=> x \in Coord /\ b.cells[x] # EmptyCell
  BY <1>1, BitboardCells
<1>3. Move(k, s, d) \in DoGenPawnSingle(b, c, pawns, isPromote, mask) <=>
        d \in dsts /\ s = d - delta /\ PawnKind(k, isPromote)
  <2>1. Move(k, s, d) \in DoGenPawnSingle(b, c, pawns, isPromote, mask) <=>
          \E dst \in dsts : Move(k, s, d) \in PawnMoves(dst - delta, dst, isPromote)
    BY DEF DoGenPawnSingle
  <2> HIDE DEF dsts, delta
  <2> QED
    BY <2>1, PawnMovesAre
<1>4. d \in AdvancePawnForward(c, pawns) => d \in Coord /\ d - delta \in pawns
  BY <1>1, Advanced
<1>5. s \in Coord /\ d \in Coord => (s = d - delta <=> d = s + delta)
  BY <1>1 DEF Coord
<1>6. s \in Coord /\ d \in Coord /\ d = s + delta =>
        (d \in AdvancePawnForward(c, pawns) <=> s \in pawns)
  BY <1>1, AdvancedFrom
<1> HIDE DEF delta
<1> QED
  BY <1>2, <1>3, <1>4, <1>5, <1>6 DEF PawnSteps, delta

LEMMA CapturesAre ==
  ASSUME NEW b, Fresh(b), NEW pawns, pawns \subseteq Coord, NEW isPromote \in BOOLEAN, NEW mask,
         NEW k, NEW s, NEW d
  PROVE  Move(k, s, d) \in DoGenPawnCapture(b, b.side, pawns, isPromote, mask) <=>
           /\ s \in Coord /\ d \in Coord /\ s \in pawns /\ d \in mask
           /\ PawnTakes(b, s, d) /\ PawnKind(k, isPromote)
<1> DEFINE c == b.side
           l == PawnLeftDelta(c)
           r == PawnRightDelta(c)
           left == (AdvancePawnLeft(c, pawns) \cap b.bbColor[Invert(c)]) \cap mask
           right == (AdvancePawnRight(c, pawns) \cap b.bbColor[Invert(c)]) \cap mask
<1>1. c \in Color /\ l \in Int /\ r \in Int /\ Invert(c) \in Color
  BY BoardFields, Colors DEF Fresh, PawnLeftDelta, PawnRightDelta
<1>2. \A x : x \in b.bbColor[Invert(c)] <=> x \in Coord /\ Own(Invert(c), b.cells[x])
  BY <1>1, BitboardCells
<1>3. Move(k, s, d) \in DoGenPawnCapture(b, c, pawns, isPromote, mask) <=>
        /\ (d \in left /\ s = d - l) \/ (d \in right /\ s = d - r)
        /\ PawnKind(k, isPromote)
  <2>1. Move(k, s, d) \in DoGenPawnCapture(b, c, pawns, isPromote, mask) <=>
          \/ \E dst \in left : Move(k, s, d) \in PawnMoves(dst - l, dst, isPromote)
          \/ \E dst \in right : Move(k, s, d) \in PawnMoves(dst - r, dst, isPromote)
    BY DEF DoGenPawnCapture
  <2> HIDE DEF left, right, l, r
  <2> QED
    BY <2>1, PawnMovesAre
<1>4. /\ d \in AdvancePawnLeft(c, pawns) => d \in Coord /\ d - l \in pawns
      /\ d \in AdvancePawnRight(c, pawns) => d \in Coord /\ d - r \in pawns
  BY <1>1, Advanced
<1>5. s \in Coord /\ d \in Coord => (s = d - l <=> d = s + l) /\ (s = d - r <=> d = s + r)
  BY <1>1 DEF Coord
<1>6. s \in Coord /\ d \in Coord =>
        /\ d = s + l => (d \in AdvancePawnLeft(c, pawns) <=> s \in pawns /\ CoordY(s) # 0)
        /\ d = s + r => (d \in AdvancePawnRight(c, pawns) <=> s \in pawns /\ CoordY(s) # 7)
  BY <1>1, AdvancedFrom
<1>7. s \in Coord /\ d \in Coord =>
        (d \in PawnAttacks[c][s] <=> (d = s + l /\ CoordY(s) # 0) \/ (d = s + r /\ CoordY(s) # 7))
  BY <1>1, PawnTargets
<1> HIDE DEF l, r
<1>8. Move(k, s, d) \in DoGenPawnCapture(b, c, pawns, isPromote, mask) =>
        s \in Coord /\ d \in Coord
  BY <1>3, <1>4
<1>9. ASSUME s \in Coord, d \in Coord
      PROVE  ((d \in left /\ s = d - l) \/ (d \in right /\ s = d - r)) <=>
                s \in pawns /\ d \in mask /\ PawnTakes(b, s, d)
  BY <1>2, <1>5, <1>6, <1>7, <1>9 DEF PawnTakes
<1> HIDE DEF left, right
<1> QED
  BY <1>3, <1>8, <1>9

LEMMA DoublesAre ==
  ASSUME NEW b, Fresh(b), NEW mask, NEW k, NEW s, NEW d
  PROVE  Move(k, s, d) \in DoGenPawnDouble(b, b.side, Bb(b, b.side, Pawn)
                                              \cap BbRow[DoubleMoveSrcRow(b.side)], mask) <=>
           /\ s \in Coord /\ d \in Coord /\ b.cells[s] = MakeCell(b.side, Pawn) /\ d \in mask
           /\ PawnJumps(b, s, d) /\ k = "PawnDoubleMove"
<1> DEFINE c == b.side
           delta == PawnForwardDelta(c)
           pawns == Bb(b, c, Pawn) \cap BbRow[DoubleMoveSrcRow(c)]
           tmps == AdvancePawnForward(c, pawns) \ b.bbAll
           dsts == (AdvancePawnForward(c, tmps) \ b.bbAll) \cap mask
<1>1. c \in Color /\ delta \in Int /\ DoubleMoveSrcRow(c) \in Subcoord
  BY BoardFields DEF Fresh, PawnForwardDelta, DoubleMoveSrcRow, Subcoord
<1>2. /\ \A x : x \in b.bbAll <=> x \in Coord /\ b.cells[x] # EmptyCell
      /\ \A x : x \in Bb(b, c, Pawn) <=> x \in Coord /\ b.cells[x] = MakeCell(c, Pawn)
  BY <1>1, BitboardCells, PieceFacts
<1>3. \A x : x \in pawns <=> /\ x \in Coord /\ b.cells[x] = MakeCell(c, Pawn)
                             /\ CoordX(x) = DoubleMoveSrcRow(c)
  BY <1>1, <1>2, LineCells
<1>4. Move(k, s, d) \in DoGenPawnDouble(b, c, pawns, mask) <=>
        d \in dsts /\ s = d - 2 * delta /\ k = "PawnDoubleMove"
  <2>1. Move(k, s, d) \in DoGenPawnDouble(b, c, pawns, mask) <=>
          \E dst \in dsts : Move(k, s, d) = Move("PawnDoubleMove", dst - 2 * delta, dst)
    BY DEF DoGenPawnDouble
  <2> HIDE DEF dsts, delta
  <2> QED
    BY <2>1, MoveParts
<1> HIDE DEF pawns
<1>5. pawns \subseteq Coord
  BY <1>3
<1>6. \A x : x \in AdvancePawnForward(c, pawns) => x \in Coord /\ x - delta \in pawns
  BY <1>1, <1>5, Advanced
<1>7. tmps \subseteq Coord
  BY <1>6
<1>8. ASSUME d \in dsts, s = d - 2 * delta
      PROVE  /\ s \in Coord /\ d \in Coord /\ s \in pawns /\ d \in mask /\ d = s + 2 * delta
             /\ b.cells[d] = EmptyCell /\ b.cells[s + delta] = EmptyCell
  <2>1. d \in AdvancePawnForward(c, tmps) /\ d \notin b.bbAll /\ d \in mask
    BY <1>8
  <2> HIDE DEF tmps
  <2>2. d \in Coord /\ d - delta \in tmps
    BY <1>1, <1>7, <2>1, Advanced
  <2>3. d - delta \in Coord /\ (d - delta) - delta \in pawns /\ d - delta \notin b.bbAll
    BY <1>6, <2>2 DEF tmps
  <2>4. d \in Int
    BY <2>2 DEF Coord
  <2>5. (d - delta) - delta = s /\ s + delta = d - delta /\ d = s + 2 * delta
    BY <1>1, <1>8, <2>4
  <2> HIDE DEF delta
  <2> QED
    BY <1>2, <1>5, <2>1, <2>2, <2>3, <2>5
<1>9. ASSUME s \in Coord, d \in Coord, s \in pawns, d \in mask, d = s + 2 * delta,
             b.cells[d] = EmptyCell, b.cells[s + delta] = EmptyCell
      PROVE  d \in dsts /\ s = d - 2 * delta
  <2>1. s + delta \in Coord /\ s + delta \in Int /\ s = d - 2 * delta /\ d = (s + delta) + delta
    BY <1>1, <1>9 DEF Coord, PawnForwardDelta
  <2>2. PICK t \in Coord : t = s + delta
    BY <2>1
  <2>3. t \in AdvancePawnForward(c, pawns)
    BY <1>1, <1>5, <1>9, <2>2, AdvancedFrom
  <2>4. t \in tmps
    BY <1>2, <1>9, <2>2, <2>3
  <2>5. d \in AdvancePawnForward(c, tmps)
    <3> HIDE DEF tmps
    <3> QED
      BY <1>1, <1>7, <1>9, <2>1, <2>2, <2>4, AdvancedFrom
  <2> QED
    BY <1>2, <1>9, <2>1, <2>5
<1> HIDE DEF dsts, delta
<1> QED
  BY <1>3, <1>4, <1>8, <1>9 DEF PawnJumps, pawns, delta

LEMMA PassingsAre ==
  ASSUME NEW b, Fresh(b), NEW k, NEW s, NEW d
  PROVE  Move(k, s, d) \in GenPawnEnpassant(b, b.side) <=>
           /\ s \in Coord /\ d \in Coord /\ b.cells[s] = MakeCell(b.side, Pawn)
           /\ PawnPasses(b, s, d) /\ k = "Enpassant"
<1> DEFINE c == b.side
           ep == b.enpassantCoord
           dst == ep + PawnForwardDelta(c)
<1>1. CASE ep = InvalidCoord
  BY <1>1 DEF GenPawnEnpassant, PawnPasses
<1>2. CASE ep # InvalidCoord
  <2>1. c \in Color /\ ep \in Coord
    BY <1>2, BoardFields DEF Fresh, MaybeCoord
  <2>2. CoordX(ep) = EnpassantSrcRow(c)
    BY <1>2 DEF Fresh
  <2>3. /\ dst \in Coord
        /\ CoordY(ep) # 0 => ep - 1 \in Coord
        /\ CoordY(ep) # 7 => ep + 1 \in Coord
    BY <2>1, <2>2 DEF Color, White, Black, Coord, CoordX, CoordY, EnpassantSrcRow, PawnForwardDelta
  <2>4. Move(k, s, d) \in GenPawnEnpassant(b, c) <=>
          \/ CoordY(ep) # 0 /\ b.cells[ep - 1] = MakeCell(c, Pawn)
             /\ Move(k, s, d) = Move("Enpassant", ep - 1, dst)
          \/ CoordY(ep) # 7 /\ b.cells[ep + 1] = MakeCell(c, Pawn)
             /\ Move(k, s, d) = Move("Enpassant", ep + 1, dst)
    BY <1>2 DEF GenPawnEnpassant
  <2> HIDE DEF dst
  <2>5. /\ Move(k, s, d) = Move("Enpassant", ep - 1, dst) <=> k = "Enpassant" /\ s = ep - 1 /\ d = dst
        /\ Move(k, s, d) = Move("Enpassant", ep + 1, dst) <=> k = "Enpassant" /\ s = ep + 1 /\ d = dst
    BY MoveParts
  <2> QED
    BY <1>2, <2>3, <2>4, <2>5 DEF PawnPasses, dst
<1> QED
  BY <1>1, <1>2

(* The moves of the other pieces. *)
PieceGoes(b, p, s, d) ==
  b.cells[s] = MakeCell(b.side, p) /\ d \in Sources(p, b.side, b.bbAll, s)

LEMMA StepsAre ==
  ASSUME NEW b, Fresh(b), NEW p \in {King, Knight}, NEW allowed, NEW mask, NEW k, NEW s, NEW d,
         allowed \subseteq Coord
  PROVE  Move(k, s, d) \in GenKnightOrKing(b, b.side, p, allowed, mask) <=>
           /\ s \in Coord /\ d \in Coord /\ k = "Simple" /\ d \in allowed /\ d \in mask
           /\ PieceGoes(b, p, s, d)
<1>1. b.side \in Color /\ p \in Piece /\ (p = Knight \/ p = King) /\ King # Knight
  BY BoardFields, PieceFacts DEF Fresh, King, Knight
<1>2. \A x : x \in Bb(b, b.side, p) <=> x \in Coord /\ b.cells[x] = MakeCell(b.side, p)
  BY <1>1, BitboardCells
<1>3. \A x : Sources(p, b.side, b.bbAll, x) = IF p = Knight THEN KnightAttacks[x] ELSE KingAttacks[x]
  BY <1>1, SourceSets
<1>4. Move(k, s, d) \in GenKnightOrKing(b, b.side, p, allowed, mask) <=>
        \E src \in Bb(b, b.side, p) : \E dst \in (Sources(p, b.side, b.bbAll, src) \cap allowed) \cap mask :
          Move(k, s, d) = Move("Simple", src, dst)
  BY <1>3 DEF GenKnightOrKing
<1> QED
  BY <1>2, <1>4, MoveParts DEF PieceGoes

LEMMA SlidesAre ==
  ASSUME NEW b, Fresh(b), NEW allowed, NEW mask, NEW k, NEW s, NEW d, allowed \subseteq Coord
  PROVE  /\ Move(k, s, d) \in GenBishopOrRook(b, Bishop, BbDiagPieces(b, b.side), allowed, mask) <=>
              /\ s \in Coord /\ d \in Coord /\ k = "Simple" /\ d \in allowed /\ d \in mask
              /\ \E p \in {Bishop, Queen} : b.cells[s] = MakeCell(b.side, p)
              /\ d \in BishopAttack(b.bbAll, s)
         /\ Move(k, s, d) \in GenBishopOrRook(b, Rook, BbLinePieces(b, b.side), allowed, mask) <=>
              /\ s \in Coord /\ d \in Coord /\ k = "Simple" /\ d \in allowed /\ d \in mask
              /\ \E p \in {Rook, Queen} : b.cells[s] = MakeCell(b.side, p)
              /\ d \in RookAttack(b.bbAll, s)
<1>1. b.side \in Color /\ Bishop # Rook
  BY BoardFields DEF Fresh, Bishop, Rook
<1>2. \A p \in Piece : \A x : x \in Bb(b, b.side, p) <=> x \in Coord /\ b.cells[x] = MakeCell(b.side, p)
  BY <1>1, BitboardCells
<1>3. /\ \A x : x \in BbDiagPieces(b, b.side) <=>
                  x \in Coord /\ \E p \in {Bishop, Queen} : b.cells[x] = MakeCell(b.side, p)
      /\ \A x : x \in BbLinePieces(b, b.side) <=>
                  x \in Coord /\ \E p \in {Rook, Queen} : b.cells[x] = MakeCell(b.side, p)
  BY <1>2, PieceFacts DEF BbDiagPieces, BbLinePieces
<1>4. Move(k, s, d) \in GenBishopOrRook(b, Bishop, BbDiagPieces(b, b.side), allowed, mask) <=>
        \E src \in BbDiagPieces(b, b.side) : \E dst \in (BishopAttack(b.bbAll, src) \cap allowed) \cap mask :
          Move(k, s, d) = Move("Simple", src, dst)
  BY DEF GenBishopOrRook
<1>5. Move(k, s, d) \in GenBishopOrRook(b, Rook, BbLinePieces(b, b.side), allowed, mask) <=>
        \E src \in BbLinePieces(b, b.side) : \E dst \in (RookAttack(b.bbAll, src) \cap allowed) \cap mask :
          Move(k, s, d) = Move("Simple", src, dst)
  BY <1>1 DEF GenBishopOrRook
<1>6. Move(k, s, d) \in GenBishopOrRook(b, Bishop, BbDiagPieces(b, b.side), allowed, mask) <=>
        /\ s \in BbDiagPieces(b, b.side) /\ k = "Simple"
        /\ d \in BishopAttack(b.bbAll, s) /\ d \in allowed /\ d \in mask
  BY <1>4, MoveParts
<1>7. Move(k, s, d) \in GenBishopOrRook(b, Rook, BbLinePieces(b, b.side), allowed, mask) <=>
        /\ s \in BbLinePieces(b, b.side) /\ k = "Simple"
        /\ d \in RookAttack(b.bbAll, s) /\ d \in allowed /\ d \in mask
  BY <1>5, MoveParts
<1> QED
  BY <1>3, <1>6, <1>7

(* Castling as it is generated; isMoveValid() asks besides that the king is not in *)
(* check.                                                                          *)
CastlesTo(b, side, k, s, d) ==
  LET c == b.side
  IN  /\ k = IF side = Kingside THEN "CastlingKingside" ELSE "CastlingQueenside"
      /\ s = MakeCoord(CastlingRow(c), 4)
      /\ d = MakeCoord(CastlingRow(c), IF side = Kingside THEN 6 ELSE 2)
      /\ <<c, side>> \in b.castling
      /\ CastlingPass(c, side) \cap b.bbAll = {}
      /\ ~IsCellAttacked(b, MakeCoord(CastlingRow(c), IF side = Kingside THEN 5 ELSE 3), Invert(c))
Castles(b, k, s, d) == \E side \in {Kingside, Queenside} : CastlesTo(b, side, k, s, d)

LEMMA CastlingsAre ==
  ASSUME NEW b, NEW k, NEW s, NEW d
  PROVE  Move(k, s, d) \in GenCastling(b, b.side) <=> Castles(b, k, s, d)
<1> DEFINE c == b.side
           open(side) == /\ <<c, side>> \in b.castling
                         /\ CastlingPass(c, side) \cap b.bbAll = {}
                         /\ ~IsCellAttacked(b, MakeCoord(CastlingRow(c), IF side = Kingside THEN 5 ELSE 3),
                                            Invert(c))
           kind(side) == IF side = Kingside THEN "CastlingKingside" ELSE "CastlingQueenside"
           src == MakeCoord(CastlingRow(c), 4)
           dst(side) == MakeCoord(CastlingRow(c), IF side = Kingside THEN 6 ELSE 2)
<1>1. GenCastling(b, c) = {Move(kind(side), src, dst(side)) :
                             side \in {x \in {Kingside, Queenside} : open(x)}}
  BY DEF GenCastling
<1>2. Castles(b, k, s, d) <=> \E side \in {Kingside, Queenside} :
                                 k = kind(side) /\ s = src /\ d = dst(side) /\ open(side)
  BY DEF Castles, CastlesTo
<1> HIDE DEF open, kind, src, dst
<1> QED
  BY <1>1, <1>2, MoveParts

(* A move captures if something stands where it goes, or in passing. *)
Captures(b, k, d) == b.cells[d] # EmptyCell \/ k = "Enpassant"

(* The moves of pawns, of the king and of the others: what isMoveValid() accepts *)
(* besides castling.                                                             *)
PawnGoes(b, k, s, d) ==
  /\ b.cells[s] = MakeCell(b.side, Pawn)
  /\ \/ PawnKind(k, Promoting(b, s)) /\ (PawnSteps(b, s, d) \/ PawnTakes(b, s, d))
     \/ k = "PawnDoubleMove" /\ PawnJumps(b, s, d)
     \/ k = "Enpassant" /\ PawnPasses(b, s, d)
OtherGoes(b, ps, k, s, d) ==
  k = "Simple" /\ ~Own(b.side, b.cells[d]) /\ \E p \in ps : PieceGoes(b, p, s, d)
Officers == {Knight, Bishop, Rook, Queen}
Goes(b, k, s, d) ==
  /\ s \in Coord /\ d \in Coord
  /\ PawnGoes(b, k, s, d) \/ OtherGoes(b, {King}, k, s, d) \/ OtherGoes(b, Officers, k, s, d)

(* Which of them answer the check, as far as the generators see. *)
Answering(b, check, k, s, d) ==
  \/ /\ Goes(b, k, s, d)
     /\ \/ b.cells[s] = MakeCell(b.side, King)
        \/ check.kind # "Double" /\ (k = "Enpassant" \/ d \in check.mask)
  \/ check.kind = "None" /\ Castles(b, k, s, d)

(* What a generator is asked for. *)
Wanted(b, gs, gc, gp, k, d) ==
  IF Captures(b, k, d) THEN gc ELSE gs /\ (k \in PromoteKinds => gp)

LEMMA AllowedCells ==
  ASSUME NEW b, Fresh(b), NEW gs \in BOOLEAN, NEW gc \in BOOLEAN, gs \/ gc, NEW d
  PROVE  d \in GetAllowedMask(b, b.side, gs, gc) <=>
           /\ d \in Coord /\ ~Own(b.side, b.cells[d])
           /\ IF b.cells[d] # EmptyCell THEN gc ELSE gs
<1>1. b.side \in Color /\ Invert(b.side) \in Color
  BY BoardFields, Colors DEF Fresh
<1>2. /\ \A x : x \in b.bbColor[b.side] <=> x \in Coord /\ Own(b.side, b.cells[x])
      /\ \A x : x \in b.bbColor[Invert(b.side)] <=> x \in Coord /\ Own(Invert(b.side), b.cells[x])
      /\ \A x : x \in b.bbAll <=> x \in Coord /\ b.cells[x] # EmptyCell
      /\ b.cells \in Cells
  BY <1>1, BitboardCells
<1>3. \A x \in Coord : b.cells[x] \in Cell
  BY <1>2 DEF Cells
<1>4. \A x \in Coord : /\ ~(Own(b.side, b.cells[x]) /\ Own(Invert(b.side), b.cells[x]))
                       /\ b.cells[x] = EmptyCell \/ Own(b.side, b.cells[x]) \/ Own(Invert(b.side), b.cells[x])
                       /\ Own(b.side, b.cells[x]) => b.cells[x] # EmptyCell
                       /\ Own(Invert(b.side), b.cells[x]) => b.cells[x] # EmptyCell
  BY <1>1, <1>3, Colors DEF Own
<1>5. CASE gs /\ gc
  BY <1>2, <1>4, <1>5 DEF GetAllowedMask
<1>6. CASE gs /\ ~gc
  BY <1>2, <1>4, <1>6 DEF GetAllowedMask
<1>7. CASE ~gs /\ gc
  BY <1>2, <1>4, <1>7 DEF GetAllowedMask
<1> QED
  BY <1>5, <1>6, <1>7

PawnSimplyGoes(b, policy, mask, k, s, d) ==
  /\ s \in Coord /\ d \in Coord /\ b.cells[s] = MakeCell(b.side, Pawn) /\ d \in mask
  /\ \/ PawnKind(k, Promoting(b, s)) /\ PawnSteps(b, s, d)
     \/ k = "PawnDoubleMove" /\ PawnJumps(b, s, d)
  /\ k \in PromoteKinds => policy # "NoPromote"
  /\ k \notin PromoteKinds => policy # "PromoteOnly"

LEMMA PawnSimpleAre ==
  ASSUME NEW b, Fresh(b), NEW policy \in {"All", "PromoteOnly", "NoPromote"}, NEW mask,
         NEW k, NEW s, NEW d
  PROVE  Move(k, s, d) \in GenPawnSimple(b, b.side, policy, mask)
         <=> PawnSimplyGoes(b, policy, mask, k, s, d)
<1> USE DEF PawnSimplyGoes
<1> DEFINE c == b.side
           pawns == Bb(b, c, Pawn)
           promoting == pawns \cap BbRow[PromoteSrcRow(c)]
           doubling == pawns \cap BbRow[DoubleMoveSrcRow(c)]
           move == Move(k, s, d)
<1>1. c \in Color /\ PromoteSrcRow(c) \in Subcoord
  BY BoardFields DEF Fresh, PromoteSrcRow, Subcoord
<1>2. \A x : x \in pawns <=> x \in Coord /\ b.cells[x] = MakeCell(c, Pawn)
  BY <1>1, BitboardCells, PieceFacts
<1>3. \A x : x \in promoting <=> x \in pawns /\ Promoting(b, x)
  BY <1>1, <1>2, LineCells DEF Promoting
<1>4. move \in DoGenPawnSingle(b, c, pawns \ promoting, FALSE, mask) <=>
        /\ s \in Coord /\ d \in Coord /\ s \in pawns \ promoting /\ d \in mask
        /\ PawnSteps(b, s, d) /\ PawnKind(k, FALSE)
  <2>1. pawns \ promoting \subseteq Coord /\ FALSE \in BOOLEAN
    BY <1>2
  <2> HIDE DEF pawns, promoting
  <2> QED
    BY <2>1, SinglesAre
<1>5. move \in DoGenPawnSingle(b, c, promoting, TRUE, mask) <=>
        /\ s \in Coord /\ d \in Coord /\ s \in promoting /\ d \in mask
        /\ PawnSteps(b, s, d) /\ PawnKind(k, TRUE)
  <2>1. promoting \subseteq Coord /\ TRUE \in BOOLEAN
    BY <1>2
  <2> HIDE DEF pawns, promoting
  <2> QED
    BY <2>1, SinglesAre
<1>6. move \in DoGenPawnDouble(b, c, doubling, mask) <=>
        /\ s \in Coord /\ d \in Coord /\ b.cells[s] = MakeCell(c, Pawn) /\ d \in mask
        /\ PawnJumps(b, s, d) /\ k = "PawnDoubleMove"
  BY DoublesAre
<1>7. move \in GenPawnSimple(b, c, policy, mask) <=>
        \/ /\ policy # "PromoteOnly"
           /\ \/ move \in DoGenPawnSingle(b, c, pawns \ promoting, FALSE, mask)
              \/ move \in DoGenPawnDouble(b, c, doubling, mask)
        \/ /\ policy # "NoPromote"
           /\ move \in DoGenPawnSingle(b, c, promoting, TRUE, mask)
  BY DEF GenPawnSimple
<1>8. /\ "Simple" \notin PromoteKinds /\ "PawnDoubleMove" \notin PromoteKinds
      /\ Promoting(b, s) \in BOOLEAN
  BY DEF PromoteKinds, Promoting
<1> HIDE DEF pawns, promoting, doubling, move
<1> QED
  BY <1>2, <1>3, <1>4, <1>5, <1>6, <1>7, <1>8 DEF PawnKind, move

LEMMA PawnCapturesAre ==
  ASSUME NEW b, Fresh(b), NEW mask, NEW k, NEW s, NEW d
  PROVE  Move(k, s, d) \in GenPawnCapture(b, b.side, mask) <=>
           /\ s \in Coord /\ d \in Coord /\ b.cells[s] = MakeCell(b.side, Pawn) /\ d \in mask
           /\ PawnKind(k, Promoting(b, s)) /\ PawnTakes(b, s, d)
<1> DEFINE c == b.side
           pawns == Bb(b, c, Pawn)
           promoting == pawns \cap BbRow[PromoteSrcRow(c)]
           move == Move(k, s, d)
<1>1. c \in Color /\ PromoteSrcRow(c) \in Subcoord
  BY BoardFields DEF Fresh, PromoteSrcRow, Subcoord
<1>2. \A x : x \in pawns <=> x \in Coord /\ b.cells[x] = MakeCell(c, Pawn)
  BY <1>1, BitboardCells, PieceFacts
<1>3. \A x : x \in promoting <=> x \in pawns /\ Promoting(b, x)
  BY <1>1, <1>2, LineCells DEF Promoting
<1>4. move \in DoGenPawnCapture(b, c, pawns \ promoting, FALSE, mask) <=>
        /\ s \in Coord /\ d \in Coord /\ s \in pawns \ promoting /\ d \in mask
        /\ PawnTakes(b, s, d) /\ PawnKind(k, FALSE)
  <2>1. pawns \ promoting \subseteq Coord /\ FALSE \in BOOLEAN
    BY <1>2
  <2> HIDE DEF pawns, promoting
  <2> QED
    BY <2>1, CapturesAre
<1>5. move \in DoGenPawnCapture(b, c, promoting, TRUE, mask) <=>
        /\ s \in Coord /\ d \in Coord /\ s \in promoting /\ d \in mask
        /\ PawnTakes(b, s, d) /\ PawnKind(k, TRUE)
  <2>1. promoting \subseteq Coord /\ TRUE \in BOOLEAN
    BY <1>2
  <2> HIDE DEF pawns, promoting
  <2> QED
    BY <2>1, CapturesAre
<1>6. move \in GenPawnCapture(b, c, mask) <=>
        \/ move \in DoGenPawnCapture(b, c, pawns \ promoting, FALSE, mask)
        \/ move \in DoGenPawnCapture(b, c, promoting, TRUE, mask)
  BY DEF GenPawnCapture
<1> HIDE DEF pawns, promoting, move
<1> QED
  BY <1>2, <1>3, <1>4, <1>5, <1>6 DEF PawnKind, move

(* Whether the moves of each sort capture, and promote. *)
LEMMA SortsOfMoves ==
  ASSUME NEW b, Fresh(b), NEW k, NEW s \in Coord, NEW d \in Coord
  PROVE  /\ PawnSteps(b, s, d) \/ PawnJumps(b, s, d) => b.cells[d] = EmptyCell
         /\ PawnTakes(b, s, d) => b.cells[d] # EmptyCell /\ ~Own(b.side, b.cells[d])
         /\ PawnKind(k, Promoting(b, s)) => k # "Enpassant" /\ k # "PawnDoubleMove"
         /\ Castles(b, k, s, d) =>
              /\ b.cells[d] = EmptyCell
              /\ k \in {"CastlingKingside", "CastlingQueenside"}
         /\ {"Simple", "PawnDoubleMove", "Enpassant", "CastlingKingside", "CastlingQueenside"}
              \cap PromoteKinds = {}
<1>1. b.side \in Color
  BY BoardFields DEF Fresh
<1>2. \A x : x \in b.bbAll <=> x \in Coord /\ b.cells[x] # EmptyCell
  BY <1>1, BitboardCells
<1>3. PawnTakes(b, s, d) => b.cells[d] # EmptyCell /\ ~Own(b.side, b.cells[d])
  BY <1>1, Colors DEF PawnTakes
<1>4. ASSUME Castles(b, k, s, d)
      PROVE  b.cells[d] = EmptyCell /\ k \in {"CastlingKingside", "CastlingQueenside"}
  <2>1. PICK side \in {Kingside, Queenside} : CastlesTo(b, side, k, s, d)
    BY <1>4 DEF Castles
  <2>2. d \in CastlingPass(b.side, side)
    <3> DEFINE y == IF side = Kingside THEN 6 ELSE 2
    <3>1. y \in (IF side = Kingside THEN {5, 6} ELSE {1, 2, 3})
      OBVIOUS
    <3>2. d = CastlingOffset(b.side) + y
      BY <2>1 DEF CastlesTo, CastlingOffset, MakeCoord
    <3> HIDE DEF y
    <3> QED
      BY <3>1, <3>2 DEF CastlingPass
  <2> QED
    BY <1>2, <2>1, <2>2 DEF CastlesTo
<1> QED
  BY <1>3, <1>4 DEF PawnSteps, PawnJumps, PawnKind, PromoteKinds

(* What genImplInner() calls, sort by sort. *)
InnerSorts(parts, b, gk, mask, wanted, k, s, d) ==
  LET move == Move(k, s, d)
      pawn == s \in Coord /\ d \in Coord /\ b.cells[s] = MakeCell(b.side, Pawn)
      officer == s \in Coord /\ d \in Coord /\ k = "Simple" /\ ~Own(b.side, b.cells[d])
  IN  /\ DOMAIN parts = 1..8
      /\ move \in parts[1] <=>
           /\ pawn /\ wanted /\ d \in mask
           /\ \/ PawnKind(k, Promoting(b, s)) /\ PawnSteps(b, s, d)
              \/ k = "PawnDoubleMove" /\ PawnJumps(b, s, d)
      /\ move \in parts[2] <=>
           /\ pawn /\ wanted /\ d \in mask
           /\ PawnKind(k, Promoting(b, s)) /\ PawnTakes(b, s, d)
      /\ move \in parts[3] <=> pawn /\ wanted /\ k = "Enpassant" /\ PawnPasses(b, s, d)
      /\ move \in parts[4] <=> officer /\ wanted /\ PieceGoes(b, King, s, d)
      /\ move \in parts[5] <=> officer /\ wanted /\ PieceGoes(b, Knight, s, d) /\ d \in mask
      /\ move \in parts[6] <=>
           /\ officer /\ wanted /\ d \in mask
           /\ \E p \in {Bishop, Queen} : b.cells[s] = MakeCell(b.side, p)
           /\ d \in BishopAttack(b.bbAll, s)
      /\ move \in parts[7] <=>
           /\ officer /\ wanted /\ d \in mask
           /\ \E p \in {Rook, Queen} : b.cells[s] = MakeCell(b.side, p)
           /\ d \in RookAttack(b.bbAll, s)
      /\ move \in parts[8] <=> gk /\ wanted /\ Castles(b, k, s, d)

LEMMA InnerAre ==
  ASSUME NEW b, Fresh(b), NEW gs \in BOOLEAN, NEW gc \in BOOLEAN, gs \/ gc, NEW gp \in BOOLEAN,
         NEW gk \in BOOLEAN, NEW mask, NEW k, NEW s, NEW d
  PROVE  InnerSorts(GenInner(b, b.side, gs, gc, gp, gk, mask), b, gk, mask,
                    Wanted(b, gs, gc, gp, k, d), k, s, d)
<1> DEFINE c == b.side
           allowed == GetAllowedMask(b, c, gs, gc)
           policy == IF gp THEN "All" ELSE "NoPromote"
           parts == GenInner(b, c, gs, gc, gp, gk, mask)
           move == Move(k, s, d)
           wanted == Wanted(b, gs, gc, gp, k, d)
           pawn == s \in Coord /\ d \in Coord /\ b.cells[s] = MakeCell(c, Pawn)
           officer == s \in Coord /\ d \in Coord /\ k = "Simple" /\ ~Own(c, b.cells[d])
<1>1. c \in Color
  BY BoardFields DEF Fresh
<1>2. s \in Coord /\ d \in Coord =>
         /\ PawnSteps(b, s, d) \/ PawnJumps(b, s, d) => b.cells[d] = EmptyCell
         /\ PawnTakes(b, s, d) => b.cells[d] # EmptyCell
         /\ PawnKind(k, Promoting(b, s)) => k # "Enpassant" /\ k # "PawnDoubleMove"
  BY SortsOfMoves
<1>3. /\ "Simple" \notin PromoteKinds /\ "PawnDoubleMove" \notin PromoteKinds
      /\ "CastlingKingside" \notin PromoteKinds /\ "CastlingQueenside" \notin PromoteKinds
  BY DEF PromoteKinds
<1>4. Castles(b, k, s, d) => s \in Coord /\ d \in Coord
  <2>1. ASSUME NEW y \in {2, 4, 6} PROVE MakeCoord(CastlingRow(c), y) \in Coord
    BY <1>1 DEF Color, White, Black, CastlingRow, MakeCoord, Coord
  <2> QED
    BY <2>1 DEF Castles, CastlesTo
<1>5. Castles(b, k, s, d) => b.cells[d] = EmptyCell /\ k \in {"CastlingKingside", "CastlingQueenside"}
  BY <1>4, SortsOfMoves
<1>6. /\ DOMAIN parts = 1..8
      /\ move \in parts[1] <=> gs /\ move \in GenPawnSimple(b, c, policy, mask)
      /\ move \in parts[2] <=> gc /\ move \in GenPawnCapture(b, c, mask)
      /\ move \in parts[3] <=> gc /\ move \in GenPawnEnpassant(b, c)
      /\ parts[4] = GenKnightOrKing(b, c, King, allowed, Coord)
      /\ parts[5] = GenKnightOrKing(b, c, Knight, allowed, mask)
      /\ parts[6] = GenBishopOrRook(b, Bishop, BbDiagPieces(b, c), allowed, mask)
      /\ parts[7] = GenBishopOrRook(b, Rook, BbLinePieces(b, c), allowed, mask)
      /\ move \in parts[8] <=> gs /\ gk /\ move \in GenCastling(b, c)
  BY DEF GenInner
<1>7. \A x : x \in allowed <=>
        /\ x \in Coord /\ ~Own(c, b.cells[x])
        /\ IF b.cells[x] # EmptyCell THEN gc ELSE gs
  BY AllowedCells
<1>8. allowed \subseteq Coord
  BY <1>7
<1>9. k = "Simple" /\ d \in Coord /\ ~Own(c, b.cells[d]) => (d \in allowed <=> wanted)
  BY <1>3, <1>7 DEF Wanted, Captures
<1> HIDE DEF parts, allowed
<1>10. move \in parts[1] <=>
         /\ pawn /\ wanted /\ d \in mask
         /\ \/ PawnKind(k, Promoting(b, s)) /\ PawnSteps(b, s, d)
            \/ k = "PawnDoubleMove" /\ PawnJumps(b, s, d)
  <2>1. policy \in {"All", "PromoteOnly", "NoPromote"}
    OBVIOUS
  <2>2. move \in GenPawnSimple(b, c, policy, mask) <=>
           /\ pawn /\ d \in mask
           /\ \/ PawnKind(k, Promoting(b, s)) /\ PawnSteps(b, s, d)
              \/ k = "PawnDoubleMove" /\ PawnJumps(b, s, d)
           /\ k \in PromoteKinds => policy # "NoPromote"
           /\ k \notin PromoteKinds => policy # "PromoteOnly"
    <3>1. Move(k, s, d) \in GenPawnSimple(b, b.side, policy, mask)
          <=> PawnSimplyGoes(b, policy, mask, k, s, d)
      <4> HIDE DEF policy
      <4> QED
        BY <2>1, PawnSimpleAre
    <3> HIDE DEF policy
    <3> QED
      BY <3>1 DEF PawnSimplyGoes
  <2>3. (policy # "NoPromote" <=> gp) /\ policy # "PromoteOnly"
    OBVIOUS
  <2>4. pawn /\ (\/ PawnKind(k, Promoting(b, s)) /\ PawnSteps(b, s, d)
                 \/ k = "PawnDoubleMove" /\ PawnJumps(b, s, d))
          => ~Captures(b, k, d)
    BY <1>2 DEF Captures
  <2> HIDE DEF policy, pawn, move
  <2> QED
    BY <1>6, <2>2, <2>3, <2>4 DEF Wanted
<1>11. move \in parts[2] <=>
         /\ pawn /\ wanted /\ d \in mask
         /\ PawnKind(k, Promoting(b, s)) /\ PawnTakes(b, s, d)
  <2>1. move \in GenPawnCapture(b, c, mask) <=>
          pawn /\ d \in mask /\ PawnKind(k, Promoting(b, s)) /\ PawnTakes(b, s, d)
    BY PawnCapturesAre
  <2>2. pawn /\ PawnTakes(b, s, d) => Captures(b, k, d)
    BY <1>2 DEF Captures
  <2> HIDE DEF pawn, move
  <2> QED
    BY <1>6, <2>1, <2>2 DEF Wanted
<1>12. move \in parts[3] <=> pawn /\ wanted /\ k = "Enpassant" /\ PawnPasses(b, s, d)
  <2>1. move \in GenPawnEnpassant(b, c) <=> pawn /\ PawnPasses(b, s, d) /\ k = "Enpassant"
    BY PassingsAre
  <2> HIDE DEF pawn, move
  <2> QED
    BY <1>6, <2>1 DEF Wanted, Captures
<1>13. /\ move \in parts[4] <=> officer /\ wanted /\ PieceGoes(b, King, s, d)
       /\ move \in parts[5] <=> officer /\ wanted /\ PieceGoes(b, Knight, s, d) /\ d \in mask
  <2>1. ASSUME NEW p \in {King, Knight}, NEW any
        PROVE  move \in GenKnightOrKing(b, c, p, allowed, any) <=>
                 /\ s \in Coord /\ d \in Coord /\ k = "Simple" /\ d \in allowed /\ d \in any
                 /\ PieceGoes(b, p, s, d)
    BY <1>8, StepsAre
  <2> HIDE DEF move, wanted
  <2> QED
    BY <1>6, <1>7, <1>9, <2>1
<1>14. /\ move \in parts[6] <=>
            /\ officer /\ wanted /\ d \in mask
            /\ \E p \in {Bishop, Queen} : b.cells[s] = MakeCell(c, p)
            /\ d \in BishopAttack(b.bbAll, s)
       /\ move \in parts[7] <=>
            /\ officer /\ wanted /\ d \in mask
            /\ \E p \in {Rook, Queen} : b.cells[s] = MakeCell(c, p)
            /\ d \in RookAttack(b.bbAll, s)
  <2>1. /\ move \in GenBishopOrRook(b, Bishop, BbDiagPieces(b, b.side), allowed, mask) <=>
              /\ s \in Coord /\ d \in Coord /\ k = "Simple" /\ d \in allowed /\ d \in mask
              /\ \E p \in {Bishop, Queen} : b.cells[s] = MakeCell(b.side, p)
              /\ d \in BishopAttack(b.bbAll, s)
        /\ move \in GenBishopOrRook(b, Rook, BbLinePieces(b, b.side), allowed, mask) <=>
              /\ s \in Coord /\ d \in Coord /\ k = "Simple" /\ d \in allowed /\ d \in mask
              /\ \E p \in {Rook, Queen} : b.cells[s] = MakeCell(b.side, p)
              /\ d \in RookAttack(b.bbAll, s)
    BY <1>8, SlidesAre
  <2> HIDE DEF move, wanted
  <2> QED
    BY <1>6, <1>7, <1>9, <2>1
<1>15. move \in parts[8] <=> gk /\ wanted /\ Castles(b, k, s, d)
  <2>1. move \in GenCastling(b, c) <=> Castles(b, k, s, d)
    BY CastlingsAre
  <2>2. Castles(b, k, s, d) => ~Captures(b, k, d) /\ k \notin PromoteKinds
    BY <1>3, <1>5 DEF Captures
  <2> HIDE DEF move
  <2> QED
    BY <1>6, <2>1, <2>2 DEF Wanted
<1>16. DOMAIN parts = 1..8
  BY <1>6
<1> HIDE DEF move, wanted
<1>17. InnerSorts(parts, b, gk, mask, wanted, k, s, d)
  BY <1>10, <1>11, <1>12, <1>13, <1>14, <1>15, <1>16 DEF InnerSorts, move
<1> QED
  BY <1>17 DEF parts, wanted

(* A piece is of one kind. *)
LEMMA OnePiece ==
  ASSUME NEW b, Fresh(b), NEW s, NEW p \in Piece, NEW q \in Piece,
         b.cells[s] = MakeCell(b.side, p), b.cells[s] = MakeCell(b.side, q)
  PROVE  p = q
<1>1. b.side \in Color
  BY BoardFields DEF Fresh
<1>2. MakeCell(b.side, p) = MakeCell(b.side, q)
  OBVIOUS
<1>3. \A c1, c2 \in Color, p1, q1 \in Piece : MakeCell(c1, p1) = MakeCell(c2, q1) => p1 = q1
  BY CellFacts
<1> QED
  BY <1>1, <1>2, <1>3

LEMMA PieceKinds ==
  /\ Officers \subseteq Piece /\ King \in Piece /\ Pawn \in Piece
  /\ King \notin Officers /\ Pawn \notin Officers /\ King # Pawn
  /\ Knight # Bishop /\ Knight # Rook /\ Knight # Queen /\ Bishop # Rook /\ Bishop # Queen /\ Rook # Queen
BY DEF Officers, Piece, Pawn, King, Knight, Bishop, Rook, Queen

(* What any of the generators writes: the moves that answer the check, of the     *)
(* sorts it is asked for.                                                         *)
LEMMA GeneratedAre ==
  ASSUME NEW b, Fresh(b), NEW gs \in BOOLEAN, NEW gc \in BOOLEAN, gs \/ gc, NEW gp \in BOOLEAN,
         NEW k, NEW s, NEW d
  PROVE  Move(k, s, d) \in Collect(GenParts(b, gs, gc, gp)) <=>
           Answering(b, Check(b), k, s, d) /\ Wanted(b, gs, gc, gp, k, d)
<1> DEFINE c == b.side
           check == Check(b)
           move == Move(k, s, d)
           wanted == Wanted(b, gs, gc, gp, k, d)
           parts == GenParts(b, gs, gc, gp)
           inner == GenInner(b, c, gs, gc, gp, check.kind = "None", check.mask)
           pawn == s \in Coord /\ d \in Coord /\ b.cells[s] = MakeCell(c, Pawn)
           officer == s \in Coord /\ d \in Coord /\ k = "Simple" /\ ~Own(c, b.cells[d])
           slides(p, ps, attack) == (\E q \in ps : b.cells[s] = MakeCell(c, q)) /\ d \in attack
<1>1. parts = IF check.kind = "Double"
              THEN <<GenKnightOrKing(b, c, King, GetAllowedMask(b, c, gs, gc), Coord)>>
              ELSE inner
  BY DEF GenParts, GenImpl
<1>2. inner[4] = GenKnightOrKing(b, c, King, GetAllowedMask(b, c, gs, gc), Coord)
  BY DEF GenInner
<1>3. InnerSorts(inner, b, check.kind = "None", check.mask, wanted, k, s, d)
  <2>1. (check.kind = "None") \in BOOLEAN
    OBVIOUS
  <2> HIDE DEF check
  <2> QED
    BY <2>1, InnerAre
<1>4. (\E p \in Officers : PieceGoes(b, p, s, d)) <=>
        \/ PieceGoes(b, Knight, s, d)
        \/ (\E p \in {Bishop, Queen} : b.cells[s] = MakeCell(c, p)) /\ d \in BishopAttack(b.bbAll, s)
        \/ (\E p \in {Rook, Queen} : b.cells[s] = MakeCell(c, p)) /\ d \in RookAttack(b.bbAll, s)
  BY SourceSets DEF PieceGoes, Officers
<1>5. /\ PieceGoes(b, King, s, d) => b.cells[s] = MakeCell(c, King)
      /\ b.cells[s] = MakeCell(c, King) =>
           ~PawnGoes(b, k, s, d) /\ ~\E p \in Officers : PieceGoes(b, p, s, d)
  BY OnePiece, PieceKinds DEF PieceGoes, PawnGoes
<1>7. \A m : m \in Collect(parts) <=> \E i \in DOMAIN parts : m \in parts[i]
  BY DEF Collect
<1>8. Goes(b, k, s, d) <=>
        \/ pawn /\ PawnKind(k, Promoting(b, s)) /\ PawnSteps(b, s, d)
        \/ pawn /\ PawnKind(k, Promoting(b, s)) /\ PawnTakes(b, s, d)
        \/ pawn /\ k = "PawnDoubleMove" /\ PawnJumps(b, s, d)
        \/ pawn /\ k = "Enpassant" /\ PawnPasses(b, s, d)
        \/ officer /\ PieceGoes(b, King, s, d)
        \/ officer /\ \E p \in Officers : PieceGoes(b, p, s, d)
  BY DEF Goes, PawnGoes, OtherGoes
<1>9. s \in Coord /\ d \in Coord /\ PawnKind(k, Promoting(b, s)) => k # "Enpassant"
  BY SortsOfMoves
<1>10. pawn => b.cells[s] # MakeCell(c, King)
  BY OnePiece, PieceKinds
<1> HIDE DEF parts, inner, check, move, wanted
<1>11. CASE check.kind = "Double"
  <2>1. move \in Collect(parts) <=> officer /\ wanted /\ PieceGoes(b, King, s, d)
    <3>1. DOMAIN parts = {1} /\ parts[1] = inner[4]
      BY <1>1, <1>2, <1>11
    <3> QED
      BY <1>3, <1>7, <3>1 DEF InnerSorts, move
  <2>2. Answering(b, check, k, s, d) <=> Goes(b, k, s, d) /\ b.cells[s] = MakeCell(c, King)
    BY <1>11 DEF Answering
  <2>3. Goes(b, k, s, d) /\ b.cells[s] = MakeCell(c, King) <=> officer /\ PieceGoes(b, King, s, d)
    BY <1>5, <1>8, <1>10 DEF PieceGoes
  <2> QED
    BY <2>1, <2>2, <2>3 DEF parts, move, wanted, check
<1>12. CASE check.kind # "Double"
  <2>1. parts = inner
    BY <1>1, <1>12
  <2>2. move \in Collect(parts) <=>
          \/ move \in inner[1] \/ move \in inner[2] \/ move \in inner[3] \/ move \in inner[4]
          \/ move \in inner[5] \/ move \in inner[6] \/ move \in inner[7] \/ move \in inner[8]
    <3>1. \A i : i \in 1..8 <=> i \in {1, 2, 3, 4, 5, 6, 7, 8}
      OBVIOUS
    <3>2. move \in Collect(parts) <=> \E i \in {1, 2, 3, 4, 5, 6, 7, 8} : move \in inner[i]
      BY <1>3, <1>7, <2>1, <3>1 DEF InnerSorts
    <3> QED
      BY <3>2
  <2>3. Answering(b, check, k, s, d) <=>
          \/ Goes(b, k, s, d) /\ b.cells[s] = MakeCell(c, King)
          \/ Goes(b, k, s, d) /\ k = "Enpassant"
          \/ Goes(b, k, s, d) /\ d \in check.mask
          \/ check.kind = "None" /\ Castles(b, k, s, d)
    BY <1>12 DEF Answering
  <2>4. /\ Goes(b, k, s, d) /\ b.cells[s] = MakeCell(c, King) <=> officer /\ PieceGoes(b, King, s, d)
        /\ Goes(b, k, s, d) /\ k = "Enpassant" <=> pawn /\ k = "Enpassant" /\ PawnPasses(b, s, d)
    BY <1>5, <1>8, <1>9, <1>10 DEF PieceGoes
  <2> HIDE DEF pawn, officer
  <2>5. move \in Collect(parts) <=> wanted /\
          (\/ officer /\ PieceGoes(b, King, s, d)
           \/ pawn /\ k = "Enpassant" /\ PawnPasses(b, s, d)
           \/ Goes(b, k, s, d) /\ d \in check.mask
           \/ check.kind = "None" /\ Castles(b, k, s, d))
    BY <1>3, <1>4, <1>8, <2>2 DEF InnerSorts, move, pawn, officer
  <2> QED
    BY <2>3, <2>4, <2>5 DEF parts, move, wanted, check
<1> QED
  BY <1>11, <1>12

(* What is in a generated set is a move. *)
IsMove(m) == m = Move(m.kind, m.src, m.dst)

LEMMA PawnsWriteMoves ==
  ASSUME NEW b, NEW c, NEW policy, NEW mask, NEW m,
         \/ m \in GenPawnSimple(b, c, policy, mask)
         \/ m \in GenPawnCapture(b, c, mask)
         \/ m \in GenPawnEnpassant(b, c)
  PROVE  IsMove(m)
<1>1. \A k, s, d : IsMove(Move(k, s, d))
  BY DEF IsMove, Move
<1>2. \A s, d, p : \A x \in PawnMoves(s, d, p) : IsMove(x)
  BY <1>1 DEF PawnMoves
<1>3. \A pawns, p : m \in DoGenPawnSingle(b, c, pawns, p, mask) => IsMove(m)
  BY <1>2 DEF DoGenPawnSingle
<1>4. \A pawns : m \in DoGenPawnDouble(b, c, pawns, mask) => IsMove(m)
  BY <1>1 DEF DoGenPawnDouble
<1>5. \A pawns, p : m \in DoGenPawnCapture(b, c, pawns, p, mask) => IsMove(m)
  BY <1>2 DEF DoGenPawnCapture
<1>6. m \in GenPawnEnpassant(b, c) => IsMove(m)
  BY <1>1 DEF GenPawnEnpassant
<1>7. m \in GenPawnSimple(b, c, policy, mask) => IsMove(m)
  BY <1>3, <1>4 DEF GenPawnSimple
<1>8. m \in GenPawnCapture(b, c, mask) => IsMove(m)
  BY <1>5 DEF GenPawnCapture
<1> QED
  BY <1>6, <1>7, <1>8

LEMMA WritesMoves ==
  ASSUME NEW b, NEW gs, NEW gc, NEW gp, NEW i \in DOMAIN GenParts(b, gs, gc, gp),
         NEW m \in GenParts(b, gs, gc, gp)[i]
  PROVE  IsMove(m)
<1> DEFINE c == b.side
           check == Check(b)
           allowed == GetAllowedMask(b, c, gs, gc)
           policy == IF gp THEN "All" ELSE "NoPromote"
           g1 == IF gs THEN GenPawnSimple(b, c, policy, check.mask) ELSE {}
           g2 == IF gc THEN GenPawnCapture(b, c, check.mask) ELSE {}
           g3 == IF gc THEN GenPawnEnpassant(b, c) ELSE {}
           g4 == GenKnightOrKing(b, c, King, allowed, Coord)
           g5 == GenKnightOrKing(b, c, Knight, allowed, check.mask)
           g6 == GenBishopOrRook(b, Bishop, BbDiagPieces(b, c), allowed, check.mask)
           g7 == GenBishopOrRook(b, Rook, BbLinePieces(b, c), allowed, check.mask)
           g8 == IF gs /\ check.kind = "None" THEN GenCastling(b, c) ELSE {}
           parts == GenParts(b, gs, gc, gp)
<1>1. \A k, s, d : IsMove(Move(k, s, d))
  BY DEF IsMove, Move
<1>2. parts = IF check.kind = "Double" THEN <<g4>> ELSE <<g1, g2, g3, g4, g5, g6, g7, g8>>
  BY DEF GenParts, GenImpl, GenInner
<1>3. m \in g1 \/ m \in g2 \/ m \in g3 => IsMove(m)
  BY PawnsWriteMoves
<1>4. m \in g4 \/ m \in g5 => IsMove(m)
  BY <1>1 DEF GenKnightOrKing
<1>5. m \in g6 \/ m \in g7 => IsMove(m)
  BY <1>1 DEF GenBishopOrRook
<1>6. m \in g8 => IsMove(m)
  <2>1. m \in g8 => \E side \in {Kingside, Queenside} : \E k, d :
                      m = Move(k, MakeCoord(CastlingRow(c), 4), d)
    BY DEF GenCastling
  <2> QED
    BY <1>1, <2>1
<1> HIDE DEF parts, g1, g2, g3, g4, g5, g6, g7, g8
<1>7. \/ m \in g1 \/ m \in g2 \/ m \in g3 \/ m \in g4 \/ m \in g5 \/ m \in g6 \/ m \in g7 \/ m \in g8
  <2>1. i \in DOMAIN parts /\ m \in parts[i]
    BY DEF parts
  <2> QED
    BY <1>2, <2>1
<1> QED
  BY <1>3, <1>4, <1>5, <1>6, <1>7

(* The generators of the stages of the search write the parts of what             *)
(* genAllMoves() writes: captures, quiet moves, promotions that do not capture.   *)
LEMMA SortedOut ==
  ASSUME NEW b, Fresh(b), NEW m
  PROVE  /\ m \in GenCaptures(b) <=> m \in GenAllMoves(b) /\ IsMoveCapture(b, m)
         /\ m \in GenSimpleMoves(b) <=> m \in GenAllMoves(b) /\ ~IsMoveCapture(b, m)
         /\ m \in GenSimplePromotes(b) <=>
              m \in GenAllMoves(b) /\ ~IsMoveCapture(b, m) /\ m.kind \in PromoteKinds
         /\ m \in GenSimpleMovesNoPromote(b) <=>
              m \in GenAllMoves(b) /\ ~IsMoveCapture(b, m) /\ m.kind \notin PromoteKinds
<1>1. \A gs, gc, gp : m \in Collect(GenParts(b, gs, gc, gp)) => IsMove(m)
  BY WritesMoves DEF Collect
<1>2. m \in GenSimplePromotes(b) => IsMove(m)
  BY PawnsWriteMoves DEF GenSimplePromotes, GenPromotesImpl
<1>3. \/ IsMove(m)
      \/ /\ m \notin GenAllMoves(b) /\ m \notin GenCaptures(b) /\ m \notin GenSimpleMoves(b)
         /\ m \notin GenSimplePromotes(b) /\ m \notin GenSimpleMovesNoPromote(b)
  BY <1>1, <1>2 DEF GenAllMoves, GenCaptures, GenSimpleMoves, GenSimpleMovesNoPromote
<1>4. SUFFICES ASSUME IsMove(m)
               PROVE  /\ m \in GenCaptures(b) <=> m \in GenAllMoves(b) /\ IsMoveCapture(b, m)
                      /\ m \in GenSimpleMoves(b) <=> m \in GenAllMoves(b) /\ ~IsMoveCapture(b, m)
                      /\ m \in GenSimplePromotes(b) <=>
                           m \in GenAllMoves(b) /\ ~IsMoveCapture(b, m) /\ m.kind \in PromoteKinds
                      /\ m \in GenSimpleMovesNoPromote(b) <=>
                           m \in GenAllMoves(b) /\ ~IsMoveCapture(b, m) /\ m.kind \notin PromoteKinds
  BY <1>3
<1>5. PICK k, s, d : m = Move(k, s, d)
  BY <1>4 DEF IsMove
<1> DEFINE check == Check(b)
           answers == Answering(b, check, k, s, d)
<1>6. m.kind = k /\ m.src = s /\ m.dst = d
  BY <1>5, MoveParts
<1>7. IsMoveCapture(b, m) <=> Captures(b, k, d)
  BY <1>6 DEF IsMoveCapture, Captures
<1>8. ASSUME NEW gs \in BOOLEAN, NEW gc \in BOOLEAN, gs \/ gc, NEW gp \in BOOLEAN
      PROVE  m \in Collect(GenParts(b, gs, gc, gp)) <=> answers /\ Wanted(b, gs, gc, gp, k, d)
  BY <1>5, <1>8, GeneratedAre
<1> HIDE DEF answers
<1>9. /\ m \in GenAllMoves(b) <=> answers
      /\ m \in GenCaptures(b) <=> answers /\ Captures(b, k, d)
      /\ m \in GenSimpleMoves(b) <=> answers /\ ~Captures(b, k, d)
      /\ m \in GenSimpleMovesNoPromote(b) <=> answers /\ ~Captures(b, k, d) /\ k \notin PromoteKinds
  BY <1>8 DEF GenAllMoves, GenCaptures, GenSimpleMoves, GenSimpleMovesNoPromote, Wanted
<1>10. m \in GenSimplePromotes(b) <=> answers /\ ~Captures(b, k, d) /\ k \in PromoteKinds
  <2>1. "PromoteOnly" \in {"All", "PromoteOnly", "NoPromote"}
    OBVIOUS
  <2>2. m \in GenPawnSimple(b, b.side, "PromoteOnly", check.mask) <=>
           /\ s \in Coord /\ d \in Coord /\ b.cells[s] = MakeCell(b.side, Pawn) /\ d \in check.mask
           /\ \/ PawnKind(k, Promoting(b, s)) /\ PawnSteps(b, s, d)
              \/ k = "PawnDoubleMove" /\ PawnJumps(b, s, d)
           /\ k \in PromoteKinds => "PromoteOnly" # "NoPromote"
           /\ k \notin PromoteKinds => "PromoteOnly" # "PromoteOnly"
    BY <1>5, <2>1, PawnSimpleAre DEF PawnSimplyGoes
  <2>3. m \in GenSimplePromotes(b) <=>
          check.kind # "Double" /\ m \in GenPawnSimple(b, b.side, "PromoteOnly", check.mask)
    BY DEF GenSimplePromotes, GenPromotesImpl
  <2>4. s \in Coord /\ d \in Coord =>
          /\ PawnSteps(b, s, d) \/ PawnJumps(b, s, d) => b.cells[d] = EmptyCell
          /\ PawnTakes(b, s, d) => b.cells[d] # EmptyCell
          /\ PawnKind(k, Promoting(b, s)) => k # "Enpassant" /\ k # "PawnDoubleMove"
          /\ Castles(b, k, s, d) => k \in {"CastlingKingside", "CastlingQueenside"}
          /\ {"Simple", "PawnDoubleMove", "Enpassant", "CastlingKingside", "CastlingQueenside"}
               \cap PromoteKinds = {}
    BY SortsOfMoves
  <2>5. b.cells[s] = MakeCell(b.side, Pawn) => b.cells[s] # MakeCell(b.side, King)
    BY OnePiece, PieceKinds
  <2>6. Castles(b, k, s, d) => k \notin PromoteKinds
    BY DEF Castles, CastlesTo, PromoteKinds
  <2> HIDE DEF check
  <2>7. k \in PromoteKinds =>
          /\ k # "Simple" /\ k # "Enpassant" /\ k # "PawnDoubleMove"
    BY DEF PromoteKinds
  <2>8. k \in PromoteKinds =>
          (answers <=> /\ s \in Coord /\ d \in Coord /\ b.cells[s] = MakeCell(b.side, Pawn)
                       /\ PawnKind(k, Promoting(b, s)) /\ (PawnSteps(b, s, d) \/ PawnTakes(b, s, d))
                       /\ check.kind # "Double" /\ d \in check.mask)
    BY <2>5, <2>6, <2>7 DEF answers, Answering, Goes, PawnGoes, OtherGoes
  <2> QED
    BY <2>2, <2>3, <2>4, <2>7, <2>8 DEF Captures
<1> QED
  BY <1>6, <1>7, <1>9, <1>10

(* What isMoveValid() asks of a pawn's move that is well-formed is what pawns may do. *)
LEMMA ValidPawns ==
  ASSUME NEW b, Fresh(b), NEW k, NEW s \in Coord, NEW d \in Coord,
         b.cells[s] = MakeCell(b.side, Pawn), PawnsInside(b.cells),
         k \in {"Simple", "PawnDoubleMove", "Enpassant"} \union PromoteKinds
  PROVE  PawnGoes(b, k, s, d) <=>
           IsWellFormed(Move(k, s, d), b.side) /\ IsPawnMoveValid(b, b.side, Move(k, s, d))
<1> DEFINE c == b.side
           m == Move(k, s, d)
           fwd == PawnForwardDelta(c)
           ep == b.enpassantCoord
<1>1. c \in Color /\ Invert(c) \in Color /\ ep \in MaybeCoord /\ b.cells \in Cells
  BY BoardFields, Colors DEF Fresh
<1>2. m.kind = k /\ m.src = s /\ m.dst = d
  BY MoveParts
<1>3. /\ "Simple" \notin PromoteKinds /\ "PawnDoubleMove" \notin PromoteKinds
      /\ "Enpassant" \notin PromoteKinds /\ "CastlingKingside" \notin PromoteKinds
      /\ "CastlingQueenside" \notin PromoteKinds /\ "Null" \notin PromoteKinds
  BY DEF PromoteKinds
<1>4. CoordX(s) \in 1..6
  BY <1>1 DEF PawnsInside
<1>5. \A x : x \in b.bbAll <=> x \in Coord /\ b.cells[x] # EmptyCell
  BY <1>1, BitboardCells
<1>6. /\ Own(Invert(c), b.cells[d]) <=> b.cells[d] # EmptyCell /\ CellPieceColor(b.cells[d]) # c
  <2>1. b.cells[d] \in Cell
    BY <1>1 DEF Cells
  <2> QED
    BY <1>1, <2>1, Colors, CellFacts DEF Own
<1> HIDE DEF m
<1>7. CASE k = "PawnDoubleMove"
  <2>1. PawnGoes(b, k, s, d) <=> PawnJumps(b, s, d)
    BY <1>3, <1>7 DEF PawnGoes, PawnKind
  <2>2. IsPawnMoveValid(b, c, m) <=> s + fwd \notin b.bbAll /\ s + 2 * fwd \notin b.bbAll
    BY <1>2, <1>7 DEF IsPawnMoveValid
  <2>3. IsWellFormed(m, c) <=> /\ s # d /\ CoordX(s) = DoubleMoveSrcRow(c)
                               /\ CoordX(d) = DoubleMoveDstRow(c) /\ CoordY(s) = CoordY(d)
    BY <1>2, <1>3, <1>7 DEF IsWellFormed
  <2>4. CoordX(s) = DoubleMoveSrcRow(c) =>
          /\ s + fwd \in Coord /\ s + 2 * fwd \in Coord
          /\ s # d /\ CoordX(d) = DoubleMoveDstRow(c) /\ CoordY(s) = CoordY(d) <=> d = s + 2 * fwd
    <3>1. PICK x, y, u, v \in Subcoord : /\ x = CoordX(s) /\ y = CoordY(s) /\ s = 8 * x + y
                                         /\ u = CoordX(d) /\ v = CoordY(d) /\ d = 8 * u + v
      BY CoordParts DEF MakeCoord
    <3>2. CASE c = White
      <4>1. fwd = -8 /\ DoubleMoveSrcRow(c) = 6 /\ DoubleMoveDstRow(c) = 4
        BY <3>2 DEF PawnForwardDelta, DoubleMoveSrcRow, DoubleMoveDstRow
      <4> QED
        BY <3>1, <4>1 DEF Subcoord, Coord
    <3>3. CASE c # White
      <4>1. fwd = 8 /\ DoubleMoveSrcRow(c) = 1 /\ DoubleMoveDstRow(c) = 3
        BY <3>3 DEF PawnForwardDelta, DoubleMoveSrcRow, DoubleMoveDstRow
      <4> QED
        BY <3>1, <4>1 DEF Subcoord, Coord
    <3> QED
      BY <3>2, <3>3
  <2> HIDE DEF fwd
  <2> QED
    BY <1>5, <2>1, <2>2, <2>3, <2>4 DEF PawnJumps, fwd, m
<1>8. CASE k = "Enpassant"
  <2>1. PawnGoes(b, k, s, d) <=> PawnPasses(b, s, d)
    BY <1>3, <1>8 DEF PawnGoes, PawnKind
  <2>2. IsPawnMoveValid(b, c, m) <=> ep \in {s - 1, s + 1} /\ d = ep + fwd
    BY <1>2, <1>3, <1>8 DEF IsPawnMoveValid
  <2>3. IsWellFormed(m, c) <=> /\ s # d /\ CoordX(s) = EnpassantSrcRow(c)
                               /\ CoordX(d) = EnpassantDstRow(c) /\ CoordY(d) - CoordY(s) \in {-1, 1}
    BY <1>2, <1>3, <1>8 DEF IsWellFormed
  <2>4. CASE ep = InvalidCoord
    <3>1. ~PawnPasses(b, s, d)
      BY <2>4 DEF PawnPasses
    <3>2. ep \in {s - 1, s + 1} => CoordX(s) # EnpassantSrcRow(c)
      BY <2>4 DEF InvalidCoord, Coord, CoordX, EnpassantSrcRow
    <3> QED
      BY <2>1, <2>2, <2>3, <3>1, <3>2 DEF m
  <2>5. CASE ep # InvalidCoord
    <3>1. ep \in Coord /\ CoordX(ep) = EnpassantSrcRow(c)
      BY <1>1, <2>5 DEF MaybeCoord, Fresh
    <3>2. /\ (CoordY(ep) # 0 /\ s = ep - 1) \/ (CoordY(ep) # 7 /\ s = ep + 1)
               <=> ep \in {s - 1, s + 1} /\ CoordX(s) = EnpassantSrcRow(c)
          /\ ep \in {s - 1, s + 1} /\ CoordX(s) = EnpassantSrcRow(c) /\ d = ep + fwd =>
               /\ s # d /\ CoordX(d) = EnpassantDstRow(c) /\ CoordY(d) - CoordY(s) \in {-1, 1}
      BY <1>1, <3>1 DEF Coord, CoordX, CoordY, EnpassantSrcRow, EnpassantDstRow, PawnForwardDelta, Color, White, Black
    <3> HIDE DEF fwd
    <3> QED
      BY <2>1, <2>2, <2>3, <2>5, <3>2 DEF PawnPasses, fwd, m
  <2> QED
    BY <2>4, <2>5
<1>9. CASE k \in {"Simple"} \union PromoteKinds
  <2> DEFINE moves == PawnSteps(b, s, d) \/ PawnTakes(b, s, d)
  <2>1. PawnGoes(b, k, s, d) <=> PawnKind(k, Promoting(b, s)) /\ moves
    BY <1>3, <1>9 DEF PawnGoes
  <2>2. IsPawnMoveValid(b, c, m) <=>
          /\ k \in PromoteKinds \/ CoordX(s) # PromoteSrcRow(c)
          /\ moves
    <3>1. IsPawnMoveValid(b, c, m) <=>
            /\ k \in PromoteKinds \/ CoordX(s) # PromoteSrcRow(c)
            /\ \/ b.cells[d] = EmptyCell /\ d = s + fwd
               \/ /\ b.cells[d] # EmptyCell
                  /\ CellPieceColor(b.cells[d]) # c
                  /\ d \in PawnAttacks[c][s]
      BY <1>2, <1>3, <1>9 DEF IsPawnMoveValid
    <3> QED
      BY <1>6, <3>1 DEF PawnSteps, PawnTakes
  <2>3. IsWellFormed(m, c) <=>
          /\ s # d
          /\ k \in PromoteKinds => /\ CoordX(s) = PromoteSrcRow(c)
                                   /\ CoordX(d) = PromoteDstRow(c)
                                   /\ CoordY(d) - CoordY(s) \in -1..1
    BY <1>2, <1>3, <1>9 DEF IsWellFormed
  <2>4. moves => s # d /\ (CoordX(s) = PromoteSrcRow(c) => CoordX(d) = PromoteDstRow(c))
                 /\ CoordY(d) - CoordY(s) \in -1..1
    <3>1. PawnTakes(b, s, d) => /\ CoordX(d) - CoordX(s) = IF c = White THEN -1 ELSE 1
                                /\ CoordY(d) - CoordY(s) \in {-1, 1}
      BY <1>1, NearCells DEF PawnTakes
    <3>2. PawnSteps(b, s, d) => /\ CoordX(d) - CoordX(s) = IF c = White THEN -1 ELSE 1
                                /\ CoordY(d) - CoordY(s) = 0
      BY <1>1 DEF PawnSteps, PawnForwardDelta, Coord, CoordX, CoordY
    <3>3. CoordX(s) \in 0..7 /\ CoordX(d) \in 0..7 /\ CoordY(s) \in 0..7 /\ CoordY(d) \in 0..7
      BY CoordParts DEF Subcoord
    <3> HIDE DEF moves
    <3>4. moves => /\ CoordX(d) - CoordX(s) = IF c = White THEN -1 ELSE 1
                   /\ CoordY(d) - CoordY(s) \in -1..1
      BY <3>1, <3>2 DEF moves
    <3>5. moves => s # d
      BY <3>3, <3>4
    <3> QED
      BY <3>3, <3>4, <3>5 DEF PromoteSrcRow, PromoteDstRow
  <2> HIDE DEF moves
  <2>5. PawnKind(k, Promoting(b, s)) <=>
          /\ k \in PromoteKinds \/ CoordX(s) # PromoteSrcRow(c)
          /\ k \in PromoteKinds => CoordX(s) = PromoteSrcRow(c)
    BY <1>3, <1>9 DEF PawnKind, Promoting
  <2> QED
    BY <2>1, <2>2, <2>3, <2>4, <2>5 DEF m
<1> QED
  BY <1>7, <1>8, <1>9

(* isMoveValid() accepts, of the well-formed moves, those that the pieces can do. *)
LEMMA ValidAre ==
  ASSUME NEW b, Sound(b), NEW k, NEW s, NEW d
  PROVE  IsWellFormed(Move(k, s, d), b.side) /\ IsMoveValid(b, Move(k, s, d)) <=>
           Goes(b, k, s, d) \/ (Castles(b, k, s, d) /\ ~IsCheck(b))
<1> DEFINE c == b.side
           m == Move(k, s, d)
           castling == {"CastlingKingside", "CastlingQueenside"}
           steps == {"Simple", "PawnDoubleMove", "Enpassant"} \union PromoteKinds
<1>1. Fresh(b) /\ c \in Color /\ Invert(c) \in Color /\ PawnsInside(b.cells)
  BY BoardFields, Colors DEF Sound, Fresh, Peopled
<1>2. m.kind = k /\ m.src = s /\ m.dst = d
  BY MoveParts
<1>3. /\ "Simple" \notin PromoteKinds /\ "PawnDoubleMove" \notin PromoteKinds
      /\ "Enpassant" \notin PromoteKinds /\ "CastlingKingside" \notin PromoteKinds
      /\ "CastlingQueenside" \notin PromoteKinds /\ "Null" \notin PromoteKinds
  BY DEF PromoteKinds
<1>4. Goes(b, k, s, d) => k \in steps
  BY DEF Goes, PawnGoes, OtherGoes, PawnKind
<1>5. Castles(b, k, s, d) => k \in castling
  BY DEF Castles, CastlesTo
<1> HIDE DEF m
<1>6. CASE k \notin steps /\ k \notin castling
  <2>1. ~(IsWellFormed(m, c) /\ IsMoveValid(b, m))
    <3>1. CASE k = "Null"
      BY <1>2, <3>1 DEF IsMoveValid
    <3>2. CASE k # "Null"
      BY <1>2, <1>6, <3>2 DEF IsWellFormed
    <3> QED
      BY <3>1, <3>2
  <2> QED
    BY <1>4, <1>5, <1>6, <2>1 DEF m
<1>7. CASE k \in castling
  <2> DEFINE side == IF k = "CastlingKingside" THEN Kingside ELSE Queenside
             row == CastlingRow(c)
  <2>1. ~Goes(b, k, s, d)
    BY <1>3, <1>4, <1>7
  <2>2. side \in {Kingside, Queenside} /\ (Kingside # Queenside)
        /\ (k = IF side = Kingside THEN "CastlingKingside" ELSE "CastlingQueenside")
        /\ \A x \in {Kingside, Queenside} :
             k = (IF x = Kingside THEN "CastlingKingside" ELSE "CastlingQueenside") => x = side
    BY <1>7 DEF Kingside, Queenside
  <2>3. Castles(b, k, s, d) <=>
          /\ s = MakeCoord(row, 4)
          /\ d = MakeCoord(row, IF side = Kingside THEN 6 ELSE 2)
          /\ <<c, side>> \in b.castling
          /\ CastlingPass(c, side) \cap b.bbAll = {}
          /\ ~IsCellAttacked(b, MakeCoord(row, IF side = Kingside THEN 5 ELSE 3), Invert(c))
    <3> HIDE DEF side
    <3> QED
      BY <2>2 DEF Castles, CastlesTo
  <2>4. IsMoveValid(b, m) <=>
          /\ <<c, side>> \in b.castling
          /\ CastlingPass(c, side) \cap b.bbAll = {}
          /\ ~IsCellAttacked(b, s, Invert(c))
          /\ ~IsCellAttacked(b, IF side = Kingside THEN s + 1 ELSE s - 1, Invert(c))
    <3>1. k = "CastlingKingside" => (IsMoveValid(b, m) <=> IsCastlingValid(b, c, Kingside, m))
      BY <1>2 DEF IsMoveValid
    <3>2. k = "CastlingQueenside" => (IsMoveValid(b, m) <=> IsCastlingValid(b, c, Queenside, m))
      BY <1>2 DEF IsMoveValid
    <3>3. IsMoveValid(b, m) <=> IsCastlingValid(b, c, side, m)
      BY <1>7, <3>1, <3>2
    <3> HIDE DEF side
    <3> QED
      BY <1>2, <3>3 DEF IsCastlingValid
  <2>5. IsWellFormed(m, c) <=> /\ s = MakeCoord(row, 4)
                               /\ d = MakeCoord(row, IF side = Kingside THEN 6 ELSE 2)
    <3>1. MakeCoord(row, 4) \in Coord /\ MakeCoord(row, 6) \in Coord /\ MakeCoord(row, 2) \in Coord
          /\ MakeCoord(row, 4) # MakeCoord(row, 6) /\ MakeCoord(row, 4) # MakeCoord(row, 2)
      BY <1>1 DEF CastlingRow, MakeCoord, Coord
    <3>2. k = "CastlingKingside" =>
            (IsWellFormed(m, c) <=> /\ s \in Coord /\ d \in Coord /\ s # d
                                    /\ s = MakeCoord(row, 4) /\ d = MakeCoord(row, 6))
      BY <1>2, <1>3 DEF IsWellFormed
    <3>3. k = "CastlingQueenside" =>
            (IsWellFormed(m, c) <=> /\ s \in Coord /\ d \in Coord /\ s # d
                                    /\ s = MakeCoord(row, 4) /\ d = MakeCoord(row, 2))
      BY <1>2, <1>3 DEF IsWellFormed
    <3>4. k = "CastlingKingside" <=> side = Kingside
      BY <1>7 DEF Kingside, Queenside
    <3> HIDE DEF side, row
    <3> QED
      BY <1>7, <3>1, <3>2, <3>3, <3>4
  <2>6. MakeCoord(row, 5) = MakeCoord(row, 4) + 1 /\ MakeCoord(row, 3) = MakeCoord(row, 4) - 1
    BY <1>1 DEF CastlingRow, MakeCoord
  <2>7. <<c, side>> \in b.castling => KingPos(b, c) = MakeCoord(row, 4)
    <3>1. ASSUME <<c, side>> \in b.castling
          PROVE  b.cells[MakeCoord(row, 4)] = MakeCell(c, King)
      <4> DEFINE f == <<c, side>>
      <4>1. Standing(b.cells, f)
        <5>1. FlagsKept(b)
          BY FreshParts, <1>1 DEF Fresh
        <5> QED
          BY <3>1, <5>1, FlagsStanding
      <4>2. f[1] = c /\ KingCell(f) = MakeCoord(row, 4)
        BY DEF KingCell
      <4> QED
        BY <4>1, <4>2 DEF Standing
    <3>2. PICK at : KingAt(b.cells, c, at)
      BY <1>1 DEF Sound, Peopled
    <3>3. MakeCoord(row, 4) \in Coord
      BY <1>1 DEF CastlingRow, MakeCoord, Coord
    <3> QED
      BY <1>1, <3>1, <3>2, <3>3, KingPosAt DEF KingAt
  <2> HIDE DEF side, row
  <2>8. ASSUME <<c, side>> \in b.castling, s = MakeCoord(row, 4)
        PROVE  /\ IsCheck(b) <=> IsCellAttacked(b, s, Invert(c))
               /\ IsCellAttacked(b, MakeCoord(row, IF side = Kingside THEN 5 ELSE 3), Invert(c))
                   <=> IsCellAttacked(b, IF side = Kingside THEN s + 1 ELSE s - 1, Invert(c))
    BY <2>6, <2>7, <2>8 DEF IsCheck
  <2> QED
    BY <2>1, <2>3, <2>4, <2>5, <2>8 DEF m
<1>8. CASE k \in steps
  <2>1. ~Castles(b, k, s, d)
    BY <1>3, <1>5, <1>8
  <2>2. CASE s \notin Coord \/ d \notin Coord
    <3>1. ~IsWellFormed(m, c)
      BY <1>2, <2>2 DEF IsWellFormed
    <3>2. ~Goes(b, k, s, d)
      BY <2>2 DEF Goes
    <3> QED
      BY <2>1, <3>1, <3>2 DEF m
  <2>3. CASE s \in Coord /\ d \in Coord /\ b.cells[s] = MakeCell(c, Pawn)
    <3>1. Goes(b, k, s, d) <=> PawnGoes(b, k, s, d)
      BY <2>3, OnePiece, PieceKinds, <1>1 DEF Goes, OtherGoes, PieceGoes
    <3>2. IsMoveValid(b, m) <=> IsPawnMoveValid(b, c, m)
      BY <1>2, <1>3, <1>8, <2>3 DEF IsMoveValid
    <3>3. PawnGoes(b, k, s, d) <=> IsWellFormed(Move(k, s, d), c) /\ IsPawnMoveValid(b, c, Move(k, s, d))
      BY <1>1, <1>8, <2>3, ValidPawns
    <3> QED
      BY <2>1, <3>1, <3>2, <3>3 DEF m
  <2>4. CASE s \in Coord /\ d \in Coord /\ b.cells[s] # MakeCell(c, Pawn)
    <3>1. Goes(b, k, s, d) <=>
            k = "Simple" /\ ~Own(c, b.cells[d]) /\ \E p \in Piece \ {Pawn} : PieceGoes(b, p, s, d)
      <4>1. Piece \ {Pawn} = {King} \union Officers
        BY SourceSets, PieceKinds DEF Officers
      <4> QED
        BY <2>4, <4>1 DEF Goes, OtherGoes, PawnGoes
    <3>2. IsMoveValid(b, m) <=>
            /\ k = "Simple"
            /\ d \notin b.bbColor[c]
            /\ \/ b.cells[s] = MakeCell(c, King) /\ d \in KingAttacks[s]
               \/ b.cells[s] = MakeCell(c, Knight) /\ d \in KnightAttacks[s]
               \/ b.cells[s] = MakeCell(c, Bishop) /\ d \in BishopAttack(b.bbAll, s)
               \/ b.cells[s] = MakeCell(c, Rook) /\ d \in RookAttack(b.bbAll, s)
               \/ /\ b.cells[s] = MakeCell(c, Queen)
                  /\ d \in BishopAttack(b.bbAll, s) \cup RookAttack(b.bbAll, s)
      BY <1>2, <1>3, <1>8, <2>4 DEF IsMoveValid
    <3>3. d \in b.bbColor[c] <=> Own(c, b.cells[d])
      BY <1>1, <2>4, BitboardCells
    <3>4. (\E p \in Piece \ {Pawn} : PieceGoes(b, p, s, d)) <=>
            (\/ b.cells[s] = MakeCell(c, King) /\ d \in KingAttacks[s]
             \/ b.cells[s] = MakeCell(c, Knight) /\ d \in KnightAttacks[s]
             \/ b.cells[s] = MakeCell(c, Bishop) /\ d \in BishopAttack(b.bbAll, s)
             \/ b.cells[s] = MakeCell(c, Rook) /\ d \in RookAttack(b.bbAll, s)
             \/ /\ b.cells[s] = MakeCell(c, Queen)
                /\ d \in BishopAttack(b.bbAll, s) \cup RookAttack(b.bbAll, s))
      <4>1. \A p : p \in Piece \ {Pawn} <=> p \in {King, Knight, Bishop, Rook, Queen}
        BY SourceSets, PieceKinds DEF Officers
      <4>2. (\E p \in Piece \ {Pawn} : PieceGoes(b, p, s, d)) <=>
              (\/ PieceGoes(b, King, s, d) \/ PieceGoes(b, Knight, s, d) \/ PieceGoes(b, Bishop, s, d)
               \/ PieceGoes(b, Rook, s, d) \/ PieceGoes(b, Queen, s, d))
        BY <4>1
      <4> QED
        BY <4>2, SourceSets DEF PieceGoes
    <3>5. k = "Simple" /\ (\E p \in Piece \ {Pawn} : PieceGoes(b, p, s, d)) => IsWellFormed(m, c)
      <4>1. \A p \in Piece : s \notin Sources(p, c, b.bbAll, s)
        BY <1>1, <2>4, SourcesElsewhere
      <4>2. k = "Simple" /\ s # d => IsWellFormed(m, c)
        BY <1>2, <1>3, <2>4 DEF IsWellFormed
      <4> QED
        BY <4>1, <4>2 DEF PieceGoes
    <3> QED
      BY <2>1, <3>1, <3>2, <3>3, <3>4, <3>5 DEF m
  <2> QED
    BY <2>2, <2>3, <2>4
<1> QED
  BY <1>6, <1>7, <1>8

(* A move that is generated is well-formed and valid, and there are finitely many. *)
LEMMA GeneratedValid ==
  ASSUME NEW b, Sound(b), NEW m \in GenAllMoves(b)
  PROVE  IsMove(m) /\ IsWellFormed(m, b.side) /\ IsMoveValid(b, m) /\ m # NullMove
<1>1. Fresh(b)
  BY DEF Sound
<1>2. IsMove(m)
  <2>1. \A gs, gc, gp : m \in Collect(GenParts(b, gs, gc, gp)) => IsMove(m)
    BY WritesMoves DEF Collect
  <2> QED
    BY <2>1 DEF GenAllMoves
<1>3. PICK k, s, d : m = Move(k, s, d)
  BY <1>2 DEF IsMove
<1>4. Answering(b, Check(b), k, s, d)
  <2>1. m \in Collect(GenParts(b, TRUE, TRUE, TRUE))
    BY DEF GenAllMoves
  <2> QED
    BY <1>1, <1>3, <2>1, GeneratedAre
<1>5. Check(b).kind = "None" => ~IsCheck(b)
  <2> DEFINE attackers == CellAttackers(b, KingPos(b, b.side), Invert(b.side))
  <2>1. Check(b).kind = CheckKind(attackers)
    BY DEF Check, CheckBy
  <2>2. CheckKind(attackers) = "None" => attackers = {}
    BY DEF CheckKind
  <2>3. b.side \in Color /\ Invert(b.side) \in Color
    BY <1>1, BoardFields, Colors DEF Fresh
  <2>4. attackers = {} => ~IsCheck(b)
    BY <1>1, <2>3, AttacksByCells DEF IsCheck
  <2> QED
    BY <2>1, <2>2, <2>4
<1>6. Goes(b, k, s, d) \/ (Castles(b, k, s, d) /\ ~IsCheck(b))
  BY <1>4, <1>5 DEF Answering
<1>7. IsWellFormed(m, b.side) /\ IsMoveValid(b, m)
  BY <1>3, <1>6, ValidAre
<1>8. ~IsMoveValid(b, NullMove)
  BY DEF IsMoveValid, NullMove, Move
<1> QED
  BY <1>2, <1>7, <1>8

LEMMA GeneratedFinite ==
  ASSUME NEW b, Sound(b)
  PROVE  IsFiniteSet(GenAllMoves(b))
<1> DEFINE pairs == Coord \X Coord
           triples == MoveKinds \X pairs
           moves == {Move(t[1], t[2][1], t[2][2]) : t \in triples}
<1>1. IsFiniteSet(Coord) /\ IsFiniteSet(MoveKinds)
  <2>1. IsFiniteSet(Coord)
    <3>1. 0 \in Int /\ 63 \in Int
      OBVIOUS
    <3> QED
      BY <3>1, FS_Interval DEF Coord
  <2>2. MoveKinds = (((((((((({} \union {"Null"}) \union {"Simple"}) \union {"PawnDoubleMove"})
            \union {"Enpassant"}) \union {"CastlingKingside"}) \union {"CastlingQueenside"})
            \union {"Invalid"}) \union {"PromoteKnight"}) \union {"PromoteBishop"})
            \union {"PromoteRook"}) \union {"PromoteQueen"}
    BY DEF MoveKinds, PromoteKinds
  <2>3. \A S, x : IsFiniteSet(S) => IsFiniteSet(S \union {x})
    BY FS_AddElement
  <2>4. IsFiniteSet({})
    BY FS_EmptySet
  <2>5. IsFiniteSet((((((((((({} \union {"Null"}) \union {"Simple"}) \union {"PawnDoubleMove"})
            \union {"Enpassant"}) \union {"CastlingKingside"}) \union {"CastlingQueenside"})
            \union {"Invalid"}) \union {"PromoteKnight"}) \union {"PromoteBishop"})
            \union {"PromoteRook"}) \union {"PromoteQueen"})
    BY <2>3, <2>4
  <2> QED
    BY <2>1, <2>2, <2>5
<1>2. IsFiniteSet(pairs)
  BY <1>1, FS_Product
<1> HIDE DEF pairs
<1>3. IsFiniteSet(triples)
  BY <1>1, <1>2, FS_Product
<1>4. IsFiniteSet(moves)
  <2> DEFINE f == [t \in triples |-> Move(t[1], t[2][1], t[2][2])]
  <2>1. f \in Surjection(triples, moves)
    BY DEF Surjection
  <2> HIDE DEF f, moves, triples
  <2> QED
    BY <1>3, <2>1, FS_Surjection
<1>5. ASSUME NEW m \in GenAllMoves(b) PROVE m \in moves
  <2>1. IsMove(m) /\ m.kind \in MoveKinds /\ m.src \in Coord /\ m.dst \in Coord
    <3>1. Makeable(b, m)
      BY GeneratedMakeable DEF Sound
    <3> QED
      BY <3>1, GeneratedValid DEF Makeable
  <2>2. PICK t \in triples : t = <<m.kind, <<m.src, m.dst>>>>
    BY <2>1 DEF pairs
  <2> QED
    BY <2>1, <2>2 DEF IsMove
<1> HIDE DEF moves
<1> QED
  BY <1>4, <1>5, FS_Subset

(* Picks of different slots are different moves. *)
PicksApart(picks) ==
  \A i, j \in DOMAIN picks : \A x \in picks[i], y \in picks[j] : x[2] = y[2] => i = j /\ x = y

(* The fold that counts the picks, as a sum. *)
LEMMA PickedSum ==
  ASSUME NEW picks, IsFiniteSet(DOMAIN picks), NEW w \in [DOMAIN picks -> Int],
         \A i \in DOMAIN picks : w[i] = Cardinality(picks[i])
  PROVE  PickedOften(picks) = SumOver(w, DOMAIN picks)
<1> DEFINE S == DOMAIN picks
           pick(s) == CHOOSE x \in s : TRUE
           IsFold(g) == g = [s \in SUBSET S |->
                               IF s = {} THEN 0 ELSE g[s \ {pick(s)}] + Cardinality(picks[pick(s)])]
           iter == CHOOSE g : IsFold(g)
           h == [s \in SUBSET S |-> SumOver(w, s)]
<1>1. PickedOften(picks) = iter[S]
  BY DEF PickedOften, FoldSet, MapThenFoldSet
<1>2. \A s \in SUBSET S : s # {} => pick(s) \in s /\ pick(s) \in S
  OBVIOUS
<1> HIDE DEF pick
<1>3. IsFold(h)
  <2>1. ASSUME NEW s \in SUBSET S
        PROVE  h[s] = IF s = {} THEN 0 ELSE h[s \ {pick(s)}] + Cardinality(picks[pick(s)])
    <3>1. SumOver(w, {}) = 0
      BY SumFacts
    <3>2. CASE s # {}
      <4>1. pick(s) \in s /\ w[pick(s)] = Cardinality(picks[pick(s)])
        BY <1>2, <3>2
      <4>2. SumOver(w, s) = SumOver(w, s \ {pick(s)}) + w[pick(s)]
        BY <4>1, SumFacts
      <4> QED
        BY <3>2, <4>1, <4>2
    <3> QED
      BY <3>1, <3>2
  <2> QED
    BY <2>1
<1>4. IsFold(iter)
  BY <1>3
<1> HIDE DEF iter, h
<1>5. iter = [s \in SUBSET S |-> IF s = {} THEN 0 ELSE iter[s \ {pick(s)}] + w[pick(s)]]
  BY <1>2, <1>4
<1>6. FoldsUp(iter, S, w) /\ S \in SUBSET S
  BY <1>5 DEF FoldsUp, pick
<1>7. iter[S] = SumOver(w, S)
  BY <1>6, FoldIsSum
<1> QED
  BY <1>1, <1>7

(* A set mapped one to one keeps its size. *)
LEMMA SameSize ==
  ASSUME NEW A, NEW B, NEW f, IsFiniteSet(A), f \in Surjection(A, B), f \in Injection(A, B)
  PROVE  IsFiniteSet(B) /\ Cardinality(B) = Cardinality(A)
BY FS_Surjection

(* The sizes of two sets that share nothing add up. *)
LEMMA ApartAdds ==
  ASSUME NEW A, NEW B, IsFiniteSet(A), IsFiniteSet(B), A \intersect B = {}
  PROVE  IsFiniteSet(A \union B) /\ Cardinality(A \union B) = Cardinality(A) + Cardinality(B)
<1>1. IsFiniteSet(A \union B) /\
      Cardinality(A \union B) = Cardinality(A) + Cardinality(B) - Cardinality(A \intersect B)
  BY FS_Union
<1>2. Cardinality(A \intersect B) = 0
  BY FS_EmptySet
<1>3. Cardinality(A) \in Int /\ Cardinality(B) \in Int
  BY FS_CardinalityType
<1> QED
  BY <1>1, <1>2, <1>3

LEMMA PicksCounted ==
  ASSUME NEW picks, IsFiniteSet(DOMAIN picks), \A i \in DOMAIN picks : IsFiniteSet(picks[i]),
         PicksApart(picks)
  PROVE  PickedOften(picks) = Cardinality(PickedMoves(picks))
<1> DEFINE S == DOMAIN picks
           w == [i \in S |-> Cardinality(picks[i])]
           M == [i \in S |-> {x[2] : x \in picks[i]}]
           U(r) == UNION {M[i] : i \in r}
           P == {r \in SUBSET S : IsFiniteSet(U(r)) /\ SumOver(w, r) = Cardinality(U(r))}
<1>1. w \in [S -> Int] /\ \A i \in S : w[i] = Cardinality(picks[i])
  BY FS_CardinalityType
<1>2. ASSUME NEW i \in S PROVE IsFiniteSet(M[i]) /\ Cardinality(M[i]) = w[i]
  <2> DEFINE f == [x \in picks[i] |-> x[2]]
  <2>1. f \in Surjection(picks[i], M[i])
    BY DEF Surjection
  <2>2. f \in Injection(picks[i], M[i])
    <3>1. \A x, y \in picks[i] : f[x] = f[y] => x = y
      BY DEF PicksApart
    <3>2. f \in [picks[i] -> M[i]]
      OBVIOUS
    <3> HIDE DEF f, M
    <3> QED
      BY <3>1, <3>2 DEF Injection, IsInjective
  <2>3. w[i] = Cardinality(picks[i]) /\ IsFiniteSet(picks[i])
    OBVIOUS
  <2> HIDE DEF f, w, M
  <2> QED
    BY <2>1, <2>2, <2>3, SameSize
<1>3. PickedMoves(picks) = U(S)
  BY DEF PickedMoves
<1>4. ASSUME NEW r \in SUBSET S, NEW i \in S, i \notin r
      PROVE  U(r \union {i}) = U(r) \union M[i] /\ U(r) \intersect M[i] = {}
  <2>1. ASSUME NEW m \in U(r), m \in M[i] PROVE FALSE
    <3>1. PICK j \in r : m \in M[j]
      OBVIOUS
    <3>2. PICK x \in picks[j] : m = x[2]
      BY <3>1
    <3>3. PICK y \in picks[i] : m = y[2]
      BY <2>1
    <3> QED
      BY <1>4, <3>2, <3>3 DEF PicksApart
  <2> QED
    BY <2>1
<1>5. U({}) = {}
  OBVIOUS
<1> HIDE DEF w, M, U
<1>6. {} \in P
  BY <1>1, <1>5, SumFacts, FS_EmptySet
<1>7. ASSUME NEW r \in SUBSET S, NEW i \in S, r \in P, i \notin r PROVE r \union {i} \in P
  <2>1. SumOver(w, r \union {i}) = SumOver(w, r) + w[i]
    BY <1>1, <1>7, SumAdd
  <2>2. IsFiniteSet(U(r)) /\ SumOver(w, r) = Cardinality(U(r))
    BY <1>7
  <2>3. IsFiniteSet(M[i]) /\ Cardinality(M[i]) = w[i]
    BY <1>2
  <2>4. IsFiniteSet(U(r) \union M[i]) /\ Cardinality(U(r) \union M[i]) = Cardinality(U(r)) + w[i]
    <3> DEFINE A == U(r)
               B == M[i]
    <3>1. A \intersect B = {}
      BY <1>4, <1>7
    <3>2. IsFiniteSet(A) /\ IsFiniteSet(B) /\ Cardinality(B) = w[i]
      BY <2>2, <2>3
    <3> HIDE DEF A, B
    <3>3. IsFiniteSet(A \union B) /\ Cardinality(A \union B) = Cardinality(A) + w[i]
      BY <3>1, <3>2, ApartAdds
    <3> QED
      BY <3>3 DEF A, B
  <2>5. U(r \union {i}) = U(r) \union M[i]
    BY <1>4, <1>7
  <2>6. SumOver(w, r \union {i}) = Cardinality(U(r \union {i}))
    BY <2>1, <2>2, <2>4, <2>5
  <2>7. r \union {i} \in SUBSET S
    OBVIOUS
  <2> QED
    BY <2>4, <2>5, <2>6, <2>7
<1>8. SUBSET S \subseteq P
  <2>1. \A r \in SUBSET S, i \in S : r \in P /\ i \notin r => r \union {i} \in P
    BY <1>7
  <2>2. IsFiniteSet(S)
    OBVIOUS
  <2> HIDE DEF P, S
  <2> QED
    BY <1>6, <2>1, <2>2, SubsetInduction
<1>9. SumOver(w, S) = Cardinality(U(S))
  BY <1>8
<1>10. PickedOften(picks) = SumOver(w, S)
  BY <1>1, PickedSum
<1> QED
  BY <1>3, <1>9, <1>10

(* The stages of a picker hold different moves, and each holds a move once. *)
Apart(A, B) == \A x \in A, y \in B : x[2] # y[2]
OneEach(A) == \A x, y \in A : x[2] = y[2] => x = y

LEMMA FiveStages ==
  ASSUME NEW h, NEW c, NEW p, NEW k, NEW q,
         IsFiniteSet(h), IsFiniteSet(c), IsFiniteSet(p), IsFiniteSet(k), IsFiniteSet(q),
         OneEach(h), OneEach(c), OneEach(p), OneEach(k), OneEach(q),
         Apart(h, c), Apart(h, p), Apart(h, k), Apart(h, q), Apart(c, p), Apart(c, k), Apart(c, q),
         Apart(p, k), Apart(p, q), Apart(k, q),
         NEW picks, picks = [HashMove |-> h, Capture |-> c, SimplePromote |-> p, Killer |-> k,
                             History |-> q]
  PROVE  /\ PickedOften(picks) = Cardinality(PickedMoves(picks))
         /\ \A m : m \in PickedMoves(picks) <=>
                     \E x \in h \union c \union p \union k \union q : m = x[2]
<1> DEFINE stages == {"HashMove", "Capture", "SimplePromote", "Killer", "History"}
<1>1. /\ DOMAIN picks = stages
      /\ picks["HashMove"] = h /\ picks["Capture"] = c /\ picks["SimplePromote"] = p
      /\ picks["Killer"] = k /\ picks["History"] = q
  OBVIOUS
<1>2. IsFiniteSet(DOMAIN picks)
  <2>1. stages = (((({} \union {"HashMove"}) \union {"Capture"}) \union {"SimplePromote"})
                    \union {"Killer"}) \union {"History"}
    OBVIOUS
  <2>2. \A S, x : IsFiniteSet(S) => IsFiniteSet(S \union {x})
    BY FS_AddElement
  <2>3. IsFiniteSet({})
    BY FS_EmptySet
  <2>4. IsFiniteSet((((({} \union {"HashMove"}) \union {"Capture"}) \union {"SimplePromote"})
                    \union {"Killer"}) \union {"History"})
    BY <2>2, <2>3
  <2> QED
    BY <1>1, <2>1, <2>4
<1>3. \A i \in DOMAIN picks : IsFiniteSet(picks[i])
  BY <1>1
<1>4. PicksApart(picks)
  <2>1. ASSUME NEW i \in stages, NEW j \in stages, NEW x \in picks[i], NEW y \in picks[j],
               x[2] = y[2]
        PROVE  i = j /\ x = y
    <3>1. CASE i = j
      BY <1>1, <2>1, <3>1 DEF OneEach
    <3>2. CASE i # j
      BY <1>1, <2>1, <3>2 DEF Apart
    <3> QED
      BY <3>1, <3>2
  <2> QED
    BY <1>1, <2>1 DEF PicksApart
<1>5. PickedOften(picks) = Cardinality(PickedMoves(picks))
  BY <1>2, <1>3, <1>4, PicksCounted
<1>6. \A m : m \in PickedMoves(picks) <=>
               \E x \in h \union c \union p \union k \union q : m = x[2]
  BY <1>1 DEF PickedMoves
<1> QED
  BY <1>5, <1>6

LEMMA TwoStages ==
  ASSUME NEW c, NEW p, IsFiniteSet(c), IsFiniteSet(p), OneEach(c), OneEach(p), Apart(c, p),
         NEW picks, picks = [Capture |-> c, SimplePromote |-> p]
  PROVE  /\ PickedOften(picks) = Cardinality(PickedMoves(picks))
         /\ \A m : m \in PickedMoves(picks) <=> \E x \in c \union p : m = x[2]
<1> DEFINE stages == {"Capture", "SimplePromote"}
<1>1. DOMAIN picks = stages /\ picks["Capture"] = c /\ picks["SimplePromote"] = p
  OBVIOUS
<1>2. IsFiniteSet(DOMAIN picks)
  <2>1. stages = ({} \union {"Capture"}) \union {"SimplePromote"}
    OBVIOUS
  <2>2. \A S, x : IsFiniteSet(S) => IsFiniteSet(S \union {x})
    BY FS_AddElement
  <2>3. IsFiniteSet({})
    BY FS_EmptySet
  <2>4. IsFiniteSet(({} \union {"Capture"}) \union {"SimplePromote"})
    BY <2>2, <2>3
  <2> QED
    BY <1>1, <2>1, <2>4
<1>3. \A i \in DOMAIN picks : IsFiniteSet(picks[i])
  BY <1>1
<1>4. PicksApart(picks)
  BY <1>1 DEF PicksApart, OneEach, Apart
<1>5. PickedOften(picks) = Cardinality(PickedMoves(picks))
  BY <1>2, <1>3, <1>4, PicksCounted
<1>6. \A m : m \in PickedMoves(picks) <=> \E x \in c \union p : m = x[2]
  BY <1>1 DEF PickedMoves
<1> QED
  BY <1>5, <1>6

(* A set of moves in slots. *)
LEMMA SlotFacts ==
  ASSUME NEW moves
  PROVE  /\ \A x : x \in Slots(moves) <=> \E m \in moves : x = <<m, m>>
         /\ \A hashMove : \A x : x \in Unless(hashMove, Slots(moves)) <=>
                \E m \in moves : m # hashMove /\ x = <<m, m>>
         /\ OneEach(Slots(moves)) /\ \A hashMove : OneEach(Unless(hashMove, Slots(moves)))
         /\ IsFiniteSet(moves) =>
              /\ IsFiniteSet(Slots(moves))
              /\ \A hashMove : IsFiniteSet(Unless(hashMove, Slots(moves)))
<1>1. \A x : x \in Slots(moves) <=> \E m \in moves : x = <<m, m>>
  BY DEF Slots
<1>2. \A hashMove : \A x : x \in Unless(hashMove, Slots(moves)) <=>
                \E m \in moves : m # hashMove /\ x = <<m, m>>
  BY <1>1 DEF Unless
<1>3. \A hashMove : Unless(hashMove, Slots(moves)) \subseteq Slots(moves)
  BY DEF Unless
<1>4. OneEach(Slots(moves)) /\ \A hashMove : OneEach(Unless(hashMove, Slots(moves)))
  BY <1>1, <1>3 DEF OneEach
<1>5. IsFiniteSet(moves) => IsFiniteSet(Slots(moves))
  <2> DEFINE f == [m \in moves |-> <<m, m>>]
             slots == Slots(moves)
  <2>1. f \in Surjection(moves, slots)
    BY DEF Surjection, Slots
  <2> HIDE DEF f, slots
  <2>2. IsFiniteSet(moves) => IsFiniteSet(slots)
    BY <2>1, FS_Surjection
  <2> QED
    BY <2>2 DEF slots
<1>6. IsFiniteSet(Slots(moves)) => \A hashMove : IsFiniteSet(Unless(hashMove, Slots(moves)))
  BY <1>3, FS_Subset
<1> QED
  BY <1>1, <1>2, <1>4, <1>5, <1>6

(* The move picker of the search: every wanted move, no move twice, and a move    *)
(* that the generators do not give is a killer that is valid here.                *)
LEMMA SearchPicks ==
  ASSUME NEW b, Sound(b), NEW hashMove, hashMove = NullMove \/ hashMove \in GenAllMoves(b),
         NEW k, k.first = k.second => k.first = NullMove,
         NEW picks, picks = Picks(b, Generated(b), hashMove, k)
  PROVE  /\ PickedOften(picks) = Cardinality(PickedMoves(picks))
         /\ \A m \in GenAllMoves(b) : m \in PickedMoves(picks)
         /\ \A m \in PickedMoves(picks) : IsMoveValid(b, m)
<1> DEFINE captures == GenCaptures(b)
           promotes == GenSimplePromotes(b)
           quiet == GenSimpleMovesNoPromote(b)
           h == HashStage(hashMove)
           c == Unless(hashMove, Slots(captures))
           p == Unless(hashMove, Slots(promotes))
           l == Unless(hashMove, KillerStage(b, k))
           q == Unless(hashMove, HistoryStage(Generated(b), k))
           rest == quiet \ {k.first, k.second}
           first == k.first
           second == k.second
<1>1. Fresh(b)
  BY DEF Sound
<1>2. picks = [HashMove |-> h, Capture |-> c, SimplePromote |-> p, Killer |-> l, History |-> q]
  BY DEF Picks, Generated
<1>3. h = Slots({hashMove} \ {NullMove}) /\ q = Unless(hashMove, Slots(rest))
  BY DEF HashStage, HistoryStage, Generated
<1>4. /\ \A m : m \in captures <=> m \in GenAllMoves(b) /\ IsMoveCapture(b, m)
      /\ \A m : m \in promotes <=>
              m \in GenAllMoves(b) /\ ~IsMoveCapture(b, m) /\ m.kind \in PromoteKinds
      /\ \A m : m \in quiet <=>
              m \in GenAllMoves(b) /\ ~IsMoveCapture(b, m) /\ m.kind \notin PromoteKinds
  BY <1>1, SortedOut
<1>5. \A m \in GenAllMoves(b) : IsMoveValid(b, m) /\ m # NullMove
  BY GeneratedValid
<1>6. \A x : x \in l <=> /\ x = <<1, first>> \/ x = <<2, second>>
                        /\ x[2] # hashMove /\ IsValidKiller(b, x[2])
  BY DEF Unless, KillerStage
<1>7. ~IsValidKiller(b, NullMove)
  BY DEF IsValidKiller, IsMoveValid, NullMove, Move
<1>8. \A m : IsValidKiller(b, m) <=>
            ~IsMoveCapture(b, m) /\ m.kind \notin PromoteKinds /\ IsMoveValid(b, m)
  BY DEF IsValidKiller
<1>9. first = second => first = NullMove
  OBVIOUS
<1>10. /\ IsFiniteSet(captures) /\ IsFiniteSet(promotes) /\ IsFiniteSet(rest)
       /\ IsFiniteSet({hashMove} \ {NullMove})
  <2>1. IsFiniteSet(GenAllMoves(b))
    BY GeneratedFinite
  <2>2. captures \subseteq GenAllMoves(b) /\ promotes \subseteq GenAllMoves(b)
        /\ rest \subseteq GenAllMoves(b)
    BY <1>4
  <2>3. IsFiniteSet({hashMove}) /\ {hashMove} \ {NullMove} \subseteq {hashMove}
    BY FS_Singleton
  <2> HIDE DEF captures, promotes, rest
  <2> QED
    BY <2>1, <2>2, <2>3, FS_Subset
<1>11. /\ \A x : x \in h <=> hashMove # NullMove /\ x = <<hashMove, hashMove>>
       /\ \A x : x \in c <=> \E m \in captures : m # hashMove /\ x = <<m, m>>
       /\ \A x : x \in p <=> \E m \in promotes : m # hashMove /\ x = <<m, m>>
       /\ \A x : x \in q <=> \E m \in rest : m # hashMove /\ x = <<m, m>>
  <2> HIDE DEF captures, promotes, rest, h, q
  <2>1. \A x : x \in h <=> \E m \in {hashMove} \ {NullMove} : x = <<m, m>>
    BY <1>3, SlotFacts
  <2> QED
    BY <1>3, <2>1, SlotFacts
<1>12. OneEach(h) /\ OneEach(c) /\ OneEach(p) /\ OneEach(q)
  <2> HIDE DEF captures, promotes, rest, h, q
  <2> QED
    BY <1>3, SlotFacts
<1>13. IsFiniteSet(h) /\ IsFiniteSet(c) /\ IsFiniteSet(p) /\ IsFiniteSet(q)
  <2> HIDE DEF captures, promotes, rest, h, q
  <2> QED
    BY <1>3, <1>10, SlotFacts
<1>14. IsFiniteSet(l)
  <2>1. l \subseteq {<<1, first>>, <<2, second>>}
    BY <1>6
  <2>2. IsFiniteSet({<<1, first>>, <<2, second>>})
    <3>1. \A S, x : IsFiniteSet(S) => IsFiniteSet(S \union {x})
      BY FS_AddElement
    <3>2. IsFiniteSet({<<1, first>>} \union {<<2, second>>})
      BY <3>1, FS_Singleton
    <3>3. {<<1, first>>} \union {<<2, second>>} = {<<1, first>>, <<2, second>>}
      OBVIOUS
    <3> QED
      BY <3>2, <3>3
  <2> QED
    BY <2>1, <2>2, FS_Subset
<1> HIDE DEF first, second
<1>15. OneEach(l)
  BY <1>6, <1>7, <1>9 DEF OneEach
<1>16. \A m \in rest : m \in quiet /\ m # first /\ m # second
  BY DEF first, second
<1>17. \A m \in quiet : m \in rest \/ m = first \/ m = second
  BY DEF first, second
<1> HIDE DEF captures, promotes, quiet, rest, h, c, p, l, q
<1>18. /\ Apart(h, c) /\ Apart(h, p) /\ Apart(h, l) /\ Apart(h, q)
       /\ Apart(c, p) /\ Apart(c, l) /\ Apart(c, q) /\ Apart(p, l) /\ Apart(p, q) /\ Apart(l, q)
  <2>1. Apart(h, c) /\ Apart(h, p) /\ Apart(h, q)
    BY <1>11 DEF Apart
  <2>2. Apart(h, l)
    BY <1>6, <1>11 DEF Apart
  <2>3. Apart(c, p) /\ Apart(c, q) /\ Apart(p, q)
    BY <1>4, <1>11, <1>16 DEF Apart
  <2>4. Apart(c, l) /\ Apart(p, l)
    BY <1>4, <1>6, <1>8, <1>11 DEF Apart
  <2>5. Apart(l, q)
    BY <1>6, <1>11, <1>16 DEF Apart
  <2> QED
    BY <2>1, <2>2, <2>3, <2>4, <2>5
<1>19. /\ PickedOften(picks) = Cardinality(PickedMoves(picks))
       /\ \A m : m \in PickedMoves(picks) <=>
                   \E x \in h \union c \union p \union l \union q : m = x[2]
  BY <1>2, <1>12, <1>13, <1>14, <1>15, <1>18, FiveStages
<1>20. ASSUME NEW m \in GenAllMoves(b)
       PROVE  m \in PickedMoves(picks)
  <2>1. m # NullMove /\ IsMoveValid(b, m)
    BY <1>5
  <2>2. m = hashMove \/ m \in captures \/ m \in promotes \/ m \in quiet
    BY <1>4
  <2>3. CASE m = hashMove
    <3>1. <<m, m>> \in h
      BY <1>11, <2>1, <2>3
    <3> QED
      BY <1>19, <3>1
  <2>4. CASE m # hashMove /\ (m \in captures \/ m \in promotes \/ m \in rest)
    <3>1. <<m, m>> \in c \union p \union q
      BY <1>11, <2>4
    <3> QED
      BY <1>19, <3>1
  <2>5. CASE m # hashMove /\ m \in quiet /\ m = first
    <3>1. <<1, m>> \in l
      BY <1>4, <1>6, <1>8, <2>1, <2>5
    <3> QED
      BY <1>19, <3>1
  <2>6. CASE m # hashMove /\ m \in quiet /\ m = second
    <3>1. <<2, m>> \in l
      BY <1>4, <1>6, <1>8, <2>1, <2>6
    <3> QED
      BY <1>19, <3>1
  <2> QED
    BY <1>17, <2>2, <2>3, <2>4, <2>5, <2>6
<1>21. ASSUME NEW m \in PickedMoves(picks)
       PROVE  IsMoveValid(b, m)
  <2>1. PICK x \in h \union c \union p \union l \union q : m = x[2]
    BY <1>19
  <2>2. CASE x \in l
    BY <1>6, <1>8, <2>1, <2>2
  <2>3. CASE x \in h
    BY <1>5, <1>11, <2>1, <2>3
  <2>4. CASE x \in c \union p \union q
    <3>1. m \in GenAllMoves(b)
      BY <1>4, <1>11, <1>16, <2>1, <2>4
    <3> QED
      BY <1>5, <3>1
  <2> QED
    BY <2>1, <2>2, <2>3, <2>4
<1> QED
  BY <1>19, <1>20, <1>21

(* And that of the quiescence search: the captures and the promotions.            *)
LEMMA QuietPicks ==
  ASSUME NEW b, Sound(b), NEW picks, picks = QuiescensePicks(Generated(b))
  PROVE  /\ PickedOften(picks) = Cardinality(PickedMoves(picks))
         /\ \A m \in GenAllMoves(b) : IsMoveCapture(b, m) \/ m.kind \in PromoteKinds =>
                                       m \in PickedMoves(picks)
         /\ \A m \in PickedMoves(picks) : IsMoveValid(b, m)
<1> DEFINE captures == GenCaptures(b)
           promotes == GenSimplePromotes(b)
           c == Slots(captures)
           p == Slots(promotes)
<1>1. Fresh(b)
  BY DEF Sound
<1>2. picks = [Capture |-> c, SimplePromote |-> p]
  BY DEF QuiescensePicks, Generated
<1>3. /\ \A m : m \in captures <=> m \in GenAllMoves(b) /\ IsMoveCapture(b, m)
      /\ \A m : m \in promotes <=>
              m \in GenAllMoves(b) /\ ~IsMoveCapture(b, m) /\ m.kind \in PromoteKinds
  BY <1>1, SortedOut
<1>4. \A m \in GenAllMoves(b) : IsMoveValid(b, m)
  BY GeneratedValid
<1>5. IsFiniteSet(captures) /\ IsFiniteSet(promotes)
  <2>1. IsFiniteSet(GenAllMoves(b))
    BY GeneratedFinite
  <2>2. captures \subseteq GenAllMoves(b) /\ promotes \subseteq GenAllMoves(b)
    BY <1>3
  <2> HIDE DEF captures, promotes
  <2> QED
    BY <2>1, <2>2, FS_Subset
<1> HIDE DEF captures, promotes
<1>6. /\ \A x : x \in c <=> \E m \in captures : x = <<m, m>>
      /\ \A x : x \in p <=> \E m \in promotes : x = <<m, m>>
      /\ IsFiniteSet(c) /\ IsFiniteSet(p) /\ OneEach(c) /\ OneEach(p)
  BY <1>5, SlotFacts
<1> HIDE DEF c, p
<1>7. Apart(c, p)
  BY <1>3, <1>6 DEF Apart
<1>8. /\ PickedOften(picks) = Cardinality(PickedMoves(picks))
      /\ \A m : m \in PickedMoves(picks) <=> \E x \in c \union p : m = x[2]
  BY <1>2, <1>6, <1>7, TwoStages
<1>9. \A m : m \in PickedMoves(picks) <=> m \in captures \/ m \in promotes
  <2>1. ASSUME NEW m, m \in captures \/ m \in promotes PROVE m \in PickedMoves(picks)
    <3>1. <<m, m>> \in c \union p
      BY <1>6, <2>1
    <3> QED
      BY <1>8, <3>1
  <2> QED
    BY <1>6, <1>8, <2>1
<1> QED
  BY <1>3, <1>4, <1>8, <1>9

(* In every position of the walk the search is given every legal move, none      *)
(* twice, and no other move than a valid one, whatever the table remembers and    *)
(* whatever killers other positions left; and the quiescence search every legal   *)
(* capture and promotion.                                                         *)
THEOREM NoMoveComesTwice == Spec => []PickedOnce
<1>1. ASSUME Sound(core) PROVE PickedOnce
  <2> DEFINE gen == Generated(core)
             all == GenAllMoves(core)
             legal == Legal(all)
             some == IF legal = {} THEN NullMove ELSE CHOOSE m \in legal : TRUE
             changing == {m \in legal : IsMoveCapture(core, m) \/ m.kind \in PromoteKinds}
  <2>1. legal \subseteq all
    BY DEF Legal
  <2>2. some = NullMove \/ some \in legal
    OBVIOUS
  <2> HIDE DEF gen, all, legal, some, changing
  <2>3. ASSUME NEW m, NEW k \in KillersWith(m, some),
               NEW hashMove \in {NullMove, some} \cup ({m} \cap legal)
        PROVE  Complete(Picks(core, gen, hashMove, k), legal, all)
    <3> DEFINE picks == Picks(core, gen, hashMove, k)
    <3>1. hashMove = NullMove \/ hashMove \in all
      BY <2>1, <2>2
    <3>2. k.first = k.second => k.first = NullMove
      BY DEF KillersWith, AddKiller, NoKillers
    <3>3. /\ PickedOften(picks) = Cardinality(PickedMoves(picks))
          /\ \A x \in all : x \in PickedMoves(picks)
          /\ \A x \in PickedMoves(picks) : IsMoveValid(core, x)
      BY <1>1, <3>1, <3>2, SearchPicks DEF gen, all
    <3> HIDE DEF picks
    <3> QED
      BY <2>1, <3>3 DEF Complete, picks
  <2>4. Complete(QuiescensePicks(gen), changing, all)
    <3> DEFINE picks == QuiescensePicks(gen)
    <3>1. /\ PickedOften(picks) = Cardinality(PickedMoves(picks))
          /\ \A x \in all : IsMoveCapture(core, x) \/ x.kind \in PromoteKinds =>
                              x \in PickedMoves(picks)
          /\ \A x \in PickedMoves(picks) : IsMoveValid(core, x)
      BY <1>1, QuietPicks DEF gen, all
    <3>2. changing \subseteq PickedMoves(picks)
      BY <2>1, <3>1 DEF changing
    <3> HIDE DEF picks
    <3> QED
      BY <3>1, <3>2 DEF Complete, picks
  <2> QED
    BY <2>3, <2>4 DEF PickedOnce, gen, all, legal, some, changing
<1>2. Chained => PickedOnce
  BY <1>1 DEF Chained
<1> QED
  BY <1>2, WalkIsChained, PTL

(* The lines of a cell. *)
LEMMA LinesOf ==
  ASSUME NEW c \in Coord, NEW e \in Coord
  PROVE  /\ e \in BishopLines[c] <=> \/ CoordX(e) + CoordY(e) = CoordX(c) + CoordY(c)
                                     \/ CoordY(e) - CoordX(e) = CoordY(c) - CoordX(c)
         /\ e \in RookLines[c] <=> CoordX(e) = CoordX(c) \/ CoordY(e) = CoordY(c)
<1>1. BishopLines[c] = BbDiag1[CoordDiag1(c)] \cup BbDiag2[CoordDiag2(c)]
  BY DEF BishopLines
<1>2. RookLines[c] = BbRow[CoordX(c)] \cup BbCol[CoordY(c)]
  BY DEF RookLines
<1>3. e \in BbRow[CoordX(c)] <=> CoordX(e) = CoordX(c)
  BY CoordParts, LineCells
<1>4. e \in BbCol[CoordY(c)] <=> CoordY(e) = CoordY(c)
  BY CoordParts, LineCells
<1> QED
  BY <1>1, <1>2, <1>3, <1>4, Diagonals

(* Of three cells in a row the middle one is between the others.                  *)
LEMMA MiddleBetween ==
  ASSUME NEW p \in Coord, NEW r \in Coord, NEW q \in Coord, p < r, r < q,
         \/ /\ r \in BishopLines[p] /\ q \in BishopLines[p] /\ r \in BishopLines[q]
            /\ q \notin RookLines[p]
         \/ /\ r \in RookLines[p] /\ q \in RookLines[p] /\ r \in RookLines[q]
            /\ q \notin BishopLines[p]
  PROVE  r \in Between(p, q) /\ r \in Between(q, p)
<1>1. p < q /\ ~(p > q) /\ q > p /\ p # q
  BY DEF Coord
<1>2. /\ q \in BishopLines[p] <=> q \in After(BishopLines, p)
      /\ q \in RookLines[p] <=> q \in After(RookLines, p)
      /\ r \in BishopLines[p] <=> r \in After(BishopLines, p)
      /\ r \in RookLines[p] <=> r \in After(RookLines, p)
      /\ r \in BishopLines[q] <=> r \in Before(BishopLines, q)
      /\ r \in RookLines[q] <=> r \in Before(RookLines, q)
  BY <1>1 DEF After, Before
<1>3. Between(p, q) = CASE q \in After(BishopLines, p) ->
                             After(BishopLines, p) \cap Before(BishopLines, q)
                        [] q \in After(RookLines, p) ->
                             After(RookLines, p) \cap Before(RookLines, q)
                        [] OTHER -> {}
  BY <1>1 DEF Between
<1>4. Between(q, p) = Between(p, q)
  BY <1>1 DEF Between
<1>5. CASE q \in BishopLines[p] /\ q \notin RookLines[p]
  <2>1. Between(p, q) = After(BishopLines, p) \cap Before(BishopLines, q)
    BY <1>2, <1>3, <1>5
  <2>2. r \in BishopLines[p] /\ r \in BishopLines[q]
    BY <1>5
  <2>3. r \in Between(p, q)
    BY <1>2, <2>1, <2>2
  <2> QED
    BY <1>4, <2>3
<1>6. CASE q \notin BishopLines[p] /\ q \in RookLines[p]
  <2>1. Between(p, q) = After(RookLines, p) \cap Before(RookLines, q)
    BY <1>2, <1>3, <1>6
  <2> QED
    BY <1>2, <1>4, <1>6, <2>1
<1>7. q \in BishopLines[p] <=> q \notin RookLines[p]
  OBVIOUS
<1> QED
  BY <1>5, <1>6, <1>7

(* So is the nearer of two cells of a ray between the other and the start.        *)
LEMMA RayBetween ==
  ASSUME NEW c \in Coord, NEW dir \in Directions, NEW n \in 1..7, NEW j \in 1..(n - 1),
         Reaches(c, dir, n)
  PROVE  Along(c, dir, j) \in Between(Along(c, dir, n), c)
<1>1. j \in 1..7 /\ Reaches(c, dir, j)
  BY RayCells
<1>2. PICK x, y \in Subcoord : x = CoordX(c) /\ y = CoordY(c) /\ c = 8 * x + y
  BY CoordParts DEF MakeCoord
<1>3. PICK a \in Coord : a = Along(c, dir, n)
  BY AlongParts
<1>4. PICK d \in Coord : d = Along(c, dir, j)
  BY <1>1, AlongParts
<1>5. PICK u, v \in {-1, 0, 1} : /\ u = dir[1] /\ v = dir[2]
                                 /\ dir \in RookDirections => (u = 0 <=> v # 0)
                                 /\ dir \in BishopDirections => u # 0 /\ v # 0
  BY DirectionParts
<1>6. CoordX(a) = x + n * u /\ CoordY(a) = y + n * v
  BY <1>2, <1>3, <1>5, AlongParts
<1>7. CoordX(d) = x + j * u /\ CoordY(d) = y + j * v
  BY <1>1, <1>2, <1>4, <1>5, AlongParts
<1>8. \A w \in {-1, 0, 1} : \/ w = 1 /\ n * w = n /\ j * w = j
                            \/ w = 0 /\ n * w = 0 /\ j * w = 0
                            \/ w = -1 /\ n * w = -n /\ j * w = -j
  BY DEF Subcoord
<1>9. PICK nu, nv, ju, jv \in Int :
        /\ nu = n * u /\ nv = n * v /\ ju = j * u /\ jv = j * v
        /\ \/ u = 1 /\ nu = n /\ ju = j
           \/ u = 0 /\ nu = 0 /\ ju = 0
           \/ u = -1 /\ nu = -n /\ ju = -j
        /\ \/ v = 1 /\ nv = n /\ jv = j
           \/ v = 0 /\ nv = 0 /\ jv = 0
           \/ v = -1 /\ nv = -n /\ jv = -j
  BY <1>8
<1>16. /\ \/ u = 1 /\ nu = n /\ ju = j
          \/ u = 0 /\ nu = 0 /\ ju = 0
          \/ u = -1 /\ nu = -n /\ ju = -j
       /\ \/ v = 1 /\ nv = n /\ jv = j
          \/ v = 0 /\ nv = 0 /\ jv = 0
          \/ v = -1 /\ nv = -n /\ jv = -j
  BY <1>9
<1>17. /\ dir \in RookDirections => (u = 0 <=> v # 0)
       /\ dir \in BishopDirections => u # 0 /\ v # 0
  BY <1>5
<1>18. c = 8 * x + y
  BY <1>2
<1>10. PICK ax, ay, dx, dy \in Subcoord :
         /\ ax = CoordX(a) /\ ay = CoordY(a) /\ a = 8 * ax + ay
         /\ dx = CoordX(d) /\ dy = CoordY(d) /\ d = 8 * dx + dy
  BY CoordParts DEF MakeCoord
<1>11. ax = x + nu /\ ay = y + nv /\ dx = x + ju /\ dy = y + jv
  BY <1>6, <1>7, <1>9, <1>10
<1>12. /\ d \in BishopLines[c] <=> dx + dy = x + y \/ dy - dx = y - x
       /\ a \in BishopLines[c] <=> ax + ay = x + y \/ ay - ax = y - x
       /\ c \in BishopLines[a] <=> x + y = ax + ay \/ y - x = ay - ax
       /\ d \in BishopLines[a] <=> dx + dy = ax + ay \/ dy - dx = ay - ax
       /\ d \in RookLines[c] <=> dx = x \/ dy = y
       /\ a \in RookLines[c] <=> ax = x \/ ay = y
       /\ c \in RookLines[a] <=> x = ax \/ y = ay
       /\ d \in RookLines[a] <=> dx = ax \/ dy = ay
  BY <1>2, <1>10, LinesOf
<1>13. n \in Int /\ j \in Int /\ 1 <= j /\ j < n
  BY <1>1
<1>19. x \in Int /\ y \in Int
  BY DEF Subcoord
<1>20. d = 8 * (x + ju) + (y + jv) /\ a = 8 * (x + nu) + (y + nv)
  BY <1>10, <1>11
<1>14. CASE dir \in BishopDirections
  <2>1. u \in {-1, 1} /\ v \in {-1, 1}
    BY <1>14, <1>17
  <2>2. \/ dx + dy = x + y /\ ax + ay = x + y
        \/ dy - dx = y - x /\ ay - ax = y - x
    <3>1. CASE u = v
      <4>1. nu = nv /\ ju = jv
        BY <1>16, <3>1
      <4> QED
        BY <1>11, <1>19, <4>1
    <3>2. CASE u = -v
      <4>1. nu = -nv /\ ju = -jv
        BY <1>13, <1>16, <2>1, <3>2
      <4> QED
        BY <1>11, <1>19, <4>1
    <3> QED
      BY <2>1, <3>1, <3>2
  <2>3. /\ d \in BishopLines[c] /\ a \in BishopLines[c] /\ c \in BishopLines[a]
        /\ d \in BishopLines[a] /\ a \notin RookLines[c] /\ c \notin RookLines[a]
    <3>1. ax # x /\ ay # y
      BY <1>11, <1>13, <1>16, <1>19, <2>1
    <3> QED
      BY <1>12, <2>2, <3>1
  <2>4. (c < d /\ d < a) \/ (a < d /\ d < c)
    <3>1. CASE u = 1
      BY <1>13, <1>16, <1>18, <1>19, <1>20, <2>1, <3>1
    <3>2. CASE u = -1
      BY <1>13, <1>16, <1>18, <1>19, <1>20, <2>1, <3>2
    <3> QED
      BY <2>1, <3>1, <3>2
  <2>5. d \in Between(a, c)
    BY <2>3, <2>4, MiddleBetween
  <2> QED
    BY <1>3, <1>4, <2>5
<1>15. CASE dir \in RookDirections
  <2>1. (u = 0 /\ v \in {-1, 1}) \/ (u \in {-1, 1} /\ v = 0)
    BY <1>15, <1>17
  <2>2. \/ dx = x /\ ax = x /\ ay # y
        \/ dy = y /\ ay = y /\ ax # x
    <3>1. CASE u = 0 /\ v \in {-1, 1}
      BY <1>11, <1>13, <1>16, <1>19, <3>1
    <3>2. CASE u \in {-1, 1} /\ v = 0
      BY <1>11, <1>13, <1>16, <1>19, <3>2
    <3> QED
      BY <2>1, <3>1, <3>2
  <2>3. /\ d \in RookLines[c] /\ a \in RookLines[c] /\ c \in RookLines[a]
        /\ d \in RookLines[a]
    BY <1>12, <2>2
  <2>4. a \notin BishopLines[c] /\ c \notin BishopLines[a]
    <3>1. ax + ay # x + y /\ ay - ax # y - x
      BY <1>19, <2>2 DEF Subcoord
    <3> QED
      BY <1>12, <3>1
  <2>5. (c < d /\ d < a) \/ (a < d /\ d < c)
    <3>1. CASE u = 0 /\ v = 1
      BY <1>13, <1>16, <1>18, <1>19, <1>20, <3>1
    <3>2. CASE u = 0 /\ v = -1
      BY <1>13, <1>16, <1>18, <1>19, <1>20, <3>2
    <3>3. CASE u = 1 /\ v = 0
      BY <1>13, <1>16, <1>18, <1>19, <1>20, <3>3
    <3>4. CASE u = -1 /\ v = 0
      BY <1>13, <1>16, <1>18, <1>19, <1>20, <3>4
    <3> QED
      BY <2>1, <3>1, <3>2, <3>3, <3>4
  <2>6. d \in Between(a, c)
    BY <2>3, <2>4, <2>5, MiddleBetween
  <2> QED
    BY <1>3, <1>4, <2>6
<1> QED
  BY <1>14, <1>15 DEF Directions

(* A cell lies on one ray from a cell, at one distance.                           *)
LEMMA OneRay ==
  ASSUME NEW c \in Coord, NEW d1 \in Directions, NEW d2 \in Directions,
         NEW i \in 1..7, NEW j \in 1..7, Reaches(c, d1, i), Reaches(c, d2, j),
         Along(c, d1, i) = Along(c, d2, j)
  PROVE  d1 = d2 /\ i = j
<1>1. PICK x, y \in Subcoord : x = CoordX(c) /\ y = CoordY(c)
  BY CoordParts
<1>2. PICK u, v \in {-1, 0, 1} : d1 = <<u, v>> /\ u = d1[1] /\ v = d1[2] /\ (u # 0 \/ v # 0)
  BY DirectionParts DEF Directions
<1>3. PICK s, t \in {-1, 0, 1} : d2 = <<s, t>> /\ s = d2[1] /\ t = d2[2] /\ (s # 0 \/ t # 0)
  BY DirectionParts DEF Directions
<1>4. x + i * u = x + j * s /\ y + i * v = y + j * t
  <2>1. /\ CoordX(Along(c, d1, i)) = CoordX(c) + i * d1[1]
        /\ CoordY(Along(c, d1, i)) = CoordY(c) + i * d1[2]
    BY AlongParts, Zenon
  <2>2. /\ CoordX(Along(c, d2, j)) = CoordX(c) + j * d2[1]
        /\ CoordY(Along(c, d2, j)) = CoordY(c) + j * d2[2]
    BY AlongParts, Zenon
  <2> QED
    BY <1>1, <1>2, <1>3, <2>1, <2>2, Zenon
<1>5. \A w \in {-1, 0, 1} : /\ \/ w = 1 /\ i * w = i
                               \/ w = 0 /\ i * w = 0
                               \/ w = -1 /\ i * w = -i
                            /\ \/ w = 1 /\ j * w = j
                               \/ w = 0 /\ j * w = 0
                               \/ w = -1 /\ j * w = -j
  OBVIOUS
<1>6. PICK iu, iv, js, jt \in Int :
        /\ iu = i * u /\ iv = i * v /\ js = j * s /\ jt = j * t
        /\ \/ u = 1 /\ iu = i
           \/ u = 0 /\ iu = 0
           \/ u = -1 /\ iu = -i
        /\ \/ v = 1 /\ iv = i
           \/ v = 0 /\ iv = 0
           \/ v = -1 /\ iv = -i
        /\ \/ s = 1 /\ js = j
           \/ s = 0 /\ js = 0
           \/ s = -1 /\ js = -j
        /\ \/ t = 1 /\ jt = j
           \/ t = 0 /\ jt = 0
           \/ t = -1 /\ jt = -j
  BY <1>5
<1>7. x + iu = x + js /\ y + iv = y + jt
  BY <1>4, <1>6
<1>8. u = s /\ v = t /\ i = j
  BY <1>2, <1>3, <1>6, <1>7 DEF Subcoord
<1> QED
  BY <1>2, <1>3, <1>8

(* Who attacks a cell, read from the cells.                                       *)
Attacks(b, c, x, a) ==
  a \in Coord /\ \E p \in Piece : b.cells[a] = MakeCell(c, p) /\ a \in Sources(p, c, b.bbAll, x)

LEMMA AttackersAre ==
  ASSUME NEW b, Fresh(b), NEW c \in Color, NEW x, NEW a
  PROVE  a \in CellAttackers(b, x, c) <=> Attacks(b, c, x, a)
<1>1. \A p \in Piece : \A s : s \in Bb(b, c, p) <=> s \in Coord /\ b.cells[s] = MakeCell(c, p)
  BY BitboardCells
<1>2. a \in CellAttackers(b, x, c) <=>
        \E p \in Piece : a \in Bb(b, c, p) /\ a \in Sources(p, c, b.bbAll, x)
  BY SourceSets DEF CellAttackers, BbDiagPieces, BbLinePieces
<1> QED
  BY <1>1, <1>2 DEF Attacks

(* The line from x to a, open in one, passes d.                                   *)
Passes(one, x, a, d) ==
  \E dir \in Directions : \E n \in 1..7 : \E j \in 1..(n - 1) :
    /\ Reaches(x, dir, n) /\ a = Along(x, dir, n) /\ d = Along(x, dir, j)
    /\ \A i \in 1..(n - 1) : Along(x, dir, i) \notin one

(* An attack ends when something comes on its line.                               *)
LEMMA AttackCut ==
  ASSUME NEW p \in Piece, NEW c, NEW x \in Coord, NEW one, NEW two, NEW a,
         a \in Sources(p, c, one, x), a \notin Sources(p, c, two, x)
  PROVE  \E d \in two : Passes(one, x, a, d)
<1>1. PICK dir \in Directions : /\ a \in RayAttack(one, Ray[dir][x])
                               /\ a \notin RayAttack(two, Ray[dir][x])
  <2>1. /\ RookAttack(one, x) = UNION {RayAttack(one, Ray[dir][x]) : dir \in RookDirections}
        /\ RookAttack(two, x) = UNION {RayAttack(two, Ray[dir][x]) : dir \in RookDirections}
        /\ BishopAttack(one, x) = UNION {RayAttack(one, Ray[dir][x]) : dir \in BishopDirections}
        /\ BishopAttack(two, x) = UNION {RayAttack(two, Ray[dir][x]) : dir \in BishopDirections}
    BY DEF RookAttack, BishopAttack
  <2>2. \/ a \in RookAttack(one, x) /\ a \notin RookAttack(two, x)
        \/ a \in BishopAttack(one, x) /\ a \notin BishopAttack(two, x)
    BY SourceSets
  <2> QED
    BY <2>1, <2>2 DEF Directions
<1>2. \A occupied : a \in RayAttack(occupied, Ray[dir][x]) <=>
        \E k \in 1..7 : /\ Reaches(x, dir, k) /\ a = Along(x, dir, k)
                        /\ \A j \in 1..(k - 1) : Along(x, dir, j) \notin occupied
  BY RayAttackCells
<1>3. PICK n \in 1..7 : /\ Reaches(x, dir, n) /\ a = Along(x, dir, n)
                       /\ \A i \in 1..(n - 1) : Along(x, dir, i) \notin one
  BY <1>1, <1>2
<1>4. PICK j \in 1..(n - 1) : Along(x, dir, j) \in two
  BY <1>1, <1>2, <1>3
<1> QED
  BY <1>3, <1>4 DEF Passes

(* One cell is on the way to one attacker only, is between it and the attacked    *)
(* cell, and not a knight's move away from it.                                    *)
LEMMA OneAttackerPast ==
  ASSUME NEW one, NEW x \in Coord, NEW a1 \in one, NEW a2 \in one, NEW d,
         Passes(one, x, a1, d), Passes(one, x, a2, d)
  PROVE  a1 = a2
<1>1. PICK d1 \in Directions : \E n \in 1..7 : \E j \in 1..(n - 1) :
        /\ Reaches(x, d1, n) /\ a1 = Along(x, d1, n) /\ d = Along(x, d1, j)
        /\ \A i \in 1..(n - 1) : Along(x, d1, i) \notin one
  BY DEF Passes
<1>2. PICK n1 \in 1..7 : \E j \in 1..(n1 - 1) :
        /\ Reaches(x, d1, n1) /\ a1 = Along(x, d1, n1) /\ d = Along(x, d1, j)
        /\ \A i \in 1..(n1 - 1) : Along(x, d1, i) \notin one
  BY <1>1
<1>3. PICK j1 \in 1..(n1 - 1) :
        /\ Reaches(x, d1, n1) /\ a1 = Along(x, d1, n1) /\ d = Along(x, d1, j1)
        /\ \A i \in 1..(n1 - 1) : Along(x, d1, i) \notin one
  BY <1>2
<1>4. PICK d2 \in Directions : \E n \in 1..7 : \E j \in 1..(n - 1) :
        /\ Reaches(x, d2, n) /\ a2 = Along(x, d2, n) /\ d = Along(x, d2, j)
        /\ \A i \in 1..(n - 1) : Along(x, d2, i) \notin one
  BY DEF Passes
<1>5. PICK n2 \in 1..7 : \E j \in 1..(n2 - 1) :
        /\ Reaches(x, d2, n2) /\ a2 = Along(x, d2, n2) /\ d = Along(x, d2, j)
        /\ \A i \in 1..(n2 - 1) : Along(x, d2, i) \notin one
  BY <1>4
<1>6. PICK j2 \in 1..(n2 - 1) :
        /\ Reaches(x, d2, n2) /\ a2 = Along(x, d2, n2) /\ d = Along(x, d2, j2)
        /\ \A i \in 1..(n2 - 1) : Along(x, d2, i) \notin one
  BY <1>5
<1>7. j1 \in 1..7 /\ j1 \in 1..n1 /\ j2 \in 1..7 /\ j2 \in 1..n2
  OBVIOUS
<1>8. Reaches(x, d1, j1) /\ Reaches(x, d2, j2)
  BY <1>3, <1>6, <1>7, RayCells
<1>9. d1 = d2
  BY <1>3, <1>6, <1>7, <1>8, OneRay
<1>10. ~(n1 \in 1..(n2 - 1)) /\ ~(n2 \in 1..(n1 - 1))
  BY <1>3, <1>6, <1>9
<1>11. n1 = n2
  BY <1>10
<1> QED
  BY <1>3, <1>6, <1>9, <1>11

LEMMA PassedBetween ==
  ASSUME NEW one, NEW x \in Coord, NEW a, NEW d, Passes(one, x, a, d)
  PROVE  /\ d \in Between(a, x) /\ d \in Coord /\ d \notin one
         /\ ~(CoordX(d) - CoordX(x) \in {-2, 2} /\ CoordY(d) - CoordY(x) \in {-1, 1})
<1>1. PICK dir \in Directions : \E n \in 1..7 : \E j \in 1..(n - 1) :
        /\ Reaches(x, dir, n) /\ a = Along(x, dir, n) /\ d = Along(x, dir, j)
        /\ \A i \in 1..(n - 1) : Along(x, dir, i) \notin one
  BY DEF Passes
<1>2. PICK n \in 1..7 : \E j \in 1..(n - 1) :
        /\ Reaches(x, dir, n) /\ a = Along(x, dir, n) /\ d = Along(x, dir, j)
        /\ \A i \in 1..(n - 1) : Along(x, dir, i) \notin one
  BY <1>1
<1>3. PICK j \in 1..(n - 1) :
        /\ Reaches(x, dir, n) /\ a = Along(x, dir, n) /\ d = Along(x, dir, j)
        /\ \A i \in 1..(n - 1) : Along(x, dir, i) \notin one
  BY <1>2
<1>4. j \in 1..7 /\ j \in 1..n
  OBVIOUS
<1>5. Reaches(x, dir, j)
  BY <1>3, <1>4, RayCells
<1>6. d \in Between(a, x)
  BY <1>3, RayBetween
<1>7. d \in Coord
  BY <1>3, <1>4, <1>5, AlongParts
<1>8. ~(CoordX(d) - CoordX(x) \in {-2, 2} /\ CoordY(d) - CoordY(x) \in {-1, 1})
  <2>1. PICK m, k \in {-j, 0, j} :
          CoordX(Along(x, dir, j)) = CoordX(x) + m /\ CoordY(Along(x, dir, j)) = CoordY(x) + k
    BY <1>4, <1>5, AlongAway
  <2>2. CoordX(x) \in Int /\ CoordY(x) \in Int
    BY CoordParts DEF Subcoord
  <2>3. CoordX(d) - CoordX(x) = m /\ CoordY(d) - CoordY(x) = k
    BY <1>3, <2>1, <2>2
  <2> QED
    BY <2>3
<1> QED
  BY <1>3, <1>6, <1>7, <1>8

(* A capture en passant, in rows and columns.                                     *)
LEMMA PassingEmpty ==
  ASSUME NEW b, Fresh(b), NEW s, NEW d, PawnPasses(b, s, d)
  PROVE  /\ b.enpassantCoord \in Coord /\ b.cells[d] = EmptyCell
         /\ b.cells[b.enpassantCoord] = MakeCell(Invert(b.side), Pawn)
<1>1. b.enpassantCoord # InvalidCoord /\ d = b.enpassantCoord + PawnForwardDelta(b.side)
  BY DEF PawnPasses
<1>2. b.enpassantCoord \in Coord
  BY <1>1, BoardFields DEF Fresh, MaybeCoord
<1>3. EnpassantKept(b)
  BY FreshParts DEF Fresh
<1> QED
  BY <1>1, <1>2, <1>3 DEF EnpassantKept, FixedEnpassant, InvalidCoord

LEMMA PassingFacts ==
  ASSUME NEW b, Fresh(b), NEW s, NEW d, PawnPasses(b, s, d)
  PROVE  /\ b.enpassantCoord \in Coord /\ d \in Coord
         /\ b.cells[b.enpassantCoord] = MakeCell(Invert(b.side), Pawn)
         /\ b.cells[d] = EmptyCell
         /\ AdvancePawnForward(Invert(b.side), {d}) = {b.enpassantCoord}
         /\ \A x \in Coord : b.enpassantCoord \in PawnAttacks[b.side][x] =>
              CoordX(d) - CoordX(x) \in {-2, 2} /\ CoordY(d) - CoordY(x) \in {-1, 1}
<1> DEFINE c == b.side
           ep == b.enpassantCoord
<1>1. ep # InvalidCoord /\ d = ep + PawnForwardDelta(c)
  BY DEF PawnPasses
<1>2. c \in Color /\ ep \in Coord
  BY PassingEmpty, BoardFields DEF Fresh
<1>3. EnpassantKept(b)
  BY FreshParts DEF Fresh
<1>4. b.cells[ep] = MakeCell(Invert(c), Pawn) /\ b.cells[d] = EmptyCell
  BY PassingEmpty
<1>5. CoordX(ep) = EnpassantSrcRow(c)
  BY <1>1, <1>3 DEF EnpassantKept
<1>6. /\ d \in Coord /\ CoordY(d) = CoordY(ep)
      /\ CoordX(d) = IF c = White THEN CoordX(ep) - 1 ELSE CoordX(ep) + 1
      /\ ep = d + PawnForwardDelta(Invert(c))
  BY <1>1, <1>2, <1>5 DEF Color, White, Black, Coord, CoordX, CoordY, EnpassantSrcRow,
                    PawnForwardDelta, Invert
<1>7. AdvancePawnForward(Invert(c), {d}) = {ep}
  <2>1. AdvancePawnForward(Invert(c), {d}) = {d + PawnForwardDelta(Invert(c))} \cap Coord
    BY DEF AdvancePawnForward, Shift
  <2> QED
    BY <1>2, <1>6, <2>1
<1>8. ASSUME NEW x \in Coord, ep \in PawnAttacks[c][x]
      PROVE  CoordX(d) - CoordX(x) \in {-2, 2} /\ CoordY(d) - CoordY(x) \in {-1, 1}
  <2>1. /\ CoordX(ep) - CoordX(x) = IF c = White THEN -1 ELSE 1
        /\ CoordY(ep) - CoordY(x) \in {-1, 1}
    BY <1>2, <1>8, NearCells
  <2>2. CoordX(ep) \in Int /\ CoordX(x) \in Int
    BY <1>2, CoordParts DEF Subcoord
  <2>3. CASE c = White
    BY <1>6, <2>1, <2>2, <2>3
  <2>4. CASE c # White
    BY <1>6, <2>1, <2>2, <2>4
  <2> QED
    BY <2>3, <2>4
<1> QED
  BY <1>2, <1>4, <1>6, <1>7, <1>8

(* What the generators look at of a check is what the attackers of the king say.  *)
LEMMA ChecksAre ==
  ASSUME NEW b, Fresh(b), NEW attackers,
         attackers = CellAttackers(b, KingPos(b, b.side), Invert(b.side))
  PROVE  /\ attackers = {} => Check(b).kind = "None" /\ Check(b).mask = Coord
         /\ \A a : attackers = {a} =>
              /\ Check(b).kind = "Single"
              /\ Check(b).mask = Between(a, KingPos(b, b.side)) \cup {a}
         /\ ~IsCheck(b) => attackers = {}
<1> DEFINE king == KingPos(b, b.side)
<1>1. Check(b) = CheckBy(attackers, king)
  BY DEF Check
<1>2. attackers = {} => Check(b).kind = "None" /\ Check(b).mask = Coord
  BY <1>1, FS_EmptySet DEF CheckBy, CheckKind
<1>3. ASSUME NEW a, attackers = {a}
      PROVE  Check(b).kind = "Single" /\ Check(b).mask = Between(a, king) \cup {a}
  <2>1. Cardinality(attackers) = 1
    BY <1>3, FS_Singleton
  <2>2. CheckKind(attackers) = "Single"
    BY <1>3, <2>1 DEF CheckKind
  <2>3. (CHOOSE k \in attackers : TRUE) = a
    BY <1>3
  <2>4. CheckMask(attackers, king) = Between(a, king) \cup {a}
    BY <1>3, <2>3 DEF CheckMask
  <2> QED
    BY <1>1, <2>2, <2>4 DEF CheckBy
<1>4. ~IsCheck(b) => attackers = {}
  BY DEF IsCheck, IsCellAttacked, CellAttackers
<1> QED
  BY <1>2, <1>3, <1>4

(* A legal move answers the check: what attacks the king is taken, or its line is *)
(* cut, and no move does so to two attackers.                                     *)
LEMMA LegalAnswers ==
  ASSUME NEW b, Sound(b), NEW k, NEW s, NEW d, Goes(b, k, s, d), IsMoveLegal(b, Move(k, s, d))
  PROVE  Answering(b, Check(b), k, s, d)
<1> DEFINE c == b.side
           e == Invert(c)
           m == Move(k, s, d)
           king == KingPos(b, c)
           taken == IF k = "Enpassant" THEN AdvancePawnForward(e, {d}) ELSE {}
           after == Xor(Xor(b.bbAll, {s}) \cup {d}, taken)
           mask == Xor(Coord \ {d}, taken)
           ep == b.enpassantCoord
           A == CellAttackers(b, king, e)
<1>1. CASE b.cells[s] = MakeCell(c, King)
  BY <1>1 DEF Answering
<1>2. CASE b.cells[s] # MakeCell(c, King)
  <2>1. /\ Fresh(b) /\ c \in Color /\ e \in Color /\ s \in Coord /\ d \in Coord
        /\ b.cells \in Cells
    BY BoardFields, Colors DEF Sound, Fresh, Goes
  <2>2. \A x : x \in b.bbAll <=> x \in Coord /\ b.cells[x] # EmptyCell
    BY <2>1, BitboardCells
  <2>3. king \in Coord
    <3>1. PICK x : KingAt(b.cells, c, x)
      BY <2>1 DEF Sound, Peopled
    <3> QED
      BY <2>1, <3>1, KingPosAt DEF KingAt
  <2>4. b.cells[s] # EmptyCell
    <3>1. \E p \in Piece : b.cells[s] = MakeCell(c, p)
      BY PieceFacts DEF Goes, PawnGoes, OtherGoes, Officers, PieceGoes
    <3> QED
      BY <2>1, <3>1, Colors
  <2>5. k = "Enpassant" => PawnPasses(b, s, d)
    BY DEF Goes, PawnGoes, OtherGoes, PawnKind, PromoteKinds
  <2>6. \/ taken = {}
        \/ /\ k = "Enpassant" /\ taken = {ep} /\ ep \in Coord
           /\ b.cells[ep] = MakeCell(e, Pawn) /\ b.cells[d] = EmptyCell
           /\ \A x \in Coord : ep \in PawnAttacks[c][x] =>
                CoordX(d) - CoordX(x) \in {-2, 2} /\ CoordY(d) - CoordY(x) \in {-1, 1}
    BY <2>1, <2>5, PassingFacts, ZenonT(60)
  <2>7. MakeCell(e, Pawn) # EmptyCell
    BY <2>1, Colors, PieceFacts
  <2>8. \A x : /\ x \in after <=> ~((~(x \in b.bbAll <=> x = s) \/ x = d) <=> x \in taken)
               /\ x \in mask <=> ~(x \in Coord /\ x # d <=> x \in taken)
    BY XorFacts
  <2> HIDE DEF after, mask
  <2>9. \A x : x \in after /\ x # d => x \in b.bbAll
    <3> HIDE DEF taken
    <3> QED
      BY <2>1, <2>2, <2>4, <2>6, <2>7, <2>8
  <2>10. \A x \in Coord : x # d /\ x \notin taken => x \in mask
    BY <2>8
  <2>11. ~AttackedBy(b.cells, after, e, king, mask)
    <3>1. k # "Null"
      BY DEF Goes, PawnGoes, OtherGoes, PawnKind, PromoteKinds
    <3>2. m.kind = k /\ m.src = s /\ m.dst = d
      BY MoveParts
    <3>3. ~IsAttackedMasked(b, e, king, after, mask)
      BY <1>2, <3>1, <3>2 DEF IsMoveLegal, after, mask
    <3> QED
      BY <2>1, <3>3, AttacksByCells
  <2>12. \A a : a \in A <=> Attacks(b, e, king, a)
    BY <2>1, AttackersAre
  <2> HIDE DEF king, A, taken
  <2>13. ASSUME NEW a \in A
         PROVE  /\ a \in Coord /\ a \in b.bbAll
                /\ a = d \/ a \in taken \/ Passes(b.bbAll, king, a, d)
    <3>1. PICK p \in Piece : /\ a \in Coord /\ b.cells[a] = MakeCell(e, p)
                            /\ a \in Sources(p, e, b.bbAll, king)
      BY <2>12 DEF Attacks
    <3>2. a \in b.bbAll
      BY <2>1, <2>2, <3>1, Colors
    <3>3. CASE a # d /\ a \notin taken
      <4>1. a \notin Sources(p, e, after, king)
        BY <2>10, <2>11, <3>1, <3>3 DEF AttackedBy
      <4>2. PICK t \in after : Passes(b.bbAll, king, a, t)
        BY <2>3, <3>1, <4>1, AttackCut
      <4>3. t \notin b.bbAll
        BY <2>3, <4>2, PassedBetween
      <4>4. t = d
        BY <2>9, <4>3
      <4> QED
        BY <3>1, <3>2, <4>2, <4>4
    <3> QED
      BY <3>1, <3>2, <3>3
  <2>14. ASSUME NEW a1 \in A, NEW a2 \in A, a1 # a2, a1 = d PROVE FALSE
    <3>1. d \in b.bbAll
      BY <2>13, <2>14
    <3>2. taken = {}
      BY <2>2, <2>6, <3>1
    <3>3. Passes(b.bbAll, king, a2, d)
      BY <2>13, <2>14, <3>2
    <3> QED
      BY <2>3, <3>1, <3>3, PassedBetween
  <2>15. ASSUME NEW a1 \in A, NEW a2 \in A, a1 # a2, a1 \in taken, a2 \notin taken, a2 # d
         PROVE  FALSE
    <3>1. Passes(b.bbAll, king, a2, d)
      BY <2>13, <2>15
    <3>2. a1 = ep /\ b.cells[ep] = MakeCell(e, Pawn)
      BY <2>6, <2>15
    <3>3. PICK p \in Piece : b.cells[a1] = MakeCell(e, p) /\ a1 \in Sources(p, e, b.bbAll, king)
      BY <2>12 DEF Attacks
    <3>4. p = Pawn
      BY <2>1, <3>2, <3>3, CellFacts, PieceFacts
    <3>5. Invert(e) = c
      BY <2>1, Colors
    <3>6. ep \in PawnAttacks[c][king]
      BY <3>2, <3>3, <3>4, <3>5, SourceSets
    <3>7. CoordX(d) - CoordX(king) \in {-2, 2} /\ CoordY(d) - CoordY(king) \in {-1, 1}
      BY <2>3, <2>6, <2>15, <3>6
    <3> QED
      BY <2>3, <3>1, <3>7, PassedBetween
  <2>16. ASSUME NEW a1 \in A, NEW a2 \in A PROVE a1 = a2
    <3>1. CASE a1 = d \/ a2 = d
      BY <2>14, <3>1
    <3>2. CASE a1 # d /\ a2 # d /\ (a1 \in taken \/ a2 \in taken)
      BY <2>6, <2>15, <3>2
    <3>3. CASE a1 # d /\ a2 # d /\ a1 \notin taken /\ a2 \notin taken
      <4>1. Passes(b.bbAll, king, a1, d) /\ Passes(b.bbAll, king, a2, d)
        BY <2>13, <3>3
      <4>2. a1 \in b.bbAll /\ a2 \in b.bbAll
        BY <2>13
      <4> QED
        BY <2>3, <4>1, <4>2, OneAttackerPast
    <3> QED
      BY <3>1, <3>2, <3>3
  <2>17. /\ A = {} => Check(b).kind = "None" /\ Check(b).mask = Coord
         /\ \A a : A = {a} => /\ Check(b).kind = "Single"
                              /\ Check(b).mask = Between(a, king) \cup {a}
    <3>1. A = CellAttackers(b, KingPos(b, b.side), Invert(b.side)) /\ king = KingPos(b, b.side)
      BY DEF A, king
    <3> QED
      BY <2>1, <3>1, ChecksAre
  <2>18. CASE A = {}
    BY <2>1, <2>17, <2>18 DEF Answering
  <2>19. CASE A # {}
    <3>1. PICK a : A = {a}
      BY <2>16, <2>19
    <3>2. Check(b).kind # "Double"
      BY <2>17, <3>1
    <3>3. d \in Between(a, king) \cup {a} \/ a \in taken
      BY <2>3, <2>13, <3>1, PassedBetween
    <3>4. d \in Check(b).mask \/ k = "Enpassant"
      BY <2>6, <2>17, <3>1, <3>3
    <3> QED
      BY <3>2, <3>4 DEF Answering
  <2> QED
    BY <2>18, <2>19
<1> QED
  BY <1>1, <1>2

(* Between the moves that are tried out no move is missing.                       *)
LEMMA TriedOut ==
  ASSUME NEW b, Sound(b), NEW m, IsMove(m), IsWellFormed(m, b.side), IsMoveValid(b, m)
  PROVE  m \in WellFormedMoves
<1> DEFINE c == b.side
           src == m.src
           dst == m.dst
           from == UNION {BbRow[x] : x \in {1, 3, 4, 6}}
           to == UNION {BbRow[x] : x \in {0, 2, 3, 4, 5, 7}}
           pawnKinds == PromoteKinds \cup {"PawnDoubleMove", "Enpassant"}
           castling == {"CastlingKingside", "CastlingQueenside"}
<1>1. c \in Color
  BY BoardFields DEF Sound, Fresh
<1>2. m = Move(m.kind, src, dst) /\ src \in Coord /\ dst \in Coord
  BY DEF IsMove, IsWellFormed
<1>3. /\ "Simple" \notin PromoteKinds /\ "PawnDoubleMove" \notin PromoteKinds
      /\ "CastlingKingside" \notin PromoteKinds /\ "CastlingQueenside" \notin PromoteKinds
      /\ "Null" \notin PromoteKinds /\ "Enpassant" \notin PromoteKinds
  BY DEF PromoteKinds
<1>4. m.kind \in {"Simple"} \cup pawnKinds \cup castling
  <2>1. m.kind # "Null"
    BY DEF IsMoveValid
  <2> QED
    BY <2>1 DEF IsWellFormed
<1>5. /\ \A x \in {1, 3, 4, 6} : CoordX(src) = x => src \in from
      /\ \A x \in {0, 2, 3, 4, 5, 7} : CoordX(dst) = x => dst \in to
  <2>1. \A x \in {0, 1, 2, 3, 4, 5, 6, 7} :
          (CoordX(src) = x => src \in BbRow[x]) /\ (CoordX(dst) = x => dst \in BbRow[x])
    BY <1>2, LineCells DEF Subcoord
  <2> QED
    BY <2>1
<1>6. m.kind \in pawnKinds => src \in from /\ dst \in to
  <2>1. /\ DoubleMoveSrcRow(c) \in {1, 6} /\ PromoteSrcRow(c) \in {1, 6}
        /\ EnpassantSrcRow(c) \in {3, 4} /\ DoubleMoveDstRow(c) \in {3, 4}
        /\ PromoteDstRow(c) \in {0, 7} /\ EnpassantDstRow(c) \in {2, 5}
    BY DEF DoubleMoveSrcRow, PromoteSrcRow, EnpassantSrcRow, DoubleMoveDstRow, PromoteDstRow,
           EnpassantDstRow
  <2> HIDE DEF from, to
  <2>2. CASE m.kind \in PromoteKinds
    <3>1. CoordX(src) = PromoteSrcRow(c) /\ CoordX(dst) = PromoteDstRow(c)
      BY <1>3, <2>2 DEF IsWellFormed
    <3> QED
      BY <1>5, <2>1, <3>1
  <2>3. CASE m.kind = "PawnDoubleMove"
    <3>1. CoordX(src) = DoubleMoveSrcRow(c) /\ CoordX(dst) = DoubleMoveDstRow(c)
      BY <1>3, <2>3 DEF IsWellFormed
    <3> QED
      BY <1>5, <2>1, <3>1
  <2>4. CASE m.kind = "Enpassant"
    <3>1. CoordX(src) = EnpassantSrcRow(c) /\ CoordX(dst) = EnpassantDstRow(c)
      BY <1>3, <2>4 DEF IsWellFormed
    <3> QED
      BY <1>5, <2>1, <3>1
  <2> QED
    BY <2>2, <2>3, <2>4
<1> HIDE DEF from, to
<1>7. WellFormedMoves =
        {x \in {Move("Simple", s, d) : s \in Coord, d \in Coord}
                 \cup {Move(k, s, d) : k \in pawnKinds, s \in from, d \in to}
                 \cup {Move(k, s, d) : k \in castling, s \in Coord, d \in Coord}
           : \E color \in Color : IsWellFormed(x, color)}
  BY DEF WellFormedMoves, from, to
<1>8. \/ m \in {Move("Simple", s, d) : s \in Coord, d \in Coord}
      \/ m \in {Move(k, s, d) : k \in pawnKinds, s \in from, d \in to}
      \/ m \in {Move(k, s, d) : k \in castling, s \in Coord, d \in Coord}
  <2>1. CASE m.kind = "Simple"
    BY <1>2, <2>1
  <2>2. CASE m.kind \in pawnKinds
    BY <1>2, <1>6, <2>2
  <2>3. CASE m.kind \in castling
    BY <1>2, <2>3
  <2> QED
    BY <1>4, <2>1, <2>2, <2>3
<1> QED
  BY <1>1, <1>7, <1>8

LEMMA TriedAreMoves ==
  ASSUME NEW m \in WellFormedMoves
  PROVE  IsMove(m)
<1>1. \E k, s, d : m = Move(k, s, d)
  BY DEF WellFormedMoves
<1> QED
  BY <1>1, MoveParts DEF IsMove

(* A legal move is generated exactly if it is well-formed and valid.              *)
LEMMA GeneratedIfValid ==
  ASSUME NEW b, Sound(b), NEW m, IsMoveLegal(b, m)
  PROVE  m \in GenAllMoves(b) <=>
           m \in WellFormedMoves /\ IsWellFormed(m, b.side) /\ IsMoveValid(b, m)
<1>1. ASSUME m \in GenAllMoves(b)
      PROVE  m \in WellFormedMoves /\ IsWellFormed(m, b.side) /\ IsMoveValid(b, m)
  <2>1. IsMove(m) /\ IsWellFormed(m, b.side) /\ IsMoveValid(b, m)
    BY <1>1, GeneratedValid
  <2> QED
    BY <2>1, TriedOut
<1>2. ASSUME m \in WellFormedMoves, IsWellFormed(m, b.side), IsMoveValid(b, m)
      PROVE  m \in GenAllMoves(b)
  <2>1. Fresh(b)
    BY DEF Sound
  <2>2. PICK k, s, d : m = Move(k, s, d)
    BY <1>2, TriedAreMoves DEF IsMove
  <2>3. Goes(b, k, s, d) \/ (Castles(b, k, s, d) /\ ~IsCheck(b))
    BY <1>2, <2>2, ValidAre
  <2>6. Answering(b, Check(b), k, s, d)
    <3>1. CASE Goes(b, k, s, d)
      BY <2>2, <3>1, LegalAnswers
    <3>2. CASE Castles(b, k, s, d) /\ ~IsCheck(b)
      <4>1. Check(b).kind = "None"
        BY <2>1, <3>2, ChecksAre
      <4> QED
        BY <3>2, <4>1 DEF Answering
    <3> QED
      BY <2>3, <3>1, <3>2
  <2>7. Wanted(b, TRUE, TRUE, TRUE, k, d)
    BY DEF Wanted
  <2>8. m \in Collect(GenParts(b, TRUE, TRUE, TRUE))
    BY <2>1, <2>2, <2>6, <2>7, GeneratedAre
  <2> QED
    BY <2>8 DEF GenAllMoves
<1> QED
  BY <1>1, <1>2

(* No two of the inner generators write one move.                                 *)
LEMMA PartsApart ==
  ASSUME NEW b, Sound(b), NEW parts, parts = GenParts(b, TRUE, TRUE, TRUE),
         NEW i \in DOMAIN parts, NEW j \in DOMAIN parts, i # j
  PROVE  parts[i] \cap parts[j] = {}
<1> DEFINE check == Check(b)
           gk == check.kind = "None"
<1>1. Fresh(b)
  BY DEF Sound
<1>2. CASE check.kind = "Double"
  <2>1. DOMAIN parts = {1}
    BY <1>2 DEF GenParts, GenImpl
  <2> QED
    BY <2>1
<1>3. CASE check.kind # "Double"
  <2>1. parts = GenInner(b, b.side, TRUE, TRUE, TRUE, gk, check.mask)
    BY <1>3 DEF GenParts, GenImpl
  <2>2. ASSUME NEW m \in parts[i], m \in parts[j] PROVE FALSE
    <3>1. m \in Collect(parts) /\ i \in DOMAIN parts
      BY DEF Collect
    <3>2. PICK k, s, d : m = Move(k, s, d)
      BY <1>1, <3>1, WritesMoves DEF IsMove
    <3>3. InnerSorts(parts, b, gk, check.mask, Wanted(b, TRUE, TRUE, TRUE, k, d), k, s, d)
      <4>1. gk \in BOOLEAN
        OBVIOUS
      <4> HIDE DEF gk
      <4> QED
        BY <1>1, <2>1, <4>1, InnerAre
    <3> DEFINE pawn == s \in Coord /\ d \in Coord /\ b.cells[s] = MakeCell(b.side, Pawn)
               is(p) == b.cells[s] = MakeCell(b.side, p)
               simple == s \in Coord /\ d \in Coord /\ k = "Simple" /\ ~Own(b.side, b.cells[d])
               castling == k \in {"CastlingKingside", "CastlingQueenside"}
    <3>4. /\ DOMAIN parts = 1..8
          /\ m \in parts[1] => pawn /\ b.cells[d] = EmptyCell /\ ~castling /\ k # "Enpassant"
          /\ m \in parts[2] => pawn /\ b.cells[d] # EmptyCell /\ ~castling /\ k # "Enpassant"
          /\ m \in parts[3] => pawn /\ k = "Enpassant"
          /\ m \in parts[4] => simple /\ is(King)
          /\ m \in parts[5] => simple /\ is(Knight)
          /\ m \in parts[6] => simple /\ (is(Bishop) \/ is(Queen)) /\ d \in BishopAttack(b.bbAll, s)
          /\ m \in parts[7] => simple /\ (is(Rook) \/ is(Queen)) /\ d \in RookAttack(b.bbAll, s)
          /\ m \in parts[8] => castling
      <4>1. s \in Coord /\ d \in Coord =>
              /\ PawnSteps(b, s, d) \/ PawnJumps(b, s, d) => b.cells[d] = EmptyCell
              /\ PawnTakes(b, s, d) => b.cells[d] # EmptyCell
              /\ PawnKind(k, Promoting(b, s)) => k # "Enpassant" /\ k # "PawnDoubleMove"
        BY <1>1, SortsOfMoves
      <4>2. PawnKind(k, Promoting(b, s)) => ~castling
        BY DEF PawnKind, PromoteKinds
      <4>3. Castles(b, k, s, d) => castling
        BY DEF Castles, CastlesTo
      <4> HIDE DEF castling
      <4>4. k = "PawnDoubleMove" => ~castling /\ k # "Enpassant"
        BY DEF castling
      <4> QED
        BY <3>2, <3>3, <4>1, <4>2, <4>3, <4>4 DEF InnerSorts, PieceGoes
    <3>5. s \in Coord /\ d \in Coord =>
            ~(d \in BishopAttack(b.bbAll, s) /\ d \in RookAttack(b.bbAll, s))
      <4>1. SUFFICES ASSUME s \in Coord, d \in Coord, d \in BishopAttack(b.bbAll, s),
                            d \in RookAttack(b.bbAll, s)
                     PROVE  FALSE
        OBVIOUS
      <4>2. d \in BishopPostMask[s] /\ d \in RookPostMask[s]
        BY <4>1, RookAttackFacts, BishopAttackFacts
      <4>3. PICK x, y, u, v \in Subcoord : /\ x = CoordX(s) /\ y = CoordY(s)
                                           /\ u = CoordX(d) /\ v = CoordY(d)
        BY <4>1, CoordParts
      <4>4. (u = x <=> v # y) /\ (u + v = x + y <=> v - u # y - x)
        BY <4>1, <4>2, <4>3, PostMaskCells
      <4> QED
        BY <4>4 DEF Subcoord
    <3>6. \A p, q \in Piece : is(p) /\ is(q) => p = q
      BY <1>1, OnePiece
    <3>7. /\ {Pawn, King, Knight, Bishop, Rook, Queen} \subseteq Piece
          /\ Pawn # King /\ Pawn # Knight /\ Pawn # Bishop /\ Pawn # Rook /\ Pawn # Queen
          /\ King # Knight /\ King # Bishop /\ King # Rook /\ King # Queen
          /\ Knight # Bishop /\ Knight # Rook /\ Knight # Queen /\ Bishop # Rook
          /\ Bishop # Queen /\ Rook # Queen
      BY DEF Piece, Pawn, King, Knight, Bishop, Rook, Queen
    <3>8. \A p, q \in {Pawn, King, Knight, Bishop, Rook, Queen} : is(p) /\ is(q) => p = q
      BY <3>6, <3>7
    <3>9. (k = "Simple" => ~castling) /\ (k = "Enpassant" => ~castling /\ k # "Simple")
      OBVIOUS
    <3> HIDE DEF castling, is
    <3>10. pawn <=> s \in Coord /\ d \in Coord /\ is(Pawn)
      BY DEF is
    <3> HIDE DEF pawn
    <3>11. i \in {1, 2, 3, 4, 5, 6, 7, 8} /\ j \in {1, 2, 3, 4, 5, 6, 7, 8}
      <4>1. \A x \in 1..8 : x \in {1, 2, 3, 4, 5, 6, 7, 8}
        OBVIOUS
      <4>2. i \in 1..8 /\ j \in 1..8
        BY <3>4
      <4> QED
        BY <4>1, <4>2
    <3> DEFINE wrote(x) == m \in parts[x]
    <3>12. /\ wrote(1) => ~wrote(2) /\ ~wrote(3) /\ ~wrote(4) /\ ~wrote(5) /\ ~wrote(6)
                           /\ ~wrote(7) /\ ~wrote(8)
           /\ wrote(2) => ~wrote(3) /\ ~wrote(4) /\ ~wrote(5) /\ ~wrote(6) /\ ~wrote(7) /\ ~wrote(8)
      BY <3>4, <3>7, <3>8, <3>9, <3>10
    <3>13. wrote(3) => ~wrote(4) /\ ~wrote(5) /\ ~wrote(6) /\ ~wrote(7) /\ ~wrote(8)
      BY <3>4, <3>9
    <3>14. /\ wrote(4) => ~wrote(5) /\ ~wrote(6) /\ ~wrote(7) /\ ~wrote(8)
           /\ wrote(5) => ~wrote(6) /\ ~wrote(7) /\ ~wrote(8)
      BY <3>4, <3>7, <3>8, <3>9
    <3>15. (wrote(6) => ~wrote(7) /\ ~wrote(8)) /\ (wrote(7) => ~wrote(8))
      BY <3>4, <3>5, <3>9
    <3>16. wrote(i) /\ wrote(j)
      BY <2>2
    <3> HIDE DEF wrote
    <3> QED
      BY <3>11, <3>12, <3>13, <3>14, <3>15, <3>16
  <2> QED
    BY <2>2
<1> QED
  BY <1>2, <1>3

(* In every position of the walk no two inner generators write one move; the      *)
(* legal captures, promotions and other quiet moves are the parts of the legal    *)
(* moves, without an overlap; and the legal moves that are generated are the      *)
(* legal ones among all well-formed moves that isMoveValid() accepts.             *)
THEOREM GeneratorsAreRight == Spec => []GeneratorsAgree
<1>1. ASSUME Sound(core) PROVE GeneratorsAgree
  <2> DEFINE parts == GenParts(core, TRUE, TRUE, TRUE)
             all == Legal(Collect(parts))
             captures == Legal(GenCaptures(core))
             promotes == Legal(GenSimplePromotes(core))
             quiet == Legal(GenSimpleMovesNoPromote(core))
             simple == Legal(GenSimpleMoves(core))
             tried == {m \in WellFormedMoves : IsWellFormed(m, core.side) /\ IsMoveValid(core, m)}
             takes(m) == IsMoveCapture(core, m)
  <2>1. \A i, j \in DOMAIN parts : i # j => parts[i] \cap parts[j] = {}
    BY <1>1, PartsApart
  <2>2. \A m : /\ m \in captures <=> m \in all /\ takes(m)
               /\ m \in simple <=> m \in all /\ ~takes(m)
               /\ m \in promotes <=> m \in all /\ ~takes(m) /\ m.kind \in PromoteKinds
               /\ m \in quiet <=> m \in all /\ ~takes(m) /\ m.kind \notin PromoteKinds
    <3>1. Fresh(core)
      BY <1>1 DEF Sound
    <3> QED
      BY <3>1, SortedOut DEF Legal, GenAllMoves
  <2>3. IsFiniteSet(all)
    <3>1. IsFiniteSet(GenAllMoves(core))
      BY <1>1, GeneratedFinite
    <3>2. all \subseteq GenAllMoves(core)
      BY DEF Legal, GenAllMoves
    <3> HIDE DEF all
    <3> QED
      BY <3>1, <3>2, FS_Subset
  <2>4. all = Legal(tried)
    <3>1. \A m : IsMoveLegal(core, m) => (m \in Collect(parts) <=> m \in tried)
      BY <1>1, GeneratedIfValid DEF GenAllMoves
    <3> HIDE DEF parts, tried
    <3> QED
      BY <3>1 DEF Legal
  <2>5. \A m : (m \in captures) \in BOOLEAN /\ takes(m) \in BOOLEAN
    BY DEF IsMoveCapture
  <2> HIDE DEF parts, all, captures, promotes, quiet, simple, tried, takes
  <2>6. captures \cup promotes \cup quiet = all /\ simple = promotes \cup quiet
    BY <2>2
  <2>7. Cardinality(captures) + Cardinality(promotes) + Cardinality(quiet) = Cardinality(all)
    <3>1. IsFiniteSet(captures) /\ IsFiniteSet(promotes) /\ IsFiniteSet(quiet)
      <4>1. captures \subseteq all /\ promotes \subseteq all /\ quiet \subseteq all
        BY <2>2
      <4> QED
        BY <2>3, <4>1, FS_Subset
    <3> DEFINE most == captures \cup promotes
    <3>2. captures \cap promotes = {} /\ most \cap quiet = {}
      BY <2>2
    <3>3. IsFiniteSet(most) /\ Cardinality(most) = Cardinality(captures) + Cardinality(promotes)
      BY <3>1, <3>2, ApartAdds
    <3>4. all = most \cup quiet
      BY <2>6
    <3> HIDE DEF most
    <3>5. Cardinality(all) = Cardinality(most) + Cardinality(quiet)
      BY <3>1, <3>2, <3>3, <3>4, ApartAdds
    <3> QED
      BY <3>3, <3>5
  <2>8. \A m \in all : (m \in captures) = takes(m)
    BY <2>2, <2>5
  <2> QED
    BY <2>1, <2>4, <2>6, <2>7, <2>8
       DEF GeneratorsAgree, parts, all, captures, promotes, quiet, simple, tried, takes
<1>2. Chained => GeneratorsAgree
  BY <1>1 DEF Chained
<1> QED
  BY <1>2, WalkIsChained, PTL

-----------------------------------------------------------------------------
(* Reading the cells of a FEN *)

Token == Cell \cup (-8..-1) \cup {Slash, Junk}
NewRead == [x |-> 0, y |-> 0, cur |-> 0, result |-> "Ok", cells |-> [c \in Coord |-> EmptyCell]]
Reads(tokens) == FoldLeft(ReadCell, NewRead, tokens)

Complaints == {"BoardRowOverflow", "BoardRowUnderflow", "BoardTooManyRows", "UnexpectedCharacter"}
ReadState == [x : Int, y : Int, cur : Int, result : Complaints \cup {"Ok"}, cells : [Coord -> Int]]

(* A state of the reader, field by field.                                         *)
ReadAs(x, y, cur, result, cells) ==
  [x |-> x, y |-> y, cur |-> cur, result |-> result, cells |-> cells]
WithX(r, v) == [r EXCEPT !.x = v]
WithY(r, v) == [r EXCEPT !.y = v]
WithCur(r, v) == [r EXCEPT !.cur = v]
WithCells(r, v) == [r EXCEPT !.cells = v]

LEMMA ReadField ==
  ASSUME NEW x, NEW y, NEW cur, NEW result, NEW cells, NEW new
  PROVE  /\ WithCells(ReadAs(x, y, cur, result, cells), new) = ReadAs(x, y, cur, result, new)
         /\ WithCur(ReadAs(x, y, cur, result, cells), new) = ReadAs(x, y, new, result, cells)
         /\ WithX(ReadAs(x, y, cur, result, cells), new) = ReadAs(new, y, cur, result, cells)
         /\ WithY(ReadAs(x, y, cur, result, cells), new) = ReadAs(x, new, cur, result, cells)
<1>1. WithCells(ReadAs(x, y, cur, result, cells), new) = ReadAs(x, y, cur, result, new)
  BY DEF ReadAs, WithCells
<1>2. WithCur(ReadAs(x, y, cur, result, cells), new) = ReadAs(x, y, new, result, cells)
  BY DEF ReadAs, WithCur
<1>3. WithX(ReadAs(x, y, cur, result, cells), new) = ReadAs(new, y, cur, result, cells)
  BY DEF ReadAs, WithX
<1>4. WithY(ReadAs(x, y, cur, result, cells), new) = ReadAs(x, new, cur, result, cells)
  BY DEF ReadAs, WithY
<1> QED
  BY <1>1, <1>2, <1>3, <1>4

(* What the reader does with a run of empty cells, a slash, or another token.     *)
EmptyRun(r, token) ==
  WithY(WithCur(WithCells(r, [c \in Coord |-> IF c \in r.cur..(r.cur - token - 1) THEN EmptyCell
                                              ELSE r.cells[c]]),
                r.cur - token), r.y - token)
NextRow(r) == WithY(WithX(r, r.x + 1), 0)
PutPiece(r, token) == WithY(WithCur(WithCells(r, [r.cells EXCEPT ![r.cur] = token]), r.cur + 1), r.y + 1)
Complain(r, result) == [r EXCEPT !.result = result]

LEMMA ReadCellCases ==
  ASSUME NEW r, NEW token
  PROVE  /\ r.result # "Ok" => ReadCell(r, token) = r
         /\ r.result = "Ok" /\ token \in -8..-1 =>
              ReadCell(r, token) = IF r.y - token > 8 THEN Complain(r, "BoardRowOverflow")
                                   ELSE EmptyRun(r, token)
         /\ r.result = "Ok" /\ token = Slash =>
              ReadCell(r, token) = IF r.y # 8 THEN Complain(r, "BoardRowUnderflow")
                                   ELSE IF r.x = 7 THEN Complain(r, "BoardTooManyRows")
                                   ELSE NextRow(r)
         /\ r.result = "Ok" /\ token \notin -8..-1 /\ token # Slash =>
              /\ r.y = 8 => ReadCell(r, token) = Complain(r, "BoardRowOverflow")
              /\ r.y < 8 /\ r.y \in Int /\ token = Junk =>
                   ReadCell(r, token) = Complain(r, "UnexpectedCharacter")
              /\ r.y # 8 /\ ~(r.y < 8 /\ token = Junk) => ReadCell(r, token) = PutPiece(r, token)
<1>1. Slash \notin -8..-1
  BY DEF Slash
<1>2. r.result # "Ok" => ReadCell(r, token) = r
  BY DEF ReadCell
<1>3. r.result = "Ok" /\ token \in -8..-1 =>
        ReadCell(r, token) = IF r.y - token > 8 THEN Complain(r, "BoardRowOverflow")
                             ELSE EmptyRun(r, token)
  BY <1>1, Zenon DEF ReadCell, Complain, EmptyRun, WithY, WithCur, WithCells
<1>4. r.result = "Ok" /\ token = Slash =>
        ReadCell(r, token) = IF r.y # 8 THEN Complain(r, "BoardRowUnderflow")
                             ELSE IF r.x = 7 THEN Complain(r, "BoardTooManyRows")
                             ELSE NextRow(r)
  BY <1>1, Zenon DEF ReadCell, Complain, NextRow, WithX, WithY
<1>5. r.result = "Ok" /\ token \notin -8..-1 /\ token # Slash =>
        /\ r.y = 8 => ReadCell(r, token) = Complain(r, "BoardRowOverflow")
        /\ r.y < 8 /\ r.y \in Int /\ token = Junk =>
             ReadCell(r, token) = Complain(r, "UnexpectedCharacter")
        /\ r.y # 8 /\ ~(r.y < 8 /\ token = Junk) => ReadCell(r, token) = PutPiece(r, token)
  <2>1. SUFFICES ASSUME r.result = "Ok", token \notin -8..-1, token # Slash
                 PROVE  /\ r.y = 8 => ReadCell(r, token) = Complain(r, "BoardRowOverflow")
                        /\ r.y < 8 /\ r.y \in Int /\ token = Junk =>
                             ReadCell(r, token) = Complain(r, "UnexpectedCharacter")
                        /\ r.y # 8 /\ ~(r.y < 8 /\ token = Junk) =>
                             ReadCell(r, token) = PutPiece(r, token)
    OBVIOUS
  <2> DEFINE y == r.y
             over == Complain(r, "BoardRowOverflow")
             junk == Complain(r, "UnexpectedCharacter")
             put == PutPiece(r, token)
  <2>2. ReadCell(r, token) = CASE y = 8 -> over [] y < 8 /\ token = Junk -> junk [] OTHER -> put
    BY <2>1, Zenon DEF ReadCell, Complain, PutPiece, WithY, WithCur, WithCells
  <2> HIDE DEF y, over, junk, put
  <2>3. ~(8 < 8)
    OBVIOUS
  <2>4. y = 8 => ReadCell(r, token) = over
    BY <2>2, <2>3
  <2>5. y < 8 /\ y \in Int /\ token = Junk => ReadCell(r, token) = junk
    BY <2>2
  <2>6. y # 8 /\ ~(y < 8 /\ token = Junk) => ReadCell(r, token) = put
    BY <2>2
  <2> QED
    BY <2>4, <2>5, <2>6 DEF y, over, junk, put
<1> QED
  BY <1>2, <1>3, <1>4, <1>5

LEMMA ReadStates ==
  ASSUME NEW r \in ReadState, NEW v \in Int, NEW cells \in [Coord -> Int]
  PROVE  /\ WithX(r, v) \in ReadState /\ WithY(r, v) \in ReadState /\ WithCur(r, v) \in ReadState
         /\ WithCells(r, cells) \in ReadState
BY DEF ReadState, WithX, WithY, WithCur, WithCells

LEMMA ReadCellType ==
  ASSUME NEW r \in ReadState, NEW token \in Int
  PROVE  ReadCell(r, token) \in ReadState
<1>1. \A z \in Complaints : Complain(r, z) \in ReadState
  BY DEF Complain, ReadState
<1> DEFINE emptied == [c \in Coord |-> IF c \in r.cur..(r.cur - token - 1) THEN EmptyCell
                                       ELSE r.cells[c]]
           put == [r.cells EXCEPT ![r.cur] = token]
<1>2. emptied \in [Coord -> Int] /\ put \in [Coord -> Int]
  <2>1. r.cells \in [Coord -> Int] /\ EmptyCell \in Int
    BY DEF ReadState, EmptyCell
  <2> QED
    BY <2>1
<1>3. r.x + 1 \in Int /\ r.y + 1 \in Int /\ r.y - token \in Int /\ r.cur + 1 \in Int
      /\ r.cur - token \in Int /\ 0 \in Int
  BY DEF ReadState
<1>4. NextRow(r) \in ReadState /\ PutPiece(r, token) \in ReadState /\ EmptyRun(r, token) \in ReadState
  <2> HIDE DEF emptied, put
  <2>1. /\ WithY(WithX(r, r.x + 1), 0) \in ReadState
        /\ WithY(WithCur(WithCells(r, put), r.cur + 1), r.y + 1) \in ReadState
        /\ WithY(WithCur(WithCells(r, emptied), r.cur - token), r.y - token) \in ReadState
    BY <1>2, <1>3, ReadStates
  <2> QED
    BY <2>1, Zenon DEF NextRow, PutPiece, EmptyRun, emptied, put
<1>5. r.y \in Int
  BY DEF ReadState
<1>6. CASE r.result # "Ok"
  BY <1>6, ReadCellCases
<1>7. CASE r.result = "Ok" /\ token \in -8..-1
  BY <1>1, <1>4, <1>7, ReadCellCases DEF Complaints
<1>8. CASE r.result = "Ok" /\ token = Slash
  BY <1>1, <1>4, <1>8, ReadCellCases DEF Complaints
<1>9. CASE r.result = "Ok" /\ token \notin -8..-1 /\ token # Slash
  BY <1>1, <1>4, <1>5, <1>9, ReadCellCases DEF Complaints
<1> QED
  BY <1>6, <1>7, <1>8, <1>9

LEMMA ReadsRun ==
  ASSUME NEW tokens \in Seq(Int)
  PROVE  \E run : /\ run[0] = NewRead
                  /\ \A k \in 1..Len(tokens) : run[k] = ReadCell(run[k - 1], tokens[k])
                  /\ Reads(tokens) = run[Len(tokens)]
<1> DEFINE n == Len(tokens)
           S == DOMAIN tokens
           IsFold(g) == g = [s \in SUBSET S |->
                               IF s = {} THEN NewRead
                               ELSE ReadCell(g[s \ {Max(s)}], tokens[Max(s)])]
           iter == CHOOSE g : IsFold(g)
           F == [t \in ReadState \X (1..n) |-> ReadCell(t[1], tokens[t[2]])]
<1>1. Reads(tokens) = iter[S]
  BY DEF Reads, FoldLeft, MapThenFoldSet
<1>2. n \in Nat /\ S = 1..n
  OBVIOUS
<1>3. NewRead \in ReadState
  <2>1. [c \in Coord |-> EmptyCell] \in [Coord -> Int]
    BY DEF EmptyCell
  <2> QED
    BY <2>1 DEF NewRead, ReadState
<1>4. F \in [ReadState \X (1..n) -> ReadState]
  BY ReadCellType
<1>5. PICK g : Folded(g, ReadState, NewRead, F, n, n)
  <2> HIDE DEF F
  <2> QED
    BY <1>2, <1>3, <1>4, FoldExists
<1>6. IsFold(g)
  <2>1. ASSUME NEW s \in SUBSET S, s # {}
        PROVE  g[s] = ReadCell(g[s \ {Max(s)}], tokens[Max(s)])
    <3>1. g[s] = F[<<g[s \ {Max(s)}], Max(s)>>]
      BY <1>2, <1>5, <2>1 DEF Folded
    <3>2. Max(s) \in 1..n /\ g[s \ {Max(s)}] \in ReadState
      BY <1>2, <1>5, <2>1, GreatestOf DEF Folded
    <3> QED
      BY <3>1, <3>2
  <2> QED
    BY <1>2, <1>5, <2>1 DEF Folded
<1>7. IsFold(iter)
  BY <1>6
<1> HIDE DEF iter
<1> DEFINE run == [k \in 0..n |-> iter[1..k]]
<1>8. iter[{}] = NewRead
  BY <1>7
<1>9. ASSUME NEW k \in 1..n PROVE run[k] = ReadCell(run[k - 1], tokens[k])
  <2>1. /\ 1..k \in SUBSET S /\ 1..k # {} /\ Max(1..k) = k /\ (1..k) \ {k} = 1..(k - 1)
    BY <1>2, InitialSets
  <2>2. iter[1..k] = ReadCell(iter[(1..k) \ {Max(1..k)}], tokens[Max(1..k)])
    BY <1>7, <2>1
  <2>3. run[k] = iter[1..k] /\ run[k - 1] = iter[1..(k - 1)]
    BY <1>2
  <2> QED
    BY <2>1, <2>2, <2>3
<1>10. run[0] = NewRead /\ run[n] = iter[S]
  BY <1>2, <1>8
<1> QED
  BY <1>1, <1>9, <1>10

(* Token after token.                                                             *)
LEMMA ReadsFacts ==
  /\ Reads(<<>>) = NewRead
  /\ \A tokens \in Seq(Int) : Reads(tokens) \in ReadState
  /\ \A tokens \in Seq(Int), t \in Int : Reads(Append(tokens, t)) = ReadCell(Reads(tokens), t)
<1>1. Reads(<<>>) = NewRead
  <2>1. <<>> \in Seq(Int) /\ Len(<<>>) = 0
    OBVIOUS
  <2> QED
    BY <2>1, ReadsRun
<1>2. NewRead \in ReadState
  <2>1. [c \in Coord |-> EmptyCell] \in [Coord -> Int]
    BY DEF EmptyCell
  <2> QED
    BY <2>1 DEF NewRead, ReadState
<1>3. ASSUME NEW tokens \in Seq(Int) PROVE Reads(tokens) \in ReadState
  <2> DEFINE n == Len(tokens)
  <2>1. PICK run : /\ run[0] = NewRead
                   /\ \A k \in 1..n : run[k] = ReadCell(run[k - 1], tokens[k])
                   /\ Reads(tokens) = run[n]
    BY ReadsRun
  <2> DEFINE P == {k \in 0..n : run[k] \in ReadState}
  <2>2. n \in Nat
    OBVIOUS
  <2>3. 0 \in P
    BY <1>2, <2>1, <2>2
  <2>4. \A k \in 1..n : k - 1 \in P => k \in P
    <3>1. ASSUME NEW k \in 1..n, k - 1 \in P PROVE k \in P
      <4>1. run[k - 1] \in ReadState /\ tokens[k] \in Int
        BY <3>1
      <4>2. run[k] \in ReadState
        BY <2>1, <4>1, ReadCellType
      <4> QED
        BY <2>2, <4>2
    <3> QED
      BY <3>1
  <2>5. n \in P
    <3> HIDE DEF P
    <3>1. \A k \in 0..n : k \in P
      BY <2>2, <2>3, <2>4, CountUp
    <3> QED
      BY <2>2, <3>1
  <2> QED
    BY <2>1, <2>5
<1>4. ASSUME NEW tokens \in Seq(Int), NEW t \in Int
      PROVE  Reads(Append(tokens, t)) = ReadCell(Reads(tokens), t)
  <2> DEFINE n == Len(tokens)
             more == Append(tokens, t)
  <2>1. PICK run : /\ run[0] = NewRead
                   /\ \A k \in 1..n : run[k] = ReadCell(run[k - 1], tokens[k])
                   /\ Reads(tokens) = run[n]
    BY ReadsRun
  <2>2. /\ n \in Nat /\ more \in Seq(Int) /\ Len(more) = n + 1 /\ more[n + 1] = t
        /\ \A k \in 1..n : more[k] = tokens[k]
    OBVIOUS
  <2> HIDE DEF more
  <2>3. PICK then : /\ then[0] = NewRead
                    /\ \A k \in 1..(n + 1) : then[k] = ReadCell(then[k - 1], more[k])
                    /\ Reads(more) = then[n + 1]
    BY <2>2, ReadsRun
  <2> DEFINE P == {k \in 0..n : run[k] = then[k]}
  <2>4. 0 \in P
    BY <2>1, <2>2, <2>3
  <2>5. \A k \in 1..n : k - 1 \in P => k \in P
    <3>1. ASSUME NEW k \in 1..n, k - 1 \in P PROVE k \in P
      <4>1. run[k - 1] = then[k - 1] /\ more[k] = tokens[k] /\ k \in 1..(n + 1)
        BY <2>2, <3>1
      <4>2. run[k] = then[k]
        BY <2>1, <2>3, <4>1
      <4> QED
        BY <2>2, <4>2
    <3> QED
      BY <3>1
  <2>6. n \in P
    <3> HIDE DEF P
    <3>1. \A k \in 0..n : k \in P
      BY <2>2, <2>4, <2>5, CountUp
    <3> QED
      BY <2>2, <3>1
  <2>7. then[n + 1] = ReadCell(then[n], t)
    <3>1. n + 1 \in 1..(n + 1) /\ (n + 1) - 1 = n
      BY <2>2
    <3> QED
      BY <2>2, <2>3, <3>1
  <2> QED
    BY <2>1, <2>3, <2>6, <2>7 DEF more
<1> QED
  BY <1>1, <1>3, <1>4

-----------------------------------------------------------------------------
(* Writing the cells of a FEN *)

RowState == [empty : Int, text : Seq(Int)]
PutCell(cells, x, row, y) ==
  IF cells[MakeCoord(x, y)] = EmptyCell
  THEN [row EXCEPT !.empty = @ + 1]
  ELSE [empty |-> 0, text |-> Append(FlushEmpty(row), cells[MakeCoord(x, y)])]
NewRow == [empty |-> 0, text |-> <<>>]

LEMMA RowStates ==
  ASSUME NEW row \in RowState
  PROVE  /\ row.empty \in Int /\ row.text \in Seq(Int) /\ FlushEmpty(row) \in Seq(Int)
         /\ \A cells \in Cells, x \in Subcoord, y \in Subcoord : PutCell(cells, x, row, y) \in RowState
<1>1. row.empty \in Int /\ row.text \in Seq(Int)
  BY DEF RowState
<1>2. FlushEmpty(row) \in Seq(Int)
  <2>1. -row.empty \in Int
    BY <1>1
  <2> QED
    BY <1>1, <2>1 DEF FlushEmpty
<1>3. ASSUME NEW cells \in Cells, NEW x \in Subcoord, NEW y \in Subcoord
      PROVE  PutCell(cells, x, row, y) \in RowState
  <2>1. cells[MakeCoord(x, y)] \in Int
    BY DEF Cells, Cell, EmptyCell, MakeCoord, Coord, Subcoord
  <2>2. [row EXCEPT !.empty = @ + 1] \in RowState
    <3>1. row.empty + 1 \in Int
      BY <1>1
    <3> QED
      BY <3>1 DEF RowState
  <2>3. Append(FlushEmpty(row), cells[MakeCoord(x, y)]) \in Seq(Int)
    BY <1>2, <2>1
  <2> QED
    BY <2>2, <2>3 DEF PutCell, RowState
<1> QED
  BY <1>1, <1>2, <1>3

LEMMA RowRun ==
  ASSUME NEW cells \in Cells, NEW x \in Subcoord
  PROVE  \E run : /\ run[0] = NewRow
                  /\ \A k \in 1..8 : run[k] = PutCell(cells, x, run[k - 1], k - 1)
                  /\ RowAsFen(cells, x) = FlushEmpty(run[8])
<1> DEFINE ys == [y \in 1..8 |-> y - 1]
           S == DOMAIN ys
           put(row, y) ==
             IF cells[MakeCoord(x, y)] = EmptyCell
             THEN [row EXCEPT !.empty = @ + 1]
             ELSE [empty |-> 0, text |-> Append(FlushEmpty(row), cells[MakeCoord(x, y)])]
           IsFold(g) == g = [s \in SUBSET S |->
                               IF s = {} THEN [empty |-> 0, text |-> <<>>]
                               ELSE put(g[s \ {Max(s)}], ys[Max(s)])]
           iter == CHOOSE g : IsFold(g)
           F == [t \in RowState \X (1..8) |-> PutCell(cells, x, t[1], t[2] - 1)]
<1>1. RowAsFen(cells, x) = FlushEmpty(iter[S])
  BY DEF RowAsFen, FoldLeft, MapThenFoldSet
<1>2. 8 \in Nat /\ S = 1..8 /\ \A k \in 1..8 : ys[k] = k - 1 /\ ys[k] \in Subcoord
  BY DEF Subcoord
<1>3. NewRow \in RowState
  BY DEF NewRow, RowState
<1>4. \A row, y : put(row, y) = PutCell(cells, x, row, y)
  BY DEF PutCell
<1> HIDE DEF put, S, ys
<1>5. F \in [RowState \X (1..8) -> RowState]
  <2>1. \A t \in RowState \X (1..8) : t[1] \in RowState /\ t[2] - 1 \in Subcoord
    BY DEF Subcoord
  <2> QED
    BY <2>1, RowStates
<1>6. PICK g : Folded(g, RowState, NewRow, F, 8, 8)
  <2> HIDE DEF F
  <2> QED
    BY <1>3, <1>5, FoldExists
<1>7. IsFold(g)
  <2>1. ASSUME NEW s \in SUBSET S, s # {}
        PROVE  g[s] = put(g[s \ {Max(s)}], ys[Max(s)])
    <3>1. g[s] = F[<<g[s \ {Max(s)}], Max(s)>>]
      BY <1>2, <1>6, <2>1 DEF Folded
    <3>2. Max(s) \in 1..8 /\ g[s \ {Max(s)}] \in RowState
      BY <1>2, <1>6, <2>1, GreatestOf DEF Folded
    <3> QED
      BY <1>2, <1>4, <3>1, <3>2
  <2> QED
    BY <1>2, <1>6, <2>1 DEF Folded, NewRow
<1>8. IsFold(iter)
  BY <1>7
<1> HIDE DEF iter
<1> DEFINE run == [k \in 0..8 |-> iter[1..k]]
<1>9. iter[{}] = NewRow
  BY <1>8 DEF NewRow
<1>10. ASSUME NEW k \in 1..8 PROVE run[k] = PutCell(cells, x, run[k - 1], k - 1)
  <2>1. /\ 1..k \in SUBSET S /\ 1..k # {} /\ Max(1..k) = k /\ (1..k) \ {k} = 1..(k - 1)
    BY <1>2, InitialSets
  <2>2. iter[1..k] = put(iter[(1..k) \ {Max(1..k)}], ys[Max(1..k)])
    BY <1>8, <2>1
  <2>3. run[k] = iter[1..k] /\ run[k - 1] = iter[1..(k - 1)]
    OBVIOUS
  <2> QED
    BY <1>2, <1>4, <2>1, <2>2, <2>3
<1>11. run[0] = NewRow /\ run[8] = iter[S]
  BY <1>2, <1>9
<1> QED
  BY <1>1, <1>10, <1>11

LEMMA RowText ==
  ASSUME NEW cells \in Cells, NEW x \in Subcoord
  PROVE  RowAsFen(cells, x) \in Seq(Int)
<1>1. PICK run : /\ run[0] = NewRow
                 /\ \A k \in 1..8 : run[k] = PutCell(cells, x, run[k - 1], k - 1)
                 /\ RowAsFen(cells, x) = FlushEmpty(run[8])
  BY RowRun
<1> DEFINE P == {k \in 0..8 : run[k] \in RowState}
<1>2. 0 \in P
  <2>1. NewRow \in RowState
    BY DEF NewRow, RowState
  <2> QED
    BY <1>1, <2>1
<1>3. \A k \in 1..8 : k - 1 \in P => k \in P
  <2>1. ASSUME NEW k \in 1..8, k - 1 \in P PROVE k \in P
    <3>1. run[k - 1] \in RowState /\ k - 1 \in Subcoord
      BY <2>1 DEF Subcoord
    <3>2. run[k] \in RowState
      BY <1>1, <3>1, RowStates
    <3> QED
      BY <3>2
  <2> QED
    BY <2>1
<1>4. 8 \in P
  <2> HIDE DEF P
  <2>1. \A k \in 0..8 : k \in P
    BY <1>2, <1>3, CountUp
  <2> QED
    BY <2>1
<1> QED
  BY <1>1, <1>4, RowStates

LEMMA RowsRun ==
  ASSUME NEW cells \in Cells
  PROVE  \E run : /\ run[0] = RowAsFen(cells, 0)
                  /\ \A k \in 1..7 : run[k] = run[k - 1] \o <<Slash>> \o RowAsFen(cells, k)
                  /\ CellsAsFen(cells) = run[7]
<1> DEFINE xs == <<1, 2, 3, 4, 5, 6, 7>>
           S == DOMAIN xs
           base == RowAsFen(cells, 0)
           put(text, x) == text \o <<Slash>> \o RowAsFen(cells, x)
           IsFold(g) == g = [s \in SUBSET S |->
                               IF s = {} THEN RowAsFen(cells, 0)
                               ELSE g[s \ {Max(s)}] \o <<Slash>> \o RowAsFen(cells, xs[Max(s)])]
           iter == CHOOSE g : IsFold(g)
           F == [t \in Seq(Int) \X (1..7) |-> put(t[1], t[2])]
<1>1. CellsAsFen(cells) = iter[S]
  BY DEF CellsAsFen, FoldLeft, MapThenFoldSet
<1>2. 7 \in Nat /\ S = 1..7 /\ \A k \in 1..7 : xs[k] = k
  OBVIOUS
<1>3. base \in Seq(Int)
  BY RowText DEF Subcoord
<1> HIDE DEF S, xs
<1>4. F \in [Seq(Int) \X (1..7) -> Seq(Int)]
  <2>1. ASSUME NEW text \in Seq(Int), NEW x \in 1..7 PROVE put(text, x) \in Seq(Int)
    <3>1. RowAsFen(cells, x) \in Seq(Int) /\ <<Slash>> \in Seq(Int)
      BY RowText DEF Subcoord, Slash
    <3> QED
      BY <3>1
  <2> HIDE DEF put
  <2> QED
    BY <2>1
<1>5. PICK g : Folded(g, Seq(Int), base, F, 7, 7)
  <2> HIDE DEF F, base
  <2> QED
    BY <1>3, <1>4, FoldExists
<1>6. IsFold(g)
  <2>1. ASSUME NEW s \in SUBSET S, s # {}
        PROVE  g[s] = put(g[s \ {Max(s)}], xs[Max(s)])
    <3>1. g[s] = F[<<g[s \ {Max(s)}], Max(s)>>]
      BY <1>2, <1>5, <2>1 DEF Folded
    <3>2. Max(s) \in 1..7 /\ g[s \ {Max(s)}] \in Seq(Int)
      BY <1>2, <1>5, <2>1, GreatestOf DEF Folded
    <3> HIDE DEF put
    <3> QED
      BY <1>2, <3>1, <3>2
  <2> QED
    BY <1>2, <1>5, <2>1 DEF Folded
<1>7. IsFold(iter)
  BY <1>6
<1> HIDE DEF iter
<1> DEFINE run == [k \in 0..7 |-> iter[1..k]]
<1>8. iter[{}] = base
  BY <1>7
<1>9. ASSUME NEW k \in 1..7 PROVE run[k] = put(run[k - 1], k)
  <2>1. /\ 1..k \in SUBSET S /\ 1..k # {} /\ Max(1..k) = k /\ (1..k) \ {k} = 1..(k - 1)
    BY <1>2, InitialSets
  <2>2. iter[1..k] = put(iter[(1..k) \ {Max(1..k)}], xs[Max(1..k)])
    BY <1>7, <2>1
  <2>3. run[k] = iter[1..k] /\ run[k - 1] = iter[1..(k - 1)]
    OBVIOUS
  <2> HIDE DEF put
  <2> QED
    BY <1>2, <2>1, <2>2, <2>3
<1>10. run[0] = base /\ run[7] = iter[S]
  BY <1>2, <1>8
<1> QED
  BY <1>1, <1>9, <1>10

-----------------------------------------------------------------------------
(* A position written and read back *)

(* The reader before column y of row x, all cells before it read.                 *)
ReadTo(cells, x, y) ==
  ReadAs(x, y, 8 * x + y, "Ok", [c \in Coord |-> IF c < 8 * x + y THEN cells[c] ELSE EmptyCell])

LEMMA ReadToFields ==
  ASSUME NEW cells, NEW x, NEW y
  PROVE  LET r == ReadTo(cells, x, y) IN r.result = "Ok" /\ r.y = y /\ r.x = x
<1> DEFINE read == [c \in Coord |-> IF c < 8 * x + y THEN cells[c] ELSE EmptyCell]
           cur == 8 * x + y
<1>1. ReadTo(cells, x, y) = ReadAs(x, y, cur, "Ok", read)
  BY DEF ReadTo
<1> HIDE DEF read, cur
<1> QED
  BY <1>1 DEF ReadAs

LEMMA CellTokens ==
  ASSUME NEW v \in Cell
  PROVE  v \in Int /\ v \notin -8..-1 /\ (v # EmptyCell => v # Slash) /\ v # Junk
<1>1. v \in Int /\ 0 <= v /\ v < 99
  BY DEF Cell, EmptyCell
<1> QED
  BY <1>1 DEF EmptyCell, Slash, Junk

(* A row being written, of which k cells are done.                                *)
RowReads(cells, x, prefix, row, k) ==
  /\ row \in RowState /\ row.empty \in 0..k
  /\ \A c \in Coord : 8 * x + k - row.empty <= c /\ c < 8 * x + k => cells[c] = EmptyCell
  /\ Reads(prefix \o row.text) = ReadTo(cells, x, k - row.empty)

LEMMA Appended ==
  ASSUME NEW s \in Seq(Int), NEW t \in Seq(Int), NEW e \in Int
  PROVE  s \o Append(t, e) = Append(s \o t, e) /\ s \o t \in Seq(Int)
OBVIOUS

LEMMA FlushReads ==
  ASSUME NEW cells \in Cells, NEW x \in Subcoord, NEW prefix \in Seq(Int), NEW k \in 0..8,
         NEW row, RowReads(cells, x, prefix, row, k)
  PROVE  Reads(prefix \o FlushEmpty(row)) = ReadTo(cells, x, k)
<1>1. /\ row.empty \in 0..k /\ row.empty \in Int /\ row.text \in Seq(Int)
      /\ Reads(prefix \o row.text) = ReadTo(cells, x, k - row.empty)
  BY RowStates DEF RowReads
<1>2. CASE row.empty = 0
  BY <1>1, <1>2 DEF FlushEmpty
<1>3. CASE row.empty # 0
  <2> DEFINE n == row.empty
             y == k - n
             r == ReadTo(cells, x, y)
             text == row.text
  <2>1. n \in 1..8 /\ -n \in -8..-1 /\ -n \in Int /\ y \in 0..8 /\ y + n = k
    <3>1. n \in 0..k /\ n # 0
      BY <1>1, <1>3
    <3> HIDE DEF n
    <3> QED
      BY <3>1
  <2>2. FlushEmpty(row) = Append(text, -n)
    BY <1>3 DEF FlushEmpty
  <2>3. \A c \in Coord : 8 * x + y <= c /\ c < 8 * x + k => cells[c] = EmptyCell
    BY <1>1, <2>1 DEF RowReads
  <2> HIDE DEF n, text, y
  <2>4. prefix \o Append(text, -n) = Append(prefix \o text, -n) /\ prefix \o text \in Seq(Int)
    BY <1>1, <2>1, Appended DEF text
  <2>5. Reads(prefix \o FlushEmpty(row)) = ReadCell(r, -n)
    BY <1>1, <2>1, <2>2, <2>4, ReadsFacts DEF n, text, y
  <2>6. r.result = "Ok" /\ r.y = y /\ r.cur = 8 * x + y /\ r.x = x
    BY DEF ReadTo, ReadAs
  <2>7. ~(r.y - (-n) > 8)
    BY <2>1, <2>6
  <2>8. ReadCell(r, -n) = EmptyRun(r, -n)
    BY <2>1, <2>6, <2>7, ReadCellCases
  <2>9. EmptyRun(r, -n) = ReadTo(cells, x, k)
    <3> DEFINE new == [c \in Coord |-> IF c \in r.cur..(r.cur - (-n) - 1) THEN EmptyCell
                                       ELSE r.cells[c]]
               all == [c \in Coord |-> IF c < 8 * x + k THEN cells[c] ELSE EmptyCell]
    <3>1. ASSUME NEW c \in Coord PROVE new[c] = all[c]
      <4>1. /\ x \in Int /\ c \in Int /\ y \in Int /\ n \in Int /\ k \in Int /\ y + n = k
            /\ r.cur = 8 * x + y /\ 0 <= n
        BY <2>1, <2>6 DEF Coord, Subcoord
      <4>2. r.cells[c] = IF c < 8 * x + y THEN cells[c] ELSE EmptyCell
        BY DEF ReadTo, ReadAs
      <4>3. c \in r.cur..(r.cur - (-n) - 1) <=> 8 * x + y <= c /\ c < 8 * x + k
        BY <4>1
      <4>4. c < 8 * x + y => c < 8 * x + k
        BY <4>1
      <4>5. c < 8 * x + y \/ 8 * x + y <= c
        BY <4>1
      <4>6. new[c] = (IF c \in r.cur..(r.cur - (-n) - 1) THEN EmptyCell ELSE r.cells[c])
        BY DEF new
      <4>7. all[c] = (IF c < 8 * x + k THEN cells[c] ELSE EmptyCell)
        BY DEF all
      <4>8. c < 8 * x + y => ~(8 * x + y <= c)
        BY <4>1
      <4> HIDE DEF new, all, r
      <4> QED
        BY <2>3, <4>2, <4>3, <4>4, <4>5, <4>6, <4>7, <4>8
    <3>2. new = all
      BY <3>1
    <3>3. r.cur - (-n) = 8 * x + k /\ r.y - (-n) = k
      BY <2>1, <2>6 DEF Subcoord
    <3> HIDE DEF new, all
    <3>4. EmptyRun(r, -n) = WithY(WithCur(WithCells(r, all), 8 * x + k), k)
      BY <3>2, <3>3 DEF EmptyRun, new
    <3>5. WithY(WithCur(WithCells(r, all), 8 * x + k), k)
            = ReadAs(x, k, 8 * x + k, "Ok", all)
      <4> DEFINE cur == 8 * x + k
                 old == [c \in Coord |-> IF c < 8 * x + y THEN cells[c] ELSE EmptyCell]
      <4>1. r = ReadAs(x, y, 8 * x + y, "Ok", old)
        BY DEF ReadTo
      <4> HIDE DEF r, old, all
      <4> QED
        BY <4>1, ReadField
    <3> QED
      BY <3>4, <3>5 DEF ReadTo, all
  <2> QED
    BY <2>5, <2>8, <2>9
<1> QED
  BY <1>2, <1>3

LEMMA PieceReads ==
  ASSUME NEW cells \in Cells, NEW x \in Subcoord, NEW y \in Subcoord,
         cells[MakeCoord(x, y)] # EmptyCell
  PROVE  ReadCell(ReadTo(cells, x, y), cells[MakeCoord(x, y)]) = ReadTo(cells, x, y + 1)
<1> DEFINE r == ReadTo(cells, x, y)
           token == cells[MakeCoord(x, y)]
           cur == 8 * x + y
           old == [c \in Coord |-> IF c < cur THEN cells[c] ELSE EmptyCell]
           all == [c \in Coord |-> IF c < cur + 1 THEN cells[c] ELSE EmptyCell]
<1>1. cur \in Coord /\ token = cells[cur] /\ cur + 1 = 8 * x + (y + 1) /\ y \in 0..7
  BY DEF Coord, Subcoord, MakeCoord
<1>2. token \notin -8..-1 /\ token # Slash /\ token # Junk
  <2>1. token \in Cell
    BY <1>1 DEF Cells
  <2>2. token # EmptyCell
    OBVIOUS
  <2> HIDE DEF token
  <2> QED
    BY <2>1, <2>2, CellTokens
<1>3. r = ReadAs(x, y, cur, "Ok", old)
  BY DEF ReadTo
<1>4. r.y # 8 /\ r.result = "Ok"
  BY <1>1, <1>3 DEF ReadAs
<1>5. ReadCell(r, token) = PutPiece(r, token)
  <2> HIDE DEF r, token
  <2> QED
    BY <1>2, <1>4, ReadCellCases
<1>6. [old EXCEPT ![cur] = token] = all
  <2>1. ASSUME NEW c \in Coord PROVE [old EXCEPT ![cur] = token][c] = all[c]
    <3>1. c = cur => all[c] = token /\ [old EXCEPT ![cur] = token][c] = token
      <4>1. cur < cur + 1
        BY <1>1 DEF Coord
      <4> QED
        BY <1>1, <4>1
    <3>2. c # cur => (c < cur <=> c < cur + 1)
      <4> HIDE DEF cur
      <4> QED
        BY <1>1 DEF Coord
    <3>3. c # cur => [old EXCEPT ![cur] = token][c] = old[c]
      OBVIOUS
    <3>4. old[c] = (IF c < cur THEN cells[c] ELSE EmptyCell)
          /\ all[c] = (IF c < cur + 1 THEN cells[c] ELSE EmptyCell)
      OBVIOUS
    <3> HIDE DEF old, all, cur, token
    <3> QED
      BY <3>1, <3>2, <3>3, <3>4
  <2> DEFINE new == [old EXCEPT ![cur] = token]
  <2>2. new = [c \in Coord |-> new[c]] /\ all = [c \in Coord |-> all[c]]
    OBVIOUS
  <2> HIDE DEF new, all
  <2> QED
    BY <2>1, <2>2 DEF new
<1>7. PutPiece(r, token) = ReadAs(x, y + 1, cur + 1, "Ok", all)
  <2> HIDE DEF r, token, cur, old, all
  <2>1. r.cells = old /\ r.cur = cur /\ r.y = y
    BY <1>3 DEF ReadAs
  <2>2. PutPiece(r, token) = WithY(WithCur(WithCells(r, [old EXCEPT ![cur] = token]), cur + 1), y + 1)
    BY <2>1 DEF PutPiece
  <2>3. PutPiece(r, token) = WithY(WithCur(WithCells(r, all), cur + 1), y + 1)
    BY <1>6, <2>2
  <2> QED
    BY <1>3, <2>3, ReadField
<1> QED
  BY <1>1, <1>5, <1>7 DEF ReadTo, all

LEMMA RowReadsOn ==
  ASSUME NEW cells \in Cells, NEW x \in Subcoord, NEW prefix \in Seq(Int), NEW k \in 1..8,
         NEW row, RowReads(cells, x, prefix, row, k - 1)
  PROVE  RowReads(cells, x, prefix, PutCell(cells, x, row, k - 1), k)
<1> DEFINE y == k - 1
           token == cells[MakeCoord(x, y)]
           new == PutCell(cells, x, row, y)
<1>1. /\ row.empty \in 0..y /\ row.empty \in Int /\ row.text \in Seq(Int)
      /\ FlushEmpty(row) \in Seq(Int) /\ y \in Subcoord /\ y \in 0..8 /\ row \in RowState
      /\ Reads(prefix \o row.text) = ReadTo(cells, x, y - row.empty)
  BY RowStates DEF RowReads, Subcoord
<1>2. new \in RowState
  BY <1>1, RowStates
<1>3. MakeCoord(x, y) = 8 * x + y /\ 8 * x + y \in Coord /\ x \in Int
  BY <1>1 DEF MakeCoord, Coord, Subcoord
<1>4. CASE token = EmptyCell
  <2>1. new = [row EXCEPT !.empty = @ + 1]
    BY <1>4 DEF PutCell
  <2>2. new.empty = row.empty + 1 /\ new.text = row.text
    BY <1>1, <2>1 DEF RowState
  <2>3. k - new.empty = y - row.empty /\ new.empty \in 0..k
    <3> DEFINE e == row.empty
    <3>1. e \in 0..(k - 1)
      BY <1>1
    <3> HIDE DEF e
    <3>2. k - (e + 1) = (k - 1) - e /\ e + 1 \in 0..k
      BY <3>1
    <3> QED
      BY <2>2, <3>2 DEF e
  <2>4. ASSUME NEW c \in Coord, 8 * x + k - new.empty <= c, c < 8 * x + k
        PROVE  cells[c] = EmptyCell
    <3>1. c = 8 * x + y \/ (8 * x + y - row.empty <= c /\ c < 8 * x + y)
      <4>1. \A a, n, e, v \in Int : a + (n - (e + 1)) <= v /\ v < a + n =>
              v = a + (n - 1) \/ (a + ((n - 1) - e) <= v /\ v < a + (n - 1))
        OBVIOUS
      <4> DEFINE e == row.empty
                 a == 8 * x
      <4>2. a \in Int /\ e \in Int /\ k \in Int /\ c \in Int
        BY <1>1, <1>3 DEF Coord
      <4>3. a + (k - (e + 1)) <= c /\ c < a + k
        BY <2>2, <2>4
      <4> HIDE DEF e, a
      <4>4. c = a + (k - 1) \/ (a + ((k - 1) - e) <= c /\ c < a + (k - 1))
        BY <4>1, <4>2, <4>3
      <4> QED
        BY <4>4, Zenon DEF e, a
    <3> QED
      BY <1>3, <1>4, <3>1 DEF RowReads
  <2>5. Reads(prefix \o new.text) = ReadTo(cells, x, k - new.empty)
    BY <1>1, <2>2, <2>3
  <2> HIDE DEF new
  <2>6. RowReads(cells, x, prefix, new, k)
    BY <1>2, <2>3, <2>4, <2>5 DEF RowReads
  <2> QED
    BY <2>6 DEF new
<1>5. CASE token # EmptyCell
  <2>1. new = [empty |-> 0, text |-> Append(FlushEmpty(row), token)]
    BY <1>5 DEF PutCell
  <2>2. token \in Int
    BY <1>3 DEF Cells, Cell, EmptyCell
  <2>3. Reads(prefix \o FlushEmpty(row)) = ReadTo(cells, x, y)
    BY <1>1, FlushReads
  <2>4. prefix \o new.text = Append(prefix \o FlushEmpty(row), token)
        /\ prefix \o FlushEmpty(row) \in Seq(Int)
    <3>1. new.text = Append(FlushEmpty(row), token)
      BY <2>1
    <3> DEFINE flushed == FlushEmpty(row)
    <3>2. flushed \in Seq(Int) /\ new.text = Append(flushed, token)
      BY <1>1, <3>1
    <3> HIDE DEF new, token, flushed
    <3>3. prefix \o Append(flushed, token) = Append(prefix \o flushed, token)
          /\ prefix \o flushed \in Seq(Int)
      BY <2>2, <3>2, Appended
    <3> QED
      BY <3>2, <3>3 DEF flushed
  <2>5. Reads(prefix \o new.text) = ReadTo(cells, x, y + 1)
    <3> DEFINE text == prefix \o FlushEmpty(row)
    <3>1. ReadCell(ReadTo(cells, x, y), token) = ReadTo(cells, x, y + 1)
      BY <1>1, <1>5, PieceReads
    <3> HIDE DEF text, new, token, y
    <3>2. text \in Seq(Int) /\ prefix \o new.text = Append(text, token)
      BY <2>4 DEF text
    <3>3. Reads(Append(text, token)) = ReadCell(Reads(text), token)
      BY <2>2, <3>2, ReadsFacts
    <3> QED
      BY <2>3, <3>1, <3>2, <3>3 DEF text
  <2>6. new.empty = 0
    BY <2>1
  <2>7. k - new.empty = y + 1 /\ new.empty \in 0..k
    BY <2>6
  <2>8. \A c \in Coord : ~(8 * x + k - new.empty <= c /\ c < 8 * x + k)
    BY <1>3, <2>6 DEF Coord
  <2> HIDE DEF new
  <2>9. RowReads(cells, x, prefix, new, k)
    BY <1>2, <2>5, <2>7, <2>8 DEF RowReads
  <2> QED
    BY <2>9 DEF new
<1> QED
  BY <1>4, <1>5

LEMMA RowReadsBack ==
  ASSUME NEW cells \in Cells, NEW x \in Subcoord, NEW prefix \in Seq(Int),
         Reads(prefix) = ReadTo(cells, x, 0)
  PROVE  Reads(prefix \o RowAsFen(cells, x)) = ReadTo(cells, x, 8)
<1>1. PICK run : /\ run[0] = NewRow
                 /\ \A k \in 1..8 : run[k] = PutCell(cells, x, run[k - 1], k - 1)
                 /\ RowAsFen(cells, x) = FlushEmpty(run[8])
  BY RowRun
<1> DEFINE P == {k \in 0..8 : RowReads(cells, x, prefix, run[k], k)}
<1>2. 0 \in P
  <2>1. NewRow \in RowState /\ NewRow.empty = 0 /\ NewRow.text = <<>>
    BY DEF NewRow, RowState
  <2>2. prefix \o <<>> = prefix
    OBVIOUS
  <2>3. \A c \in Coord : ~(8 * x + 0 - 0 <= c /\ c < 8 * x + 0)
    BY DEF Coord, Subcoord
  <2>4. 0 - 0 = 0 /\ 0 \in 0..0 /\ 0 \in 0..8
    OBVIOUS
  <2>5. RowReads(cells, x, prefix, NewRow, 0)
    BY <2>1, <2>2, <2>3, <2>4 DEF RowReads
  <2> QED
    BY <1>1, <2>4, <2>5
<1>3. \A k \in 1..8 : k - 1 \in P => k \in P
  BY <1>1, RowReadsOn
<1>4. 8 \in P
  <2> HIDE DEF P
  <2>1. \A k \in 0..8 : k \in P
    BY <1>2, <1>3, CountUp
  <2> QED
    BY <2>1
<1> QED
  BY <1>1, <1>4, FlushReads

LEMMA CellsReadBack ==
  ASSUME NEW cells \in Cells
  PROVE  /\ CellsAsFen(cells) \in Seq(Int)
         /\ ReadCells(CellsAsFen(cells)) = ReadTo(cells, 7, 8)
         /\ ReadTo(cells, 7, 8).cells = cells
<1>1. PICK run : /\ run[0] = RowAsFen(cells, 0)
                 /\ \A k \in 1..7 : run[k] = run[k - 1] \o <<Slash>> \o RowAsFen(cells, k)
                 /\ CellsAsFen(cells) = run[7]
  BY RowsRun
<1> DEFINE P == {k \in 0..7 : run[k] \in Seq(Int) /\ Reads(run[k]) = ReadTo(cells, k, 8)}
<1>2. 0 \in P
  <2>1. Reads(<<>>) = ReadTo(cells, 0, 0)
    <3>1. \A c \in Coord : ~(c < 8 * 0 + 0)
      BY DEF Coord
    <3>2. [c \in Coord |-> IF c < 8 * 0 + 0 THEN cells[c] ELSE EmptyCell] = [c \in Coord |-> EmptyCell]
      BY <3>1
    <3>3. 8 * 0 + 0 = 0
      OBVIOUS
    <3> QED
      BY <3>2, <3>3, ReadsFacts DEF ReadTo, ReadAs, NewRead
  <2>2. 0 \in Subcoord /\ <<>> \in Seq(Int) /\ RowAsFen(cells, 0) \in Seq(Int)
    BY RowText DEF Subcoord
  <2>3. <<>> \o RowAsFen(cells, 0) = RowAsFen(cells, 0)
    BY <2>2
  <2>4. Reads(RowAsFen(cells, 0)) = ReadTo(cells, 0, 8)
    BY <2>1, <2>2, <2>3, RowReadsBack
  <2> QED
    BY <1>1, <2>2, <2>4
<1>3. \A k \in 1..7 : k - 1 \in P => k \in P
  <2>1. ASSUME NEW k \in 1..7, k - 1 \in P PROVE k \in P
    <3> DEFINE before == run[k - 1]
               r == ReadTo(cells, k - 1, 8)
               row == RowAsFen(cells, k)
    <3>1. before \in Seq(Int) /\ Reads(before) = r /\ k \in Subcoord /\ row \in Seq(Int)
          /\ Slash \in Int
      <4>1. k \in Subcoord /\ Slash \in Int
        BY <2>1 DEF Subcoord, Slash
      <4>2. row \in Seq(Int)
        BY <4>1, RowText
      <4>3. before \in Seq(Int) /\ Reads(before) = r
        BY <2>1
      <4> QED
        BY <4>1, <4>2, <4>3
    <3>2. r.result = "Ok" /\ r.y = 8 /\ r.x = k - 1
      BY ReadToFields
    <3>3. r.x # 7 /\ r.x + 1 = k
      BY <3>2
    <3>4. ReadCell(r, Slash) = NextRow(r)
      <4> HIDE DEF r
      <4> QED
        BY <3>2, <3>3, ReadCellCases
    <3>5. NextRow(r) = ReadTo(cells, k, 0)
      <4> DEFINE cur == 8 * (k - 1) + 8
                 old == [c \in Coord |-> IF c < cur THEN cells[c] ELSE EmptyCell]
      <4>1. r = ReadAs(k - 1, 8, cur, "Ok", old)
        BY DEF ReadTo
      <4>2. cur = 8 * k + 0
        OBVIOUS
      <4>3. ReadTo(cells, k, 0) = ReadAs(k, 0, cur, "Ok", old)
        BY <4>2 DEF ReadTo
      <4> HIDE DEF r, cur, old
      <4>4. WithY(WithX(r, k), 0) = ReadAs(k, 0, cur, "Ok", old)
        BY <4>1, ReadField
      <4> QED
        BY <3>3, <4>3, <4>4 DEF NextRow
    <3>6. before \o <<Slash>> = Append(before, Slash) /\ Append(before, Slash) \in Seq(Int)
      BY <3>1
    <3>7. Reads(Append(before, Slash)) = ReadTo(cells, k, 0)
      BY <3>1, <3>4, <3>5, ReadsFacts
    <3>8. run[k] = Append(before, Slash) \o row
      BY <1>1, <3>6
    <3>9. run[k] \in Seq(Int)
      BY <3>1, <3>6, <3>8
    <3>10. Reads(run[k]) = ReadTo(cells, k, 8)
      BY <3>1, <3>6, <3>7, <3>8, RowReadsBack
    <3> QED
      BY <3>9, <3>10
  <2> QED
    BY <2>1
<1>4. run[7] \in Seq(Int) /\ Reads(run[7]) = ReadTo(cells, 7, 8)
  <2> HIDE DEF P
  <2>1. \A k \in 0..7 : k \in P
    BY <1>2, <1>3, CountUp
  <2> USE DEF P
  <2> QED
    BY <2>1
<1>5. ReadTo(cells, 7, 8).cells = cells
  <2>1. \A c \in Coord : c < 8 * 7 + 8
    BY DEF Coord
  <2>2. [c \in Coord |-> IF c < 8 * 7 + 8 THEN cells[c] ELSE EmptyCell] = [c \in Coord |-> cells[c]]
    BY <2>1
  <2>3. cells = [c \in Coord |-> cells[c]]
    BY DEF Cells
  <2> QED
    BY <2>2, <2>3 DEF ReadTo, ReadAs
<1>6. ReadCells(CellsAsFen(cells)) = ReadTo(cells, 7, 8)
  <2>1. ReadCells(CellsAsFen(cells)) = EndCells(ReadTo(cells, 7, 8))
    BY <1>1, <1>4 DEF ReadCells, Reads, NewRead
  <2> DEFINE r == ReadTo(cells, 7, 8)
  <2>2. r.result = "Ok" /\ r.y = 8 /\ r.x = 7
    BY DEF ReadTo, ReadAs
  <2> HIDE DEF r
  <2>3. EndCells(r) = r
    BY <2>2 DEF EndCells
  <2> QED
    BY <2>1, <2>3 DEF r
<1> QED
  BY <1>1, <1>4, <1>5, <1>6

(* The flags of a text are these, each once.                                      *)
FlagsText(text, flags) ==
  /\ text \in Seq(CastlingAll)
  /\ {text[i] : i \in DOMAIN text} = flags
  /\ \A i, j \in DOMAIN text : text[i] = text[j] => i = j

LEMMA FlagAdded ==
  ASSUME NEW text, NEW flags, FlagsText(text, flags), NEW f \in CastlingAll, f \notin flags
  PROVE  FlagsText(Append(text, f), flags \cup {f})
<1> DEFINE more == Append(text, f)
           n == Len(text)
<1>1. n \in Nat /\ DOMAIN text = 1..n /\ text \in Seq(CastlingAll)
  BY DEF FlagsText
<1>2. /\ more \in Seq(CastlingAll) /\ DOMAIN more = 1..(n + 1) /\ more[n + 1] = f
      /\ \A i \in 1..n : more[i] = text[i]
  BY <1>1
<1> HIDE DEF more, n
<1>3. \A i \in 1..(n + 1) : i \in 1..n \/ i = n + 1
  BY <1>1
<1>4. \A i \in 1..n : i \in 1..(n + 1)
  BY <1>1
<1>5. \A i \in 1..n : text[i] \in flags
  BY <1>1 DEF FlagsText
<1>6. {more[i] : i \in DOMAIN more} = flags \cup {f}
  <2>1. n + 1 \in 1..(n + 1)
    BY <1>1
  <2>2. \A g \in flags : \E i \in 1..n : g = text[i]
    BY <1>1 DEF FlagsText
  <2> QED
    BY <1>2, <1>3, <1>4, <1>5, <2>1, <2>2
<1>7. \A i, j \in 1..n : text[i] = text[j] => i = j
  BY <1>1 DEF FlagsText
<1>8. \A i, j \in DOMAIN more : more[i] = more[j] => i = j
  BY <1>2, <1>3, <1>5, <1>7
<1> QED
  BY <1>2, <1>6, <1>8 DEF FlagsText, more

LEMMA CastlingRun ==
  ASSUME NEW castling
  PROVE  \E run : /\ run[0] = <<>>
                  /\ \A k \in 1..4 :
                       run[k] = IF CastlingOrder[k] \in castling
                                THEN Append(run[k - 1], CastlingOrder[k]) ELSE run[k - 1]
                  /\ CastlingAsFen(castling) = run[4]
<1> DEFINE S == DOMAIN CastlingOrder
           A == Seq(CastlingAll)
           put(text, f) == IF f \in castling THEN Append(text, f) ELSE text
           IsFold(g) == g = [s \in SUBSET S |->
                               IF s = {} THEN <<>>
                               ELSE put(g[s \ {Max(s)}], CastlingOrder[Max(s)])]
           iter == CHOOSE g : IsFold(g)
           F == [t \in A \X (1..4) |-> put(t[1], CastlingOrder[t[2]])]
<1>1. CastlingAsFen(castling) = iter[S]
  BY DEF CastlingAsFen, FoldLeft, MapThenFoldSet
<1>2. 4 \in Nat /\ S = 1..4 /\ \A k \in 1..4 : CastlingOrder[k] \in CastlingAll
  BY DEF CastlingOrder, CastlingAll, Color, White, Black
<1>3. <<>> \in A
  OBVIOUS
<1> HIDE DEF S
<1>4. F \in [A \X (1..4) -> A]
  <2>1. ASSUME NEW text \in A, NEW f \in CastlingAll PROVE put(text, f) \in A
    OBVIOUS
  <2>2. \A t \in A \X (1..4) : t[1] \in A /\ CastlingOrder[t[2]] \in CastlingAll
    BY <1>2
  <2> HIDE DEF put, A
  <2> QED
    BY <2>1, <2>2
<1> HIDE DEF A
<1>5. PICK g : Folded(g, A, <<>>, F, 4, 4)
  <2> HIDE DEF F
  <2> QED
    BY <1>3, <1>4, FoldExists
<1>6. IsFold(g)
  <2>1. ASSUME NEW s \in SUBSET S, s # {}
        PROVE  g[s] = put(g[s \ {Max(s)}], CastlingOrder[Max(s)])
    <3>1. g[s] = F[<<g[s \ {Max(s)}], Max(s)>>]
      BY <1>2, <1>5, <2>1 DEF Folded
    <3>2. Max(s) \in 1..4 /\ g[s \ {Max(s)}] \in A
      BY <1>2, <1>5, <2>1, GreatestOf DEF Folded
    <3> HIDE DEF put
    <3> QED
      BY <1>2, <3>1, <3>2
  <2> QED
    BY <1>2, <1>5, <2>1 DEF Folded
<1>7. IsFold(iter)
  BY <1>6
<1> HIDE DEF iter
<1> DEFINE run == [k \in 0..4 |-> iter[1..k]]
<1>8. iter[{}] = <<>>
  BY <1>7
<1>9. ASSUME NEW k \in 1..4 PROVE run[k] = put(run[k - 1], CastlingOrder[k])
  <2>1. /\ 1..k \in SUBSET S /\ 1..k # {} /\ Max(1..k) = k /\ (1..k) \ {k} = 1..(k - 1)
    BY <1>2, InitialSets
  <2>2. iter[1..k] = put(iter[(1..k) \ {Max(1..k)}], CastlingOrder[Max(1..k)])
    BY <1>7, <2>1
  <2>3. run[k] = iter[1..k] /\ run[k - 1] = iter[1..(k - 1)]
    OBVIOUS
  <2> HIDE DEF put
  <2> QED
    BY <2>1, <2>2, <2>3
<1>10. run[0] = <<>> /\ run[4] = iter[S]
  BY <1>2, <1>8
<1> QED
  BY <1>1, <1>9, <1>10

LEMMA CastlingReadsBack ==
  ASSUME NEW castling \in Flags
  PROVE  FlagsText(CastlingAsFen(castling), castling)
<1>1. PICK run : /\ run[0] = <<>>
                 /\ \A k \in 1..4 :
                      run[k] = IF CastlingOrder[k] \in castling
                               THEN Append(run[k - 1], CastlingOrder[k]) ELSE run[k - 1]
                 /\ CastlingAsFen(castling) = run[4]
  BY CastlingRun
<1> DEFINE done(k) == {CastlingOrder[i] : i \in 1..k} \cap castling
           P == {k \in 0..4 : FlagsText(run[k], done(k))}
<1>2. /\ \A i \in 1..4 : CastlingOrder[i] \in CastlingAll
      /\ \A i, j \in 1..4 : CastlingOrder[i] = CastlingOrder[j] => i = j
      /\ \A f \in CastlingAll : \E i \in 1..4 : f = CastlingOrder[i]
  BY DEF CastlingOrder, CastlingAll, Color, White, Black, Kingside, Queenside
<1>3. 0 \in P
  <2>1. done(0) = {}
    OBVIOUS
  <2>2. FlagsText(<<>>, {})
    <3>1. <<>> \in Seq(CastlingAll) /\ DOMAIN <<>> = {}
      OBVIOUS
    <3>2. {(<<>>)[i] : i \in DOMAIN <<>>} = {}
      BY <3>1, Zenon
    <3> QED
      BY <3>1, <3>2, Zenon DEF FlagsText
  <2>3. FlagsText(run[0], done(0))
    BY <1>1, <2>1, <2>2
  <2> HIDE DEF done
  <2> QED
    BY <2>3
<1>4. \A k \in 1..4 : k - 1 \in P => k \in P
  <2>1. ASSUME NEW k \in 1..4, k - 1 \in P PROVE k \in P
    <3> DEFINE f == CastlingOrder[k]
    <3>1. FlagsText(run[k - 1], done(k - 1)) /\ f \in CastlingAll
      BY <1>2, <2>1
    <3>2. f \notin done(k - 1)
      <4>1. \A i \in 1..(k - 1) : i \in 1..4 /\ i # k
        OBVIOUS
      <4> QED
        BY <1>2, <4>1
    <3>3. done(k) = done(k - 1) \cup ({f} \cap castling)
      <4>1. \A i : i \in 1..k <=> i \in 1..(k - 1) \/ i = k
        OBVIOUS
      <4> QED
        BY <4>1
    <3>4. CASE f \in castling
      <4>1. done(k) = done(k - 1) \cup {f} /\ run[k] = Append(run[k - 1], f)
        BY <1>1, <3>3, <3>4
      <4> HIDE DEF f, done
      <4>2. FlagsText(run[k], done(k))
        BY <3>1, <3>2, <4>1, FlagAdded
      <4> QED
        BY <4>2
    <3>5. CASE f \notin castling
      <4>1. done(k) = done(k - 1) /\ run[k] = run[k - 1]
        BY <1>1, <3>3, <3>5
      <4> QED
        BY <3>1, <4>1
    <3> QED
      BY <3>4, <3>5
  <2> QED
    BY <2>1
<1>5. FlagsText(run[4], done(4))
  <2> HIDE DEF P
  <2>1. \A k \in 0..4 : k \in P
    BY <1>3, <1>4, CountUp
  <2> USE DEF P
  <2> QED
    BY <2>1
<1>6. done(4) = castling
  BY <1>2 DEF Flags
<1> QED
  BY <1>1, <1>5, <1>6

(* A FEN without a complaint in any field.                                        *)
LEMMA NoComplaint ==
  ASSUME NEW results, \A i \in DOMAIN results : results[i] = "Ok"
  PROVE  FirstError(results) = "Ok"
BY DEF FirstError

LEMMA CastlingAccepted ==
  ASSUME NEW text, NEW flags, FlagsText(text, flags)
  PROVE  CastlingResult(text) = "Ok"
<1> DEFINE results == [i \in DOMAIN text |->
              CASE text[i] \notin CastlingAll -> "UnexpectedCharacter"
                [] text[i] \in CastlingAll /\ \E j \in 1..(i - 1) : text[j] = text[i] ->
                     "CastlingDuplicate"
                [] OTHER -> "Ok"]
<1>1. ASSUME NEW i \in DOMAIN text PROVE results[i] = "Ok"
  <2>1. text[i] \in CastlingAll
    BY DEF FlagsText
  <2>2. i \in Nat /\ \A j \in 1..(i - 1) : j \in DOMAIN text /\ j # i
    BY DEF FlagsText
  <2>3. ~ \E j \in 1..(i - 1) : text[j] = text[i]
    BY <2>2 DEF FlagsText
  <2> QED
    BY <2>1, <2>3
<1>2. CastlingResult(text) = FirstError(results)
  BY DEF CastlingResult
<1> HIDE DEF results
<1>3. DOMAIN results = DOMAIN text
  BY DEF results
<1> QED
  BY <1>1, <1>2, <1>3, NoComplaint

LEMMA CellsAccepted ==
  ASSUME NEW cells \in Cells
  PROVE  /\ ReadCells(CellsAsFen(cells)).result = "Ok"
         /\ ReadCells(CellsAsFen(cells)).cells = cells
BY CellsReadBack DEF ReadTo, ReadAs

(* The cell of a capture en passant, as it is written and read.                   *)
LEMMA PassingReadsBack ==
  ASSUME NEW ep \in Coord, NEW side \in Color, CoordX(ep) = EnpassantSrcRow(side)
  PROVE  /\ CoordY(ep) \in 0..7
         /\ 8 - (IF side = White THEN 6 ELSE 3) = EnpassantDstRow(side)
         /\ MakeCoord(EnpassantSrcRow(side), CoordY(ep)) = ep
<1>1. CoordY(ep) \in 0..7 /\ MakeCoord(CoordX(ep), CoordY(ep)) = ep
  BY CoordParts DEF Subcoord
<1>2. 8 - (IF side = White THEN 6 ELSE 3) = EnpassantDstRow(side)
  BY DEF EnpassantDstRow, Color, White, Black
<1> QED
  BY <1>1, <1>2

LEMMA FiveFine ==
  ASSUME NEW r1, NEW r2, NEW r3, NEW r4, NEW r5,
         r1 = "Ok", r2 = "Ok", r3 = "Ok", r4 = "Ok", r5 = "Ok"
  PROVE  FirstError(<<r1, r2, r3, r4, r5>>) = "Ok"
<1>1. \A i \in DOMAIN <<r1, r2, r3, r4, r5>> : <<r1, r2, r3, r4, r5>>[i] = "Ok"
  OBVIOUS
<1> QED
  BY <1>1, NoComplaint

LEMMA NumberAccepted ==
  ASSUME NEW n \in Counter
  PROVE  NumberResult(n) = "Ok"
BY DEF NumberResult, Counter

LEMMA FenAccepted ==
  ASSUME NEW b, Fresh(b)
  PROVE  FenResult(AsFen(b)) = "Ok"
<1> DEFINE f == AsFen(b)
           ep == b.enpassantCoord
           results == <<ReadCells(f.cells).result, CastlingResult(f.castling),
                        EnpassantResult(f.enpassant, f.side),
                        NumberResult(f.moveCounter), NumberResult(f.moveNumber)>>
<1>1. /\ b.cells \in Cells /\ b.side \in Color /\ b.castling \in Flags /\ ep \in MaybeCoord
      /\ b.moveCounter \in Counter /\ b.moveNumber \in Counter
  BY BoardFields DEF Fresh
<1>2. ReadCells(f.cells).result = "Ok"
  <2>1. f.cells = CellsAsFen(b.cells)
    BY DEF AsFen
  <2> QED
    BY <1>1, <2>1, CellsAccepted
<1>3. CastlingResult(f.castling) = "Ok"
  <2>1. f.castling = CastlingAsFen(b.castling)
    BY DEF AsFen
  <2> QED
    BY <1>1, <2>1, CastlingReadsBack, CastlingAccepted
<1>4. EnpassantResult(f.enpassant, f.side) = "Ok"
  <2>1. CASE ep = InvalidCoord
    <3>1. f.enpassant = None
      BY <2>1 DEF AsFen
    <3> QED
      BY <3>1 DEF EnpassantResult
  <2>2. CASE ep # InvalidCoord
    <3> DEFINE y == CoordY(ep)
               x == IF b.side = White THEN 6 ELSE 3
    <3>1. f.enpassant = <<y, x>> /\ f.side = b.side
      BY <2>2 DEF AsFen
    <3>2. y \in 0..7 /\ 8 - x = EnpassantDstRow(b.side)
      BY <1>1, <2>2, PassingReadsBack DEF Fresh, MaybeCoord
    <3>3. x \in 1..8
      OBVIOUS
    <3> HIDE DEF y, x, f
    <3>4. <<y, x>>[1] = y /\ <<y, x>>[2] = x
      OBVIOUS
    <3> QED
      BY <3>1, <3>2, <3>3, <3>4 DEF EnpassantResult
  <2> QED
    BY <2>1, <2>2
<1>5. NumberResult(f.moveCounter) = "Ok" /\ NumberResult(f.moveNumber) = "Ok"
  <2>1. f.moveCounter = b.moveCounter /\ f.moveNumber = b.moveNumber
    BY DEF AsFen
  <2> HIDE DEF f
  <2> QED
    BY <1>1, <2>1, NumberAccepted
<1>6. FenResult(f) = FirstError(results)
  BY DEF FenResult
<1> HIDE DEF f
<1>7. FirstError(results) = "Ok"
  BY <1>2, <1>3, <1>4, <1>5, FiveFine
<1> QED
  BY <1>6, <1>7 DEF f

LEMMA FenReadsBack ==
  ASSUME NEW b, Fresh(b)
  PROVE  FromFen(AsFen(b)) = b
<1> DEFINE f == AsFen(b)
           ep == b.enpassantCoord
           read == IF f.enpassant = None THEN InvalidCoord
                   ELSE MakeCoord(EnpassantSrcRow(f.side), f.enpassant[1])
           a == Essential(ReadCells(f.cells).cells, f.side,
                          {f.castling[i] : i \in DOMAIN f.castling}, read,
                          f.moveCounter, f.moveNumber)
<1>1. b.cells \in Cells /\ b.side \in Color /\ b.castling \in Flags /\ ep \in MaybeCoord
  BY BoardFields DEF Fresh
<1>2. /\ f.cells = CellsAsFen(b.cells) /\ f.side = b.side
      /\ f.castling = CastlingAsFen(b.castling)
      /\ f.moveCounter = b.moveCounter /\ f.moveNumber = b.moveNumber
  BY DEF AsFen
<1>3. ReadCells(f.cells).cells = b.cells
  BY <1>1, <1>2, CellsAccepted
<1>4. {f.castling[i] : i \in DOMAIN f.castling} = b.castling
  BY <1>1, <1>2, CastlingReadsBack DEF FlagsText
<1>5. read = ep
  <2>1. CASE ep = InvalidCoord
    <3>1. f.enpassant = None
      BY <2>1 DEF AsFen
    <3> QED
      BY <2>1, <3>1
  <2>2. CASE ep # InvalidCoord
    <3>1. f.enpassant = <<CoordY(ep), IF b.side = White THEN 6 ELSE 3>>
      BY <2>2 DEF AsFen
    <3>2. MakeCoord(EnpassantSrcRow(b.side), CoordY(ep)) = ep
      BY <1>1, <2>2, PassingReadsBack DEF Fresh, MaybeCoord
    <3>3. f.enpassant # None /\ f.enpassant[1] = CoordY(ep)
      BY <3>1 DEF None
    <3> QED
      BY <1>2, <3>2, <3>3
  <2> QED
    BY <2>1, <2>2
<1>6. FromFen(f) = Update(a)
  BY DEF FromFen
<1>7. /\ a.cells = b.cells /\ a.side = b.side /\ a.castling = b.castling
      /\ a.enpassantCoord = ep /\ a.moveCounter = b.moveCounter /\ a.moveNumber = b.moveNumber
  <2> HIDE DEF f, read, ep
  <2> QED
    BY <1>2, <1>3, <1>4, <1>5 DEF Essential
<1> HIDE DEF a
<1>8. Update(a) = Update(b)
  BY <1>7, Zenon DEF Update
<1> QED
  BY <1>6, <1>8 DEF Fresh

-----------------------------------------------------------------------------
(* A move written and parsed *)

(* The promotion of a move is what tells its kind from the others.                *)
LEMMA PromotionKinds ==
  /\ \A k \in PromoteKinds : PromotePiece(k) # NoPromote /\ PromoteKindOf(PromotePiece(k)) = k
<1>1. \A k \in PromoteKinds : PromotePiece(k) # NoPromote
  BY DEF PromoteKinds, PromotePiece, NoPromote, Knight, Bishop, Rook, Queen
<1>2. \A j, k \in PromoteKinds : PromotePiece(j) = PromotePiece(k) => j = k
  BY DEF PromoteKinds, PromotePiece, Knight, Bishop, Rook, Queen
<1>3. \A k \in PromoteKinds : PromoteKindOf(PromotePiece(k)) = k
  BY <1>2 DEF PromoteKindOf
<1> QED
  BY <1>1, <1>3

(* What the parser makes of the text of a move, by what stands where it starts.   *)
ParsesTo(b, s, d) ==
  LET c == b.side
      home == MakeCoord(CastlingRow(c), 4)
      double == CoordX(s) = DoubleMoveSrcRow(c) /\ CoordX(d) = DoubleMoveDstRow(c)
  IN  IF b.cells[s] = MakeCell(c, Pawn)
      THEN IF double THEN "PawnDoubleMove"
           ELSE IF CoordY(s) # CoordY(d) /\ b.cells[d] = EmptyCell THEN "Enpassant" ELSE "Simple"
      ELSE IF b.cells[s] = MakeCell(c, King) /\ s = home /\ d = home + 2 THEN "CastlingKingside"
           ELSE IF b.cells[s] = MakeCell(c, King) /\ s = home /\ d = home - 2
                THEN "CastlingQueenside" ELSE "Simple"

LEMMA ParsedAs ==
  ASSUME NEW b, NEW s, NEW d, NEW k, s # d, s \in Coord,
         k \notin PromoteKinds, k # "Null", k = ParsesTo(b, s, d)
  PROVE  MoveParse(MoveToStr(Move(k, s, d)), b) = Move(k, s, d)
<1> DEFINE c == b.side
           p == <<s, d, NoPromote>>
           home == MakeCoord(CastlingRow(c), 4)
           as(kind) == [Move("Simple", s, d) EXCEPT !.kind = kind]
<1>1. MoveToStr(Move(k, s, d)) = p
  BY MoveParts DEF MoveToStr
<1>2. p # ZeroText /\ p # NullParsedMove /\ p[1] = s /\ p[2] = d /\ p[3] = NoPromote
  BY DEF ZeroText, NullParsedMove
<1>3. MoveParse(p, b) = MoveFromParsed(p, b)
  BY <1>2 DEF MoveParse, ParsedFromStr
<1>4. as(k) = Move(k, s, d)
  BY DEF Move
<1>5. home \in Int
  BY DEF MakeCoord, CastlingRow
<1>6. home + 2 # home - 2
  BY <1>5
<1>7. MoveFromParsed(p, b) = as(k)
  <2>1. Move("Simple", s, d) = as("Simple")
    BY DEF Move
  <2> HIDE DEF p
  <2>2. MoveFromParsed(p, b) =
          IF b.cells[s] = MakeCell(c, Pawn)
          THEN CASE /\ CoordX(s) = DoubleMoveSrcRow(c)
                    /\ CoordX(d) = DoubleMoveDstRow(c) -> as("PawnDoubleMove")
                 [] /\ CoordY(s) # CoordY(d)
                    /\ b.cells[d] = EmptyCell
                    /\ ~ /\ CoordX(s) = DoubleMoveSrcRow(c)
                         /\ CoordX(d) = DoubleMoveDstRow(c) -> as("Enpassant")
                 [] OTHER -> as("Simple")
          ELSE CASE /\ b.cells[s] = MakeCell(c, King)
                    /\ s = home /\ d = home + 2 -> as("CastlingKingside")
                 [] /\ b.cells[s] = MakeCell(c, King)
                    /\ s = home /\ d = home - 2 -> as("CastlingQueenside")
                 [] OTHER -> as("Simple")
    BY <1>2, <2>1 DEF MoveFromParsed
  <2> HIDE DEF as, home
  <2> QED
    BY <1>6, <2>2 DEF ParsesTo, home
<1> QED
  BY <1>1, <1>3, <1>4, <1>7

LEMMA PawnsParse ==
  ASSUME NEW b, Fresh(b), NEW k, NEW s \in Coord, NEW d \in Coord, PawnGoes(b, k, s, d),
         k \notin PromoteKinds
  PROVE  k = ParsesTo(b, s, d) /\ k # "Null"
<1> DEFINE c == b.side
           ep == b.enpassantCoord
           delta == PawnForwardDelta(c)
           double == CoordX(s) = DoubleMoveSrcRow(c) /\ CoordX(d) = DoubleMoveDstRow(c)
<1>1. c \in Color
  BY BoardFields DEF Fresh
<1>2. b.cells[s] = MakeCell(c, Pawn)
  BY DEF PawnGoes
<1>3. ParsesTo(b, s, d) =
        IF double THEN "PawnDoubleMove"
        ELSE IF CoordY(s) # CoordY(d) /\ b.cells[d] = EmptyCell THEN "Enpassant" ELSE "Simple"
  BY <1>2 DEF ParsesTo
<1>4. CASE PawnKind(k, Promoting(b, s)) /\ PawnSteps(b, s, d)
  <2>1. k = "Simple"
    BY <1>4 DEF PawnKind
  <2>2. CoordY(s) = CoordY(d) /\ ~double
    BY <1>1, <1>4 DEF PawnSteps, PawnForwardDelta, Coord, CoordX, CoordY, Color, White, Black,
                      DoubleMoveSrcRow, DoubleMoveDstRow
  <2> HIDE DEF double
  <2> QED
    BY <1>3, <2>1, <2>2
<1>5. CASE PawnKind(k, Promoting(b, s)) /\ PawnTakes(b, s, d)
  <2>1. k = "Simple"
    BY <1>5 DEF PawnKind
  <2>2. b.cells[d] # EmptyCell
    BY <1>5 DEF PawnTakes, Own
  <2>3. CoordX(d) - CoordX(s) = IF c = White THEN -1 ELSE 1
    BY <1>1, <1>5, NearCells DEF PawnTakes
  <2>4. ~double
    BY <1>1, <2>3, CoordParts DEF Subcoord, Color, White, Black, DoubleMoveSrcRow, DoubleMoveDstRow
  <2> HIDE DEF double
  <2> QED
    BY <1>3, <2>1, <2>2, <2>4
<1>6. CASE k = "PawnDoubleMove" /\ PawnJumps(b, s, d)
  <2>1. double
    BY <1>1, <1>6 DEF PawnJumps, PawnForwardDelta, Coord, CoordX, Color, White, Black,
                      DoubleMoveSrcRow, DoubleMoveDstRow
  <2> HIDE DEF double
  <2> QED
    BY <1>3, <1>6, <2>1
<1>7. CASE k = "Enpassant" /\ PawnPasses(b, s, d)
  <2>1. ep \in Coord /\ b.cells[d] = EmptyCell
    <3> HIDE DEF double
    <3> QED
      BY <1>7, PassingEmpty
  <2>2. CoordX(ep) = EnpassantSrcRow(c)
    BY <1>7 DEF Fresh, PawnPasses
  <2>3. CoordY(s) # CoordY(d) /\ ~double
    BY <1>1, <1>7, <2>1, <2>2 DEF PawnPasses, PawnForwardDelta, Coord, CoordX, CoordY, Color,
         White, Black, DoubleMoveSrcRow, DoubleMoveDstRow, EnpassantSrcRow
  <2> HIDE DEF double
  <2> QED
    BY <1>3, <1>7, <2>1, <2>3
<1> QED
  BY <1>4, <1>5, <1>6, <1>7 DEF PawnGoes

LEMMA OthersParse ==
  ASSUME NEW b, Fresh(b), NEW k, NEW s \in Coord, NEW d \in Coord,
         OtherGoes(b, {King}, k, s, d) \/ OtherGoes(b, Officers, k, s, d)
  PROVE  k = ParsesTo(b, s, d) /\ k # "Null"
<1> DEFINE c == b.side
           home == MakeCoord(CastlingRow(c), 4)
<1>1. c \in Color
  BY BoardFields DEF Fresh
<1>2. k = "Simple"
  BY DEF OtherGoes
<1>3. b.cells[s] # MakeCell(c, Pawn)
  BY OnePiece, PieceKinds DEF OtherGoes, PieceGoes
<1>4. b.cells[s] = MakeCell(c, King) /\ s = home => d # home + 2 /\ d # home - 2
  <2>1. ASSUME b.cells[s] = MakeCell(c, King), s = home PROVE d # home + 2 /\ d # home - 2
    <3>1. PieceGoes(b, King, s, d)
      BY <2>1, OnePiece, PieceKinds DEF OtherGoes, PieceGoes
    <3>2. d \in KingAttacks[s]
      BY <3>1, SourceSets DEF PieceGoes
    <3>3. CoordY(d) - CoordY(s) \in -1..1
      BY <3>2, NearCells
    <3>4. CoordY(home) = 4 /\ home \in {4, 60}
      BY <1>1 DEF CastlingRow, MakeCoord, CoordY, Color, White, Black
    <3>5. d = home + 2 => CoordY(d) = 6
      BY <3>4 DEF CoordY
    <3>6. d = home - 2 => CoordY(d) = 2
      BY <3>4 DEF CoordY
    <3> QED
      BY <2>1, <3>3, <3>4, <3>5, <3>6
  <2> QED
    BY <2>1
<1> QED
  BY <1>2, <1>3, <1>4 DEF ParsesTo

LEMMA CastlingsParse ==
  ASSUME NEW b, Fresh(b), NEW k, NEW s \in Coord, NEW d \in Coord, Castles(b, k, s, d)
  PROVE  k = ParsesTo(b, s, d) /\ k # "Null"
<1> DEFINE c == b.side
           home == MakeCoord(CastlingRow(c), 4)
<1>1. c \in Color
  BY BoardFields DEF Fresh
<1>2. PICK side \in {Kingside, Queenside} : CastlesTo(b, side, k, s, d)
  BY DEF Castles
<1>3. /\ k = IF side = Kingside THEN "CastlingKingside" ELSE "CastlingQueenside"
      /\ s = home /\ d = IF side = Kingside THEN home + 2 ELSE home - 2
      /\ <<c, side>> \in b.castling
  BY <1>1, <1>2 DEF CastlesTo, MakeCoord, CastlingRow
<1>4. b.cells[s] = MakeCell(c, King)
  <2>1. FixedCastling(b.cells, b.castling) = b.castling
    BY FreshParts DEF Fresh, FlagsKept
  <2>2. <<c, side>>[1] = c
    OBVIOUS
  <2> QED
    BY <1>3, <2>1, <2>2 DEF FixedCastling
<1>5. b.cells[s] # MakeCell(c, Pawn)
  BY <1>4, OnePiece, PieceKinds
<1>6. home \in Int
  BY DEF MakeCoord, CastlingRow
<1>7. home + 2 # home - 2
  BY <1>6
<1> QED
  BY <1>3, <1>4, <1>5, <1>7 DEF ParsesTo, Kingside, Queenside

LEMMA NotNull ==
  ASSUME NEW b, Fresh(b), NEW k, NEW s, NEW d, NEW check, Answering(b, check, k, s, d)
  PROVE  k # "Null"
<1>1. CASE Goes(b, k, s, d)
  <2>1. "Null" \notin PromoteKinds
    BY DEF PromoteKinds
  <2> QED
    BY <1>1, <2>1 DEF Goes, PawnGoes, OtherGoes, PawnKind
<1>2. CASE Castles(b, k, s, d)
  BY <1>2 DEF Castles, CastlesTo
<1> QED
  BY <1>1, <1>2 DEF Answering

LEMMA MovesReadBack ==
  ASSUME NEW b, Fresh(b), NEW m \in GenAllMoves(b)
  PROVE  MoveParse(MoveToStr(m), b) = m
<1> DEFINE k == m.kind
           s == m.src
           d == m.dst
<1>1. m = Move(k, s, d)
  <2>1. PICK i \in DOMAIN GenParts(b, TRUE, TRUE, TRUE) : m \in GenParts(b, TRUE, TRUE, TRUE)[i]
    BY DEF GenAllMoves, Collect
  <2> QED
    BY <2>1, WritesMoves DEF IsMove
<1>2. Answering(b, Check(b), k, s, d)
  BY <1>1, GeneratedAre DEF GenAllMoves
<1>3. s \in Coord /\ d \in Coord /\ s # d /\ k # "Null"
  <2>1. Makeable(b, m)
    BY GeneratedMakeable
  <2>2. k # "Null"
    BY <1>2, NotNull
  <2> QED
    BY <2>1, <2>2 DEF Makeable
<1>4. CASE k \in PromoteKinds
  <2> DEFINE p == PromotePiece(k)
             text == <<s, d, p>>
  <2>1. MoveToStr(m) = text
    BY <1>3, <1>4 DEF MoveToStr
  <2>2. p # NoPromote /\ PromoteKindOf(p) = k
    BY <1>4, PromotionKinds
  <2> HIDE DEF p
  <2>3. text # ZeroText /\ text # NullParsedMove /\ text[1] = s /\ text[2] = d /\ text[3] = p
    BY <2>2 DEF ZeroText, NullParsedMove
  <2>4. [Move("Simple", s, d) EXCEPT !.kind = k] = m
    BY <1>1 DEF Move
  <2> HIDE DEF text
  <2> QED
    BY <2>1, <2>2, <2>3, <2>4 DEF MoveParse, ParsedFromStr, MoveFromParsed
<1>5. CASE k \notin PromoteKinds
  <2>1. k = ParsesTo(b, s, d)
    BY <1>2, <1>3, <1>5, PawnsParse, OthersParse, CastlingsParse DEF Answering, Goes
  <2> QED
    BY <1>1, <1>3, <1>5, <2>1, ParsedAs
<1> QED
  BY <1>4, <1>5

-----------------------------------------------------------------------------
(* What the reader of the cells accepts *)

(* How many cells of a row a token stands for.                                    *)
Width(t) == IF t < 0 THEN -t ELSE 1

LEMMA LengthRun ==
  ASSUME NEW row \in Seq(Int)
  PROVE  \E run : /\ run[0] = 0
                  /\ \A k \in 1..Len(row) : run[k] = run[k - 1] + Width(row[k])
                  /\ RowLength(row) = run[Len(row)]
<1> DEFINE n == Len(row)
           S == DOMAIN row
           put(l, t) == l + (IF t < 0 THEN -t ELSE 1)
           IsFold(g) == g = [s \in SUBSET S |->
                               IF s = {} THEN 0
                               ELSE put(g[s \ {Max(s)}], row[Max(s)])]
           iter == CHOOSE g : IsFold(g)
           F == [t \in Int \X (1..n) |-> put(t[1], row[t[2]])]
<1>1. RowLength(row) = iter[S]
  BY DEF RowLength, FoldLeft, MapThenFoldSet
<1>2. n \in Nat /\ S = 1..n /\ \A k \in 1..n : row[k] \in Int
  OBVIOUS
<1>3. 0 \in Int
  OBVIOUS
<1> HIDE DEF S
<1>4. F \in [Int \X (1..n) -> Int]
  <2>1. ASSUME NEW l \in Int, NEW t \in Int PROVE put(l, t) \in Int
    OBVIOUS
  <2>2. \A t \in Int \X (1..n) : t[1] \in Int /\ row[t[2]] \in Int
    BY <1>2
  <2> HIDE DEF put
  <2> QED
    BY <2>1, <2>2
<1>5. PICK g : Folded(g, Int, 0, F, n, n)
  <2> HIDE DEF F
  <2> QED
    BY <1>2, <1>3, <1>4, FoldExists
<1>6. IsFold(g)
  <2>1. ASSUME NEW s \in SUBSET S, s # {}
        PROVE  g[s] = put(g[s \ {Max(s)}], row[Max(s)])
    <3>1. g[s] = F[<<g[s \ {Max(s)}], Max(s)>>]
      BY <1>2, <1>5, <2>1 DEF Folded
    <3>2. Max(s) \in 1..n /\ g[s \ {Max(s)}] \in Int
      BY <1>2, <1>5, <2>1, GreatestOf DEF Folded
    <3> HIDE DEF put
    <3> QED
      BY <1>2, <3>1, <3>2
  <2> QED
    BY <1>2, <1>5, <2>1 DEF Folded
<1>7. IsFold(iter)
  BY <1>6
<1> HIDE DEF iter
<1> DEFINE run == [k \in 0..n |-> iter[1..k]]
<1>8. iter[{}] = 0
  BY <1>7
<1>9. ASSUME NEW k \in 1..n PROVE run[k] = put(run[k - 1], row[k])
  <2>1. /\ 1..k \in SUBSET S /\ 1..k # {} /\ Max(1..k) = k /\ (1..k) \ {k} = 1..(k - 1)
    BY <1>2, InitialSets
  <2>2. iter[1..k] = put(iter[(1..k) \ {Max(1..k)}], row[Max(1..k)])
    BY <1>7, <2>1
  <2>3. run[k] = iter[1..k] /\ run[k - 1] = iter[1..(k - 1)]
    BY <1>2
  <2> HIDE DEF put
  <2> QED
    BY <2>1, <2>2, <2>3
<1>10. run[0] = 0 /\ run[n] = iter[S]
  BY <1>2, <1>8
<1> QED
  BY <1>1, <1>9, <1>10 DEF Width

LEMMA LengthFacts ==
  /\ RowLength(<<>>) = 0
  /\ \A row \in Seq(Int) : RowLength(row) \in Nat
  /\ \A row \in Seq(Int), t \in Int : RowLength(Append(row, t)) = RowLength(row) + Width(t)
<1>1. RowLength(<<>>) = 0
  <2>1. <<>> \in Seq(Int) /\ Len(<<>>) = 0
    OBVIOUS
  <2> QED
    BY <2>1, LengthRun
<1>2. ASSUME NEW row \in Seq(Int) PROVE RowLength(row) \in Nat
  <2> DEFINE n == Len(row)
  <2>1. PICK run : /\ run[0] = 0
                   /\ \A k \in 1..n : run[k] = run[k - 1] + Width(row[k])
                   /\ RowLength(row) = run[n]
    BY LengthRun
  <2> DEFINE P == {k \in 0..n : run[k] \in Nat}
  <2>2. n \in Nat
    OBVIOUS
  <2>3. 0 \in P
    BY <2>1, <2>2
  <2>4. \A k \in 1..n : k - 1 \in P => k \in P
    <3>1. ASSUME NEW k \in 1..n, k - 1 \in P PROVE k \in P
      <4>1. run[k - 1] \in Nat /\ row[k] \in Int
        BY <3>1
      <4>2. Width(row[k]) \in Nat
        BY <4>1 DEF Width
      <4>3. run[k] \in Nat
        BY <2>1, <4>1, <4>2
      <4> QED
        BY <2>2, <4>3
    <3> QED
      BY <3>1
  <2>5. n \in P
    <3> HIDE DEF P
    <3>1. \A k \in 0..n : k \in P
      BY <2>2, <2>3, <2>4, CountUp
    <3> QED
      BY <2>2, <3>1
  <2> QED
    BY <2>1, <2>5
<1>3. ASSUME NEW row \in Seq(Int), NEW t \in Int
      PROVE  RowLength(Append(row, t)) = RowLength(row) + Width(t)
  <2> DEFINE n == Len(row)
             more == Append(row, t)
  <2>1. PICK run : /\ run[0] = 0
                   /\ \A k \in 1..n : run[k] = run[k - 1] + Width(row[k])
                   /\ RowLength(row) = run[n]
    BY LengthRun
  <2>2. /\ n \in Nat /\ more \in Seq(Int) /\ Len(more) = n + 1 /\ more[n + 1] = t
        /\ \A k \in 1..n : more[k] = row[k]
    OBVIOUS
  <2> HIDE DEF more
  <2>3. PICK then : /\ then[0] = 0
                    /\ \A k \in 1..(n + 1) : then[k] = then[k - 1] + Width(more[k])
                    /\ RowLength(more) = then[n + 1]
    BY <2>2, LengthRun
  <2> DEFINE P == {k \in 0..n : run[k] = then[k]}
  <2>4. 0 \in P
    BY <2>1, <2>2, <2>3
  <2>5. \A k \in 1..n : k - 1 \in P => k \in P
    <3>1. ASSUME NEW k \in 1..n, k - 1 \in P PROVE k \in P
      <4>1. run[k - 1] = then[k - 1] /\ more[k] = row[k] /\ k \in 1..(n + 1)
        BY <2>2, <3>1
      <4>2. run[k] = then[k]
        BY <2>1, <2>3, <4>1
      <4> QED
        BY <2>2, <4>2
    <3> QED
      BY <3>1
  <2>6. n \in P
    <3> HIDE DEF P
    <3>1. \A k \in 0..n : k \in P
      BY <2>2, <2>4, <2>5, CountUp
    <3> QED
      BY <2>2, <3>1
  <2>7. then[n + 1] = then[n] + Width(t)
    <3>1. n + 1 \in 1..(n + 1) /\ (n + 1) - 1 = n
      BY <2>2
    <3> QED
      BY <2>2, <2>3, <3>1
  <2> QED
    BY <2>1, <2>3, <2>6, <2>7 DEF more
<1> QED
  BY <1>1, <1>2, <1>3

(* The length of the row that the tokens after the i-th make, up to the k-th.     *)
Stretch(tokens, i, k) == RowLength(SubSeq(tokens, i + 1, k))

LEMMA StretchFacts ==
  ASSUME NEW tokens \in Seq(Int), NEW i \in 0..Len(tokens)
  PROVE  /\ Stretch(tokens, i, i) = 0
         /\ \A k \in i..Len(tokens) : Stretch(tokens, i, k) \in Nat
         /\ \A k \in (i + 1)..Len(tokens) :
              Stretch(tokens, i, k) = Stretch(tokens, i, k - 1) + Width(tokens[k])
<1> DEFINE n == Len(tokens)
<1>1. n \in Nat /\ i \in Nat
  OBVIOUS
<1>2. Stretch(tokens, i, i) = 0
  <2>1. SubSeq(tokens, i + 1, i) = <<>>
    BY <1>1, SubSeqEmpty
  <2> QED
    BY <2>1, LengthFacts DEF Stretch
<1>3. ASSUME NEW k \in i..n PROVE SubSeq(tokens, i + 1, k) \in Seq(Int)
  <2> DEFINE m == i + 1
  <2>1. \A j \in m..k : tokens[j] \in Int
    BY <1>1
  <2>2. m \in Int /\ k \in Int
    BY <1>1
  <2> HIDE DEF m
  <2>3. SubSeq(tokens, m, k) \in Seq(Int)
    BY <2>1, <2>2, SubSeqProperties, Zenon
  <2> QED
    BY <2>3 DEF m
<1>4. ASSUME NEW k \in (i + 1)..n
      PROVE  Stretch(tokens, i, k) = Stretch(tokens, i, k - 1) + Width(tokens[k])
  <2>1. i + 1 \in 1..n /\ k - 1 \in i..n /\ tokens[k] \in Int
    BY <1>1
  <2>2. SubSeq(tokens, i + 1, k) = SubSeq(tokens, i + 1, k - 1) \o <<tokens[k]>>
    BY <2>1, SubSeqRecursiveSecond
  <2> DEFINE row == SubSeq(tokens, i + 1, k - 1)
  <2>3. row \in Seq(Int)
    BY <1>3, <2>1
  <2> HIDE DEF row
  <2>4. row \o <<tokens[k]>> = Append(row, tokens[k])
    BY <2>1, <2>3
  <2>5. RowLength(Append(row, tokens[k])) = RowLength(row) + Width(tokens[k])
    BY <2>1, <2>3, LengthFacts
  <2>6. Stretch(tokens, i, k) = RowLength(Append(row, tokens[k]))
    BY <2>2, <2>4 DEF Stretch, row
  <2>7. Stretch(tokens, i, k - 1) = RowLength(row)
    BY DEF Stretch, row
  <2> QED
    BY <2>5, <2>6, <2>7
<1> QED
  BY <1>2, <1>3, <1>4, LengthFacts DEF Stretch

(* What a token does to the row, the column and the next cell.                    *)
LEMMA ReadFields ==
  ASSUME NEW r \in ReadState, NEW token \in Int
  PROVE  /\ LET n == NextRow(r)
            IN  n.x = r.x + 1 /\ n.y = 0 /\ n.cur = r.cur /\ n.result = r.result
         /\ LET n == PutPiece(r, token)
            IN  n.x = r.x /\ n.y = r.y + 1 /\ n.cur = r.cur + 1 /\ n.result = r.result
         /\ LET n == EmptyRun(r, token)
            IN  n.x = r.x /\ n.y = r.y - token /\ n.cur = r.cur - token /\ n.result = r.result
         /\ \A z : Complain(r, z).result = z /\ Complain(r, z).cur = r.cur
<1> DEFINE x == r.x
           y == r.y
           cur == r.cur
           result == r.result
           cells == r.cells
           put == [r.cells EXCEPT ![r.cur] = token]
           emptied == [c \in Coord |-> IF c \in r.cur..(r.cur - token - 1) THEN EmptyCell
                                       ELSE r.cells[c]]
<1>1. r = ReadAs(x, y, cur, result, cells)
  BY DEF ReadState, ReadAs
<1>2. \A z : Complain(r, z).result = z /\ Complain(r, z).cur = r.cur
  BY DEF Complain, ReadState
<1>3. /\ NextRow(r) = WithY(WithX(r, x + 1), 0)
      /\ PutPiece(r, token) = WithY(WithCur(WithCells(r, put), cur + 1), y + 1)
      /\ EmptyRun(r, token) = WithY(WithCur(WithCells(r, emptied), cur - token), y - token)
  BY Zenon DEF NextRow, PutPiece, EmptyRun
<1> HIDE DEF x, y, cur, result, cells, put, emptied
<1>4. /\ NextRow(r) = ReadAs(x + 1, 0, cur, result, cells)
      /\ PutPiece(r, token) = ReadAs(x, y + 1, cur + 1, result, put)
      /\ EmptyRun(r, token) = ReadAs(x, y - token, cur - token, result, emptied)
  BY <1>1, <1>3, ReadField
<1>5. \A a, b, c, d, e : /\ ReadAs(a, b, c, d, e).x = a /\ ReadAs(a, b, c, d, e).y = b
                         /\ ReadAs(a, b, c, d, e).cur = c /\ ReadAs(a, b, c, d, e).result = d
  BY DEF ReadAs
<1> QED
  BY <1>2, <1>4, <1>5 DEF x, y, cur, result

LEMMA TokenWidths ==
  ASSUME NEW t \in Token
  PROVE  /\ t \in Int /\ Width(t) \in 1..8
         /\ t \in -8..-1 => Width(t) = -t
         /\ t \notin -8..-1 => Width(t) = 1
<1>1. \A v \in Cell : v \in Int /\ 0 <= v
  BY DEF Cell, EmptyCell
<1>2. t \in Int /\ (t \notin -8..-1 => 0 <= t)
  BY <1>1 DEF Token, Slash, Junk
<1> QED
  BY <1>2 DEF Width

LEMMA SlashRead ==
  ASSUME NEW r \in ReadState, r.result = "Ok", r.y = 8, r.x # 7
  PROVE  ReadCell(r, Slash).result = "Ok"
<1>1. ReadCell(r, Slash) = NextRow(r)
  BY ReadCellCases
<1>2. Slash \in Int
  BY DEF Slash
<1>3. NextRow(r).result = r.result
  BY <1>2, ReadFields
<1> QED
  BY <1>1, <1>3

LEMMA TokenRead ==
  ASSUME NEW r \in ReadState, NEW t \in Token, r.result = "Ok", r.y \in 0..8
  PROVE  LET n == ReadCell(r, t)
         IN  /\ t = Slash =>
                  /\ n.result = "Ok" <=> r.y = 8 /\ r.x # 7
                  /\ n.result = "Ok" => n.x = r.x + 1 /\ n.y = 0 /\ n.cur = r.cur
             /\ t # Slash =>
                  /\ n.result = "Ok" <=> t # Junk /\ r.y + Width(t) <= 8
                  /\ n.result = "Ok" => /\ n.x = r.x /\ n.y = r.y + Width(t)
                                        /\ n.cur = r.cur + Width(t)
             /\ n.result # "Ok" => n.cur = r.cur
<1> DEFINE n == ReadCell(r, t)
           next == NextRow(r)
           put == PutPiece(r, t)
           run == EmptyRun(r, t)
           no(z) == Complain(r, z)
<1>1. t \in Int /\ Width(t) \in 1..8 /\ Slash \notin -8..-1 /\ Junk \notin -8..-1
      /\ r.cur \in Int /\ r.y \in Int
  BY TokenWidths DEF Slash, Junk, ReadState
<1>2. /\ next.x = r.x + 1 /\ next.y = 0 /\ next.cur = r.cur /\ next.result = "Ok"
      /\ put.x = r.x /\ put.y = r.y + 1 /\ put.cur = r.cur + 1 /\ put.result = "Ok"
      /\ run.x = r.x /\ run.y = r.y - t /\ run.cur = r.cur - t /\ run.result = "Ok"
  BY <1>1, ReadFields
<1>3. \A z : no(z).result = z /\ no(z).cur = r.cur
  BY <1>1, ReadFields
<1>4. t = Slash => n = IF r.y # 8 THEN no("BoardRowUnderflow")
                       ELSE IF r.x = 7 THEN no("BoardTooManyRows") ELSE next
  BY ReadCellCases
<1>5. t \in -8..-1 => n = IF r.y - t > 8 THEN no("BoardRowOverflow") ELSE run
  BY ReadCellCases
<1>6. t # Slash /\ t \notin -8..-1 =>
        /\ r.y = 8 => n = no("BoardRowOverflow")
        /\ r.y < 8 /\ t = Junk => n = no("UnexpectedCharacter")
        /\ r.y # 8 /\ ~(r.y < 8 /\ t = Junk) => n = put
  BY <1>1, ReadCellCases
<1> SUFFICES /\ t = Slash =>
                  /\ n.result = "Ok" <=> r.y = 8 /\ r.x # 7
                  /\ n.result = "Ok" => n.x = r.x + 1 /\ n.y = 0 /\ n.cur = r.cur
             /\ t # Slash =>
                  /\ n.result = "Ok" <=> t # Junk /\ r.y + Width(t) <= 8
                  /\ n.result = "Ok" => /\ n.x = r.x /\ n.y = r.y + Width(t)
                                        /\ n.cur = r.cur + Width(t)
             /\ n.result # "Ok" => n.cur = r.cur
  OBVIOUS
<1> HIDE DEF n, next, put, run, no
<1>7. CASE t = Slash
  <2>1. CASE r.y = 8 /\ r.x # 7
    <3>1. n = next
      BY <1>4, <1>7, <2>1
    <3> QED
      BY <1>2, <1>7, <2>1, <3>1
  <2>2. CASE ~(r.y = 8 /\ r.x # 7)
    <3>1. n = no("BoardRowUnderflow") \/ n = no("BoardTooManyRows")
      BY <1>4, <1>7, <2>2
    <3>2. n.result # "Ok" /\ n.cur = r.cur
      BY <1>3, <3>1
    <3> QED
      BY <1>7, <2>2, <3>2
  <2> QED
    BY <2>1, <2>2
<1>8. CASE t \in -8..-1
  <2>1. Width(t) = -t /\ t # Slash /\ t # Junk
    BY <1>1, <1>8, TokenWidths
  <2>2. r.y - t = r.y + Width(t) /\ r.cur - t = r.cur + Width(t)
    BY <1>1, <2>1
  <2>3. CASE r.y + Width(t) <= 8
    <3>1. n = run
      BY <1>1, <1>5, <1>8, <2>2, <2>3
    <3>2. n.x = r.x /\ n.y = r.y + Width(t) /\ n.cur = r.cur + Width(t) /\ n.result = "Ok"
      BY <1>2, <2>2, <3>1
    <3> QED
      BY <2>1, <2>3, <3>2
  <2>4. CASE ~(r.y + Width(t) <= 8)
    <3>1. n = no("BoardRowOverflow")
      BY <1>1, <1>5, <1>8, <2>2, <2>4
    <3>2. n.result # "Ok" /\ n.cur = r.cur
      BY <1>3, <3>1
    <3> QED
      BY <2>1, <2>4, <3>2
  <2> QED
    BY <2>3, <2>4
<1>9. CASE t # Slash /\ t \notin -8..-1
  <2>1. Width(t) = 1
    BY <1>9, TokenWidths
  <2>2. r.y + 1 <= 8 <=> r.y # 8
    OBVIOUS
  <2>3. CASE t # Junk /\ r.y # 8
    <3>1. n = put
      BY <1>6, <1>9, <2>3
    <3> QED
      BY <1>2, <1>9, <2>1, <2>2, <2>3, <3>1
  <2>4. CASE ~(t # Junk /\ r.y # 8)
    <3>1. r.y = 8 \/ (r.y < 8 /\ t = Junk)
      BY <2>4
    <3>2. n = no("BoardRowOverflow") \/ n = no("UnexpectedCharacter")
      BY <1>6, <1>9, <3>1
    <3>3. n.result # "Ok" /\ n.cur = r.cur
      BY <1>3, <3>2
    <3> QED
      BY <1>9, <2>1, <2>2, <2>4, <3>3
  <2> QED
    BY <2>3, <2>4
<1> QED
  BY <1>7, <1>8, <1>9

(* The ends of the rows, and where a row begins and ends.                         *)
Ends(tokens) == {i \in DOMAIN tokens : tokens[i] = Slash} \cup {0, Len(tokens) + 1}
Follows(tokens, i, j) ==
  i \in Ends(tokens) /\ j \in Ends(tokens) /\ i < j /\ \A e \in Ends(tokens) : e > i => e >= j
RowsFull(tokens, k) ==
  \A i, j \in Ends(tokens) : Follows(tokens, i, j) /\ j <= k => Stretch(tokens, i, j - 1) = 8
Slashes(tokens, k) == {i \in 1..k : tokens[i] = Slash}

(* A reader without a complaint, after k tokens of which the last end is the p-th. *)
ReadUpTo(tokens, r, k, p) ==
  /\ p \in Ends(tokens) /\ p <= k /\ \A e \in Ends(tokens) : e > p => e > k
  /\ r.x = Cardinality(Slashes(tokens, k)) /\ r.x \in 0..7
  /\ r.y = Stretch(tokens, p, k) /\ r.y \in 0..8 /\ r.cur = 8 * r.x + r.y
  /\ \A i \in 1..k : tokens[i] # Junk
  /\ RowsFull(tokens, k)

LEMMA EndsAre ==
  ASSUME NEW tokens \in Seq(Token)
  PROVE  /\ Len(tokens) \in Nat /\ DOMAIN tokens = 1..Len(tokens) /\ tokens \in Seq(Int)
         /\ \A e : e \in Ends(tokens) <=> \/ e = 0 \/ e = Len(tokens) + 1
                                          \/ e \in 1..Len(tokens) /\ tokens[e] = Slash
         /\ \A e \in Ends(tokens) : e \in 0..(Len(tokens) + 1)
<1>1. Len(tokens) \in Nat /\ DOMAIN tokens = 1..Len(tokens)
  OBVIOUS
<1>2. tokens \in Seq(Int)
  <2>1. \A t \in Token : t \in Int
    BY TokenWidths
  <2>2. \A i \in 1..Len(tokens) : tokens[i] \in Token
    OBVIOUS
  <2>3. tokens = [i \in 1..Len(tokens) |-> tokens[i]]
    OBVIOUS
  <2> QED
    BY <1>1, <2>1, <2>2, <2>3
<1>3. \A e : e \in Ends(tokens) <=>
        (e = 0 \/ e = Len(tokens) + 1 \/ (e \in 1..Len(tokens) /\ tokens[e] = Slash))
  BY <1>1, Zenon DEF Ends
<1> QED
  BY <1>1, <1>2, <1>3

LEMMA SlashesGrow ==
  ASSUME NEW tokens \in Seq(Token), NEW k \in 1..Len(tokens)
  PROVE  /\ IsFiniteSet(Slashes(tokens, k)) /\ Cardinality(Slashes(tokens, k)) \in Nat
         /\ Cardinality(Slashes(tokens, k)) =
              Cardinality(Slashes(tokens, k - 1)) + (IF tokens[k] = Slash THEN 1 ELSE 0)
<1> DEFINE S == Slashes(tokens, k)
           T == Slashes(tokens, k - 1)
<1>1. \A i : i \in 1..k <=> i \in 1..(k - 1) \/ i = k
  OBVIOUS
<1>2. IsFiniteSet(S) /\ IsFiniteSet(T) /\ Cardinality(S) \in Nat /\ Cardinality(T) \in Nat
  <2>1. IsFiniteSet(1..k) /\ IsFiniteSet(1..(k - 1))
    BY FS_Interval
  <2>2. S \subseteq 1..k /\ T \subseteq 1..(k - 1)
    BY DEF Slashes
  <2> QED
    BY <2>1, <2>2, FS_Subset, FS_CardinalityType
<1>3. S = IF tokens[k] = Slash THEN T \cup {k} ELSE T
  BY <1>1 DEF Slashes
<1>4. k \notin T
  BY DEF Slashes
<1> HIDE DEF S, T
<1>5. Cardinality(T \cup {k}) = Cardinality(T) + 1
  BY <1>2, <1>4, FS_AddElement
<1>6. Cardinality(S) = Cardinality(T) + (IF tokens[k] = Slash THEN 1 ELSE 0)
  BY <1>2, <1>3, <1>5
<1> QED
  BY <1>2, <1>6 DEF S, T

LEMMA ReadSlash ==
  ASSUME NEW tokens \in Seq(Token), NEW k \in 1..Len(tokens), NEW r \in ReadState, NEW p,
         r.result = "Ok", ReadUpTo(tokens, r, k - 1, p), tokens[k] = Slash,
         ReadCell(r, tokens[k]).result = "Ok"
  PROVE  ReadUpTo(tokens, ReadCell(r, tokens[k]), k, k)
<1> DEFINE n == Len(tokens)
           s == ReadCell(r, tokens[k])
<1>1. /\ n \in Nat /\ tokens \in Seq(Int) /\ tokens[k] \in Token /\ k \in Nat /\ k \in 0..n
      /\ k \in Ends(tokens) /\ \A e \in Ends(tokens) : e \in 0..(n + 1)
  BY EndsAre
<1>2. /\ p \in Ends(tokens) /\ p <= k - 1 /\ \A e \in Ends(tokens) : e > p => e > k - 1
      /\ r.x = Cardinality(Slashes(tokens, k - 1)) /\ r.x \in 0..7
      /\ r.y = Stretch(tokens, p, k - 1) /\ r.y \in 0..8 /\ r.cur = 8 * r.x + r.y
      /\ \A i \in 1..(k - 1) : tokens[i] # Junk
      /\ RowsFull(tokens, k - 1)
  BY DEF ReadUpTo
<1>3. r.y = 8 /\ r.x # 7 /\ s.x = r.x + 1 /\ s.y = 0 /\ s.cur = r.cur
  BY <1>1, <1>2, TokenRead
<1> HIDE DEF s
<1>4. s.x = Cardinality(Slashes(tokens, k))
  BY <1>2, <1>3, SlashesGrow
<1>5. Stretch(tokens, k, k) = 0
  BY <1>1, StretchFacts
<1>6. \A i \in 1..k : tokens[i] # Junk
  <2>1. \A i \in 1..k : i \in 1..(k - 1) \/ i = k
    BY <1>1
  <2> QED
    BY <1>2, <2>1 DEF Slash, Junk
<1>7. RowsFull(tokens, k)
  <2>1. ASSUME NEW i \in Ends(tokens), NEW j \in Ends(tokens), Follows(tokens, i, j), j <= k
        PROVE  Stretch(tokens, i, j - 1) = 8
    <3>1. i \in Int /\ j \in Int /\ p \in Int
      BY <1>1, <1>2
    <3>2. CASE j <= k - 1
      BY <1>2, <2>1, <3>2 DEF RowsFull
    <3>3. CASE j = k
      <4>1. i < k /\ \A e \in Ends(tokens) : e > i => e >= k
        BY <2>1, <3>3 DEF Follows
      <4>2. ~(p > i) /\ ~(i > p)
        BY <1>1, <1>2, <3>1, <4>1
      <4>3. i = p
        BY <3>1, <4>2
      <4> QED
        BY <1>2, <1>3, <3>3, <4>3
    <3> QED
      BY <1>1, <2>1, <3>1, <3>2, <3>3
  <2> QED
    BY <2>1 DEF RowsFull
<1>8. \A e \in Ends(tokens) : e > k => e > k
  OBVIOUS
<1>9. k <= k /\ s.x \in 0..7 /\ s.y \in 0..8 /\ s.cur = 8 * s.x + s.y
  <2> DEFINE x == r.x
             y == r.y
             cur == r.cur
  <2>1. x \in 0..7 /\ y = 8 /\ x # 7 /\ cur = 8 * x + y
    BY <1>2, <1>3
  <2> HIDE DEF x, y, cur
  <2>2. x + 1 \in 0..7 /\ cur = 8 * (x + 1) + 0 /\ 0 \in 0..8
    BY <2>1
  <2> QED
    BY <1>1, <1>3, <2>2 DEF x, y, cur
<1> QED
  BY <1>1, <1>3, <1>4, <1>5, <1>6, <1>7, <1>8, <1>9 DEF ReadUpTo, s

LEMMA ReadOther ==
  ASSUME NEW tokens \in Seq(Token), NEW k \in 1..Len(tokens), NEW r \in ReadState, NEW p,
         r.result = "Ok", ReadUpTo(tokens, r, k - 1, p), tokens[k] # Slash,
         ReadCell(r, tokens[k]).result = "Ok"
  PROVE  ReadUpTo(tokens, ReadCell(r, tokens[k]), k, p)
<1> DEFINE n == Len(tokens)
           s == ReadCell(r, tokens[k])
           w == Width(tokens[k])
<1>1. /\ n \in Nat /\ tokens \in Seq(Int) /\ tokens[k] \in Token /\ k \in Nat /\ k \in 0..n
      /\ k \notin Ends(tokens) /\ \A e \in Ends(tokens) : e \in 0..(n + 1)
  BY EndsAre
<1>2. /\ p \in Ends(tokens) /\ p <= k - 1 /\ \A e \in Ends(tokens) : e > p => e > k - 1
      /\ r.x = Cardinality(Slashes(tokens, k - 1)) /\ r.x \in 0..7
      /\ r.y = Stretch(tokens, p, k - 1) /\ r.y \in 0..8 /\ r.cur = 8 * r.x + r.y
      /\ \A i \in 1..(k - 1) : tokens[i] # Junk
      /\ RowsFull(tokens, k - 1)
  BY DEF ReadUpTo
<1>3. /\ tokens[k] # Junk /\ r.y + w <= 8
      /\ s.x = r.x /\ s.y = r.y + w /\ s.cur = r.cur + w
  BY <1>1, <1>2, TokenRead
<1>4. w \in 1..8
  BY <1>1, TokenWidths
<1> HIDE DEF s
<1>5. s.x = Cardinality(Slashes(tokens, k))
  BY <1>2, <1>3, SlashesGrow
<1>6. s.y = Stretch(tokens, p, k)
  <2>1. p \in 0..n /\ k \in (p + 1)..n
    BY <1>1, <1>2
  <2>2. Stretch(tokens, p, k) = Stretch(tokens, p, k - 1) + w
    BY <1>1, <2>1, StretchFacts
  <2> QED
    BY <1>2, <1>3, <2>2
<1>7. \A i \in 1..k : tokens[i] # Junk
  <2>1. \A i \in 1..k : i \in 1..(k - 1) \/ i = k
    BY <1>1
  <2> QED
    BY <1>2, <1>3, <2>1
<1>8. RowsFull(tokens, k)
  <2>1. \A j \in Ends(tokens) : j <= k => j <= k - 1
    BY <1>1
  <2> QED
    BY <1>2, <2>1 DEF RowsFull
<1>9. p <= k /\ \A e \in Ends(tokens) : e > p => e > k
  BY <1>1, <1>2
<1>10. s.x \in 0..7 /\ s.y \in 0..8 /\ s.cur = 8 * s.x + s.y
  <2> DEFINE x == r.x
             y == r.y
             cur == r.cur
  <2>1. x \in 0..7 /\ y \in 0..8 /\ cur = 8 * x + y /\ y + w <= 8
    BY <1>2, <1>3
  <2> HIDE DEF x, y, cur, w
  <2>2. y + w \in 0..8 /\ cur + w = 8 * x + (y + w)
    BY <1>4, <2>1
  <2> QED
    BY <1>3, <2>1, <2>2 DEF x, y, cur
<1> QED
  BY <1>2, <1>5, <1>6, <1>7, <1>8, <1>9, <1>10 DEF ReadUpTo, s

LEMMA EndsFollow ==
  ASSUME NEW tokens \in Seq(Token), NEW i \in Ends(tokens), i # Len(tokens) + 1
  PROVE  \E j : Follows(tokens, i, j)
<1> DEFINE n == Len(tokens)
           later == {e \in Ends(tokens) : e > i}
<1>1. n \in Nat /\ n + 1 \in Ends(tokens) /\ \A e \in Ends(tokens) : e \in 0..(n + 1)
  BY EndsAre
<1>2. n + 1 \in later
  BY <1>1
<1>3. later \subseteq Nat
  BY <1>1
<1>4. PICK j \in later : \A e \in later : j <= e
  BY <1>2, <1>3, LeastNatural
<1>5. i < j /\ \A e \in Ends(tokens) : e > i => e >= j
  BY <1>1, <1>4
<1> QED
  BY <1>4, <1>5 DEF Follows

(* A text of a board, by the ends of its rows.                                    *)
LEMMA BoardTextIs ==
  ASSUME NEW tokens \in Seq(Token)
  PROVE  IsBoardText(tokens) <=> /\ Cardinality(Ends(tokens)) = 9
                                 /\ RowsFull(tokens, Len(tokens) + 1)
                                 /\ \A i \in 1..Len(tokens) : tokens[i] # Junk
<1> DEFINE n == Len(tokens)
           E == Ends(tokens)
           after(i) == CHOOSE j \in E : j > i /\ \A k \in E : k > i => k >= j
<1>1. n \in Nat /\ DOMAIN tokens = 1..n /\ \A e \in E : e \in 0..(n + 1)
  BY EndsAre
<1>2. IsBoardText(tokens) <=>
        /\ Cardinality(E) = 9
        /\ \A i \in E \ {n + 1} : Stretch(tokens, i, after(i) - 1) = 8
        /\ \A i \in DOMAIN tokens : tokens[i] # Junk
  BY DEF IsBoardText, Ends, Stretch
<1>3. ASSUME NEW i \in E, NEW j, Follows(tokens, i, j)
      PROVE  after(i) = j /\ j \in E /\ i # n + 1 /\ j <= n + 1
  <2>1. j \in E /\ j > i /\ \A k \in E : k > i => k >= j
    BY <1>1, <1>3 DEF Follows
  <2>2. after(i) \in E /\ after(i) > i /\ \A k \in E : k > i => k >= after(i)
    BY <2>1
  <2> HIDE DEF after
  <2>3. after(i) = j
    BY <1>1, <2>1, <2>2
  <2> QED
    BY <1>1, <2>1, <2>3
<1> HIDE DEF after
<1>4. (\A i \in E \ {n + 1} : Stretch(tokens, i, after(i) - 1) = 8) <=> RowsFull(tokens, n + 1)
  <2>1. ASSUME \A i \in E \ {n + 1} : Stretch(tokens, i, after(i) - 1) = 8
        PROVE  RowsFull(tokens, n + 1)
    BY <1>3, <2>1 DEF RowsFull
  <2>2. ASSUME RowsFull(tokens, n + 1), NEW i \in E \ {n + 1}
        PROVE  Stretch(tokens, i, after(i) - 1) = 8
    <3>1. PICK j : Follows(tokens, i, j)
      BY <2>2, EndsFollow
    <3> QED
      BY <1>3, <2>2, <3>1 DEF RowsFull
  <2> QED
    BY <2>1, <2>2
<1> QED
  BY <1>1, <1>2, <1>4

LEMMA CountOfEnds ==
  ASSUME NEW tokens \in Seq(Token)
  PROVE  Cardinality(Ends(tokens)) = Cardinality(Slashes(tokens, Len(tokens))) + 2
<1> DEFINE n == Len(tokens)
           S == Slashes(tokens, n)
<1>1. n \in Nat /\ \A e : e \in S => e \in 1..n
  BY EndsAre DEF Slashes
<1>2. Ends(tokens) = (S \cup {0}) \cup {n + 1}
  BY EndsAre DEF Slashes
<1>3. IsFiniteSet(S)
  <2>1. IsFiniteSet(1..n) /\ S \subseteq 1..n
    BY <1>1, FS_Interval
  <2> QED
    BY <2>1, FS_Subset
<1>4. 0 \notin S /\ n + 1 \notin S \cup {0}
  BY <1>1
<1> HIDE DEF S
<1>5. IsFiniteSet(S \cup {0}) /\ Cardinality(S \cup {0}) = Cardinality(S) + 1
  BY <1>3, <1>4, FS_AddElement
<1>6. Cardinality((S \cup {0}) \cup {n + 1}) = Cardinality(S \cup {0}) + 1
  BY <1>4, <1>5, FS_AddElement
<1>7. Cardinality(S) \in Nat
  BY <1>3, FS_CardinalityType
<1> QED
  BY <1>2, <1>5, <1>6, <1>7 DEF S

LEMMA EndCellsIs ==
  ASSUME NEW r \in ReadState
  PROVE  /\ EndCells(r).result = "Ok" <=> r.result = "Ok" /\ r.y = 8 /\ r.x = 7
         /\ EndCells(r).cur = r.cur
<1>1. \A z : Complain(r, z).result = z /\ Complain(r, z).cur = r.cur
  BY DEF Complain, ReadState
<1>2. CASE r.result # "Ok"
  <2>1. EndCells(r) = r
    BY <1>2 DEF EndCells
  <2> QED
    BY <1>2, <2>1
<1>3. CASE r.result = "Ok" /\ r.y # 8
  <2>1. EndCells(r) = Complain(r, "BoardRowUnderflow")
    BY <1>3, Zenon DEF EndCells, Complain
  <2> QED
    BY <1>1, <1>3, <2>1
<1>4. CASE r.result = "Ok" /\ r.y = 8 /\ r.x # 7
  <2>1. EndCells(r) = Complain(r, "BoardNotEnoughRows")
    BY <1>4, Zenon DEF EndCells, Complain
  <2> QED
    BY <1>1, <1>4, <2>1
<1>5. CASE r.result = "Ok" /\ r.y = 8 /\ r.x = 7
  <2>1. EndCells(r) = r
    BY <1>5, Zenon DEF EndCells
  <2> QED
    BY <1>5, <2>1
<1> QED
  BY <1>2, <1>3, <1>4, <1>5

(* The reader, token by token, does not complain before the text has a fault.     *)
ReadFine(tokens, r, k) ==
  /\ r \in ReadState
  /\ r.result = "Ok" => \E p : ReadUpTo(tokens, r, k, p)
  /\ r.cur \in Int /\ r.cur <= 64
  /\ IsBoardText(tokens) => r.result = "Ok"

LEMMA BoardTextGoesOn ==
  ASSUME NEW tokens \in Seq(Token), NEW k \in 1..Len(tokens), NEW r \in ReadState, NEW p,
         r.result = "Ok", ReadUpTo(tokens, r, k - 1, p), IsBoardText(tokens)
  PROVE  ReadCell(r, tokens[k]).result = "Ok"
<1> DEFINE n == Len(tokens)
<1>1. /\ n \in Nat /\ tokens \in Seq(Int) /\ tokens[k] \in Token /\ k \in Nat
      /\ \A e \in Ends(tokens) : e \in 0..(n + 1)
      /\ \A e : e \in Ends(tokens) <=>
           (e = 0 \/ e = n + 1 \/ (e \in 1..n /\ tokens[e] = Slash))
  BY EndsAre
<1>2. /\ p \in Ends(tokens) /\ p <= k - 1 /\ \A e \in Ends(tokens) : e > p => e > k - 1
      /\ r.x = Cardinality(Slashes(tokens, k - 1)) /\ r.x \in 0..7
      /\ r.y = Stretch(tokens, p, k - 1) /\ r.y \in 0..8
  BY DEF ReadUpTo
<1>3. /\ Cardinality(Ends(tokens)) = 9 /\ RowsFull(tokens, n + 1)
      /\ \A i \in 1..n : tokens[i] # Junk
  BY BoardTextIs
<1>4. p \in 0..n /\ p # n + 1
  BY <1>1, <1>2
<1>5. PICK j : Follows(tokens, p, j)
  BY <1>2, <1>4, EndsFollow
<1>6. j \in Ends(tokens) /\ j \in k..(n + 1) /\ Stretch(tokens, p, j - 1) = 8
  <2>1. j \in Ends(tokens) /\ p < j
    BY <1>5 DEF Follows
  <2>2. j \in 0..(n + 1) /\ j > p
    BY <1>1, <1>4, <2>1
  <2>3. j > k - 1
    BY <1>2, <2>1, <2>2
  <2> QED
    BY <1>1, <1>2, <1>3, <1>5, <2>1, <2>2, <2>3 DEF RowsFull
<1>7. CASE tokens[k] = Slash
  <2>1. k \in Ends(tokens) /\ k > p
    BY <1>1, <1>2, <1>4, <1>7
  <2>2. j = k
    BY <1>1, <1>5, <1>6, <2>1 DEF Follows
  <2>3. r.x # 7
    <3> DEFINE c == Cardinality(Slashes(tokens, k))
               all == Cardinality(Slashes(tokens, n))
    <3>1. n \in 1..n /\ IsFiniteSet(Slashes(tokens, n)) /\ Slashes(tokens, k) \subseteq Slashes(tokens, n)
      <4>1. n \in 1..n
        BY <1>1
      <4>2. IsFiniteSet(Slashes(tokens, n))
        BY <4>1, SlashesGrow
      <4>3. \A i \in 1..k : i \in 1..n
        BY <1>1
      <4> QED
        BY <4>1, <4>2, <4>3 DEF Slashes
    <3>2. c <= all
      BY <3>1, FS_Subset
    <3>3. all \in Nat /\ 9 = all + 2
      BY <1>3, <3>1, CountOfEnds, SlashesGrow
    <3>4. c = r.x + 1
      BY <1>2, <1>7, SlashesGrow
    <3> HIDE DEF c, all
    <3> QED
      BY <1>2, <3>2, <3>3, <3>4
  <2>4. r.y = 8
    BY <1>2, <1>6, <2>2
  <2> DEFINE t == tokens[k]
  <2>5. t = Slash
    BY <1>7
  <2> HIDE DEF t
  <2>6. ReadCell(r, t).result = "Ok"
    BY <2>3, <2>4, <2>5, SlashRead
  <2> QED
    BY <2>6 DEF t
<1>8. CASE tokens[k] # Slash
  <2>1. j \in (k + 1)..(n + 1)
    BY <1>1, <1>6, <1>8
  <2> DEFINE P == {i \in 0..(n - k) : Stretch(tokens, p, k + i) >= Stretch(tokens, p, k)}
             m == n - k
  <2>2. m \in Nat
    BY <1>1
  <2>3. ASSUME NEW i \in 0..m PROVE k + i \in p..n /\ Stretch(tokens, p, k + i) \in Nat
    <3>1. k + i \in p..n /\ p \in 0..n
      BY <1>1, <1>2, <1>4
    <3>2. \A x \in p..n : Stretch(tokens, p, x) \in Nat
      BY <1>1, <3>1, StretchFacts
    <3> QED
      BY <3>1, <3>2
  <2>4. 0 \in P
    <3>1. 0 \in 0..m /\ k + 0 = k
      BY <1>1, <2>2
    <3>2. Stretch(tokens, p, k) \in Nat
      BY <2>3, <3>1
    <3> QED
      BY <3>1, <3>2
  <2>5. \A i \in 1..m : i - 1 \in P => i \in P
    <3>1. ASSUME NEW i \in 1..m, i - 1 \in P PROVE i \in P
      <4> DEFINE a == Stretch(tokens, p, k + i)
                 c == Stretch(tokens, p, k + (i - 1))
                 base == Stretch(tokens, p, k)
                 w == Width(tokens[k + i])
      <4>1. k + i \in (p + 1)..n /\ (k + i) - 1 = k + (i - 1) /\ k + i \in 1..n
        BY <1>1, <1>2, <1>4
      <4>2. a = c + w
        BY <1>1, <1>4, <4>1, StretchFacts
      <4>3. w \in 1..8
        BY <4>1, TokenWidths
      <4>4. c \in Nat /\ base \in Nat /\ c >= base
        <5>1. 0 \in 0..m /\ k + 0 = k /\ i - 1 \in 0..m
          BY <1>1, <2>2
        <5> QED
          BY <2>3, <3>1, <5>1
      <4> HIDE DEF a, c, base, w
      <4>5. a >= base
        BY <4>2, <4>3, <4>4
      <4> QED
        BY <4>5 DEF a, base
    <3> QED
      BY <3>1
  <2>6. \A i \in 0..m : i \in P
    <3> HIDE DEF P
    <3> QED
      BY <2>2, <2>4, <2>5, CountUp
  <2>7. Stretch(tokens, p, j - 1) >= Stretch(tokens, p, k)
    <3>1. (j - 1) - k \in 0..m /\ k + ((j - 1) - k) = j - 1
      BY <1>1, <2>1
    <3> QED
      BY <2>6, <3>1
  <2>8. Stretch(tokens, p, k) = r.y + Width(tokens[k])
    <3>1. k \in (p + 1)..n
      BY <1>1, <1>2, <1>4
    <3> QED
      BY <1>1, <1>2, <1>4, <3>1, StretchFacts
  <2>9. r.y + Width(tokens[k]) <= 8
    <3>1. Stretch(tokens, p, k) \in Nat
      BY <1>1, <1>2, <1>4, StretchFacts
    <3> QED
      BY <1>6, <2>7, <2>8, <3>1
  <2> QED
    BY <1>1, <1>2, <1>3, <1>8, <2>9, TokenRead
<1> QED
  BY <1>7, <1>8

LEMMA ReadsFine ==
  ASSUME NEW tokens \in Seq(Token)
  PROVE  ReadFine(tokens, Reads(tokens), Len(tokens))
<1> DEFINE n == Len(tokens)
<1>1. /\ n \in Nat /\ tokens \in Seq(Int) /\ \A k \in 1..n : tokens[k] \in Token
      /\ 0 \in Ends(tokens)
      /\ \A e \in Ends(tokens) : e \in 0..(n + 1)
  BY EndsAre
<1>2. PICK run : /\ run[0] = NewRead
                 /\ \A k \in 1..n : run[k] = ReadCell(run[k - 1], tokens[k])
                 /\ Reads(tokens) = run[n]
  BY <1>1, ReadsRun
<1> DEFINE P == {k \in 0..n : ReadFine(tokens, run[k], k)}
<1>3. 0 \in P
  <2> DEFINE r == NewRead
  <2>1. r \in ReadState /\ r.x = 0 /\ r.y = 0 /\ r.cur = 0 /\ r.result = "Ok"
    <3>1. [c \in Coord |-> EmptyCell] \in [Coord -> Int]
      BY DEF EmptyCell
    <3> QED
      BY <3>1 DEF NewRead, ReadState
  <2> HIDE DEF r
  <2>2. Cardinality(Slashes(tokens, 0)) = 0
    <3>1. Slashes(tokens, 0) = {}
      BY DEF Slashes
    <3> QED
      BY <3>1, FS_EmptySet
  <2>3. Stretch(tokens, 0, 0) = 0
    <3>1. 0 \in 0..n
      BY <1>1
    <3> QED
      BY <1>1, <3>1, StretchFacts
  <2>4. RowsFull(tokens, 0)
    <3>1. ASSUME NEW i \in Ends(tokens), NEW j \in Ends(tokens), i < j, j <= 0 PROVE FALSE
      BY <1>1, <3>1
    <3> QED
      BY <3>1 DEF RowsFull, Follows
  <2>5. ReadUpTo(tokens, r, 0, 0)
    <3>1. 0 <= 0 /\ 0 \in 0..7 /\ 0 \in 0..8 /\ 0 = 8 * 0 + 0 /\ \A i \in 1..0 : FALSE
      OBVIOUS
    <3> QED
      BY <1>1, <2>1, <2>2, <2>3, <2>4, <3>1 DEF ReadUpTo
  <2>6. ReadFine(tokens, r, 0)
    BY <2>1, <2>5 DEF ReadFine
  <2> QED
    BY <1>1, <1>2, <2>6 DEF r
<1>4. \A k \in 1..n : k - 1 \in P => k \in P
  <2>1. ASSUME NEW k \in 1..n, k - 1 \in P PROVE k \in P
    <3> DEFINE r == run[k - 1]
               s == ReadCell(r, tokens[k])
    <3>1. ReadFine(tokens, r, k - 1) /\ run[k] = s
      BY <1>2, <2>1
    <3>2. r \in ReadState /\ tokens[k] \in Token /\ tokens[k] \in Int
      BY <1>1, <3>1, TokenWidths DEF ReadFine
    <3>3. s \in ReadState
      BY <3>2, ReadCellType
    <3> HIDE DEF r
    <3>4. CASE r.result # "Ok"
      <4>1. s = r
        BY <3>4, ReadCellCases
      <4> HIDE DEF s
      <4>2. ReadFine(tokens, s, k)
        BY <3>1, <3>4, <4>1 DEF ReadFine
      <4> QED
        BY <3>1, <4>2
    <3>5. CASE r.result = "Ok"
      <4>1. PICK p : ReadUpTo(tokens, r, k - 1, p)
        BY <3>1, <3>5 DEF ReadFine
      <4>2. IsBoardText(tokens) => s.result = "Ok"
        BY <3>2, <3>5, <4>1, BoardTextGoesOn
      <4>3. s.result = "Ok" => \E q : ReadUpTo(tokens, s, k, q)
        BY <3>2, <3>5, <4>1, ReadSlash, ReadOther
      <4>4. s.cur \in Int /\ s.cur <= 64
        <5>1. CASE s.result = "Ok"
          <6>1. s.x \in 0..7 /\ s.y \in 0..8 /\ s.cur = 8 * s.x + s.y
            BY <4>3, <5>1 DEF ReadUpTo
          <6> DEFINE x == s.x
                     y == s.y
          <6> HIDE DEF x, y, s
          <6>2. x \in 0..7 /\ y \in 0..8 => 8 * x + y \in Int /\ 8 * x + y <= 64
            OBVIOUS
          <6> QED
            BY <6>1, <6>2 DEF x, y
        <5>2. CASE s.result # "Ok"
          <6>1. r.y \in 0..8
            BY <4>1 DEF ReadUpTo
          <6>2. s.cur = r.cur
            BY <3>2, <3>5, <5>2, <6>1, TokenRead
          <6> HIDE DEF s
          <6> QED
            BY <3>1, <6>2 DEF ReadFine
        <5> QED
          BY <5>1, <5>2
      <4> HIDE DEF s
      <4>5. ReadFine(tokens, s, k)
        BY <3>3, <4>2, <4>3, <4>4 DEF ReadFine
      <4> QED
        BY <3>1, <4>5
    <3> QED
      BY <3>4, <3>5
  <2> QED
    BY <2>1
<1>5. n \in P
  <2> HIDE DEF P
  <2>1. \A k \in 0..n : k \in P
    BY <1>1, <1>3, <1>4, CountUp
  <2> QED
    BY <1>1, <2>1
<1> QED
  BY <1>2, <1>5

(* The reader of the cells takes the texts of boards, and no others, and never    *)
(* writes past the last cell.                                                     *)
LEMMA ReaderIsRight ==
  ASSUME NEW tokens \in Seq(Token)
  PROVE  /\ (ReadCells(tokens).result = "Ok") = IsBoardText(tokens)
         /\ ReadCells(tokens).cur <= 64
<1> DEFINE n == Len(tokens)
           r == Reads(tokens)
<1>1. /\ n \in Nat /\ tokens \in Seq(Int) /\ n + 1 \in Ends(tokens)
      /\ \A e \in Ends(tokens) : e \in 0..(n + 1)
  BY EndsAre
<1>2. ReadFine(tokens, r, n)
  BY ReadsFine
<1>3. ReadCells(tokens) = EndCells(r)
  BY DEF ReadCells, Reads, NewRead
<1> HIDE DEF r
<1>4. /\ EndCells(r).result = "Ok" <=> r.result = "Ok" /\ r.y = 8 /\ r.x = 7
      /\ EndCells(r).cur = r.cur /\ r.cur <= 64
  BY <1>2, EndCellsIs DEF ReadFine
<1>5. ASSUME r.result = "Ok" PROVE r.y = 8 /\ r.x = 7 <=> IsBoardText(tokens)
  <2>1. PICK p : ReadUpTo(tokens, r, n, p)
    BY <1>2, <1>5 DEF ReadFine
  <2>2. /\ p \in Ends(tokens) /\ p <= n /\ \A e \in Ends(tokens) : e > p => e > n
        /\ r.x = Cardinality(Slashes(tokens, n)) /\ r.x \in 0..7
        /\ r.y = Stretch(tokens, p, n) /\ RowsFull(tokens, n)
        /\ \A i \in 1..n : tokens[i] # Junk
    BY <2>1 DEF ReadUpTo
  <2>3. r.x = 7 <=> Cardinality(Ends(tokens)) = 9
    <3> DEFINE x == r.x
    <3>1. x \in 0..7 /\ Cardinality(Ends(tokens)) = x + 2
      BY <2>2, CountOfEnds
    <3> HIDE DEF x
    <3>2. x = 7 <=> x + 2 = 9
      BY <3>1
    <3> QED
      BY <3>1, <3>2 DEF x
  <2>4. Follows(tokens, p, n + 1)
    <3>1. \A e \in Ends(tokens) : e > n => e >= n + 1
      BY <1>1
    <3>2. p < n + 1
      BY <1>1, <2>2
    <3> QED
      BY <1>1, <2>2, <3>1, <3>2 DEF Follows
  <2>5. ASSUME NEW i, Follows(tokens, i, n + 1) PROVE i = p
    <3>1. i \in Ends(tokens) /\ i < n + 1 /\ \A e \in Ends(tokens) : e > i => e >= n + 1
      BY <2>5 DEF Follows
    <3>2. i \in 0..(n + 1) /\ p \in 0..(n + 1)
      BY <1>1, <2>2, <3>1
    <3>3. ~(i > p) /\ ~(p > i)
      BY <1>1, <2>2, <3>1, <3>2
    <3> QED
      BY <3>2, <3>3
  <2>6. (n + 1) - 1 = n /\ n + 1 <= n + 1
    BY <1>1
  <2>7. RowsFull(tokens, n + 1) <=> r.y = 8
    <3>1. ASSUME RowsFull(tokens, n + 1) PROVE r.y = 8
      <4>1. Stretch(tokens, p, (n + 1) - 1) = 8
        BY <1>1, <2>2, <2>4, <2>6, <3>1 DEF RowsFull
      <4> QED
        BY <2>2, <2>6, <4>1
    <3>2. ASSUME r.y = 8, NEW i \in Ends(tokens), NEW j \in Ends(tokens), Follows(tokens, i, j)
          PROVE  Stretch(tokens, i, j - 1) = 8
      <4>1. CASE j <= n
        BY <2>2, <3>2, <4>1 DEF RowsFull
      <4>2. CASE j = n + 1
        BY <2>2, <2>5, <2>6, <3>2, <4>2
      <4>3. j <= n \/ j = n + 1
        BY <1>1
      <4> QED
        BY <4>1, <4>2, <4>3
    <3> QED
      BY <3>1, <3>2 DEF RowsFull
  <2> QED
    BY <2>2, <2>3, <2>7, BoardTextIs
<1>6. IsBoardText(tokens) => r.result = "Ok"
  BY <1>2 DEF ReadFine
<1>7. IsBoardText(tokens) \in BOOLEAN
  BY DEF IsBoardText
<1> QED
  BY <1>3, <1>4, <1>5, <1>6, <1>7

LEMMA RowTokens ==
  ASSUME NEW cells \in Cells, NEW x \in Subcoord
  PROVE  RowAsFen(cells, x) \in Seq(Token)
<1>1. PICK run : /\ run[0] = NewRow
                 /\ \A k \in 1..8 : run[k] = PutCell(cells, x, run[k - 1], k - 1)
                 /\ RowAsFen(cells, x) = FlushEmpty(run[8])
  BY RowRun
<1> DEFINE P == {k \in 0..8 : run[k] \in [empty : 0..k, text : Seq(Token)]}
<1>2. 0 \in P
  <2>1. NewRow \in [empty : 0..0, text : Seq(Token)]
    BY DEF NewRow
  <2> QED
    BY <1>1, <2>1
<1>3. ASSUME NEW k \in 0..8, NEW row \in [empty : 0..k, text : Seq(Token)]
      PROVE  FlushEmpty(row) \in Seq(Token)
  <2>1. row.empty \in 0..8 /\ row.text \in Seq(Token)
    OBVIOUS
  <2> DEFINE stretch == row.empty
  <2>2. stretch \in 0..8
    BY <2>1
  <2> HIDE DEF stretch
  <2>3. stretch # 0 => -stretch \in -8..-1
    BY <2>2
  <2>4. stretch # 0 => -stretch \in Token
    BY <2>3 DEF Token
  <2>5. stretch = row.empty
    BY DEF stretch
  <2> QED
    BY <2>1, <2>4, <2>5 DEF FlushEmpty
<1>4. \A k \in 1..8 : k - 1 \in P => k \in P
  <2>1. ASSUME NEW k \in 1..8, k - 1 \in P PROVE k \in P
    <3> DEFINE row == run[k - 1]
               v == cells[MakeCoord(x, k - 1)]
    <3>1. row \in [empty : 0..(k - 1), text : Seq(Token)] /\ k - 1 \in 0..8
      BY <2>1
    <3>2. v \in Token
      BY DEF Token, Cells, MakeCoord, Coord, Subcoord
    <3>3. run[k] = PutCell(cells, x, row, k - 1)
      BY <1>1
    <3> HIDE DEF row, v
    <3>4. CASE v = EmptyCell
      <4>1. run[k] = [row EXCEPT !.empty = @ + 1]
        BY <3>3, <3>4 DEF PutCell, v
      <4>2. row.empty + 1 \in 0..k
        BY <3>1
      <4>3. run[k] \in [empty : 0..k, text : Seq(Token)]
        BY <3>1, <4>1, <4>2
      <4> QED
        BY <4>3
    <3>5. CASE v # EmptyCell
      <4>1. run[k] = [empty |-> 0, text |-> Append(FlushEmpty(row), v)]
        BY <3>3, <3>5 DEF PutCell, v
      <4>2. FlushEmpty(row) \in Seq(Token)
        BY <1>3, <3>1
      <4>3. Append(FlushEmpty(row), v) \in Seq(Token)
        BY <3>2, <4>2
      <4>4. run[k] \in [empty : 0..k, text : Seq(Token)]
        BY <4>1, <4>3
      <4> QED
        BY <4>4
    <3> QED
      BY <3>4, <3>5
  <2> QED
    BY <2>1
<1>5. 8 \in P
  <2> HIDE DEF P
  <2>1. \A k \in 0..8 : k \in P
    BY <1>2, <1>4, CountUp
  <2> QED
    BY <2>1
<1>6. run[8] \in [empty : 0..8, text : Seq(Token)] /\ 8 \in 0..8
  BY <1>5
<1> QED
  BY <1>1, <1>3, <1>6

LEMMA BoardTokens ==
  ASSUME NEW cells \in Cells
  PROVE  CellsAsFen(cells) \in Seq(Token)
<1>1. PICK run : /\ run[0] = RowAsFen(cells, 0)
                 /\ \A k \in 1..7 : run[k] = run[k - 1] \o <<Slash>> \o RowAsFen(cells, k)
                 /\ CellsAsFen(cells) = run[7]
  BY RowsRun
<1> DEFINE P == {k \in 0..7 : run[k] \in Seq(Token)}
<1>2. 0 \in P
  BY <1>1, RowTokens DEF Subcoord
<1>3. \A k \in 1..7 : k - 1 \in P => k \in P
  <2>1. ASSUME NEW k \in 1..7, k - 1 \in P PROVE k \in P
    <3> DEFINE text == run[k - 1]
               row == RowAsFen(cells, k)
    <3>1. text \in Seq(Token) /\ row \in Seq(Token) /\ Slash \in Token
      <4>1. Slash \in Token
        BY DEF Token
      <4>2. k \in Subcoord
        BY DEF Subcoord
      <4> QED
        BY <2>1, <4>1, <4>2, RowTokens
    <3> HIDE DEF text, row
    <3>2. text \o <<Slash>> \in Seq(Token)
      <4>1. <<Slash>> \in Seq(Token)
        BY <3>1
      <4> QED
        BY <3>1, <4>1
    <3>4. (text \o <<Slash>>) \o row \in Seq(Token)
      BY <3>1, <3>2
    <3>3. run[k] \in Seq(Token)
      BY <1>1, <3>4 DEF text, row
    <3> QED
      BY <3>3
  <2> QED
    BY <2>1
<1>4. 7 \in P
  <2> HIDE DEF P
  <2>1. \A k \in 0..7 : k \in P
    BY <1>2, <1>3, CountUp
  <2> QED
    BY <2>1
<1> QED
  BY <1>1, <1>4

LEMMA MisprintTokens ==
  ASSUME NEW text \in Seq(Token), NEW tokens \in Misprints(text)
  PROVE  tokens \in Seq(Token)
<1> DEFINE n == Len(text)
           inserted == {Slash, Junk, -1, -8, MakeCell(Black, Pawn)}
<1>1. n \in Nat /\ DOMAIN text = 1..n /\ \A i \in 1..n : text[i] \in Token
  OBVIOUS
<1>2. inserted \subseteq Token
  BY CellFacts, PieceFacts DEF Token, Slash, Junk, Color
<1>3. ASSUME NEW i \in Int, NEW j \in Int, 1 <= i, j <= n PROVE SubSeq(text, i, j) \in Seq(Token)
  <2>1. \A k \in i..j : text[k] \in Token
    BY <1>1, <1>3
  <2> QED
    BY <2>1, SubSeqProperties, Zenon
<1>4. ASSUME NEW i \in 1..n PROVE RemoveAt(text, i) \in Seq(Token)
  <2>1. SubSeq(text, 1, i - 1) \in Seq(Token) /\ SubSeq(text, i + 1, n) \in Seq(Token)
    BY <1>1, <1>3
  <2> QED
    BY <2>1 DEF RemoveAt
<1>5. ASSUME NEW i \in 1..n, NEW t \in Token PROVE ReplaceAt(text, i, t) \in Seq(Token)
  BY <1>5, ExceptSeq DEF ReplaceAt
<1>6. ASSUME NEW i \in 1..(n + 1), NEW t \in Token PROVE InsertAt(text, i, t) \in Seq(Token)
  <2>1. SubSeq(text, 1, i - 1) \in Seq(Token) /\ SubSeq(text, i, n) \in Seq(Token)
    BY <1>1, <1>3
  <2>2. <<t>> \in Seq(Token)
    OBVIOUS
  <2> QED
    BY <2>1, <2>2 DEF InsertAt
<1>7. Misprints(text) = {RemoveAt(text, i) : i \in DOMAIN text}
                          \cup {ReplaceAt(text, i, t) : i \in DOMAIN text, t \in inserted}
                          \cup {InsertAt(text, i, t) : i \in 1..(n + 1), t \in inserted}
  BY DEF Misprints
<1> HIDE DEF inserted
<1>8. \/ \E i \in 1..n : tokens = RemoveAt(text, i)
      \/ \E i \in 1..n, t \in inserted : tokens = ReplaceAt(text, i, t)
      \/ \E i \in 1..(n + 1), t \in inserted : tokens = InsertAt(text, i, t)
  BY <1>1, <1>7
<1> QED
  BY <1>2, <1>4, <1>5, <1>6, <1>8

(* Positions and moves are read as they were written, in every position of the     *)
(* walk; and of the misprints of a position the reader takes those that are boards. *)
THEOREM TextsReadBack == Spec => []TextRoundTrips
<1>1. ASSUME Sound(core) PROVE TextRoundTrips
  <2>1. Fresh(core) /\ core.cells \in Cells
    BY <1>1, BoardFields DEF Sound, Fresh
  <2>2. FenResult(AsFen(core)) = "Ok" /\ FromFen(AsFen(core)) = core
    BY <2>1, FenAccepted, FenReadsBack
  <2>3. \A m \in GenAllMoves(core) : MoveParse(MoveToStr(m), core) = m
    BY <2>1, MovesReadBack
  <2>4. ASSUME NEW tokens \in Misprints(AsFen(core).cells)
        PROVE  /\ (ReadCells(tokens).result = "Ok") = IsBoardText(tokens)
               /\ ReadCells(tokens).cur <= 64
    <3>1. AsFen(core).cells = CellsAsFen(core.cells)
      BY DEF AsFen
    <3>2. tokens \in Seq(Token)
      BY <2>1, <2>4, <3>1, BoardTokens, MisprintTokens
    <3> QED
      BY <3>2, ReaderIsRight
  <2> QED
    BY <2>2, <2>3, <2>4 DEF TextRoundTrips
<1>2. Chained => TextRoundTrips
  BY <1>1 DEF Chained
<1> QED
  BY <1>2, WalkIsChained, PTL

=============================================================================
