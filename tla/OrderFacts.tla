---------------------------- MODULE OrderFacts ----------------------------
(***************************************************************************)
(* Least and greatest elements of sets of naturals, for the proofs that    *)
(* pick the deepest line, or the longest common prefix; induction; and     *)
(* that a fold over 1..n exists, for those that follow one step by step.   *)
(***************************************************************************)
EXTENDS Naturals, FiniteSetsExt, TLAPS, WellFoundedInduction

(* A nonempty set of naturals has a least element. *)
LEMMA LeastNatural ==
  ASSUME NEW S, S \subseteq Nat, S # {}
  PROVE  \E x \in S : \A y \in S : x <= y
<1> DEFINE R == {ss \in Nat \X Nat : ss[1] < ss[2]}
<1>1. IsWellFoundedOn(R, Nat)
  BY NatLessThanWellFounded DEF OpToRel
<1>2. \A x, y \in Nat : x < y => <<x, y>> \in R
  OBVIOUS
<1> HIDE DEF R
<1>3. PICK x \in S : \A y \in S : ~ (<<y, x>> \in R)
  BY <1>1, WFMin
<1>4. \A y \in S : ~ (y < x)
  BY <1>2, <1>3, Zenon
<1>5. \A y \in S : x <= y
  BY <1>4
<1> QED
  BY <1>5

(* A nonempty set of naturals with an upper bound has a greatest element. *)
LEMMA GreatestNatural ==
  ASSUME NEW N \in Nat, NEW S, S \subseteq 0..N, S # {}
  PROVE  \E x \in S : \A y \in S : y <= x
<1> DEFINE Bounds == {n \in Nat : \A y \in S : y <= n}
<1>1. Bounds \subseteq Nat /\ N \in Bounds
  OBVIOUS
<1> HIDE DEF Bounds
<1>2. PICK x \in Bounds : \A y \in Bounds : x <= y
  BY <1>1, LeastNatural
<1> USE DEF Bounds
<1>3. CASE x \in S
  BY <1>3
<1>4. CASE x \notin S
  <2>1. PICK s \in S : s \in 0..N /\ s <= x /\ s # x
    BY <1>4
  <2>2. \A y \in S : y \in Int /\ y <= x /\ y # x
    BY <1>4
  <2>3. x # 0 /\ x - 1 \in Bounds
    BY <2>1, <2>2
  <2> QED
    BY <1>2, <2>3
<1> QED
  BY <1>3, <1>4

(* Induction over the naturals, as a statement about sets. *)
LEMMA NaturalInduction ==
  ASSUME NEW S, 0 \in S, \A n \in Nat : n \in S => n + 1 \in S
  PROVE  \A n \in Nat : n \in S
<1> SUFFICES ASSUME NEW z \in Nat, z \notin S PROVE FALSE
  OBVIOUS
<1> DEFINE C == {n \in Nat : n \notin S}
<1>1. C \subseteq Nat /\ C # {}
  OBVIOUS
<1> HIDE DEF C
<1>2. PICK x \in C : \A y \in C : x <= y
  BY <1>1, LeastNatural
<1> USE DEF C
<1>3. x \in Nat /\ x \notin S /\ x # 0
  BY <1>2
<1>4. x - 1 \in Nat /\ x - 1 \notin C
  BY <1>2, <1>3
<1>5. (x - 1) + 1 = x
  BY <1>3
<1> QED
  BY <1>3, <1>4, <1>5

-----------------------------------------------------------------------------
(* Folds *)

LEMMA GreatestOf ==
  ASSUME NEW n \in Nat, NEW s \in SUBSET (1..n), s # {}
  PROVE  Max(s) \in s /\ \A y \in s : y <= Max(s)
<1>1. s \subseteq 0..n
  OBVIOUS
<1>2. \E x \in s : \A y \in s : y <= x
  BY <1>1, GreatestNatural
<1>3. \E x \in s : \A y \in s : x >= y
  BY <1>2
<1>4. Max(s) \in s /\ \A y \in s : Max(s) >= y
  BY <1>3 DEF Max
<1> QED
  BY <1>4

(* g folds F over the subsets of 1..n, the greatest number last.                  *)
Folded(g, A, base, F, n, k) ==
  /\ g \in [SUBSET (1..n) -> A] /\ g[{}] = base
  /\ \A s \in SUBSET (1..n) : s # {} /\ s \subseteq 1..k => g[s] = F[<<g[s \ {Max(s)}], Max(s)>>]

LEMMA FoldExists ==
  ASSUME NEW n \in Nat, NEW A, NEW base \in A, NEW F \in [A \X (1..n) -> A]
  PROVE  \E g : Folded(g, A, base, F, n, n)
<1> DEFINE S == {k \in Nat : k <= n => \E g : Folded(g, A, base, F, n, k)}
<1>1. 0 \in S
  <2> DEFINE g == [s \in SUBSET (1..n) |-> base]
  <2>1. g \in [SUBSET (1..n) -> A] /\ g[{}] = base
    OBVIOUS
  <2>2. \A s : s \subseteq 1..0 => s = {}
    OBVIOUS
  <2>3. Folded(g, A, base, F, n, 0)
    BY <2>1, <2>2 DEF Folded
  <2> QED
    BY <2>3
<1>2. ASSUME NEW k \in Nat, k \in S PROVE k + 1 \in S
  <2>1. SUFFICES ASSUME k + 1 <= n PROVE \E g : Folded(g, A, base, F, n, k + 1)
    OBVIOUS
  <2>2. PICK g : Folded(g, A, base, F, n, k)
    BY <1>2, <2>1
  <2> DEFINE j == k + 1
             U == SUBSET (1..n)
             h == [s \in U |-> IF j \in s THEN F[<<g[s \ {j}], j>>] ELSE g[s]]
  <2>3. j \in 1..n
    BY <2>1
  <2>4. h \in [U -> A] /\ h[{}] = base
    BY <2>2, <2>3 DEF Folded
  <2>5. ASSUME NEW s \in U, s # {}, s \subseteq 1..j
        PROVE  h[s] = F[<<h[s \ {Max(s)}], Max(s)>>]
    <3>1. Max(s) \in s /\ \A y \in s : y <= Max(s)
      BY <2>5, GreatestOf
    <3>2. s \ {Max(s)} \in U /\ s \ {j} \in U
      OBVIOUS
    <3>3. CASE j \in s
      <4>1. Max(s) = j
        <5>1. j <= Max(s)
          BY <3>1, <3>3
        <5>2. Max(s) \in 1..j
          BY <2>5, <3>1
        <5> QED
          BY <5>1, <5>2
      <4>2. h[s] = F[<<g[s \ {j}], j>>] /\ h[s \ {j}] = g[s \ {j}]
        BY <3>2, <3>3
      <4> QED
        BY <4>1, <4>2
    <3>4. CASE j \notin s
      <4>1. s \subseteq 1..k
        BY <2>5, <3>4
      <4>2. g[s] = F[<<g[s \ {Max(s)}], Max(s)>>]
        BY <2>2, <2>5, <4>1 DEF Folded
      <4>3. h[s] = g[s] /\ h[s \ {Max(s)}] = g[s \ {Max(s)}]
        BY <3>2, <3>4
      <4> QED
        BY <4>2, <4>3
    <3> QED
      BY <3>3, <3>4
  <2> HIDE DEF h
  <2> QED
    BY <2>4, <2>5 DEF Folded
<1>3. \A k \in Nat : k \in S
  <2> HIDE DEF S
  <2> QED
    BY <1>1, <1>2, NaturalInduction
<1>4. n \in S
  BY <1>3
<1> QED
  BY <1>4

(* Along the numbers 1..n a fold is a run.                                        *)
LEMMA InitialSets ==
  ASSUME NEW n \in Nat, NEW k \in 1..n
  PROVE  /\ 1..k \in SUBSET (1..n) /\ 1..k # {} /\ Max(1..k) = k
         /\ (1..k) \ {k} = 1..(k - 1) /\ 1..0 = {}
<1>1. 1..k \in SUBSET (1..n) /\ k \in 1..k
  OBVIOUS
<1>2. Max(1..k) \in 1..k /\ k <= Max(1..k)
  BY <1>1, GreatestOf
<1> QED
  BY <1>1, <1>2

(* The numbers up to n, as induction over them.                                   *)
LEMMA CountUp ==
  ASSUME NEW n \in Nat, NEW P, 0 \in P, \A k \in 1..n : k - 1 \in P => k \in P
  PROVE  \A k \in 0..n : k \in P
<1> DEFINE S == {k \in Nat : k <= n => k \in P}
<1>1. 0 \in S
  OBVIOUS
<1>2. ASSUME NEW k \in Nat, k \in S PROVE k + 1 \in S
  <2>1. SUFFICES ASSUME k + 1 <= n PROVE k + 1 \in P
    OBVIOUS
  <2>2. k + 1 \in 1..n /\ (k + 1) - 1 = k /\ k \in P
    BY <1>2, <2>1
  <2> QED
    BY <2>2
<1> HIDE DEF S
<1>3. \A k \in Nat : k \in S
  BY <1>1, <1>2, NaturalInduction
<1> QED
  BY <1>3 DEF S
=============================================================================
