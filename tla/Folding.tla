------------------------------ MODULE Folding ------------------------------
(***************************************************************************)
(* What a loop over a finite collection computes stays in its type.         *)
(*                                                                          *)
(* FoldLeft, FoldLeftDomain and MapThenFoldSet, with which the models say   *)
(* what a loop of the code does, are recursive functions over the subsets   *)
(* of the indices, given by CHOOSE.  Nothing is known of such a function    *)
(* until one is shown to exist.  FoldExists constructs it, FoldUnique says  *)
(* that it is the only one, and FoldStays concludes, for every invariant    *)
(* written as a set C that each step maps into itself, that the loop ends   *)
(* in C.  The induction is over the subsets of a finite set, by a smallest  *)
(* counterexample (LeastNat, SubsetInduction).                              *)
(***************************************************************************)
EXTENDS Integers, FiniteSetsExt, FiniteSetTheorems, WellFoundedInduction, TLAPS

\* A set of natural numbers that is not empty has a least element.
LEMMA LeastNat ==
  ASSUME NEW T \in SUBSET Nat, T # {}
  PROVE  \E x \in T : \A y \in T : x <= y
<1> DEFINE R == OpToRel(<, Nat)
<1>1. IsWellFoundedOn(R, Nat)
  BY NatLessThanWellFounded, Zenon
<1>2. \A x, y \in Nat : <<y, x>> \in R <=> y < x
  BY DEF OpToRel
<1> HIDE DEF R
<1>3. PICK x \in T : \A y \in T : ~(<<y, x>> \in R)
  BY <1>1, WFMin, Zenon
<1>4. \A y \in T : x <= y
  <2> SUFFICES ASSUME NEW y \in T PROVE x <= y
    OBVIOUS
  <2>1. x \in Nat /\ y \in Nat /\ ~(y < x)
    BY <1>2, <1>3, Zenon
  <2> QED
    BY <2>1
<1> QED
  BY <1>4

\* Max, which SequencesExt folds a sequence with, chooses an index of it.
LEMMA MaxOf ==
  ASSUME NEW k \in Nat, NEW s \in SUBSET (1 .. k), s # {}
  PROVE  Max(s) \in s
<1> DEFINE T == {k - y : y \in s}
<1>1. T \in SUBSET Nat /\ T # {}
  <2>1. \A y \in s : k - y \in Nat
    OBVIOUS
  <2> QED
    BY <2>1, Zenon
<1>2. PICK x \in T : \A y \in T : x <= y
  BY <1>1, LeastNat, Zenon
<1>3. PICK z \in s : x = k - z
  OBVIOUS
<1>4. \A y \in s : z >= y
  <2> SUFFICES ASSUME NEW y \in s PROVE z >= y
    OBVIOUS
  <2>1. k - y \in T /\ z \in Nat /\ y \in Nat
    OBVIOUS
  <2>2. k - z <= k - y
    BY <1>2, <1>3, <2>1
  <2> QED
    BY <2>1, <2>2
<1> QED
  BY <1>4, Zenon DEF Max

\* Induction over the subsets of a finite set, for a set A of them.
LEMMA SubsetInduction ==
  ASSUME NEW S, IsFiniteSet(S), NEW A \in SUBSET (SUBSET S),
         \A s \in SUBSET S : (\A r \in SUBSET s : r # s => r \in A) => s \in A
  PROVE  A = SUBSET S
<1> DEFINE B == (SUBSET S) \ A
           T == {Cardinality(s) : s \in B}
<1>1. \A s \in SUBSET S : IsFiniteSet(s) /\ Cardinality(s) \in Nat
  BY FS_Subset, FS_CardinalityType
<1> SUFFICES ASSUME B # {} PROVE FALSE
  OBVIOUS
<1>2. PICK s \in B : \A r \in B : Cardinality(s) <= Cardinality(r)
  <2>1. T \in SUBSET Nat /\ T # {}
    BY <1>1
  <2>2. PICK x \in T : \A y \in T : x <= y
    BY <2>1, LeastNat, Zenon
  <2> QED
    BY <2>2
<1>3. \A r \in SUBSET s : r # s => r \in A
  <2> SUFFICES ASSUME NEW r \in SUBSET s, r # s PROVE r \in A
    OBVIOUS
  <2>1. Cardinality(r) < Cardinality(s)
    BY <1>1, FS_Subset
  <2> QED
    BY <1>1, <1>2, <2>1
<1> QED
  BY <1>3

\* h computes, for the subsets of T, the fold that picks and applies F.
Folds(h, T, C, base, pick, F) ==
  /\ h \in [SUBSET T -> C]
  /\ \A s \in SUBSET T : h[s] = IF s = {} THEN base ELSE F[pick[s]][h[s \ {pick[s]}]]

\* pick chooses an element of every subset of S that is not empty.
Picks(pick, S) == \A s \in SUBSET S : s # {} => pick[s] \in s

\* Two folds with the same choices and steps agree wherever both are defined.
LEMMA FoldUnique ==
  ASSUME NEW S, IsFiniteSet(S), NEW C, NEW base, NEW pick, NEW F, Picks(pick, S),
         NEW T \in SUBSET S, NEW U \in SUBSET S, NEW g, NEW h,
         Folds(g, T, C, base, pick, F), Folds(h, U, C, base, pick, F)
  PROVE  \A s \in SUBSET (T \cap U) : g[s] = h[s]
<1> DEFINE D == T \cap U
           A == {s \in SUBSET D : g[s] = h[s]}
<1>1. IsFiniteSet(D)
  BY FS_Subset
<1>2. ASSUME NEW s \in SUBSET D, \A r \in SUBSET s : r # s => r \in A PROVE s \in A
  <2>1. CASE s = {}
    BY <2>1, Zenon DEF Folds
  <2>2. CASE s # {}
    <3>1. pick[s] \in s
      BY <2>2 DEF Picks
    <3>2. g[s \ {pick[s]}] = h[s \ {pick[s]}]
      BY <1>2, <3>1
    <3> QED
      BY <2>2, <3>2, Zenon DEF Folds
  <2> QED
    BY <2>1, <2>2
<1>3. A = SUBSET D
  <2> HIDE DEF D
  <2>1. A \in SUBSET (SUBSET D)
    OBVIOUS
  <2> HIDE DEF A
  <2> QED
    BY <1>1, <1>2, <2>1, SubsetInduction
<1> QED
  BY <1>3

\* g follows h from each set to the next.
Follows(g, h, S, pick) ==
  /\ g[{}] = h[{}]
  /\ \A s \in SUBSET S : s # {} /\ g[s \ {pick[s]}] = h[s \ {pick[s]}] => g[s] = h[s]

\* A function that follows a fold comes to the same result.
LEMMA FoldAgrees ==
  ASSUME NEW S, IsFiniteSet(S), NEW pick, Picks(pick, S), NEW g, NEW h, Follows(g, h, S, pick)
  PROVE  g[S] = h[S]
<1> DEFINE A == {s \in SUBSET S : g[s] = h[s]}
<1>1. ASSUME NEW s \in SUBSET S, \A r \in SUBSET s : r # s => r \in A PROVE s \in A
  <2>1. CASE s = {}
    BY <2>1 DEF Follows
  <2>2. CASE s # {}
    <3>1. s \ {pick[s]} \in SUBSET s /\ s \ {pick[s]} # s
      BY <2>2 DEF Picks
    <3>2. g[s \ {pick[s]}] = h[s \ {pick[s]}]
      BY <1>1, <3>1
    <3> QED
      BY <2>2, <3>2 DEF Follows
  <2> QED
    BY <2>1, <2>2
<1>2. A \in SUBSET (SUBSET S)
  OBVIOUS
<1>3. A = SUBSET S
  <2> HIDE DEF A
  <2> QED
    BY <1>1, <1>2, SubsetInduction
<1> QED
  BY <1>3

\* A function that follows a fold ends in the same type.
LEMMA FoldStays ==
  ASSUME NEW S, IsFiniteSet(S), NEW C, NEW base, NEW pick, NEW F, Picks(pick, S), NEW g, NEW h,
         Folds(h, S, C, base, pick, F), Follows(g, h, S, pick)
  PROVE  g[S] \in C
<1>1. g[S] = h[S]
  BY FoldAgrees
<1> QED
  BY <1>1 DEF Folds

\* The fold exists: steps that keep the type C compute a value in C for every
\* subset of a finite set.
LEMMA FoldExists ==
  ASSUME NEW S, IsFiniteSet(S), NEW C, NEW base \in C, NEW pick, Picks(pick, S),
         NEW F \in [S -> [C -> C]]
  PROVE  \E h : Folds(h, S, C, base, pick, F)
<1> DEFINE Sol(h, T) == Folds(h, T, C, base, pick, F)
           A == {T \in SUBSET S : \E h : Sol(h, T)}
<1>1. ASSUME NEW T \in SUBSET S, \A r \in SUBSET T : r # T => r \in A PROVE T \in A
  <2> DEFINE v == [s \in SUBSET T |-> CHOOSE c : \E k : Sol(k, s) /\ c = k[s]]
             p == pick[T]
             top == IF T = {} THEN base ELSE F[p][v[T \ {p}]]
             h == [s \in SUBSET T |-> IF s = T THEN top ELSE v[s]]
  <2>1. ASSUME NEW s \in SUBSET T, NEW U \in SUBSET T, U # T, s \subseteq U, NEW k, Sol(k, U)
        PROVE  v[s] = k[s]
    <3>0. s # T /\ s \in A
      BY <1>1, <2>1, Zenon
    <3>1. \E l : Sol(l, s) 
      BY <3>0
    <3>2. PICK l : Sol(l, s) /\ v[s] = l[s]
      BY <3>1, Zenon
    <3> HIDE DEF v
    <3>3. s \in SUBSET S /\ U \in SUBSET S /\ s \in SUBSET (s \cap U)
      BY <2>1
    <3>4. \A r \in SUBSET (s \cap U) : l[r] = k[r]
      <4> HIDE DEF A
      <4> QED
        BY <2>1, <3>2, <3>3, FoldUnique
    <3> QED
      BY <3>2, <3>3, <3>4
  <2>2. ASSUME NEW s \in SUBSET T, s # T
        PROVE  /\ v[s] \in C
               /\ v[s] = IF s = {} THEN base ELSE F[pick[s]][v[s \ {pick[s]}]]
    <3>1. PICK k : Sol(k, s)
      BY <1>1, <2>2
    <3>2. \A r \in SUBSET s : v[r] = k[r]
      BY <2>1, <2>2, <3>1, Zenon
    <3>3. s # {} => s \ {pick[s]} \in SUBSET s
      OBVIOUS
    <3> HIDE DEF v
    <3> QED
      BY <3>1, <3>2, <3>3, Zenon DEF Folds
  <2>3. T # {} => p \in T /\ p \in S /\ v[T \ {p}] \in C
    <3>1. T # {} => p \in T
      BY DEF Picks
    <3>2. T # {} => T \ {p} \in SUBSET T /\ T \ {p} # T
      BY <3>1
    <3> HIDE DEF p, v
    <3> QED
      BY <2>2, <3>1, <3>2, Zenon
  <2>4. top \in C
    <3> HIDE DEF v, p
    <3> QED
      BY <2>3
  <2> HIDE DEF v, top
  <2>5. h \in [SUBSET T -> C]
    BY <2>2, <2>4, Zenon
  <2>6. ASSUME NEW s \in SUBSET T
        PROVE  h[s] = IF s = {} THEN base ELSE F[pick[s]][h[s \ {pick[s]}]]
    <3>1. CASE s # T
      <4>1. s # {} => s \ {pick[s]} \in SUBSET T /\ s \ {pick[s]} # T
        BY <3>1
      <4> QED
        BY <2>2, <3>1, <4>1, Zenon
    <3>2. CASE s = T
      <4>1. s # {} => T \ {p} \in SUBSET T /\ T \ {p} # T
        BY <2>3, <3>2
      <4> QED
        BY <3>2, <4>1 DEF top
    <3> QED
      BY <3>1, <3>2
  <2> HIDE DEF h
  <2>7. Sol(h, T)
    BY <2>5, <2>6, Zenon DEF Folds
  <2> QED
    BY <2>7
<1>2. A = SUBSET S
  <2>1. A \in SUBSET (SUBSET S)
    OBVIOUS
  <2> HIDE DEF A
  <2> QED
    BY <1>1, <2>1, SubsetInduction
<1> QED
  BY <1>2
=============================================================================
