------------------------------ MODULE FoldTheorems ------------------------------
(***************************************************************************)
(* What the proofs need of numbers, of functions that go step by step and  *)
(* of the folds of the community modules.  A fold is a recursive function  *)
(* on the subsets of a set; what it takes off next is its choice.  Of the  *)
(* folds over a sequence, which choose the greatest index, the values on   *)
(* the prefixes go step by step; of a sum, the choice does not matter.     *)
(***************************************************************************)
EXTENDS Naturals, FiniteSets, FiniteSetsExt, WellFoundedInduction,
        FiniteSetTheorems, TLAPS

(***************************************************************************)
(* Functions by steps.  What a function of 0 .. k is told to be at n from   *)
(* what it is at n - 1 has an answer for every n, and what each step keeps *)
(* holds of the last one.                                                  *)
(***************************************************************************)
(* A set of numbers has a least one. *)
LEMMA Least ==
    ASSUME NEW T, T \subseteq Nat, T # {}
    PROVE  \E n \in T : \A m \in T : n <= m
<1>1. IsWellFoundedOn(OpToRel(<, Nat), Nat)
  BY NatLessThanWellFounded
<1>2. PICK n \in T : \A m \in T : ~(<<m, n>> \in OpToRel(<, Nat))
  BY <1>1, WFMin
<1>3. \A m \in T : ~(m < n)
  BY <1>2 DEF OpToRel
<1> QED
  BY <1>3

(* What holds at 0 and passes from each number to the next holds up to k. *)
LEMMA Upto ==
    ASSUME NEW k \in Nat, NEW T, 0 \in T,
           \A n \in 1 .. k : n - 1 \in T => n \in T
    PROVE  \A n \in 0 .. k : n \in T
<1> SUFFICES ASSUME NEW x \in 0 .. k, x \notin T PROVE FALSE
  OBVIOUS
<1> DEFINE Out == {n \in 0 .. k : n \notin T}
<1>1. Out \subseteq Nat /\ Out # {}
  OBVIOUS
<1>2. PICK n \in Out : \A m \in Out : n <= m
  BY <1>1, Least
<1>3. n # 0 /\ n \in 1 .. k
  OBVIOUS
<1>4. n - 1 \in 0 .. k /\ n - 1 < n
  BY <1>3
<1>5. n - 1 \in T
  BY <1>2, <1>3, <1>4
<1> QED
  BY <1>3, <1>5

(* A function goes step by step from a start. *)
Steps(step, k, R) == step \in [(1 .. k) \X R -> R]

Follows(f, start, step, k, R) ==
    /\ f \in [0 .. k -> R]
    /\ f[0] = start
    /\ \A n \in 1 .. k : f[n] = step[<<n, f[n - 1]>>]

LEMMA Stepwise ==
    ASSUME NEW k \in Nat, NEW R, NEW start \in R, NEW step, Steps(step, k, R)
    PROVE  \E f : Follows(f, start, step, k, R)
<1> USE DEF Steps
<1> DEFINE Goes(f, m) == f[0] = start /\ \A n \in 1 .. m : f[n] = step[<<n, f[n - 1]>>]
           T == {m \in 0 .. k : \E f \in [0 .. m -> R] : Goes(f, m)}
<1>1. 0 \in T
  <2> DEFINE f == [n \in 0 .. 0 |-> start]
  <2>1. f \in [0 .. 0 -> R] /\ f[0] = start
    OBVIOUS
  <2>2. \A n \in 1 .. 0 : FALSE
    OBVIOUS
  <2> HIDE DEF f
  <2> QED
    BY <2>1, <2>2
<1>2. ASSUME NEW m \in 1 .. k, m - 1 \in T PROVE m \in T
  <2>1. PICK f \in [0 .. m - 1 -> R] : Goes(f, m - 1)
    BY <1>2
  <2> DEFINE g == [n \in 0 .. m |-> IF n < m THEN f[n] ELSE step[<<m, f[m - 1]>>]]
  <2>2. step[<<m, f[m - 1]>>] \in R
    BY <2>1
  <2>3. g \in [0 .. m -> R]
    BY <2>1, <2>2
  <2>4. g[0] = start /\ g[m] = step[<<m, g[m - 1]>>]
    BY <2>1
  <2>5. ASSUME NEW n \in 1 .. m PROVE g[n] = step[<<n, g[n - 1]>>]
    <3>1. CASE n = m
      BY <2>4, <3>1
    <3>2. CASE n # m
      <4>1. n \in 1 .. m - 1 /\ n < m /\ n - 1 < m /\ n \in 0 .. m /\ n - 1 \in 0 .. m
        BY <3>2
      <4>2. g[n] = f[n] /\ g[n - 1] = f[n - 1]
        BY <4>1
      <4> QED
        BY <2>1, <4>1, <4>2
    <3> QED
      BY <3>1, <3>2
  <2> HIDE DEF g
  <2> QED
    BY <2>3, <2>4, <2>5
<1> HIDE DEF T
<1>3. k \in T
  BY <1>1, <1>2, Upto
<1> QED
  BY <1>3 DEF T, Follows

(***************************************************************************)
(* Finite sets, from the small ones to the large.                          *)
(***************************************************************************)
(* What a finite set has if all that have fewer elements do, they all have. *)
LEMMA BySize ==
    ASSUME NEW S, IsFiniteSet(S), NEW T,
           \A s \in SUBSET S :
              (\A t \in SUBSET S : Cardinality(t) < Cardinality(s) => t \in T) => s \in T
    PROVE  \A s \in SUBSET S : s \in T
<1> SUFFICES ASSUME NEW x \in SUBSET S, x \notin T PROVE FALSE
  OBVIOUS
<1> DEFINE Sizes == {Cardinality(s) : s \in {t \in SUBSET S : t \notin T}}
<1>1. \A s \in SUBSET S : Cardinality(s) \in Nat
  BY FS_Subset, FS_CardinalityType
<1>2. Sizes \subseteq Nat /\ Sizes # {}
  BY <1>1
<1>3. PICK n \in Sizes : \A m \in Sizes : n <= m
  BY <1>2, Least
<1>4. PICK s \in SUBSET S : s \notin T /\ n = Cardinality(s)
  OBVIOUS
<1>5. ASSUME NEW t \in SUBSET S, Cardinality(t) < Cardinality(s) PROVE t \in T
  <2>1. Cardinality(t) \in Nat /\ Cardinality(s) \in Nat
    BY <1>1
  <2>2. t \notin T => n <= Cardinality(t)
    BY <1>3
  <2> QED
    BY <1>4, <1>5, <2>1, <2>2
<1> QED
  BY <1>4, <1>5

LEMMA OneLess ==
    ASSUME NEW S, IsFiniteSet(S), NEW x \in S
    PROVE  /\ IsFiniteSet(S \ {x}) /\ Cardinality(S) \in Nat
           /\ Cardinality(S \ {x}) = Cardinality(S) - 1
           /\ Cardinality(S \ {x}) < Cardinality(S)
BY FS_RemoveElement, FS_CardinalityType

(***************************************************************************)
(* Folds.                                                                  *)
(***************************************************************************)
(* A function on the subsets of S that takes an element off at a time. *)
Folds(f, base, step, choice, S, R) ==
    /\ f \in [SUBSET S -> R]
    /\ f = [s \in SUBSET S |-> IF s = {} THEN base ELSE step[<<choice[s], f[s \ {choice[s]}]>>]]

(* There is one. *)
LEMMA FoldExists ==
    ASSUME NEW S, IsFiniteSet(S), NEW R, NEW base \in R,
           NEW choice, \A s \in SUBSET S : s # {} => choice[s] \in s,
           NEW step \in [S \X R -> R]
    PROVE  \E f : Folds(f, base, step, choice, S, R)
<1> DEFINE Small(n) == {s \in SUBSET S : Cardinality(s) <= n}
           Value(f, s) == IF s = {} THEN base ELSE step[<<choice[s], f[s \ {choice[s]}]>>]
           T == {n \in Nat : \E f \in [Small(n) -> R] : \A s \in Small(n) : f[s] = Value(f, s)}
           k == Cardinality(S)
<1>1. k \in Nat /\ \A s \in SUBSET S : IsFiniteSet(s) /\ Cardinality(s) \in Nat /\ Cardinality(s) <= k
  BY FS_Subset, FS_CardinalityType
<1>2. \A s \in SUBSET S : Cardinality(s) <= 0 <=> s = {}
  BY <1>1, FS_EmptySet
<1>3. ASSUME NEW s \in SUBSET S, s # {}
      PROVE  /\ choice[s] \in S /\ s \ {choice[s]} \in SUBSET S
             /\ Cardinality(s \ {choice[s]}) = Cardinality(s) - 1
             /\ Cardinality(s) >= 1
  <2>1. choice[s] \in s
    BY <1>3
  <2> QED
    BY <1>1, <1>2, <2>1, OneLess
<1>4. 0 \in T
  <2> DEFINE f == [s \in Small(0) |-> base]
  <2>1. f \in [Small(0) -> R]
    OBVIOUS
  <2>2. \A s \in Small(0) : s = {} /\ f[s] = base
    BY <1>2
  <2> HIDE DEF f
  <2> QED
    BY <2>1, <2>2
<1>5. ASSUME NEW n \in 1 .. k, n - 1 \in T PROVE n \in T
  <2>1. n \in Nat /\ n - 1 \in Nat
    OBVIOUS
  <2>2. PICK f \in [Small(n - 1) -> R] : \A s \in Small(n - 1) : f[s] = Value(f, s)
    BY <1>5
  <2> DEFINE g == [s \in Small(n) |-> Value(f, s)]
  <2>3. \A s \in Small(n - 1) : s \in Small(n)
    BY <1>1, <2>1
  <2>4. \A s \in Small(n) : s # {} => s \ {choice[s]} \in Small(n - 1)
    BY <1>1, <1>3, <2>1
  <2>5. \A s \in Small(n) : Value(f, s) \in R
    BY <1>3, <2>4
  <2>6. g \in [Small(n) -> R]
    BY <2>5
  <2>7. \A s \in Small(n - 1) : g[s] = f[s]
    BY <2>2, <2>3
  <2>8. \A s \in Small(n) : g[s] = Value(f, s)
    OBVIOUS
  <2>9. \A s \in Small(n) : g[s] = Value(g, s)
    <3> HIDE DEF g, Small
    <3> QED
      BY <2>4, <2>7, <2>8
  <2> HIDE DEF g, Value, Small
  <2> QED
    BY <2>1, <2>6, <2>9
<1> HIDE DEF T
<1>6. k \in T
  BY <1>1, <1>4, <1>5, Upto
<1>7. Small(k) = SUBSET S
  BY <1>1
<1>8. PICK f \in [SUBSET S -> R] : \A s \in SUBSET S : f[s] = Value(f, s)
  BY <1>6, <1>7 DEF T
<1>9. f = [s \in SUBSET S |-> Value(f, s)]
  BY <1>8
<1> QED
  BY <1>8, <1>9 DEF Folds

(* The greatest index of a sequence's prefix is its last. *)
LEMMA MaxIs ==
    ASSUME NEW k \in Nat, NEW s, s \subseteq 0 .. k, s # {}
    PROVE  Max(s) \in s /\ \A y \in s : y <= Max(s)
<1> DEFINE T == {k - y : y \in s}
<1>1. T \subseteq Nat /\ T # {}
  <2>1. \A y \in s : k - y \in Nat
    OBVIOUS
  <2> QED
    BY <2>1
<1>2. PICK n \in T : \A m \in T : n <= m
  BY <1>1, Least
<1>3. PICK x \in s : n = k - x
  OBVIOUS
<1>4. ASSUME NEW y \in s PROVE x >= y
  <2>1. n <= k - y
    BY <1>2
  <2> QED
    BY <1>3, <2>1
<1>5. \E z \in s : \A y \in s : z >= y
  BY <1>4
<1>6. Max(s) \in s /\ \A y \in s : Max(s) >= y
  BY <1>5 DEF Max
<1> QED
  BY <1>6

LEMMA MinIs ==
    ASSUME NEW s, s \subseteq Nat, s # {}
    PROVE  Min(s) \in s /\ \A y \in s : Min(s) <= y
BY Least DEF Min

LEMMA Prefix ==
    ASSUME NEW n \in Nat, n # 0
    PROVE  /\ Max(1 .. n) = n /\ (1 .. n) \ {n} = 1 .. n - 1
           /\ 1 .. n # {} /\ n - 1 \in Nat
<1>1. 1 .. n \subseteq 0 .. n /\ n \in 1 .. n /\ 1 .. n # {}
  OBVIOUS
<1>2. Max(1 .. n) \in 1 .. n /\ n <= Max(1 .. n)
  BY <1>1, MaxIs
<1> QED
  BY <1>1, <1>2

(* The choice of a fold over a sequence of length k. *)
Greatest(k) == [s \in SUBSET (1 .. k) |-> Max(s)]

LEMMA GreatestIs ==
    ASSUME NEW k \in Nat
    PROVE  /\ IsFiniteSet(1 .. k)
           /\ \A s \in SUBSET (1 .. k) : s # {} => Greatest(k)[s] \in s
<1>1. ASSUME NEW s \in SUBSET (1 .. k), s # {} PROVE Greatest(k)[s] \in s
  <2>1. s \subseteq 0 .. k
    OBVIOUS
  <2> QED
    BY <1>1, <2>1, MaxIs DEF Greatest
<1> QED
  BY <1>1, FS_Interval

(* A fold over a sequence of length k. *)
InOrder(f, base, step, k) ==
    f = [s \in SUBSET (1 .. k) |-> IF s = {} THEN base ELSE step[<<Max(s), f[s \ {Max(s)}]>>]]

LEMMA FoldsInOrder ==
    ASSUME NEW k \in Nat, NEW R, NEW base \in R, NEW step, Steps(step, k, R)
    PROVE  \E f \in [SUBSET (1 .. k) -> R] : InOrder(f, base, step, k)
<1>1. PICK f : Folds(f, base, step, Greatest(k), 1 .. k, R)
  BY GreatestIs, FoldExists DEF Steps
<1>2. f = [s \in SUBSET (1 .. k) |->
             IF s = {} THEN base ELSE step[<<Greatest(k)[s], f[s \ {Greatest(k)[s]}]>>]]
  BY <1>1 DEF Folds
<1>3. \A s \in SUBSET (1 .. k) : Greatest(k)[s] = Max(s)
  BY DEF Greatest
<1>4. f = [s \in SUBSET (1 .. k) |->
             IF s = {} THEN base ELSE step[<<Max(s), f[s \ {Max(s)}]>>]]
  BY <1>2, <1>3
<1> QED
  BY <1>1, <1>4 DEF Folds, InOrder

LEMMA PrefixesAre ==
    ASSUME NEW k \in Nat
    PROVE  /\ 1 .. 0 = {} /\ {} \in SUBSET (1 .. k)
           /\ \A s \in SUBSET (1 .. k) : s # {} => Max(s) \in 1 .. k
           /\ \A n \in 1 .. k :
                 /\ 1 .. n \in SUBSET (1 .. k) /\ 1 .. n # {} /\ n - 1 \in 0 .. k /\ n \in 0 .. k
                 /\ Max(1 .. n) = n /\ (1 .. n) \ {n} = 1 .. n - 1
<1>1. \A s \in SUBSET (1 .. k) : s # {} => Max(s) \in 1 .. k
  <2>1. \A s \in SUBSET (1 .. k) : s # {} => Greatest(k)[s] \in s /\ Greatest(k)[s] = Max(s)
    BY GreatestIs DEF Greatest
  <2> QED
    BY <2>1
<1>2. ASSUME NEW n \in 1 .. k
      PROVE  /\ 1 .. n \in SUBSET (1 .. k) /\ 1 .. n # {} /\ n - 1 \in 0 .. k /\ n \in 0 .. k
             /\ Max(1 .. n) = n /\ (1 .. n) \ {n} = 1 .. n - 1
  <2>1. n \in Nat /\ n # 0 /\ n <= k
    OBVIOUS
  <2>2. 1 .. n \in SUBSET (1 .. k) /\ n - 1 \in 0 .. k /\ n \in 0 .. k
    BY <2>1
  <2> QED
    BY <2>1, <2>2, Prefix
<1>3. 1 .. 0 = {} /\ {} \in SUBSET (1 .. k)
  OBVIOUS
<1> QED
  BY <1>1, <1>2, <1>3

(***************************************************************************)
(* Sums.                                                                   *)
(***************************************************************************)
Whichever(s) == CHOOSE x \in s : TRUE

(* The fold that adds w. *)
Sums(f, w, S) == f = [s \in SUBSET S |-> IF s = {} THEN 0 ELSE w[Whichever(s)] + f[s \ {Whichever(s)}]]

Adds(f, w, S) ==
    /\ f \in [SUBSET S -> Nat] /\ f[{}] = 0
    /\ \A s \in SUBSET S : s # {} => f[s] = w[Whichever(s)] + f[s \ {Whichever(s)}]

LEMMA SumExists ==
    ASSUME NEW S, IsFiniteSet(S), NEW w \in [S -> Nat]
    PROVE  \E f : Sums(f, w, S)
<1> DEFINE choice == [s \in SUBSET S |-> Whichever(s)]
           step == [p \in S \X Nat |-> w[p[1]] + p[2]]
<1>1. \A s \in SUBSET S : s # {} => choice[s] \in s
  BY DEF Whichever
<1>2. step \in [S \X Nat -> Nat]
  OBVIOUS
<1>3. \A x \in S, n \in Nat : step[<<x, n>>] = w[x] + n
  OBVIOUS
<1>4. \A s \in SUBSET S : choice[s] = Whichever(s)
  OBVIOUS
<1> HIDE DEF choice, step
<1>5. PICK f : Folds(f, 0, step, choice, S, Nat)
  BY <1>1, <1>2, FoldExists
<1>6. f \in [SUBSET S -> Nat]
  BY <1>5 DEF Folds
<1>7. ASSUME NEW s \in SUBSET S
      PROVE  f[s] = IF s = {} THEN 0 ELSE w[Whichever(s)] + f[s \ {Whichever(s)}]
  <2>1. f[s] = IF s = {} THEN 0 ELSE step[<<choice[s], f[s \ {choice[s]}]>>]
    BY <1>5 DEF Folds
  <2>2. s # {} => Whichever(s) \in S /\ f[s \ {Whichever(s)}] \in Nat
    BY <1>6 DEF Whichever
  <2> QED
    BY <1>3, <1>4, <2>1, <2>2
<1>8. f = [s \in SUBSET S |-> IF s = {} THEN 0 ELSE w[Whichever(s)] + f[s \ {Whichever(s)}]]
  BY <1>6, <1>7
<1> QED
  BY <1>8 DEF Sums

(* What a function so defined is, is a sum. *)
LEMMA AddsIs ==
    ASSUME NEW S, IsFiniteSet(S), NEW w \in [S -> Nat], NEW f, Sums(f, w, S)
    PROVE  Adds(f, w, S)
<1> DEFINE T == {s \in SUBSET S : f[s] \in Nat}
<1>1. \A s \in SUBSET S : f[s] = IF s = {} THEN 0 ELSE w[Whichever(s)] + f[s \ {Whichever(s)}]
  BY DEF Sums
<1>2. ASSUME NEW s \in SUBSET S, \A t \in SUBSET S : Cardinality(t) < Cardinality(s) => t \in T
      PROVE  s \in T
  <2>1. CASE s = {}
    <3>1. f[s] = 0
      BY <1>1, <2>1, Zenon
    <3>2. f[s] \in Nat
      BY <3>1
    <3> QED
      BY <3>2
  <2>2. CASE s # {}
    <3>1. Whichever(s) \in s
      BY <2>2 DEF Whichever
    <3>2. IsFiniteSet(s)
      BY FS_Subset
    <3>3. s \ {Whichever(s)} \in T
      BY <1>2, <3>1, <3>2, OneLess
    <3>4. f[s] = w[Whichever(s)] + f[s \ {Whichever(s)}]
      BY <1>1, <2>2
    <3>5. f[s \ {Whichever(s)}] \in Nat /\ w[Whichever(s)] \in Nat
      BY <3>1, <3>3
    <3> QED
      BY <3>4, <3>5
  <2> QED
    BY <2>1, <2>2
<1> HIDE DEF T
<1>3. \A s \in SUBSET S : s \in T
  BY <1>2, BySize
<1>4. f \in [SUBSET S -> Nat]
  BY <1>3 DEF T, Sums
<1> QED
  BY <1>1, <1>4 DEF Adds

(* Whichever element may be added last. *)
LEMMA SumAdds ==
    ASSUME NEW S, IsFiniteSet(S), NEW w \in [S -> Nat], NEW f, Adds(f, w, S)
    PROVE  \A s \in SUBSET S : \A x \in s : f[s] = w[x] + f[s \ {x}]
<1> DEFINE T == {s \in SUBSET S : \A x \in s : f[s] = w[x] + f[s \ {x}]}
<1>1. ASSUME NEW s \in SUBSET S, \A t \in SUBSET S : Cardinality(t) < Cardinality(s) => t \in T
      PROVE  s \in T
  <2>1. SUFFICES ASSUME NEW x \in s PROVE f[s] = w[x] + f[s \ {x}]
    OBVIOUS
  <2> DEFINE y == Whichever(s)
  <2>2. y \in s /\ f[s] = w[y] + f[s \ {y}]
    BY DEF Whichever, Adds
  <2> HIDE DEF y
  <2>3. CASE x = y
    BY <2>2, <2>3
  <2>4. CASE x # y
    <3>1. IsFiniteSet(s)
      BY FS_Subset
    <3>2. s \ {y} \in T /\ s \ {x} \in T
      BY <1>1, <2>2, <3>1, OneLess
    <3>3. f[s \ {y}] = w[x] + f[(s \ {y}) \ {x}]
      BY <2>4, <3>2
    <3>4. f[s \ {x}] = w[y] + f[(s \ {x}) \ {y}]
      BY <2>2, <2>4, <3>2
    <3>5. (s \ {x}) \ {y} = (s \ {y}) \ {x}
      OBVIOUS
    <3>6. /\ f[s] \in Nat /\ f[s \ {y}] \in Nat /\ f[s \ {x}] \in Nat
          /\ f[(s \ {y}) \ {x}] \in Nat /\ w[x] \in Nat /\ w[y] \in Nat
      BY <2>2 DEF Adds
    <3> DEFINE rest == f[(s \ {y}) \ {x}]
    <3>7. f[s] = w[y] + (w[x] + rest) /\ f[s \ {x}] = w[y] + rest
      BY <2>2, <3>3, <3>4, <3>5
    <3> HIDE DEF rest
    <3>8. w[y] + (w[x] + rest) = w[x] + (w[y] + rest)
      BY <3>6 DEF rest
    <3> QED
      BY <3>7, <3>8
  <2> QED
    BY <2>3, <2>4
<1> HIDE DEF T
<1>2. \A s \in SUBSET S : s \in T
  BY <1>1, BySize
<1> QED
  BY <1>2 DEF T

(* More elements, no smaller a sum. *)
LEMMA SumGrows ==
    ASSUME NEW S, IsFiniteSet(S), NEW w \in [S -> Nat], NEW f, Adds(f, w, S)
    PROVE  \A s, t \in SUBSET S : s \subseteq t => f[s] <= f[t]
<1> DEFINE T == {t \in SUBSET S : \A s \in SUBSET t : f[s] <= f[t]}
<1>1. ASSUME NEW t \in SUBSET S, \A s \in SUBSET S : Cardinality(s) < Cardinality(t) => s \in T
      PROVE  t \in T
  <2>1. SUFFICES ASSUME NEW s \in SUBSET t PROVE f[s] <= f[t]
    OBVIOUS
  <2>2. f[s] \in Nat /\ f[t] \in Nat
    BY DEF Adds
  <2>3. CASE s = t
    BY <2>2, <2>3
  <2>4. CASE s # t
    <3>1. PICK x \in t : x \notin s
      BY <2>4
    <3>2. IsFiniteSet(t)
      BY FS_Subset
    <3>3. t \ {x} \in T /\ s \in SUBSET (t \ {x})
      BY <1>1, <3>1, <3>2, OneLess
    <3>4. w[x] \in Nat /\ f[t \ {x}] \in Nat /\ f[t] = w[x] + f[t \ {x}]
      <4>1. f[t] = w[x] + f[t \ {x}]
        BY SumAdds
      <4> QED
        BY <4>1 DEF Adds
    <3>5. f[s] <= f[t \ {x}]
      BY <3>3
    <3> QED
      BY <2>2, <3>4, <3>5
  <2> QED
    BY <2>3, <2>4
<1> HIDE DEF T
<1>2. \A t \in SUBSET S : t \in T
  BY <1>1, BySize
<1> QED
  BY <1>2 DEF T

(* The same elements with the same weights, the same sum. *)
LEMMA SumAgrees ==
    ASSUME NEW S, IsFiniteSet(S), NEW w \in [S -> Nat], NEW f, Adds(f, w, S),
           NEW V, NEW v, NEW g, Adds(g, v, V), S \subseteq V, \A x \in S : v[x] = w[x]
    PROVE  \A s \in SUBSET S : f[s] = g[s]
<1> DEFINE T == {s \in SUBSET S : f[s] = g[s]}
<1>1. ASSUME NEW s \in SUBSET S, \A t \in SUBSET S : Cardinality(t) < Cardinality(s) => t \in T
      PROVE  s \in T
  <2>1. CASE s = {}
    BY <2>1 DEF Adds
  <2>2. CASE s # {}
    <3>1. Whichever(s) \in s
      BY <2>2 DEF Whichever
    <3>2. IsFiniteSet(s) /\ s \in SUBSET V
      BY FS_Subset
    <3>3. s \ {Whichever(s)} \in T
      BY <1>1, <3>1, <3>2, OneLess
    <3>4. f[s] = w[Whichever(s)] + f[s \ {Whichever(s)}]
      BY <2>2 DEF Adds
    <3>5. g[s] = v[Whichever(s)] + g[s \ {Whichever(s)}]
      BY <2>2, <3>2 DEF Adds
    <3> QED
      BY <3>1, <3>3, <3>4, <3>5
  <2> QED
    BY <2>1, <2>2
<1> HIDE DEF T
<1>2. \A s \in SUBSET S : s \in T
  BY <1>1, BySize
<1> QED
  BY <1>2 DEF T
===============================================================================
