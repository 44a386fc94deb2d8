------------------------------ MODULE SumProofs ------------------------------
(***************************************************************************)
(* Sums over finite sets, as the community modules define them: what       *)
(* MapThenSumSet gives for every finite set and every integer function.    *)
(*                                                                         *)
(* The library's induction theorems take the induction predicate as an     *)
(* operator; the two lemmas here take it as a set, from the well-founded   *)
(* orders of the library, and so can be cited.  SumFunction, the sum of a  *)
(* whole function, is the same sum over its domain (SumFunctionIs).        *)
(***************************************************************************)
EXTENDS Integers, Sequences, FiniteSets, FiniteSetsExt, SequencesExt,
        FiniteSetTheorems, WellFoundedInduction, TLAPS

-------------------------------------------------------------------------------
(* Induction *)

(* A set that holds 0 and with every number its successor holds them all.   *)
LEMMA NatSetInduction ==
  ASSUME NEW T \in SUBSET Nat, 0 \in T, \A n \in T : n + 1 \in T
  PROVE  T = Nat
<1> DEFINE less == OpToRel(<, Nat)
           rest == Nat \ T
<1>1. \A m, n \in Nat : m < n => <<m, n>> \in less
  BY DEF OpToRel
<1>2. ASSUME rest # {} PROVE FALSE
  <2>1. IsWellFoundedOn(less, Nat)
    BY NatLessThanWellFounded
  <2> HIDE DEF less
  <2>2. PICK n \in rest : \A m \in rest : <<m, n>> \notin less
    BY <1>2, <2>1, WFMin
  <2>3. n - 1 \in Nat /\ n - 1 < n
    BY <2>2
  <2>4. <<n - 1, n>> \in less
    BY <1>1, <2>3
  <2>5. n - 1 \in T
    BY <2>2, <2>3, <2>4
  <2>6. (n - 1) + 1 = n
    OBVIOUS
  <2>7. n \in T
    BY <2>5, <2>6
  <2> QED BY <2>2, <2>7
<1> QED BY <1>2

(* A set of subsets that holds each one whose proper subsets it holds has   *)
(* all subsets of a finite set.                                             *)
LEMMA SubsetInduction ==
  ASSUME NEW U, IsFiniteSet(U), NEW T \in SUBSET (SUBSET U),
         \A s \in SUBSET U : (\A r \in SUBSET s : r # s => r \in T) => s \in T
  PROVE  T = SUBSET U
<1> DEFINE rest == (SUBSET U) \ T
           less == StrictSubsetOrdering(U)
<1>1. \A r, s \in SUBSET U : r \subseteq s /\ r # s => <<r, s>> \in less
  BY DEF StrictSubsetOrdering
<1>2. ASSUME rest # {} PROVE FALSE
  <2>1. IsWellFoundedOn(less, SUBSET U)
    BY FS_StrictSubsetOrderingWellFounded, FS_FiniteSubsetsOfFinite
  <2>a. rest \subseteq SUBSET U
    OBVIOUS
  <2> HIDE DEF less, rest
  <2>2. PICK s \in rest : \A r \in rest : <<r, s>> \notin less
    BY <1>2, <2>1, <2>a, WFMin
  <2>3. ASSUME NEW r \in SUBSET s, r # s PROVE r \in T
    <3>1. r \in SUBSET U /\ s \in SUBSET U
      BY <2>2, <2>3, <2>a
    <3>2. r \notin rest
      BY <1>1, <2>2, <2>3, <3>1
    <3> QED BY <3>1, <3>2 DEF rest
  <2> USE DEF rest
  <2> QED BY <2>2, <2>3
<1> QED BY <1>2

-------------------------------------------------------------------------------
(* Sums *)

(* One step of the fold: it adds the member that CHOOSE picks to what it    *)
(* makes of the rest.                                                       *)
AddChosen(it, g, s) ==
  IF s = {} THEN 0 ELSE LET x == CHOOSE x \in s : TRUE IN g[x] + it[s \ {x}]
(* The function the fold computes, one value for each subset.               *)
Iterates(it, g, U) == it = [s \in SUBSET U |-> AddChosen(it, g, s)]

(* There is such a function: it is built up by the size of the subsets.     *)
LEMMA SumExists ==
  ASSUME NEW U, IsFiniteSet(U), NEW g, \A x \in U : g[x] \in Int
  PROVE  \E it \in [SUBSET U -> Int] : Iterates(it, g, U)
<1> DEFINE Upto(n, it) == \A s \in SUBSET U : Cardinality(s) <= n => it[s] = AddChosen(it, g, s)
           T == {n \in Nat : \E it \in [SUBSET U -> Int] : Upto(n, it)}
<1>1. \A s \in SUBSET U : IsFiniteSet(s) /\ Cardinality(s) \in Nat
  BY FS_Subset, FS_CardinalityType
<1>2. \A s \in SUBSET U : s # {} => (CHOOSE x \in s : TRUE) \in s
  OBVIOUS
<1>3. 0 \in T
  <2> DEFINE it == [s \in SUBSET U |-> 0]
  <2>1. it \in [SUBSET U -> Int]
    OBVIOUS
  <2>2. Upto(0, it)
    BY <1>1, <2>1, FS_EmptySet DEF AddChosen
  <2> QED BY <2>1, <2>2
<1>4. ASSUME NEW n \in T PROVE n + 1 \in T
  <2>1. PICK it \in [SUBSET U -> Int] : Upto(n, it)
    OBVIOUS
  <2> DEFINE jt == [s \in SUBSET U |-> IF Cardinality(s) <= n THEN it[s] ELSE AddChosen(it, g, s)]
  <2>2. ASSUME NEW s \in SUBSET U PROVE AddChosen(it, g, s) \in Int
    BY <1>2 DEF AddChosen
  <2>3. jt \in [SUBSET U -> Int]
    BY <2>2
  <2>4. ASSUME NEW s \in SUBSET U, Cardinality(s) <= n + 1 PROVE jt[s] = AddChosen(jt, g, s)
    <3>1. jt[s] = AddChosen(it, g, s)
      BY <2>1
    <3>2. CASE s = {}
      BY <3>1, <3>2 DEF AddChosen
    <3>3. CASE s # {}
      <4>1. PICK x \in s : x = CHOOSE y \in s : TRUE
        BY <3>3
      <4>2. s \ {x} \in SUBSET U /\ Cardinality(s \ {x}) <= n
        BY <1>1, <2>4, FS_RemoveElement
      <4>3. jt[s \ {x}] = it[s \ {x}]
        BY <4>2
      <4> QED BY <3>1, <3>3, <4>1, <4>3 DEF AddChosen
    <3> QED BY <3>2, <3>3
  <2> HIDE DEF jt
  <2>5. Upto(n + 1, jt)
    BY <2>4
  <2> QED BY <2>3, <2>5
<1>5. T = Nat
  <2> HIDE DEF T
  <2>1. T \subseteq Nat
    BY DEF T
  <2> QED BY <1>3, <1>4, <2>1, NatSetInduction
<1>6. PICK it \in [SUBSET U -> Int] : Upto(Cardinality(U), it)
  BY <1>1, <1>5
<1>7. \A s \in SUBSET U : it[s] = AddChosen(it, g, s)
  BY <1>1, <1>6, FS_Subset
<1> QED BY <1>7 DEF Iterates

(* What makes it a sum: any member may be taken out, not just the chosen    *)
(* one.                                                                     *)
SumLaw(it, g, U) ==
  /\ it[{}] = 0
  /\ it \in [SUBSET U -> Int]
  /\ \A s \in SUBSET U : \A x \in s : it[s] = g[x] + it[s \ {x}]

(* The order in which the fold adds the members does not matter.            *)
LEMMA SumStep ==
  ASSUME NEW U, IsFiniteSet(U), NEW g, \A x \in U : g[x] \in Int, NEW it, Iterates(it, g, U)
  PROVE  SumLaw(it, g, U)
<1>1. \A s \in SUBSET U : it[s] = AddChosen(it, g, s)
  BY DEF Iterates
<1>2. it[{}] = 0
  BY <1>1 DEF AddChosen
<1> DEFINE T == {s \in SUBSET U : it[s] \in Int}
           V == {s \in SUBSET U : \A x \in s : it[s] = g[x] + it[s \ {x}]}
           C(s) == CHOOSE y \in s : TRUE
<1>3. ASSUME NEW s \in SUBSET U, s # {}
      PROVE  /\ C(s) \in s /\ C(s) \in U /\ s \ {C(s)} \in SUBSET s /\ s \ {C(s)} # s
             /\ it[s] = g[C(s)] + it[s \ {C(s)}]
  <2>1. C(s) \in s
    BY <1>3
  <2>2. it[s] = g[C(s)] + it[s \ {C(s)}]
    BY <1>1, <1>3 DEF AddChosen
  <2> HIDE DEF C
  <2> QED BY <2>1, <2>2
<1> HIDE DEF C
<1>4. T = SUBSET U
  <2>1. ASSUME NEW s \in SUBSET U, \A r \in SUBSET s : r # s => r \in T PROVE s \in T
    <3>1. CASE s = {}
      BY <1>2, <3>1
    <3>2. CASE s # {}
      <4>1. it[s \ {C(s)}] \in Int
        BY <1>3, <2>1, <3>2
      <4>2. g[C(s)] \in Int
        BY <1>3, <3>2
      <4>3. it[s] = g[C(s)] + it[s \ {C(s)}]
        BY <1>3, <3>2
      <4>4. it[s] \in Int
        BY <4>1, <4>2, <4>3
      <4> QED BY <4>4
    <3> QED BY <3>1, <3>2
  <2>2. T \in SUBSET (SUBSET U)
    OBVIOUS
  <2> HIDE DEF T
  <2> QED BY <2>1, <2>2, SubsetInduction
<1>5. it \in [SUBSET U -> Int]
  <2>1. it = [s \in SUBSET U |-> it[s]]
    BY DEF Iterates
  <2> QED BY <1>4, <2>1
<1>6. V = SUBSET U
  <2>1. ASSUME NEW s \in SUBSET U, \A r \in SUBSET s : r # s => r \in V, NEW x \in s
        PROVE  it[s] = g[x] + it[s \ {x}]
    <3> DEFINE y == C(s)
    <3>1. /\ y \in s /\ y \in U /\ x \in U
          /\ it[s] = g[y] + it[s \ {y}]
      BY <1>3, <2>1
    <3> HIDE DEF y
    <3>2. CASE x = y
      BY <3>1, <3>2
    <3>3. CASE x # y
      <4>1. it[s \ {y}] = g[x] + it[(s \ {y}) \ {x}]
        <5>1. s \ {y} \in SUBSET s /\ s \ {y} # s /\ x \in s \ {y}
          BY <3>1, <3>3
        <5> QED BY <2>1, <5>1
      <4>2. it[s \ {x}] = g[y] + it[(s \ {x}) \ {y}]
        <5>1. s \ {x} \in SUBSET s /\ s \ {x} # s /\ y \in s \ {x}
          BY <3>1, <3>3
        <5> QED BY <2>1, <5>1
      <4>3. (s \ {x}) \ {y} = (s \ {y}) \ {x}
        OBVIOUS
      <4>4. /\ g[x] \in Int /\ g[y] \in Int /\ it[(s \ {y}) \ {x}] \in Int
        BY <1>5, <3>1
      <4>5. PICK i \in Int : i = it[(s \ {y}) \ {x}]
        BY <4>4
      <4>6. it[s \ {y}] = g[x] + i /\ it[s \ {x}] = g[y] + i
        BY <4>1, <4>2, <4>3, <4>5
      <4>7. PICK m \in Int, n \in Int : m = g[x] /\ n = g[y]
        BY <4>4
      <4>8. it[s] = n + (m + i) /\ g[x] + it[s \ {x}] = m + (n + i)
        BY <3>1, <4>6, <4>7
      <4> QED BY <4>8
    <3> QED BY <3>2, <3>3
  <2>2. V \in SUBSET (SUBSET U)
    OBVIOUS
  <2>3. \A s \in SUBSET U : (\A r \in SUBSET s : r # s => r \in V) => s \in V
    BY <2>1
  <2> HIDE DEF V
  <2> QED BY <2>2, <2>3, SubsetInduction
<1> QED BY <1>2, <1>5, <1>6 DEF SumLaw

(* Two sums over the same members, which have the same values, agree.       *)
LEMMA SumAgree ==
  ASSUME NEW U, IsFiniteSet(U), NEW g, \A x \in U : g[x] \in Int, NEW it, Iterates(it, g, U),
         NEW V, IsFiniteSet(V), NEW h, \A x \in V : h[x] \in Int, NEW jt, Iterates(jt, h, V),
         NEW s, s \subseteq U, s \subseteq V, \A x \in s : g[x] = h[x]
  PROVE  it[s] = jt[s]
<1> DEFINE T == {r \in SUBSET s : it[r] = jt[r]}
<1>a. it[{}] = 0 /\ \A r \in SUBSET U : \A x \in r : it[r] = g[x] + it[r \ {x}]
  <2>1. SumLaw(it, g, U)
    BY SumStep
  <2> QED BY <2>1 DEF SumLaw
<1>b. jt[{}] = 0 /\ \A r \in SUBSET V : \A x \in r : jt[r] = h[x] + jt[r \ {x}]
  <2>1. SumLaw(jt, h, V)
    BY SumStep
  <2> QED BY <2>1 DEF SumLaw
<1>1. ASSUME NEW r \in SUBSET s, \A q \in SUBSET r : q # r => q \in T PROVE r \in T
  <2>1. CASE r = {}
    BY <1>a, <1>b, <2>1
  <2>2. CASE r # {}
    <3>1. PICK x \in r : TRUE
      BY <2>2
    <3>2. it[r] = g[x] + it[r \ {x}] /\ jt[r] = h[x] + jt[r \ {x}]
      <4>1. r \in SUBSET U /\ r \in SUBSET V
        OBVIOUS
      <4>2. it[r] = g[x] + it[r \ {x}]
        BY <1>a, <3>1, <4>1
      <4>3. jt[r] = h[x] + jt[r \ {x}]
        BY <1>b, <3>1, <4>1
      <4> QED BY <4>2, <4>3
    <3>3. r \ {x} \in SUBSET r /\ r \ {x} # r
      BY <3>1
    <3>4. it[r \ {x}] = jt[r \ {x}]
      BY <1>1, <3>3
    <3> QED BY <3>1, <3>2, <3>4
  <2> QED BY <2>1, <2>2
<1>2. IsFiniteSet(s)
  BY FS_Subset
<1>3. T \in SUBSET (SUBSET s)
  OBVIOUS
<1>4. T = SUBSET s
  <2> HIDE DEF T
  <2> QED BY <1>1, <1>2, <1>3, SubsetInduction
<1> QED BY <1>4

(* The sum of g over U.                                                     *)
SumOf(g, U) == MapThenSumSet(LAMBDA x : g[x], U)

(* The library's sum over a function is the sum over its domain.            *)
LEMMA SumFunctionIs ==
  ASSUME NEW f
  PROVE  SumFunction(f) = SumOf(f, DOMAIN f)
  BY DEF SumFunction, SumFunctionOnSet, FoldFunctionOnSet, SumOf, MapThenSumSet

(* The sum of the library is the value of such a function.                  *)
LEMMA SumOfIterates ==
  ASSUME NEW U, IsFiniteSet(U), NEW g, \A x \in U : g[x] \in Int
  PROVE  \E it : Iterates(it, g, U) /\ SumOf(g, U) = it[U]
<1> DEFINE it == CHOOSE it : it = [s \in SUBSET U |->
                   IF s = {} THEN 0 ELSE g[CHOOSE x \in s : TRUE] + it[s \ {CHOOSE x \in s : TRUE}]]
<1>1. \E jt : jt = [s \in SUBSET U |->
                   IF s = {} THEN 0 ELSE g[CHOOSE x \in s : TRUE] + jt[s \ {CHOOSE x \in s : TRUE}]]
  <2>1. PICK jt : Iterates(jt, g, U)
    BY SumExists
  <2> QED BY <2>1 DEF Iterates, AddChosen
<1>2. Iterates(it, g, U)
  BY <1>1 DEF Iterates, AddChosen
<1>3. SumOf(g, U) = it[U]
  BY DEF SumOf, MapThenSumSet, MapThenFoldSet
<1> QED BY <1>2, <1>3

(* A sum of integers is an integer.                                         *)
LEMMA SumType ==
  ASSUME NEW U, IsFiniteSet(U), NEW g, \A x \in U : g[x] \in Int
  PROVE  SumOf(g, U) \in Int
<1>1. PICK it : Iterates(it, g, U) /\ SumOf(g, U) = it[U]
  BY SumOfIterates
<1>2. SumLaw(it, g, U)
  BY <1>1, SumStep
<1> QED BY <1>1, <1>2 DEF SumLaw

(* The empty sum.                                                           *)
LEMMA SumEmpty ==
  ASSUME NEW g
  PROVE  SumOf(g, {}) = 0
<1>1. IsFiniteSet({}) /\ \A x \in {} : g[x] \in Int
  BY FS_EmptySet
<1>2. PICK it : Iterates(it, g, {}) /\ SumOf(g, {}) = it[{}]
  BY <1>1, SumOfIterates
<1>3. SumLaw(it, g, {})
  BY <1>1, <1>2, SumStep
<1> QED BY <1>2, <1>3 DEF SumLaw

(* Equal summands have equal sums.                                          *)
LEMMA SumEqual ==
  ASSUME NEW U, IsFiniteSet(U), NEW g, NEW h, \A x \in U : g[x] \in Int /\ h[x] = g[x]
  PROVE  SumOf(g, U) = SumOf(h, U)
<1>1. \A x \in U : h[x] \in Int
  OBVIOUS
<1>2. PICK it : Iterates(it, g, U) /\ SumOf(g, U) = it[U]
  BY SumOfIterates
<1>3. PICK jt : Iterates(jt, h, U) /\ SumOf(h, U) = jt[U]
  BY <1>1, SumOfIterates
<1>4. it[U] = jt[U]
  BY <1>1, <1>2, <1>3, SumAgree
<1> QED BY <1>2, <1>3, <1>4

(* A member taken out of a sum.                                             *)
(* A member added to a sum.                                                 *)
LEMMA SumWithout ==
  ASSUME NEW U, IsFiniteSet(U), NEW g, \A x \in U : g[x] \in Int, NEW x \in U
  PROVE  SumOf(g, U) = g[x] + SumOf(g, U \ {x})
<1> DEFINE V == U \ {x}
<1>1. IsFiniteSet(V) /\ \A y \in V : g[y] \in Int
  BY FS_RemoveElement
<1>2. PICK it : Iterates(it, g, U) /\ SumOf(g, U) = it[U]
  BY SumOfIterates
<1>3. V \subseteq U
  OBVIOUS
<1> HIDE DEF V
<1>4. PICK jt : Iterates(jt, g, V) /\ SumOf(g, V) = jt[V]
  BY <1>1, SumOfIterates
<1>5. it[V] = jt[V]
  BY <1>1, <1>2, <1>3, <1>4, SumAgree
<1>6. it[U] = g[x] + it[V]
  <2>1. SumLaw(it, g, U)
    BY <1>2, SumStep
  <2> QED BY <2>1 DEF SumLaw, V
<1> QED BY <1>2, <1>4, <1>5, <1>6 DEF V

LEMMA SumWith ==
  ASSUME NEW U, IsFiniteSet(U), NEW g, \A y \in U : g[y] \in Int, NEW x, x \notin U, g[x] \in Int
  PROVE  SumOf(g, U \cup {x}) = g[x] + SumOf(g, U)
<1>1. IsFiniteSet(U \cup {x}) /\ \A y \in U \cup {x} : g[y] \in Int
  BY FS_AddElement
<1>2. (U \cup {x}) \ {x} = U
  OBVIOUS
<1>3. SumOf(g, U \cup {x}) = g[x] + SumOf(g, (U \cup {x}) \ {x})
  BY <1>1, SumWithout
<1> QED BY <1>2, <1>3

(* Moving an amount from one summand to another leaves the sum as it is.    *)
LEMMA SumTransfer ==
  ASSUME NEW U, IsFiniteSet(U), NEW g, NEW h, NEW a \in U, NEW b \in U, a # b, NEW n \in Int,
         \A x \in U : g[x] \in Int,
         h[a] = g[a] - n, h[b] = g[b] + n, \A x \in U \ {a, b} : h[x] = g[x]
  PROVE  SumOf(h, U) = SumOf(g, U)
<1> DEFINE V == U \ {a}
           W == V \ {b}
<1>1. IsFiniteSet(V) /\ IsFiniteSet(W) /\ b \in V
  BY FS_RemoveElement
<1>2. \A x \in U : h[x] \in Int
  OBVIOUS
<1>3. SumOf(g, W) = SumOf(h, W) /\ SumOf(g, W) \in Int
  BY <1>1, SumEqual, SumType
<1>4. SumOf(g, U) = g[a] + SumOf(g, V) /\ SumOf(h, U) = h[a] + SumOf(h, V)
  BY <1>2, SumWithout
<1>5. SumOf(g, V) = g[b] + SumOf(g, W) /\ SumOf(h, V) = h[b] + SumOf(h, W)
  BY <1>1, <1>2, SumWithout
<1> HIDE DEF V, W
<1>6. PICK p \in Int, q \in Int, r \in Int : p = g[a] /\ q = g[b] /\ r = SumOf(g, W)
  BY <1>3
<1>7. h[a] = p - n /\ h[b] = q + n
  BY <1>6
<1> QED BY <1>3, <1>4, <1>5, <1>6, <1>7

(* The same, as one fact about the two functions.                           *)
Shifts(h, g, U, a, b, n) ==
  /\ a \in U /\ b \in U /\ a # b /\ n \in Int
  /\ \A x \in U : g[x] \in Int
  /\ h[a] = g[a] - n /\ h[b] = g[b] + n
  /\ \A x \in U \ {a, b} : h[x] = g[x]
LEMMA SumShift ==
  ASSUME NEW U, IsFiniteSet(U), NEW g, NEW h, NEW a, NEW b, NEW n, Shifts(h, g, U, a, b, n)
  PROVE  SumOf(h, U) = SumOf(g, U)
  BY SumTransfer DEF Shifts

(* Nothing adds up to nothing.                                              *)
LEMMA SumZero ==
  ASSUME NEW U, IsFiniteSet(U), NEW g, \A x \in U : g[x] = 0
  PROVE  SumOf(g, U) = 0
<1> DEFINE T == {s \in SUBSET U : SumOf(g, s) = 0}
<1>1. ASSUME NEW s \in SUBSET U, \A r \in SUBSET s : r # s => r \in T PROVE s \in T
  <2>1. CASE s = {}
    BY <2>1, SumEmpty
  <2>2. CASE s # {}
    <3>1. PICK x \in s : TRUE
      BY <2>2
    <3>2. s \ {x} \in T
      BY <1>1, <3>1
    <3>3. IsFiniteSet(s) /\ \A y \in s : g[y] \in Int
      BY FS_Subset
    <3>4. SumOf(g, s) = g[x] + SumOf(g, s \ {x})
      BY <3>1, <3>3, SumWithout
    <3> QED BY <3>1, <3>2, <3>4
  <2> QED BY <2>1, <2>2
<1>2. T \in SUBSET (SUBSET U)
  OBVIOUS
<1> HIDE DEF T
<1>3. T = SUBSET U
  BY <1>1, <1>2, SubsetInduction
<1> QED BY <1>3 DEF T

(* As much from each is that times their number.                            *)
LEMMA SumConst ==
  ASSUME NEW U, IsFiniteSet(U), NEW c \in Int, NEW g, \A x \in U : g[x] = c
  PROVE  SumOf(g, U) = c * Cardinality(U)
<1> DEFINE T == {s \in SUBSET U : SumOf(g, s) = c * Cardinality(s)}
<1>1. ASSUME NEW s \in SUBSET U, \A r \in SUBSET s : r # s => r \in T PROVE s \in T
  <2>1. CASE s = {}
    <3>1. Cardinality(s) = 0 /\ SumOf(g, s) = 0 /\ c * 0 = 0
      BY <2>1, SumEmpty, FS_EmptySet
    <3> QED BY <3>1
  <2>2. CASE s # {}
    <3>1. PICK x \in s : TRUE
      BY <2>2
    <3>2. s \ {x} \in T
      BY <1>1, <3>1
    <3>3. IsFiniteSet(s) /\ \A y \in s : g[y] \in Int
      BY FS_Subset
    <3>4. SumOf(g, s) = g[x] + SumOf(g, s \ {x})
      BY <3>1, <3>3, SumWithout
    <3>5. PICK n \in Nat : n = Cardinality(s \ {x})
      BY <3>3, FS_RemoveElement, FS_CardinalityType
    <3>6. Cardinality(s) = n + 1
      <4>1. Cardinality(s \ {x}) = Cardinality(s) - 1 /\ Cardinality(s) \in Nat
        BY <3>1, <3>3, FS_RemoveElement, FS_CardinalityType
      <4> QED BY <3>5, <4>1
    <3>7. SumOf(g, s) = c + c * n
      BY <3>1, <3>2, <3>4, <3>5
    <3>8. c * (n + 1) = c + c * n
      OBVIOUS
    <3> QED BY <3>6, <3>7, <3>8
  <2> QED BY <2>1, <2>2
<1>2. T \in SUBSET (SUBSET U)
  OBVIOUS
<1> HIDE DEF T
<1>3. T = SUBSET U
  BY <1>1, <1>2, SubsetInduction
<1> QED BY <1>3 DEF T

(* A sum over two sets that have nothing in common.                         *)
LEMMA SumUnion ==
  ASSUME NEW A, IsFiniteSet(A), NEW B, IsFiniteSet(B), A \cap B = {},
         NEW g, \A x \in A \cup B : g[x] \in Int
  PROVE  SumOf(g, A \cup B) = SumOf(g, A) + SumOf(g, B)
<1> DEFINE T == {s \in SUBSET B : SumOf(g, A \cup s) = SumOf(g, A) + SumOf(g, s)}
<1>0. SumOf(g, A) \in Int
  BY SumType
<1>1. ASSUME NEW s \in SUBSET B, \A r \in SUBSET s : r # s => r \in T PROVE s \in T
  <2>1. CASE s = {}
    <3>1. SumOf(g, s) = 0 /\ A \cup s = A
      BY <2>1, SumEmpty
    <3>2. SumOf(g, A \cup s) = SumOf(g, A)
      BY <3>1
    <3>3. SumOf(g, A \cup s) = SumOf(g, A) + SumOf(g, s)
      BY <1>0, <3>1, <3>2
    <3> QED BY <3>3
  <2>2. CASE s # {}
    <3>1. PICK x \in s : TRUE
      BY <2>2
    <3>2. s \ {x} \in T
      BY <1>1, <3>1
    <3>3. /\ IsFiniteSet(s) /\ IsFiniteSet(A \cup s) /\ \A y \in A \cup s : g[y] \in Int
          /\ IsFiniteSet(s \ {x})
      BY FS_Subset, FS_Union, FS_Difference
    <3>4. SumOf(g, s) = g[x] + SumOf(g, s \ {x})
      BY <3>1, <3>3, SumWithout
    <3>5. (A \cup s) \ {x} = A \cup (s \ {x})
      BY <3>1
    <3>6. SumOf(g, A \cup s) = g[x] + SumOf(g, A \cup (s \ {x}))
      BY <3>1, <3>3, <3>5, SumWithout
    <3>7. SumOf(g, s \ {x}) \in Int /\ g[x] \in Int
      BY <3>1, <3>3, SumType
    <3> QED BY <1>0, <3>2, <3>4, <3>6, <3>7
  <2> QED BY <2>1, <2>2
<1>2. T \in SUBSET (SUBSET B)
  OBVIOUS
<1> HIDE DEF T
<1>3. T = SUBSET B
  BY <1>1, <1>2, SubsetInduction
<1> QED BY <1>3 DEF T

(* A sum of sums.                                                           *)
LEMMA SumAdd ==
  ASSUME NEW U, IsFiniteSet(U), NEW f, NEW g, NEW h,
         \A x \in U : f[x] \in Int /\ g[x] \in Int /\ h[x] = f[x] + g[x]
  PROVE  SumOf(h, U) = SumOf(f, U) + SumOf(g, U)
<1> DEFINE T == {s \in SUBSET U : SumOf(h, s) = SumOf(f, s) + SumOf(g, s)}
<1>1. ASSUME NEW s \in SUBSET U, \A r \in SUBSET s : r # s => r \in T PROVE s \in T
  <2>1. CASE s = {}
    BY <2>1, SumEmpty
  <2>2. CASE s # {}
    <3>1. PICK x \in s : TRUE
      BY <2>2
    <3>2. s \ {x} \in T
      BY <1>1, <3>1
    <3>3. /\ IsFiniteSet(s) /\ IsFiniteSet(s \ {x})
          /\ \A y \in s : f[y] \in Int /\ g[y] \in Int /\ h[y] \in Int
      BY FS_Subset, FS_Difference
    <3>4. /\ SumOf(f, s) = f[x] + SumOf(f, s \ {x})
          /\ SumOf(g, s) = g[x] + SumOf(g, s \ {x})
          /\ SumOf(h, s) = h[x] + SumOf(h, s \ {x})
      BY <3>1, <3>3, SumWithout
    <3>5. /\ SumOf(f, s \ {x}) \in Int /\ SumOf(g, s \ {x}) \in Int
      BY <3>3, SumType
    <3>6. h[x] = f[x] + g[x] /\ f[x] \in Int /\ g[x] \in Int
      BY <3>1
    <3> QED BY <3>2, <3>4, <3>5, <3>6
  <2> QED BY <2>1, <2>2
<1>2. T \in SUBSET (SUBSET U)
  OBVIOUS
<1> HIDE DEF T
<1>3. T = SUBSET U
  BY <1>1, <1>2, SubsetInduction
<1> QED BY <1>3 DEF T

(* The sum over an enumeration of a set.                                    *)
Enumerates(f, n, S) ==
  /\ f \in [1..n -> S]
  /\ \A i, j \in 1..n : f[i] = f[j] => i = j
  /\ \A x \in S : \E i \in 1..n : f[i] = x

LEMMA SumEnumerated ==
  ASSUME NEW n \in Nat, NEW S, NEW f, Enumerates(f, n, S),
         NEW g, \A x \in S : g[x] \in Int, NEW h, \A i \in 1..n : h[i] = g[f[i]]
  PROVE  SumOf(h, 1..n) = SumOf(g, S)
<1>a. /\ f \in [1..n -> S]
      /\ \A i, j \in 1..n : f[i] = f[j] => i = j
      /\ \A x \in S : \E i \in 1..n : f[i] = x
  BY DEF Enumerates
<1> DEFINE Image(s) == {f[i] : i \in s}
           T == {s \in SUBSET (1..n) : IsFiniteSet(Image(s)) /\ SumOf(h, s) = SumOf(g, Image(s))}
<1>0. IsFiniteSet(1..n)
  BY FS_Interval
<1>1. ASSUME NEW s \in SUBSET (1..n), \A r \in SUBSET s : r # s => r \in T PROVE s \in T
  <2>1. CASE s = {}
    <3>1. Image(s) = {}
      BY <2>1
    <3> QED BY <2>1, <3>1, SumEmpty, FS_EmptySet
  <2>2. CASE s # {}
    <3>1. PICK i \in s : TRUE
      BY <2>2
    <3> DEFINE r == s \ {i}
    <3>2. r \in T
      BY <1>1, <3>1
    <3>3. IsFiniteSet(s) /\ \A j \in s : h[j] \in Int
      BY <1>0, <1>a, FS_Subset
    <3>4. SumOf(h, s) = h[i] + SumOf(h, r)
      BY <3>1, <3>3, SumWithout
    <3>5. Image(s) = Image(r) \cup {f[i]} /\ f[i] \notin Image(r) /\ Image(r) \subseteq S
      BY <1>a, <3>1
    <3>6. IsFiniteSet(Image(r)) /\ SumOf(h, r) = SumOf(g, Image(r))
      BY <3>2
    <3> HIDE DEF Image, r
    <3>7. SumOf(g, Image(s)) = g[f[i]] + SumOf(g, Image(r))
      BY <1>a, <3>1, <3>5, <3>6, SumWith
    <3>8. IsFiniteSet(Image(s))
      BY <3>5, <3>6, FS_AddElement
    <3>9. h[i] = g[f[i]]
      BY <3>1
    <3> QED BY <3>4, <3>6, <3>7, <3>8, <3>9
  <2> QED BY <2>1, <2>2
<1>2. T \in SUBSET (SUBSET (1..n))
  OBVIOUS
<1> HIDE DEF T
<1>3. T = SUBSET (1..n)
  BY <1>0, <1>1, <1>2, SubsetInduction
<1>4. 1..n \in T
  BY <1>3
<1>5. Image(1..n) = S
  BY <1>a
<1> HIDE DEF Image
<1> QED BY <1>4, <1>5 DEF T
==============================================================================
