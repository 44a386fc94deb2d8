-------------------------- MODULE SettlementProofs --------------------------
(***************************************************************************)
(* What holds of the debts and settlements of a group for any finite group,*)
(* any number of debts and expenses, of settlements, of servers and of     *)
(* crashes.                                                                *)
(*                                                                         *)
(* First the arithmetic: a left fold goes through its sequence in order    *)
(* (FoldIs), sums can be split, shifted and enumerated (SumProofs), and so *)
(* the optimiser of SettlementMath clears every balance: each round of     *)
(* either pass keeps Fair, what is left being what was owed and what has   *)
(* been paid, and settles somebody, so that one round per member is enough *)
(* (PlansClear).                                                           *)
(*                                                                         *)
(* Then the tables (TablesInv), which hold whatever the servers do; then   *)
(* what the runners know of the lines they have read (DecidedInv), whose   *)
(* payment they make (CallInv) and, with one server, where the money of    *)
(* each line is (AloneInv).  OwnSteps is the heart of it: a step of one    *)
(* runner leaves the other settlements and the other runners as they are,  *)
(* so that each action shows the parts about its own only.  Last the books *)
(* (PlanInv, BooksInv): the lines of a settlement pay its debts exactly,   *)
(* and what is owed is what was recorded and what was paid.                *)
(*                                                                         *)
(* At the end the rest of the arithmetic: shares add up (SplitsAddUp),     *)
(* amounts are exact, and the plan is the same in whatever order the rows  *)
(* come (PlansAreStable): pass 1 draws the lines between opposite balances *)
(* (Matched), and pass 2 chooses by amount alone (RoundsTwins).            *)
(***************************************************************************)
EXTENDS Settlement, SumProofs

-------------------------------------------------------------------------------
(* Folds *)

(* The greatest of some of the numbers up to n.                             *)
LEMMA MaxUpto ==
  ASSUME NEW n \in Nat, NEW s \in SUBSET (1..n), s # {}
  PROVE  Max(s) \in s /\ \A y \in s : y <= Max(s)
<1> DEFINE T == {m \in Nat : \A r \in SUBSET (1..m) : r # {} => \E x \in r : \A y \in r : x >= y}
<1>1. 0 \in T
  <2>1. 1..0 = {}
    OBVIOUS
  <2> QED BY <2>1
<1>2. ASSUME NEW m \in T PROVE m + 1 \in T
  <2> SUFFICES ASSUME NEW r \in SUBSET (1..(m + 1)), r # {}
               PROVE  \E x \in r : \A y \in r : x >= y
    OBVIOUS
  <2>1. CASE m + 1 \in r
    BY <2>1
  <2>2. CASE m + 1 \notin r
    <3>1. r \in SUBSET (1..m)
      BY <2>2
    <3> QED BY <3>1
  <2> QED BY <2>1, <2>2
<1>3. T = Nat
  <2>1. T \subseteq Nat
    OBVIOUS
  <2> HIDE DEF T
  <2> QED BY <1>1, <1>2, <2>1, NatSetInduction
<1>4. \E x \in s : \A y \in s : x >= y
  BY <1>3
<1> QED BY <1>4 DEF Max

(* The step of a fold as a function: it makes of a value and a position the *)
(* next value.                                                              *)
Steps(f, n, W) == \A w \in W, i \in 1..n : f[<<w, i>>] \in W
(* What the fold computes for some of the positions up to n.                *)
Folded(it, s, b, f) == IF s = {} THEN b ELSE f[<<it[s \ {Max(s)}], Max(s)>>]
Folds(it, n, W, b, f) ==
  /\ it \in [SUBSET (1..n) -> W]
  /\ \A s \in SUBSET (1..n) : it[s] = Folded(it, s, b, f)
(* As much of it as is known before its values are.                         *)
Unfolds(it, n, W, b, f) ==
  /\ it[{}] = b
  /\ \A s \in SUBSET (1..n) : s # {} /\ it[s \ {Max(s)}] \in W =>
       it[s] = f[<<it[s \ {Max(s)}], Max(s)>>]
(* Its values for the prefixes of the sequence.                             *)
Running(g, n, W, b, f) ==
  /\ g \in [0..n -> W]
  /\ g[0] = b
  /\ \A j \in 1..n : g[j] = f[<<g[j - 1], j>>]

(* There is such a function.                                                *)
LEMMA FoldExists ==
  ASSUME NEW n \in Nat, NEW W, NEW f, Steps(f, n, W), NEW b \in W
  PROVE  \E it : Folds(it, n, W, b, f)
<1> DEFINE U == 1..n
           Upto(m, it) == \A s \in SUBSET U : Cardinality(s) <= m => it[s] = Folded(it, s, b, f)
           T == {m \in Nat : \E it \in [SUBSET U -> W] : Upto(m, it)}
<1>1. /\ IsFiniteSet(U)
      /\ \A s \in SUBSET U : IsFiniteSet(s) /\ Cardinality(s) \in Nat
  <2>1. IsFiniteSet(U)
    BY FS_Interval
  <2> HIDE DEF U
  <2> QED BY <2>1, FS_Subset, FS_CardinalityType
<1>0. \A w \in W, i \in 1..n : f[<<w, i>>] \in W
  BY DEF Steps
<1>2. \A s \in SUBSET U : s # {} => Max(s) \in s
  BY MaxUpto
<1>3. 0 \in T
  <2> DEFINE it == [s \in SUBSET U |-> b]
  <2>1. it \in [SUBSET U -> W]
    OBVIOUS
  <2>2. Upto(0, it)
    BY <1>1, <2>1, FS_EmptySet DEF Folded
  <2> QED BY <2>1, <2>2
<1>4. ASSUME NEW m \in T PROVE m + 1 \in T
  <2>1. PICK it \in [SUBSET U -> W] : Upto(m, it)
    OBVIOUS
  <2> DEFINE jt == [s \in SUBSET U |-> IF Cardinality(s) <= m THEN it[s] ELSE Folded(it, s, b, f)]
  <2>2. ASSUME NEW s \in SUBSET U PROVE Folded(it, s, b, f) \in W
    BY <1>0, <1>2 DEF Folded
  <2>3. jt \in [SUBSET U -> W]
    BY <2>2
  <2>4. ASSUME NEW s \in SUBSET U, Cardinality(s) <= m + 1 PROVE jt[s] = Folded(jt, s, b, f)
    <3>1. jt[s] = Folded(it, s, b, f)
      BY <2>1
    <3>2. CASE s = {}
      BY <3>1, <3>2 DEF Folded
    <3>3. CASE s # {}
      <4>1. PICK x \in s : x = Max(s)
        BY <1>2, <3>3
      <4>2. s \ {x} \in SUBSET U /\ IsFiniteSet(s)
        BY <1>1
      <4>3. Cardinality(s \ {x}) = Cardinality(s) - 1 /\ Cardinality(s) \in Nat
        BY <1>1, <4>2, FS_RemoveElement
      <4>4. jt[s \ {x}] = it[s \ {x}]
        BY <2>4, <4>2, <4>3
      <4> QED BY <3>1, <3>3, <4>1, <4>4 DEF Folded
    <3> QED BY <3>2, <3>3
  <2> HIDE DEF jt
  <2>5. Upto(m + 1, jt) /\ m + 1 \in Nat
    BY <2>4
  <2> HIDE DEF Upto
  <2> QED BY <2>3, <2>5
<1>5. T = Nat
  <2> HIDE DEF T
  <2>1. T \subseteq Nat
    BY DEF T
  <2> QED BY <1>3, <1>4, <2>1, NatSetInduction
<1>6. PICK it \in [SUBSET U -> W] : Upto(Cardinality(U), it)
  BY <1>1, <1>5
<1>7. \A s \in SUBSET U : it[s] = Folded(it, s, b, f)
  BY <1>1, <1>6, FS_Subset
<1> QED BY <1>6, <1>7 DEF Folds

(* Its values for the prefixes, from the first to the last.                 *)
LEMMA FoldIs ==
  ASSUME NEW n \in Nat, NEW W, NEW f, Steps(f, n, W), NEW b \in W,
         NEW it, Unfolds(it, n, W, b, f)
  PROVE  \E g : Running(g, n, W, b, f) /\ it[1..n] = g[n]
<1>0. /\ it[{}] = b
      /\ \A s \in SUBSET (1..n) : (s # {} /\ it[s \ {Max(s)}] \in W) =>
           it[s] = f[<<it[s \ {Max(s)}], Max(s)>>]
      /\ \A w \in W, i \in 1..n : f[<<w, i>>] \in W
  BY DEF Unfolds, Steps
<1> DEFINE T == {m \in Nat : m <= n => it[1..m] \in W}
<1>1. ASSUME NEW j \in 1..n, it[1..(j - 1)] \in W
      PROVE  it[1..j] = f[<<it[1..(j - 1)], j>>] /\ it[1..j] \in W
  <2>1. 1..j \in SUBSET (1..n) /\ 1..j # {}
    OBVIOUS
  <2>2. Max(1..j) = j
    <3>1. Max(1..j) \in 1..j /\ \A y \in 1..j : y <= Max(1..j)
      BY <2>1, MaxUpto
    <3> QED BY <3>1
  <2>3. (1..j) \ {j} = 1..(j - 1)
    OBVIOUS
  <2> QED BY <1>0, <1>1, <2>1, <2>2, <2>3
<1>2. T = Nat
  <2>1. 0 \in T
    <3>1. 1..0 = {}
      OBVIOUS
    <3> QED BY <1>0, <3>1
  <2>2. ASSUME NEW m \in T PROVE m + 1 \in T
    <3>1. CASE m + 1 <= n
      <4>1. m + 1 \in 1..n /\ (m + 1) - 1 = m /\ it[1..m] \in W
        BY <3>1
      <4>2. it[1..(m + 1)] \in W
        BY <1>1, <4>1
      <4> QED BY <4>2
    <3> QED BY <3>1
  <2>3. T \subseteq Nat
    OBVIOUS
  <2> HIDE DEF T
  <2> QED BY <2>1, <2>2, <2>3, NatSetInduction
<1> DEFINE g == [j \in 0..n |-> it[1..j]]
<1>3. \A j \in 0..n : it[1..j] \in W
  BY <1>2
<1>4. g \in [0..n -> W]
  BY <1>3
<1>5. g[0] = b
  <2>1. 1..0 = {}
    OBVIOUS
  <2> QED BY <1>0, <2>1
<1>6. ASSUME NEW j \in 1..n PROVE g[j] = f[<<g[j - 1], j>>]
  <2>1. j - 1 \in 0..n /\ j \in 0..n
    OBVIOUS
  <2> QED BY <1>1, <1>3, <2>1
<1>7. it[1..n] = g[n]
  OBVIOUS
<1> HIDE DEF g
<1> QED BY <1>4, <1>5, <1>6, <1>7 DEF Running
-------------------------------------------------------------------------------
(* Sums of balances *)

(* Balances and payments as sums, over rows of any finite set.              *)
LEMMA NetIsSum ==
  ASSUME NEW edges, IsFiniteSet(DOMAIN edges), \A i \in DOMAIN edges : edges[i].amount \in Int,
         NEW m
  PROVE  /\ NetOf(edges, m) = SumOf([i \in DOMAIN edges |-> Part(edges[i], m)], DOMAIN edges)
         /\ NetOf(edges, m) \in Int
<1> DEFINE h == [i \in DOMAIN edges |-> Part(edges[i], m)]
<1>1. DOMAIN h = DOMAIN edges /\ \A i \in DOMAIN edges : h[i] \in Int
  BY DEF Part
<1>2. NetOf(edges, m) = SumFunction(h)
  BY DEF NetOf
<1> HIDE DEF h
<1>3. SumFunction(h) = SumOf(h, DOMAIN edges)
  BY <1>1, SumFunctionIs
<1>4. SumOf(h, DOMAIN edges) \in Int
  BY <1>1, SumType
<1> QED BY <1>2, <1>3, <1>4 DEF h

LEMMA PaidIsSum ==
  ASSUME NEW lines, IsFiniteSet(DOMAIN lines), \A n \in DOMAIN lines : lines[n].amount \in Int,
         NEW m
  PROVE  /\ PaidBy(lines, m) = SumOf([n \in DOMAIN lines |-> LinePart(lines[n], m)], DOMAIN lines)
         /\ PaidBy(lines, m) \in Int
<1> DEFINE h == [n \in DOMAIN lines |-> LinePart(lines[n], m)]
<1>1. DOMAIN h = DOMAIN lines /\ \A n \in DOMAIN lines : h[n] \in Int
  BY DEF LinePart
<1>2. PaidBy(lines, m) = SumFunction(h)
  BY DEF PaidBy
<1> HIDE DEF h
<1>3. SumFunction(h) = SumOf(h, DOMAIN lines)
  BY <1>1, SumFunctionIs
<1>4. SumOf(h, DOMAIN lines) \in Int
  BY <1>1, SumType
<1> QED BY <1>2, <1>3, <1>4 DEF h

(* Edges as the tables hold them, between some users.                       *)
Proper(edges, users) ==
  /\ \E n \in Nat : DOMAIN edges = 1..n
  /\ \A i \in DOMAIN edges :
       /\ edges[i].debtor \in users /\ edges[i].creditor \in users
       /\ edges[i].debtor # edges[i].creditor
       /\ edges[i].amount \in Nat /\ edges[i].amount > 0

(* "The sum over all members is always exactly 0" (comment on               *)
(* computeNetBalances).                                                     *)
LEMMA NetsCancel ==
  ASSUME NEW users, IsFiniteSet(users), NEW edges, Proper(edges, users)
  PROVE  SumOf([m \in users |-> NetOf(edges, m)], users) = 0
<1> DEFINE D == DOMAIN edges
           part(m) == [i \in D |-> Part(edges[i], m)]
           net(s) == [m \in users |-> SumOf(part(m), s)]
           T == {s \in SUBSET D : SumOf(net(s), users) = 0}
<1>1. IsFiniteSet(D)
  BY FS_Interval DEF Proper
<1>2. \A m, i : i \in D => part(m)[i] = Part(edges[i], m) /\ Part(edges[i], m) \in Int
  BY DEF Part, Proper
<1> HIDE DEF part
<1>3. ASSUME NEW s \in SUBSET D PROVE \A m \in users : net(s)[m] \in Int
  BY <1>1, <1>2, FS_Subset, SumType
<1>4. ASSUME NEW s \in SUBSET D, \A r \in SUBSET s : r # s => r \in T PROVE s \in T
  <2>1. CASE s = {}
    <3>1. \A m \in users : net(s)[m] = 0
      BY <2>1, SumEmpty
    <3> HIDE DEF net
    <3> QED BY <3>1, SumZero
  <2>2. CASE s # {}
    <3>1. PICK x \in s : TRUE
      BY <2>2
    <3> DEFINE r == s \ {x}
               e == edges[x]
    <3>2. SumOf(net(r), users) = 0 /\ r \in SUBSET D
      BY <1>4, <3>1
    <3>3. /\ e.debtor \in users /\ e.creditor \in users /\ e.debtor # e.creditor
          /\ e.amount \in Int
      BY <3>1 DEF Proper
    <3>4. IsFiniteSet(s)
      BY <1>1, FS_Subset
    <3>5. ASSUME NEW m \in users PROVE net(s)[m] = Part(e, m) + net(r)[m]
      <4>1. SumOf(part(m), s) = part(m)[x] + SumOf(part(m), s \ {x})
        BY <1>2, <3>1, <3>4, SumWithout
      <4> QED BY <1>2, <3>1, <4>1
    <3>6. \A m \in users : net(r)[m] \in Int
      BY <1>3, <3>2
    <3> HIDE DEF net, e, r
    <3>7. /\ net(s)[e.debtor] = net(r)[e.debtor] - e.amount
          /\ net(s)[e.creditor] = net(r)[e.creditor] + e.amount
          /\ \A m \in users \ {e.debtor, e.creditor} : net(s)[m] = net(r)[m]
      BY <3>3, <3>5, <3>6 DEF Part
    <3>8. SumOf(net(s), users) = SumOf(net(r), users)
      <4>1. PICK g, h, a, b, n :
              g = net(r) /\ h = net(s) /\ a = e.debtor /\ b = e.creditor /\ n = e.amount
        OBVIOUS
      <4>2. /\ a \in users /\ b \in users /\ a # b /\ n \in Int /\ \A m \in users : g[m] \in Int
            /\ h[a] = g[a] - n /\ h[b] = g[b] + n /\ \A m \in users \ {a, b} : h[m] = g[m]
        BY <3>3, <3>6, <3>7, <4>1
      <4>3. SumOf(h, users) = SumOf(g, users)
        BY <4>2, SumTransfer
      <4> QED BY <4>1, <4>3
    <3> QED BY <3>2, <3>8
  <2> QED BY <2>1, <2>2
<1>5. T \in SUBSET (SUBSET D)
  OBVIOUS
<1> HIDE DEF T
<1>6. T = SUBSET D
  BY <1>1, <1>4, <1>5, SubsetInduction
<1>7. SumOf(net(D), users) = 0
  BY <1>6 DEF T
<1>8. \A m \in users : net(D)[m] = NetOf(edges, m) /\ NetOf(edges, m) \in Int
  <2>1. \A i \in DOMAIN edges : edges[i].amount \in Int
    BY DEF Proper
  <2> QED BY <1>1, <2>1, NetIsSum DEF part
<1> HIDE DEF net, D
<1>9. SumOf(net(D), users) = SumOf([m \in users |-> NetOf(edges, m)], users)
  BY <1>8, SumEqual
<1> QED BY <1>7, <1>9
-------------------------------------------------------------------------------
(* The folds of the program, prefix by prefix.  A lemma cannot be about a   *)
(* step of any kind, so there is one for each of the folds.                 *)

GreedyRounds(b, seq) == FoldLeft(LAMBDA w, i : GreedyRound(w), b, seq)
GreedyIn(W) == \A w \in W : GreedyRound(w) \in W

(* The rounds of pass 2.                                                    *)
LEMMA GreedyFold ==
  ASSUME NEW W, NEW b \in W,
         NEW seq, NEW n \in Nat, DOMAIN seq = 1..n,
         GreedyIn(W)
  PROVE  \E g \in [0..n -> W] :
           /\ g[0] = b
           /\ \A j \in 1..n : g[j] = GreedyRound(g[j - 1])
           /\ GreedyRounds(b, seq) = g[n]
<1> DEFINE it == CHOOSE it : it = [s \in SUBSET (DOMAIN seq) |->
                   IF s = {} THEN b ELSE GreedyRound(it[s \ {Max(s)}])]
<1>1. GreedyRounds(b, seq) = it[1..n]
  BY DEF GreedyRounds, FoldLeft, MapThenFoldSet
<1>2. PICK f : \A w \in W, i \in 1..n : f[<<w, i>>] = GreedyRound(w)
  <2> DEFINE f == [p \in W \X (1..n) |-> GreedyRound(p[1])]
  <2>1. \A w \in W, i \in 1..n : f[<<w, i>>] = GreedyRound(w)
    OBVIOUS
  <2> HIDE DEF f
  <2> QED BY <2>1
<1>3. Steps(f, n, W)
  BY <1>2 DEF Steps, GreedyIn
<1>4. \E jt : jt = [s \in SUBSET (DOMAIN seq) |->
                   IF s = {} THEN b ELSE GreedyRound(jt[s \ {Max(s)}])]
  <2>0. PICK jt : Folds(jt, n, W, b, f)
    BY <1>3, FoldExists
  <2>1. /\ jt \in [SUBSET (1..n) -> W]
        /\ \A s \in SUBSET (1..n) : jt[s] = Folded(jt, s, b, f)
    BY <2>0 DEF Folds
  <2>2. ASSUME NEW s \in SUBSET (1..n), s # {}
        PROVE  jt[s] = GreedyRound(jt[s \ {Max(s)}])
    <3>1. Max(s) \in 1..n /\ jt[s \ {Max(s)}] \in W
      BY <2>1, <2>2, MaxUpto
    <3> QED BY <1>2, <2>1, <2>2, <3>1 DEF Folded
  <2>3. jt[{}] = b
    BY <2>1 DEF Folded
  <2>4. \A s \in SUBSET (1..n) :
          jt[s] = IF s = {} THEN b ELSE GreedyRound(jt[s \ {Max(s)}])
    BY <2>2, <2>3
  <2> QED BY <2>1, <2>4
<1>5. \A s \in SUBSET (1..n) :
        it[s] = IF s = {} THEN b ELSE GreedyRound(it[s \ {Max(s)}])
  BY <1>4
<1> HIDE DEF it
<1>6. it[{}] = b
  BY <1>5
<1>7. ASSUME NEW s \in SUBSET (1..n), s # {}, it[s \ {Max(s)}] \in W
      PROVE  it[s] = f[<<it[s \ {Max(s)}], Max(s)>>]
  <2>1. Max(s) \in 1..n
    BY <1>7, MaxUpto
  <2> QED BY <1>2, <1>5, <1>7, <2>1
<1>8. Unfolds(it, n, W, b, f)
  BY <1>6, <1>7 DEF Unfolds
<1>9. PICK g : Running(g, n, W, b, f) /\ it[1..n] = g[n]
  BY <1>3, <1>8, FoldIs
<1>10. \A j \in 1..n : g[j] = GreedyRound(g[j - 1])
  <2>1. \A j \in 1..n : g[j - 1] \in W
    BY <1>9 DEF Running
  <2> QED BY <1>2, <1>9, <2>1 DEF Running
<1> QED BY <1>1, <1>10, <1>9 DEF Running

ExactRounds(b, edges, seq) == FoldLeft(LAMBDA w, d : ExactRound(w, Mentioned(edges), d), b, seq)
ExactIn(W, edges, seq, n) ==
  \A w \in W, i \in 1..n : ExactRound(w, Mentioned(edges), seq[i]) \in W

(* The rounds of pass 1, one for each member.                               *)
LEMMA ExactFold ==
  ASSUME NEW W, NEW b \in W, NEW edges,
         NEW seq, NEW n \in Nat, DOMAIN seq = 1..n,
         ExactIn(W, edges, seq, n)
  PROVE  \E g \in [0..n -> W] :
           /\ g[0] = b
           /\ \A j \in 1..n : g[j] = ExactRound(g[j - 1], Mentioned(edges), seq[j])
           /\ ExactRounds(b, edges, seq) = g[n]
<1> DEFINE it == CHOOSE it : it = [s \in SUBSET (DOMAIN seq) |->
                   IF s = {} THEN b
                   ELSE ExactRound(it[s \ {Max(s)}], Mentioned(edges), seq[Max(s)])]
<1>1. ExactRounds(b, edges, seq) = it[1..n]
  BY DEF ExactRounds, FoldLeft, MapThenFoldSet
<1>2. PICK f : \A w \in W, i \in 1..n : f[<<w, i>>] = ExactRound(w, Mentioned(edges), seq[i])
  <2> DEFINE f == [p \in W \X (1..n) |-> ExactRound(p[1], Mentioned(edges), seq[p[2]])]
  <2>1. \A w \in W, i \in 1..n : f[<<w, i>>] = ExactRound(w, Mentioned(edges), seq[i])
    OBVIOUS
  <2> HIDE DEF f
  <2> QED BY <2>1
<1>3. Steps(f, n, W)
  BY <1>2 DEF Steps, ExactIn
<1>4. \E jt : jt = [s \in SUBSET (DOMAIN seq) |->
                   IF s = {} THEN b
                   ELSE ExactRound(jt[s \ {Max(s)}], Mentioned(edges), seq[Max(s)])]
  <2>0. PICK jt : Folds(jt, n, W, b, f)
    BY <1>3, FoldExists
  <2>1. /\ jt \in [SUBSET (1..n) -> W]
        /\ \A s \in SUBSET (1..n) : jt[s] = Folded(jt, s, b, f)
    BY <2>0 DEF Folds
  <2>2. ASSUME NEW s \in SUBSET (1..n), s # {}
        PROVE  jt[s] = ExactRound(jt[s \ {Max(s)}], Mentioned(edges), seq[Max(s)])
    <3>1. Max(s) \in 1..n /\ jt[s \ {Max(s)}] \in W
      BY <2>1, <2>2, MaxUpto
    <3> QED BY <1>2, <2>1, <2>2, <3>1 DEF Folded
  <2>3. jt[{}] = b
    BY <2>1 DEF Folded
  <2>4. \A s \in SUBSET (1..n) :
          jt[s] = IF s = {} THEN b ELSE ExactRound(jt[s \ {Max(s)}], Mentioned(edges), seq[Max(s)])
    BY <2>2, <2>3
  <2> QED BY <2>1, <2>4
<1>5. \A s \in SUBSET (1..n) :
        it[s] = IF s = {} THEN b ELSE ExactRound(it[s \ {Max(s)}], Mentioned(edges), seq[Max(s)])
  BY <1>4
<1> HIDE DEF it
<1>6. it[{}] = b
  BY <1>5
<1>7. ASSUME NEW s \in SUBSET (1..n), s # {}, it[s \ {Max(s)}] \in W
      PROVE  it[s] = f[<<it[s \ {Max(s)}], Max(s)>>]
  <2>1. Max(s) \in 1..n
    BY <1>7, MaxUpto
  <2> QED BY <1>2, <1>5, <1>7, <2>1
<1>8. Unfolds(it, n, W, b, f)
  BY <1>6, <1>7 DEF Unfolds
<1>9. PICK g : Running(g, n, W, b, f) /\ it[1..n] = g[n]
  BY <1>3, <1>8, FoldIs
<1>10. \A j \in 1..n : g[j] = ExactRound(g[j - 1], Mentioned(edges), seq[j])
  <2>1. \A j \in 1..n : g[j - 1] \in W
    BY <1>9 DEF Running
  <2> QED BY <1>2, <1>9, <2>1 DEF Running
<1> QED BY <1>1, <1>10, <1>9 DEF Running

MentionedSince(b, seq) ==
  FoldLeft(LAMBDA ids, e : Noted(Noted(ids, e.creditor), e.debtor), b, seq)
MentionedIn(W, seq, n) ==
  \A w \in W, i \in 1..n : Noted(Noted(w, seq[i].creditor), seq[i].debtor) \in W

(* The members in order of appearance.                                      *)
LEMMA MentionedFold ==
  ASSUME NEW W, NEW b \in W,
         NEW seq, NEW n \in Nat, DOMAIN seq = 1..n,
         MentionedIn(W, seq, n)
  PROVE  \E g \in [0..n -> W] :
           /\ g[0] = b
           /\ \A j \in 1..n : g[j] = Noted(Noted(g[j - 1], seq[j].creditor), seq[j].debtor)
           /\ MentionedSince(b, seq) = g[n]
<1> DEFINE it == CHOOSE it : it = [s \in SUBSET (DOMAIN seq) |->
                   IF s = {} THEN b
                   ELSE Noted(Noted(it[s \ {Max(s)}], seq[Max(s)].creditor), seq[Max(s)].debtor)]
<1>1. MentionedSince(b, seq) = it[1..n]
  BY DEF MentionedSince, FoldLeft, MapThenFoldSet
<1>2. PICK f : \A w \in W, i \in 1..n :
        f[<<w, i>>] = Noted(Noted(w, seq[i].creditor), seq[i].debtor)
  <2> DEFINE f == [p \in W \X (1..n) |-> Noted(Noted(p[1], seq[p[2]].creditor), seq[p[2]].debtor)]
  <2>1. \A w \in W, i \in 1..n : f[<<w, i>>] = Noted(Noted(w, seq[i].creditor), seq[i].debtor)
    OBVIOUS
  <2> HIDE DEF f
  <2> QED BY <2>1
<1>3. Steps(f, n, W)
  BY <1>2 DEF Steps, MentionedIn
<1>4. \E jt : jt = [s \in SUBSET (DOMAIN seq) |->
                   IF s = {} THEN b
                   ELSE Noted(Noted(jt[s \ {Max(s)}], seq[Max(s)].creditor), seq[Max(s)].debtor)]
  <2>0. PICK jt : Folds(jt, n, W, b, f)
    BY <1>3, FoldExists
  <2>1. /\ jt \in [SUBSET (1..n) -> W]
        /\ \A s \in SUBSET (1..n) : jt[s] = Folded(jt, s, b, f)
    BY <2>0 DEF Folds
  <2>2. ASSUME NEW s \in SUBSET (1..n), s # {}
        PROVE  jt[s] = Noted(Noted(jt[s \ {Max(s)}], seq[Max(s)].creditor), seq[Max(s)].debtor)
    <3>1. Max(s) \in 1..n /\ jt[s \ {Max(s)}] \in W
      BY <2>1, <2>2, MaxUpto
    <3> QED BY <1>2, <2>1, <2>2, <3>1 DEF Folded
  <2>3. jt[{}] = b
    BY <2>1 DEF Folded
  <2>4. \A s \in SUBSET (1..n) :
          jt[s] = IF s = {} THEN b
                  ELSE Noted(Noted(jt[s \ {Max(s)}], seq[Max(s)].creditor), seq[Max(s)].debtor)
    BY <2>2, <2>3
  <2> QED BY <2>1, <2>4
<1>5. \A s \in SUBSET (1..n) :
        it[s] = IF s = {} THEN b
                ELSE Noted(Noted(it[s \ {Max(s)}], seq[Max(s)].creditor), seq[Max(s)].debtor)
  BY <1>4
<1> HIDE DEF it
<1>6. it[{}] = b
  BY <1>5
<1>7. ASSUME NEW s \in SUBSET (1..n), s # {}, it[s \ {Max(s)}] \in W
      PROVE  it[s] = f[<<it[s \ {Max(s)}], Max(s)>>]
  <2>1. Max(s) \in 1..n
    BY <1>7, MaxUpto
  <2> QED BY <1>2, <1>5, <1>7, <2>1
<1>8. Unfolds(it, n, W, b, f)
  BY <1>6, <1>7 DEF Unfolds
<1>9. PICK g : Running(g, n, W, b, f) /\ it[1..n] = g[n]
  BY <1>3, <1>8, FoldIs
<1>10. \A j \in 1..n : g[j] = Noted(Noted(g[j - 1], seq[j].creditor), seq[j].debtor)
  <2>1. \A j \in 1..n : g[j - 1] \in W
    BY <1>9 DEF Running
  <2> QED BY <1>2, <1>9, <2>1 DEF Running
<1> QED BY <1>1, <1>10, <1>9 DEF Running

LEMMA MentionedFrom ==
  ASSUME NEW edges
  PROVE  Mentioned(edges) = MentionedSince(<<>>, edges)
  BY DEF Mentioned, MentionedSince, FoldLeft, MapThenFoldSet

LEMMA ExactFrom ==
  ASSUME NEW edges
  PROVE  ExactPass(edges) = ExactRounds(Unsettled(edges), edges, Mentioned(edges))
  BY DEF ExactPass, ExactRounds, FoldLeft, MapThenFoldSet

LEMMA GreedyFrom ==
  ASSUME NEW edges
  PROVE  OptimizeSettlement(edges) = GreedyRounds(ExactPass(edges), Mentioned(edges)).plan
  BY DEF OptimizeSettlement, GreedyRounds, FoldLeft, MapThenFoldSet
-------------------------------------------------------------------------------
(* The members of a set of debts *)

LEMMA NotedIs ==
  ASSUME NEW S, NEW ids \in Seq(S), NEW id \in S
  PROVE  Noted(ids, id) \in Seq(S) /\ ToSet(Noted(ids, id)) = ToSet(ids) \cup {id}
<1>1. CASE id \in ToSet(ids)
  BY <1>1 DEF Noted
<1>2. CASE id \notin ToSet(ids)
  <2>1. Noted(ids, id) = Append(ids, id)
    BY <1>2 DEF Noted
  <2>2. /\ Append(ids, id) \in Seq(S) /\ DOMAIN Append(ids, id) = 1..(Len(ids) + 1)
        /\ DOMAIN ids = 1..Len(ids) /\ Len(ids) \in Nat
        /\ Append(ids, id)[Len(ids) + 1] = id
        /\ \A i \in 1..Len(ids) : Append(ids, id)[i] = ids[i]
    OBVIOUS
  <2>3. ASSUME NEW x PROVE x \in ToSet(Append(ids, id)) <=> x \in ToSet(ids) \cup {id}
    <3>1. x \in ToSet(Append(ids, id)) <=> \E i \in 1..(Len(ids) + 1) : Append(ids, id)[i] = x
      BY <2>2 DEF ToSet
    <3>2. x \in ToSet(ids) <=> \E i \in 1..Len(ids) : ids[i] = x
      BY <2>2 DEF ToSet
    <3>3. 1..(Len(ids) + 1) = 1..Len(ids) \cup {Len(ids) + 1}
      BY <2>2
    <3> QED BY <2>2, <3>1, <3>2, <3>3
  <2> QED BY <2>1, <2>2, <2>3
<1> QED BY <1>1, <1>2

(* Everybody in a debt is mentioned, and nobody else.                       *)
LEMMA MentionedIs ==
  ASSUME NEW users, NEW edges, Proper(edges, users)
  PROVE  /\ Mentioned(edges) \in Seq(users)
         /\ \A i \in DOMAIN edges : /\ edges[i].debtor \in ToSet(Mentioned(edges))
                                    /\ edges[i].creditor \in ToSet(Mentioned(edges))
<1>1. PICK n \in Nat : DOMAIN edges = 1..n
  BY DEF Proper
<1>2. \A i \in 1..n : edges[i].debtor \in users /\ edges[i].creditor \in users
  BY <1>1 DEF Proper
<1> DEFINE W == Seq(users)
           step(ids, i) == Noted(Noted(ids, edges[i].creditor), edges[i].debtor)
<1>3. ASSUME NEW ids \in W, NEW i \in 1..n
      PROVE  /\ step(ids, i) \in W
             /\ ToSet(step(ids, i)) = ToSet(ids) \cup {edges[i].creditor, edges[i].debtor}
  <2> DEFINE c == edges[i].creditor
             d == edges[i].debtor
  <2>1. c \in users /\ d \in users
    BY <1>2
  <2>4. \A s \in Seq(users), id \in users :
          Noted(s, id) \in Seq(users) /\ ToSet(Noted(s, id)) = ToSet(s) \cup {id}
    BY NotedIs
  <2> HIDE DEF c, d
  <2>2. PICK first \in Seq(users) : first = Noted(ids, c) /\ ToSet(first) = ToSet(ids) \cup {c}
    BY <2>1, NotedIs
  <2>3. Noted(first, d) \in Seq(users) /\ ToSet(Noted(first, d)) = ToSet(first) \cup {d}
    BY ONLY <2>1, <2>2, <2>4
  <2> QED BY <2>2, <2>3 DEF c, d
<1>4. <<>> \in W
  OBVIOUS
<1> HIDE DEF W
<1>11. \A w \in W, i \in 1..n : Noted(Noted(w, edges[i].creditor), edges[i].debtor) \in W
  BY <1>3
<1>12. MentionedIn(W, edges, n)
  BY <1>11 DEF MentionedIn
<1>5. PICK g \in [0..n -> W] :
        /\ g[0] = <<>>
        /\ \A j \in 1..n : g[j] = step(g[j - 1], j)
        /\ Mentioned(edges) = g[n]
  BY <1>1, <1>4, <1>12, MentionedFold, MentionedFrom
<1> DEFINE T == {j \in Nat : j <= n => \A i \in 1..j : /\ edges[i].debtor \in ToSet(g[j])
                                                       /\ edges[i].creditor \in ToSet(g[j])}
<1>6. 0 \in T
  OBVIOUS
<1>7. ASSUME NEW j \in T PROVE j + 1 \in T
  <2> SUFFICES ASSUME j + 1 <= n, NEW i \in 1..(j + 1)
               PROVE  edges[i].debtor \in ToSet(g[j + 1]) /\ edges[i].creditor \in ToSet(g[j + 1])
    OBVIOUS
  <2>1. j \in Nat /\ j + 1 \in 1..n /\ (j + 1) - 1 = j /\ j \in 0..n
    OBVIOUS
  <2>2. g[j + 1] = step(g[j], j + 1) /\ g[j] \in W
    BY <1>5, <2>1
  <2> HIDE DEF step
  <2>3. ToSet(g[j + 1]) = ToSet(g[j]) \cup {edges[j + 1].creditor, edges[j + 1].debtor}
    BY <1>3, <2>1, <2>2
  <2>4. i = j + 1 \/ i \in 1..j
    BY <2>1
  <2> QED BY <2>1, <2>3, <2>4
<1>8. T = Nat
  <2>1. T \subseteq Nat
    OBVIOUS
  <2> HIDE DEF T
  <2> QED BY <1>6, <1>7, <2>1, NatSetInduction
<1>9. \A i \in 1..n : edges[i].debtor \in ToSet(g[n]) /\ edges[i].creditor \in ToSet(g[n])
  BY <1>8
<1>10. g[n] \in W
  BY <1>5
<1> QED BY <1>1, <1>5, <1>9, <1>10 DEF W

(* A sequence is at least as long as it has members.                        *)
LEMMA SeqCovers ==
  ASSUME NEW S, NEW seq \in Seq(S)
  PROVE  IsFiniteSet(ToSet(seq)) /\ Cardinality(ToSet(seq)) <= Len(seq)
<1>1. Len(seq) \in Nat /\ DOMAIN seq = 1..Len(seq) /\ seq \in [1..Len(seq) -> S]
  OBVIOUS
<1>2. seq \in Surjection(1..Len(seq), ToSet(seq))
  BY <1>1 DEF Surjection, ToSet
<1>3. IsFiniteSet(1..Len(seq)) /\ Cardinality(1..Len(seq)) = Len(seq)
  BY <1>1, FS_Interval
<1> QED BY <1>2, <1>3, FS_Surjection
-------------------------------------------------------------------------------
(* What is left of the balances *)

(* A sum of natural numbers is at least each of them.                       *)
LEMMA SumNat ==
  ASSUME NEW U, IsFiniteSet(U), NEW g, \A x \in U : g[x] \in Nat
  PROVE  SumOf(g, U) \in Nat /\ \A x \in U : g[x] <= SumOf(g, U)
<1> DEFINE T == {s \in SUBSET U : SumOf(g, s) \in Nat}
<1>1. ASSUME NEW s \in SUBSET U, \A r \in SUBSET s : r # s => r \in T PROVE s \in T
  <2>1. CASE s = {}
    BY <2>1, SumEmpty
  <2>2. CASE s # {}
    <3>1. PICK x \in s : TRUE
      BY <2>2
    <3>2. SumOf(g, s \ {x}) \in Nat
      BY <1>1, <3>1
    <3>3. IsFiniteSet(s) /\ \A y \in s : g[y] \in Int
      BY FS_Subset
    <3>4. SumOf(g, s) = g[x] + SumOf(g, s \ {x})
      BY <3>1, <3>3, SumWithout
    <3> QED BY <3>1, <3>2, <3>4
  <2> QED BY <2>1, <2>2
<1>2. T \in SUBSET (SUBSET U)
  OBVIOUS
<1> HIDE DEF T
<1>3. T = SUBSET U
  BY <1>1, <1>2, SubsetInduction
<1>4. ASSUME NEW x \in U PROVE g[x] <= SumOf(g, U)
  <2>1. SumOf(g, U) = g[x] + SumOf(g, U \ {x})
    BY SumWithout
  <2>2. SumOf(g, U \ {x}) \in Nat
    BY <1>3 DEF T
  <2> QED BY <2>1, <2>2
<1> QED BY <1>3, <1>4 DEF T

(* If what is left adds up to nothing and there is something left, somebody *)
(* owes and somebody is owed.                                               *)
LEMMA BothSides ==
  ASSUME NEW U, IsFiniteSet(U), NEW g, \A x \in U : g[x] \in Int, SumOf(g, U) = 0,
         NEW a \in U, g[a] # 0
  PROVE  (\E x \in U : g[x] < 0) /\ (\E x \in U : g[x] > 0)
<1>1. \E x \in U : g[x] < 0
  <2> SUFFICES ASSUME \A x \in U : ~(g[x] < 0) PROVE FALSE
    OBVIOUS
  <2>1. \A x \in U : g[x] \in Nat
    OBVIOUS
  <2>2. g[a] <= SumOf(g, U)
    BY <2>1, SumNat
  <2> QED BY <2>1, <2>2
<1>2. \E x \in U : g[x] > 0
  <2> SUFFICES ASSUME \A x \in U : ~(g[x] > 0) PROVE FALSE
    OBVIOUS
  <2> DEFINE h == [x \in U |-> -g[x]]
             z == [x \in U |-> 0]
  <2>1. \A x \in U : h[x] \in Nat /\ h[x] = -g[x]
    OBVIOUS
  <2>2. \A x \in U : z[x] = 0 /\ z[x] = g[x] + h[x] /\ h[x] \in Int
    BY <2>1
  <2> HIDE DEF h, z
  <2>3. SumOf(z, U) = 0
    BY <2>2, SumZero
  <2>4. SumOf(z, U) = SumOf(g, U) + SumOf(h, U)
    BY <2>2, SumAdd
  <2>5. SumOf(h, U) \in Nat /\ h[a] <= SumOf(h, U)
    BY <2>1, SumNat
  <2> QED BY <2>1, <2>3, <2>4, <2>5
<1> QED BY <1>1, <1>2

(* pickMax finds one of those it looks through.                             *)
LEMMA LargestIn ==
  ASSUME NEW U, IsFiniteSet(U), U \subseteq Int, U # {}, NEW size, \A x \in U : size[x] \in Int
  PROVE  Largest(size, U) \in U
<1> DEFINE Best(m, s) == \A n \in s : size[m] > size[n] \/ (size[m] = size[n] /\ m <= n)
           T == {s \in SUBSET U : s = {} \/ \E m \in s : Best(m, s)}
<1>1. ASSUME NEW s \in SUBSET U, \A r \in SUBSET s : r # s => r \in T PROVE s \in T
  <2>1. CASE s # {}
    <3>1. PICK x \in s : TRUE
      BY <2>1
    <3>2. s \ {x} \in T
      BY <1>1, <3>1
    <3>3. CASE s \ {x} = {}
      BY <3>1, <3>3
    <3>4. CASE s \ {x} # {}
      <4>1. PICK m \in s \ {x} : Best(m, s \ {x})
        BY <3>2, <3>4
      <4>2. /\ size[x] \in Int /\ size[m] \in Int /\ x \in Int /\ m \in Int
            /\ \A y \in s : size[y] \in Int /\ y \in Int
        BY <3>1, <4>1
      <4>3. CASE size[m] > size[x] \/ (size[m] = size[x] /\ m <= x)
        <5>1. Best(m, s)
          BY <3>1, <4>1, <4>3
        <5> QED BY <4>1, <5>1
      <4>4. CASE size[x] > size[m] \/ (size[m] = size[x] /\ x <= m)
        <5>1. ASSUME NEW y \in s PROVE size[x] > size[y] \/ (size[x] = size[y] /\ x <= y)
          <6>1. CASE y = x
            BY <4>2, <6>1
          <6>2. CASE y # x
            <7>1. size[m] > size[y] \/ (size[m] = size[y] /\ m <= y)
              BY <4>1, <6>2
            <7>2. size[y] \in Int /\ y \in Int
              BY <4>2
            <7> QED BY <4>2, <4>4, <7>1, <7>2
          <6> QED BY <6>1, <6>2
        <5>2. Best(x, s)
          BY <5>1
        <5> QED BY <3>1, <5>2
      <4> QED BY <4>2, <4>3, <4>4
    <3> QED BY <3>3, <3>4
  <2> QED BY <2>1
<1>2. T \in SUBSET (SUBSET U)
  OBVIOUS
<1>3. T = SUBSET U
  <2> HIDE DEF T
  <2> QED BY <1>1, <1>2, SubsetInduction
<1>4. \E m \in U : Best(m, U)
  BY <1>3
<1> QED BY <1>4 DEF Largest
-------------------------------------------------------------------------------
(* A round of the optimiser *)

Line(users) == [from : users, to : users, amount : Nat \ {0}]
Work(users) == [left : [users -> Int], plan : Seq(Line(users))]
Open(w, users) == {m \in users : w.left[m] # 0}

(* What every round keeps: nobody's rest changes its sign or grows, and it  *)
(* is what the lines of the plan leave; the lines go from those who owe to  *)
(* those who are owed, and there are at most as many as members settled,    *)
(* fewer once all are.                                                      *)
Shrunk(w, net, users) ==
  \A m \in users : \/ net[m] < 0 /\ net[m] <= w.left[m] /\ w.left[m] <= 0
                   \/ net[m] > 0 /\ 0 <= w.left[m] /\ w.left[m] <= net[m]
                   \/ net[m] = 0 /\ w.left[m] = 0
Accounted(w, net, users) == \A m \in users : w.left[m] = net[m] + PaidBy(w.plan, m)
Directed(w, net) ==
  \A i \in DOMAIN w.plan : net[w.plan[i].from] < 0 /\ net[w.plan[i].to] > 0
Few(w, net, users) ==
  LET all == Cardinality({m \in users : net[m] # 0}) IN
  /\ Len(w.plan) + Cardinality(Open(w, users)) <= all
  /\ Open(w, users) = {} /\ w.plan # <<>> => Len(w.plan) < all
Fair(w, net, users) ==
  /\ w \in Work(users)
  /\ SumOf(w.left, users) = 0
  /\ Shrunk(w, net, users) /\ Accounted(w, net, users) /\ Directed(w, net) /\ Few(w, net, users)

(* A line more is its part more.                                            *)
LEMMA PaidOnce ==
  ASSUME NEW users, NEW plan \in Seq(Line(users)), NEW l \in Line(users), NEW m
  PROVE  PaidBy(Append(plan, l), m) = PaidBy(plan, m) + LinePart(l, m) /\ PaidBy(plan, m) \in Int
<1> DEFINE n == Len(plan)
           p == Append(plan, l)
           h == [i \in DOMAIN plan |-> LinePart(plan[i], m)]
           k == [i \in DOMAIN p |-> LinePart(p[i], m)]
<1>1. /\ n \in Nat /\ DOMAIN plan = 1..n /\ DOMAIN p = 1..(n + 1)
      /\ p[n + 1] = l /\ \A i \in 1..n : p[i] = plan[i]
      /\ p \in Seq(Line(users))
  OBVIOUS
<1>2. \A i \in 1..n : plan[i] \in Line(users)
  BY <1>1
<1>3. /\ \A i \in DOMAIN plan : plan[i].amount \in Int
      /\ \A i \in DOMAIN p : p[i].amount \in Int
      /\ l.amount \in Int
  BY <1>1, <1>2 DEF Line
<1>4. IsFiniteSet(1..n) /\ IsFiniteSet(1..(n + 1))
  BY <1>1, FS_Interval
<1>5. PaidBy(plan, m) = SumOf(h, 1..n) /\ PaidBy(plan, m) \in Int
  BY <1>1, <1>3, <1>4, PaidIsSum
<1>6. PaidBy(p, m) = SumOf(k, 1..(n + 1))
  BY <1>1, <1>3, <1>4, PaidIsSum
<1>7. /\ \A i \in 1..n : h[i] \in Int /\ k[i] = h[i]
      /\ \A i \in 1..(n + 1) : k[i] \in Int
      /\ k[n + 1] = LinePart(l, m)
  BY <1>1, <1>3 DEF LinePart
<1>8. 1..(n + 1) = (1..n) \cup {n + 1} /\ n + 1 \notin 1..n
  BY <1>1
<1> HIDE DEF h, k
<1>9. SumOf(k, (1..n) \cup {n + 1}) = k[n + 1] + SumOf(k, 1..n)
  BY <1>4, <1>7, <1>8, SumWith
<1>10. SumOf(k, 1..n) = SumOf(h, 1..n)
  BY <1>4, <1>7, SumEqual
<1>11. PaidBy(p, m) = LinePart(l, m) + PaidBy(plan, m)
  BY <1>5, <1>6, <1>7, <1>8, <1>9, <1>10
<1>12. LinePart(l, m) \in Int
  BY <1>3 DEF LinePart
<1> QED BY <1>5, <1>11, <1>12

(* A line between somebody who owes and somebody who is owed, that settles  *)
(* one of them.                                                             *)
LEMMA PaidIsFair ==
  ASSUME NEW users, IsFiniteSet(users), NEW net \in [users -> Int], NEW w, Fair(w, net, users),
         NEW d \in users, NEW c \in users, NEW a \in Nat, a > 0,
         w.left[d] <= -a, w.left[c] >= a, w.left[d] = -a \/ w.left[c] = a
  PROVE  LET v == PaidLine(w, d, c, a) IN
         /\ Fair(v, net, users)
         /\ Open(v, users) \subseteq Open(w, users) /\ Open(v, users) # Open(w, users)
<1> DEFINE l == [from |-> d, to |-> c, amount |-> a]
           left == [w.left EXCEPT ![d] = @ + a, ![c] = @ - a]
           v == PaidLine(w, d, c, a)
<1>1. /\ w.left \in [users -> Int] /\ w.plan \in Seq(Line(users))
      /\ w = [left |-> w.left, plan |-> w.plan]
  BY DEF Fair, Work
<1>2. d # c /\ w.left[d] \in Int /\ w.left[c] \in Int /\ a \in Int
  BY <1>1
<1>3. v.left = left /\ v.plan = Append(w.plan, l) /\ l \in Line(users)
      /\ v = [left |-> left, plan |-> Append(w.plan, l)]
  BY DEF PaidLine, Line
<1>4. /\ left \in [users -> Int]
      /\ left[d] = w.left[d] + a /\ left[c] = w.left[c] - a
      /\ \A m \in users \ {d, c} : left[m] = w.left[m]
  BY <1>1, <1>2
<1> HIDE DEF left, l, v
<1>5. v \in Work(users)
  BY <1>1, <1>3, <1>4 DEF Work
<1>6. SumOf(left, users) = 0
  <2>1. PICK n : n = -a
    OBVIOUS
  <2>2. n \in Int /\ left[d] = w.left[d] - n /\ left[c] = w.left[c] + n
    BY <1>2, <1>4, <2>1
  <2>3. PICK g : g = w.left
    OBVIOUS
  <2>4. SumOf(left, users) = SumOf(g, users)
    <3>1. PICK h : h = left
      OBVIOUS
    <3>2. Shifts(h, g, users, d, c, n)
      BY <1>1, <1>2, <1>4, <2>2, <2>3, <3>1 DEF Shifts
    <3>4. SumOf(h, users) = SumOf(g, users)
      BY <3>2, SumShift
    <3> QED BY <3>1, <3>4
  <2> QED BY <2>3, <2>4 DEF Fair
<1>7. Shrunk(v, net, users)
  <2>1. \A m \in users : net[m] \in Int /\ w.left[m] \in Int
    BY <1>1
  <2>2. Shrunk(w, net, users)
    BY DEF Fair
  <2> SUFFICES ASSUME NEW m \in users
               PROVE  \/ net[m] < 0 /\ net[m] <= left[m] /\ left[m] <= 0
                      \/ net[m] > 0 /\ 0 <= left[m] /\ left[m] <= net[m]
                      \/ net[m] = 0 /\ left[m] = 0
    BY <1>3 DEF Shrunk
  <2>3. \/ net[m] < 0 /\ net[m] <= w.left[m] /\ w.left[m] <= 0
        \/ net[m] > 0 /\ 0 <= w.left[m] /\ w.left[m] <= net[m]
        \/ net[m] = 0 /\ w.left[m] = 0
    BY <2>2 DEF Shrunk
  <2>4. m = d \/ m = c \/ m \in users \ {d, c}
    OBVIOUS
  <2> QED BY <1>2, <1>4, <2>1, <2>3, <2>4
<1>8. Accounted(v, net, users)
  <2> SUFFICES ASSUME NEW m \in users PROVE left[m] = net[m] + PaidBy(Append(w.plan, l), m)
    BY <1>3 DEF Accounted
  <2>1. /\ PaidBy(Append(w.plan, l), m) = PaidBy(w.plan, m) + LinePart(l, m)
        /\ PaidBy(w.plan, m) \in Int
    BY <1>1, <1>3, PaidOnce
  <2>2. w.left[m] = net[m] + PaidBy(w.plan, m) /\ net[m] \in Int /\ w.left[m] \in Int
    BY <1>1 DEF Fair, Accounted
  <2>3. LinePart(l, m) = IF m = d THEN a ELSE IF m = c THEN -a ELSE 0
    BY <1>2 DEF LinePart, l
  <2>4. left[m] = w.left[m] + LinePart(l, m)
    BY <1>2, <1>4, <2>2, <2>3
  <2>5. LinePart(l, m) \in Int
    BY <1>2, <2>3
  <2> QED BY <2>1, <2>2, <2>4, <2>5
<1>9. Directed(v, net)
  <2>1. /\ DOMAIN v.plan = 1..(Len(w.plan) + 1) /\ Len(w.plan) \in Nat
        /\ v.plan[Len(w.plan) + 1] = l
        /\ \A i \in 1..Len(w.plan) : v.plan[i] = w.plan[i]
        /\ DOMAIN w.plan = 1..Len(w.plan)
    BY <1>1, <1>3
  <2>2. net[d] < 0 /\ net[c] > 0
    BY <1>1, <1>2 DEF Fair, Shrunk
  <2>3. l.from = d /\ l.to = c
    BY DEF l
  <2> SUFFICES ASSUME NEW i \in DOMAIN v.plan
               PROVE  net[v.plan[i].from] < 0 /\ net[v.plan[i].to] > 0
    BY DEF Directed
  <2>4. i = Len(w.plan) + 1 \/ i \in 1..Len(w.plan)
    BY <2>1
  <2> QED BY <2>1, <2>2, <2>3, <2>4 DEF Fair, Directed
<1>10. /\ Open(v, users) \subseteq Open(w, users) /\ Open(v, users) # Open(w, users)
  <2>1. \A m \in users : left[m] # 0 => w.left[m] # 0
    <3>1. w.left[d] # 0 /\ w.left[c] # 0
      BY <1>2
    <3> QED BY <1>4, <3>1
  <2>2. (w.left[d] # 0 /\ left[d] = 0) \/ (w.left[c] # 0 /\ left[c] = 0)
    BY <1>2, <1>4
  <2> QED BY <1>3, <2>1, <2>2 DEF Open
<1>11. Few(v, net, users)
  <2> DEFINE all == Cardinality({m \in users : net[m] # 0})
             o == Open(w, users)
             q == Open(v, users)
  <2>1. /\ IsFiniteSet(o) /\ IsFiniteSet(q) /\ Cardinality(o) \in Nat /\ Cardinality(q) \in Nat
        /\ Cardinality(q) < Cardinality(o) /\ all \in Nat
    <3>1. o \in SUBSET users /\ {m \in users : net[m] # 0} \in SUBSET users
      BY DEF Open
    <3>2. IsFiniteSet(o) /\ IsFiniteSet({m \in users : net[m] # 0})
      BY <3>1, FS_Subset
    <3>3. q \in SUBSET o /\ q # o
      BY <1>10
    <3> HIDE DEF o, q
    <3>4. IsFiniteSet(q) /\ Cardinality(q) <= Cardinality(o) /\ Cardinality(o) # Cardinality(q)
      BY <3>2, <3>3, FS_Subset
    <3>5. Cardinality(o) \in Nat /\ Cardinality(q) \in Nat
          /\ Cardinality({m \in users : net[m] # 0}) \in Nat
      BY <3>2, <3>4, FS_CardinalityType
    <3> QED BY <3>2, <3>4, <3>5
  <2>2. Len(w.plan) \in Nat /\ Len(v.plan) = Len(w.plan) + 1
    BY <1>1, <1>3
  <2>3. Len(w.plan) + Cardinality(o) <= all
    BY DEF Fair, Few
  <2>4. ASSUME q = {} PROVE Cardinality(o) >= 2
    <3>1. Cardinality(q) = 0
      BY <2>4, FS_EmptySet
    <3>2. {d, c} \subseteq o
      BY <1>2 DEF Open
    <3>3. Cardinality({d, c}) = 2 /\ IsFiniteSet({d, c})
      <4>1. IsFiniteSet({d}) /\ Cardinality({d}) = 1
        BY FS_Singleton
      <4>2. {d, c} = {d} \cup {c} /\ c \notin {d}
        BY <1>2
      <4>3. \A s, x : IsFiniteSet(s) /\ x \notin s =>
              IsFiniteSet(s \cup {x}) /\ Cardinality(s \cup {x}) = Cardinality(s) + 1
        BY FS_AddElement
      <4>4. IsFiniteSet({d} \cup {c}) /\ Cardinality({d} \cup {c}) = Cardinality({d}) + 1
        BY <4>1, <4>2, <4>3
      <4> QED BY <4>1, <4>2, <4>4
    <3> HIDE DEF o
    <3>4. Cardinality({d, c}) <= Cardinality(o)
      BY <2>1, <3>2, FS_Subset
    <3> QED BY <3>3, <3>4
  <2> HIDE DEF o, q, all
  <2>5. Len(v.plan) + Cardinality(q) <= all
    BY <2>1, <2>2, <2>3
  <2>6. q = {} => Len(v.plan) < all
    BY <2>1, <2>2, <2>3, <2>4
  <2> QED BY <2>5, <2>6 DEF Few, all, q
<1> QED BY <1>3, <1>5, <1>6, <1>7, <1>8, <1>9, <1>10, <1>11 DEF Fair, v

(* The least of some natural numbers.                                       *)
LEMMA MinIn ==
  ASSUME NEW s \in SUBSET Nat, s # {}
  PROVE  Min(s) \in s /\ \A y \in s : Min(s) <= y
<1> DEFINE T == {n \in Nat : \A r \in SUBSET Nat :
                   (\E x \in r : x <= n) => \E m \in r : \A y \in r : m <= y}
<1>1. 0 \in T
  OBVIOUS
<1>2. ASSUME NEW n \in T PROVE n + 1 \in T
  <2> SUFFICES ASSUME NEW r \in SUBSET Nat, NEW x \in r, x <= n + 1
               PROVE  \E m \in r : \A y \in r : m <= y
    OBVIOUS
  <2>1. CASE \E z \in r : z <= n
    BY <2>1
  <2>2. CASE ~\E z \in r : z <= n
    <3>1. \A y \in r : x <= y
      BY <2>2
    <3> QED BY <3>1
  <2> QED BY <2>1, <2>2
<1>3. T = Nat
  <2>1. T \subseteq Nat
    OBVIOUS
  <2> HIDE DEF T
  <2> QED BY <1>1, <1>2, <2>1, NatSetInduction
<1>4. PICK x \in s : x \in Nat
  OBVIOUS
<1>5. \E m \in s : \A y \in s : m <= y
  <2>1. x <= x
    BY <1>4
  <2> QED BY <1>3, <1>4, <2>1
<1> QED BY <1>5 DEF Min

LEMMA ExactIsFair ==
  ASSUME NEW users, IsFiniteSet(users), NEW net \in [users -> Int], NEW w, Fair(w, net, users),
         NEW edges, Mentioned(edges) \in Seq(users), NEW d \in users
  PROVE  Fair(ExactRound(w, Mentioned(edges), d), net, users)
<1> DEFINE ids == Mentioned(edges)
           equals == {i \in DOMAIN ids : w.left[ids[i]] = -w.left[d]}
<1>1. CASE w.left[d] < 0 /\ equals # {}
  <2>1. equals \in SUBSET Nat
    OBVIOUS
  <2>2. Min(equals) \in equals
    BY <1>1, <2>1, MinIn
  <2> DEFINE c == ids[Min(equals)]
             a == -w.left[d]
  <2>3. c \in users /\ w.left[c] = a
    <3>1. PICK i \in equals : i = Min(equals)
      BY <2>2
    <3>2. i \in DOMAIN ids /\ w.left[ids[i]] = a
      OBVIOUS
    <3>3. \A j \in DOMAIN ids : ids[j] \in users
      OBVIOUS
    <3> QED BY <3>1, <3>2, <3>3
  <2>4. ExactRound(w, ids, d) = PaidLine(w, d, c, a)
    BY <1>1 DEF ExactRound
  <2>5. w.left \in [users -> Int]
    BY DEF Fair, Work
  <2>6. a \in Nat /\ a > 0 /\ w.left[d] <= -a /\ w.left[c] >= a /\ w.left[d] = -a
    <3>1. w.left[d] \in Int /\ w.left[d] < 0
      BY <1>1, <2>5
    <3>2. PICK x, y : x = w.left[d] /\ y = w.left[c]
      OBVIOUS
    <3>3. x \in Int /\ x < 0 /\ y = -x
      BY <2>3, <3>1, <3>2
    <3>4. -x \in Nat /\ -x > 0 /\ x <= -(-x) /\ y >= -x /\ x = -(-x)
      BY <3>3
    <3> HIDE DEF c
    <3> QED BY <3>2, <3>4
  <2> HIDE DEF a, c, ids
  <2>7. Fair(PaidLine(w, d, c, a), net, users)
    BY <2>3, <2>6, PaidIsFair
  <2> QED BY <2>4, <2>7 DEF ids
<1>2. CASE ~(w.left[d] < 0 /\ equals # {})
  BY <1>2 DEF ExactRound
<1> QED BY <1>1, <1>2

LEMMA GreedyIsFair ==
  ASSUME NEW users, IsFiniteSet(users), users \subseteq Int, NEW net \in [users -> Int],
         NEW w, Fair(w, net, users)
  PROVE  LET v == GreedyRound(w) IN
         /\ Fair(v, net, users)
         /\ Open(v, users) \subseteq Open(w, users)
         /\ Open(w, users) # {} => Open(v, users) # Open(w, users)
<1> DEFINE owing == {m \in users : w.left[m] < 0}
           owed == {m \in users : w.left[m] > 0}
<1>1. w.left \in [users -> Int] /\ DOMAIN w.left = users /\ SumOf(w.left, users) = 0
  BY DEF Fair, Work
<1>2. CASE Open(w, users) = {}
  <2>1. owing = {}
    BY <1>1, <1>2 DEF Open
  <2>2. GreedyRound(w) = w
    BY <1>1, <2>1 DEF GreedyRound
  <2> QED BY <1>2, <2>2
<1>3. CASE Open(w, users) # {}
  <2>1. PICK x \in users : w.left[x] # 0
    BY <1>3 DEF Open
  <2>2. owing # {} /\ owed # {}
    <3>1. PICK g : g = w.left
      OBVIOUS
    <3>2. (\E m \in users : g[m] < 0) /\ (\E m \in users : g[m] > 0)
      BY <1>1, <2>1, <3>1, BothSides
    <3> QED BY <3>1, <3>2
  <2> DEFINE size == [m \in owing |-> -w.left[m]]
             d == Largest(size, owing)
             c == Largest(w.left, owed)
             a == Min({-w.left[d], w.left[c]})
  <2>3. GreedyRound(w) = PaidLine(w, d, c, a)
    BY <1>1, <2>2 DEF GreedyRound
  <2>4. d \in owing
    <3>0. \A m \in users : w.left[m] \in Int
      BY <1>1
    <3>1. \A m \in owing : size[m] \in Int
      BY <3>0
    <3>2. IsFiniteSet(owing) /\ owing \subseteq Int
      BY FS_Subset
    <3> HIDE DEF size, owing
    <3> QED BY <2>2, <3>1, <3>2, LargestIn
  <2>5. c \in owed
    <3>1. \A m \in owed : w.left[m] \in Int
      BY <1>1
    <3>2. IsFiniteSet(owed) /\ owed \subseteq Int
      BY FS_Subset
    <3> HIDE DEF owed
    <3> QED BY <2>2, <3>1, <3>2, LargestIn
  <2> HIDE DEF d, c
  <2>6. /\ d \in users /\ c \in users /\ w.left[d] \in Int /\ w.left[c] \in Int
        /\ w.left[d] < 0 /\ w.left[c] > 0
    BY <1>1, <2>4, <2>5
  <2>7. a \in {-w.left[d], w.left[c]} /\ a <= -w.left[d] /\ a <= w.left[c]
    <3>1. {-w.left[d], w.left[c]} \in SUBSET Nat /\ {-w.left[d], w.left[c]} # {}
      BY <2>6
    <3> QED BY <3>1, MinIn
  <2> HIDE DEF a
  <2>8. /\ a \in Nat /\ a > 0 /\ w.left[d] <= -a /\ w.left[c] >= a
        /\ w.left[d] = -a \/ w.left[c] = a
    BY <2>6, <2>7
  <2>9. LET v == PaidLine(w, d, c, a) IN
        /\ Fair(v, net, users)
        /\ Open(v, users) \subseteq Open(w, users) /\ Open(v, users) # Open(w, users)
    BY <2>6, <2>8, PaidIsFair
  <2> QED BY <2>3, <2>9
<1> QED BY <1>2, <1>3

(* The balances before any line is paid.                                    *)
LEMMA StartIsFair ==
  ASSUME NEW edges, NEW users, users = ToSet(Mentioned(edges)), IsFiniteSet(users),
         Proper(edges, users)
  PROVE  LET net == [m \in users |-> NetOf(edges, m)] IN
         net \in [users -> Int] /\ Fair(Unsettled(edges), net, users)
<1> DEFINE net == [m \in users |-> NetOf(edges, m)]
           w == Unsettled(edges)
<1>1. net \in [users -> Int]
  <2>1. IsFiniteSet(DOMAIN edges) /\ \A i \in DOMAIN edges : edges[i].amount \in Int
    BY FS_Interval DEF Proper
  <2>2. \A m \in users : NetOf(edges, m) \in Int
    BY <2>1, NetIsSum
  <2> QED BY <2>2
<1>2. w.left = net /\ w.plan = <<>> /\ w = [left |-> net, plan |-> <<>>]
  BY DEF Unsettled
<1>3. SumOf(net, users) = 0
  BY NetsCancel
<1> HIDE DEF net, w
<1>4. w \in Work(users)
  BY <1>1, <1>2 DEF Work
<1>5. Shrunk(w, net, users)
  BY <1>1, <1>2 DEF Shrunk
<1>6. Accounted(w, net, users)
  <2>1. ASSUME NEW m PROVE PaidBy(<<>>, m) = 0
    <3>1. PaidBy(<<>>, m) = SumOf([n \in DOMAIN <<>> |-> LinePart(<<>>[n], m)], DOMAIN <<>>)
      BY SumFunctionIs DEF PaidBy
    <3>2. DOMAIN <<>> = {}
      OBVIOUS
    <3> QED BY <3>1, <3>2, SumEmpty
  <2> QED BY <1>1, <1>2, <2>1 DEF Accounted
<1>7. Directed(w, net)
  BY <1>2 DEF Directed
<1>8. Few(w, net, users)
  <2> DEFINE all == {m \in users : net[m] # 0}
  <2>1. Open(w, users) = all
    BY <1>2 DEF Open
  <2>2. Cardinality(all) \in Nat
    <3>1. all \in SUBSET users
      OBVIOUS
    <3>2. IsFiniteSet(all)
      BY <3>1, FS_Subset
    <3> HIDE DEF all
    <3> QED BY <3>2, FS_CardinalityType
  <2>3. Len(w.plan) = 0
    BY <1>2
  <2> HIDE DEF all
  <2>4. /\ Len(w.plan) + Cardinality(Open(w, users)) <= Cardinality(all)
        /\ Open(w, users) = {} /\ w.plan # <<>> => Len(w.plan) < Cardinality(all)
    BY <1>2, <2>1, <2>2, <2>3
  <2> QED BY <2>4 DEF Few, all
<1> QED BY <1>1, <1>2, <1>3, <1>4, <1>5, <1>6, <1>7, <1>8 DEF Fair, net, w

(* The plan of any debts.                                                   *)
LEMMA PlanIs ==
  ASSUME NEW people, people \subseteq Int, NEW edges, Proper(edges, people)
  PROVE  LET users == ToSet(Mentioned(edges))
             net == [m \in users |-> NetOf(edges, m)] IN
         /\ IsFiniteSet(users) /\ users \subseteq people /\ net \in [users -> Int]
         /\ \E w : /\ Fair(w, net, users) /\ Open(w, users) = {}
                   /\ OptimizeSettlement(edges) = w.plan
<1> DEFINE ids == Mentioned(edges)
           users == ToSet(ids)
           net == [m \in users |-> NetOf(edges, m)]
           W == {w \in Work(users) : Fair(w, net, users)}
           n == Len(ids)
           all == Cardinality({m \in users : net[m] # 0})
<1>1. /\ ids \in Seq(people)
      /\ \A i \in DOMAIN edges : edges[i].debtor \in users /\ edges[i].creditor \in users
  BY MentionedIs
<1>2. users \subseteq people
  BY <1>1 DEF ToSet
<1>3. IsFiniteSet(users) /\ Cardinality(users) <= n
  BY <1>1, SeqCovers
<1>4. Proper(edges, users)
  BY <1>1 DEF Proper
<1>5. n \in Nat /\ DOMAIN ids = 1..n /\ \A i \in 1..n : ids[i] \in users
  BY <1>1 DEF ToSet
<1>6. ids \in Seq(users)
  BY <1>1, <1>5
<1>7. net \in [users -> Int] /\ Fair(Unsettled(edges), net, users)
  <2> HIDE DEF ids
  <2> QED BY <1>3, <1>4, StartIsFair DEF ids
<1> HIDE DEF net
<1>8. Unsettled(edges) \in W
  BY <1>7 DEF Fair
<1>9. ExactIn(W, edges, ids, n)
  <2> SUFFICES ASSUME NEW w \in W, NEW i \in 1..n
               PROVE  ExactRound(w, Mentioned(edges), ids[i]) \in W
    BY DEF ExactIn
  <2>1. Fair(ExactRound(w, Mentioned(edges), ids[i]), net, users)
    <3>1. PICK d \in users : d = ids[i]
      BY <1>5
    <3>2. Fair(w, net, users) /\ Mentioned(edges) \in Seq(users)
      BY <1>6
    <3> HIDE DEF ids, users
    <3>3. Fair(ExactRound(w, Mentioned(edges), d), net, users)
      BY <1>3, <1>7, <3>2, ExactIsFair
    <3> QED BY <3>1, <3>3
  <2> QED BY <2>1 DEF Fair
<1>10. ExactPass(edges) \in W
  <2> HIDE DEF W, ids
  <2>1. PICK g \in [0..n -> W] : ExactRounds(Unsettled(edges), edges, ids) = g[n]
    BY <1>5, <1>8, <1>9, ExactFold
  <2>2. g[n] \in W
    BY <1>5, <2>1
  <2> QED BY <2>1, <2>2, ExactFrom DEF ids
<1>11. ASSUME NEW w \in W
       PROVE  LET v == GreedyRound(w) IN
              /\ v \in W
              /\ Open(v, users) \subseteq Open(w, users)
              /\ Open(w, users) # {} => Open(v, users) # Open(w, users)
  <2>1. users \subseteq Int /\ Fair(w, net, users)
    BY <1>2
  <2> HIDE DEF users
  <2>2. LET v == GreedyRound(w) IN
        /\ Fair(v, net, users)
        /\ Open(v, users) \subseteq Open(w, users)
        /\ Open(w, users) # {} => Open(v, users) # Open(w, users)
    BY <1>3, <1>7, <2>1, GreedyIsFair
  <2> QED BY <2>2 DEF Fair
<1>12. PICK g \in [0..n -> W] :
         /\ g[0] = ExactPass(edges)
         /\ \A j \in 1..n : g[j] = GreedyRound(g[j - 1])
         /\ GreedyRounds(ExactPass(edges), ids) = g[n]
  <2>1. GreedyIn(W)
    BY <1>11 DEF GreedyIn
  <2> HIDE DEF W, ids
  <2> QED BY <1>5, <1>10, <2>1, GreedyFold
<1>13. \A j \in 0..n : /\ g[j] \in W /\ IsFiniteSet(Open(g[j], users))
                       /\ Cardinality(Open(g[j], users)) \in Nat
  <2> SUFFICES ASSUME NEW j \in 0..n
               PROVE  /\ g[j] \in W /\ IsFiniteSet(Open(g[j], users))
                      /\ Cardinality(Open(g[j], users)) \in Nat
    OBVIOUS
  <2>1. g[j] \in W
    BY <1>12
  <2>2. Open(g[j], users) \in SUBSET users
    BY DEF Open
  <2>3. IsFiniteSet(Open(g[j], users))
    BY <1>3, <2>2, FS_Subset
  <2> QED BY <2>1, <2>3, FS_CardinalityType
<1> DEFINE T == {j \in Nat : j <= n =>
                   Open(g[j], users) = {} \/ Cardinality(Open(g[j], users)) + j <= n}
<1> HIDE DEF ids, users, W
<1>14. 0 \in T
  <2>1. Open(g[0], users) \in SUBSET users
    BY DEF Open
  <2>2. Cardinality(Open(g[0], users)) <= Cardinality(users)
    BY <1>3, <2>1, FS_Subset
  <2>3. Cardinality(Open(g[0], users)) \in Nat /\ Cardinality(users) \in Nat
    BY <1>3, <1>5, <1>13, FS_CardinalityType
  <2> QED BY <1>3, <1>5, <2>2, <2>3
<1>15. ASSUME NEW j \in T PROVE j + 1 \in T
  <2> SUFFICES ASSUME j + 1 <= n
               PROVE  \/ Open(g[j + 1], users) = {}
                      \/ Cardinality(Open(g[j + 1], users)) + (j + 1) <= n
    OBVIOUS
  <2>1. /\ j \in Nat /\ j + 1 \in 1..n /\ (j + 1) - 1 = j /\ j \in 0..n /\ j + 1 \in 0..n
        /\ Open(g[j], users) = {} \/ Cardinality(Open(g[j], users)) + j <= n
    BY <1>5
  <2>2. g[j + 1] = GreedyRound(g[j]) /\ g[j] \in W
    BY <1>12, <2>1
  <2> DEFINE o == Open(g[j], users)
             q == Open(g[j + 1], users)
  <2>3. q \subseteq o /\ (o # {} => q # o)
    BY <1>11, <2>2
  <2>4. /\ IsFiniteSet(o) /\ Cardinality(o) \in Nat /\ Cardinality(q) \in Nat
        /\ o = {} \/ Cardinality(o) + j <= n
    BY <1>13, <2>1
  <2> HIDE DEF o, q
  <2>5. q = {} \/ Cardinality(q) + (j + 1) <= n
    <3>1. CASE o = {}
      BY <2>3, <3>1
    <3>2. CASE o # {}
      <4>1. q \in SUBSET o /\ q # o
        BY <2>3, <3>2
      <4>2. Cardinality(q) <= Cardinality(o) /\ Cardinality(o) # Cardinality(q)
        BY <2>4, <4>1, FS_Subset
      <4> QED BY <1>5, <2>1, <2>4, <3>2, <4>2
    <3> QED BY <3>1, <3>2
  <2> QED BY <2>5 DEF q
<1>16. T = Nat
  <2>1. T \subseteq Nat
    OBVIOUS
  <2> HIDE DEF T
  <2> QED BY <1>14, <1>15, <2>1, NatSetInduction
<1>17. Open(g[n], users) = {}
  <2>1. n \in T /\ n \in 0..n
    BY <1>5, <1>16
  <2>2. Open(g[n], users) = {} \/ Cardinality(Open(g[n], users)) + n <= n
    BY <1>5, <2>1
  <2>3. Cardinality(Open(g[n], users)) \in Nat /\ IsFiniteSet(Open(g[n], users))
    BY <1>13, <2>1
  <2>4. Open(g[n], users) # {} => Cardinality(Open(g[n], users)) # 0
    BY <2>3, FS_EmptySet
  <2> QED BY <1>5, <2>2, <2>3, <2>4
<1>18. OptimizeSettlement(edges) = g[n].plan
  BY <1>12, GreedyFrom DEF ids
<1>19. Fair(g[n], net, users)
  <2>1. n \in 0..n
    BY <1>5
  <2> QED BY <1>13, <2>1 DEF W
<1>20. \E w : Fair(w, net, users) /\ Open(w, users) = {} /\ OptimizeSettlement(edges) = w.plan
  BY <1>17, <1>18, <1>19
<1> QED BY <1>2, <1>3, <1>7, <1>20 DEF net, users, ids

(* The promise of the comment on optimizeSettlement, for all debts: the     *)
(* plan settles every balance, with fewer lines than members that have one, *)
(* from those who owe to those who are owed.                                *)
THEOREM PlansClear ==
  ASSUME NEW people, people \subseteq Int, NEW edges, Proper(edges, people)
  PROVE  PlanClears(edges)
<1> DEFINE users == ToSet(Mentioned(edges))
           net == [m \in users |-> NetOf(edges, m)]
           plan == OptimizeSettlement(edges)
           nonzero == {m \in users : NetOf(edges, m) # 0}
<1>1. IsFiniteSet(users) /\ net \in [users -> Int]
  BY PlanIs
<1>2. PICK w : Fair(w, net, users) /\ Open(w, users) = {} /\ plan = w.plan
  BY PlanIs
<1>3. nonzero = {m \in users : net[m] # 0}
  OBVIOUS
<1>4. ASSUME NEW m \in users PROVE Residual(edges, plan, m) = 0
  <2>1. w.left[m] = net[m] + PaidBy(plan, m) /\ w.left[m] = 0
    BY <1>2 DEF Fair, Accounted, Open
  <2> QED BY <2>1 DEF Residual
<1>5. nonzero # {} => Len(plan) < Cardinality(nonzero)
  <2>1. plan # <<>> => Len(plan) < Cardinality(nonzero)
    BY <1>2, <1>3 DEF Fair, Few
  <2>2. nonzero # {} => Cardinality(nonzero) \in Nat /\ Cardinality(nonzero) # 0
    <3>1. nonzero \in SUBSET users
      OBVIOUS
    <3> HIDE DEF nonzero, users
    <3>2. IsFiniteSet(nonzero)
      BY <1>1, <3>1, FS_Subset
    <3> QED BY <3>2, FS_CardinalityType, FS_EmptySet
  <2>3. plan = <<>> => Len(plan) = 0
    OBVIOUS
  <2> HIDE DEF plan, nonzero
  <2> QED BY <2>1, <2>2, <2>3
<1>6. ASSUME NEW i \in DOMAIN plan
      PROVE  plan[i].amount > 0 /\ NetOf(edges, plan[i].from) < 0 /\ NetOf(edges, plan[i].to) > 0
  <2>1. plan \in Seq(Line(users))
    BY <1>2 DEF Fair, Work
  <2>2. plan[i] \in Line(users)
    BY <2>1
  <2>3. net[plan[i].from] < 0 /\ net[plan[i].to] > 0
    BY <1>2 DEF Fair, Directed
  <2> QED BY <2>2, <2>3 DEF Line
<1> QED BY <1>4, <1>5, <1>6 DEF PlanClears

(* A plan as a settlement takes it.                                         *)
LEMMA PlanFacts ==
  ASSUME NEW people, people \subseteq Int, IsFiniteSet(people), NEW edges, Proper(edges, people)
  PROVE  LET plan == OptimizeSettlement(edges) IN
         /\ plan \in Seq(Line(people))
         /\ plan # <<>> => DOMAIN edges # {} /\ Len(plan) <= Cardinality(people) - 1
         /\ \A i \in DOMAIN plan : plan[i].from # plan[i].to
         /\ \A m : NetOf(edges, m) + PaidBy(plan, m) = 0
<1> DEFINE users == ToSet(Mentioned(edges))
           net == [m \in users |-> NetOf(edges, m)]
           plan == OptimizeSettlement(edges)
           nonzero == {m \in users : net[m] # 0}
<1>1. IsFiniteSet(users) /\ net \in [users -> Int] /\ users \subseteq people
  BY PlanIs
<1>2. PICK w : Fair(w, net, users) /\ Open(w, users) = {} /\ plan = w.plan
  BY PlanIs
<1>3. /\ plan \in Seq(Line(users)) /\ DOMAIN plan = 1..Len(plan) /\ Len(plan) \in Nat
      /\ \A i \in DOMAIN plan : plan[i] \in Line(users)
  BY <1>2 DEF Fair, Work
<1>4. plan \in Seq(Line(people))
  <2>1. Line(users) \subseteq Line(people)
    BY <1>1 DEF Line
  <2> HIDE DEF plan
  <2> QED BY <1>3, <2>1
<1>5. \A i \in DOMAIN plan : net[plan[i].from] < 0 /\ net[plan[i].to] > 0
  BY <1>2 DEF Fair, Directed
<1>6. \A i \in DOMAIN plan : plan[i].from # plan[i].to
  <2> SUFFICES ASSUME NEW i \in DOMAIN plan PROVE plan[i].from # plan[i].to
    OBVIOUS
  <2>1. plan[i].from \in users
    BY <1>3 DEF Line
  <2>2. net[plan[i].from] \in Int
    BY <1>1, <2>1
  <2> QED BY <1>5, <2>2
<1>7. ASSUME plan # <<>> PROVE DOMAIN edges # {}
  <2>1. 1 \in DOMAIN plan
    BY <1>3, <1>7
  <2>2. plan[1].from \in users /\ NetOf(edges, plan[1].from) # 0
    <3>1. plan[1].from \in users /\ net[plan[1].from] < 0
      BY <1>3, <1>5, <2>1 DEF Line
    <3> QED BY <3>1
  <2>3. ASSUME DOMAIN edges = {} PROVE FALSE
    <3>1. NetOf(edges, plan[1].from) = 0
      <4>1. PICK m : m = plan[1].from
        OBVIOUS
      <4>2. NetOf(edges, m) = SumOf([i \in DOMAIN edges |-> Part(edges[i], m)], DOMAIN edges)
        BY SumFunctionIs DEF NetOf
      <4> QED BY <2>3, <4>1, <4>2, SumEmpty
    <3> QED BY <2>2, <3>1
  <2> QED BY <2>3
<1>8. ASSUME plan # <<>> PROVE Len(plan) <= Cardinality(people) - 1
  <2>1. Len(plan) < Cardinality(nonzero)
    BY <1>2, <1>8 DEF Fair, Few
  <2>2. nonzero \in SUBSET people
    BY <1>1
  <2> HIDE DEF nonzero
  <2>3. /\ Cardinality(nonzero) <= Cardinality(people)
        /\ Cardinality(nonzero) \in Nat /\ Cardinality(people) \in Nat
    BY <2>2, FS_Subset, FS_CardinalityType
  <2> QED BY <1>3, <2>1, <2>3
<1>9. ASSUME NEW m PROVE NetOf(edges, m) + PaidBy(plan, m) = 0
  <2>1. CASE m \in users
    <3>1. w.left[m] = net[m] + PaidBy(plan, m) /\ w.left[m] = 0
      BY <1>2, <2>1 DEF Fair, Accounted, Open
    <3> QED BY <2>1, <3>1
  <2>2. CASE m \notin users
    <3> DEFINE g == [i \in DOMAIN edges |-> Part(edges[i], m)]
               h == [n \in DOMAIN plan |-> LinePart(plan[n], m)]
    <3>1. \A i \in DOMAIN edges : edges[i].debtor # m /\ edges[i].creditor # m
      BY <2>2, MentionedIs
    <3>2. \A i \in DOMAIN edges : g[i] = 0
      BY <3>1 DEF Part
    <3>3. \A n \in DOMAIN plan : plan[n].from # m /\ plan[n].to # m
      BY <1>3, <2>2 DEF Line
    <3>4. \A n \in DOMAIN plan : h[n] = 0
      BY <3>3 DEF LinePart
    <3>5. IsFiniteSet(DOMAIN edges) /\ IsFiniteSet(DOMAIN plan)
      BY <1>3, FS_Interval DEF Proper
    <3>6. /\ NetOf(edges, m) = SumFunction(g) /\ DOMAIN g = DOMAIN edges
          /\ PaidBy(plan, m) = SumFunction(h) /\ DOMAIN h = DOMAIN plan
      BY DEF NetOf, PaidBy
    <3> HIDE DEF g, h, plan
    <3>7. NetOf(edges, m) = SumOf(g, DOMAIN edges) /\ PaidBy(plan, m) = SumOf(h, DOMAIN plan)
      BY <3>6, SumFunctionIs
    <3>8. SumOf(g, DOMAIN edges) = 0 /\ SumOf(h, DOMAIN plan) = 0
      BY <3>2, <3>4, <3>5, SumZero
    <3> QED BY <3>7, <3>8
  <2> QED BY <2>1, <2>2
<1> QED BY <1>4, <1>6, <1>7, <1>8, <1>9

(* A finite set as a sequence has each member once.                         *)
LEMMA SetToSeqIs ==
  ASSUME NEW S, IsFiniteSet(S)
  PROVE  /\ Cardinality(S) \in Nat
         /\ SetToSeq(S) \in [1..Cardinality(S) -> S]
         /\ \A i, j \in 1..Cardinality(S) : SetToSeq(S)[i] = SetToSeq(S)[j] => i = j
         /\ \A x \in S : \E i \in 1..Cardinality(S) : SetToSeq(S)[i] = x
<1> DEFINE n == Cardinality(S)
           f == SetToSeq(S)
<1>1. n \in Nat /\ ExistsBijection(1..n, S)
  BY FS_CardinalityType
<1>2. PICK g \in Bijection(1..n, S) : TRUE
  BY <1>1 DEF ExistsBijection
<1>3. g \in [1..n -> S] /\ IsInjective(g)
  BY <1>2 DEF Bijection, Injection, IsInjective
<1>4. f \in [1..n -> S] /\ IsInjective(f)
  BY <1>3 DEF SetToSeq
<1> HIDE DEF f
<1>5. \A i, j \in 1..n : f[i] = f[j] => i = j
  BY <1>4 DEF IsInjective
<1>6. f \in Injection(1..n, S)
  BY <1>4, <1>5 DEF Injection
<1>7. Cardinality(1..n) = n
  BY <1>1, FS_Interval
<1>8. f \in Surjection(1..n, S)
  BY <1>6, <1>7, FS_Injection
<1> QED BY <1>1, <1>4, <1>5, <1>8 DEF f, Surjection

(* An order of a finite set is a sequence with each member once.            *)
LEMMA OrderIs ==
  ASSUME NEW S, IsFiniteSet(S), NEW f \in SetToSeqs(S)
  PROVE  /\ Cardinality(S) \in Nat
         /\ f \in [1..Cardinality(S) -> S]
         /\ \A i, j \in 1..Cardinality(S) : f[i] = f[j] => i = j
         /\ \A x \in S : \E i \in 1..Cardinality(S) : f[i] = x
<1> DEFINE n == Cardinality(S)
<1>1. n \in Nat
  BY FS_CardinalityType
<1>2. f \in [1..n -> S] /\ \A i, j \in 1..n : i # j => f[i] # f[j]
  BY DEF SetToSeqs
<1>3. IsInjective(f)
  BY <1>2 DEF IsInjective
<1>4. f \in [1..n -> S] /\ \A i, j \in 1..n : f[i] = f[j] => i = j
  BY <1>2
<1>6. f \in Injection(1..n, S)
  BY <1>3, <1>4 DEF Injection, IsInjective
<1>7. Cardinality(1..n) = n
  BY <1>1, FS_Interval
<1>8. f \in Surjection(1..n, S)
  BY <1>6, <1>7, FS_Injection
<1> QED BY <1>1, <1>4, <1>8 DEF Surjection
-------------------------------------------------------------------------------
(* The invariant *)

People == Founders \cup scene.joiners
LineStatus == {"PENDING", "COMPLETED", "FAILED"}
DebtRow ==
  [debtor : People, creditor : People, amount : Nat \ {0}, kind : Kind,
   status : {"PENDING", "PROCESSING", "COMPLETED"}, settlement : Settlements \cup {"none"}]
LineRow == [from : People, to : People, amount : Nat \ {0}, status : LineStatus]
SettlementRow ==
  [status : Final \cup {"NONE", "PROCESSING"}, lines : Seq(LineRow), success : Nat,
   checked : BOOLEAN]
RunnerRow ==
  [pc : {"idle", "status", "lines", "next", "paying", "record", "finalize"}, todo : SUBSET Nat]

DebtForm == [debtor : Int, creditor : Int, typed : [whole : Nat, frac : Seq(0..9)]]
ExpenseForm == [payer : Int, total : Nat, participants : SUBSET Int]
SceneRow ==
  [servers : SUBSET Servers, keys : SUBSET Settlements, bare : BOOLEAN,
   first : Seq([debtor : Founders, creditor : Founders, amount : Nat \ {0}]),
   joiners : SUBSET Int, debts : SUBSET DebtForm, expenses : SUBSET ExpenseForm, more : Nat]
SceneOK ==
  /\ scene \in SceneRow
  /\ \A x \in scene.expenses : IsFiniteSet(x.participants) /\ x.participants # {}
  /\ People \subseteq Int /\ IsFiniteSet(People) /\ IsFiniteSet(scene.servers)
  /\ Settlements \X (1..(Cardinality(People) - 1)) \subseteq PayKeys

DebtsOK ==
  /\ members \subseteq People
  /\ debts \in Seq(DebtRow)
  /\ \A i \in DOMAIN debts :
       /\ debts[i].debtor \in members /\ debts[i].creditor \in members
       /\ debts[i].debtor # debts[i].creditor
       /\ debts[i].status = "PROCESSING" => debts[i].settlement \in Settlements

LinesOK ==
  /\ settlement \in [Settlements -> SettlementRow]
  /\ \A k \in Settlements :
       /\ settlement[k].success <= Len(settlement[k].lines)
       /\ \A n \in DOMAIN settlement[k].lines :
            /\ <<k, n>> \in PayKeys
            /\ settlement[k].lines[n].from \in members /\ settlement[k].lines[n].to \in members
            /\ settlement[k].lines[n].from # settlement[k].lines[n].to

RunnersOK ==
  /\ runner \in [Payers -> RunnerRow]
  /\ \A s \in Servers, k \in Settlements :
       /\ runner[<<s, k>>].todo \subseteq DOMAIN settlement[k].lines
       /\ runner[<<s, k>>].pc # "idle" => settlement[k].status # "NONE"
       /\ runner[<<s, k>>].pc \in {"paying", "record"} => runner[<<s, k>>].todo # {}
       /\ runner[<<s, k>>].pc \notin {"next", "paying", "record"} => runner[<<s, k>>].todo = {}
       /\ s \notin scene.servers => runner[<<s, k>>].pc = "idle"

TablesInv ==
  PayTypeOK /\ SceneOK /\ DebtsOK /\ LinesOK /\ RunnersOK /\ ProcessingDebtsHaveOwner

(* What the runners know of the lines they have read, and of the calls of   *)
(* execute they make.                                                       *)
Past(r) == runner[r].pc \in {"next", "paying", "record", "finalize"}
Pends(k, n) == settlement[k].lines[n].status = "PENDING"
Completed(k, n) == settlement[k].lines[n].status = "COMPLETED"
Told(k, n) == <<k, n>> \in doubt \/ (Completed(k, n) <=> paid[<<k, n>>] = "moved")

DecidedAt(s, k) ==
  LET r == <<s, k>> IN
  Past(r) => \A n \in DOMAIN settlement[k].lines \ runner[r].todo : ~Pends(k, n)
DecidedInv ==
  /\ \A k \in Settlements :
       IsFinal(k) => \A n \in DOMAIN settlement[k].lines : ~Pends(k, n)
  /\ \A s \in Servers, k \in Settlements : DecidedAt(s, k)

CallAt(s, k) ==
  LET r == <<s, k>> IN
  /\ Calling(r) => runner[r].pc = "paying"
  /\ runner[r].pc = "paying" =>
       pay[r].pc \in {"waiting", "owning", "answered"} /\ pay[r].key = <<k, FirstOf(r)>>
CallInv == \A s \in Servers, k \in Settlements : CallAt(s, k)

(* With one server, nobody else pays the lines of a runner.                 *)
AnswerTrue(call) ==
  /\ call.pc = "waiting" => paid[call.key] # "moved"
  /\ call.pc = "owning" => paid[call.key] = "inflight"
  /\ call.pc = "answered" =>
       \/ call.answer = "COMPLETED" /\ paid[call.key] = "moved"
       \/ call.answer = "FAILED" /\ paid[call.key] # "moved"
       \/ call.answer \in {"UNCERTAIN", "IN_FLIGHT"}
RunAt(s, k) ==
  LET r == <<s, k>> IN
  /\ runner[r].pc \notin {"idle", "status"} => settlement[k].status = "PROCESSING"
  /\ Past(r) => \A n \in DOMAIN settlement[k].lines \ runner[r].todo : Told(k, n)
  /\ runner[r].pc = "paying" => AnswerTrue(pay[r])
  /\ runner[r].pc = "record" => paid[<<k, FirstOf(r)>>] = "moved"
LineAt(k) ==
  /\ \A n \in DOMAIN settlement[k].lines :
       Completed(k, n) => <<k, n>> \in doubt \/ paid[<<k, n>>] = "moved"
  /\ IsFinal(k) =>
       /\ \A n \in DOMAIN settlement[k].lines : Told(k, n)
       /\ settlement[k].success = Cardinality(Done(k))
       /\ settlement[k].status = "COMPLETED" <=>
            settlement[k].success = Len(settlement[k].lines)
AloneInv ==
  Alone => /\ \A s \in Servers, k \in Settlements : RunAt(s, k)
           /\ \A k \in Settlements : LineAt(k)
-------------------------------------------------------------------------------
(* The amounts *)

WithDigit(n, d) == 10 * n + d
DigitsSince(b, seq) == FoldLeft(LAMBDA n, d : WithDigit(n, d), b, seq)
DigitsIn(W, seq, n) == \A w \in W, i \in 1..n : WithDigit(w, seq[i]) \in W

(* The digits one by one.                                                   *)
LEMMA DigitsFold ==
  ASSUME NEW W, NEW b \in W,
         NEW seq, NEW n \in Nat, DOMAIN seq = 1..n,
         DigitsIn(W, seq, n)
  PROVE  \E g \in [0..n -> W] :
           /\ g[0] = b
           /\ \A j \in 1..n : g[j] = WithDigit(g[j - 1], seq[j])
           /\ DigitsSince(b, seq) = g[n]
<1> DEFINE it == CHOOSE it : it = [s \in SUBSET (DOMAIN seq) |->
                   IF s = {} THEN b ELSE WithDigit(it[s \ {Max(s)}], seq[Max(s)])]
<1>1. DigitsSince(b, seq) = it[1..n]
  BY DEF DigitsSince, FoldLeft, MapThenFoldSet
<1>2. PICK f : \A w \in W, i \in 1..n : f[<<w, i>>] = WithDigit(w, seq[i])
  <2> DEFINE f == [p \in W \X (1..n) |-> WithDigit(p[1], seq[p[2]])]
  <2>1. \A w \in W, i \in 1..n : f[<<w, i>>] = WithDigit(w, seq[i])
    OBVIOUS
  <2> HIDE DEF f
  <2> QED BY <2>1
<1>3. Steps(f, n, W)
  BY <1>2 DEF Steps, DigitsIn
<1>4. \E jt : jt = [s \in SUBSET (DOMAIN seq) |->
                   IF s = {} THEN b ELSE WithDigit(jt[s \ {Max(s)}], seq[Max(s)])]
  <2>0. PICK jt : Folds(jt, n, W, b, f)
    BY <1>3, FoldExists
  <2>1. /\ jt \in [SUBSET (1..n) -> W]
        /\ \A s \in SUBSET (1..n) : jt[s] = Folded(jt, s, b, f)
    BY <2>0 DEF Folds
  <2>2. ASSUME NEW s \in SUBSET (1..n), s # {}
        PROVE  jt[s] = WithDigit(jt[s \ {Max(s)}], seq[Max(s)])
    <3>1. Max(s) \in 1..n /\ jt[s \ {Max(s)}] \in W
      BY <2>1, <2>2, MaxUpto
    <3> QED BY <1>2, <2>1, <2>2, <3>1 DEF Folded
  <2>3. jt[{}] = b
    BY <2>1 DEF Folded
  <2>4. \A s \in SUBSET (1..n) :
          jt[s] = IF s = {} THEN b ELSE WithDigit(jt[s \ {Max(s)}], seq[Max(s)])
    BY <2>2, <2>3
  <2> QED BY <2>1, <2>4
<1>5. \A s \in SUBSET (1..n) :
        it[s] = IF s = {} THEN b ELSE WithDigit(it[s \ {Max(s)}], seq[Max(s)])
  BY <1>4
<1> HIDE DEF it
<1>6. it[{}] = b
  BY <1>5
<1>7. ASSUME NEW s \in SUBSET (1..n), s # {}, it[s \ {Max(s)}] \in W
      PROVE  it[s] = f[<<it[s \ {Max(s)}], Max(s)>>]
  <2>1. Max(s) \in 1..n
    BY <1>7, MaxUpto
  <2> QED BY <1>2, <1>5, <1>7, <2>1
<1>8. Unfolds(it, n, W, b, f)
  BY <1>6, <1>7 DEF Unfolds
<1>9. PICK g : Running(g, n, W, b, f) /\ it[1..n] = g[n]
  BY <1>3, <1>8, FoldIs
<1>10. \A j \in 1..n : g[j] = WithDigit(g[j - 1], seq[j])
  <2>1. \A j \in 1..n : g[j - 1] \in W
    BY <1>9 DEF Running
  <2> QED BY <1>2, <1>9, <2>1 DEF Running
<1> QED BY <1>1, <1>10, <1>9 DEF Running

LEMMA DigitsFrom ==
  ASSUME NEW seq
  PROVE  Digits(seq) = DigitsSince(0, seq)
  BY DEF Digits, DigitsSince, WithDigit, FoldLeft, MapThenFoldSet

(* Two digits make the number they stand for.                               *)
LEMMA DigitsAre ==
  ASSUME NEW seq, DOMAIN seq = 1..2, seq[1] \in Nat, seq[2] \in Nat
  PROVE  Digits(seq) = 10 * seq[1] + seq[2]
<1>1. DigitsIn(Nat, seq, 2)
  <2>1. \A i \in 1..2 : seq[i] \in Nat
    <3>1. 1..2 = {1, 2}
      OBVIOUS
    <3> QED BY <3>1
  <2> QED BY <2>1 DEF DigitsIn, WithDigit
<1>2. PICK g \in [0..2 -> Nat] :
        /\ g[0] = 0 /\ \A j \in 1..2 : g[j] = WithDigit(g[j - 1], seq[j])
        /\ DigitsSince(0, seq) = g[2]
  <2>1. PICK n, b, W : n = 2 /\ b = 0 /\ W = Nat
    OBVIOUS
  <2>2. n \in Nat /\ b \in W /\ DOMAIN seq = 1..n /\ DigitsIn(W, seq, n)
    BY <1>1, <2>1
  <2>3. \E g \in [0..n -> W] :
          /\ g[0] = b
          /\ \A j \in 1..n : g[j] = WithDigit(g[j - 1], seq[j])
          /\ DigitsSince(b, seq) = g[n]
    BY ONLY <2>2, DigitsFold
  <2> QED BY <2>1, <2>3
<1>3. g[1] = 10 * g[0] + seq[1] /\ g[2] = 10 * g[1] + seq[2]
  <2>1. 1 \in 1..2 /\ 2 \in 1..2 /\ 1 - 1 = 0 /\ 2 - 1 = 1
    OBVIOUS
  <2> QED BY <1>2, <2>1 DEF WithDigit
<1> QED BY <1>2, <1>3, DigitsFrom

(* A typed amount is a number of paisa.                                     *)
LEMMA PaisaAre ==
  ASSUME NEW typed \in [whole : Nat, frac : Seq(0..9)]
  PROVE  BdtToPaisa(typed) \in Nat
<1> DEFINE frac == typed.frac
           digits == Padded(frac)
<1>1. typed.whole \in Nat /\ frac \in Seq(0..9)
  OBVIOUS
<1> HIDE DEF frac
<1>2. DOMAIN digits = 1..2 /\ digits[1] \in Nat /\ digits[2] \in Nat
  <2> DEFINE all == frac \o <<0, 0>>
  <2>1. <<0, 0>> \in Seq(0..9) /\ Len(<<0, 0>>) = 2
    OBVIOUS
  <2>2. all \in Seq(0..9) /\ Len(all) >= 2
    BY <1>1, <2>1
  <2> HIDE DEF all
  <2>3. /\ DOMAIN SubSeq(all, 1, 2) = 1..2 /\ \A i \in 1..2 : SubSeq(all, 1, 2)[i] = all[i]
        /\ 1 \in DOMAIN all /\ 2 \in DOMAIN all
    BY <2>2
  <2>4. all[1] \in 0..9 /\ all[2] \in 0..9
    BY <2>2, <2>3
  <2> QED BY <2>3, <2>4 DEF Padded, all
<1> HIDE DEF digits
<1>3. Digits(digits) \in Nat
  BY <1>2, DigitsAre
<1> QED BY <1>1, <1>3 DEF BdtToPaisa, PaisaPerBdt, digits, frac
-------------------------------------------------------------------------------
(* The tables *)

(* What an UPDATE of some debts leaves.                                     *)
Stamped(new, ids, status, k) ==
  /\ new \in Seq(DebtRow) /\ DOMAIN new = DOMAIN debts /\ Len(new) = Len(debts)
  /\ \A i \in ids : new[i].status = status /\ new[i].settlement = k
  /\ \A i \in DOMAIN debts \ ids : new[i] = debts[i]
  /\ \A i \in DOMAIN debts :
       /\ new[i].debtor = debts[i].debtor /\ new[i].creditor = debts[i].creditor
       /\ new[i].amount = debts[i].amount /\ new[i].kind = debts[i].kind

LEMMA StampIs ==
  ASSUME NEW ids, ids \subseteq DOMAIN debts, NEW status \in {"PENDING", "PROCESSING", "COMPLETED"},
         NEW k \in Settlements \cup {"none"}, debts \in Seq(DebtRow)
  PROVE  Stamped(WithStatus(ids, status, k), ids, status, k)
<1> DEFINE new == WithStatus(ids, status, k)
<1>1. /\ Len(debts) \in Nat /\ DOMAIN debts = 1..Len(debts)
      /\ \A i \in DOMAIN debts : debts[i] \in DebtRow
  OBVIOUS
<1>2. /\ DOMAIN new = DOMAIN debts
      /\ \A i \in ids : new[i] = [debts[i] EXCEPT !.status = status, !.settlement = k]
      /\ \A i \in DOMAIN debts \ ids : new[i] = debts[i]
  BY DEF WithStatus
<1>3. \A i \in ids : /\ new[i] \in DebtRow /\ new[i].status = status /\ new[i].settlement = k
                     /\ new[i].debtor = debts[i].debtor /\ new[i].creditor = debts[i].creditor
                     /\ new[i].amount = debts[i].amount /\ new[i].kind = debts[i].kind
  <2> SUFFICES ASSUME NEW i \in ids
               PROVE  /\ new[i] \in DebtRow /\ new[i].status = status /\ new[i].settlement = k
                      /\ new[i].debtor = debts[i].debtor /\ new[i].creditor = debts[i].creditor
                      /\ new[i].amount = debts[i].amount /\ new[i].kind = debts[i].kind
    OBVIOUS
  <2>1. PICK d \in DebtRow : d = debts[i]
    BY <1>1
  <2>2. new[i] = [d EXCEPT !.status = status, !.settlement = k]
    BY <1>2, <2>1
  <2> HIDE DEF new
  <2> QED BY <2>1, <2>2 DEF DebtRow
<1>4. new = [i \in 1..Len(debts) |-> new[i]] /\ \A i \in 1..Len(debts) : new[i] \in DebtRow
  BY <1>1, <1>2, <1>3 DEF WithStatus
<1> HIDE DEF new
<1>5. new \in [1..Len(debts) -> DebtRow]
  BY <1>4
<1>6. new \in Seq(DebtRow) /\ Len(new) = Len(debts)
  <2>1. PICK n \in Nat : n = Len(debts)
    BY <1>1
  <2>2. new \in [1..n -> DebtRow]
    BY <1>5, <2>1
  <2>3. new \in Seq(DebtRow)
    BY <2>2
  <2>4. Len(new) = n
    BY <2>2, <2>3
  <2> QED BY <2>1, <2>3, <2>4
<1>7. Stamped(new, ids, status, k)
  BY <1>1, <1>2, <1>3, <1>6 DEF Stamped
<1> QED BY <1>7 DEF new

(* What an INSERT of some debts leaves.                                     *)
LEMMA JoinedIs ==
  ASSUME NEW S, NEW old \in Seq(S), NEW more \in Seq(S)
  PROVE  LET new == old \o more IN
         /\ new \in Seq(S)
         /\ DOMAIN old = 1..Len(old) /\ DOMAIN new = 1..(Len(old) + Len(more))
         /\ DOMAIN more = 1..Len(more) /\ Len(old) \in Nat /\ Len(more) \in Nat
         /\ \A i \in DOMAIN old : new[i] = old[i]
         /\ \A i \in DOMAIN new \ DOMAIN old :
              i - Len(old) \in DOMAIN more /\ new[i] = more[i - Len(old)]
         /\ \A i \in DOMAIN more :
              i + Len(old) \in DOMAIN new \ DOMAIN old /\ new[i + Len(old)] = more[i]
  OBVIOUS

(* The debts of a settlement that is not running are none.                  *)
LEMMA NoDebtsOf ==
  ASSUME ProcessingDebtsHaveOwner, NEW k, settlement[k].status # "PROCESSING"
  PROVE  DebtsOf(k) = {}
  BY DEF ProcessingDebtsHaveOwner, DebtsOf

(* Debts that are added PENDING.                                            *)
LEMMA DebtsGrow ==
  ASSUME DebtsOK, ProcessingDebtsHaveOwner, settlement' = settlement, members' = members,
         People' = People, NEW more \in Seq(DebtRow), debts' = debts \o more,
         \A i \in DOMAIN more :
           /\ more[i].status = "PENDING"
           /\ more[i].debtor \in members /\ more[i].creditor \in members
           /\ more[i].debtor # more[i].creditor
  PROVE  DebtsOK' /\ ProcessingDebtsHaveOwner'
<1>1. debts \in Seq(DebtRow)
  BY DEF DebtsOK
<1>2. /\ debts' \in Seq(DebtRow) /\ DOMAIN debts \subseteq DOMAIN debts'
      /\ \A i \in DOMAIN debts : debts'[i] = debts[i]
      /\ \A i \in DOMAIN debts' \ DOMAIN debts : \E j \in DOMAIN more : debts'[i] = more[j]
  BY <1>1, JoinedIs
<1>3. \A i \in DOMAIN debts' \ DOMAIN debts :
        /\ debts'[i].status = "PENDING"
        /\ debts'[i].debtor \in members /\ debts'[i].creditor \in members
        /\ debts'[i].debtor # debts'[i].creditor
  BY <1>2
<1>4. DebtsOK'
  BY <1>2, <1>3 DEF DebtsOK, DebtRow
<1>5. \A k \in Settlements : DebtsOf(k)' = DebtsOf(k)
  BY <1>2, <1>3 DEF DebtsOf
<1>6. ProcessingDebtsHaveOwner'
  BY <1>2, <1>3, <1>5 DEF ProcessingDebtsHaveOwner, DebtsOf
<1> QED BY <1>4, <1>6
-------------------------------------------------------------------------------
(* The payment *)

(* What a step of the service does.                                         *)
LEMMA StepPayIs ==
  ASSUME PayTypeOK, NEW r \in Payers, StepPay(r), pay[r].key \in PayKeys
  PROVE  LET k == pay[r].key IN
         /\ PayTypeOK'
         /\ \A q \in Payers : q # r => pay'[q] = pay[q]
         /\ pay'[r].key = k
         /\ \A q \in PayKeys : q # k => paid'[q] = paid[q]
         /\ \/ /\ pay[r].pc = "waiting" /\ pay'[r].pc = "answered" /\ paid' = paid
               /\ \/ pay'[r].answer = "COMPLETED" /\ paid[k] = "moved"
                  \/ pay'[r].answer = "IN_FLIGHT"
                  \/ pay'[r].answer = "FAILED" /\ paid[k] # "failed"
            \/ /\ pay[r].pc = "waiting" /\ pay'[r].pc = "owning"
               /\ paid[k] \in {"none", "failed"} /\ paid'[k] = "inflight"
            \/ /\ pay[r].pc = "owning" /\ pay'[r].pc = "answered"
               /\ \/ paid'[k] = "moved" /\ pay'[r].answer \in {"COMPLETED", "UNCERTAIN"}
                  \/ paid'[k] = paid[k] /\ pay'[r].answer \in {"FAILED", "UNCERTAIN"}
                  \/ paid'[k] = "failed" /\ pay'[r].answer = "FAILED"
<1>a. ASSUME NEW answer \in PayAnswer, AnswerPay(r, answer)
      PROVE  /\ pay' \in [Payers -> PayCall] /\ \A q \in Payers : q # r => pay'[q] = pay[q]
             /\ pay'[r].pc = "answered" /\ pay'[r].answer = answer /\ pay'[r].key = pay[r].key
  <2>1. pay' = [pay EXCEPT ![r] = [pay[r] EXCEPT !.pc = "answered", !.answer = answer]]
    BY <1>a DEF PayTypeOK, AnswerPay
  <2> DEFINE n == [pay[r] EXCEPT !.pc = "answered", !.answer = answer]
  <2>2. n \in PayCall /\ n.pc = "answered" /\ n.answer = answer /\ n.key = pay[r].key
    BY DEF PayTypeOK, PayCall
  <2> HIDE DEF n
  <2>3. pay' = [pay EXCEPT ![r] = n]
    BY <2>1 DEF n
  <2> QED BY <2>2, <2>3 DEF PayTypeOK
<1>b. paid \in [PayKeys -> PayStatus]
  BY DEF PayTypeOK
<1>3. CASE JoinPay(r)
  <2>1. /\ pay[r].pc = "waiting" /\ paid' = paid
        /\ \/ AnswerPay(r, "COMPLETED") /\ paid[pay[r].key] = "moved"
           \/ AnswerPay(r, "IN_FLIGHT")
           \/ AnswerPay(r, "FAILED") /\ paid[pay[r].key] # "failed"
    BY <1>3, SettlementAssumption DEF JoinPay
  <2>2. {"COMPLETED", "IN_FLIGHT", "FAILED"} \subseteq PayAnswer
    BY DEF PayAnswer
  <2> QED BY <1>a, <1>b, <2>1, <2>2 DEF PayTypeOK
<1>4. CASE OwnPay(r)
  <2>1. /\ pay[r].pc = "waiting" /\ paid[pay[r].key] \in {"none", "failed"}
        /\ paid' = [paid EXCEPT ![pay[r].key] = "inflight"]
        /\ pay' = [pay EXCEPT ![r].pc = "owning"]
    BY <1>4 DEF OwnPay
  <2>2. pay' \in [Payers -> PayCall] /\ pay'[r].pc = "owning" /\ pay'[r].key = pay[r].key
        /\ \A q \in Payers : q # r => pay'[q] = pay[q]
    BY <2>1 DEF PayTypeOK, PayCall
  <2>3. paid' \in [PayKeys -> PayStatus]
    BY <1>b, <2>1 DEF PayStatus
  <2> QED BY <1>b, <2>1, <2>2, <2>3 DEF PayTypeOK
<1>5. CASE EndPay(r)
  <2>1. /\ {"COMPLETED", "UNCERTAIN", "FAILED"} \subseteq PayAnswer
        /\ {"moved", "failed"} \subseteq PayStatus
    BY DEF PayAnswer, PayStatus
  <2>2. pay[r].pc = "owning"
    BY <1>5 DEF EndPay
  <2>3. CASE /\ paid' = [paid EXCEPT ![pay[r].key] = "moved"]
             /\ \E answer \in {"COMPLETED", "UNCERTAIN"} : AnswerPay(r, answer)
    BY <1>a, <1>b, <2>1, <2>2, <2>3 DEF PayTypeOK
  <2>4. CASE /\ \E answer \in {"FAILED", "UNCERTAIN"} : AnswerPay(r, answer)
             /\ UNCHANGED paid
    BY <1>a, <1>b, <2>1, <2>2, <2>4 DEF PayTypeOK
  <2>5. CASE /\ paid' = [paid EXCEPT ![pay[r].key] = "failed"]
             /\ AnswerPay(r, "FAILED")
    BY <1>a, <1>b, <2>1, <2>2, <2>5 DEF PayTypeOK
  <2> QED BY <1>5, <2>3, <2>4, <2>5 DEF EndPay
<1> QED BY <1>3, <1>4, <1>5 DEF StepPay

(* A call begins: a transfer that is done answers at once.                  *)
LEMMA BeginPayIs ==
  ASSUME PayTypeOK, NEW r \in Payers, NEW k \in PayKeys, BeginPay(r, k)
  PROVE  /\ PayTypeOK' /\ paid' = paid
         /\ \A q \in Payers : q # r => pay'[q] = pay[q]
         /\ pay'[r].key = k
         /\ \/ pay'[r].pc = "answered" /\ pay'[r].answer = "COMPLETED" /\ paid[k] = "moved"
            \/ pay'[r].pc = "waiting" /\ paid[k] # "moved"
<1>1. CASE paid[k] = "moved"
  BY <1>1 DEF BeginPay, PayTypeOK, PayCall, PayAnswer
<1>2. CASE paid[k] # "moved"
  BY <1>2 DEF BeginPay, PayTypeOK, PayCall, PayAnswer
<1> QED BY <1>1, <1>2
(* A crash in a call leaves the money where it is.                          *)
LEMMA DropPayIs ==
  ASSUME PayTypeOK, NEW r \in Payers, IF Calling(r) THEN DropPay(r) ELSE UNCHANGED payVars
  PROVE  /\ PayTypeOK' /\ paid' = paid
         /\ \A q \in Payers : q # r => pay'[q] = pay[q]
         /\ ~Calling(r)'
<1>1. CASE Calling(r)
  <2>1. DropPay(r)
    BY <1>1
  <2> DEFINE n == [pay[r] EXCEPT !.pc = "dead", !.answer = "none"]
  <2>2. pay' = [pay EXCEPT ![r] = n] /\ paid' = paid
    BY <2>1 DEF DropPay, PayTypeOK
  <2>3. n \in PayCall /\ n.pc = "dead"
    BY DEF PayTypeOK, PayCall, PayAnswer
  <2> HIDE DEF n
  <2> QED BY <2>2, <2>3 DEF PayTypeOK, Calling
<1>2. CASE ~Calling(r)
  BY <1>2 DEF PayTypeOK, payVars, Calling
<1> QED BY <1>1, <1>2

-------------------------------------------------------------------------------
(* What the steps change of the tables *)

LEMMA SceneStays ==
  ASSUME SceneOK, scene' = scene \/ (scene.more > 0 /\ scene' = [scene EXCEPT !.more = @ - 1])
  PROVE  SceneOK' /\ People' = People /\ scene'.servers = scene.servers
<1>1. CASE scene' = scene
  BY <1>1 DEF SceneOK, People
<1>2. CASE scene.more > 0 /\ scene' = [scene EXCEPT !.more = @ - 1]
  <2>1. scene.more - 1 \in Nat /\ scene \in SceneRow
    BY <1>2 DEF SceneOK, SceneRow
  <2>2. PICK n \in Nat : n = scene.more - 1
    BY <2>1
  <2>3. scene' = [scene EXCEPT !.more = n]
    BY <1>2, <2>2
  <2>4. /\ scene'.servers = scene.servers /\ scene'.joiners = scene.joiners
        /\ scene'.expenses = scene.expenses /\ scene' \in SceneRow
    BY <2>1, <2>3 DEF SceneRow
  <2> QED BY <2>4 DEF SceneOK, People
<1> QED BY <1>1, <1>2

(* Steps that touch neither the lines nor the runners.                      *)
LEMMA RunsStay ==
  ASSUME LinesOK, RunnersOK, settlement' = settlement, runner' = runner,
         members \subseteq members', People' = People, scene'.servers = scene.servers
  PROVE  LinesOK' /\ RunnersOK'
<1>1. LineRow' = LineRow /\ SettlementRow' = SettlementRow
  BY DEF LineRow, SettlementRow
<1>2. LinesOK'
  BY <1>1 DEF LinesOK
<1>3. RunnersOK'
  BY DEF RunnersOK
<1> QED BY <1>2, <1>3

LEMMA RunnersAre ==
  ASSUME NEW s \in Servers, NEW k \in Settlements
  PROVE  <<s, k>> \in Payers /\ <<s, k>>[2] = k
  BY SettlementAssumption

(* The next line of a runner is a line, paid under a key of its own.        *)
LEMMA FirstIs ==
  ASSUME LinesOK, RunnersOK, NEW s \in Servers, NEW k \in Settlements, runner[<<s, k>>].todo # {}
  PROVE  /\ FirstOf(<<s, k>>) \in runner[<<s, k>>].todo
         /\ FirstOf(<<s, k>>) \in DOMAIN settlement[k].lines
         /\ <<k, FirstOf(<<s, k>>)>> \in PayKeys
<1>1. /\ runner[<<s, k>>].todo \in SUBSET Nat
      /\ runner[<<s, k>>].todo \subseteq DOMAIN settlement[k].lines
  BY RunnersAre DEF RunnersOK, RunnerRow
<1>2. FirstOf(<<s, k>>) \in runner[<<s, k>>].todo
  BY <1>1, MinIn DEF FirstOf
<1> QED BY <1>1, <1>2 DEF LinesOK

(* A runner moves on, to another program counter and with another rest.     *)
Moves(s, k, pc, todo) ==
  /\ runner' \in [Payers -> RunnerRow]
  /\ runner'[<<s, k>>].pc = pc /\ runner'[<<s, k>>].todo = todo
  /\ \A r \in Payers : r # <<s, k>> => runner'[r] = runner[r]

Step == {"idle", "status", "lines", "next", "paying", "record", "finalize"}

LEMMA RunnerAtIs ==
  ASSUME RunnersOK, NEW s \in Servers, NEW k \in Settlements, NEW pc \in Step,
         RunnerAt(<<s, k>>, pc)
  PROVE  Moves(s, k, pc, runner[<<s, k>>].todo)
<1> DEFINE r == <<s, k>>
           row == [runner[r] EXCEPT !.pc = pc]
<1>1. r \in Payers /\ runner \in [Payers -> RunnerRow] /\ runner[r] \in RunnerRow
  BY RunnersAre DEF RunnersOK
<1>2. row \in RunnerRow /\ row.pc = pc /\ row.todo = runner[r].todo
  BY <1>1 DEF RunnerRow, Step
<1>3. runner' = [runner EXCEPT ![r] = row]
  BY <1>1 DEF RunnerAt
<1> HIDE DEF row
<1>4. Moves(s, k, pc, row.todo)
  BY <1>1, <1>2, <1>3 DEF Moves
<1> QED BY <1>2, <1>4

LEMMA RunnerSetIs ==
  ASSUME RunnersOK, NEW s \in Servers, NEW k \in Settlements, NEW row \in RunnerRow,
         runner' = [runner EXCEPT ![<<s, k>>] = row]
  PROVE  Moves(s, k, row.pc, row.todo)
  BY RunnersAre DEF RunnersOK, Moves

LEMMA RunnerMoves ==
  ASSUME RunnersOK, NEW s \in Servers, NEW k \in Settlements, NEW pc, NEW todo,
         Moves(s, k, pc, todo),
         \A j \in Settlements : /\ DOMAIN settlement'[j].lines = DOMAIN settlement[j].lines
                                /\ settlement'[j].status = "NONE" => settlement[j].status = "NONE",
         scene'.servers = scene.servers,
         todo \subseteq DOMAIN settlement[k].lines,
         pc # "idle" => settlement[k].status # "NONE" /\ s \in scene.servers,
         pc \in {"paying", "record"} => todo # {},
         pc \notin {"next", "paying", "record"} => todo = {}
  PROVE  RunnersOK'
<1>1. ASSUME NEW t \in Servers, NEW j \in Settlements
      PROVE  LET r == runner'[<<t, j>>] IN
             /\ r.todo \subseteq DOMAIN settlement'[j].lines
             /\ r.pc # "idle" => settlement'[j].status # "NONE"
             /\ r.pc \in {"paying", "record"} => r.todo # {}
             /\ r.pc \notin {"next", "paying", "record"} => r.todo = {}
             /\ t \notin scene'.servers => r.pc = "idle"
  <2>1. CASE <<t, j>> = <<s, k>>
    BY <2>1 DEF Moves
  <2>2. CASE <<t, j>> # <<s, k>>
    <3>1. runner'[<<t, j>>] = runner[<<t, j>>]
      BY <2>2, RunnersAre DEF Moves
    <3> QED BY <3>1 DEF RunnersOK
  <2> QED BY <2>1, <2>2
<1> QED BY <1>1 DEF RunnersOK, Moves

(* A line is given its status.                                              *)
Marks(k, n, status) ==
  /\ settlement' \in [Settlements -> SettlementRow]
  /\ \A j \in Settlements : j # k => settlement'[j] = settlement[j]
  /\ settlement'[k].status = settlement[k].status /\ settlement'[k].success = settlement[k].success
  /\ DOMAIN settlement'[k].lines = DOMAIN settlement[k].lines
  /\ Len(settlement'[k].lines) = Len(settlement[k].lines)
  /\ settlement'[k].lines[n].status = status
  /\ \A i \in DOMAIN settlement[k].lines :
       /\ i # n => settlement'[k].lines[i] = settlement[k].lines[i]
       /\ settlement'[k].lines[i].from = settlement[k].lines[i].from
       /\ settlement'[k].lines[i].to = settlement[k].lines[i].to
       /\ settlement'[k].lines[i].amount = settlement[k].lines[i].amount

LEMMA MarkIs ==
  ASSUME LinesOK, NEW k \in Settlements, NEW n \in DOMAIN settlement[k].lines,
         NEW status \in LineStatus,
         settlement' = [settlement EXCEPT ![k].lines[n].status = status]
  PROVE  Marks(k, n, status)
<1> DEFINE lines == settlement[k].lines
           l == [lines[n] EXCEPT !.status = status]
           new == [lines EXCEPT ![n] = l]
           row == [settlement[k] EXCEPT !.lines = new]
<1>1. /\ settlement \in [Settlements -> SettlementRow]
      /\ settlement[k] \in SettlementRow /\ lines \in Seq(LineRow)
  BY DEF LinesOK, SettlementRow
<1>2. settlement' = [settlement EXCEPT ![k] = row]
  BY <1>1 DEF SettlementRow
<1>3. lines[n] \in LineRow
  BY <1>1
<1>4. /\ l \in LineRow /\ l.status = status
      /\ l.from = lines[n].from /\ l.to = lines[n].to /\ l.amount = lines[n].amount
  BY <1>3 DEF LineRow
<1> HIDE DEF l
<1>5. /\ new \in Seq(LineRow) /\ DOMAIN new = DOMAIN lines /\ Len(new) = Len(lines)
      /\ new[n] = l /\ \A i \in DOMAIN lines : i # n => new[i] = lines[i]
  BY <1>1, <1>4
<1> HIDE DEF new
<1>6. /\ row \in SettlementRow /\ row.lines = new
      /\ row.status = settlement[k].status /\ row.success = settlement[k].success
  BY <1>1, <1>5 DEF SettlementRow
<1> HIDE DEF row
<1> QED BY <1>1, <1>2, <1>4, <1>5, <1>6 DEF Marks

(* The debts that are inserted.                                             *)
LEMMA InsertIs ==
  ASSUME DebtsOK, NEW edges, IsFiniteSet(edges), NEW kind \in Kind,
         \A e \in edges :
           /\ e.debtor \in members /\ e.creditor \in members /\ e.debtor # e.creditor
           /\ e.amount \in Nat /\ e.amount > 0
  PROVE  LET more == [i \in DOMAIN SetToSeq(edges) |-> NewDebt(SetToSeq(edges)[i], kind)] IN
         /\ more \in Seq(DebtRow)
         /\ \A i \in DOMAIN more :
              /\ more[i].status = "PENDING" /\ more[i].kind = kind
              /\ more[i].debtor \in members /\ more[i].creditor \in members
              /\ more[i].debtor # more[i].creditor
<1> DEFINE n == Cardinality(edges)
           f == SetToSeq(edges)
           more == [i \in DOMAIN f |-> NewDebt(f[i], kind)]
<1>1. n \in Nat /\ f \in [1..n -> edges]
  BY SetToSeqIs
<1> HIDE DEF n, f
<1>2. DOMAIN more = 1..n /\ \A i \in 1..n : f[i] \in edges /\ more[i] = NewDebt(f[i], kind)
  BY <1>1
<1>3. ASSUME NEW e \in edges
      PROVE  LET d == NewDebt(e, kind) IN
             /\ d \in DebtRow /\ d.status = "PENDING" /\ d.kind = kind
             /\ d.debtor = e.debtor /\ d.creditor = e.creditor
  <2>1. e.debtor \in People /\ e.creditor \in People /\ e.amount \in Nat \ {0}
    BY DEF DebtsOK
  <2> QED BY <2>1 DEF NewDebt, DebtRow
<1>4. \A i \in DOMAIN more :
        /\ more[i] \in DebtRow /\ more[i].status = "PENDING" /\ more[i].kind = kind
        /\ more[i].debtor \in members /\ more[i].creditor \in members
        /\ more[i].debtor # more[i].creditor
  BY <1>2, <1>3
<1>5. more \in [1..n -> DebtRow]
  BY <1>1, <1>2, <1>4
<1> HIDE DEF more
<1>6. more \in Seq(DebtRow)
  BY <1>1, <1>5
<1> QED BY <1>4, <1>6 DEF more, f

LEMMA RecordedTables ==
  ASSUME TablesInv, NEW edges, IsFiniteSet(edges), NEW kind \in Kind, Recorded(edges, kind),
         \A e \in edges :
           /\ e.debtor \in members /\ e.creditor \in members /\ e.debtor # e.creditor
           /\ e.amount \in Nat /\ e.amount > 0
  PROVE  TablesInv'
<1> DEFINE more == [i \in DOMAIN SetToSeq(edges) |-> NewDebt(SetToSeq(edges)[i], kind)]
<1>1. /\ scene.more > 0 /\ debts' = debts \o more /\ scene' = [scene EXCEPT !.more = @ - 1]
      /\ members' = members /\ settlement' = settlement /\ runner' = runner
      /\ paid' = paid /\ pay' = pay
  BY DEF Recorded, Insert, payVars
<1>2. /\ more \in Seq(DebtRow)
      /\ \A i \in DOMAIN more :
           /\ more[i].status = "PENDING"
           /\ more[i].debtor \in members /\ more[i].creditor \in members
           /\ more[i].debtor # more[i].creditor
  BY InsertIs DEF TablesInv
<1> HIDE DEF more
<1>3. SceneOK' /\ People' = People /\ scene'.servers = scene.servers
  BY <1>1, SceneStays DEF TablesInv
<1>4. DebtsOK' /\ ProcessingDebtsHaveOwner'
  BY <1>1, <1>2, <1>3, DebtsGrow DEF TablesInv
<1>5. LinesOK' /\ RunnersOK'
  BY <1>1, <1>3, RunsStay DEF TablesInv
<1> QED BY <1>1, <1>3, <1>4, <1>5 DEF TablesInv, PayTypeOK

LEMMA AddMemberTables ==
  ASSUME TablesInv, NEW u \in scene.joiners, AddMember(u)
  PROVE  TablesInv'
<1>1. /\ members' = members \cup {u} /\ scene' = scene /\ debts' = debts
      /\ settlement' = settlement /\ runner' = runner /\ paid' = paid /\ pay' = pay
  BY DEF AddMember, payVars
<1>2. SceneOK' /\ People' = People /\ scene'.servers = scene.servers
  BY <1>1, SceneStays DEF TablesInv
<1>3. DebtsOK'
  BY <1>1, <1>2 DEF TablesInv, DebtsOK, DebtRow, People
<1>4. LinesOK' /\ RunnersOK'
  BY <1>1, <1>2, RunsStay DEF TablesInv
<1> QED BY <1>1, <1>2, <1>3, <1>4 DEF TablesInv, PayTypeOK, ProcessingDebtsHaveOwner, DebtsOf

(* An edge typed by a member.                                               *)
TypedEdge(e) == [debtor |-> e.debtor, creditor |-> e.creditor, amount |-> BdtToPaisa(e.typed)]

LEMMA DebtForms ==
  ASSUME SceneOK, NEW e \in scene.debts, AddDebt(e)
  PROVE  /\ Recorded({TypedEdge(e)}, "DEBT") /\ IsFiniteSet({TypedEdge(e)})
         /\ \A d \in {TypedEdge(e)} :
              /\ d.debtor \in members /\ d.creditor \in members /\ d.debtor # d.creditor
              /\ d.amount \in Nat /\ d.amount > 0
<1>1. e \in DebtForm
  BY DEF SceneOK, SceneRow
<1>2. BdtToPaisa(e.typed) \in Nat
  BY <1>1, PaisaAre DEF DebtForm
<1>3. BdtToPaisa(e.typed) >= 1
  BY DEF AddDebt, Accepted, MinPaisa
<1>4. e.debtor \in members /\ e.creditor \in members /\ e.debtor # e.creditor
  BY DEF AddDebt
<1>5. Recorded({TypedEdge(e)}, "DEBT")
  BY DEF AddDebt, TypedEdge
<1>6. IsFiniteSet({TypedEdge(e)})
  BY FS_Singleton
<1> QED BY <1>2, <1>3, <1>4, <1>5, <1>6 DEF TypedEdge

LEMMA ExpenseForms ==
  ASSUME SceneOK, NEW x \in scene.expenses, AddExpense(x)
  PROVE  LET edges == ExpenseShares(x.total, x.payer, x.participants) IN
         /\ Recorded(edges, "EXPENSE_SHARE") /\ IsFiniteSet(edges)
         /\ \A d \in edges :
              /\ d.debtor \in members /\ d.creditor \in members /\ d.debtor # d.creditor
              /\ d.amount \in Nat /\ d.amount > 0
<1> DEFINE P == x.participants
           Q == {q \in P \ {x.payer} : Share(x.total, P, q) > 0}
           edges == ExpenseShares(x.total, x.payer, P)
<1>1. x \in ExpenseForm /\ IsFiniteSet(P)
  BY DEF SceneOK, SceneRow
<1>2. Recorded(edges, "EXPENSE_SHARE") /\ x.payer \in members /\ P \subseteq members
  BY DEF AddExpense
<1>3. IsFiniteSet(Q)
  <2>1. Q \in SUBSET P
    OBVIOUS
  <2> QED BY <1>1, <2>1, FS_Subset
<1>4. edges = {[debtor |-> q, creditor |-> x.payer, amount |-> Share(x.total, P, q)] : q \in Q}
  BY DEF ExpenseShares
<1>5. IsFiniteSet(edges)
  <2> DEFINE edge == [q \in Q |->
                        [debtor |-> q, creditor |-> x.payer, amount |-> Share(x.total, P, q)]]
  <2>1. edge \in Surjection(Q, edges)
    BY <1>4 DEF Surjection
  <2> HIDE DEF edge, Q, edges
  <2> QED BY <1>3, <2>1, FS_Surjection
<1>6. ASSUME NEW q \in Q PROVE Share(x.total, P, q) \in Nat /\ Share(x.total, P, q) > 0
  <2>1. Cardinality(P) \in Nat /\ Cardinality(P) # 0
    <3>1. P # {}
      OBVIOUS
    <3> QED BY <1>1, <3>1, FS_CardinalityType, FS_EmptySet
  <2>2. PICK n \in Nat : n = Cardinality(P) /\ n > 0
    BY <2>1
  <2>3. PICK t \in Nat : t = x.total
    BY <1>1 DEF ExpenseForm
  <2>4. t \div n \in Int
    BY <2>2, <2>3
  <2>5. Share(x.total, P, q) \in Int
    BY <2>2, <2>3, <2>4 DEF Share
  <2> QED BY <2>5
<1>7. \A d \in edges :
        /\ d.debtor \in members /\ d.creditor \in members /\ d.debtor # d.creditor
        /\ d.amount \in Nat /\ d.amount > 0
  BY <1>2, <1>4, <1>6
<1> QED BY <1>2, <1>5, <1>7

LEMMA AddDebtTables ==
  ASSUME TablesInv, NEW e \in scene.debts, AddDebt(e)
  PROVE  TablesInv'
<1>1. SceneOK /\ "DEBT" \in Kind
  BY DEF TablesInv, Kind
<1>2. PICK edges : edges = {TypedEdge(e)}
  OBVIOUS
<1>3. /\ Recorded(edges, "DEBT") /\ IsFiniteSet(edges)
      /\ \A d \in edges :
           /\ d.debtor \in members /\ d.creditor \in members /\ d.debtor # d.creditor
           /\ d.amount \in Nat /\ d.amount > 0
  BY <1>1, <1>2, DebtForms
<1> QED BY <1>1, <1>3, RecordedTables

LEMMA AddExpenseTables ==
  ASSUME TablesInv, NEW x \in scene.expenses, AddExpense(x)
  PROVE  TablesInv'
<1>1. SceneOK /\ "EXPENSE_SHARE" \in Kind
  BY DEF TablesInv, Kind
<1> QED BY <1>1, ExpenseForms, RecordedTables

LEMMA PreviewTables ==
  ASSUME TablesInv, Preview
  PROVE  TablesInv'
<1>1. /\ members' = members /\ scene' = scene /\ debts' = debts
      /\ settlement' = settlement /\ runner' = runner /\ paid' = paid /\ pay' = pay
  BY DEF Preview, payVars
<1>2. SceneOK' /\ People' = People /\ scene'.servers = scene.servers
  BY <1>1, SceneStays DEF TablesInv
<1>3. DebtsOK'
  BY <1>1, <1>2 DEF TablesInv, DebtsOK, DebtRow
<1>4. LinesOK' /\ RunnersOK'
  BY <1>1, <1>2, RunsStay DEF TablesInv
<1> QED BY <1>1, <1>2, <1>3, <1>4 DEF TablesInv, PayTypeOK, ProcessingDebtsHaveOwner, DebtsOf

-------------------------------------------------------------------------------
(* A settlement is confirmed *)

(* The debts in any order, and the plan of them.                            *)
LEMMA PlanOK ==
  ASSUME SceneOK, DebtsOK, NEW order \in SetToSeqs(Pending)
  PROVE  LET edges == InOrder(order)
             plan == Plan(order) IN
         /\ Proper(edges, members) /\ PlanClears(edges)
         /\ members \subseteq Int /\ IsFiniteSet(members)
         /\ plan \in Seq(Line(members))
         /\ plan # <<>> => Pending # {}
         /\ \A i \in DOMAIN plan : plan[i].from # plan[i].to /\ i \in 1..(Cardinality(People) - 1)
         /\ \A m : NetOf(edges, m) + PaidBy(plan, m) = 0
<1> DEFINE edges == InOrder(order)
           plan == Plan(order)
           n == Cardinality(Pending)
<1>1. /\ DOMAIN debts = 1..Len(debts) /\ Len(debts) \in Nat
      /\ \A i \in DOMAIN debts : debts[i] \in DebtRow
  BY DEF DebtsOK
<1>2. IsFiniteSet(Pending)
  <2>1. Pending \in SUBSET (1..Len(debts)) /\ IsFiniteSet(1..Len(debts))
    BY <1>1, FS_Interval DEF Pending
  <2> QED BY <2>1, FS_Subset
<1>3. n \in Nat /\ order \in [1..n -> Pending]
  BY <1>2, OrderIs
<1>4. DOMAIN edges = 1..n /\ \A i \in 1..n : edges[i] = debts[order[i]] /\ order[i] \in Pending
  BY <1>3 DEF InOrder
<1>5. \A i \in DOMAIN debts :
        /\ debts[i].debtor \in members /\ debts[i].creditor \in members
        /\ debts[i].debtor # debts[i].creditor
        /\ debts[i].amount \in Nat /\ debts[i].amount > 0
  <2>1. \A d \in DebtRow : d.amount \in Nat /\ d.amount > 0
    BY DEF DebtRow
  <2> QED BY <1>1, <2>1 DEF DebtsOK
<1> HIDE DEF n, edges
<1>6. Proper(edges, members)
  BY <1>3, <1>4, <1>5 DEF Proper, Pending
<1>7. members \subseteq Int /\ IsFiniteSet(members) /\ members \in SUBSET People
  <2>1. members \in SUBSET People /\ IsFiniteSet(People) /\ People \subseteq Int
    BY DEF DebtsOK, SceneOK
  <2> QED BY <2>1, FS_Subset
<1>8. PlanClears(edges)
  BY <1>6, <1>7, PlansClear
<1>9. plan = OptimizeSettlement(edges)
  BY DEF Plan, edges
<1> HIDE DEF plan
<1>10. /\ plan \in Seq(Line(members))
       /\ plan # <<>> => DOMAIN edges # {} /\ Len(plan) <= Cardinality(members) - 1
       /\ \A i \in DOMAIN plan : plan[i].from # plan[i].to
       /\ \A m : NetOf(edges, m) + PaidBy(plan, m) = 0
  BY <1>6, <1>7, <1>9, PlanFacts
<1>11. plan # <<>> => Pending # {}
  <2>1. ASSUME DOMAIN edges # {} PROVE Pending # {}
    BY <1>4, <2>1
  <2> QED BY <1>10, <2>1
<1>12. \A i \in DOMAIN plan : i \in 1..(Cardinality(People) - 1)
  <2>1. /\ Cardinality(members) <= Cardinality(People)
        /\ Cardinality(members) \in Nat /\ Cardinality(People) \in Nat
    <3>1. IsFiniteSet(People)
      BY DEF SceneOK
    <3> QED BY <1>7, <3>1, FS_Subset, FS_CardinalityType
  <2>2. DOMAIN plan = 1..Len(plan) /\ Len(plan) \in Nat
    BY <1>10
  <2> SUFFICES ASSUME NEW i \in DOMAIN plan PROVE i \in 1..(Cardinality(People) - 1)
    OBVIOUS
  <2>3. plan # <<>>
    BY <2>2
  <2> QED BY <1>10, <2>1, <2>2, <2>3
<1> QED BY <1>6, <1>7, <1>8, <1>10, <1>11, <1>12 DEF plan, edges

(* The lines of a plan.                                                     *)
LEMMA LinesAre ==
  ASSUME members \subseteq People, NEW plan \in Seq(Line(members))
  PROVE  LET lines == LinesOf(plan) IN
         /\ lines \in Seq(LineRow)
         /\ DOMAIN lines = DOMAIN plan /\ DOMAIN plan = 1..Len(plan)
         /\ Len(lines) = Len(plan) /\ Len(plan) \in Nat
         /\ \A n \in DOMAIN plan :
              /\ plan[n] \in Line(members)
              /\ lines[n].from = plan[n].from /\ lines[n].to = plan[n].to
              /\ lines[n].amount = plan[n].amount /\ lines[n].status = "PENDING"
<1> DEFINE lines == LinesOf(plan)
<1>1. /\ Len(plan) \in Nat /\ DOMAIN plan = 1..Len(plan)
      /\ \A n \in DOMAIN plan : plan[n] \in Line(members)
  OBVIOUS
<1>2. PICK m \in Nat : m = Len(plan)
  BY <1>1
<1>3. /\ DOMAIN lines = 1..m
      /\ \A n \in 1..m :
           lines[n] = [from |-> plan[n].from, to |-> plan[n].to, amount |-> plan[n].amount,
                       status |-> "PENDING"]
  BY <1>1, <1>2 DEF LinesOf
<1>4. \A n \in 1..m : lines[n] \in LineRow
  BY <1>1, <1>2, <1>3 DEF LineRow, Line, LineStatus
<1>5. lines = [n \in 1..m |-> lines[n]]
  BY <1>1, <1>2 DEF LinesOf
<1> HIDE DEF lines
<1>6. lines \in [1..m -> LineRow]
  BY <1>4, <1>5
<1>7. lines \in Seq(LineRow) /\ Len(lines) = m
  BY <1>2, <1>6
<1> QED BY <1>1, <1>2, <1>3, <1>7 DEF lines

(* What settle does.                                                        *)
LEMMA SettleIs ==
  ASSUME TablesInv, NEW s \in Servers, NEW k \in Settlements, Settle(s, k)
  PROVE  /\ settlement[k].status = "NONE" /\ s \in scene.servers
         /\ \E order \in SetToSeqs(Pending), row \in SettlementRow :
              /\ row.checked => PlanHash(Pending, ToSet(Plan(order))) = Confirmed
              /\ Plan(order) # <<>>
              /\ row.status = "PROCESSING" /\ row.success = 0 /\ row.lines = LinesOf(Plan(order))
              /\ settlement' = [settlement EXCEPT ![k] = row]
         /\ debts' = WithStatus(Pending, "PROCESSING", k)
         /\ \E row \in RunnerRow :
              /\ row.pc = "status" /\ row.todo = {}
              /\ runner' = [runner EXCEPT ![<<s, k>>] = row]
         /\ members' = members /\ scene' = scene /\ crashes' = crashes /\ doubt' = doubt
         /\ paid' = paid /\ pay' = pay
<1>1. PICK order \in SetToSeqs(Pending), sent \in BOOLEAN :
        /\ sent => PlanHash(Pending, ToSet(Plan(order))) = Confirmed
        /\ Plan(order) # <<>>
        /\ settlement' = [settlement EXCEPT ![k] =
                            [NoSettlement EXCEPT !.status = "PROCESSING", !.checked = sent,
                                                 !.lines = LinesOf(Plan(order))]]
  BY DEF Settle
<1> DEFINE row == [NoSettlement EXCEPT !.status = "PROCESSING", !.checked = sent,
                                       !.lines = LinesOf(Plan(order))]
<1>2. LinesOf(Plan(order)) \in Seq(LineRow)
  <2>1. Plan(order) \in Seq(Line(members)) /\ members \subseteq People
    BY PlanOK DEF TablesInv, DebtsOK
  <2> QED BY <2>1, LinesAre
<1>3. /\ row \in SettlementRow /\ row.status = "PROCESSING" /\ row.success = 0
      /\ row.lines = LinesOf(Plan(order)) /\ row.checked = sent
  BY <1>2 DEF NoSettlement, SettlementRow
<1> HIDE DEF row
<1>4. settlement' = [settlement EXCEPT ![k] = row]
  BY <1>1 DEF row
<1> DEFINE started == [Idle EXCEPT !.pc = "status"]
<1>5. started \in RunnerRow /\ started.pc = "status" /\ started.todo = {}
  BY DEF Idle, RunnerRow
<1>6. runner' = [runner EXCEPT ![<<s, k>>] = started]
  BY DEF Settle
<1>7. /\ settlement[k].status = "NONE" /\ s \in scene.servers
      /\ debts' = WithStatus(Pending, "PROCESSING", k)
      /\ members' = members /\ scene' = scene /\ crashes' = crashes /\ doubt' = doubt
      /\ paid' = paid /\ pay' = pay
  BY DEF Settle, Taken, payVars
<1> HIDE DEF started
<1> QED BY <1>1, <1>3, <1>4, <1>5, <1>6, <1>7

LEMMA SettleTables ==
  ASSUME TablesInv, NEW s \in Servers, NEW k \in Settlements, Settle(s, k)
  PROVE  TablesInv'
<1>0. /\ PayTypeOK /\ SceneOK /\ DebtsOK /\ LinesOK /\ RunnersOK /\ ProcessingDebtsHaveOwner
      /\ members \subseteq People
  BY DEF TablesInv, DebtsOK
<1>1. /\ settlement[k].status = "NONE" /\ s \in scene.servers
      /\ debts' = WithStatus(Pending, "PROCESSING", k)
      /\ members' = members /\ scene' = scene /\ paid' = paid /\ pay' = pay
  BY SettleIs
<1>2. PICK order \in SetToSeqs(Pending), row \in SettlementRow :
        /\ row.checked => PlanHash(Pending, ToSet(Plan(order))) = Confirmed
        /\ Plan(order) # <<>>
        /\ row.status = "PROCESSING" /\ row.success = 0 /\ row.lines = LinesOf(Plan(order))
        /\ settlement' = [settlement EXCEPT ![k] = row]
  BY SettleIs
<1>3. PICK started \in RunnerRow :
        /\ started.pc = "status" /\ started.todo = {}
        /\ runner' = [runner EXCEPT ![<<s, k>>] = started]
  BY SettleIs
<1>4. SceneOK' /\ People' = People /\ scene'.servers = scene.servers
  BY <1>0, <1>1, SceneStays
<1>5. /\ settlement' \in [Settlements -> SettlementRow] /\ settlement'[k] = row
      /\ \A j \in Settlements : j # k => settlement'[j] = settlement[j]
  BY <1>0, <1>2 DEF LinesOK
<1>6. /\ Pending # {} /\ Pending \subseteq DOMAIN debts
      /\ \A i \in DOMAIN debts : i \in Pending <=> debts[i].status = "PENDING"
  BY <1>0, <1>2, PlanOK DEF Pending
<1>7. /\ debts' \in Seq(DebtRow) /\ DOMAIN debts' = DOMAIN debts
      /\ \A i \in Pending : debts'[i].status = "PROCESSING" /\ debts'[i].settlement = k
      /\ \A i \in DOMAIN debts \ Pending : debts'[i] = debts[i]
      /\ \A i \in DOMAIN debts : /\ debts'[i].debtor = debts[i].debtor
                                 /\ debts'[i].creditor = debts[i].creditor
  <2>1. /\ debts \in Seq(DebtRow) /\ k \in Settlements \cup {"none"}
        /\ "PROCESSING" \in {"PENDING", "PROCESSING", "COMPLETED"}
    BY <1>0 DEF DebtsOK
  <2>2. Stamped(debts', Pending, "PROCESSING", k)
    BY <1>1, <1>6, <2>1, StampIs
  <2> QED BY <2>2 DEF Stamped
<1>8. DebtsOK'
  <2>1. DebtRow' = DebtRow
    BY <1>4 DEF DebtRow
  <2> QED BY <1>0, <1>1, <1>4, <1>7, <2>1 DEF DebtsOK
<1>9. ProcessingDebtsHaveOwner'
  <2>1. ASSUME NEW i \in DOMAIN debts', debts'[i].status = "PROCESSING"
        PROVE  settlement'[debts'[i].settlement].status = "PROCESSING"
    <3>1. CASE i \in Pending
      BY <1>2, <1>5, <1>7, <3>1
    <3>2. CASE i \notin Pending
      <4>1. /\ debts'[i] = debts[i] /\ settlement[debts[i].settlement].status = "PROCESSING"
            /\ debts[i].settlement \in Settlements
        BY <1>0, <1>7, <2>1, <3>2 DEF ProcessingDebtsHaveOwner, DebtsOK
      <4> QED BY <1>1, <1>5, <4>1
    <3> QED BY <3>1, <3>2
  <2>2. ASSUME NEW j \in Settlements, settlement'[j].status = "PROCESSING"
        PROVE  DebtsOf(j)' # {}
    <3>1. CASE j = k
      BY <1>6, <1>7, <3>1 DEF DebtsOf
    <3>2. CASE j # k
      <4>1. PICK i \in DOMAIN debts : debts[i].status = "PROCESSING" /\ debts[i].settlement = j
        BY <1>0, <1>5, <2>2, <3>2 DEF ProcessingDebtsHaveOwner, DebtsOf
      <4>2. i \notin Pending
        BY <1>6, <4>1
      <4> QED BY <1>7, <4>1, <4>2 DEF DebtsOf
    <3> QED BY <3>1, <3>2
  <2> QED BY <2>1, <2>2 DEF ProcessingDebtsHaveOwner
<1>10. LinesOK'
  <2>1. LineRow' = LineRow /\ SettlementRow' = SettlementRow
    BY <1>4 DEF LineRow, SettlementRow
  <2>2. PICK plan \in Seq(Line(members)) :
          /\ plan = Plan(order)
          /\ \A i \in DOMAIN plan : plan[i].from # plan[i].to /\ i \in 1..(Cardinality(People) - 1)
    BY <1>0, PlanOK
  <2>3. /\ row.lines = LinesOf(plan) /\ DOMAIN row.lines = DOMAIN plan
        /\ Len(row.lines) \in Nat
        /\ \A n \in DOMAIN plan :
             /\ plan[n] \in Line(members)
             /\ row.lines[n].from = plan[n].from /\ row.lines[n].to = plan[n].to
    BY <1>0, <1>2, <2>2, LinesAre
  <2>4. \A n \in DOMAIN row.lines :
          /\ <<k, n>> \in PayKeys
          /\ row.lines[n].from \in members /\ row.lines[n].to \in members
          /\ row.lines[n].from # row.lines[n].to
    BY <1>0, <2>2, <2>3 DEF SceneOK, Line
  <2>5. row.success <= Len(row.lines)
    BY <1>2, <2>3
  <2> QED BY <1>0, <1>1, <1>5, <2>1, <2>4, <2>5 DEF LinesOK
<1>11. RunnersOK'
  <2>1. runner' \in [Payers -> RunnerRow] /\ runner'[<<s, k>>] = started
    BY <1>0, <1>3, RunnersAre DEF RunnersOK
  <2>2. ASSUME NEW t \in Servers, NEW j \in Settlements, <<t, j>> # <<s, k>>
        PROVE  runner'[<<t, j>>] = runner[<<t, j>>]
    BY <1>0, <1>3, <2>2, RunnersAre DEF RunnersOK
  <2>3. ASSUME NEW t \in Servers, NEW j \in Settlements
        PROVE  LET r == runner'[<<t, j>>] IN
               /\ r.todo \subseteq DOMAIN settlement'[j].lines
               /\ r.pc # "idle" => settlement'[j].status # "NONE"
               /\ r.pc \in {"paying", "record"} => r.todo # {}
               /\ r.pc \notin {"next", "paying", "record"} => r.todo = {}
               /\ t \notin scene'.servers => r.pc = "idle"
    <3>1. CASE <<t, j>> = <<s, k>>
      BY <1>1, <1>2, <1>3, <1>5, <2>1, <3>1
    <3>2. CASE <<t, j>> # <<s, k>>
      <4>1. /\ runner'[<<t, j>>] = runner[<<t, j>>]
            /\ runner[<<t, j>>].todo \subseteq DOMAIN settlement[j].lines
            /\ runner[<<t, j>>].pc # "idle" => settlement[j].status # "NONE"
            /\ runner[<<t, j>>].pc \in {"paying", "record"} => runner[<<t, j>>].todo # {}
            /\ runner[<<t, j>>].pc \notin {"next", "paying", "record"} => runner[<<t, j>>].todo = {}
            /\ t \notin scene.servers => runner[<<t, j>>].pc = "idle"
        BY <1>0, <2>2, <3>2 DEF RunnersOK
      <4>2. CASE j = k
        BY <1>1, <1>2, <1>4, <1>5, <4>1, <4>2
      <4>3. CASE j # k
        BY <1>4, <1>5, <4>1, <4>3
      <4> QED BY <4>2, <4>3
    <3> QED BY <3>1, <3>2
  <2> QED BY <2>1, <2>3 DEF RunnersOK
<1> QED BY <1>0, <1>1, <1>4, <1>8, <1>9, <1>10, <1>11 DEF TablesInv, PayTypeOK

-------------------------------------------------------------------------------
(* The steps of a runner *)

RestStays == members' = members /\ debts' = debts /\ scene' = scene
LinesStay == settlement' = settlement
MoneyStays == paid' = paid /\ pay' = pay

LEMMA ResumeIs ==
  ASSUME RunnersOK, NEW s \in Servers, NEW k \in Settlements, Resume(s, k)
  PROVE  /\ settlement[k].status # "NONE" /\ runner[<<s, k>>].pc = "idle" /\ s \in scene.servers
         /\ Moves(s, k, "status", {})
         /\ RestStays /\ LinesStay /\ MoneyStays /\ doubt' = doubt
<1> DEFINE row == [Idle EXCEPT !.pc = "status"]
<1>1. row \in RunnerRow /\ row.pc = "status" /\ row.todo = {}
  BY DEF Idle, RunnerRow
<1>2. runner' = [runner EXCEPT ![<<s, k>>] = row]
  BY DEF Resume
<1> HIDE DEF row
<1>3. Moves(s, k, row.pc, row.todo)
  BY <1>1, <1>2, RunnerSetIs
<1> QED BY <1>1, <1>3 DEF Resume, RestOfTable, RestStays, LinesStay, MoneyStays, payVars

LEMMA ReadStatusIs ==
  ASSUME RunnersOK, NEW s \in Servers, NEW k \in Settlements, ReadStatus(s, k)
  PROVE  /\ runner[<<s, k>>].pc = "status"
         /\ Moves(s, k, IF ToRun(k) THEN "lines" ELSE "idle", runner[<<s, k>>].todo)
         /\ RestStays /\ LinesStay /\ MoneyStays /\ doubt' = doubt
<1>1. (IF ToRun(k) THEN "lines" ELSE "idle") \in Step
  BY DEF Step
<1>2. Moves(s, k, IF ToRun(k) THEN "lines" ELSE "idle", runner[<<s, k>>].todo)
  BY <1>1, RunnerAtIs DEF ReadStatus
<1> QED BY <1>2 DEF ReadStatus, RestOfTable, RestStays, LinesStay, MoneyStays, payVars

LEMMA ReadLinesIs ==
  ASSUME RunnersOK, LinesOK, NEW s \in Servers, NEW k \in Settlements, ReadLines(s, k)
  PROVE  /\ runner[<<s, k>>].pc = "lines" /\ Moves(s, k, "next", Undone(k))
         /\ RestStays /\ LinesStay /\ MoneyStays /\ doubt' = doubt
<1> DEFINE r == <<s, k>>
           row == [runner[r] EXCEPT !.pc = "next", !.todo = Undone(k)]
<1>1. r \in Payers /\ runner \in [Payers -> RunnerRow] /\ runner[r] \in RunnerRow
  BY RunnersAre DEF RunnersOK
<1>2. Undone(k) \in SUBSET Nat
  <2>1. settlement[k].lines \in Seq(LineRow)
    BY DEF LinesOK, SettlementRow
  <2>2. DOMAIN settlement[k].lines \subseteq Nat
    BY <2>1
  <2> QED BY <2>2 DEF Undone
<1>3. row \in RunnerRow /\ row.pc = "next" /\ row.todo = Undone(k)
  BY <1>1, <1>2 DEF RunnerRow
<1>4. runner' = [runner EXCEPT ![r] = row]
  BY <1>1 DEF ReadLines
<1> HIDE DEF row
<1>5. Moves(s, k, row.pc, row.todo)
  BY <1>3, <1>4, RunnerSetIs
<1> QED BY <1>3, <1>5 DEF ReadLines, RestOfTable, RestStays, LinesStay, MoneyStays, payVars

LEMMA NextLineIs ==
  ASSUME RunnersOK, NEW s \in Servers, NEW k \in Settlements, NextLine(s, k)
  PROVE  LET r == <<s, k>>
             key == <<k, FirstOf(r)>> IN
         /\ runner[r].pc = "next" /\ RestStays /\ LinesStay /\ doubt' = doubt
         /\ \/ runner[r].todo = {} /\ Moves(s, k, "finalize", {}) /\ MoneyStays
            \/ /\ runner[r].todo # {} /\ paid[key] = "moved"
               /\ Moves(s, k, "record", runner[r].todo) /\ MoneyStays
            \/ /\ runner[r].todo # {} /\ BeginPay(r, key)
               /\ Moves(s, k, "paying", runner[r].todo)
<1> DEFINE r == <<s, k>>
           key == <<k, FirstOf(r)>>
<1>1. runner[r].pc = "next" /\ RestStays /\ LinesStay /\ doubt' = doubt
  BY DEF NextLine, RestOfTable, RestStays, LinesStay
<1>2. {"finalize", "record", "paying"} \subseteq Step
  BY DEF Step
<1>3. CASE runner[r].todo = {} /\ RunnerAt(r, "finalize") /\ UNCHANGED payVars
  BY <1>1, <1>2, <1>3, RunnerAtIs DEF MoneyStays, payVars
<1>4. CASE runner[r].todo # {} /\ AlreadyPaid(key) /\ RunnerAt(r, "record") /\ UNCHANGED payVars
  BY <1>1, <1>2, <1>4, RunnerAtIs DEF MoneyStays, payVars, AlreadyPaid
<1>5. CASE runner[r].todo # {} /\ ~AlreadyPaid(key) /\ BeginPay(r, key) /\ RunnerAt(r, "paying")
  BY <1>1, <1>2, <1>5, RunnerAtIs
<1>6. \/ runner[r].todo = {} /\ RunnerAt(r, "finalize") /\ UNCHANGED payVars
      \/ runner[r].todo # {} /\ AlreadyPaid(key) /\ RunnerAt(r, "record") /\ UNCHANGED payVars
      \/ runner[r].todo # {} /\ ~AlreadyPaid(key) /\ BeginPay(r, key) /\ RunnerAt(r, "paying")
  BY DEF NextLine
<1> QED BY <1>3, <1>4, <1>5, <1>6

(* The line that is recorded.                                               *)
LEMMA RecordAsIs ==
  ASSUME RunnersOK, LinesOK, NEW s \in Servers, NEW k \in Settlements, NEW n,
         NEW status \in LineStatus,
         n \in DOMAIN settlement[k].lines, RecordAs(<<s, k>>, n, status)
  PROVE  Marks(k, n, status) /\ Moves(s, k, "next", runner[<<s, k>>].todo \ {n})
<1> DEFINE r == <<s, k>>
           todo == runner[r].todo \ {n}
           row == [runner[r] EXCEPT !.pc = "next", !.todo = todo]
<1>1. r \in Payers /\ r[2] = k /\ runner \in [Payers -> RunnerRow] /\ runner[r] \in RunnerRow
  BY RunnersAre DEF RunnersOK
<1>2. settlement' = [settlement EXCEPT ![k].lines[n].status = status]
  BY <1>1 DEF RecordAs
<1>3. row \in RunnerRow /\ row.pc = "next" /\ row.todo = todo
  BY <1>1 DEF RunnerRow
<1>4. runner' = [runner EXCEPT ![r] = row]
  BY <1>1 DEF RecordAs
<1> HIDE DEF row
<1>5. Moves(s, k, row.pc, row.todo)
  BY <1>3, <1>4, RunnerSetIs
<1> QED BY <1>2, <1>3, <1>5, MarkIs

LEMMA RecordResultIs ==
  ASSUME RunnersOK, LinesOK, NEW s \in Servers, NEW k \in Settlements, RecordResult(s, k)
  PROVE  LET r == <<s, k>>
             n == FirstOf(r) IN
         /\ runner[r].pc = "paying" /\ pay[r].pc = "answered"
         /\ n \in runner[r].todo /\ n \in DOMAIN settlement[k].lines
         /\ Marks(k, n, VerdictOn(pay[r].answer)) /\ Moves(s, k, "next", runner[r].todo \ {n})
         /\ doubt' = IF pay[r].answer \in {"UNCERTAIN", "IN_FLIGHT"}
                     THEN doubt \cup {pay[r].key} ELSE doubt
         /\ pay' = [pay EXCEPT ![r] = FreshPay] /\ paid' = paid /\ RestStays
<1> DEFINE r == <<s, k>>
           n == FirstOf(r)
<1>1. runner[r].pc = "paying" /\ runner[r].todo # {}
  BY DEF RecordResult, RunnersOK
<1>2. n \in runner[r].todo /\ n \in DOMAIN settlement[k].lines
  BY <1>1, FirstIs
<1>3. VerdictOn(pay[r].answer) \in LineStatus
  BY DEF VerdictOn, LineStatus
<1>4. RecordAs(r, n, VerdictOn(pay[r].answer))
  BY DEF RecordResult
<1>5. Marks(k, n, VerdictOn(pay[r].answer)) /\ Moves(s, k, "next", runner[r].todo \ {n})
  BY <1>2, <1>3, <1>4, RecordAsIs
<1> QED BY <1>2, <1>5 DEF RecordResult, RestOfTable, RestStays

LEMMA RecordAlreadyPaidIs ==
  ASSUME RunnersOK, LinesOK, NEW s \in Servers, NEW k \in Settlements, RecordAlreadyPaid(s, k)
  PROVE  LET r == <<s, k>>
             n == FirstOf(r) IN
         /\ runner[r].pc = "record" /\ n \in runner[r].todo /\ n \in DOMAIN settlement[k].lines
         /\ Marks(k, n, "COMPLETED") /\ Moves(s, k, "next", runner[r].todo \ {n})
         /\ doubt' = doubt /\ MoneyStays /\ RestStays
<1> DEFINE r == <<s, k>>
           n == FirstOf(r)
<1>1. runner[r].pc = "record" /\ runner[r].todo # {}
  BY DEF RecordAlreadyPaid, RunnersOK
<1>2. n \in runner[r].todo /\ n \in DOMAIN settlement[k].lines
  BY <1>1, FirstIs
<1>3. "COMPLETED" \in LineStatus
  BY DEF LineStatus
<1>4. RecordAs(r, n, "COMPLETED")
  BY DEF RecordAlreadyPaid
<1>5. Marks(k, n, "COMPLETED") /\ Moves(s, k, "next", runner[r].todo \ {n})
  BY <1>2, <1>3, <1>4, RecordAsIs
<1> QED BY <1>1, <1>2, <1>5 DEF RecordAlreadyPaid, RestOfTable, RestStays, MoneyStays, payVars

LEMMA CrashIs ==
  ASSUME RunnersOK, PayTypeOK, NEW s \in Servers, NEW k \in Settlements, Crash(s, k)
  PROVE  LET r == <<s, k>> IN
         /\ runner[r].pc # "idle" /\ Moves(s, k, "idle", {})
         /\ RestStays /\ LinesStay /\ doubt' = doubt
         /\ PayTypeOK' /\ paid' = paid /\ ~Calling(r)'
         /\ \A q \in Payers : q # r => pay'[q] = pay[q]
<1> DEFINE r == <<s, k>>
<1>1. Idle \in RunnerRow /\ Idle.pc = "idle" /\ Idle.todo = {}
  BY DEF Idle, RunnerRow
<1>2. runner' = [runner EXCEPT ![r] = Idle]
  BY DEF Crash, Stopped
<1>3. Moves(s, k, Idle.pc, Idle.todo)
  BY <1>1, <1>2, RunnerSetIs
<1>4. IF Calling(r) THEN DropPay(r) ELSE UNCHANGED payVars
  BY DEF Crash
<1>5. /\ PayTypeOK' /\ paid' = paid /\ ~Calling(r)'
      /\ \A q \in Payers : q # r => pay'[q] = pay[q]
  BY <1>4, RunnersAre, DropPayIs
<1> QED BY <1>1, <1>3, <1>5 DEF Crash, RestOfTable, RestStays, LinesStay

(* The lines that are COMPLETED, in some order.                             *)
LEMMA DoneIs ==
  ASSUME LinesOK, NEW k \in Settlements
  PROVE  LET n == Cardinality(Done(k))
             done == SetToSeq(Done(k)) IN
         /\ settlement[k].lines \in Seq(LineRow)
         /\ DOMAIN settlement[k].lines = 1..Len(settlement[k].lines)
         /\ Len(settlement[k].lines) \in Nat
         /\ IsFiniteSet(Done(k)) /\ Done(k) \in SUBSET DOMAIN settlement[k].lines
         /\ n \in Nat /\ n <= Len(settlement[k].lines)
         /\ n = Len(settlement[k].lines) => Done(k) = DOMAIN settlement[k].lines
         /\ done \in [1..n -> Done(k)]
<1> DEFINE lines == settlement[k].lines
<1>1. lines \in Seq(LineRow)
  BY DEF LinesOK, SettlementRow
<1>2. DOMAIN lines = 1..Len(lines) /\ Len(lines) \in Nat
  BY <1>1
<1>3. Done(k) \in SUBSET DOMAIN lines
  BY DEF Done
<1>4. PICK m \in Nat : m = Len(lines)
  BY <1>2
<1>5. IsFiniteSet(1..m) /\ Cardinality(1..m) = m
  <2>1. m \in Nat
    OBVIOUS
  <2> QED BY ONLY <2>1, FS_Interval
<1>6. Done(k) \in SUBSET (1..m)
  BY <1>2, <1>3, <1>4
<1>7. /\ IsFiniteSet(Done(k)) /\ Cardinality(Done(k)) <= m
      /\ Cardinality(Done(k)) = m => Done(k) = 1..m
  BY <1>5, <1>6, FS_Subset
<1> QED BY <1>1, <1>2, <1>3, <1>4, <1>7, SetToSeqIs

LEMMA PaymentsAre ==
  ASSUME LinesOK, DebtsOK, NEW k \in Settlements
  PROVE  LET done == SetToSeq(Done(k))
             lines == settlement[k].lines
             made == PaymentsMade(k) IN
         /\ made \in Seq(DebtRow) /\ DOMAIN made = 1..Cardinality(Done(k))
         /\ \A i \in DOMAIN made :
              /\ done[i] \in Done(k)
              /\ made[i].status = "PENDING" /\ made[i].kind = "SETTLEMENT_PAYMENT"
              /\ made[i].debtor = lines[done[i]].to /\ made[i].creditor = lines[done[i]].from
              /\ made[i].amount = lines[done[i]].amount
              /\ made[i].debtor \in members /\ made[i].creditor \in members
              /\ made[i].debtor # made[i].creditor
<1> DEFINE done == SetToSeq(Done(k))
           lines == settlement[k].lines
           made == PaymentsMade(k)
           row(l) == [NewDebt(Payment(l), "SETTLEMENT_PAYMENT") EXCEPT !.settlement = k]
<1>1. PICK n \in Nat : n = Cardinality(Done(k))
  BY DoneIs
<1>2. /\ done \in [1..n -> Done(k)] /\ Done(k) \subseteq DOMAIN lines
      /\ \A i \in DOMAIN lines : lines[i] \in LineRow
  BY <1>1, DoneIs
<1>3. made = [i \in 1..n |-> row(lines[done[i]])]
  BY <1>2 DEF PaymentsMade
<1>4. ASSUME NEW l \in LineRow
      PROVE  /\ row(l) \in DebtRow /\ row(l).status = "PENDING"
             /\ row(l).kind = "SETTLEMENT_PAYMENT" /\ row(l).debtor = l.to
             /\ row(l).creditor = l.from /\ row(l).amount = l.amount
  <2> DEFINE d == NewDebt(Payment(l), "SETTLEMENT_PAYMENT")
  <2>1. /\ d \in DebtRow /\ d.status = "PENDING" /\ d.kind = "SETTLEMENT_PAYMENT"
        /\ d.debtor = l.to /\ d.creditor = l.from /\ d.amount = l.amount
    BY DEF NewDebt, Payment, DebtRow, LineRow, Kind
  <2> HIDE DEF d
  <2>2. row(l) = [d EXCEPT !.settlement = k]
    BY DEF d
  <2> HIDE DEF row
  <2> QED BY <2>1, <2>2 DEF DebtRow
<1>5. ASSUME NEW i \in 1..n
      PROVE  /\ done[i] \in Done(k) /\ done[i] \in DOMAIN lines /\ lines[done[i]] \in LineRow
             /\ lines[done[i]].from \in members /\ lines[done[i]].to \in members
             /\ lines[done[i]].from # lines[done[i]].to
  BY <1>2 DEF LinesOK
<1> HIDE DEF row, made, done, lines
<1>6. \A i \in 1..n : made[i] = row(lines[done[i]])
  BY <1>3
<1>7. made \in [1..n -> DebtRow]
  BY <1>3, <1>4, <1>5
<1>8. made \in Seq(DebtRow) /\ DOMAIN made = 1..n
  BY <1>7
<1>9. \A i \in 1..n :
        /\ done[i] \in Done(k)
        /\ made[i].status = "PENDING" /\ made[i].kind = "SETTLEMENT_PAYMENT"
        /\ made[i].debtor = lines[done[i]].to /\ made[i].creditor = lines[done[i]].from
        /\ made[i].amount = lines[done[i]].amount
        /\ made[i].debtor \in members /\ made[i].creditor \in members
        /\ made[i].debtor # made[i].creditor
  BY <1>4, <1>5, <1>6
<1> QED BY <1>1, <1>8, <1>9 DEF made, done, lines

(* The verdict on a settlement is written.                                  *)
Closes(k) ==
  /\ settlement' \in [Settlements -> SettlementRow]
  /\ \A j \in Settlements : j # k => settlement'[j] = settlement[j]
  /\ settlement'[k].lines = settlement[k].lines
  /\ settlement'[k].status = FinalStatus(k) /\ settlement'[k].success = Cardinality(Done(k))

LEMMA FinalizeIs ==
  ASSUME RunnersOK, LinesOK, NEW s \in Servers, NEW k \in Settlements, Finalize(s, k)
  PROVE  /\ runner[<<s, k>>].pc = "finalize" /\ Moves(s, k, "idle", {})
         /\ members' = members /\ scene' = scene /\ MoneyStays /\ doubt' = doubt
         /\ \/ settlement[k].status = "PROCESSING" /\ debts' = Closed(k) /\ Closes(k)
            \/ settlement[k].status # "PROCESSING" /\ debts' = debts /\ LinesStay
<1>1. /\ runner[<<s, k>>].pc = "finalize" /\ runner[<<s, k>>].todo = {}
      /\ "idle" \in Step /\ RunnerAt(<<s, k>>, "idle")
  BY DEF Finalize, RunnersOK, Step
<1>2. Moves(s, k, "idle", {})
  BY <1>1, RunnerAtIs
<1>3. ASSUME settlement' = [settlement EXCEPT ![k].status = FinalStatus(k),
                                              ![k].success = Cardinality(Done(k))]
      PROVE  Closes(k)
  <2> DEFINE row == [settlement[k] EXCEPT !.status = FinalStatus(k),
                                          !.success = Cardinality(Done(k))]
  <2>1. settlement \in [Settlements -> SettlementRow] /\ settlement[k] \in SettlementRow
    BY DEF LinesOK
  <2>2. FinalStatus(k) \in Final /\ Cardinality(Done(k)) \in Nat
    BY DoneIs DEF FinalStatus, Final
  <2>3. settlement' = [settlement EXCEPT ![k] = row]
    BY <1>3, <2>1
  <2>4. /\ row \in SettlementRow /\ row.lines = settlement[k].lines
        /\ row.status = FinalStatus(k) /\ row.success = Cardinality(Done(k))
    BY <2>1, <2>2 DEF SettlementRow
  <2> HIDE DEF row
  <2> QED BY <2>1, <2>3, <2>4 DEF Closes
<1>4. \/ /\ settlement[k].status = "PROCESSING" /\ debts' = Closed(k)
         /\ settlement' = [settlement EXCEPT ![k].status = FinalStatus(k),
                                             ![k].success = Cardinality(Done(k))]
      \/ settlement[k].status # "PROCESSING" /\ debts' = debts /\ settlement' = settlement
  BY DEF Finalize
<1>5. members' = members /\ scene' = scene /\ MoneyStays /\ doubt' = doubt
  BY DEF Finalize, MoneyStays, payVars
<1> QED BY <1>1, <1>2, <1>3, <1>4, <1>5 DEF LinesStay

(* The debts that are closed, and the payments that are added.              *)
CloseDebts(k, status, owner, made) ==
  LET rows == WithStatus(DebtsOf(k), status, owner) IN
  /\ Stamped(rows, DebtsOf(k), status, owner) /\ debts' = rows \o made
  /\ rows \in Seq(DebtRow) /\ made \in Seq(DebtRow)
  /\ status # "PROCESSING"

LEMMA ClosedIs ==
  ASSUME LinesOK, DebtsOK, NEW k \in Settlements, debts' = Closed(k)
  PROVE  \/ FinalStatus(k) = "COMPLETED" /\ CloseDebts(k, "COMPLETED", k, <<>>)
         \/ FinalStatus(k) = "PARTIAL" /\ CloseDebts(k, "PENDING", "none", PaymentsMade(k))
         \/ FinalStatus(k) = "FAILED" /\ CloseDebts(k, "PENDING", "none", <<>>)
<1>1. debts \in Seq(DebtRow) /\ DebtsOf(k) \subseteq DOMAIN debts
  BY DEF DebtsOK, DebtsOf
<1>2. /\ Stamped(WithStatus(DebtsOf(k), "COMPLETED", k), DebtsOf(k), "COMPLETED", k)
      /\ Stamped(WithStatus(DebtsOf(k), "PENDING", "none"), DebtsOf(k), "PENDING", "none")
  BY <1>1, StampIs
<1>3. PaymentsMade(k) \in Seq(DebtRow) /\ <<>> \in Seq(DebtRow)
  BY PaymentsAre
<1>4. \A rows \in Seq(DebtRow) : rows \o <<>> = rows
  OBVIOUS
<1>5. /\ WithStatus(DebtsOf(k), "COMPLETED", k) \in Seq(DebtRow)
      /\ WithStatus(DebtsOf(k), "PENDING", "none") \in Seq(DebtRow)
  BY <1>2 DEF Stamped
<1>6. CASE FinalStatus(k) = "COMPLETED"
  <2>1. debts' = WithStatus(DebtsOf(k), "COMPLETED", k) \o <<>>
    BY <1>4, <1>5, <1>6 DEF Closed
  <2> QED BY <1>2, <1>3, <1>5, <1>6, <2>1 DEF CloseDebts
<1>7. CASE FinalStatus(k) = "PARTIAL"
  <2>1. debts' = WithStatus(DebtsOf(k), "PENDING", "none") \o PaymentsMade(k)
    BY <1>7 DEF Closed, Reopened
  <2> QED BY <1>2, <1>3, <1>5, <1>7, <2>1 DEF CloseDebts
<1>8. CASE FinalStatus(k) = "FAILED"
  <2>1. debts' = WithStatus(DebtsOf(k), "PENDING", "none") \o <<>>
    BY <1>4, <1>5, <1>8 DEF Closed, Reopened
  <2> QED BY <1>2, <1>3, <1>5, <1>8, <2>1 DEF CloseDebts
<1>9. FinalStatus(k) \in {"COMPLETED", "PARTIAL", "FAILED"}
  BY DEF FinalStatus
<1> QED BY <1>6, <1>7, <1>8, <1>9

-------------------------------------------------------------------------------
(* The tables stay sound *)

(* Steps that write no debts.                                               *)
LEMMA DebtsStay ==
  ASSUME TablesInv, RestStays,
         \A k \in Settlements : settlement'[k].status = settlement[k].status
  PROVE  SceneOK' /\ People' = People /\ scene'.servers = scene.servers
         /\ DebtsOK' /\ ProcessingDebtsHaveOwner'
<1>0. SceneOK /\ DebtsOK /\ ProcessingDebtsHaveOwner
  BY DEF TablesInv
<1>1. SceneOK' /\ People' = People /\ scene'.servers = scene.servers
  BY <1>0, SceneStays DEF RestStays
<1>2. DebtRow' = DebtRow
  BY <1>1 DEF DebtRow
<1>3. DebtsOK'
  BY <1>0, <1>1, <1>2 DEF DebtsOK, RestStays
<1>4. debts' = debts /\ \A i \in DOMAIN debts : debts[i].status = "PROCESSING" =>
        debts[i].settlement \in Settlements
  BY <1>0 DEF DebtsOK, RestStays
<1>5. ProcessingDebtsHaveOwner'
  BY <1>0, <1>4 DEF ProcessingDebtsHaveOwner, DebtsOf
<1> QED BY <1>1, <1>3, <1>5

LEMMA LinesKept ==
  ASSUME TablesInv, RestStays, LinesStay
  PROVE  SceneOK' /\ People' = People /\ scene'.servers = scene.servers
         /\ DebtsOK' /\ ProcessingDebtsHaveOwner' /\ LinesOK'
<1>0. LinesOK
  BY DEF TablesInv
<1>1. /\ SceneOK' /\ People' = People /\ scene'.servers = scene.servers
      /\ DebtsOK' /\ ProcessingDebtsHaveOwner'
  BY DebtsStay DEF LinesStay
<1>2. LineRow' = LineRow /\ SettlementRow' = SettlementRow
  BY <1>1 DEF LineRow, SettlementRow
<1>3. LinesOK'
  BY <1>0, <1>2 DEF LinesOK, LinesStay, RestStays
<1> QED BY <1>1, <1>3

(* A runner that moves on without writing to the tables.                    *)
LEMMA MoveTables ==
  ASSUME TablesInv, RestStays, LinesStay, PayTypeOK', NEW s \in Servers, NEW k \in Settlements,
         NEW pc, NEW todo, Moves(s, k, pc, todo), todo \subseteq DOMAIN settlement[k].lines,
         pc # "idle" => settlement[k].status # "NONE" /\ s \in scene.servers,
         pc \in {"paying", "record"} => todo # {},
         pc \notin {"next", "paying", "record"} => todo = {}
  PROVE  TablesInv'
<1>1. /\ SceneOK' /\ People' = People /\ scene'.servers = scene.servers
      /\ DebtsOK' /\ ProcessingDebtsHaveOwner' /\ LinesOK'
  BY LinesKept
<1>2. RunnersOK'
  BY <1>1, RunnerMoves DEF TablesInv, LinesStay
<1> QED BY <1>1, <1>2 DEF TablesInv

LEMMA ResumeTables ==
  ASSUME TablesInv, NEW s \in Servers, NEW k \in Settlements, Resume(s, k)
  PROVE  TablesInv'
<1>0. PayTypeOK /\ RunnersOK
  BY DEF TablesInv
<1>1. /\ settlement[k].status # "NONE" /\ s \in scene.servers /\ Moves(s, k, "status", {})
      /\ RestStays /\ LinesStay /\ MoneyStays
  BY <1>0, ResumeIs
<1>2. PayTypeOK'
  BY <1>0, <1>1 DEF MoneyStays, PayTypeOK
<1> QED BY <1>1, <1>2, MoveTables

(* Where a runner is.                                                       *)
LEMMA RunnerIs ==
  ASSUME RunnersOK, NEW s \in Servers, NEW k \in Settlements
  PROVE  LET r == runner[<<s, k>>] IN
         /\ r.todo \subseteq DOMAIN settlement[k].lines
         /\ r.pc # "idle" => settlement[k].status # "NONE" /\ s \in scene.servers
         /\ r.pc \in {"paying", "record"} => r.todo # {}
         /\ r.pc \notin {"next", "paying", "record"} => r.todo = {}
  BY DEF RunnersOK

LEMMA ReadStatusTables ==
  ASSUME TablesInv, NEW s \in Servers, NEW k \in Settlements, ReadStatus(s, k)
  PROVE  TablesInv'
<1>0. PayTypeOK /\ RunnersOK
  BY DEF TablesInv
<1>1. PICK pc, todo :
        /\ pc = (IF ToRun(k) THEN "lines" ELSE "idle") /\ todo = runner[<<s, k>>].todo
        /\ runner[<<s, k>>].pc = "status" /\ Moves(s, k, pc, todo)
        /\ RestStays /\ LinesStay /\ MoneyStays
  BY <1>0, ReadStatusIs
<1>2. PayTypeOK'
  BY <1>0, <1>1 DEF MoneyStays, PayTypeOK
<1>3. /\ todo = {} /\ todo \subseteq DOMAIN settlement[k].lines
      /\ settlement[k].status # "NONE" /\ s \in scene.servers
      /\ pc \notin {"next", "paying", "record"}
  BY <1>0, <1>1, RunnerIs
<1> QED BY <1>1, <1>2, <1>3, MoveTables

LEMMA ReadLinesTables ==
  ASSUME TablesInv, NEW s \in Servers, NEW k \in Settlements, ReadLines(s, k)
  PROVE  TablesInv'
<1>0. PayTypeOK /\ RunnersOK /\ LinesOK
  BY DEF TablesInv
<1>1. /\ runner[<<s, k>>].pc = "lines" /\ Moves(s, k, "next", Undone(k))
      /\ RestStays /\ LinesStay /\ MoneyStays
  BY <1>0, ReadLinesIs
<1>2. PayTypeOK'
  BY <1>0, <1>1 DEF MoneyStays, PayTypeOK
<1>3. /\ Undone(k) \subseteq DOMAIN settlement[k].lines
      /\ settlement[k].status # "NONE" /\ s \in scene.servers
  BY <1>0, <1>1, RunnerIs DEF Undone
<1> QED BY <1>1, <1>2, <1>3, MoveTables

LEMMA NextLineTables ==
  ASSUME TablesInv, NEW s \in Servers, NEW k \in Settlements, NextLine(s, k)
  PROVE  TablesInv'
<1>0. PayTypeOK /\ RunnersOK /\ LinesOK
  BY DEF TablesInv
<1> DEFINE r == <<s, k>>
           key == <<k, FirstOf(r)>>
<1>1. /\ runner[r].pc = "next" /\ RestStays /\ LinesStay
      /\ \/ runner[r].todo = {} /\ Moves(s, k, "finalize", {}) /\ MoneyStays
         \/ runner[r].todo # {} /\ Moves(s, k, "record", runner[r].todo) /\ MoneyStays
         \/ runner[r].todo # {} /\ BeginPay(r, key) /\ Moves(s, k, "paying", runner[r].todo)
  BY <1>0, NextLineIs
<1>2. /\ settlement[k].status # "NONE" /\ s \in scene.servers
      /\ runner[r].todo \subseteq DOMAIN settlement[k].lines
  BY <1>0, <1>1, RunnerIs
<1>3. PayTypeOK'
  <2>1. CASE MoneyStays
    BY <1>0, <2>1 DEF MoneyStays, PayTypeOK
  <2>2. CASE runner[r].todo # {} /\ BeginPay(r, key)
    <3>1. r \in Payers /\ key \in PayKeys
      BY <1>0, <2>2, RunnersAre, FirstIs
    <3> QED BY <1>0, <2>2, <3>1, BeginPayIs
  <2> QED BY <1>1, <2>1, <2>2
<1>4. CASE runner[r].todo = {} /\ Moves(s, k, "finalize", {})
  BY <1>1, <1>2, <1>3, <1>4, MoveTables
<1>5. CASE runner[r].todo # {} /\ Moves(s, k, "record", runner[r].todo)
  BY <1>1, <1>2, <1>3, <1>5, MoveTables
<1>6. CASE runner[r].todo # {} /\ Moves(s, k, "paying", runner[r].todo)
  BY <1>1, <1>2, <1>3, <1>6, MoveTables
<1> QED BY <1>1, <1>4, <1>5, <1>6

LEMMA CrashTables ==
  ASSUME TablesInv, NEW s \in Servers, NEW k \in Settlements, Crash(s, k)
  PROVE  TablesInv'
<1>0. PayTypeOK /\ RunnersOK
  BY DEF TablesInv
<1>1. Moves(s, k, "idle", {}) /\ RestStays /\ LinesStay /\ PayTypeOK'
  BY <1>0, CrashIs
<1> QED BY <1>1, MoveTables

(* A runner that records a line.                                            *)
LEMMA MarkTables ==
  ASSUME TablesInv, RestStays, PayTypeOK', NEW s \in Servers, NEW k \in Settlements, NEW n,
         NEW status,
         NEW todo, Marks(k, n, status), Moves(s, k, "next", todo),
         todo \subseteq DOMAIN settlement[k].lines,
         settlement[k].status # "NONE" /\ s \in scene.servers
  PROVE  TablesInv'
<1>0. LinesOK /\ RunnersOK
  BY DEF TablesInv
<1>1. /\ settlement' \in [Settlements -> SettlementRow]
      /\ \A j \in Settlements : j # k => settlement'[j] = settlement[j]
      /\ settlement'[k].status = settlement[k].status
      /\ settlement'[k].success = settlement[k].success
      /\ DOMAIN settlement'[k].lines = DOMAIN settlement[k].lines
      /\ Len(settlement'[k].lines) = Len(settlement[k].lines)
      /\ \A i \in DOMAIN settlement[k].lines :
           /\ settlement'[k].lines[i].from = settlement[k].lines[i].from
           /\ settlement'[k].lines[i].to = settlement[k].lines[i].to
  BY DEF Marks
<1>2. \A j \in Settlements : /\ settlement'[j].status = settlement[j].status
                             /\ DOMAIN settlement'[j].lines = DOMAIN settlement[j].lines
  BY <1>1
<1>3. /\ SceneOK' /\ People' = People /\ scene'.servers = scene.servers
      /\ DebtsOK' /\ ProcessingDebtsHaveOwner'
  BY <1>2, DebtsStay
<1>4. LinesOK'
  <2>1. LineRow' = LineRow /\ SettlementRow' = SettlementRow
    BY <1>3 DEF LineRow, SettlementRow
  <2>2. members' = members
    BY DEF RestStays
  <2>3. ASSUME NEW j \in Settlements
        PROVE  /\ settlement'[j].success <= Len(settlement'[j].lines)
               /\ \A i \in DOMAIN settlement'[j].lines :
                    /\ <<j, i>> \in PayKeys
                    /\ settlement'[j].lines[i].from \in members
                    /\ settlement'[j].lines[i].to \in members
                    /\ settlement'[j].lines[i].from # settlement'[j].lines[i].to
    <3>1. CASE j = k
      BY <1>0, <1>1, <3>1 DEF LinesOK
    <3>2. CASE j # k
      BY <1>0, <1>1, <3>2 DEF LinesOK
    <3> QED BY <3>1, <3>2
  <2> QED BY <1>1, <2>1, <2>2, <2>3 DEF LinesOK
<1>5. RunnersOK'
  BY <1>0, <1>2, <1>3, RunnerMoves
<1> QED BY <1>3, <1>4, <1>5 DEF TablesInv

LEMMA RecordResultTables ==
  ASSUME TablesInv, NEW s \in Servers, NEW k \in Settlements, RecordResult(s, k)
  PROVE  TablesInv'
<1> DEFINE r == <<s, k>>
           n == FirstOf(r)
<1>0. PayTypeOK /\ RunnersOK /\ LinesOK
  BY DEF TablesInv
<1>1. /\ runner[r].pc = "paying" /\ Marks(k, n, VerdictOn(pay[r].answer))
      /\ Moves(s, k, "next", runner[r].todo \ {n})
      /\ pay' = [pay EXCEPT ![r] = FreshPay] /\ paid' = paid /\ RestStays
  BY <1>0, RecordResultIs
<1>2. PayTypeOK'
  BY <1>0, <1>1, RunnersAre DEF PayTypeOK, FreshPay, PayCall, PayAnswer
<1>3. /\ settlement[k].status # "NONE" /\ s \in scene.servers
      /\ runner[r].todo \ {n} \subseteq DOMAIN settlement[k].lines
  BY <1>0, <1>1, RunnerIs
<1> QED BY <1>1, <1>2, <1>3, MarkTables

LEMMA RecordAlreadyPaidTables ==
  ASSUME TablesInv, NEW s \in Servers, NEW k \in Settlements, RecordAlreadyPaid(s, k)
  PROVE  TablesInv'
<1> DEFINE r == <<s, k>>
           n == FirstOf(r)
<1>0. PayTypeOK /\ RunnersOK /\ LinesOK
  BY DEF TablesInv
<1>1. /\ runner[r].pc = "record" /\ Marks(k, n, "COMPLETED")
      /\ Moves(s, k, "next", runner[r].todo \ {n}) /\ MoneyStays /\ RestStays
  BY <1>0, RecordAlreadyPaidIs
<1>2. PayTypeOK'
  BY <1>0, <1>1 DEF PayTypeOK, MoneyStays
<1>3. /\ settlement[k].status # "NONE" /\ s \in scene.servers
      /\ runner[r].todo \ {n} \subseteq DOMAIN settlement[k].lines
  BY <1>0, <1>1, RunnerIs
<1> QED BY <1>1, <1>2, <1>3, MarkTables

LEMMA StepPayTyped ==
  ASSUME PayTypeOK, NEW r \in Payers, StepPay(r)
  PROVE  PayTypeOK'
<1>a. ASSUME NEW answer \in PayAnswer, AnswerPay(r, answer)
      PROVE  pay' \in [Payers -> PayCall]
  <2>1. pay' = [pay EXCEPT ![r] = [pay[r] EXCEPT !.pc = "answered", !.answer = answer]]
    BY <1>a DEF PayTypeOK, AnswerPay
  <2> DEFINE n == [pay[r] EXCEPT !.pc = "answered", !.answer = answer]
  <2>2. n \in PayCall
    BY DEF PayTypeOK, PayCall
  <2> HIDE DEF n
  <2>3. pay' = [pay EXCEPT ![r] = n]
    BY <2>1 DEF n
  <2> QED BY <2>2, <2>3 DEF PayTypeOK
<1>b. {"COMPLETED", "UNCERTAIN", "FAILED", "IN_FLIGHT"} \subseteq PayAnswer
  BY DEF PayAnswer
<1>c. ASSUME NEW k, NEW status \in PayStatus, paid' = [paid EXCEPT ![k] = status]
      PROVE  paid' \in [PayKeys -> PayStatus]
  BY <1>c DEF PayTypeOK
<1>d. {"inflight", "moved", "failed"} \subseteq PayStatus
  BY DEF PayStatus
<1>1. CASE JoinPay(r)
  BY <1>a, <1>b, <1>1 DEF JoinPay, PayTypeOK
<1>2. CASE OwnPay(r)
  <2>1. pay' = [pay EXCEPT ![r].pc = "owning"] /\ paid' = [paid EXCEPT ![pay[r].key] = "inflight"]
    BY <1>2 DEF OwnPay
  <2>2. pay' \in [Payers -> PayCall]
    BY <2>1 DEF PayTypeOK, PayCall
  <2> QED BY <1>c, <1>d, <2>1, <2>2 DEF PayTypeOK
<1>3. CASE EndPay(r)
  BY <1>a, <1>b, <1>c, <1>d, <1>3 DEF EndPay, PayTypeOK
<1> QED BY <1>1, <1>2, <1>3 DEF StepPay

LEMMA PayingTables ==
  ASSUME TablesInv, NEW s \in Servers, NEW k \in Settlements, Paying(s, k)
  PROVE  TablesInv'
<1>0. PayTypeOK /\ RunnersOK
  BY DEF TablesInv
<1>1. StepPay(<<s, k>>) /\ RestStays /\ LinesStay /\ runner' = runner
  BY DEF Paying, RestOfTable, RestStays, LinesStay
<1>2. PayTypeOK'
  BY <1>0, <1>1, RunnersAre, StepPayTyped
<1>3. /\ SceneOK' /\ People' = People /\ scene'.servers = scene.servers
      /\ DebtsOK' /\ ProcessingDebtsHaveOwner' /\ LinesOK'
  BY <1>1, LinesKept
<1>4. RunnersOK'
  BY <1>0, <1>1, <1>3 DEF RunnersOK, LinesStay
<1> QED BY <1>2, <1>3, <1>4 DEF TablesInv

LEMMA FinalizeTables ==
  ASSUME TablesInv, NEW s \in Servers, NEW k \in Settlements, Finalize(s, k)
  PROVE  TablesInv'
<1>0. PayTypeOK /\ SceneOK /\ DebtsOK /\ LinesOK /\ RunnersOK /\ ProcessingDebtsHaveOwner
  BY DEF TablesInv
<1>1. /\ runner[<<s, k>>].pc = "finalize" /\ Moves(s, k, "idle", {})
      /\ members' = members /\ scene' = scene /\ MoneyStays
      /\ \/ settlement[k].status = "PROCESSING" /\ debts' = Closed(k) /\ Closes(k)
         \/ settlement[k].status # "PROCESSING" /\ debts' = debts /\ LinesStay
  BY <1>0, FinalizeIs
<1>2. PayTypeOK'
  BY <1>0, <1>1 DEF MoneyStays, PayTypeOK
<1>3. CASE settlement[k].status # "PROCESSING" /\ debts' = debts /\ LinesStay
  BY <1>1, <1>2, <1>3, MoveTables DEF RestStays
<1>4. CASE settlement[k].status = "PROCESSING" /\ debts' = Closed(k) /\ Closes(k)
  <2>1. SceneOK' /\ People' = People /\ scene'.servers = scene.servers
    BY <1>0, <1>1, SceneStays
  <2>2. /\ settlement' \in [Settlements -> SettlementRow]
        /\ \A j \in Settlements : j # k => settlement'[j] = settlement[j]
        /\ settlement'[k].lines = settlement[k].lines
        /\ settlement'[k].status \in Final
        /\ settlement'[k].success = Cardinality(Done(k))
    BY <1>4 DEF Closes, FinalStatus, Final
  <2>3. PICK status, owner, made :
          /\ CloseDebts(k, status, owner, made)
          /\ \A i \in DOMAIN made :
               /\ made[i].status = "PENDING"
               /\ made[i].debtor \in members /\ made[i].creditor \in members
               /\ made[i].debtor # made[i].creditor
    <3>1. \A i \in DOMAIN PaymentsMade(k) :
            LET made == PaymentsMade(k) IN
            /\ made[i].status = "PENDING"
            /\ made[i].debtor \in members /\ made[i].creditor \in members
            /\ made[i].debtor # made[i].creditor
      BY <1>0, PaymentsAre
    <3>2. \A i \in DOMAIN <<>> : FALSE
      OBVIOUS
    <3>3. \/ CloseDebts(k, "COMPLETED", k, <<>>)
          \/ CloseDebts(k, "PENDING", "none", PaymentsMade(k))
          \/ CloseDebts(k, "PENDING", "none", <<>>)
      BY <1>0, <1>4, ClosedIs
    <3> QED BY <3>1, <3>2, <3>3
  <2> DEFINE rows == WithStatus(DebtsOf(k), status, owner)
  <2>4. /\ rows \in Seq(DebtRow) /\ made \in Seq(DebtRow) /\ debts' = rows \o made
        /\ DOMAIN rows = DOMAIN debts /\ status # "PROCESSING"
        /\ \A i \in DebtsOf(k) : rows[i].status = status
        /\ \A i \in DOMAIN debts \ DebtsOf(k) : rows[i] = debts[i]
        /\ \A i \in DOMAIN debts : /\ rows[i].debtor = debts[i].debtor
                                   /\ rows[i].creditor = debts[i].creditor
    BY <2>3 DEF CloseDebts, Stamped
  <2> HIDE DEF rows
  <2>5. /\ debts' \in Seq(DebtRow) /\ DOMAIN debts \subseteq DOMAIN debts'
        /\ \A i \in DOMAIN debts : debts'[i] = rows[i]
        /\ \A i \in DOMAIN debts' \ DOMAIN debts : \E j \in DOMAIN made : debts'[i] = made[j]
    BY <2>4, JoinedIs
  <2>6. \A i \in DOMAIN debts' \ DOMAIN debts :
          /\ debts'[i].status = "PENDING"
          /\ debts'[i].debtor \in members /\ debts'[i].creditor \in members
          /\ debts'[i].debtor # debts'[i].creditor
    BY <2>3, <2>5
  <2>7. ASSUME NEW i \in DOMAIN debts', debts'[i].status = "PROCESSING"
        PROVE  /\ i \in DOMAIN debts \ DebtsOf(k) /\ debts'[i] = debts[i]
               /\ debts[i].settlement \in Settlements \ {k}
    <3>1. i \in DOMAIN debts
      BY <2>6, <2>7
    <3>2. i \notin DebtsOf(k)
      BY <2>4, <2>5, <2>7, <3>1
    <3>3. debts'[i] = debts[i]
      BY <2>4, <2>5, <3>1, <3>2
    <3> QED BY <1>0, <2>7, <3>1, <3>2, <3>3 DEF DebtsOK, DebtsOf
  <2>8. DebtsOK'
    <3>1. DebtRow' = DebtRow
      BY <2>1 DEF DebtRow
    <3>2. \A i \in DOMAIN debts' :
            /\ debts'[i].debtor \in members /\ debts'[i].creditor \in members
            /\ debts'[i].debtor # debts'[i].creditor
      <4> SUFFICES ASSUME NEW i \in DOMAIN debts'
                   PROVE  /\ debts'[i].debtor \in members /\ debts'[i].creditor \in members
                          /\ debts'[i].debtor # debts'[i].creditor
        OBVIOUS
      <4>1. CASE i \in DOMAIN debts
        <5>1. debts'[i].debtor = debts[i].debtor /\ debts'[i].creditor = debts[i].creditor
          BY <2>4, <2>5, <4>1
        <5> QED BY <1>0, <4>1, <5>1 DEF DebtsOK
      <4>2. CASE i \notin DOMAIN debts
        BY <2>6, <4>2
      <4> QED BY <4>1, <4>2
    <3> QED BY <1>0, <1>1, <2>1, <2>5, <2>7, <3>1, <3>2 DEF DebtsOK
  <2>9. ProcessingDebtsHaveOwner'
    <3>1. \A i \in DOMAIN debts' : debts'[i].status = "PROCESSING" =>
            settlement'[debts'[i].settlement].status = "PROCESSING"
      BY <1>0, <2>2, <2>7 DEF ProcessingDebtsHaveOwner
    <3>2. ASSUME NEW j \in Settlements, settlement'[j].status = "PROCESSING"
          PROVE  DebtsOf(j)' # {}
      <4>1. j # k /\ settlement[j].status = "PROCESSING"
        BY <2>2, <3>2 DEF Final
      <4>2. PICK i \in DOMAIN debts : debts[i].status = "PROCESSING" /\ debts[i].settlement = j
        BY <1>0, <4>1 DEF ProcessingDebtsHaveOwner, DebtsOf
      <4>3. i \notin DebtsOf(k)
        BY <4>1, <4>2 DEF DebtsOf
      <4>4. i \in DOMAIN debts' /\ debts'[i] = debts[i]
        BY <2>4, <2>5, <4>3
      <4> QED BY <4>2, <4>4 DEF DebtsOf
    <3> QED BY <3>1, <3>2 DEF ProcessingDebtsHaveOwner
  <2>10. LinesOK'
    <3>1. LineRow' = LineRow /\ SettlementRow' = SettlementRow
      BY <2>1 DEF LineRow, SettlementRow
    <3>2. Cardinality(Done(k)) <= Len(settlement[k].lines)
      BY <1>0, DoneIs
    <3>3. ASSUME NEW j \in Settlements
          PROVE  /\ settlement'[j].success <= Len(settlement'[j].lines)
                 /\ settlement'[j].lines = settlement[j].lines
      BY <1>0, <2>2, <3>2 DEF LinesOK
    <3> QED BY <1>0, <1>1, <2>2, <3>1, <3>3 DEF LinesOK
  <2>11. RunnersOK'
    <3>1. \A j \in Settlements :
            /\ DOMAIN settlement'[j].lines = DOMAIN settlement[j].lines
            /\ settlement'[j].status = "NONE" => settlement[j].status = "NONE"
      BY <2>2 DEF Final
    <3>2. {} \subseteq DOMAIN settlement[k].lines
      OBVIOUS
    <3> QED BY <1>0, <1>1, <2>1, <3>1, <3>2, RunnerMoves
  <2> QED BY <1>2, <2>1, <2>8, <2>9, <2>10, <2>11 DEF TablesInv
<1> QED BY <1>1, <1>3, <1>4

(* The start, where every debt is one of the scene's.                       *)
LEMMA InitTables ==
  ASSUME SettlementInit
  PROVE  TablesInv
<1>0. /\ scene \in Scenes /\ members = Founders
      /\ settlement = [k \in Settlements |-> NoSettlement] /\ runner = [r \in Payers |-> Idle]
      /\ debts = [i \in DOMAIN scene.first |-> NewDebt(scene.first[i], "DEBT")]
      /\ paid = [k \in PayKeys |-> "none"] /\ pay = [c \in Payers |-> FreshPay]
  BY DEF SettlementInit, PayInit
<1>1. SceneOK
  BY <1>0, ScenesAssumption DEF SceneOK, SceneRow, DebtForm, ExpenseForm, People
<1>2. PayTypeOK
  BY <1>0 DEF PayTypeOK, PayStatus, FreshPay, PayCall, PayAnswer
<1>3. /\ scene.first \in Seq([debtor : Founders, creditor : Founders, amount : Nat \ {0}])
      /\ \A i \in DOMAIN scene.first : scene.first[i].debtor # scene.first[i].creditor
  <2>1. scene.first \in Seq([debtor : Founders, creditor : Founders, amount : Nat \ {0}])
    BY <1>1 DEF SceneOK, SceneRow
  <2> QED BY <1>0, <2>1, ScenesAssumption
<1>4. DebtsOK
  <2> DEFINE E == [debtor : Founders, creditor : Founders, amount : Nat \ {0}]
  <2>1. PICK first \in Seq(E) : first = scene.first
    BY <1>3
  <2> HIDE DEF E
  <2>2. PICK n \in Nat : n = Len(first) /\ DOMAIN first = 1..n
    OBVIOUS
  <2>3. \A i \in 1..n : first[i] \in E
    BY <2>2
  <2>4. \A e \in E : /\ NewDebt(e, "DEBT") \in DebtRow /\ NewDebt(e, "DEBT").status = "PENDING"
                     /\ NewDebt(e, "DEBT").debtor = e.debtor
                     /\ NewDebt(e, "DEBT").creditor = e.creditor
                     /\ e.debtor \in Founders /\ e.creditor \in Founders
    BY DEF E, NewDebt, DebtRow, Kind, People
  <2>5. debts = [i \in 1..n |-> NewDebt(first[i], "DEBT")]
    BY <1>0, <2>1, <2>2
  <2>6. \A i \in 1..n :
          /\ debts[i] \in DebtRow /\ debts[i].status = "PENDING"
          /\ debts[i].debtor = first[i].debtor /\ debts[i].creditor = first[i].creditor
          /\ first[i].debtor \in Founders /\ first[i].creditor \in Founders
    BY <2>3, <2>4, <2>5
  <2>7. debts \in [1..n -> DebtRow]
    BY <2>5, <2>6
  <2>8. debts \in Seq(DebtRow) /\ DOMAIN debts = 1..n
    BY <2>7
  <2>9. \A i \in 1..n : first[i].debtor # first[i].creditor
    BY <1>3, <2>1, <2>2
  <2>10. members \subseteq People
    BY <1>0 DEF People
  <2> QED BY <1>0, <2>6, <2>8, <2>9, <2>10 DEF DebtsOK
<1>5. \A i \in DOMAIN debts : debts[i].status = "PENDING"
  BY <1>0 DEF NewDebt
<1>6. LinesOK
  <2>1. NoSettlement \in SettlementRow /\ NoSettlement.success = 0 /\ NoSettlement.lines = <<>>
    BY DEF NoSettlement, SettlementRow, Final
  <2> QED BY <1>0, <2>1 DEF LinesOK
<1>7. RunnersOK
  <2>1. Idle \in RunnerRow /\ Idle.pc = "idle" /\ Idle.todo = {}
    BY DEF Idle, RunnerRow
  <2> QED BY <1>0, <2>1, RunnersAre DEF RunnersOK
<1>8. ProcessingDebtsHaveOwner
  BY <1>0, <1>5 DEF ProcessingDebtsHaveOwner, NoSettlement
<1> QED BY <1>1, <1>2, <1>4, <1>6, <1>7, <1>8 DEF TablesInv

LEMMA NextTables ==
  ASSUME TablesInv, [SettlementNext]_settleVars
  PROVE  TablesInv'
<1>1. ASSUME NEW u \in scene.joiners, AddMember(u) PROVE TablesInv'
  BY <1>1, AddMemberTables
<1>2. ASSUME NEW e \in scene.debts, AddDebt(e) PROVE TablesInv'
  BY <1>2, AddDebtTables
<1>3. ASSUME NEW x \in scene.expenses, AddExpense(x) PROVE TablesInv'
  BY <1>3, AddExpenseTables
<1>4. CASE Preview
  BY <1>4, PreviewTables
<1>5. ASSUME NEW s \in Servers, NEW k \in Settlements,
             Settle(s, k) \/ Resume(s, k) \/ Run(s, k) \/ Crash(s, k)
      PROVE  TablesInv'
  BY <1>5, SettleTables, ResumeTables, ReadStatusTables, ReadLinesTables, NextLineTables,
     PayingTables, RecordResultTables, RecordAlreadyPaidTables, FinalizeTables, CrashTables DEF Run
<1>6. CASE UNCHANGED settleVars
  <2>1. /\ members' = members /\ scene' = scene /\ debts' = debts
        /\ settlement' = settlement /\ runner' = runner /\ paid' = paid /\ pay' = pay
    BY <1>6 DEF settleVars
  <2>2. SceneOK' /\ DebtsOK' /\ ProcessingDebtsHaveOwner' /\ LinesOK'
    BY <2>1, LinesKept DEF RestStays, LinesStay
  <2> QED BY <2>1, <2>2 DEF TablesInv, PayTypeOK, RunnersOK
<1>7. CASE SettlementNext
  <2>1. \/ \E u \in scene.joiners : AddMember(u)
        \/ \E e \in scene.debts : AddDebt(e)
        \/ \E x \in scene.expenses : AddExpense(x)
        \/ Preview
        \/ \E s \in Servers, k \in Settlements :
             Settle(s, k) \/ Resume(s, k) \/ Run(s, k) \/ Crash(s, k)
    BY <1>7 DEF SettlementNext, UserNext
  <2> QED BY <1>1, <1>2, <1>3, <1>4, <1>5, <2>1
<1> QED BY <1>6, <1>7

LEMMA TablesFollow ==
  ASSUME TablesInv
  PROVE  TablesAreSound
<1>1. /\ PayTypeOK /\ DebtsOK /\ LinesOK /\ RunnersOK /\ ProcessingDebtsHaveOwner
      /\ members \subseteq Founders \cup scene.joiners
  BY DEF TablesInv, DebtsOK, People
<1>2. \A i \in DOMAIN debts :
        /\ debts[i].debtor \in members /\ debts[i].creditor \in members
        /\ debts[i].debtor # debts[i].creditor /\ debts[i].amount > 0
        /\ debts[i].kind \in Kind
        /\ debts[i].status \in {"PENDING", "PROCESSING", "COMPLETED"}
  <2>1. \A i \in DOMAIN debts : debts[i] \in DebtRow
    BY <1>1 DEF DebtsOK
  <2>2. \A d \in DebtRow : /\ d.amount > 0 /\ d.kind \in Kind
                           /\ d.status \in {"PENDING", "PROCESSING", "COMPLETED"}
    BY DEF DebtRow
  <2> QED BY <1>1, <2>1, <2>2 DEF DebtsOK
<1>3. ASSUME NEW k \in Settlements
      PROVE  /\ settlement[k].status \in Final \cup {"NONE", "PROCESSING"}
             /\ settlement[k].success \in 0..Len(settlement[k].lines)
             /\ \A n \in DOMAIN settlement[k].lines :
                  settlement[k].lines[n].status \in {"PENDING", "COMPLETED", "FAILED"}
  <2>1. /\ settlement[k] \in SettlementRow /\ settlement[k].success <= Len(settlement[k].lines)
        /\ settlement[k].lines \in Seq(LineRow)
    BY <1>1 DEF LinesOK, SettlementRow
  <2>2. /\ settlement[k].status \in Final \cup {"NONE", "PROCESSING"}
        /\ settlement[k].success \in Nat
    BY <2>1 DEF SettlementRow
  <2>3. \A n \in DOMAIN settlement[k].lines : settlement[k].lines[n] \in LineRow
    BY <2>1
  <2>4. \A l \in LineRow : l.status \in {"PENDING", "COMPLETED", "FAILED"}
    BY DEF LineRow, LineStatus
  <2>5. Len(settlement[k].lines) \in Nat
    BY <2>1
  <2> QED BY <2>1, <2>2, <2>3, <2>4, <2>5
<1>4. \A r \in Payers : runner[r].pc \in
        {"idle", "status", "lines", "next", "paying", "record", "finalize"}
  <2>1. \A r \in Payers : runner[r] \in RunnerRow
    BY <1>1 DEF RunnersOK
  <2> QED BY <2>1 DEF RunnerRow
<1>5. SettlementTypeOK
  BY <1>1, <1>2, <1>3, <1>4 DEF SettlementTypeOK
<1> QED BY <1>1, <1>5 DEF TablesAreSound

LEMMA TablesAlways == SettlementSpec => []TablesInv
<1>1. SettlementInit => TablesInv
  BY InitTables
<1>2. TablesInv /\ [SettlementNext]_settleVars => TablesInv'
  BY NextTables
<1> QED BY <1>1, <1>2, PTL DEF SettlementSpec

(* A debt taken out of the balances always belongs to a settlement that     *)
(* runs, which alone can give it back: for any number of servers,           *)
(* settlements and members, whatever crashes.                               *)
THEOREM SettlementTablesAreSound == SettlementSpec => []TablesAreSound
<1>1. TablesInv => TablesAreSound
  BY TablesFollow
<1> QED BY <1>1, TablesAlways, PTL

-------------------------------------------------------------------------------
(* The lines *)

LEMMA OneServer ==
  ASSUME SceneOK, Alone, NEW s \in scene.servers, NEW t \in scene.servers
  PROVE  s = t
  BY FS_Singleton DEF SceneOK, Alone

(* A step of <<s, k>> changes nothing of the other settlements, and of the  *)
(* lines of this one at most that they are decided.                         *)
Only(s, k) ==
  /\ scene'.servers = scene.servers /\ doubt \subseteq doubt'
  /\ \A r \in Payers : r # <<s, k>> => runner'[r] = runner[r] /\ pay'[r] = pay[r]
  /\ \A j \in Settlements : j # k => settlement'[j] = settlement[j]
  /\ \A key \in PayKeys : key[1] # k => paid'[key] = paid[key]
Decides(k) ==
  \/ settlement[k].status = "NONE"
  \/ /\ DOMAIN settlement'[k].lines = DOMAIN settlement[k].lines
     /\ \A n \in DOMAIN settlement[k].lines : Pends(k, n)' => Pends(k, n)

LinesInv == DecidedInv /\ CallInv /\ AloneInv

(* What a step of <<s, k>> has to show of k.                                *)
OwnInv(s, k) ==
  /\ DecidedAt(s, k)' /\ CallAt(s, k)'
  /\ IsFinal(k)' => \A n \in DOMAIN settlement'[k].lines : ~Pends(k, n)'
  /\ Alone => RunAt(s, k)' /\ LineAt(k)'

LEMMA OthersDecided ==
  ASSUME TablesInv, DecidedInv, NEW s \in Servers, NEW k \in Settlements, Only(s, k), Decides(k),
         OwnInv(s, k)
  PROVE  DecidedInv'
<1>0. RunnersOK
  BY DEF TablesInv
<1>1. ASSUME NEW j \in Settlements, IsFinal(j)', NEW n \in DOMAIN settlement'[j].lines
      PROVE  ~Pends(j, n)'
  BY <1>1 DEF OwnInv, Only, DecidedInv, IsFinal, Pends
<1>2. ASSUME NEW t \in Servers, NEW j \in Settlements
      PROVE  DecidedAt(t, j)'
  <2>1. CASE <<t, j>> = <<s, k>>
    BY <2>1 DEF OwnInv
  <2>2. CASE <<t, j>> # <<s, k>>
    <3>1. runner'[<<t, j>>] = runner[<<t, j>>]
      BY <2>2, RunnersAre DEF Only
    <3>2. DecidedAt(t, j)
      BY DEF DecidedInv
    <3>3. CASE j # k
      <4>1. settlement'[j] = settlement[j]
        BY <3>3 DEF Only
      <4> QED BY <3>1, <3>2, <4>1 DEF DecidedAt, Past, Pends
    <3>4. CASE j = k /\ settlement[k].status = "NONE"
      <4>1. runner[<<t, j>>].pc = "idle"
        BY <1>0, <3>4, RunnerIs
      <4> QED BY <3>1, <4>1 DEF DecidedAt, Past
    <3>5. CASE j = k /\ settlement[k].status # "NONE"
      <4>1. /\ DOMAIN settlement'[k].lines = DOMAIN settlement[k].lines
            /\ \A n \in DOMAIN settlement[k].lines : Pends(k, n)' => Pends(k, n)
        BY <3>5 DEF Decides
      <4> QED BY <3>1, <3>2, <3>5, <4>1 DEF DecidedAt, Past
    <3> QED BY <3>3, <3>4, <3>5
  <2> QED BY <2>1, <2>2
<1> QED BY <1>1, <1>2 DEF DecidedInv

LEMMA OthersCall ==
  ASSUME CallInv, NEW s \in Servers, NEW k \in Settlements, Only(s, k), OwnInv(s, k)
  PROVE  CallInv'
<1> SUFFICES ASSUME NEW t \in Servers, NEW j \in Settlements PROVE CallAt(t, j)'
  BY DEF CallInv
<1>1. CASE <<t, j>> = <<s, k>>
  BY <1>1 DEF OwnInv
<1>2. CASE <<t, j>> # <<s, k>>
  <2>1. runner'[<<t, j>>] = runner[<<t, j>>] /\ pay'[<<t, j>>] = pay[<<t, j>>]
    BY <1>2, RunnersAre DEF Only
  <2> QED BY <2>1 DEF CallInv, CallAt, Calling, FirstOf
<1> QED BY <1>1, <1>2

(* The key of a call names the settlement.                                  *)
LEMMA CallKey ==
  ASSUME LinesOK, RunnersOK, CallInv, NEW s \in Servers, NEW k \in Settlements,
         runner[<<s, k>>].pc = "paying"
  PROVE  /\ pay[<<s, k>>].key = <<k, FirstOf(<<s, k>>)>> /\ <<k, FirstOf(<<s, k>>)>> \in PayKeys
         /\ FirstOf(<<s, k>>) \in DOMAIN settlement[k].lines
         /\ FirstOf(<<s, k>>) \in runner[<<s, k>>].todo
         /\ pay[<<s, k>>].pc \in {"waiting", "owning", "answered"}
<1>1. runner[<<s, k>>].todo # {}
  BY RunnerIs
<1> QED BY <1>1, FirstIs DEF CallInv, CallAt

LEMMA OthersAlone ==
  ASSUME TablesInv, TablesInv', CallInv, AloneInv, NEW s \in Servers, NEW k \in Settlements,
         Only(s, k), s \in scene.servers, OwnInv(s, k)
  PROVE  AloneInv'
<1>0. LinesOK /\ RunnersOK /\ SceneOK
  BY DEF TablesInv
<1>1. Alone' <=> Alone
  BY DEF Alone, Only
<1> SUFFICES ASSUME Alone
             PROVE  /\ \A t \in Servers, j \in Settlements : RunAt(t, j)'
                    /\ \A j \in Settlements : LineAt(j)'
  BY <1>1 DEF AloneInv
<1>2. ASSUME NEW j \in Settlements, j # k
      PROVE  /\ settlement'[j] = settlement[j]
             /\ \A n \in DOMAIN settlement[j].lines :
                  /\ <<j, n>> \in PayKeys /\ paid'[<<j, n>>] = paid[<<j, n>>]
                  /\ <<j, n>> \in doubt => <<j, n>> \in doubt'
  <2>1. \A n \in DOMAIN settlement[j].lines : <<j, n>> \in PayKeys /\ <<j, n>>[1] # k
    BY <1>0, <1>2 DEF LinesOK
  <2> QED BY <1>2, <2>1 DEF Only
<1>3. ASSUME NEW j \in Settlements PROVE LineAt(j)'
  <2>1. CASE j = k
    BY <2>1 DEF OwnInv
  <2>2. CASE j # k
    <3>1. LineAt(j)
      BY DEF AloneInv
    <3> QED BY <1>2, <2>2, <3>1 DEF LineAt, Completed, Told, IsFinal, Done
  <2> QED BY <2>1, <2>2
<1>4. ASSUME NEW t \in Servers, NEW j \in Settlements PROVE RunAt(t, j)'
  <2>1. CASE t = s /\ j = k
    BY <2>1 DEF OwnInv
  <2>2. CASE t # s
    <3>1. t \notin scene'.servers
      BY <1>0, <2>2, OneServer DEF Only
    <3>2. runner'[<<t, j>>].pc = "idle"
      BY <3>1 DEF TablesInv, RunnersOK
    <3> QED BY <3>2 DEF RunAt, Past
  <2>3. CASE t = s /\ j # k
    <3>1. runner'[<<s, j>>] = runner[<<s, j>>] /\ pay'[<<s, j>>] = pay[<<s, j>>]
      BY <2>3, RunnersAre DEF Only
    <3>2. RunAt(s, j)
      BY DEF AloneInv
    <3>3. /\ runner'[<<s, j>>].pc \notin {"idle", "status"} => settlement'[j].status = "PROCESSING"
          /\ Past(<<s, j>>)' =>
               \A n \in DOMAIN settlement'[j].lines \ runner'[<<s, j>>].todo : Told(j, n)'
      BY <1>2, <2>3, <3>1, <3>2 DEF RunAt, Past, Told, Completed
    <3>4. ASSUME runner[<<s, j>>].pc = "paying" PROVE AnswerTrue(pay[<<s, j>>])'
      <4>1. pay[<<s, j>>].key = <<j, FirstOf(<<s, j>>)>>
            /\ FirstOf(<<s, j>>) \in DOMAIN settlement[j].lines
        BY <1>0, <3>4, CallKey
      <4>2. paid'[pay[<<s, j>>].key] = paid[pay[<<s, j>>].key]
        BY <1>2, <2>3, <4>1
      <4> QED BY <3>1, <3>2, <3>4, <4>2 DEF RunAt, AnswerTrue
    <3>5. ASSUME runner[<<s, j>>].pc = "record"
          PROVE  paid'[<<j, FirstOf(<<s, j>>)'>>] = "moved"
      <4>1. /\ FirstOf(<<s, j>>) \in DOMAIN settlement[j].lines
            /\ FirstOf(<<s, j>>)' = FirstOf(<<s, j>>)
        <5>1. runner[<<s, j>>].todo # {}
          BY <1>0, <3>5, RunnerIs
        <5> QED BY <1>0, <3>1, <5>1, FirstIs DEF FirstOf
      <4> QED BY <1>2, <2>3, <3>2, <3>5, <4>1 DEF RunAt
    <3> QED BY <2>3, <3>1, <3>3, <3>4, <3>5 DEF RunAt
  <2> QED BY <2>1, <2>2, <2>3
<1> QED BY <1>3, <1>4

(* So a step of <<s, k>> need only be looked at for k.                      *)
LEMMA OwnSteps ==
  ASSUME TablesInv, TablesInv', LinesInv, NEW s \in Servers, NEW k \in Settlements,
         Only(s, k), Decides(k), s \in scene.servers, OwnInv(s, k)
  PROVE  LinesInv'
  BY OthersDecided, OthersCall, OthersAlone DEF LinesInv

(* Steps of the members leave the runners and the lines alone.              *)
LEMMA LinesUntouched ==
  ASSUME LinesInv, UNCHANGED <<settlement, runner, doubt, paid, pay>>,
         scene'.servers = scene.servers
  PROVE  LinesInv'
<1>1. DecidedInv'
  BY DEF LinesInv, DecidedInv, DecidedAt, Past, Pends, IsFinal
<1>2. CallInv'
  BY DEF LinesInv, CallInv, CallAt, Calling, FirstOf
<1>3. Alone' <=> Alone
  BY DEF Alone
<1>4. \A s \in Servers, k \in Settlements : RunAt(s, k) => RunAt(s, k)'
  BY DEF RunAt, Past, Told, Completed, AnswerTrue, FirstOf
<1>5. \A k \in Settlements : LineAt(k) => LineAt(k)'
  BY DEF LineAt, Completed, Told, IsFinal, Done
<1>6. AloneInv'
  BY <1>3, <1>4, <1>5 DEF LinesInv, AloneInv
<1> QED BY <1>1, <1>2, <1>6 DEF LinesInv

(* Steps of a runner that change no lines, no money.                        *)
LEMMA QuietStep ==
  ASSUME TablesInv, TablesInv', LinesInv, NEW s \in Servers, NEW k \in Settlements,
         s \in scene.servers,
         NEW pc, NEW todo, Moves(s, k, pc, todo), RestStays, LinesStay, MoneyStays, doubt' = doubt,
         runner[<<s, k>>].pc # "paying", pc # "paying",
         pc \in {"next", "paying", "record", "finalize"} =>
           \A n \in DOMAIN settlement[k].lines \ todo : ~Pends(k, n),
         Alone =>
           /\ pc \notin {"idle", "status"} => settlement[k].status = "PROCESSING"
           /\ pc \in {"next", "paying", "record", "finalize"} =>
                \A n \in DOMAIN settlement[k].lines \ todo : Told(k, n)
           /\ pc = "record" => paid[<<k, Min(todo)>>] = "moved"
  PROVE  LinesInv'
<1> DEFINE r == <<s, k>>
<1>1. /\ runner'[r].pc = pc /\ runner'[r].todo = todo /\ r \in Payers
      /\ \A q \in Payers : q # r => runner'[q] = runner[q]
      /\ settlement' = settlement /\ paid' = paid /\ pay' = pay /\ scene' = scene
  BY RunnersAre DEF Moves, LinesStay, MoneyStays, RestStays
<1>2. Only(s, k) /\ Decides(k)
  BY <1>1 DEF Only, Decides, Pends
<1>3. DecidedAt(s, k)'
  BY <1>1 DEF DecidedAt, Past, Pends
<1>4. CallAt(s, k)'
  BY <1>1 DEF CallAt, Calling, LinesInv, CallInv
<1>5. IsFinal(k)' => \A n \in DOMAIN settlement'[k].lines : ~Pends(k, n)'
  BY <1>1 DEF LinesInv, DecidedInv, IsFinal, Pends
<1>6. ASSUME Alone PROVE RunAt(s, k)' /\ LineAt(k)'
  <2>1. LineAt(k)'
    BY <1>1, <1>6 DEF LinesInv, AloneInv, LineAt, Completed, Told, IsFinal, Done
  <2>2. RunAt(s, k)'
    BY <1>1, <1>6 DEF RunAt, Past, Told, Completed, FirstOf
  <2> QED BY <2>1, <2>2
<1>7. OwnInv(s, k)
  BY <1>3, <1>4, <1>5, <1>6 DEF OwnInv
<1> QED BY <1>2, <1>7, OwnSteps

LEMMA SettleLines ==
  ASSUME TablesInv, TablesInv', LinesInv, NEW s \in Servers, NEW k \in Settlements, Settle(s, k)
  PROVE  LinesInv'
<1> DEFINE r == <<s, k>>
<1>0. DebtsOK /\ RunnersOK /\ members \subseteq People /\ SceneOK /\ LinesOK
  BY DEF TablesInv, DebtsOK
<1>1. /\ settlement[k].status = "NONE" /\ s \in scene.servers
      /\ scene' = scene /\ doubt' = doubt /\ paid' = paid /\ pay' = pay
  BY SettleIs
<1>2. PICK order \in SetToSeqs(Pending), row \in SettlementRow :
        /\ row.checked => PlanHash(Pending, ToSet(Plan(order))) = Confirmed
        /\ Plan(order) # <<>>
        /\ row.status = "PROCESSING" /\ row.success = 0 /\ row.lines = LinesOf(Plan(order))
        /\ settlement' = [settlement EXCEPT ![k] = row]
  BY SettleIs
<1>3. PICK started \in RunnerRow :
        /\ started.pc = "status" /\ started.todo = {}
        /\ runner' = [runner EXCEPT ![r] = started]
  BY SettleIs
<1>4. Moves(s, k, "status", {})
  BY <1>0, <1>3, RunnerSetIs
<1>5. /\ runner'[r].pc = "status" /\ r \in Payers
      /\ \A q \in Payers : q # r => runner'[q] = runner[q]
  BY <1>4, RunnersAre DEF Moves
<1>6. settlement'[k] = row /\ \A j \in Settlements : j # k => settlement'[j] = settlement[j]
  BY <1>0, <1>2 DEF LinesOK
<1>7. \A n \in DOMAIN row.lines : row.lines[n].status = "PENDING"
  <2>1. PICK plan : plan = Plan(order) /\ plan \in Seq(Line(members))
    BY <1>0, PlanOK
  <2>2. row.lines = LinesOf(plan) /\ DOMAIN row.lines = DOMAIN plan
        /\ \A n \in DOMAIN plan : row.lines[n].status = "PENDING"
    BY <1>0, <1>2, <2>1, LinesAre
  <2> QED BY <2>2
<1>8. Only(s, k) /\ Decides(k)
  BY <1>1, <1>5, <1>6 DEF Only, Decides
<1>9. runner[r].pc = "idle" /\ ~Calling(r)
  <2>1. runner[r].pc = "idle"
    BY <1>0, <1>1, RunnerIs
  <2> QED BY <2>1 DEF LinesInv, CallInv, CallAt
<1>10. DecidedAt(s, k)' /\ CallAt(s, k)'
  BY <1>1, <1>5, <1>9 DEF DecidedAt, Past, CallAt, Calling
<1>11. ~IsFinal(k)'
  BY <1>2, <1>6 DEF IsFinal, Final
<1>12. RunAt(s, k)' /\ LineAt(k)'
  BY <1>5, <1>6, <1>7, <1>11 DEF RunAt, Past, LineAt, Completed
<1>13. OwnInv(s, k)
  BY <1>10, <1>11, <1>12 DEF OwnInv
<1> QED BY <1>1, <1>8, <1>13, OwnSteps

LEMMA ResumeLines ==
  ASSUME TablesInv, TablesInv', LinesInv, NEW s \in Servers, NEW k \in Settlements, Resume(s, k)
  PROVE  LinesInv'
<1>0. RunnersOK
  BY DEF TablesInv
<1>1. /\ runner[<<s, k>>].pc = "idle" /\ s \in scene.servers /\ Moves(s, k, "status", {})
      /\ RestStays /\ LinesStay /\ MoneyStays /\ doubt' = doubt
  BY <1>0, ResumeIs
<1> QED BY <1>1, QuietStep

LEMMA ReadStatusLines ==
  ASSUME TablesInv, TablesInv', LinesInv, NEW s \in Servers, NEW k \in Settlements, ReadStatus(s, k)
  PROVE  LinesInv'
<1>0. RunnersOK
  BY DEF TablesInv
<1>1. PICK pc, todo :
        /\ pc = (IF ToRun(k) THEN "lines" ELSE "idle") /\ todo = runner[<<s, k>>].todo
        /\ runner[<<s, k>>].pc = "status" /\ Moves(s, k, pc, todo)
        /\ RestStays /\ LinesStay /\ MoneyStays /\ doubt' = doubt
  BY <1>0, ReadStatusIs
<1>2. s \in scene.servers
  BY <1>0, <1>1, RunnerIs
<1>3. pc \in {"lines", "idle"} /\ (pc = "lines" => settlement[k].status = "PROCESSING")
  BY <1>1 DEF ToRun
<1> QED BY <1>1, <1>2, <1>3, QuietStep

(* What is not left to do is COMPLETED, and with one server paid.           *)
LEMMA ReadLinesLines ==
  ASSUME TablesInv, TablesInv', LinesInv, NEW s \in Servers, NEW k \in Settlements, ReadLines(s, k)
  PROVE  LinesInv'
<1>0. RunnersOK /\ LinesOK
  BY DEF TablesInv
<1>1. /\ runner[<<s, k>>].pc = "lines" /\ Moves(s, k, "next", Undone(k))
      /\ RestStays /\ LinesStay /\ MoneyStays /\ doubt' = doubt
  BY <1>0, ReadLinesIs
<1>2. s \in scene.servers
  BY <1>0, <1>1, RunnerIs
<1>3. \A n \in DOMAIN settlement[k].lines \ Undone(k) : Completed(k, n)
  BY DEF Undone, Completed
<1>4. \A n \in DOMAIN settlement[k].lines \ Undone(k) : ~Pends(k, n)
  BY <1>3 DEF Pends, Completed
<1>5. ASSUME Alone
      PROVE  /\ settlement[k].status = "PROCESSING"
             /\ \A n \in DOMAIN settlement[k].lines \ Undone(k) : Told(k, n)
  <2>1. RunAt(s, k) /\ LineAt(k)
    BY <1>5 DEF LinesInv, AloneInv
  <2> QED BY <1>1, <1>3, <2>1 DEF RunAt, LineAt, Told
<1> QED BY <1>1, <1>2, <1>4, <1>5, QuietStep

LEMMA NextLineLines ==
  ASSUME TablesInv, TablesInv', LinesInv, NEW s \in Servers, NEW k \in Settlements, NextLine(s, k)
  PROVE  LinesInv'
<1> DEFINE r == <<s, k>>
           key == <<k, FirstOf(r)>>
           todo == runner[r].todo
<1>0. PayTypeOK /\ RunnersOK /\ LinesOK
  BY DEF TablesInv
<1>1. /\ runner[r].pc = "next" /\ RestStays /\ LinesStay /\ doubt' = doubt
      /\ \/ todo = {} /\ Moves(s, k, "finalize", {}) /\ MoneyStays
         \/ todo # {} /\ paid[key] = "moved" /\ Moves(s, k, "record", todo) /\ MoneyStays
         \/ todo # {} /\ BeginPay(r, key) /\ Moves(s, k, "paying", todo)
  BY <1>0, NextLineIs
<1>2. s \in scene.servers /\ r \in Payers
  BY <1>0, <1>1, RunnerIs, RunnersAre
<1>3. \A n \in DOMAIN settlement[k].lines \ todo : ~Pends(k, n)
  BY <1>1 DEF LinesInv, DecidedInv, DecidedAt, Past
<1>4. ASSUME Alone
      PROVE  /\ settlement[k].status = "PROCESSING"
             /\ \A n \in DOMAIN settlement[k].lines \ todo : Told(k, n)
  <2>1. RunAt(s, k)
    BY <1>4 DEF LinesInv, AloneInv
  <2> QED BY <1>1, <2>1 DEF RunAt, Past
<1>5. CASE todo = {} /\ Moves(s, k, "finalize", {}) /\ MoneyStays
  BY <1>1, <1>2, <1>3, <1>4, <1>5, QuietStep
<1>6. CASE todo # {} /\ paid[key] = "moved" /\ Moves(s, k, "record", todo) /\ MoneyStays
  <2>1. paid[<<k, Min(todo)>>] = "moved"
    BY <1>6 DEF FirstOf
  <2> HIDE DEF todo
  <2> QED BY <1>1, <1>2, <1>3, <1>4, <1>6, <2>1, QuietStep
<1>7. CASE todo # {} /\ BeginPay(r, key) /\ Moves(s, k, "paying", todo)
  <2>1. key \in PayKeys
    BY <1>0, <1>7, FirstIs
  <2>2. /\ paid' = paid /\ \A q \in Payers : q # r => pay'[q] = pay[q]
        /\ pay'[r].key = key
        /\ \/ pay'[r].pc = "answered" /\ pay'[r].answer = "COMPLETED" /\ paid[key] = "moved"
           \/ pay'[r].pc = "waiting" /\ paid[key] # "moved"
    BY <1>0, <1>2, <1>7, <2>1, BeginPayIs
  <2>3. /\ runner'[r].pc = "paying" /\ runner'[r].todo = todo
        /\ \A q \in Payers : q # r => runner'[q] = runner[q]
        /\ settlement' = settlement /\ scene' = scene /\ FirstOf(r)' = FirstOf(r)
    BY <1>1, <1>7 DEF Moves, LinesStay, RestStays, FirstOf
  <2>4. Only(s, k) /\ Decides(k)
    BY <1>1, <2>2, <2>3 DEF Only, Decides, Pends
  <2>5. DecidedAt(s, k)' /\ CallAt(s, k)'
    BY <1>3, <2>2, <2>3 DEF DecidedAt, Pends, CallAt
  <2>6. IsFinal(k)' => \A n \in DOMAIN settlement'[k].lines : ~Pends(k, n)'
    BY <2>3 DEF LinesInv, DecidedInv, IsFinal, Pends
  <2>7. ASSUME Alone PROVE RunAt(s, k)' /\ LineAt(k)'
    <3>1. LineAt(k)'
      BY <1>1, <2>2, <2>3, <2>7 DEF LinesInv, AloneInv, LineAt, Completed, Told, IsFinal, Done
    <3>2. AnswerTrue(pay[r])'
      BY <2>2 DEF AnswerTrue
    <3> QED BY <1>1, <1>4, <2>2, <2>3, <2>7, <3>1, <3>2 DEF RunAt, Told, Completed
  <2> QED BY <1>2, <2>4, <2>5, <2>6, <2>7, OwnSteps DEF OwnInv
<1> QED BY <1>1, <1>5, <1>6, <1>7

(* The call of execute goes on: whatever it tells is true, or nothing.      *)
LEMMA PayingLines ==
  ASSUME TablesInv, TablesInv', LinesInv, NEW s \in Servers, NEW k \in Settlements, Paying(s, k)
  PROVE  LinesInv'
<1> DEFINE r == <<s, k>>
           n == FirstOf(r)
           key == <<k, n>>
<1>0. PayTypeOK /\ RunnersOK /\ LinesOK /\ CallInv
  BY DEF TablesInv, LinesInv
<1>1. /\ runner[r].pc = "paying" /\ StepPay(r)
      /\ scene' = scene /\ settlement' = settlement /\ runner' = runner /\ doubt' = doubt
  BY DEF Paying, RestOfTable
<1>2. s \in scene.servers /\ r \in Payers
  BY <1>0, <1>1, RunnerIs, RunnersAre
<1>3. /\ pay[r].key = key /\ key \in PayKeys /\ n \in DOMAIN settlement[k].lines
      /\ n \in runner[r].todo
  BY <1>0, <1>1, CallKey
<1>4. /\ \A q \in Payers : q # r => pay'[q] = pay[q]
      /\ pay'[r].key = key
      /\ \A q \in PayKeys : q # key => paid'[q] = paid[q]
      /\ \/ /\ pay[r].pc = "waiting" /\ pay'[r].pc = "answered" /\ paid' = paid
            /\ \/ pay'[r].answer = "COMPLETED" /\ paid[key] = "moved"
               \/ pay'[r].answer = "IN_FLIGHT"
               \/ pay'[r].answer = "FAILED" /\ paid[key] # "failed"
         \/ /\ pay[r].pc = "waiting" /\ pay'[r].pc = "owning"
            /\ paid[key] \in {"none", "failed"} /\ paid'[key] = "inflight"
         \/ /\ pay[r].pc = "owning" /\ pay'[r].pc = "answered"
            /\ \/ paid'[key] = "moved" /\ pay'[r].answer \in {"COMPLETED", "UNCERTAIN"}
               \/ paid'[key] = paid[key] /\ pay'[r].answer \in {"FAILED", "UNCERTAIN"}
               \/ paid'[key] = "failed" /\ pay'[r].answer = "FAILED"
  BY <1>0, <1>1, <1>2, <1>3, StepPayIs
<1>5. Only(s, k) /\ Decides(k)
  BY <1>1, <1>4 DEF Only, Decides, Pends
<1>6. DecidedAt(s, k)'
  BY <1>1 DEF LinesInv, DecidedInv, DecidedAt, Past, Pends
<1>7. CallAt(s, k)'
  BY <1>1, <1>4 DEF CallAt, FirstOf
<1>8. IsFinal(k)' => \A i \in DOMAIN settlement'[k].lines : ~Pends(k, i)'
  BY <1>1 DEF LinesInv, DecidedInv, IsFinal, Pends
<1>9. ASSUME Alone PROVE RunAt(s, k)' /\ LineAt(k)'
  <2>1. /\ settlement[k].status = "PROCESSING" /\ AnswerTrue(pay[r]) /\ LineAt(k)
        /\ \A i \in DOMAIN settlement[k].lines \ runner[r].todo : Told(k, i)
    BY <1>1, <1>9 DEF LinesInv, AloneInv, RunAt, Past
  <2>2. AnswerTrue(pay[r])'
    BY <1>3, <1>4, <2>1 DEF AnswerTrue
  <2>3. ~IsFinal(k)'
    BY <1>1, <2>1 DEF IsFinal, Final
  <2>4. \A i \in DOMAIN settlement[k].lines : i # n => paid'[<<k, i>>] = paid[<<k, i>>]
    BY <1>0, <1>4 DEF LinesOK
  <2>5. \A i \in DOMAIN settlement[k].lines \ runner[r].todo : Told(k, i)'
    BY <1>1, <1>3, <2>1, <2>4 DEF Told, Completed
  <2>6. paid[key] = "moved" => paid'[key] = "moved"
    BY <1>3, <1>4, <2>1 DEF AnswerTrue
  <2>7. LineAt(k)'
    BY <1>1, <2>1, <2>3, <2>4, <2>6 DEF LineAt, Completed
  <2> QED BY <1>1, <2>1, <2>2, <2>5, <2>7 DEF RunAt
<1> QED BY <1>2, <1>5, <1>6, <1>7, <1>8, <1>9, OwnSteps DEF OwnInv

(* A line is recorded, and says what happened or is in doubt.               *)
LEMMA MarkLines ==
  ASSUME TablesInv, TablesInv', LinesInv, NEW s \in Servers, NEW k \in Settlements,
         NEW n \in runner[<<s, k>>].todo, NEW status, status # "PENDING",
         runner[<<s, k>>].pc \in {"paying", "record"},
         Marks(k, n, status), Moves(s, k, "next", runner[<<s, k>>].todo \ {n}), RestStays,
         paid' = paid, doubt \subseteq doubt',
         \A q \in Payers : q # <<s, k>> => pay'[q] = pay[q], ~Calling(<<s, k>>)',
         Alone => <<k, n>> \in doubt' \/ (status = "COMPLETED" <=> paid[<<k, n>>] = "moved")
  PROVE  LinesInv'
<1> DEFINE r == <<s, k>>
<1>0. RunnersOK
  BY DEF TablesInv
<1>1. s \in scene.servers /\ r \in Payers /\ n \in DOMAIN settlement[k].lines
  BY <1>0, RunnerIs, RunnersAre
<1>2. /\ runner'[r].pc = "next" /\ runner'[r].todo = runner[r].todo \ {n} /\ scene' = scene
      /\ \A q \in Payers : q # r => runner'[q] = runner[q]
      /\ \A j \in Settlements : j # k => settlement'[j] = settlement[j]
      /\ settlement'[k].status = settlement[k].status
      /\ DOMAIN settlement'[k].lines = DOMAIN settlement[k].lines
      /\ settlement'[k].lines[n].status = status
      /\ \A i \in DOMAIN settlement[k].lines :
           i # n => settlement'[k].lines[i] = settlement[k].lines[i]
  BY DEF Moves, Marks, RestStays
<1>3. Only(s, k)
  BY <1>2 DEF Only
<1>4. /\ DOMAIN settlement'[k].lines = DOMAIN settlement[k].lines
      /\ \A i \in DOMAIN settlement[k].lines : Pends(k, i)' => Pends(k, i) /\ i # n
  BY <1>2 DEF Pends
<1>5. Decides(k)
  BY <1>4 DEF Decides
<1>6. \A i \in DOMAIN settlement[k].lines \ runner[r].todo : ~Pends(k, i)
  BY DEF LinesInv, DecidedInv, DecidedAt, Past
<1>7. DecidedAt(s, k)'
  BY <1>2, <1>4, <1>6 DEF DecidedAt
<1>8. CallAt(s, k)'
  BY <1>2 DEF CallAt
<1>9. IsFinal(k)' => \A i \in DOMAIN settlement'[k].lines : ~Pends(k, i)'
  BY <1>2, <1>4 DEF LinesInv, DecidedInv, IsFinal
<1>10. ASSUME Alone PROVE RunAt(s, k)' /\ LineAt(k)'
  <2>1. /\ settlement[k].status = "PROCESSING" /\ LineAt(k)
        /\ \A i \in DOMAIN settlement[k].lines \ runner[r].todo : Told(k, i)
    BY <1>10 DEF LinesInv, AloneInv, RunAt, Past
  <2>2. Told(k, n)'
    BY <1>2, <1>10 DEF Told, Completed
  <2>3. \A i \in DOMAIN settlement[k].lines : i # n =>
          /\ Completed(k, i)' <=> Completed(k, i)
          /\ Told(k, i) => Told(k, i)'
    BY <1>2 DEF Told, Completed
  <2>4. ~IsFinal(k)'
    BY <1>2, <2>1 DEF IsFinal, Final
  <2>5. RunAt(s, k)'
    BY <1>2, <2>1, <2>2, <2>3 DEF RunAt
  <2>6. \A i \in DOMAIN settlement[k].lines :
          Completed(k, i)' => <<k, i>> \in doubt' \/ paid'[<<k, i>>] = "moved"
    BY <2>1, <2>2, <2>3 DEF LineAt, Told
  <2>7. LineAt(k)'
    BY <1>2, <2>4, <2>6 DEF LineAt
  <2> QED BY <2>5, <2>7
<1> QED BY <1>1, <1>3, <1>5, <1>7, <1>8, <1>9, <1>10, OwnSteps DEF OwnInv

LEMMA RecordResultLines ==
  ASSUME TablesInv, TablesInv', LinesInv, NEW s \in Servers, NEW k \in Settlements,
         RecordResult(s, k)
  PROVE  LinesInv'
<1> DEFINE r == <<s, k>>
           n == FirstOf(r)
<1>0. PayTypeOK /\ RunnersOK /\ LinesOK /\ CallInv
  BY DEF TablesInv, LinesInv
<1>1. /\ runner[r].pc = "paying" /\ pay[r].pc = "answered" /\ n \in runner[r].todo
      /\ Marks(k, n, VerdictOn(pay[r].answer)) /\ Moves(s, k, "next", runner[r].todo \ {n})
      /\ doubt' = IF pay[r].answer \in {"UNCERTAIN", "IN_FLIGHT"}
                  THEN doubt \cup {pay[r].key} ELSE doubt
      /\ pay' = [pay EXCEPT ![r] = FreshPay] /\ paid' = paid /\ RestStays
  BY <1>0, RecordResultIs
<1>2. pay[r].key = <<k, n>>
  BY <1>0, <1>1, CallKey
<1>3. /\ \A q \in Payers : q # r => pay'[q] = pay[q]
      /\ ~Calling(r)'
  <2>1. r \in Payers /\ pay \in [Payers -> PayCall]
    BY <1>0, RunnersAre DEF PayTypeOK
  <2> QED BY <1>1, <2>1 DEF Calling, FreshPay
<1>4. doubt \subseteq doubt' /\ VerdictOn(pay[r].answer) # "PENDING"
  BY <1>1 DEF VerdictOn
<1>5. ASSUME Alone
      PROVE  \/ <<k, n>> \in doubt'
             \/ VerdictOn(pay[r].answer) = "COMPLETED" <=> paid[<<k, n>>] = "moved"
  <2>1. AnswerTrue(pay[r])
    BY <1>1, <1>5 DEF LinesInv, AloneInv, RunAt
  <2> QED BY <1>1, <1>2, <2>1 DEF AnswerTrue, VerdictOn
<1> QED BY <1>1, <1>3, <1>4, <1>5, MarkLines

LEMMA RecordAlreadyPaidLines ==
  ASSUME TablesInv, TablesInv', LinesInv, NEW s \in Servers, NEW k \in Settlements,
         RecordAlreadyPaid(s, k)
  PROVE  LinesInv'
<1> DEFINE r == <<s, k>>
           n == FirstOf(r)
<1>0. RunnersOK /\ LinesOK
  BY DEF TablesInv
<1>1. /\ runner[r].pc = "record" /\ n \in runner[r].todo
      /\ Marks(k, n, "COMPLETED") /\ Moves(s, k, "next", runner[r].todo \ {n})
      /\ doubt' = doubt /\ paid' = paid /\ pay' = pay /\ RestStays
  BY <1>0, RecordAlreadyPaidIs DEF MoneyStays
<1>2. ~Calling(r)'
  BY <1>1 DEF LinesInv, CallInv, CallAt, Calling
<1>3. Alone => paid[<<k, n>>] = "moved"
  BY <1>1 DEF LinesInv, AloneInv, RunAt
<1> QED BY <1>1, <1>2, <1>3, MarkLines

(* Every line is decided when the verdict is written.                       *)
LEMMA FinalizeLines ==
  ASSUME TablesInv, TablesInv', LinesInv, NEW s \in Servers, NEW k \in Settlements, Finalize(s, k)
  PROVE  LinesInv'
<1> DEFINE r == <<s, k>>
<1>0. RunnersOK /\ LinesOK
  BY DEF TablesInv
<1>1. /\ runner[r].pc = "finalize" /\ Moves(s, k, "idle", {})
      /\ scene' = scene /\ MoneyStays /\ doubt' = doubt /\ members' = members
      /\ \/ settlement[k].status = "PROCESSING" /\ debts' = Closed(k) /\ Closes(k)
         \/ settlement[k].status # "PROCESSING" /\ debts' = debts /\ LinesStay
  BY <1>0, FinalizeIs
<1>2. s \in scene.servers /\ r \in Payers /\ runner[r].todo = {}
  BY <1>0, <1>1, RunnerIs, RunnersAre
<1>3. CASE settlement[k].status # "PROCESSING" /\ debts' = debts /\ LinesStay
  BY <1>1, <1>2, <1>3, QuietStep DEF RestStays
<1>4. CASE settlement[k].status = "PROCESSING" /\ Closes(k)
  <2>1. /\ runner'[r].pc = "idle" /\ \A q \in Payers : q # r => runner'[q] = runner[q]
        /\ \A j \in Settlements : j # k => settlement'[j] = settlement[j]
        /\ settlement'[k].lines = settlement[k].lines
        /\ settlement'[k].status = FinalStatus(k)
        /\ settlement'[k].success = Cardinality(Done(k))
        /\ paid' = paid /\ pay' = pay
    BY <1>1, <1>4 DEF Moves, Closes, MoneyStays
  <2>2. Only(s, k) /\ Decides(k)
    BY <1>1, <2>1 DEF Only, Decides, Pends
  <2>3. DecidedAt(s, k)' /\ CallAt(s, k)'
    BY <1>1, <2>1 DEF DecidedAt, Past, CallAt, Calling, LinesInv, CallInv
  <2>4. \A n \in DOMAIN settlement[k].lines : ~Pends(k, n)
    BY <1>1, <1>2 DEF LinesInv, DecidedInv, DecidedAt, Past
  <2>5. \A n \in DOMAIN settlement'[k].lines : ~Pends(k, n)'
    BY <2>1, <2>4 DEF Pends
  <2>6. ASSUME Alone PROVE RunAt(s, k)' /\ LineAt(k)'
    <3>1. LineAt(k) /\ \A n \in DOMAIN settlement[k].lines : Told(k, n)
      BY <1>1, <1>2, <2>6 DEF LinesInv, AloneInv, RunAt, Past
    <3>2. Done(k)' = Done(k)
      BY <2>1 DEF Done
    <3>3. settlement'[k].status = "COMPLETED" <=>
            settlement'[k].success = Len(settlement'[k].lines)
      BY <2>1 DEF FinalStatus
    <3>4. LineAt(k)'
      BY <1>1, <2>1, <3>1, <3>2, <3>3 DEF LineAt, Told, Completed
    <3> QED BY <2>1, <3>4 DEF RunAt, Past
  <2> QED BY <1>2, <2>2, <2>3, <2>5, <2>6, OwnSteps DEF OwnInv
<1> QED BY <1>1, <1>3, <1>4

LEMMA CrashLines ==
  ASSUME TablesInv, TablesInv', LinesInv, NEW s \in Servers, NEW k \in Settlements, Crash(s, k)
  PROVE  LinesInv'
<1> DEFINE r == <<s, k>>
<1>0. RunnersOK /\ PayTypeOK
  BY DEF TablesInv
<1>1. /\ runner[r].pc # "idle" /\ Moves(s, k, "idle", {})
      /\ scene' = scene /\ settlement' = settlement /\ doubt' = doubt
      /\ paid' = paid /\ ~Calling(r)' /\ \A q \in Payers : q # r => pay'[q] = pay[q]
  BY <1>0, CrashIs DEF RestStays, LinesStay
<1>2. /\ s \in scene.servers /\ runner'[r].pc = "idle"
      /\ \A q \in Payers : q # r => runner'[q] = runner[q]
  BY <1>0, <1>1, RunnerIs DEF Moves
<1>3. Only(s, k) /\ Decides(k)
  BY <1>1, <1>2 DEF Only, Decides, Pends
<1>4. DecidedAt(s, k)' /\ CallAt(s, k)'
  BY <1>1, <1>2 DEF DecidedAt, Past, CallAt
<1>5. IsFinal(k)' => \A n \in DOMAIN settlement'[k].lines : ~Pends(k, n)'
  BY <1>1 DEF LinesInv, DecidedInv, IsFinal, Pends
<1>6. ASSUME Alone PROVE RunAt(s, k)' /\ LineAt(k)'
  <2>1. LineAt(k)'
    BY <1>1, <1>6 DEF LinesInv, AloneInv, LineAt, Completed, Told, IsFinal, Done
  <2> QED BY <1>2, <2>1 DEF RunAt, Past
<1> QED BY <1>2, <1>3, <1>4, <1>5, <1>6, OwnSteps DEF OwnInv

LEMMA UserLines ==
  ASSUME TablesInv, LinesInv, UserNext
  PROVE  LinesInv'
<1>1. UNCHANGED <<settlement, runner, doubt, paid, pay>> /\ scene'.servers = scene.servers
  <2>1. ASSUME NEW u \in scene.joiners, AddMember(u)
        PROVE  UNCHANGED <<settlement, runner, doubt, paid, pay>> /\ scene'.servers = scene.servers
    BY <2>1 DEF AddMember, payVars
  <2>2. ASSUME NEW edges, NEW kind, Recorded(edges, kind)
        PROVE  UNCHANGED <<settlement, runner, doubt, paid, pay>> /\ scene'.servers = scene.servers
    <3>1. scene' = [scene EXCEPT !.more = @ - 1] /\ scene \in SceneRow
      BY <2>2 DEF Recorded, TablesInv, SceneOK
    <3>2. scene'.servers = scene.servers
      BY <3>1 DEF SceneRow
    <3> QED BY <2>2, <3>2 DEF Recorded, payVars
  <2>3. ASSUME NEW e \in scene.debts, AddDebt(e)
        PROVE  UNCHANGED <<settlement, runner, doubt, paid, pay>> /\ scene'.servers = scene.servers
    BY <2>2, <2>3 DEF AddDebt
  <2>4. ASSUME NEW x \in scene.expenses, AddExpense(x)
        PROVE  UNCHANGED <<settlement, runner, doubt, paid, pay>> /\ scene'.servers = scene.servers
    BY <2>2, <2>4 DEF AddExpense
  <2>5. CASE Preview
    BY <2>5 DEF Preview, payVars
  <2> QED BY <2>1, <2>3, <2>4, <2>5 DEF UserNext
<1> QED BY <1>1, LinesUntouched

LEMMA InitLines ==
  ASSUME SettlementInit
  PROVE  LinesInv
<1>0. /\ settlement = [k \in Settlements |-> NoSettlement] /\ runner = [r \in Payers |-> Idle]
      /\ pay = [c \in Payers |-> FreshPay]
  BY DEF SettlementInit, PayInit
<1>1. \A k \in Settlements : settlement[k].status = "NONE" /\ DOMAIN settlement[k].lines = {}
  BY <1>0 DEF NoSettlement
<1>2. \A s \in Servers, k \in Settlements :
        runner[<<s, k>>].pc = "idle" /\ ~Calling(<<s, k>>)
  BY <1>0, RunnersAre DEF Idle, Calling, FreshPay
<1>3. DecidedInv /\ CallInv
  BY <1>1, <1>2 DEF DecidedInv, DecidedAt, Past, CallInv, CallAt
<1>4. AloneInv
  BY <1>1, <1>2 DEF AloneInv, RunAt, LineAt, Past, IsFinal, Final
<1> QED BY <1>3, <1>4 DEF LinesInv

LEMMA NextLines ==
  ASSUME TablesInv, TablesInv', LinesInv, [SettlementNext]_settleVars
  PROVE  LinesInv'
<1>1. CASE UserNext
  BY <1>1, UserLines
<1>2. ASSUME NEW s \in Servers, NEW k \in Settlements,
             Settle(s, k) \/ Resume(s, k) \/ Run(s, k) \/ Crash(s, k)
      PROVE  LinesInv'
  BY <1>2, SettleLines, ResumeLines, ReadStatusLines, ReadLinesLines, NextLineLines,
     PayingLines, RecordResultLines, RecordAlreadyPaidLines, FinalizeLines, CrashLines DEF Run
<1>3. CASE UNCHANGED settleVars
  BY <1>3, LinesUntouched DEF settleVars
<1> QED BY <1>1, <1>2, <1>3 DEF SettlementNext

LEMMA LinesFollow ==
  ASSUME TablesInv, LinesInv
  PROVE  LinesAreTrue
<1>1. ASSUME NEW k \in Settlements, IsFinal(k)
      PROVE  /\ Cardinality({n \in DOMAIN settlement[k].lines :
                               settlement[k].lines[n].status = "PENDING"}) = 0
             /\ Alone =>
                  /\ settlement[k].success =
                       Cardinality({n \in DOMAIN settlement[k].lines :
                                      settlement[k].lines[n].status = "COMPLETED"})
                  /\ settlement[k].status = "COMPLETED" <=>
                       settlement[k].success = Len(settlement[k].lines)
                  /\ \A n \in DOMAIN settlement[k].lines : Told(k, n)
  <2>1. {n \in DOMAIN settlement[k].lines : settlement[k].lines[n].status = "PENDING"} = {}
    BY <1>1 DEF LinesInv, DecidedInv, Pends
  <2>2. Alone => LineAt(k)
    BY DEF LinesInv, AloneInv
  <2> QED BY <1>1, <2>1, <2>2, FS_EmptySet DEF LineAt, Done
<1>2. EveryLineDecided
  BY <1>1 DEF EveryLineDecided, Result, SettlementPage
<1>3. LinesTellTheTruth
  BY <1>1 DEF LinesTellTheTruth, Told, Completed
<1> QED BY <1>2, <1>3 DEF LinesAreTrue

LEMMA LinesAlways == SettlementSpec => [](TablesInv /\ LinesInv)
<1>1. SettlementInit => TablesInv /\ LinesInv
  BY InitTables, InitLines
<1>2. TablesInv /\ LinesInv /\ [SettlementNext]_settleVars => (TablesInv /\ LinesInv)'
  BY NextTables, NextLines
<1> QED BY <1>1, <1>2, PTL DEF SettlementSpec

(* A settlement is final only when each of its lines is decided, whatever   *)
(* crashes and overlaps there were; with one server each line says what     *)
(* happened to the money, and the card's "n of m" is what the lines say.    *)
THEOREM SettlementLinesAreTrue == SettlementSpec => []LinesAreTrue
<1>1. TablesInv /\ LinesInv => LinesAreTrue
  BY LinesFollow
<1> QED BY <1>1, LinesAlways, PTL

-------------------------------------------------------------------------------
(* What a runner leaves alone *)

(* Nothing of settlement j changes, nor does its money move.                *)
Rests(j) ==
  /\ settlement'[j] = settlement[j]
  /\ \A n \in DOMAIN settlement[j].lines : paid'[<<j, n>>] = paid[<<j, n>>]

LEMMA OthersRest ==
  ASSUME LinesOK, NEW k \in Settlements, NEW j \in Settlements, j # k,
         settlement'[j] = settlement[j], \A key \in PayKeys : key[1] # k => paid'[key] = paid[key]
  PROVE  Rests(j)
<1>1. \A n \in DOMAIN settlement[j].lines : <<j, n>> \in PayKeys /\ <<j, n>>[1] # k
  BY DEF LinesOK
<1> QED BY <1>1 DEF Rests

(* A step of a runner changes nothing of other settlements, does not begin  *)
(* one, and with one server changes nothing of a finished one.              *)
LEMMA RunRests ==
  ASSUME TablesInv, LinesInv, NEW s \in Servers, NEW k \in Settlements,
         Resume(s, k) \/ Run(s, k) \/ Crash(s, k)
  PROVE  /\ \A j \in Settlements : j # k => Rests(j)
         /\ settlement[k].status = "NONE" => settlement'[k].status = "NONE"
         /\ Alone /\ IsFinal(k) => Rests(k)
<1> DEFINE r == <<s, k>>
<1>0. LinesOK /\ RunnersOK /\ PayTypeOK /\ CallInv
  BY DEF TablesInv, LinesInv
<1>1. CASE settlement' = settlement /\ paid' = paid
  BY <1>1 DEF Rests
<1>2. CASE Resume(s, k)
  BY <1>1, <1>2, <1>0, ResumeIs DEF LinesStay, MoneyStays
<1>3. CASE ReadStatus(s, k)
  BY <1>1, <1>3, <1>0, ReadStatusIs DEF LinesStay, MoneyStays
<1>4. CASE ReadLines(s, k)
  BY <1>1, <1>4, <1>0, ReadLinesIs DEF LinesStay, MoneyStays
<1>5. CASE NextLine(s, k)
  <2>1. settlement' = settlement /\ runner[r].pc = "next" /\ r \in Payers
    BY <1>0, <1>5, NextLineIs, RunnersAre DEF LinesStay
  <2>2. runner[r].todo # {} => <<k, FirstOf(r)>> \in PayKeys
    BY <1>0, FirstIs
  <2>3. paid' = paid
    BY <1>0, <1>5, <2>1, <2>2, NextLineIs, BeginPayIs DEF MoneyStays
  <2> QED BY <1>1, <2>1, <2>3
<1>6. CASE Crash(s, k)
  BY <1>1, <1>6, <1>0, CrashIs DEF LinesStay
<1>7. ASSUME Alone, Past(r) PROVE settlement[k].status = "PROCESSING" /\ ~IsFinal(k)
  BY <1>7 DEF LinesInv, AloneInv, RunAt, Past, IsFinal, Final
<1>8. CASE Paying(s, k)
  <2>1. settlement' = settlement /\ runner[r].pc = "paying" /\ StepPay(r) /\ r \in Payers
    BY <1>8, RunnersAre DEF Paying
  <2>2. pay[r].key = <<k, FirstOf(r)>> /\ pay[r].key \in PayKeys
    BY <1>0, <2>1, CallKey
  <2>3. \A key \in PayKeys : key[1] # k => paid'[key] = paid[key]
    BY <1>0, <2>1, <2>2, StepPayIs
  <2>4. \A j \in Settlements : j # k => Rests(j)
    BY <1>0, <2>1, <2>3, OthersRest
  <2> QED BY <1>7, <2>1, <2>4 DEF Past
<1>9. ASSUME NEW n, NEW status, Marks(k, n, status), paid' = paid, Past(r)
      PROVE  /\ \A j \in Settlements : j # k => Rests(j)
             /\ settlement[k].status = "NONE" => settlement'[k].status = "NONE"
             /\ Alone /\ IsFinal(k) => Rests(k)
  BY <1>7, <1>9 DEF Marks, Rests
<1>10. CASE RecordResult(s, k)
  BY <1>0, <1>9, <1>10, RecordResultIs DEF Past
<1>11. CASE RecordAlreadyPaid(s, k)
  BY <1>0, <1>9, <1>11, RecordAlreadyPaidIs DEF Past, MoneyStays
<1>12. CASE Finalize(s, k)
  <2>1. CASE LinesStay
    BY <1>0, <1>1, <1>12, <2>1, FinalizeIs DEF LinesStay, MoneyStays
  <2>2. CASE settlement[k].status = "PROCESSING" /\ Closes(k)
    <3>1. paid' = paid
      BY <1>0, <1>12, FinalizeIs DEF MoneyStays
    <3> QED BY <2>2, <3>1 DEF Closes, Rests, IsFinal, Final
  <2> QED BY <1>0, <1>12, <2>1, <2>2, FinalizeIs
<1> QED BY <1>2, <1>3, <1>4, <1>5, <1>6, <1>8, <1>10, <1>11, <1>12 DEF Run

-------------------------------------------------------------------------------
(* The books *)

(* What some of the debts, or of the lines of a plan, come to for a member. *)
DebtSum(rows, ids, m) == SumOf([i \in DOMAIN rows |-> Part(rows[i], m)], ids)
LineSum(lines, ids, m) == SumOf([n \in DOMAIN lines |-> LinePart(lines[n], m)], ids)

Live == {i \in DOMAIN debts : debts[i].status \in {"PENDING", "PROCESSING"}}
Typed == {i \in DOMAIN debts : debts[i].kind # "SETTLEMENT_PAYMENT"}
PaidOff(m) == [k \in Settlements |-> LineSum(settlement[k].lines, Done(k), m)]

(* The lines of a settlement pay its debts exactly.                         *)
Clears(k) ==
  settlement[k].status = "PROCESSING" => \A m \in Int :
    DebtSum(debts, DebtsOf(k), m) + LineSum(settlement[k].lines, DOMAIN settlement[k].lines, m) = 0
PlanInv == \A k \in Settlements : Clears(k)
BooksInv ==
  Alone => \A m \in Int :
    DebtSum(debts, Live, m) = DebtSum(debts, Typed, m) + SumOf(PaidOff(m), Counted)

(* Rows that can be added up.                                               *)
Rows(rows) == IsFiniteSet(DOMAIN rows) /\ \A i \in DOMAIN rows : rows[i].amount \in Int
(* Rows of another sequence that count for as much.                         *)
SameDebts(new, old, ids) ==
  \A i \in ids :
    /\ i \in DOMAIN old /\ i \in DOMAIN new
    /\ new[i].debtor = old[i].debtor /\ new[i].creditor = old[i].creditor
    /\ new[i].amount = old[i].amount
SameLegs(new, old, ids) ==
  \A i \in ids :
    /\ i \in DOMAIN old /\ i \in DOMAIN new
    /\ new[i].from = old[i].from /\ new[i].to = old[i].to /\ new[i].amount = old[i].amount

LEMMA DebtSumType ==
  ASSUME NEW rows, Rows(rows), NEW ids \in SUBSET DOMAIN rows, NEW m
  PROVE  DebtSum(rows, ids, m) \in Int /\ IsFiniteSet(ids)
<1> DEFINE g == [i \in DOMAIN rows |-> Part(rows[i], m)]
<1>1. IsFiniteSet(ids)
  BY FS_Subset DEF Rows
<1>2. \A i \in ids : g[i] \in Int
  BY DEF Rows, Part
<1> HIDE DEF g
<1>3. SumOf(g, ids) \in Int
  BY <1>1, <1>2, SumType
<1> QED BY <1>1, <1>3 DEF DebtSum, g

LEMMA LineSumType ==
  ASSUME NEW rows, Rows(rows), NEW ids \in SUBSET DOMAIN rows, NEW m
  PROVE  LineSum(rows, ids, m) \in Int /\ IsFiniteSet(ids)
<1> DEFINE g == [i \in DOMAIN rows |-> LinePart(rows[i], m)]
<1>1. IsFiniteSet(ids)
  BY FS_Subset DEF Rows
<1>2. \A i \in ids : g[i] \in Int
  BY DEF Rows, LinePart
<1> HIDE DEF g
<1>3. SumOf(g, ids) \in Int
  BY <1>1, <1>2, SumType
<1> QED BY <1>1, <1>3 DEF LineSum, g

LEMMA DebtSumUnion ==
  ASSUME NEW rows, Rows(rows), NEW A \in SUBSET DOMAIN rows, NEW B \in SUBSET DOMAIN rows,
         A \cap B = {}, NEW m
  PROVE  DebtSum(rows, A \cup B, m) = DebtSum(rows, A, m) + DebtSum(rows, B, m)
<1> DEFINE g == [i \in DOMAIN rows |-> Part(rows[i], m)]
<1>1. IsFiniteSet(A) /\ IsFiniteSet(B)
  BY FS_Subset DEF Rows
<1>2. \A i \in A \cup B : g[i] \in Int
  BY DEF Rows, Part
<1> HIDE DEF g
<1>3. SumOf(g, A \cup B) = SumOf(g, A) + SumOf(g, B)
  BY <1>1, <1>2, SumUnion
<1> QED BY <1>3 DEF DebtSum, g

LEMMA DebtSumSame ==
  ASSUME NEW new, NEW old, Rows(old), NEW ids \in SUBSET DOMAIN old, SameDebts(new, old, ids), NEW m
  PROVE  DebtSum(new, ids, m) = DebtSum(old, ids, m)
<1> DEFINE g == [i \in DOMAIN old |-> Part(old[i], m)]
           h == [i \in DOMAIN new |-> Part(new[i], m)]
<1>1. IsFiniteSet(ids)
  BY FS_Subset DEF Rows
<1>2. \A i \in ids : g[i] \in Int /\ h[i] = g[i]
  BY DEF Rows, Part, SameDebts
<1> HIDE DEF g, h
<1>3. SumOf(g, ids) = SumOf(h, ids)
  BY <1>1, <1>2, SumEqual
<1> QED BY <1>3 DEF DebtSum, g, h

LEMMA LineSumSame ==
  ASSUME NEW new, NEW old, Rows(old), NEW ids \in SUBSET DOMAIN old, SameLegs(new, old, ids), NEW m
  PROVE  LineSum(new, ids, m) = LineSum(old, ids, m)
<1> DEFINE g == [i \in DOMAIN old |-> LinePart(old[i], m)]
           h == [i \in DOMAIN new |-> LinePart(new[i], m)]
<1>1. IsFiniteSet(ids)
  BY FS_Subset DEF Rows
<1>2. \A i \in ids : g[i] \in Int /\ h[i] = g[i]
  BY DEF Rows, LinePart, SameLegs
<1> HIDE DEF g, h
<1>3. SumOf(g, ids) = SumOf(h, ids)
  BY <1>1, <1>2, SumEqual
<1> QED BY <1>3 DEF LineSum, g, h

(* The order in which the rows come does not change the balances.           *)
LEMMA NetInOrder ==
  ASSUME NEW rows, Rows(rows), NEW ids \in SUBSET DOMAIN rows, NEW order \in SetToSeqs(ids),
         NEW edges, edges = [i \in DOMAIN order |-> rows[order[i]]], NEW m
  PROVE  NetOf(edges, m) = DebtSum(rows, ids, m)
<1> DEFINE g == [i \in DOMAIN rows |-> Part(rows[i], m)]
           h == [i \in DOMAIN edges |-> Part(edges[i], m)]
<1>1. IsFiniteSet(ids)
  BY FS_Subset DEF Rows
<1>2. PICK n \in Nat : Enumerates(order, n, ids) /\ order \in [1..n -> ids]
  BY <1>1, OrderIs DEF Enumerates
<1>3. \A i \in ids : g[i] \in Int
  BY DEF Rows, Part
<1>4. DOMAIN edges = 1..n /\ \A i \in 1..n : edges[i] = rows[order[i]] /\ order[i] \in ids
  BY <1>2
<1>5. \A i \in 1..n : h[i] = g[order[i]]
  BY <1>4
<1>6. /\ IsFiniteSet(DOMAIN edges) /\ \A i \in DOMAIN edges : edges[i].amount \in Int
  BY <1>4, FS_Interval DEF Rows
<1>7. NetOf(edges, m) = SumOf(h, 1..n)
  BY <1>4, <1>6, NetIsSum
<1> HIDE DEF g, h
<1>8. SumOf(h, 1..n) = SumOf(g, ids)
  BY <1>2, <1>3, <1>5, SumEnumerated
<1> QED BY <1>7, <1>8 DEF DebtSum, g

(* The payments of a settlement, as debts, come to what its lines did.      *)
LEMMA PaymentsSum ==
  ASSUME NEW lines, Rows(lines), NEW n \in Nat, NEW done, NEW ids \in SUBSET DOMAIN lines,
         Enumerates(done, n, ids),
         NEW made, DOMAIN made = 1..n,
         \A i \in 1..n : /\ made[i].debtor = lines[done[i]].to
                         /\ made[i].creditor = lines[done[i]].from
                         /\ made[i].amount = lines[done[i]].amount,
         NEW m
  PROVE  DebtSum(made, 1..n, m) = LineSum(lines, ids, m)
<1> DEFINE g == [i \in DOMAIN lines |-> LinePart(lines[i], m)]
           h == [i \in DOMAIN made |-> Part(made[i], m)]
<1>1. \A i \in ids : g[i] \in Int
  BY DEF Rows, LinePart
<1>2. \A i \in 1..n : done[i] \in DOMAIN lines
  BY DEF Enumerates
<1>3. \A i \in 1..n : h[i] = g[done[i]]
  BY <1>2 DEF Part, LinePart
<1> HIDE DEF g, h
<1>4. SumOf(h, 1..n) = SumOf(g, ids)
  BY <1>1, <1>3, SumEnumerated
<1> QED BY <1>4 DEF DebtSum, LineSum, g, h

LEMMA RowsAre ==
  ASSUME DebtsOK, LinesOK
  PROVE  /\ Rows(debts)
         /\ Live \in SUBSET DOMAIN debts /\ Typed \in SUBSET DOMAIN debts
         /\ Pending \in SUBSET DOMAIN debts
         /\ \A k \in Settlements :
              /\ Rows(settlement[k].lines)
              /\ Done(k) \in SUBSET DOMAIN settlement[k].lines
              /\ DebtsOf(k) \in SUBSET DOMAIN debts
         /\ IsFiniteSet(Counted) /\ Counted \in SUBSET Settlements
<1>1. Rows(debts)
  <2>1. /\ DOMAIN debts = 1..Len(debts) /\ Len(debts) \in Nat
        /\ \A i \in DOMAIN debts : debts[i] \in DebtRow
    BY DEF DebtsOK
  <2>2. \A d \in DebtRow : d.amount \in Int
    BY DEF DebtRow
  <2>3. IsFiniteSet(DOMAIN debts)
    BY <2>1, FS_Interval
  <2> QED BY <2>1, <2>2, <2>3 DEF Rows
<1>2. ASSUME NEW k \in Settlements PROVE Rows(settlement[k].lines)
  <2>1. PICK lines \in Seq(LineRow) : lines = settlement[k].lines
    BY DEF LinesOK, SettlementRow
  <2>2. /\ DOMAIN lines = 1..Len(lines) /\ Len(lines) \in Nat
        /\ \A i \in DOMAIN lines : lines[i] \in LineRow
    OBVIOUS
  <2>3. \A l \in LineRow : l.amount \in Int
    BY DEF LineRow
  <2>4. IsFiniteSet(DOMAIN lines)
    BY <2>2, FS_Interval
  <2> QED BY <2>1, <2>2, <2>3, <2>4 DEF Rows
<1>3. IsFiniteSet(Counted) /\ Counted \in SUBSET Settlements
  <2>1. Counted \in SUBSET Settlements
    BY DEF Counted
  <2> QED BY <2>1, SettlementAssumption, FS_Subset
<1> QED BY <1>1, <1>2, <1>3 DEF Live, Typed, Pending, Done, DebtsOf

(* What the settlements that are counted have paid.                         *)
LEMMA PaidOffType ==
  ASSUME DebtsOK, LinesOK, NEW m
  PROVE  \A k \in Settlements : PaidOff(m)[k] = LineSum(settlement[k].lines, Done(k), m)
                                /\ PaidOff(m)[k] \in Int
<1> SUFFICES ASSUME NEW k \in Settlements
             PROVE  /\ PaidOff(m)[k] = LineSum(settlement[k].lines, Done(k), m)
                    /\ PaidOff(m)[k] \in Int
  OBVIOUS
<1>1. PaidOff(m)[k] = LineSum(settlement[k].lines, Done(k), m)
  BY DEF PaidOff
<1>2. LineSum(settlement[k].lines, Done(k), m) \in Int
  BY RowsAre, LineSumType
<1> QED BY <1>1, <1>2

LEMMA PaidOffSame ==
  ASSUME DebtsOK, LinesOK, NEW m, \A k \in Counted : settlement'[k].lines = settlement[k].lines
  PROVE  /\ SumOf(PaidOff(m)', Counted) = SumOf(PaidOff(m), Counted)
         /\ SumOf(PaidOff(m), Counted) \in Int
         /\ \A k \in Counted : PaidOff(m)'[k] = PaidOff(m)[k] /\ PaidOff(m)[k] \in Int
<1>0. IsFiniteSet(Counted) /\ Counted \subseteq Settlements
  BY RowsAre
<1>1. ASSUME NEW k \in Counted PROVE PaidOff(m)[k] \in Int /\ PaidOff(m)'[k] = PaidOff(m)[k]
  <2>1. PaidOff(m)[k] \in Int /\ k \in Settlements
    BY <1>0, PaidOffType
  <2>2. Done(k)' = Done(k) /\ settlement'[k].lines = settlement[k].lines
    BY DEF Done
  <2>3. PaidOff(m)'[k] = LineSum(settlement'[k].lines, Done(k)', m)
    BY <2>1 DEF PaidOff
  <2>4. PaidOff(m)[k] = LineSum(settlement[k].lines, Done(k), m)
    BY <2>1, PaidOffType
  <2> QED BY <2>1, <2>2, <2>3, <2>4
<1>2. PICK f : f = PaidOff(m)
  OBVIOUS
<1>3. PICK g : g = PaidOff(m)'
  OBVIOUS
<1>4. SumOf(f, Counted) = SumOf(g, Counted) /\ SumOf(f, Counted) \in Int
  BY <1>0, <1>1, <1>2, <1>3, SumEqual, SumType
<1> QED BY <1>1, <1>2, <1>3, <1>4

(* Steps that record nothing: the debts stay, and the lines come to what    *)
(* they did.                                                                *)
QuietBooks ==
  /\ debts' = debts /\ scene'.servers = scene.servers
  /\ \A k \in Settlements :
       /\ settlement'[k].status = settlement[k].status
       /\ DOMAIN settlement'[k].lines = DOMAIN settlement[k].lines
       /\ SameLegs(settlement'[k].lines, settlement[k].lines, DOMAIN settlement[k].lines)
  /\ Alone => \A k \in Settlements : IsFinal(k) => Rests(k)

LEMMA BooksStay ==
  ASSUME TablesInv, PlanInv, BooksInv, QuietBooks
  PROVE  PlanInv' /\ BooksInv'
<1>0. DebtsOK /\ LinesOK
  BY DEF TablesInv
<1>1. ASSUME NEW k \in Settlements PROVE Clears(k)'
  <2> SUFFICES ASSUME settlement'[k].status = "PROCESSING", NEW m \in Int
               PROVE  DebtSum(debts', DebtsOf(k)', m)
                        + LineSum(settlement'[k].lines, DOMAIN settlement'[k].lines, m) = 0
    BY DEF Clears
  <2>1. /\ settlement[k].status = "PROCESSING" /\ debts' = debts /\ DebtsOf(k)' = DebtsOf(k)
        /\ DOMAIN settlement'[k].lines = DOMAIN settlement[k].lines
        /\ SameLegs(settlement'[k].lines, settlement[k].lines, DOMAIN settlement[k].lines)
    BY DEF QuietBooks, DebtsOf
  <2>2. DebtSum(debts, DebtsOf(k), m)
          + LineSum(settlement[k].lines, DOMAIN settlement[k].lines, m) = 0
    BY <2>1 DEF PlanInv, Clears
  <2>3. LineSum(settlement'[k].lines, DOMAIN settlement[k].lines, m)
          = LineSum(settlement[k].lines, DOMAIN settlement[k].lines, m)
    BY <1>0, <2>1, RowsAre, LineSumSame
  <2> QED BY <2>1, <2>2, <2>3
<1>2. ASSUME Alone', NEW m \in Int
      PROVE  DebtSum(debts, Live, m)' = DebtSum(debts, Typed, m)' + SumOf(PaidOff(m), Counted)'
  <2>1. Alone /\ debts' = debts /\ Live' = Live /\ Typed' = Typed
    BY <1>2 DEF QuietBooks, Live, Typed, Alone
  <2>2. Counted' = Counted /\ \A k \in Counted : settlement'[k].lines = settlement[k].lines
    BY <2>1 DEF QuietBooks, Counted, Rests, IsFinal, Final
  <2>3. SumOf(PaidOff(m)', Counted) = SumOf(PaidOff(m), Counted)
    BY <1>0, <2>2, PaidOffSame
  <2>4. DebtSum(debts, Live, m) = DebtSum(debts, Typed, m) + SumOf(PaidOff(m), Counted)
    BY <2>1 DEF BooksInv
  <2> QED BY <2>1, <2>2, <2>3, <2>4
<1> QED BY <1>1, <1>2 DEF PlanInv, BooksInv

(* New debts are owed and recorded at once.                                 *)
LEMMA BooksGrow ==
  ASSUME TablesInv, PlanInv, BooksInv, settlement' = settlement, scene'.servers = scene.servers,
         NEW more \in Seq(DebtRow), debts' = debts \o more,
         \A i \in DOMAIN more : more[i].status = "PENDING" /\ more[i].kind # "SETTLEMENT_PAYMENT"
  PROVE  PlanInv' /\ BooksInv'
<1> DEFINE added == DOMAIN debts' \ DOMAIN debts
<1>0. DebtsOK /\ LinesOK /\ debts \in Seq(DebtRow)
  BY DEF TablesInv, DebtsOK
<1>1. PICK new \in Seq(DebtRow) : new = debts' /\ new = debts \o more
  BY <1>0, JoinedIs
<1>2. /\ DOMAIN debts \subseteq DOMAIN debts' /\ \A i \in DOMAIN debts : debts'[i] = debts[i]
      /\ \A i \in added : debts'[i].status = "PENDING" /\ debts'[i].kind # "SETTLEMENT_PAYMENT"
  <2>1. /\ DOMAIN debts = 1..Len(debts) /\ DOMAIN new = 1..(Len(debts) + Len(more))
        /\ Len(debts) \in Nat /\ Len(more) \in Nat
        /\ \A i \in DOMAIN debts : new[i] = debts[i]
        /\ \A i \in DOMAIN new \ DOMAIN debts :
             i - Len(debts) \in DOMAIN more /\ new[i] = more[i - Len(debts)]
    BY <1>0, <1>1, JoinedIs
  <2> QED BY <1>1, <2>1
<1>3. Rows(debts')
  <2>1. DOMAIN new = 1..Len(new) /\ Len(new) \in Nat /\ \A i \in DOMAIN new : new[i] \in DebtRow
    OBVIOUS
  <2>2. \A d \in DebtRow : d.amount \in Int
    BY DEF DebtRow
  <2>3. IsFiniteSet(DOMAIN new)
    BY <2>1, FS_Interval
  <2> QED BY <1>1, <2>1, <2>2, <2>3 DEF Rows
<1>4. /\ Live' = Live \cup added /\ Typed' = Typed \cup added
      /\ \A k \in Settlements : DebtsOf(k)' = DebtsOf(k)
      /\ Live \subseteq DOMAIN debts /\ Typed \subseteq DOMAIN debts
      /\ \A k \in Settlements : DebtsOf(k) \subseteq DOMAIN debts
  BY <1>2 DEF Live, Typed, DebtsOf
<1>5. ASSUME NEW ids \in SUBSET DOMAIN debts, NEW m
      PROVE  /\ DebtSum(debts', ids, m) = DebtSum(debts, ids, m)
             /\ DebtSum(debts, ids, m) \in Int
             /\ DebtSum(debts', added, m) \in Int
             /\ DebtSum(debts', ids \cup added, m)
                  = DebtSum(debts, ids, m) + DebtSum(debts', added, m)
  <2>1. SameDebts(debts', debts, ids)
    BY <1>2 DEF SameDebts
  <2>2. Rows(debts)
    BY <1>0, RowsAre
  <2>3. DebtSum(debts', ids, m) = DebtSum(debts, ids, m) /\ DebtSum(debts, ids, m) \in Int
    BY <2>1, <2>2, DebtSumSame, DebtSumType
  <2>4. added \in SUBSET DOMAIN debts' /\ ids \in SUBSET DOMAIN debts' /\ ids \cap added = {}
    BY <1>2
  <2> HIDE DEF added
  <2>5. DebtSum(debts', ids \cup added, m) = DebtSum(debts', ids, m) + DebtSum(debts', added, m)
    BY <1>3, <2>4, DebtSumUnion
  <2>6. DebtSum(debts', added, m) \in Int
    BY <1>3, <2>4, DebtSumType
  <2> QED BY <2>3, <2>5, <2>6
<1> HIDE DEF added
<1>6. ASSUME NEW k \in Settlements PROVE Clears(k)'
  <2>1. /\ DebtsOf(k)' = DebtsOf(k) /\ DebtsOf(k) \in SUBSET DOMAIN debts
        /\ settlement'[k] = settlement[k]
    BY <1>4
  <2>2. \A m : DebtSum(debts', DebtsOf(k), m) = DebtSum(debts, DebtsOf(k), m)
    BY <1>5, <2>1
  <2> QED BY <2>1, <2>2 DEF PlanInv, Clears
<1>7. ASSUME Alone', NEW m \in Int
      PROVE  DebtSum(debts, Live, m)' = DebtSum(debts, Typed, m)' + SumOf(PaidOff(m), Counted)'
  <2>1. Alone /\ Counted' = Counted
    BY <1>7 DEF Alone, Counted
  <2>2. /\ SumOf(PaidOff(m)', Counted) = SumOf(PaidOff(m), Counted)
        /\ SumOf(PaidOff(m), Counted) \in Int
    BY <1>0, PaidOffSame
  <2>3. DebtSum(debts, Live, m) = DebtSum(debts, Typed, m) + SumOf(PaidOff(m), Counted)
    BY <2>1 DEF BooksInv
  <2>4. /\ DebtSum(debts', Live \cup added, m)
             = DebtSum(debts, Live, m) + DebtSum(debts', added, m)
        /\ DebtSum(debts', Typed \cup added, m)
             = DebtSum(debts, Typed, m) + DebtSum(debts', added, m)
        /\ DebtSum(debts', added, m) \in Int /\ DebtSum(debts, Typed, m) \in Int
        /\ DebtSum(debts, Live, m) \in Int
    BY <1>4, <1>5
  <2> QED BY <1>4, <2>1, <2>2, <2>3, <2>4
<1> QED BY <1>6, <1>7 DEF PlanInv, BooksInv

LEMMA RecordedBooks ==
  ASSUME TablesInv, PlanInv, BooksInv, NEW edges, IsFiniteSet(edges),
         NEW kind \in {"DEBT", "EXPENSE_SHARE"},
         Recorded(edges, kind),
         \A e \in edges :
           /\ e.debtor \in members /\ e.creditor \in members /\ e.debtor # e.creditor
           /\ e.amount \in Nat /\ e.amount > 0
  PROVE  PlanInv' /\ BooksInv'
<1> DEFINE more == [i \in DOMAIN SetToSeq(edges) |-> NewDebt(SetToSeq(edges)[i], kind)]
<1>1. /\ settlement' = settlement /\ debts' = debts \o more
      /\ scene' = [scene EXCEPT !.more = @ - 1]
  BY DEF Recorded, Insert
<1>2. scene'.servers = scene.servers
  BY <1>1 DEF TablesInv, SceneOK, SceneRow
<1>3. DebtsOK /\ kind \in Kind
  BY DEF TablesInv, Kind
<1>4. /\ more \in Seq(DebtRow)
      /\ \A i \in DOMAIN more : more[i].status = "PENDING" /\ more[i].kind = kind
  BY <1>3, InsertIs
<1> HIDE DEF more
<1> QED BY <1>1, <1>2, <1>3, <1>4, BooksGrow

LEMMA UserBooks ==
  ASSUME TablesInv, PlanInv, BooksInv, UserNext
  PROVE  PlanInv' /\ BooksInv'
<1>0. SceneOK
  BY DEF TablesInv
<1>1. ASSUME debts' = debts, settlement' = settlement, paid' = paid, scene' = scene
      PROVE  PlanInv' /\ BooksInv'
  <2>1. DebtsOK /\ LinesOK
    BY DEF TablesInv
  <2>2. QuietBooks
    BY <1>1, <2>1 DEF QuietBooks, SameLegs, Rests
  <2> QED BY <2>2, BooksStay
<1>2. ASSUME NEW u \in scene.joiners, AddMember(u) PROVE PlanInv' /\ BooksInv'
  BY <1>1, <1>2 DEF AddMember, payVars
<1>3. ASSUME NEW e \in scene.debts, AddDebt(e) PROVE PlanInv' /\ BooksInv'
  <2>1. PICK edges : edges = {TypedEdge(e)}
    OBVIOUS
  <2>2. /\ Recorded(edges, "DEBT") /\ IsFiniteSet(edges)
        /\ \A d \in edges :
             /\ d.debtor \in members /\ d.creditor \in members /\ d.debtor # d.creditor
             /\ d.amount \in Nat /\ d.amount > 0
    BY <1>0, <1>3, <2>1, DebtForms
  <2> QED BY <2>2, RecordedBooks
<1>4. ASSUME NEW x \in scene.expenses, AddExpense(x) PROVE PlanInv' /\ BooksInv'
  BY <1>0, <1>4, ExpenseForms, RecordedBooks
<1>5. CASE Preview
  BY <1>1, <1>5 DEF Preview, payVars
<1> QED BY <1>2, <1>3, <1>4, <1>5 DEF UserNext

(* The steps of a runner but its last record nothing.                       *)
LEMMA RunQuiet ==
  ASSUME TablesInv, LinesInv, NEW s \in Servers, NEW k \in Settlements,
         Resume(s, k) \/ Run(s, k) \/ Crash(s, k),
         ~(Finalize(s, k) /\ settlement[k].status = "PROCESSING")
  PROVE  QuietBooks
<1>0. LinesOK /\ RunnersOK /\ PayTypeOK /\ CallInv
  BY DEF TablesInv, LinesInv
<1>1. Alone => \A j \in Settlements : IsFinal(j) => Rests(j)
  BY RunRests
<1>2. ASSUME debts' = debts, scene' = scene, settlement' = settlement PROVE QuietBooks
  BY <1>1, <1>2 DEF QuietBooks, SameLegs
<1>3. ASSUME debts' = debts, scene' = scene, NEW n, NEW status, Marks(k, n, status) PROVE QuietBooks
  <2>1. ASSUME NEW j \in Settlements
        PROVE  /\ settlement'[j].status = settlement[j].status
               /\ DOMAIN settlement'[j].lines = DOMAIN settlement[j].lines
               /\ SameLegs(settlement'[j].lines, settlement[j].lines, DOMAIN settlement[j].lines)
    BY <1>3 DEF Marks, SameLegs
  <2> QED BY <1>1, <1>3, <2>1 DEF QuietBooks
<1>4. CASE Resume(s, k)
  BY <1>0, <1>2, <1>4, ResumeIs DEF RestStays, LinesStay
<1>5. CASE ReadStatus(s, k)
  BY <1>0, <1>2, <1>5, ReadStatusIs DEF RestStays, LinesStay
<1>6. CASE ReadLines(s, k)
  BY <1>0, <1>2, <1>6, ReadLinesIs DEF RestStays, LinesStay
<1>7. CASE NextLine(s, k)
  BY <1>0, <1>2, <1>7, NextLineIs DEF RestStays, LinesStay
<1>8. CASE Paying(s, k)
  BY <1>2, <1>8 DEF Paying, RestOfTable
<1>9. CASE RecordResult(s, k)
  BY <1>0, <1>3, <1>9, RecordResultIs DEF RestStays
<1>10. CASE RecordAlreadyPaid(s, k)
  BY <1>0, <1>3, <1>10, RecordAlreadyPaidIs DEF RestStays
<1>11. CASE Finalize(s, k)
  BY <1>0, <1>2, <1>11, FinalizeIs DEF LinesStay
<1>12. CASE Crash(s, k)
  BY <1>0, <1>2, <1>12, CrashIs DEF RestStays, LinesStay
<1> QED BY <1>4, <1>5, <1>6, <1>7, <1>8, <1>9, <1>10, <1>11, <1>12 DEF Run

(* A settlement takes debts that are owed, and its lines pay them.          *)
LEMMA SettleBooks ==
  ASSUME TablesInv, PlanInv, BooksInv, NEW s \in Servers, NEW k \in Settlements, Settle(s, k)
  PROVE  PlanInv' /\ BooksInv'
<1>0. /\ SceneOK /\ DebtsOK /\ LinesOK /\ ProcessingDebtsHaveOwner /\ debts \in Seq(DebtRow)
      /\ members \subseteq People
  BY DEF TablesInv, DebtsOK
<1>1. /\ settlement[k].status = "NONE" /\ scene' = scene
      /\ debts' = WithStatus(Pending, "PROCESSING", k)
  BY SettleIs
<1>2. PICK order \in SetToSeqs(Pending), row \in SettlementRow :
        /\ row.checked => PlanHash(Pending, ToSet(Plan(order))) = Confirmed
        /\ Plan(order) # <<>>
        /\ row.status = "PROCESSING" /\ row.success = 0 /\ row.lines = LinesOf(Plan(order))
        /\ settlement' = [settlement EXCEPT ![k] = row]
  BY SettleIs
<1>3. PICK plan, edges :
        /\ plan = Plan(order) /\ plan \in Seq(Line(members)) /\ edges = InOrder(order)
        /\ \A m : NetOf(edges, m) + PaidBy(plan, m) = 0
  BY <1>0, PlanOK
<1>4. settlement'[k] = row /\ \A j \in Settlements : j # k => settlement'[j] = settlement[j]
  BY <1>0, <1>2 DEF LinesOK
<1>5. Stamped(debts', Pending, "PROCESSING", k)
  BY <1>0, <1>1, StampIs DEF Pending
<1>6. /\ Live' = Live /\ Typed' = Typed
      /\ DebtsOf(k)' = Pending
      /\ \A j \in Settlements : j # k => DebtsOf(j)' = DebtsOf(j)
  <2>1. DebtsOf(k) = {}
    BY <1>0, <1>1, NoDebtsOf
  <2> QED BY <1>5, <2>1 DEF Stamped, Live, Typed, DebtsOf, Pending
<1>7. ASSUME NEW ids \in SUBSET DOMAIN debts, NEW m
      PROVE  DebtSum(debts', ids, m) = DebtSum(debts, ids, m)
  <2>1. SameDebts(debts', debts, ids)
    BY <1>5 DEF Stamped, SameDebts
  <2> QED BY <1>0, <2>1, RowsAre, DebtSumSame
<1>8. Clears(k)'
  <2> SUFFICES ASSUME NEW m \in Int
               PROVE  DebtSum(debts', DebtsOf(k)', m)
                        + LineSum(settlement'[k].lines, DOMAIN settlement'[k].lines, m) = 0
    BY DEF Clears
  <2>1. NetOf(edges, m) = DebtSum(debts, Pending, m)
    BY <1>0, <1>3, RowsAre, NetInOrder DEF InOrder
  <2>2. DebtSum(debts', Pending, m) = DebtSum(debts, Pending, m)
    BY <1>0, <1>7, RowsAre
  <2>3. PICK lines : lines = LinesOf(plan) /\ lines = settlement'[k].lines
    BY <1>2, <1>3, <1>4
  <2>4. /\ DOMAIN lines = DOMAIN plan /\ DOMAIN plan = 1..Len(plan) /\ Len(plan) \in Nat
        /\ \A n \in DOMAIN plan :
             /\ plan[n] \in Line(members)
             /\ lines[n].from = plan[n].from /\ lines[n].to = plan[n].to
             /\ lines[n].amount = plan[n].amount
    BY <1>0, <1>3, <2>3, LinesAre
  <2>5. Rows(plan) /\ SameLegs(lines, plan, DOMAIN plan)
    <3>1. \A l \in Line(members) : l.amount \in Int
      BY DEF Line
    <3>2. IsFiniteSet(DOMAIN plan)
      <4>1. PICK n \in Nat : DOMAIN plan = 1..n
        BY <2>4
      <4> QED BY <4>1, FS_Interval
    <3> QED BY <2>4, <3>1, <3>2 DEF Rows, SameLegs
  <2>6. LineSum(lines, DOMAIN plan, m) = LineSum(plan, DOMAIN plan, m)
    BY <2>5, LineSumSame
  <2>7. LineSum(plan, DOMAIN plan, m) = PaidBy(plan, m)
    BY <2>5, PaidIsSum DEF Rows, LineSum
  <2>8. NetOf(edges, m) + PaidBy(plan, m) = 0
    BY <1>3
  <2> QED BY <1>6, <2>1, <2>2, <2>3, <2>4, <2>6, <2>7, <2>8
<1>9. ASSUME NEW j \in Settlements, j # k PROVE Clears(j)'
  <2>1. /\ settlement'[j] = settlement[j] /\ DebtsOf(j)' = DebtsOf(j)
        /\ DebtsOf(j) \in SUBSET DOMAIN debts
    BY <1>0, <1>4, <1>6, <1>9, RowsAre
  <2>2. \A m : DebtSum(debts', DebtsOf(j), m) = DebtSum(debts, DebtsOf(j), m)
    BY <1>7, <2>1
  <2> QED BY <2>1, <2>2 DEF PlanInv, Clears
<1>10. ASSUME Alone', NEW m \in Int
       PROVE  DebtSum(debts, Live, m)' = DebtSum(debts, Typed, m)' + SumOf(PaidOff(m), Counted)'
  <2>1. Alone /\ Counted' = Counted /\ \A j \in Counted : settlement'[j].lines = settlement[j].lines
    <3>1. k \notin Counted /\ k \notin Counted'
      BY <1>1, <1>2, <1>4 DEF Counted
    <3> QED BY <1>1, <1>4, <1>10, <3>1 DEF Alone, Counted
  <2>2. SumOf(PaidOff(m)', Counted) = SumOf(PaidOff(m), Counted)
    BY <1>0, <2>1, PaidOffSame
  <2>3. DebtSum(debts, Live, m) = DebtSum(debts, Typed, m) + SumOf(PaidOff(m), Counted)
    BY <2>1 DEF BooksInv
  <2>4. /\ DebtSum(debts', Live, m) = DebtSum(debts, Live, m)
        /\ DebtSum(debts', Typed, m) = DebtSum(debts, Typed, m)
    BY <1>0, <1>7, RowsAre
  <2> QED BY <1>6, <2>1, <2>2, <2>3, <2>4
<1> QED BY <1>8, <1>9, <1>10 DEF PlanInv, BooksInv

(* The last step of a settlement: its debts are settled, or owed again less *)
(* what has been paid.                                                      *)
LEMMA FinalizeBooks ==
  ASSUME TablesInv, PlanInv, BooksInv, NEW s \in Servers, NEW k \in Settlements,
         Finalize(s, k), settlement[k].status = "PROCESSING"
  PROVE  PlanInv' /\ BooksInv'
<1> DEFINE lines == settlement[k].lines
           mine == DebtsOf(k)
<1>0. /\ DebtsOK /\ LinesOK /\ RunnersOK /\ debts \in Seq(DebtRow)
      /\ Rows(debts) /\ Rows(lines) /\ Done(k) \in SUBSET DOMAIN lines
      /\ mine \in SUBSET DOMAIN debts /\ Live \in SUBSET DOMAIN debts
      /\ Typed \in SUBSET DOMAIN debts
  BY RowsAre DEF TablesInv, DebtsOK
<1>1. scene' = scene /\ debts' = Closed(k) /\ Closes(k)
  BY <1>0, FinalizeIs
<1>2. PICK status, owner, rows, made :
        /\ \/ FinalStatus(k) = "COMPLETED" /\ status = "COMPLETED" /\ made = <<>>
           \/ FinalStatus(k) = "PARTIAL" /\ status = "PENDING" /\ made = PaymentsMade(k)
           \/ FinalStatus(k) = "FAILED" /\ status = "PENDING" /\ made = <<>>
        /\ Stamped(rows, mine, status, owner) /\ debts' = rows \o made
        /\ rows \in Seq(DebtRow) /\ made \in Seq(DebtRow)
  BY <1>0, <1>1, ClosedIs DEF CloseDebts
<1> DEFINE added == DOMAIN debts' \ DOMAIN debts
(* The rows there were, and the payments after them.                        *)
<1>3. /\ DOMAIN debts \subseteq DOMAIN debts' /\ \A i \in DOMAIN debts : debts'[i] = rows[i]
      /\ DOMAIN rows = DOMAIN debts /\ DOMAIN made = 1..Len(made) /\ Len(made) \in Nat
      /\ Len(debts) \in Nat
      /\ added = {Len(debts) + i : i \in DOMAIN made}
      /\ \A i \in DOMAIN made : debts'[Len(debts) + i] = made[i]
  <2>1. PICK new \in Seq(DebtRow) : new = debts' /\ new = rows \o made
    BY <1>2, JoinedIs
  <2>2. /\ DOMAIN rows = 1..Len(rows) /\ DOMAIN new = 1..(Len(rows) + Len(made))
        /\ DOMAIN made = 1..Len(made)
        /\ Len(rows) \in Nat /\ Len(made) \in Nat
        /\ \A i \in DOMAIN rows : new[i] = rows[i]
        /\ \A i \in DOMAIN new \ DOMAIN rows :
             i - Len(rows) \in DOMAIN made /\ new[i] = made[i - Len(rows)]
    BY <1>2, <2>1, JoinedIs
  <2>3. DOMAIN rows = DOMAIN debts /\ Len(rows) = Len(debts)
    BY <1>2 DEF Stamped
  <2>4. added = {Len(debts) + i : i \in DOMAIN made}
    BY <2>1, <2>2, <2>3
  <2>5. \A i \in DOMAIN made : debts'[Len(debts) + i] = made[i]
    <3> SUFFICES ASSUME NEW i \in DOMAIN made PROVE debts'[Len(debts) + i] = made[i]
      OBVIOUS
    <3>1. Len(debts) + i \in DOMAIN new \ DOMAIN rows /\ (Len(debts) + i) - Len(rows) = i
      BY <2>2, <2>3
    <3> QED BY <2>1, <2>2, <3>1
  <2> QED BY <2>1, <2>2, <2>3, <2>4, <2>5
<1>4. Rows(debts') /\ added \in SUBSET DOMAIN debts'
  <2>1. PICK new \in Seq(DebtRow) : new = debts'
    BY <1>2, JoinedIs
  <2>2. DOMAIN new = 1..Len(new) /\ Len(new) \in Nat /\ \A i \in DOMAIN new : new[i] \in DebtRow
    OBVIOUS
  <2>3. \A d \in DebtRow : d.amount \in Int
    BY DEF DebtRow
  <2>4. IsFiniteSet(DOMAIN new)
    BY <2>2, FS_Interval
  <2> QED BY <2>1, <2>2, <2>3, <2>4 DEF Rows
<1>5. /\ \A i \in mine : debts'[i].status = status
      /\ \A i \in DOMAIN debts \ mine : debts'[i] = debts[i]
      /\ \A i \in DOMAIN debts : debts'[i].kind = debts[i].kind
      /\ mine \subseteq DOMAIN debts /\ mine \subseteq Live
  BY <1>0, <1>2, <1>3 DEF Stamped, DebtsOf, Live
<1>6. \A i \in added : debts'[i].status = "PENDING" /\ debts'[i].kind = "SETTLEMENT_PAYMENT"
  <2>1. \A i \in DOMAIN made : made[i].status = "PENDING" /\ made[i].kind = "SETTLEMENT_PAYMENT"
    BY <1>0, <1>2, PaymentsAre
  <2> QED BY <1>3, <2>1
<1>7. ASSUME NEW ids \in SUBSET DOMAIN debts, NEW m
      PROVE  DebtSum(debts', ids, m) = DebtSum(debts, ids, m) /\ DebtSum(debts, ids, m) \in Int
  <2>1. SameDebts(debts', debts, ids)
    BY <1>2, <1>3 DEF Stamped, SameDebts
  <2> QED BY <1>0, <2>1, DebtSumSame, DebtSumType
<1> HIDE DEF added, mine, lines
<1>8. Typed' = Typed
  BY <1>3, <1>5, <1>6 DEF Typed, added
<1>9. \A j \in Settlements : j # k => DebtsOf(j)' = DebtsOf(j)
  <2>1. status # "PROCESSING"
    BY <1>2
  <2> QED BY <1>3, <1>5, <1>6, <2>1 DEF DebtsOf, added, mine
<1>10. /\ settlement'[k].status = FinalStatus(k) /\ settlement'[k].lines = lines
       /\ FinalStatus(k) # "PROCESSING" /\ Done(k)' = Done(k)
       /\ \A j \in Settlements : j # k => settlement'[j] = settlement[j]
  BY <1>1 DEF Closes, Done, FinalStatus, lines
<1>11. PlanInv'
  <2> SUFFICES ASSUME NEW j \in Settlements PROVE Clears(j)'
    BY DEF PlanInv
  <2>1. CASE j = k
    BY <1>10, <2>1 DEF Clears
  <2>2. CASE j # k
    <3>1. /\ settlement'[j] = settlement[j] /\ DebtsOf(j)' = DebtsOf(j)
          /\ DebtsOf(j) \in SUBSET DOMAIN debts
      BY <1>0, <1>9, <1>10, <2>2, RowsAre
    <3>2. \A m : DebtSum(debts', DebtsOf(j), m) = DebtSum(debts, DebtsOf(j), m)
      BY <1>7, <3>1
    <3> QED BY <3>1, <3>2 DEF PlanInv, Clears
  <2> QED BY <2>1, <2>2
(* What is owed changes by what the counted lines have paid.                *)
<1>12. ASSUME NEW m \in Int
       PROVE  /\ LineSum(lines, Done(k), m) \in Int
              /\ DebtSum(debts', Live', m) = DebtSum(debts, Live, m)
                   + (IF FinalStatus(k) = "FAILED" THEN 0 ELSE LineSum(lines, Done(k), m))
  <2>0. LineSum(lines, Done(k), m) \in Int /\ DebtSum(debts, Live, m) \in Int
    BY <1>0, LineSumType, DebtSumType
  <2>1. CASE FinalStatus(k) = "COMPLETED"
    <3>1. status = "COMPLETED" /\ made = <<>>
      BY <1>2, <2>1
    <3>2. added = {}
      BY <1>3, <3>1
    <3>3. Live' = Live \ mine
      BY <1>3, <1>5, <3>1, <3>2 DEF Live, added
    <3>4. Done(k) = DOMAIN lines
      <4>1. Cardinality(Done(k)) = Len(lines)
        BY <2>1 DEF FinalStatus, lines
      <4> QED BY <1>0, <4>1, DoneIs DEF lines
    <3>5. DebtSum(debts, mine, m) + LineSum(lines, Done(k), m) = 0
      BY <3>4 DEF PlanInv, Clears, mine, lines
    <3>6. /\ Live \ mine \in SUBSET DOMAIN debts /\ (Live \ mine) \cap mine = {}
          /\ (Live \ mine) \cup mine = Live
      BY <1>0, <1>5
    <3>7. DebtSum(debts, (Live \ mine) \cup mine, m)
            = DebtSum(debts, Live \ mine, m) + DebtSum(debts, mine, m)
      BY <1>0, <3>6, DebtSumUnion
    <3>8. /\ DebtSum(debts', Live \ mine, m) = DebtSum(debts, Live \ mine, m)
          /\ DebtSum(debts, Live \ mine, m) \in Int /\ DebtSum(debts, mine, m) \in Int
      BY <1>0, <1>7, <3>6
    <3>9. DebtSum(debts, Live, m) = DebtSum(debts, Live \ mine, m) + DebtSum(debts, mine, m)
      BY <3>6, <3>7
    <3> QED BY <2>0, <2>1, <3>3, <3>5, <3>8, <3>9
  <2>2. CASE FinalStatus(k) = "PARTIAL"
    <3>1. status = "PENDING" /\ made = PaymentsMade(k)
      BY <1>2, <2>2
    <3>2. Live' = Live \cup added /\ Live \cap added = {}
      BY <1>0, <1>3, <1>5, <1>6, <3>1 DEF Live, added
    <3>3. DebtSum(debts', added, m) = LineSum(lines, Done(k), m)
      <4>1. PICK n, done :
              /\ n \in Nat /\ n = Cardinality(Done(k)) /\ done = SetToSeq(Done(k))
              /\ Enumerates(done, n, Done(k))
        BY <1>0, DoneIs, SetToSeqIs DEF Enumerates
      <4>2. /\ DOMAIN made = 1..n
            /\ \A i \in 1..n : /\ made[i].debtor = lines[done[i]].to
                               /\ made[i].creditor = lines[done[i]].from
                               /\ made[i].amount = lines[done[i]].amount
        BY <1>0, <3>1, <4>1, PaymentsAre DEF lines
      <4>3. DebtSum(made, 1..n, m) = LineSum(lines, Done(k), m)
        BY <1>0, <4>1, <4>2, PaymentsSum
      <4>4. DebtSum(debts', added, m) = DebtSum(made, 1..n, m)
        <5> DEFINE g == [i \in DOMAIN debts' |-> Part(debts'[i], m)]
                   h == [i \in DOMAIN made |-> Part(made[i], m)]
                   f == [i \in 1..n |-> Len(debts) + i]
        <5>1. Enumerates(f, n, added)
          <6>1. PICK l, A : l \in Nat /\ l = Len(debts) /\ A = added /\ A = {l + i : i \in 1..n}
            BY <1>3, <4>2
          <6>2. f = [i \in 1..n |-> l + i] /\ n \in Nat
            BY <4>1, <6>1
          <6> HIDE DEF f
          <6>3. f \in [1..n -> A]
            BY <6>1, <6>2
          <6>4. \A i \in 1..n : f[i] = l + i
            BY <6>2
          <6>5. \A i, j \in 1..n : f[i] = f[j] => i = j
            BY <4>1, <6>1, <6>4
          <6>6. \A x \in A : \E i \in 1..n : f[i] = x
            BY <6>1, <6>4
          <6>7. Enumerates(f, n, A)
            BY <6>3, <6>5, <6>6 DEF Enumerates
          <6> QED BY <6>1, <6>7
        <5>2. \A i \in added : g[i] \in Int
          BY <1>4 DEF Rows, Part
        <5>3. \A i \in 1..n : h[i] = g[f[i]]
          <6>1. \A i \in 1..n :
                  f[i] = Len(debts) + i /\ Len(debts) + i \in added /\ i \in DOMAIN made
            BY <1>3, <4>2
          <6> QED BY <1>3, <1>4, <6>1
        <5> HIDE DEF g, h, f
        <5>4. SumOf(h, 1..n) = SumOf(g, added)
          BY <4>1, <5>1, <5>2, <5>3, SumEnumerated
        <5> QED BY <5>4 DEF DebtSum, g, h
      <4> QED BY <4>3, <4>4
    <3>4. DebtSum(debts', Live \cup added, m) = DebtSum(debts', Live, m) + DebtSum(debts', added, m)
      <4>1. Live \in SUBSET DOMAIN debts'
        BY <1>0, <1>3
      <4> QED BY <1>4, <3>2, <4>1, DebtSumUnion
    <3>5. DebtSum(debts', Live, m) = DebtSum(debts, Live, m)
      BY <1>0, <1>7
    <3> QED BY <2>0, <2>2, <3>2, <3>3, <3>4, <3>5
  <2>3. CASE FinalStatus(k) = "FAILED"
    <3>1. status = "PENDING" /\ made = <<>>
      BY <1>2, <2>3
    <3>2. added = {}
      BY <1>3, <3>1
    <3>3. Live' = Live
      BY <1>0, <1>3, <1>5, <3>1, <3>2 DEF Live, added
    <3>4. DebtSum(debts', Live, m) = DebtSum(debts, Live, m)
      BY <1>0, <1>7
    <3> QED BY <2>0, <2>3, <3>3, <3>4
  <2> QED BY <2>0, <2>1, <2>2, <2>3 DEF FinalStatus
<1>13. ASSUME Alone', NEW m \in Int
       PROVE  DebtSum(debts, Live, m)' = DebtSum(debts, Typed, m)' + SumOf(PaidOff(m), Counted)'
  <2>1. Alone
    BY <1>1, <1>13 DEF Alone
  <2>2. /\ k \notin Counted
        /\ \A j \in Counted : settlement'[j].lines = settlement[j].lines
    BY <1>10 DEF Counted
  <2>3. /\ SumOf(PaidOff(m)', Counted) = SumOf(PaidOff(m), Counted)
        /\ SumOf(PaidOff(m), Counted) \in Int
        /\ \A j \in Counted : PaidOff(m)'[j] = PaidOff(m)[j] /\ PaidOff(m)[j] \in Int
    BY <1>0, <2>2, PaidOffSame
  <2>4. DebtSum(debts, Live, m) = DebtSum(debts, Typed, m) + SumOf(PaidOff(m), Counted)
    BY <2>1 DEF BooksInv
  <2>5. DebtSum(debts', Typed', m) = DebtSum(debts, Typed, m) /\ DebtSum(debts, Typed, m) \in Int
    BY <1>0, <1>7, <1>8
  <2>6. CASE FinalStatus(k) = "FAILED"
    <3>1. Counted' = Counted
      BY <1>10, <2>2, <2>6 DEF Counted
    <3> QED BY <1>12, <2>3, <2>4, <2>5, <2>6, <3>1
  <2>7. CASE FinalStatus(k) # "FAILED"
    <3>1. Counted' = Counted \cup {k}
      <4>1. FinalStatus(k) \in {"COMPLETED", "PARTIAL"}
        BY <2>7 DEF FinalStatus
      <4> QED BY <1>10, <2>2, <4>1 DEF Counted
    <3>2. PICK f : f = PaidOff(m)'
      OBVIOUS
    <3>3. f[k] = LineSum(lines, Done(k), m) /\ f[k] \in Int
      BY <1>10, <1>12, <3>2 DEF PaidOff
    <3>4. IsFiniteSet(Counted) /\ \A j \in Counted : f[j] \in Int
      BY <1>0, <2>3, <3>2, RowsAre
    <3>5. SumOf(f, Counted \cup {k}) = f[k] + SumOf(f, Counted)
      BY <2>2, <3>3, <3>4, SumWith
    <3> QED BY <1>12, <2>3, <2>4, <2>5, <2>7, <3>1, <3>2, <3>3, <3>5
  <2> QED BY <2>6, <2>7
<1> QED BY <1>11, <1>13 DEF BooksInv

LEMMA InitBooks ==
  ASSUME SettlementInit
  PROVE  PlanInv /\ BooksInv
<1>0. /\ settlement = [k \in Settlements |-> NoSettlement]
      /\ debts = [i \in DOMAIN scene.first |-> NewDebt(scene.first[i], "DEBT")]
  BY DEF SettlementInit
<1>1. \A k \in Settlements : settlement[k].status = "NONE"
  BY <1>0 DEF NoSettlement
<1>2. PlanInv
  BY <1>1 DEF PlanInv, Clears
<1>3. Live = DOMAIN debts /\ Typed = DOMAIN debts
  BY <1>0 DEF Live, Typed, NewDebt
<1>4. Counted = {}
  BY <1>1 DEF Counted
<1>5. \A m : SumOf(PaidOff(m), Counted) = 0 /\ DebtSum(debts, DOMAIN debts, m) \in Int
  <2>1. DebtsOK /\ LinesOK
    BY InitTables DEF TablesInv
  <2>2. Rows(debts)
    BY <2>1, RowsAre
  <2> SUFFICES ASSUME NEW m
               PROVE  SumOf(PaidOff(m), Counted) = 0 /\ DebtSum(debts, DOMAIN debts, m) \in Int
    OBVIOUS
  <2>3. DebtSum(debts, DOMAIN debts, m) \in Int
    BY <2>2, DebtSumType
  <2> QED BY <1>4, <2>3, SumEmpty
<1>6. BooksInv
  BY <1>3, <1>5 DEF BooksInv
<1> QED BY <1>2, <1>6

LEMMA NextBooks ==
  ASSUME TablesInv, LinesInv, PlanInv, BooksInv, [SettlementNext]_settleVars
  PROVE  PlanInv' /\ BooksInv'
<1>1. CASE UserNext
  BY <1>1, UserBooks
<1>2. ASSUME NEW s \in Servers, NEW k \in Settlements,
             Settle(s, k) \/ Resume(s, k) \/ Run(s, k) \/ Crash(s, k)
      PROVE  PlanInv' /\ BooksInv'
  <2>1. CASE Settle(s, k)
    BY <2>1, SettleBooks
  <2>2. CASE Finalize(s, k) /\ settlement[k].status = "PROCESSING"
    BY <2>2, FinalizeBooks
  <2>3. CASE /\ Resume(s, k) \/ Run(s, k) \/ Crash(s, k)
             /\ ~(Finalize(s, k) /\ settlement[k].status = "PROCESSING")
    BY <2>3, RunQuiet, BooksStay
  <2> QED BY <1>2, <2>1, <2>2, <2>3
<1>3. CASE UNCHANGED settleVars
  <2>1. debts' = debts /\ settlement' = settlement /\ paid' = paid /\ scene' = scene
    BY <1>3 DEF settleVars
  <2>2. QuietBooks
    BY <2>1 DEF QuietBooks, SameLegs, Rests
  <2> QED BY <2>2, BooksStay
<1> QED BY <1>1, <1>2, <1>3 DEF SettlementNext

(* What the pages show, as sums.                                            *)
LEMMA EdgesSum ==
  ASSUME DebtsOK, LinesOK, NEW ids \in SUBSET DOMAIN debts, NEW m
  PROVE  NetOf(Restrict(debts, ids), m) = DebtSum(debts, ids, m)
<1> DEFINE rows == Restrict(debts, ids)
           h == [i \in DOMAIN rows |-> Part(rows[i], m)]
           g == [i \in DOMAIN debts |-> Part(debts[i], m)]
<1>1. DOMAIN rows = ids /\ \A i \in ids : rows[i] = debts[i]
  BY DEF Restrict
<1>2. IsFiniteSet(ids) /\ Rows(debts)
  BY RowsAre, DebtSumType
<1>3. IsFiniteSet(DOMAIN rows) /\ \A i \in DOMAIN rows : rows[i].amount \in Int
  BY <1>1, <1>2 DEF Rows
<1> HIDE DEF rows
<1>4. NetOf(rows, m) = SumOf(h, DOMAIN rows)
  BY <1>3, NetIsSum
<1>5. \A i \in ids : h[i] = g[i] /\ h[i] \in Int
  BY <1>1, <1>3 DEF Part
<1> HIDE DEF h, g
<1>6. SumOf(h, ids) = SumOf(g, ids)
  BY <1>2, <1>5, SumEqual
<1> QED BY <1>1, <1>4, <1>6 DEF DebtSum, g, rows

LEMMA LegsSum ==
  ASSUME NEW lines, Rows(lines), NEW ids \in SUBSET DOMAIN lines, NEW m
  PROVE  PaidBy(Restrict(lines, ids), m) = LineSum(lines, ids, m)
<1> DEFINE rows == Restrict(lines, ids)
           h == [i \in DOMAIN rows |-> LinePart(rows[i], m)]
           g == [i \in DOMAIN lines |-> LinePart(lines[i], m)]
<1>1. DOMAIN rows = ids /\ \A i \in ids : rows[i] = lines[i]
  BY DEF Restrict
<1>2. IsFiniteSet(ids)
  BY LineSumType
<1>3. IsFiniteSet(DOMAIN rows) /\ \A i \in DOMAIN rows : rows[i].amount \in Int
  BY <1>1, <1>2 DEF Rows
<1> HIDE DEF rows
<1>4. PaidBy(rows, m) = SumOf(h, DOMAIN rows)
  BY <1>3, PaidIsSum
<1>5. \A i \in ids : h[i] = g[i] /\ h[i] \in Int
  BY <1>1, <1>3 DEF LinePart
<1> HIDE DEF h, g
<1>6. SumOf(h, ids) = SumOf(g, ids)
  BY <1>2, <1>5, SumEqual
<1> QED BY <1>1, <1>4, <1>6 DEF LineSum, g, rows

LEMMA BooksFollow ==
  ASSUME TablesInv, BooksInv
  PROVE  BooksBalance
<1>0. DebtsOK /\ LinesOK /\ SceneOK /\ Rows(debts)
  BY RowsAre DEF TablesInv
<1> SUFFICES ASSUME Alone, NEW m \in members
             PROVE  GroupPage.balances[m] + NetOf(Edges({"PROCESSING"}), m)
                      = NetOf(Restrict(debts, Typed), m)
                        + SumFunction([k \in Counted |->
                                         PaidBy(Restrict(settlement[k].lines, Done(k)), m)])
  BY DEF BooksBalance, Typed
<1>1. m \in Int
  BY <1>0 DEF DebtsOK, SceneOK
<1> DEFINE ongoing == {i \in DOMAIN debts : debts[i].status \in {"PROCESSING"}}
<1>2. /\ GroupPage.balances[m] = NetOf(Restrict(debts, Pending), m)
      /\ NetOf(Edges({"PROCESSING"}), m) = NetOf(Restrict(debts, ongoing), m)
  <2>1. GroupPage.balances[m] = NetOf(Edges({"PENDING"}), m)
    BY DEF GroupPage, Balances
  <2>2. {i \in DOMAIN debts : debts[i].status \in {"PENDING"}} = Pending
    BY DEF Pending
  <2> QED BY <2>1, <2>2 DEF Edges
<1>3. /\ Pending \in SUBSET DOMAIN debts /\ ongoing \in SUBSET DOMAIN debts
      /\ Pending \cap ongoing = {} /\ Pending \cup ongoing = Live /\ Typed \in SUBSET DOMAIN debts
  BY DEF Pending, Live, Typed
<1> HIDE DEF ongoing
<1>4. /\ NetOf(Restrict(debts, Pending), m) = DebtSum(debts, Pending, m)
      /\ NetOf(Restrict(debts, ongoing), m) = DebtSum(debts, ongoing, m)
      /\ NetOf(Restrict(debts, Typed), m) = DebtSum(debts, Typed, m)
  BY <1>0, <1>3, EdgesSum
<1>5. DebtSum(debts, Pending \cup ongoing, m)
        = DebtSum(debts, Pending, m) + DebtSum(debts, ongoing, m)
  BY <1>0, <1>3, DebtSumUnion
<1> DEFINE f == [k \in Counted |-> PaidBy(Restrict(settlement[k].lines, Done(k)), m)]
<1>6. SumFunction(f) = SumOf(PaidOff(m), Counted)
  <2>1. DOMAIN f = Counted /\ IsFiniteSet(Counted) /\ Counted \subseteq Settlements
    BY <1>0, RowsAre
  <2>2. ASSUME NEW k \in Counted PROVE f[k] = PaidOff(m)[k] /\ f[k] \in Int
    <3>1. /\ k \in Settlements /\ Rows(settlement[k].lines)
          /\ Done(k) \in SUBSET DOMAIN settlement[k].lines
      BY <1>0, <2>1, RowsAre
    <3>2. PaidBy(Restrict(settlement[k].lines, Done(k)), m)
            = LineSum(settlement[k].lines, Done(k), m)
      BY <3>1, LegsSum
    <3>3. PaidOff(m)[k] = LineSum(settlement[k].lines, Done(k), m) /\ PaidOff(m)[k] \in Int
      BY <1>0, <3>1, PaidOffType
    <3> QED BY <3>2, <3>3
  <2>3. SumFunction(f) = SumOf(f, Counted)
    <3> HIDE DEF f
    <3> QED BY <2>1, SumFunctionIs
  <2>4. PICK g : g = PaidOff(m)
    OBVIOUS
  <2> HIDE DEF f
  <2>5. SumOf(f, Counted) = SumOf(g, Counted)
    BY <2>1, <2>2, <2>4, SumEqual
  <2> QED BY <2>3, <2>4, <2>5
<1>7. DebtSum(debts, Live, m) = DebtSum(debts, Typed, m) + SumOf(PaidOff(m), Counted)
  BY <1>1 DEF BooksInv
<1> QED BY <1>2, <1>3, <1>4, <1>5, <1>6, <1>7

(* For any debts and expenses, any number of settlements one after another  *)
(* or at once, and any crashes, with one server: what a member owes and is  *)
(* owed is what was recorded, changed by exactly the lines that the         *)
(* finished settlements count as paid.                                      *)
THEOREM SettlementBooksBalance == SettlementSpec => []BooksBalance
<1> DEFINE Inv == PlanInv /\ BooksInv
<1>1. SettlementInit => Inv
  BY InitBooks
<1>2. TablesInv /\ LinesInv /\ Inv /\ [SettlementNext]_settleVars => Inv'
  BY NextBooks
<1>3. TablesInv /\ Inv => BooksBalance
  BY BooksFollow
<1> HIDE DEF Inv
<1> QED BY <1>1, <1>2, <1>3, LinesAlways, PTL DEF SettlementSpec

-------------------------------------------------------------------------------
(* Confirmed, and for good *)

(* The lines of two plans are the same set when the plans are.              *)
LEMMA SameLines ==
  ASSUME NEW p, NEW q, ToSet(p) = ToSet(q)
  PROVE  ToSet(LinesOf(p)) = ToSet(LinesOf(q))
<1> DEFINE L(l) == [from |-> l.from, to |-> l.to, amount |-> l.amount, status |-> "PENDING"]
<1>1. ASSUME NEW r PROVE ToSet(LinesOf(r)) = {L(l) : l \in ToSet(r)}
  BY DEF ToSet, LinesOf
<1> HIDE DEF L
<1> QED BY <1>1

(* The settlement that begins, for a caller with a hash and for one without.*)
SettlesOwed(k) ==
  /\ DebtsOf(k)' = Pending
  /\ \A m \in members : NetOf(Edges({"PENDING"}), m) + PaidBy(settlement'[k].lines, m) = 0
SettlesShown(k) ==
  /\ DebtsOf(k)' = preview.ids
  /\ ToSet(settlement'[k].lines) = ToSet(LinesOf(SetToSeq(preview.plan)))

LEMMA SettleTakes ==
  ASSUME TablesInv, NEW s \in Servers, NEW k \in Settlements, Settle(s, k)
  PROVE  /\ \A j \in Settlements : j # k => settlement'[j] = settlement[j]
         /\ settlement[k].status = "NONE" /\ paid' = paid
         /\ SettlesOwed(k)
         /\ settlement'[k].checked => SettlesShown(k)
<1>0. LinesOK /\ DebtsOK /\ SceneOK /\ ProcessingDebtsHaveOwner /\ debts \in Seq(DebtRow)
  BY DEF TablesInv, DebtsOK
<1>1. /\ settlement[k].status = "NONE" /\ debts' = WithStatus(Pending, "PROCESSING", k)
      /\ paid' = paid
  BY SettleIs
<1>2. PICK order \in SetToSeqs(Pending), row \in SettlementRow :
        /\ row.checked => PlanHash(Pending, ToSet(Plan(order))) = Confirmed
        /\ Plan(order) # <<>>
        /\ row.status = "PROCESSING" /\ row.success = 0 /\ row.lines = LinesOf(Plan(order))
        /\ settlement' = [settlement EXCEPT ![k] = row]
  BY SettleIs
<1>3. PICK plan, edges :
        /\ plan = Plan(order) /\ plan \in Seq(Line(members)) /\ edges = InOrder(order)
        /\ \A m : NetOf(edges, m) + PaidBy(plan, m) = 0
  BY <1>0, PlanOK
<1>4. /\ settlement'[k].lines = LinesOf(plan) /\ settlement'[k].checked = row.checked
      /\ \A j \in Settlements : j # k => settlement'[j] = settlement[j]
  BY <1>0, <1>2, <1>3 DEF LinesOK
<1>5. DebtsOf(k)' = Pending
  <2>1. Stamped(debts', Pending, "PROCESSING", k)
    BY <1>0, <1>1, StampIs DEF Pending
  <2>2. DebtsOf(k) = {}
    BY <1>0, <1>1, NoDebtsOf
  <2> QED BY <2>1, <2>2 DEF Stamped, DebtsOf, Pending
<1>6. ASSUME NEW m \in members
      PROVE  NetOf(Edges({"PENDING"}), m) + PaidBy(settlement'[k].lines, m) = 0
  <2>1. NetOf(Edges({"PENDING"}), m) = NetOf(Restrict(debts, Pending), m)
    <3>1. {i \in DOMAIN debts : debts[i].status \in {"PENDING"}} = Pending
      BY DEF Pending
    <3> QED BY <3>1 DEF Edges
  <2>2. /\ Rows(debts) /\ Pending \in SUBSET DOMAIN debts
    BY <1>0, RowsAre
  <2>3. NetOf(Restrict(debts, Pending), m) = DebtSum(debts, Pending, m)
    BY <1>0, <2>2, EdgesSum
  <2>4. NetOf(edges, m) = DebtSum(debts, Pending, m)
    BY <1>3, <2>2, NetInOrder DEF InOrder
  <2>5. PaidBy(LinesOf(plan), m) = PaidBy(plan, m)
    <3>1. /\ DOMAIN LinesOf(plan) = DOMAIN plan
          /\ \A n \in DOMAIN plan : LinePart(LinesOf(plan)[n], m) = LinePart(plan[n], m)
      BY DEF LinesOf, LinePart
    <3>2. [n \in DOMAIN LinesOf(plan) |-> LinePart(LinesOf(plan)[n], m)]
            = [n \in DOMAIN plan |-> LinePart(plan[n], m)]
      BY <3>1
    <3> QED BY <3>2 DEF PaidBy
  <2>6. NetOf(edges, m) + PaidBy(plan, m) = 0
    BY <1>3
  <2> QED BY <1>4, <2>1, <2>3, <2>4, <2>5, <2>6
<1>7. ASSUME row.checked PROVE SettlesShown(k)
  <2>1. Pending = preview.ids /\ ToSet(plan) = preview.plan
    BY <1>2, <1>3, <1>7 DEF Confirmed, PlanHash
  <2>2. ToSet(SetToSeq(preview.plan)) = ToSet(plan)
    <3>1. IsFiniteSet(ToSet(plan))
      <4>1. DOMAIN plan = 1..Len(plan) /\ Len(plan) \in Nat
        BY <1>3
      <4>2. PICK n \in Nat : n = Len(plan) /\ DOMAIN plan = 1..n
        BY <4>1
      <4>3. plan \in Surjection(1..n, ToSet(plan))
        BY <1>3, <4>2 DEF Surjection, ToSet
      <4> QED BY <4>2, <4>3, FS_NatSurjection DEF ExistsSurjection
    <3>2. PICK S : S = ToSet(plan) /\ S = preview.plan /\ IsFiniteSet(S)
      BY <2>1, <3>1
    <3>3. PICK f, n : f = SetToSeq(S) /\ f \in [1..n -> S] /\ \A x \in S : \E i \in 1..n : f[i] = x
      BY <3>2, SetToSeqIs
    <3>4. ToSet(f) = S
      BY <3>3 DEF ToSet
    <3> QED BY <3>2, <3>3, <3>4
  <2>3. ToSet(settlement'[k].lines) = ToSet(LinesOf(SetToSeq(preview.plan)))
    BY <1>4, <2>2, SameLines
  <2> QED BY <1>5, <2>1, <2>3 DEF SettlesShown
<1> QED BY <1>1, <1>4, <1>5, <1>6, <1>7 DEF SettlesOwed

(* Every step, of all settlements.                                          *)
Begins(k) == settlement[k].status = "NONE" /\ settlement'[k].status # "NONE"
TakesWhatIsOwed(k) ==
  Begins(k) => /\ SettlesOwed(k)
               /\ settlement'[k].checked => SettlesShown(k)

LEMMA StepConfirms ==
  ASSUME TablesInv, LinesInv, [SettlementNext]_settleVars
  PROVE  /\ \A k \in Settlements : TakesWhatIsOwed(k)
         /\ Alone => \A k \in Settlements : IsFinal(k) => Rests(k)
<1>1. CASE UserNext
  <2>1. settlement' = settlement /\ paid' = paid
    BY <1>1 DEF UserNext, AddMember, AddDebt, AddExpense, Recorded, Preview, payVars
  <2> QED BY <2>1 DEF Rests, TakesWhatIsOwed, Begins
<1>2. CASE UNCHANGED settleVars
  <2>1. settlement' = settlement /\ paid' = paid
    BY <1>2 DEF settleVars
  <2> QED BY <2>1 DEF Rests, TakesWhatIsOwed, Begins
<1>3. ASSUME NEW s \in Servers, NEW j \in Settlements, Settle(s, j)
      PROVE  /\ \A k \in Settlements : TakesWhatIsOwed(k)
             /\ Alone => \A k \in Settlements : IsFinal(k) => Rests(k)
  <2>1. ASSUME NEW k \in Settlements, k # j PROVE settlement'[k] = settlement[k] /\ Rests(k)
    BY <1>3, <2>1, SettleTakes DEF Rests
  <2>2. ~IsFinal(j) /\ TakesWhatIsOwed(j)
    BY <1>3, SettleTakes DEF IsFinal, Final, TakesWhatIsOwed
  <2>3. \A k \in Settlements : TakesWhatIsOwed(k)
    BY <2>1, <2>2 DEF TakesWhatIsOwed, Begins
  <2> QED BY <2>1, <2>2, <2>3
<1>4. ASSUME NEW s \in Servers, NEW j \in Settlements, Resume(s, j) \/ Run(s, j) \/ Crash(s, j)
      PROVE  /\ \A k \in Settlements : ~Begins(k)
             /\ Alone => \A k \in Settlements : IsFinal(k) => Rests(k)
  BY <1>4, RunRests DEF Rests, Begins
<1> QED BY <1>1, <1>2, <1>3, <1>4 DEF SettlementNext, TakesWhatIsOwed

(* A settlement takes all debts that are owed when it begins, and its lines *)
(* pay exactly these, also for a caller who sent no hash; one confirmed     *)
(* with the hash is moreover the debts and lines of the page; and with one  *)
(* server, once a settlement is over, nothing of it changes and none of its *)
(* money moves any more.                                                    *)
THEOREM SettlementConfirmedForGood == SettlementSpec => ConfirmedForGood
<1>1. TablesInv /\ LinesInv /\ [SettlementNext]_settleVars =>
        [\A k \in Settlements : settlement[k].status = "NONE" /\ settlement'[k].status # "NONE" =>
           /\ DebtsOf(k)' = Pending
           /\ \A m \in members :
                NetOf(Edges({"PENDING"}), m) + PaidBy(settlement'[k].lines, m) = 0
           /\ settlement'[k].checked =>
                /\ DebtsOf(k)' = preview.ids
                /\ ToSet(settlement'[k].lines) = ToSet(LinesOf(SetToSeq(preview.plan)))]_settleVars
  BY StepConfirms DEF TakesWhatIsOwed, Begins, SettlesOwed, SettlesShown
<1>2. TablesInv /\ LinesInv /\ [SettlementNext]_settleVars =>
        [Alone => \A k \in Settlements : IsFinal(k) =>
           /\ settlement'[k] = settlement[k]
           /\ \A n \in DOMAIN settlement[k].lines : paid'[<<k, n>>] = paid[<<k, n>>]]_settleVars
  BY StepConfirms DEF Rests
<1> QED BY <1>1, <1>2, LinesAlways, PTL
   DEF SettlementSpec, ConfirmedForGood, SettlesWhatIsOwed, SettlementIsClosed

-------------------------------------------------------------------------------
(* The split of an expense *)

(* Sorted by id, the participants have the ranks from 1 to their number.    *)
LEMMA RankIs ==
  ASSUME NEW P, IsFiniteSet(P), P \subseteq Int, NEW n \in Nat, n = Cardinality(P)
  PROVE  /\ \A p \in P : Rank(p, P) \in 1..n
         /\ \A p, q \in P : Rank(p, P) = Rank(q, P) => p = q
         /\ \A i \in 1..n : \E p \in P : Rank(p, P) = i
<1> DEFINE upto(p) == {q \in P : q <= p}
           rank == [p \in P |-> Rank(p, P)]
<1>1. \A p \in P : upto(p) \in SUBSET P /\ IsFiniteSet(upto(p)) /\ p \in upto(p)
  BY FS_Subset
<1>2. \A p \in P : Rank(p, P) = Cardinality(upto(p))
  BY DEF Rank
<1>3. ASSUME NEW p \in P PROVE Rank(p, P) \in 1..n
  <2>1. Cardinality(upto(p)) \in Nat /\ Cardinality(upto(p)) <= n
    BY <1>1, FS_Subset, FS_CardinalityType
  <2>2. Cardinality(upto(p)) # 0
    BY <1>1, FS_EmptySet
  <2> QED BY <1>2, <2>1, <2>2
<1>4. ASSUME NEW p \in P, NEW q \in P, p < q PROVE Rank(p, P) # Rank(q, P)
  <2>1. upto(p) \in SUBSET upto(q) /\ upto(p) # upto(q)
    <3>1. q \in upto(q) /\ q \notin upto(p) /\ p \in Int /\ q \in Int
      BY <1>4
    <3>2. \A x \in P : x <= p => x <= q
      BY <1>4, <3>1
    <3> QED BY <3>1, <3>2
  <2>2. IsFiniteSet(upto(q))
    BY <1>1
  <2> HIDE DEF upto
  <2>3. Cardinality(upto(q)) # Cardinality(upto(p))
    BY <2>1, <2>2, FS_Subset
  <2> QED BY <1>2, <2>3
<1>5. \A p, q \in P : Rank(p, P) = Rank(q, P) => p = q
  <2> SUFFICES ASSUME NEW p \in P, NEW q \in P, Rank(p, P) = Rank(q, P) PROVE p = q
    OBVIOUS
  <2>1. p < q \/ q < p \/ p = q
    OBVIOUS
  <2> QED BY <1>4, <2>1
<1>6. rank \in Injection(P, 1..n)
  BY <1>3, <1>5 DEF Injection, IsInjective
<1>7. IsFiniteSet(1..n) /\ Cardinality(1..n) = n
  BY FS_Interval
<1> HIDE DEF rank
<1>8. rank \in Surjection(P, 1..n)
  BY <1>6, <1>7, FS_Injection
<1> USE DEF rank
<1>9. \A i \in 1..n : \E p \in P : Rank(p, P) = i
  BY <1>8 DEF Surjection
<1> QED BY <1>3, <1>5, <1>9

(* As many of them are among the first r as r says.                         *)
LEMMA FirstRanks ==
  ASSUME NEW P, IsFiniteSet(P), P \subseteq Int, NEW n \in Nat, n = Cardinality(P),
         NEW r \in 0..n
  PROVE  Cardinality({p \in P : Rank(p, P) <= r}) = r
<1> DEFINE first == {p \in P : Rank(p, P) <= r}
           rank == [p \in first |-> Rank(p, P)]
<1>1. /\ \A p \in P : Rank(p, P) \in 1..n
      /\ \A p, q \in P : Rank(p, P) = Rank(q, P) => p = q
      /\ \A i \in 1..n : \E p \in P : Rank(p, P) = i
  BY RankIs
<1>2. first \in SUBSET P /\ \A p \in first : Rank(p, P) \in 1..r
  BY <1>1
<1>3. IsFiniteSet(first)
  BY <1>2, FS_Subset
<1>4. rank \in [first -> 1..r] /\ \A p, q \in first : rank[p] = rank[q] => p = q
  BY <1>1, <1>2
<1>5. \A i \in 1..r : \E p \in first : rank[p] = i
  BY <1>1
<1> HIDE DEF rank, first
<1>6. rank \in Bijection(first, 1..r)
  BY <1>4, <1>5 DEF Bijection, Injection, Surjection, IsInjective
<1>7. Cardinality(1..r) = r
  BY FS_Interval
<1>8. Cardinality(1..r) = Cardinality(first)
  BY <1>3, <1>6, FS_Bijection DEF ExistsBijection
<1> QED BY <1>7, <1>8 DEF first

(* The shares of all participants add up to the total.                      *)
LEMMA SharesAddUp ==
  ASSUME NEW P, IsFiniteSet(P), P \subseteq Int, P # {}, NEW total \in Nat,
         NEW share, \A p \in P : share[p] = Share(total, P, p)
  PROVE  /\ \A p \in P : share[p] \in {total \div Cardinality(P), total \div Cardinality(P) + 1}
         /\ total \div Cardinality(P) \in Nat
         /\ SumOf(share, P) = total
<1>1. PICK n \in Nat : n = Cardinality(P) /\ n > 0
  <2>1. Cardinality(P) \in Nat /\ Cardinality(P) # 0
    BY FS_CardinalityType, FS_EmptySet
  <2> QED BY <2>1
<1>2. PICK q \in Nat, r \in 0..(n - 1) :
        q = total \div n /\ r = total % n /\ total = n * q + r
  <2>1. total \div n \in Nat /\ total % n \in 0..(n - 1)
    BY <1>1
  <2>2. total = n * (total \div n) + (total % n)
    BY <1>1
  <2> QED BY <2>1, <2>2
<1> DEFINE first == {p \in P : Rank(p, P) <= r}
           more == [p \in P |-> IF p \in first THEN 1 ELSE 0]
           same == [p \in P |-> q]
<1>3. ASSUME NEW p \in P PROVE share[p] = same[p] + more[p]
  BY <1>1, <1>2 DEF Share
<1>4. \A p \in P : same[p] = q /\ same[p] \in Int /\ more[p] \in Int
  BY <1>2
<1>5. first \in SUBSET P /\ \A p \in first : more[p] = 1
  OBVIOUS
<1>6. P \ first \in SUBSET P /\ \A p \in P \ first : more[p] = 0
  OBVIOUS
<1>7. Cardinality(first) = r
  <2>1. n \in Nat /\ r \in 0..n
    BY <1>1, <1>2
  <2>2. Cardinality({p \in P : Rank(p, P) <= r}) = r
    BY <1>1, <2>1, FirstRanks
  <2> QED BY <2>2
<1>8. \A p \in P : share[p] \in {q, q + 1}
  BY <1>3
<1> HIDE DEF first, more, same
<1>9. IsFiniteSet(first) /\ IsFiniteSet(P \ first)
  BY <1>5, <1>6, FS_Subset
<1>10. SumOf(more, first) = r
  <2>1. SumOf(more, first) = 1 * Cardinality(first)
    <3>1. 1 \in Int /\ \A x \in first : more[x] = 1
      BY <1>5
    <3> QED BY <1>9, <3>1, SumConst
  <2> QED BY <1>7, <2>1
<1>11. SumOf(more, P \ first) = 0
  BY <1>6, <1>9, SumZero
<1>12. SumOf(more, P) = r
  <2>1. first \cup (P \ first) = P /\ first \cap (P \ first) = {}
    BY <1>5
  <2>2. SumOf(more, first \cup (P \ first)) = SumOf(more, first) + SumOf(more, P \ first)
    BY <1>4, <1>9, <2>1, SumUnion
  <2> QED BY <1>10, <1>11, <2>1, <2>2
<1>13. SumOf(same, P) = q * n
  BY <1>1, <1>4, SumConst
<1>14. SumOf(share, P) = SumOf(same, P) + SumOf(more, P)
  BY <1>3, <1>4, SumAdd
<1>15. q * n = n * q
  OBVIOUS
<1>16. SumOf(share, P) = total
  BY <1>2, <1>12, <1>13, <1>14, <1>15
<1> QED BY <1>1, <1>2, <1>8, <1>16

(* The amounts of some debts.                                               *)
AmountOf(edges) == MapThenSumSet(LAMBDA d : d.amount, edges)
LEMMA AmountsSum ==
  ASSUME NEW edges, IsFiniteSet(edges), \A d \in edges : d.amount \in Int,
         NEW g, \A d \in edges : g[d] = d.amount
  PROVE  AmountOf(edges) = SumOf(g, edges)
<1> DEFINE it == CHOOSE it : it = [s \in SUBSET edges |->
                   IF s = {} THEN 0
                   ELSE (CHOOSE x \in s : TRUE).amount + it[s \ {CHOOSE x \in s : TRUE}]]
<1>1. \A s \in SUBSET edges : s # {} => (CHOOSE x \in s : TRUE) \in s
  OBVIOUS
<1>2. PICK jt : Iterates(jt, g, edges) /\ SumOf(g, edges) = jt[edges]
  BY SumOfIterates
<1>3. jt = [s \in SUBSET edges |->
              IF s = {} THEN 0
              ELSE (CHOOSE x \in s : TRUE).amount + jt[s \ {CHOOSE x \in s : TRUE}]]
  <2>1. /\ jt = [s \in SUBSET edges |-> AddChosen(jt, g, s)]
        /\ \A s \in SUBSET edges : jt[s] = AddChosen(jt, g, s)
    BY <1>2 DEF Iterates
  <2>2. ASSUME NEW s \in SUBSET edges
        PROVE  AddChosen(jt, g, s) =
                 IF s = {} THEN 0
                 ELSE (CHOOSE x \in s : TRUE).amount + jt[s \ {CHOOSE x \in s : TRUE}]
    BY <1>1 DEF AddChosen
  <2> QED BY <2>1, <2>2
<1>4. it = [s \in SUBSET edges |->
              IF s = {} THEN 0
              ELSE (CHOOSE x \in s : TRUE).amount + it[s \ {CHOOSE x \in s : TRUE}]]
  BY <1>3
<1>5. AmountOf(edges) = it[edges]
  BY DEF AmountOf, MapThenSumSet, MapThenFoldSet
<1> HIDE DEF it
<1>6. Iterates(it, g, edges)
  <2>1. \A s \in SUBSET edges :
          AddChosen(it, g, s) =
            IF s = {} THEN 0
            ELSE (CHOOSE x \in s : TRUE).amount + it[s \ {CHOOSE x \in s : TRUE}]
    BY <1>1 DEF AddChosen
  <2> QED BY <1>4, <2>1 DEF Iterates
<1>7. \A d \in edges : g[d] \in Int
  OBVIOUS
<1>8. it[edges] = jt[edges]
  BY <1>2, <1>6, <1>7, SumAgree
<1> QED BY <1>2, <1>5, <1>8

(* The debts of an expense add up to the shares of those who owe one.       *)
LEMMA DebtsOfShares ==
  ASSUME NEW Q, IsFiniteSet(Q), NEW share, \A p \in Q : share[p] \in Int, NEW payer
  PROVE  AmountOf({[debtor |-> p, creditor |-> payer, amount |-> share[p]] : p \in Q})
           = SumOf(share, Q)
<1> DEFINE edge(p) == [debtor |-> p, creditor |-> payer, amount |-> share[p]]
           E == {edge(p) : p \in Q}
           g == [d \in E |-> d.amount]
<1>1. PICK n, f : n \in Nat /\ Enumerates(f, n, Q)
  <2>1. Cardinality(Q) \in Nat /\ ExistsBijection(1..Cardinality(Q), Q)
    BY FS_CardinalityType
  <2>2. PICK f : f \in Bijection(1..Cardinality(Q), Q)
    BY <2>1 DEF ExistsBijection
  <2>3. Enumerates(f, Cardinality(Q), Q)
    BY <2>2 DEF Enumerates, Bijection, Injection, Surjection, IsInjective
  <2> QED BY <2>1, <2>3
<1>2. /\ f \in [1..n -> Q]
      /\ \A i, j \in 1..n : f[i] = f[j] => i = j
      /\ \A x \in Q : \E i \in 1..n : f[i] = x
  BY <1>1 DEF Enumerates
<1> DEFINE e == [i \in 1..n |-> edge(f[i])]
           h == [i \in 1..n |-> share[f[i]]]
<1>3. \A i \in 1..n : f[i] \in Q /\ e[i] = edge(f[i]) /\ e[i] \in E /\ e[i].debtor = f[i]
  BY <1>2
<1>4. Enumerates(e, n, E)
  <2>1. e \in [1..n -> E]
    BY <1>3
  <2>2. \A i, j \in 1..n : e[i] = e[j] => i = j
    BY <1>2, <1>3
  <2>3. \A x \in E : \E i \in 1..n : e[i] = x
    BY <1>2, <1>3
  <2> QED BY <2>1, <2>2, <2>3 DEF Enumerates
<1>5. \A d \in E : d.amount \in Int /\ g[d] = d.amount /\ g[d] \in Int
  OBVIOUS
<1>6. IsFiniteSet(E)
  <2>1. [p \in Q |-> edge(p)] \in Surjection(Q, E)
    BY DEF Surjection
  <2> HIDE DEF E
  <2> QED BY <2>1, FS_Surjection
<1>7. \A i \in 1..n : h[i] = share[f[i]] /\ h[i] = g[e[i]]
  BY <1>3, <1>5
<1> HIDE DEF g, h, e, E
<1>8. SumOf(h, 1..n) = SumOf(share, Q)
  BY <1>1, <1>7, SumEnumerated
<1>9. SumOf(h, 1..n) = SumOf(g, E)
  <2>1. /\ n \in Nat /\ Enumerates(e, n, E)
        /\ \A x \in E : g[x] \in Int
        /\ \A i \in 1..n : h[i] = g[e[i]]
    BY <1>1, <1>4, <1>5, <1>7
  <2> QED BY ONLY <2>1, SumEnumerated
<1>10. AmountOf(E) = SumOf(g, E)
  BY <1>5, <1>6, AmountsSum
<1> QED BY <1>8, <1>9, <1>10 DEF E

(* Of one or two neighbouring numbers the extremes are not far apart.       *)
LEMMA FairIs ==
  ASSUME NEW q \in Nat, NEW fair, fair # {}, fair \subseteq {q, q + 1}
  PROVE  Max(fair) - Min(fair) <= 1
<1>0. \A x \in fair : (x = q \/ x = q + 1) /\ x \in Int
  OBVIOUS
<1>1. \E x \in fair : \A y \in fair : x >= y
  <2>1. CASE q + 1 \in fair
    BY <1>0, <2>1
  <2>2. CASE q + 1 \notin fair
    <3>1. PICK x \in fair : TRUE
      OBVIOUS
    <3>2. \A y \in fair : x >= y
      BY <1>0, <2>2
    <3> QED BY <3>2
  <2> QED BY <2>1, <2>2
<1>2. \E x \in fair : \A y \in fair : x <= y
  <2>1. CASE q \in fair
    BY <1>0, <2>1
  <2>2. CASE q \notin fair
    <3>1. PICK x \in fair : TRUE
      OBVIOUS
    <3>2. \A y \in fair : x <= y
      BY <1>0, <2>2
    <3> QED BY <3>2
  <2> QED BY <2>1, <2>2
<1>3. Max(fair) \in fair
  BY <1>1 DEF Max
<1>4. Min(fair) \in fair
  BY <1>2 DEF Min
<1>5. (Max(fair) = q \/ Max(fair) = q + 1) /\ (Min(fair) = q \/ Min(fair) = q + 1)
  BY <1>0, <1>3, <1>4
<1> QED BY <1>5

(* An expense of any size among any number of people: with the payer's own  *)
(* share the debts are exactly the total, and no share is more than a paisa *)
(* above another.                                                           *)
THEOREM SplitsAddUp ==
  ASSUME NEW P, IsFiniteSet(P), P \subseteq Int, P # {}, NEW total \in Nat, NEW payer \in Int
  PROVE  SplitAddsUp(total, payer, P)
<1> DEFINE share == [p \in P |-> Share(total, P, p)]
           Q == {p \in P \ {payer} : Share(total, P, p) > 0}
           others == P \ {payer}
           own == IF payer \in P THEN Share(total, P, payer) ELSE 0
           fair == {Share(total, P, p) : p \in P}
           owings == ExpenseShares(total, payer, P)
<1>1. PICK q : q = total \div Cardinality(P)
  OBVIOUS
<1>2. \A p \in P : share[p] = Share(total, P, p)
  OBVIOUS
<1>3. /\ \A p \in P : share[p] \in {q, q + 1}
      /\ q \in Nat
      /\ SumOf(share, P) = total
  BY <1>1, <1>2, SharesAddUp
<1>4. \A p \in P : share[p] \in Nat
  BY <1>3
<1>5. owings = {[debtor |-> p, creditor |-> payer, amount |-> share[p]] : p \in Q}
  BY DEF ExpenseShares
<1>6. Q \in SUBSET others /\ others \in SUBSET P
  OBVIOUS
<1>7. IsFiniteSet(others) /\ IsFiniteSet(Q) /\ IsFiniteSet(others \ Q)
  <2> HIDE DEF Q, others
  <2>1. IsFiniteSet(others)
    BY <1>6, FS_Subset
  <2>2. others \ Q \in SUBSET others
    OBVIOUS
  <2> QED BY <1>6, <2>1, <2>2, FS_Subset
<1>8. \A p \in others \ Q : share[p] = 0
  BY <1>4
<1>9. fair # {} /\ fair \subseteq {q, q + 1}
  BY <1>2, <1>3
<1>10. payer \in P => own = share[payer]
  OBVIOUS
<1>11. payer \notin P => own = 0 /\ others = P
  OBVIOUS
<1>12. payer \in P => others = P \ {payer}
  OBVIOUS
<1> HIDE DEF share, Q, others, own, fair, owings
<1>a. /\ \A p \in Q : share[p] \in Int
      /\ \A p \in others : share[p] \in Int
      /\ \A p \in P : share[p] \in Int
  BY <1>4, <1>6
<1>13. AmountOf(owings) = SumOf(share, Q)
  BY <1>a, <1>5, <1>7, DebtsOfShares
<1>14. SumOf(share, others) = SumOf(share, Q)
  <2>1. SumOf(share, others \ Q) = 0
    BY <1>7, <1>8, SumZero
  <2>2. Q \cup (others \ Q) = others /\ Q \cap (others \ Q) = {}
    BY <1>6
  <2>3. SumOf(share, Q \cup (others \ Q)) = SumOf(share, Q) + SumOf(share, others \ Q)
    BY <1>a, <1>7, <2>2, SumUnion
  <2>4. SumOf(share, Q) \in Int
    BY <1>a, <1>7, SumType
  <2>5. SumOf(share, others) = SumOf(share, Q) + SumOf(share, others \ Q)
    BY <2>2, <2>3, Zenon
  <2> QED BY <2>1, <2>4, <2>5
<1>15. own + SumOf(share, others) = total
  <2>1. CASE payer \in P
    <3>1. SumOf(share, P) = share[payer] + SumOf(share, P \ {payer})
      BY <1>a, <2>1, SumWithout
    <3> QED BY <1>3, <1>10, <1>12, <2>1, <3>1
  <2>2. CASE payer \notin P
    BY <1>3, <1>11, <2>2
  <2> QED BY <2>1, <2>2
<1>16. own + AmountOf(owings) = total
  BY <1>13, <1>14, <1>15
<1>17. Max(fair) - Min(fair) <= 1
  BY <1>3, <1>9, FairIs
<1> QED BY <1>16, <1>17 DEF SplitAddsUp, AmountOf, own, fair, owings
-------------------------------------------------------------------------------
(* Typed amounts *)

(* No digits, one, or two.                                                  *)
LEMMA DigitsShort ==
  ASSUME NEW seq, seq \in Seq(0..9), Len(seq) <= 2
  PROVE  Digits(seq) = IF Len(seq) = 0 THEN 0
                       ELSE IF Len(seq) = 1 THEN seq[1] ELSE 10 * seq[1] + seq[2]
<1>0. Len(seq) \in Nat /\ DOMAIN seq = 1..Len(seq) /\ 0 \in Nat
  OBVIOUS
<1>1. PICK n, W, b : n = Len(seq) /\ n \in Nat /\ W = Nat /\ b = 0 /\ DOMAIN seq = 1..n /\ b \in W
  BY <1>0
<1>2. \A i \in 1..n : seq[i] \in Nat
  BY <1>1
<1>3. DigitsIn(W, seq, n)
  BY <1>1, <1>2 DEF DigitsIn, WithDigit
<1>4. \E g \in [0..n -> W] :
        /\ g[0] = b
        /\ \A j \in 1..n : g[j] = WithDigit(g[j - 1], seq[j])
        /\ DigitsSince(b, seq) = g[n]
  <2>1. n \in Nat /\ b \in W /\ DOMAIN seq = 1..n /\ DigitsIn(W, seq, n)
    BY <1>1, <1>3
  <2> QED BY ONLY <2>1, DigitsFold
<1>5. PICK g : /\ g[0] = 0
               /\ \A j \in 1..n : g[j] = WithDigit(g[j - 1], seq[j])
               /\ Digits(seq) = g[n]
  BY <1>1, <1>4, DigitsFrom
<1>6. CASE n = 0
  BY <1>1, <1>5, <1>6
<1>7. CASE n = 1
  <2>1. 1 \in 1..n /\ 1 - 1 = 0
    BY <1>7
  <2>2. g[1] = 10 * g[0] + seq[1] /\ seq[1] \in Nat
    BY <1>2, <1>5, <2>1 DEF WithDigit
  <2> QED BY <1>1, <1>5, <1>7, <2>2
<1>8. CASE n = 2
  <2>1. 1 \in 1..n /\ 1 - 1 = 0 /\ 2 \in 1..n /\ 2 - 1 = 1
    BY <1>8
  <2>2. /\ g[1] = 10 * g[0] + seq[1] /\ seq[1] \in Nat
        /\ g[2] = 10 * g[1] + seq[2] /\ seq[2] \in Nat
    BY <1>2, <1>5, <2>1 DEF WithDigit
  <2>3. g[1] = seq[1]
    BY <1>5, <2>2
  <2> QED BY <1>1, <1>5, <1>8, <2>2, <2>3
<1> QED BY <1>1, <1>6, <1>7, <1>8

(* The digits of a fraction that is short, filled with noughts.             *)
LEMMA PaddedIs ==
  ASSUME NEW frac \in Seq(0..9), Len(frac) <= 2
  PROVE  Digits(Padded(frac)) =
           IF Len(frac) = 0 THEN 0 ELSE IF Len(frac) = 1 THEN 10 * frac[1] ELSE 10 * frac[1] + frac[2]
<1> DEFINE all == frac \o <<0, 0>>
           digits == Padded(frac)
<1>1. PICK n \in Nat : n = Len(frac) /\ \A i \in 1..n : frac[i] \in 0..9
  OBVIOUS
<1>2. <<0, 0>> \in Seq(0..9) /\ Len(<<0, 0>>) = 2
  OBVIOUS
<1>3. /\ all \in Seq(0..9) /\ Len(all) = n + 2
      /\ \A i \in 1..(n + 2) : all[i] = IF i <= n THEN frac[i] ELSE 0
  BY <1>1, <1>2
<1> HIDE DEF all
<1>4. /\ DOMAIN SubSeq(all, 1, 2) = 1..2 /\ \A i \in 1..2 : SubSeq(all, 1, 2)[i] = all[i]
      /\ 1 \in DOMAIN all /\ 2 \in DOMAIN all
  BY <1>3
<1>5. DOMAIN digits = 1..2 /\ digits[1] = all[1] /\ digits[2] = all[2]
  BY <1>4 DEF Padded, all
<1> HIDE DEF digits
<1>6. all[1] \in Nat /\ all[2] \in Nat
  BY <1>1, <1>3
<1>7. Digits(digits) = 10 * all[1] + all[2]
  BY <1>5, <1>6, DigitsAre
<1>8. n = 0 => all[1] = 0 /\ all[2] = 0
  BY <1>3
<1>9. n = 1 => all[1] = frac[1] /\ all[2] = 0
  BY <1>3
<1>10. n = 2 => all[1] = frac[1] /\ all[2] = frac[2]
  BY <1>3
<1> QED BY <1>1, <1>6, <1>7, <1>8, <1>9, <1>10 DEF digits

(* What a short fraction is a fraction of.                                  *)
Unit(n) == IF n = 0 THEN 1 ELSE IF n = 1 THEN 10 ELSE 100
LEMMA ExactlyIs ==
  ASSUME NEW typed, Len(typed.frac) \in 0..2, NEW paisa
  PROVE  Exactly(typed, paisa) <=>
           100 * (typed.whole * Unit(Len(typed.frac)) + Digits(typed.frac))
             = paisa * Unit(Len(typed.frac))
<1> DEFINE n == Len(typed.frac)
           ten == CHOOSE ten : ten = [i \in 0..n |-> IF i = 0 THEN 1 ELSE 10 * ten[i - 1]]
<1>1. \E jt : jt = [i \in 0..n |-> IF i = 0 THEN 1 ELSE 10 * jt[i - 1]]
  <2> DEFINE jt == [i \in 0..n |-> Unit(i)]
  <2>1. ASSUME NEW i \in 0..n, i # 0 PROVE Unit(i) = 10 * jt[i - 1]
    <3>1. i - 1 \in 0..n /\ (i = 1 \/ i = 2)
      <4>1. PICK m \in 0..2 : m = n
        OBVIOUS
      <4> HIDE DEF n
      <4> QED BY <2>1, <4>1
    <3> QED BY <3>1 DEF Unit
  <2>2. jt = [i \in 0..n |-> IF i = 0 THEN 1 ELSE 10 * jt[i - 1]]
    <3> HIDE DEF n
    <3>1. \A i \in 0..n : Unit(i) = IF i = 0 THEN 1 ELSE 10 * jt[i - 1]
      BY <2>1 DEF Unit
    <3> QED BY <3>1
  <2> QED BY <2>2
<1>2. ten = [i \in 0..n |-> IF i = 0 THEN 1 ELSE 10 * ten[i - 1]]
  BY <1>1
<1>3. Exactly(typed, paisa) <=> 100 * (typed.whole * ten[n] + Digits(typed.frac)) = paisa * ten[n]
  BY DEF Exactly
<1> HIDE DEF ten
<1>4. \A i \in 0..n : ten[i] = IF i = 0 THEN 1 ELSE 10 * ten[i - 1]
  BY <1>2
<1>5. ten[n] = Unit(n)
  <2>1. ten[0] = 1
    BY <1>4
  <2>2. n >= 1 => ten[1] = 10 * ten[1 - 1]
    BY <1>4
  <2>3. n >= 2 => ten[2] = 10 * ten[2 - 1]
    BY <1>4
  <2>4. PICK m \in 0..2 : m = n
    OBVIOUS
  <2> HIDE DEF n
  <2>5. m = 0 \/ m = 1 \/ m = 2
    OBVIOUS
  <2> QED BY <2>1, <2>2, <2>3, <2>4, <2>5 DEF Unit
<1> QED BY <1>3, <1>5

(* What is typed with at most two decimals is recorded exactly.             *)
LEMMA TypedExactly ==
  ASSUME NEW typed \in [whole : Nat, frac : Seq(0..9)], Len(typed.frac) <= 2
  PROVE  Exactly(typed, BdtToPaisa(typed))
<1>1. PICK w \in Nat, frac \in Seq(0..9) : w = typed.whole /\ frac = typed.frac
  OBVIOUS
<1>a. Len(frac) \in 0..2 /\ \A i \in 1..Len(frac) : frac[i] \in Nat
  <2>1. \A i \in 1..Len(frac) : frac[i] \in 0..9
    BY <1>1
  <2>2. PICK n \in Nat : n = Len(frac) /\ n <= 2
    BY <1>1
  <2>6. n \in 0..2
    BY <2>2
  <2>3. Len(frac) \in 0..2
    BY <2>2, <2>6, Zenon
  <2>4. \A x \in 0..9 : x \in Nat
    OBVIOUS
  <2>5. \A i \in 1..Len(frac) : frac[i] \in Nat
    BY <2>1, <2>4
  <2> QED BY <2>3, <2>5
<1>b. PICK n \in 0..2 : n = Len(frac)
  BY <1>a
<1>2. n = Len(frac) /\ \A i \in 1..n : frac[i] \in Nat
  BY <1>a, <1>b
<1>3. PICK d : d = Digits(frac)
  OBVIOUS
<1>4. d = IF n = 0 THEN 0 ELSE IF n = 1 THEN frac[1] ELSE 10 * frac[1] + frac[2]
  BY <1>1, <1>2, <1>3, DigitsShort
<1>5. PICK p : p = BdtToPaisa(typed)
  OBVIOUS
<1>6. p = w * 100 + (IF n = 0 THEN 0 ELSE IF n = 1 THEN 10 * frac[1] ELSE 10 * frac[1] + frac[2])
  BY <1>1, <1>2, <1>5, PaddedIs DEF BdtToPaisa, PaisaPerBdt
<1>7. Exactly(typed, p) <=> 100 * (w * Unit(n) + d) = p * Unit(n)
  <2>1. Len(typed.frac) \in 0..2
    BY <1>1, <1>2
  <2> QED BY <1>1, <1>2, <1>3, <2>1, ExactlyIs
<1>8. 100 * (w * Unit(n) + d) = p * Unit(n)
  <2>1. CASE n = 0
    BY <1>4, <1>6, <2>1 DEF Unit
  <2>2. CASE n = 1
    <3>1. frac[1] \in Nat
      BY <1>2, <2>2
    <3> QED BY <1>4, <1>6, <2>2, <3>1 DEF Unit
  <2>3. CASE n = 2
    <3>1. frac[1] \in Nat /\ frac[2] \in Nat
      BY <1>2, <2>3
    <3> QED BY <1>4, <1>6, <2>3, <3>1 DEF Unit
  <2> QED BY <2>1, <2>2, <2>3
<1> QED BY <1>5, <1>7, <1>8

(* What is recorded is shown exactly.                                       *)
LEMMA ShownExactly ==
  ASSUME NEW paisa \in Nat
  PROVE  Exactly(PaisaToBdt(paisa), paisa)
<1>1. PICK w \in Nat, r \in 0..99 : w = paisa \div 100 /\ r = paisa % 100 /\ paisa = 100 * w + r
  OBVIOUS
<1>2. PICK a \in 0..9, b \in 0..9 : a = r \div 10 /\ b = r % 10 /\ r = 10 * a + b
  OBVIOUS
<1>3. PICK typed : typed = PaisaToBdt(paisa)
  OBVIOUS
<1>4. typed.whole = w /\ typed.frac = <<a, b>>
  BY <1>1, <1>2, <1>3 DEF PaisaToBdt, PaisaPerBdt, TwoDigits
<1>5. <<a, b>> \in Seq(0..9) /\ Len(<<a, b>>) = 2 /\ <<a, b>>[1] = a /\ <<a, b>>[2] = b
  OBVIOUS
<1>6. Digits(<<a, b>>) = 10 * a + b
  <2>1. PICK seq \in Seq(0..9) : seq = <<a, b>>
    BY <1>5
  <2>2. Len(seq) = 2 /\ Len(seq) <= 2 /\ seq[1] = a /\ seq[2] = b
    BY <1>5, <2>1
  <2>3. Digits(seq) = IF Len(seq) = 0 THEN 0
                      ELSE IF Len(seq) = 1 THEN seq[1] ELSE 10 * seq[1] + seq[2]
    BY <2>2, DigitsShort
  <2>4. Digits(seq) = 10 * a + b
    BY <2>2, <2>3
  <2> QED BY <2>1, <2>4
<1>7. Exactly(typed, paisa) <=> 100 * (w * Unit(2) + (10 * a + b)) = paisa * Unit(2)
  <2>1. Len(typed.frac) = 2 /\ Len(typed.frac) \in 0..2
    BY <1>4, <1>5
  <2>2. Exactly(typed, paisa) <=>
          100 * (typed.whole * Unit(Len(typed.frac)) + Digits(typed.frac))
            = paisa * Unit(Len(typed.frac))
    BY <2>1, ExactlyIs
  <2> QED BY <1>4, <1>6, <2>1, <2>2
<1>8. 100 * (w * Unit(2) + (10 * a + b)) = paisa * Unit(2)
  BY <1>1, <1>2 DEF Unit
<1> QED BY <1>3, <1>7, <1>8
-------------------------------------------------------------------------------
(* The plan does not depend on the order of the rows *)

Distinct(seq) == \A i, j \in 1..Len(seq) : seq[i] = seq[j] => i = j

LEMMA NotedOnce ==
  ASSUME NEW S, NEW ids \in Seq(S), NEW id \in S, Distinct(ids)
  PROVE  Distinct(Noted(ids, id))
<1>1. CASE id \in ToSet(ids)
  BY <1>1 DEF Noted
<1>2. CASE id \notin ToSet(ids)
  <2>1. PICK n \in Nat : n = Len(ids)
    OBVIOUS
  <2>2. PICK more : more = Noted(ids, id)
    OBVIOUS
  <2>3. /\ Len(more) = n + 1 /\ more[n + 1] = id
        /\ \A i \in 1..n : more[i] = ids[i]
    BY <1>2, <2>1, <2>2 DEF Noted
  <2>4. \A i \in 1..n : ids[i] # id
    BY <1>2, <2>1 DEF ToSet
  <2>5. \A i, j \in 1..n : ids[i] = ids[j] => i = j
    BY <2>1 DEF Distinct
  <2>6. ASSUME NEW i \in 1..(n + 1), NEW j \in 1..(n + 1), more[i] = more[j] PROVE i = j
    <3>1. (i = n + 1 \/ i \in 1..n) /\ (j = n + 1 \/ j \in 1..n)
      BY <2>1
    <3> QED BY <2>3, <2>4, <2>5, <2>6, <3>1
  <2> QED BY <2>2, <2>3, <2>6 DEF Distinct
<1> QED BY <1>1, <1>2

(* Who appears in the first n of some debts.                                *)
Sides(edges, n) == {edges[i].creditor : i \in 1..n} \cup {edges[i].debtor : i \in 1..n}

(* Each member is mentioned once.                                           *)
LEMMA MentionedOnce ==
  ASSUME NEW users, NEW edges, Proper(edges, users), NEW n \in Nat, DOMAIN edges = 1..n
  PROVE  /\ Mentioned(edges) \in Seq(users)
         /\ Distinct(Mentioned(edges))
         /\ ToSet(Mentioned(edges)) = Sides(edges, n)
<1>2. \A i \in 1..n : edges[i].debtor \in users /\ edges[i].creditor \in users
  BY DEF Proper
<1> DEFINE W == {s \in Seq(users) : Distinct(s)}
           step(ids, i) == Noted(Noted(ids, edges[i].creditor), edges[i].debtor)
<1>3. ASSUME NEW ids \in W, NEW i \in 1..n
      PROVE  /\ step(ids, i) \in W
             /\ ToSet(step(ids, i)) = ToSet(ids) \cup {edges[i].creditor, edges[i].debtor}
  <2>1. PICK c \in users, d \in users : c = edges[i].creditor /\ d = edges[i].debtor
    BY <1>2
  <2>2. PICK first \in Seq(users) :
          first = Noted(ids, c) /\ ToSet(first) = ToSet(ids) \cup {c} /\ Distinct(first)
    <3>1. ids \in Seq(users) /\ Distinct(ids)
      OBVIOUS
    <3> QED BY <3>1, NotedIs, NotedOnce
  <2>4. PICK both : both = Noted(first, d)
    OBVIOUS
  <2>5. both \in Seq(users) /\ ToSet(both) = ToSet(first) \cup {d} /\ Distinct(both)
    <3>1. first \in Seq(users) /\ d \in users /\ Distinct(first)
      BY <2>2
    <3>2. Noted(first, d) \in Seq(users) /\ ToSet(Noted(first, d)) = ToSet(first) \cup {d}
      BY ONLY <3>1, NotedIs
    <3>3. Distinct(Noted(first, d))
      BY ONLY <3>1, NotedOnce
    <3> QED BY <2>4, <3>2, <3>3
  <2>6. both = step(ids, i)
    BY <2>1, <2>2, <2>4
  <2>7. ToSet(both) = ToSet(ids) \cup {edges[i].creditor, edges[i].debtor}
    BY <2>1, <2>2, <2>5
  <2> HIDE DEF step
  <2> QED BY <2>5, <2>6, <2>7
<1>4. <<>> \in W
  BY DEF Distinct
<1> HIDE DEF W
<1>5. MentionedIn(W, edges, n)
  BY <1>3 DEF MentionedIn
<1>6. PICK g \in [0..n -> W] :
        /\ g[0] = <<>>
        /\ \A j \in 1..n : g[j] = step(g[j - 1], j)
        /\ Mentioned(edges) = g[n]
  BY <1>4, <1>5, MentionedFold, MentionedFrom
<1> DEFINE T == {j \in Nat : j <= n => ToSet(g[j]) = Sides(edges, j)}
<1>7. 0 \in T
  <2>1. 1..0 = {}
    OBVIOUS
  <2>2. Sides(edges, 0) = {}
    BY <2>1 DEF Sides
  <2>3. ToSet(<<>>) = {}
    BY DEF ToSet
  <2> QED BY <1>6, <2>2, <2>3
<1>8. ASSUME NEW j \in T PROVE j + 1 \in T
  <2> SUFFICES ASSUME j + 1 <= n PROVE ToSet(g[j + 1]) = Sides(edges, j + 1)
    OBVIOUS
  <2>1. j \in Nat /\ j + 1 \in 1..n /\ (j + 1) - 1 = j /\ j \in 0..n
    OBVIOUS
  <2>2. g[j + 1] = step(g[j], j + 1) /\ g[j] \in W
    BY <1>6, <2>1
  <2>3. ToSet(g[j]) = Sides(edges, j)
    BY <2>1
  <2> HIDE DEF step, T
  <2>4. ToSet(g[j + 1]) = ToSet(g[j]) \cup {edges[j + 1].creditor, edges[j + 1].debtor}
    BY <1>3, <2>1, <2>2
  <2>5. 1..(j + 1) = 1..j \cup {j + 1}
    BY <2>1
  <2>6. Sides(edges, j + 1) = Sides(edges, j) \cup {edges[j + 1].creditor, edges[j + 1].debtor}
    BY <2>5 DEF Sides
  <2> QED BY <2>3, <2>4, <2>6
<1>9. T = Nat
  <2>1. T \subseteq Nat
    OBVIOUS
  <2> HIDE DEF T
  <2> QED BY <1>7, <1>8, <2>1, NatSetInduction
<1>10. ToSet(g[n]) = Sides(edges, n)
  BY <1>9
<1>11. g[n] \in W
  BY <1>6
<1> QED BY <1>6, <1>10, <1>11 DEF W

(* So there are as many as the sequence is long.                            *)
LEMMA MentionedLength ==
  ASSUME NEW users, NEW edges, Proper(edges, users)
  PROVE  /\ IsFiniteSet(ToSet(Mentioned(edges)))
         /\ Len(Mentioned(edges)) = Cardinality(ToSet(Mentioned(edges)))
<1>1. PICK ids : ids = Mentioned(edges)
  OBVIOUS
<1>2. PICK n \in Nat : DOMAIN edges = 1..n
  BY DEF Proper
<1>3. ids \in Seq(users) /\ Distinct(ids)
  BY <1>1, <1>2, MentionedOnce
<1>4. PICK k \in Nat : k = Len(ids) /\ DOMAIN ids = 1..k /\ ids \in [1..k -> users]
  BY <1>3
<1>5. \A i, j \in 1..k : ids[i] = ids[j] => i = j
  BY <1>3, <1>4 DEF Distinct
<1>6. ToSet(ids) = {ids[i] : i \in 1..k}
  BY <1>4 DEF ToSet
<1>7. ids \in Bijection(1..k, ToSet(ids))
  <2>1. ids \in [1..k -> ToSet(ids)] /\ \A x \in ToSet(ids) : \E i \in 1..k : ids[i] = x
    BY <1>4, <1>6
  <2> QED BY <1>5, <2>1 DEF Bijection, Injection, Surjection, IsInjective
<1>8. IsFiniteSet(1..k) /\ Cardinality(1..k) = k
  <2>1. 1 \in Int /\ k \in Int
    OBVIOUS
  <2>2. IsFiniteSet(1..k) /\ Cardinality(1..k) = IF 1 > k THEN 0 ELSE k - 1 + 1
    BY <2>1, FS_Interval
  <2> HIDE <1>4
  <2> QED BY <2>2
<1>9. IsFiniteSet(ToSet(ids)) /\ Cardinality(ToSet(ids)) = k
  BY <1>7, <1>8, FS_Bijection DEF ExistsBijection
<1> QED BY <1>1, <1>4, <1>9

-------------------------------------------------------------------------------
(* Pass 1: whom it has settled, and by which lines, once those of a set     *)
(* have had their turn; nobody's partner is open to choice.                 *)
NoTies(net, users) == \A m, n \in users : m # n /\ net[m] = net[n] => net[m] = 0
Met(m, net, users, turn) ==
  \E n \in users : net[m] = -net[n] /\ ((net[m] < 0 /\ m \in turn) \/ (net[n] < 0 /\ n \in turn))
Drawn(net, users, turn) ==
  {l \in Line(users) :
     l.from \in turn /\ net[l.from] < 0 /\ net[l.to] = -net[l.from] /\ l.amount = net[l.to]}
Matched(w, net, users, turn) ==
  /\ w \in Work(users)
  /\ \A m \in users : w.left[m] = IF Met(m, net, users, turn) THEN 0 ELSE net[m]
  /\ ToSet(w.plan) = Drawn(net, users, turn)

(* The lines of a plan with one more.                                       *)
LEMMA PaidTo ==
  ASSUME NEW users, NEW w \in Work(users), NEW d \in users, NEW c \in users, NEW a \in Nat \ {0}
  PROVE  LET v == PaidLine(w, d, c, a) IN
         /\ v \in Work(users)
         /\ v.left = [w.left EXCEPT ![d] = @ + a, ![c] = @ - a]
         /\ ToSet(v.plan) = ToSet(w.plan) \cup {[from |-> d, to |-> c, amount |-> a]}
<1> DEFINE l == [from |-> d, to |-> c, amount |-> a]
           v == PaidLine(w, d, c, a)
<1>1. PICK plan \in Seq(Line(users)), left \in [users -> Int] : plan = w.plan /\ left = w.left
  BY DEF Work
<1>2. l \in Line(users)
  BY DEF Line
<1>3. v = [left |-> [left EXCEPT ![d] = @ + a, ![c] = @ - a], plan |-> Append(plan, l)]
  BY <1>1 DEF PaidLine
<1> HIDE DEF l, v
<1>4. [left EXCEPT ![d] = @ + a, ![c] = @ - a] \in [users -> Int]
  BY <1>1
<1>5. Append(plan, l) \in Seq(Line(users))
  BY <1>2
<1>6. v \in Work(users)
  BY <1>3, <1>4, <1>5 DEF Work
<1>7. ToSet(Append(plan, l)) = ToSet(plan) \cup {l}
  <2>1. PICK n \in Nat : n = Len(plan) /\ DOMAIN plan = 1..n
    OBVIOUS
  <2>2. /\ DOMAIN Append(plan, l) = 1..(n + 1) /\ Append(plan, l)[n + 1] = l
        /\ \A i \in 1..n : Append(plan, l)[i] = plan[i]
    BY <2>1
  <2>3. 1..(n + 1) = 1..n \cup {n + 1}
    BY <2>1
  <2> QED BY <2>1, <2>2, <2>3 DEF ToSet
<1> QED BY <1>1, <1>3, <1>6, <1>7 DEF l, v

(* One more turn of pass 1.                                                 *)
LEMMA ExactTurn ==
  ASSUME NEW users, NEW net \in [users -> Int], NoTies(net, users),
         NEW ids, ids \in Seq(users), ToSet(ids) = users, NEW d \in users,
         NEW turn, turn \subseteq users, NEW w, Matched(w, net, users, turn)
  PROVE  Matched(ExactRound(w, ids, d), net, users, turn \cup {d})
<1> DEFINE later == turn \cup {d}
           equals == {i \in DOMAIN ids : w.left[ids[i]] = -w.left[d]}
<1>1. /\ w \in Work(users) /\ ToSet(w.plan) = Drawn(net, users, turn)
      /\ \A m \in users : w.left[m] = IF Met(m, net, users, turn) THEN 0 ELSE net[m]
  BY DEF Matched
<1>2. w.left \in [users -> Int] /\ \A m \in users : net[m] \in Int
  BY <1>1 DEF Work
<1>3. CASE net[d] >= 0
  <2>1. ~(w.left[d] < 0)
    BY <1>1, <1>3
  <2>2. ExactRound(w, ids, d) = w
    BY <2>1 DEF ExactRound
  <2>3. \A m \in users : Met(m, net, users, later) <=> Met(m, net, users, turn)
    <3>1. \A n \in users : (net[n] < 0 /\ n \in later) <=> (net[n] < 0 /\ n \in turn)
      BY <1>2, <1>3
    <3> QED BY <3>1 DEF Met
  <2>4. Drawn(net, users, later) = Drawn(net, users, turn)
    BY <1>2, <1>3 DEF Drawn, Line
  <2> QED BY <1>1, <2>2, <2>3, <2>4 DEF Matched
<1>4. CASE net[d] < 0 /\ d \in turn
  <2>1. later = turn
    BY <1>4
  <2>2. CASE Met(d, net, users, turn)
    <3>1. ~(w.left[d] < 0)
      BY <1>1, <2>2
    <3>2. ExactRound(w, ids, d) = w
      BY <3>1 DEF ExactRound
    <3> QED BY <2>1, <3>2
  <2>3. CASE ~Met(d, net, users, turn)
    <3>1. ASSUME NEW c \in users PROVE net[c] # -net[d]
      <4>1. net[d] # -net[c]
        BY <1>4, <2>3 DEF Met
      <4> QED BY <1>2, <4>1
    <3>2. \A c \in users : w.left[c] # -w.left[d]
      BY <1>1, <1>2, <1>4, <2>3, <3>1
    <3>3. equals = {}
      BY <3>2
    <3>4. ExactRound(w, ids, d) = w
      BY <3>3 DEF ExactRound
    <3> QED BY <2>1, <3>4
  <2> QED BY <2>2, <2>3
<1>5. CASE net[d] < 0 /\ d \notin turn
  <2>1. ~Met(d, net, users, turn)
    BY <1>2, <1>5 DEF Met
  <2>2. w.left[d] = net[d]
    BY <1>1, <2>1
  <2>3. ASSUME NEW c \in users
        PROVE  w.left[c] = -w.left[d] <=> net[c] = -net[d]
    <3>1. CASE w.left[c] = -w.left[d]
      BY <1>1, <1>2, <1>5, <2>2, <3>1
    <3>2. CASE net[c] = -net[d]
      <4>1. ~Met(c, net, users, turn)
        <5> SUFFICES ASSUME NEW n \in users, net[c] = -net[n],
                            (net[c] < 0 /\ c \in turn) \/ (net[n] < 0 /\ n \in turn)
                     PROVE  FALSE
          BY DEF Met
        <5>1. net[n] = net[d] /\ n \in turn
          BY <1>2, <1>5, <3>2
        <5>2. n # d
          BY <1>5, <5>1
        <5> QED BY <1>5, <5>1, <5>2 DEF NoTies
      <4>2. w.left[c] = net[c]
        BY <1>1, <4>1
      <4> QED BY <2>2, <3>2, <4>2
    <3> QED BY <3>1, <3>2
  <2>4. CASE \E c \in users : net[c] = -net[d]
    <3>1. PICK c \in users : net[c] = -net[d]
      BY <2>4
    <3>2. \A m \in users : net[m] = -net[d] => m = c
      BY <1>2, <1>5, <3>1 DEF NoTies
    <3>3. \E i \in DOMAIN ids : ids[i] = c
      BY DEF ToSet
    <3>4. Min(equals) \in equals /\ equals # {}
      <4>1. equals # {}
        BY <2>3, <3>1, <3>3
      <4>2. equals \in SUBSET Nat
        OBVIOUS
      <4> HIDE DEF equals
      <4> QED BY <4>1, <4>2, MinIn
    <3>5. ids[Min(equals)] = c
      <4>1. PICK i \in equals : i = Min(equals)
        BY <3>4
      <4>2. ids[i] \in users /\ w.left[ids[i]] = -w.left[d]
        OBVIOUS
      <4>3. ids[i] = c
        BY <2>3, <3>2, <4>2
      <4> QED BY <4>1, <4>3
    <3>6. PICK a \in Nat \ {0} : a = -net[d] /\ a = net[c] /\ a = -w.left[d]
      BY <1>2, <1>5, <2>2, <3>1
    <3>7. ExactRound(w, ids, d) = PaidLine(w, d, c, a)
      BY <1>5, <2>2, <3>4, <3>5, <3>6 DEF ExactRound
    <3>8. PICK v : v = PaidLine(w, d, c, a)
      OBVIOUS
    <3>9. /\ v \in Work(users)
          /\ v.left = [w.left EXCEPT ![d] = @ + a, ![c] = @ - a]
          /\ ToSet(v.plan) = ToSet(w.plan) \cup {[from |-> d, to |-> c, amount |-> a]}
      <4>1. w \in Work(users) /\ d \in users /\ c \in users /\ a \in Nat \ {0}
        BY <1>1, <3>1, <3>6
      <4> QED BY ONLY <3>8, <4>1, PaidTo
    <3>10. c # d /\ w.left[c] = a /\ w.left[d] = -a
      BY <1>2, <1>5, <2>2, <2>3, <3>1, <3>6
    <3>11. ASSUME NEW m \in users
           PROVE  v.left[m] = IF Met(m, net, users, later) THEN 0 ELSE net[m]
      <4>1. CASE m = d \/ m = c
        <5>1. v.left[m] = 0
          BY <1>2, <3>6, <3>9, <3>10, <4>1
        <5>2. Met(m, net, users, later)
          <6>1. net[d] = -net[c] /\ net[c] = -net[d] /\ d \in later
            BY <1>2, <3>1
          <6>2. Met(d, net, users, later) /\ Met(c, net, users, later)
            BY <1>5, <6>1 DEF Met
          <6> QED BY <4>1, <6>2
        <5> QED BY <5>1, <5>2
      <4>2. CASE m # d /\ m # c
        <5>1. v.left[m] = w.left[m]
          BY <1>2, <3>9, <4>2
        <5>2. Met(m, net, users, later) <=> Met(m, net, users, turn)
          BY <1>2, <3>2, <4>2 DEF Met
        <5> QED BY <1>1, <5>1, <5>2
      <4> QED BY <4>1, <4>2
    <3>12. Drawn(net, users, later) = Drawn(net, users, turn) \cup {[from |-> d, to |-> c, amount |-> a]}
      <4>1. [from |-> d, to |-> c, amount |-> a] \in Drawn(net, users, later)
        BY <1>5, <3>1, <3>6 DEF Drawn, Line
      <4>2. Drawn(net, users, turn) \subseteq Drawn(net, users, later)
        BY DEF Drawn
      <4>3. ASSUME NEW l \in Drawn(net, users, later), l \notin Drawn(net, users, turn)
            PROVE  l = [from |-> d, to |-> c, amount |-> a]
        <5>1. /\ l \in Line(users) /\ l.from = d
              /\ net[l.to] = -net[d] /\ l.amount = net[l.to]
          BY <4>3 DEF Drawn
        <5>2. /\ l = [from |-> l.from, to |-> l.to, amount |-> l.amount]
              /\ l.to \in users
          BY <5>1 DEF Line
        <5>3. l.to = c /\ l.amount = a
          BY <3>2, <3>6, <5>1, <5>2
        <5> QED BY <5>1, <5>2, <5>3
      <4> QED BY <4>1, <4>2, <4>3
    <3> QED BY <1>1, <3>7, <3>8, <3>9, <3>11, <3>12 DEF Matched
  <2>5. CASE ~\E c \in users : net[c] = -net[d]
    <3>1. equals = {}
      BY <2>3, <2>5
    <3>2. ExactRound(w, ids, d) = w
      BY <3>1 DEF ExactRound
    <3>3. \A m \in users : Met(m, net, users, later) <=> Met(m, net, users, turn)
      BY <1>2, <2>5 DEF Met
    <3>4. Drawn(net, users, later) = Drawn(net, users, turn)
      BY <2>5 DEF Drawn, Line
    <3> QED BY <1>1, <3>2, <3>3, <3>4 DEF Matched
  <2> QED BY <2>4, <2>5
<1> QED BY <1>2, <1>3, <1>4, <1>5

(* At the end of pass 1 everybody has had a turn.                           *)
LEMMA ExactMatched ==
  ASSUME NEW people, NEW edges, Proper(edges, people),
         NEW users, users = ToSet(Mentioned(edges)),
         NEW net, net = [m \in users |-> NetOf(edges, m)], NoTies(net, users)
  PROVE  Matched(ExactPass(edges), net, users, users)
<1>1. PICK ids : ids = Mentioned(edges)
  OBVIOUS
<1>2. ids \in Seq(people) /\ users = ToSet(ids)
  BY <1>1, MentionedIs
<1>3. PICK n \in Nat : n = Len(ids) /\ DOMAIN ids = 1..n
  BY <1>2
<1>4. users = {ids[i] : i \in 1..n}
  BY <1>2, <1>3 DEF ToSet
<1>5. ids \in Seq(users) /\ \A i \in 1..n : ids[i] \in users
  BY <1>2, <1>3, <1>4
<1>6. net \in [users -> Int]
  <2>1. IsFiniteSet(DOMAIN edges) /\ \A i \in DOMAIN edges : edges[i].amount \in Int
    BY FS_Interval DEF Proper
  <2>2. \A m \in users : NetOf(edges, m) \in Int
    BY <2>1, NetIsSum
  <2> QED BY <2>2
<1> DEFINE turn(j) == {ids[i] : i \in 1..j}
           W == {w \in Work(users) : \E s \in SUBSET users : Matched(w, net, users, s)}
<1>7. Matched(Unsettled(edges), net, users, {})
  <2>1. Unsettled(edges).left = net /\ Unsettled(edges).plan = <<>>
    BY DEF Unsettled
  <2>2. Unsettled(edges) \in Work(users)
    <3>1. Unsettled(edges) = [left |-> net, plan |-> <<>>]
      BY DEF Unsettled
    <3>2. <<>> \in Seq(Line(users))
      OBVIOUS
    <3> QED BY <1>6, <3>1, <3>2 DEF Work
  <2>3. \A m \in users : ~Met(m, net, users, {})
    BY DEF Met
  <2>4. ToSet(<<>>) = {} /\ Drawn(net, users, {}) = {}
    BY DEF ToSet, Drawn
  <2> QED BY <2>1, <2>2, <2>3, <2>4 DEF Matched
<1>8. Unsettled(edges) \in W
  BY <1>7 DEF Matched
<1>9. ASSUME NEW w, NEW s \in SUBSET users, Matched(w, net, users, s), NEW d \in users
      PROVE  Matched(ExactRound(w, ids, d), net, users, s \cup {d})
  BY <1>2, <1>5, <1>6, <1>9, ExactTurn
<1>10. ExactIn(W, edges, ids, n)
  <2> SUFFICES ASSUME NEW w \in W, NEW i \in 1..n
               PROVE  ExactRound(w, ids, ids[i]) \in W
    BY <1>1 DEF ExactIn
  <2>1. PICK s \in SUBSET users : Matched(w, net, users, s)
    OBVIOUS
  <2>2. Matched(ExactRound(w, ids, ids[i]), net, users, s \cup {ids[i]})
    BY <1>5, <1>9, <2>1
  <2>3. s \cup {ids[i]} \in SUBSET users
    BY <1>5
  <2> QED BY <2>2, <2>3 DEF Matched
<1> HIDE DEF W
<1>11. PICK g \in [0..n -> W] :
         /\ g[0] = Unsettled(edges)
         /\ \A j \in 1..n : g[j] = ExactRound(g[j - 1], ids, ids[j])
         /\ ExactPass(edges) = g[n]
  <2>1. PICK b : b = Unsettled(edges)
    OBVIOUS
  <2>2. b \in W /\ n \in Nat /\ DOMAIN ids = 1..n /\ ExactIn(W, edges, ids, n)
    BY <1>3, <1>8, <1>10, <2>1
  <2>3. \E g \in [0..n -> W] :
          /\ g[0] = b
          /\ \A j \in 1..n : g[j] = ExactRound(g[j - 1], Mentioned(edges), ids[j])
          /\ ExactRounds(b, edges, ids) = g[n]
    BY ONLY <2>2, ExactFold
  <2>4. ExactPass(edges) = ExactRounds(b, edges, ids)
    BY <1>1, <2>1, ExactFrom
  <2> QED BY <1>1, <2>1, <2>3, <2>4
<1> DEFINE T == {j \in Nat : j <= n => Matched(g[j], net, users, turn(j))}
<1>12. 0 \in T
  <2>1. 1..0 = {}
    OBVIOUS
  <2>2. turn(0) = {}
    BY <2>1
  <2> HIDE DEF turn
  <2> QED BY <1>7, <1>11, <2>2
<1>13. ASSUME NEW j \in T PROVE j + 1 \in T
  <2> SUFFICES ASSUME j + 1 <= n PROVE Matched(g[j + 1], net, users, turn(j + 1))
    OBVIOUS
  <2>1. j \in Nat /\ j + 1 \in 1..n /\ (j + 1) - 1 = j /\ j \in 0..n
    OBVIOUS
  <2>2. g[j + 1] = ExactRound(g[j], ids, ids[j + 1])
    BY <1>11, <2>1
  <2>3. Matched(g[j], net, users, turn(j))
    BY <2>1
  <2>4. 1..(j + 1) = 1..j \cup {j + 1}
    BY <2>1
  <2>5. turn(j + 1) = turn(j) \cup {ids[j + 1]}
    BY <2>4
  <2>6. turn(j) \in SUBSET users /\ ids[j + 1] \in users
    BY <1>4, <2>1
  <2> HIDE DEF turn, T
  <2>7. Matched(ExactRound(g[j], ids, ids[j + 1]), net, users, turn(j) \cup {ids[j + 1]})
    BY <1>9, <2>3, <2>6
  <2> QED BY <2>2, <2>5, <2>7
<1>14. T = Nat
  <2>1. T \subseteq Nat
    OBVIOUS
  <2> HIDE DEF T
  <2> QED BY <1>12, <1>13, <2>1, NatSetInduction
<1>15. Matched(g[n], net, users, turn(n))
  BY <1>14
<1>16. turn(n) = users
  BY <1>4
<1> HIDE DEF turn
<1> QED BY <1>11, <1>15, <1>16

(* Two states of the optimiser with the same rests and the same lines, in   *)
(* whatever order, stay so through the rounds of pass 2.                    *)
Twins(w, v) == w.left = v.left /\ ToSet(w.plan) = ToSet(v.plan)
LEMMA GreedyTwins ==
  ASSUME NEW users, IsFiniteSet(users), users \subseteq Int,
         NEW w \in Work(users), NEW v \in Work(users), Twins(w, v)
  PROVE  /\ GreedyRound(w) \in Work(users) /\ GreedyRound(v) \in Work(users)
         /\ Twins(GreedyRound(w), GreedyRound(v))
<1>1. PICK left \in [users -> Int] : left = w.left /\ left = v.left /\ DOMAIN left = users
  BY DEF Work, Twins
<1> DEFINE owing == {m \in users : left[m] < 0}
           owed == {m \in users : left[m] > 0}
           size == [m \in owing |-> -left[m]]
           d == Largest(size, owing)
           c == Largest(left, owed)
           a == Min({-left[d], left[c]})
<1>2. CASE owing = {} \/ owed = {}
  <2>1. GreedyRound(w) = w /\ GreedyRound(v) = v
    BY <1>1, <1>2 DEF GreedyRound
  <2> QED BY <2>1
<1>3. CASE owing # {} /\ owed # {}
  <2>1. GreedyRound(w) = PaidLine(w, d, c, a) /\ GreedyRound(v) = PaidLine(v, d, c, a)
    BY <1>1, <1>3 DEF GreedyRound
  <2>2. d \in owing
    <3>1. \A m \in owing : size[m] \in Int
      OBVIOUS
    <3>2. IsFiniteSet(owing) /\ owing \subseteq Int
      BY FS_Subset
    <3> HIDE DEF size, owing
    <3> QED BY <1>3, <3>1, <3>2, LargestIn
  <2>3. c \in owed
    <3>1. \A m \in owed : left[m] \in Int
      OBVIOUS
    <3>2. IsFiniteSet(owed) /\ owed \subseteq Int
      BY FS_Subset
    <3> HIDE DEF owed
    <3> QED BY <1>3, <3>1, <3>2, LargestIn
  <2> HIDE DEF d, c
  <2>4. d \in users /\ c \in users /\ left[d] < 0 /\ left[c] > 0 /\ left[d] \in Int /\ left[c] \in Int
    BY <2>2, <2>3
  <2>5. a \in {-left[d], left[c]}
    <3>1. {-left[d], left[c]} \in SUBSET Nat /\ {-left[d], left[c]} # {}
      BY <2>4
    <3> QED BY <3>1, MinIn
  <2> HIDE DEF a
  <2>6. a \in Nat \ {0}
    BY <2>4, <2>5
  <2>7. PICK r, q : r = PaidLine(w, d, c, a) /\ q = PaidLine(v, d, c, a)
    OBVIOUS
  <2>8. /\ r \in Work(users)
        /\ r.left = [w.left EXCEPT ![d] = @ + a, ![c] = @ - a]
        /\ ToSet(r.plan) = ToSet(w.plan) \cup {[from |-> d, to |-> c, amount |-> a]}
    BY ONLY <2>4, <2>6, <2>7, PaidTo
  <2>9. /\ q \in Work(users)
        /\ q.left = [v.left EXCEPT ![d] = @ + a, ![c] = @ - a]
        /\ ToSet(q.plan) = ToSet(v.plan) \cup {[from |-> d, to |-> c, amount |-> a]}
    BY ONLY <2>4, <2>6, <2>7, PaidTo
  <2>10. Twins(r, q)
    BY <2>8, <2>9 DEF Twins
  <2> QED BY <2>1, <2>7, <2>8, <2>9, <2>10
<1> QED BY <1>2, <1>3

(* The rounds of pass 2 on two such states.                                 *)
LEMMA RoundsTwins ==
  ASSUME NEW users, IsFiniteSet(users), users \subseteq Int,
         NEW w \in Work(users), NEW v \in Work(users), Twins(w, v),
         NEW n \in Nat, NEW s, DOMAIN s = 1..n, NEW t, DOMAIN t = 1..n
  PROVE  Twins(GreedyRounds(w, s), GreedyRounds(v, t))
<1> DEFINE W == Work(users)
<1>1. GreedyIn(W)
  <2> SUFFICES ASSUME NEW x \in W PROVE GreedyRound(x) \in W
    BY DEF GreedyIn
  <2>1. Twins(x, x)
    BY DEF Twins
  <2> QED BY <2>1, GreedyTwins
<1>2. w \in W /\ v \in W
  OBVIOUS
<1> HIDE DEF W
<1> DEFINE Rounds(b, seq, g) ==
             /\ g[0] = b /\ \A j \in 1..n : g[j] = GreedyRound(g[j - 1])
             /\ GreedyRounds(b, seq) = g[n]
<1>a. ASSUME NEW b \in W, NEW seq, DOMAIN seq = 1..n
      PROVE  \E g \in [0..n -> W] : Rounds(b, seq, g)
  <2>1. b \in W /\ n \in Nat /\ DOMAIN seq = 1..n /\ GreedyIn(W)
    BY <1>1, <1>a
  <2> QED BY ONLY <2>1, GreedyFold
<1> HIDE DEF Rounds
<1>b. PICK g \in [0..n -> W] : Rounds(w, s, g)
  BY <1>2, <1>a
<1>c. PICK h \in [0..n -> W] : Rounds(v, t, h)
  BY <1>2, <1>a
<1>3. /\ g[0] = w /\ \A j \in 1..n : g[j] = GreedyRound(g[j - 1])
      /\ GreedyRounds(w, s) = g[n]
  BY <1>b DEF Rounds
<1>4. /\ h[0] = v /\ \A j \in 1..n : h[j] = GreedyRound(h[j - 1])
      /\ GreedyRounds(v, t) = h[n]
  BY <1>c DEF Rounds
<1> DEFINE T == {j \in Nat : j <= n => Twins(g[j], h[j])}
<1>5. 0 \in T
  BY <1>3, <1>4
<1>6. ASSUME NEW j \in T PROVE j + 1 \in T
  <2> SUFFICES ASSUME j + 1 <= n PROVE Twins(g[j + 1], h[j + 1])
    OBVIOUS
  <2>1. j + 1 \in 1..n /\ (j + 1) - 1 = j /\ j \in 0..n /\ Twins(g[j], h[j])
    OBVIOUS
  <2>2. g[j + 1] = GreedyRound(g[j]) /\ h[j + 1] = GreedyRound(h[j])
    BY <1>3, <1>4, <2>1
  <2>3. g[j] \in Work(users) /\ h[j] \in Work(users)
    BY <1>3, <1>4, <2>1 DEF W
  <2> HIDE DEF T
  <2>4. Twins(GreedyRound(g[j]), GreedyRound(h[j]))
    BY <2>1, <2>3, GreedyTwins
  <2> QED BY <2>2, <2>4
<1>7. T = Nat
  <2>1. T \subseteq Nat
    OBVIOUS
  <2> HIDE DEF T
  <2> QED BY <1>5, <1>6, <2>1, NatSetInduction
<1>8. Twins(g[n], h[n])
  BY <1>7
<1> QED BY <1>3, <1>4, <1>8

(* The same balances, none of them equal, have the same plan.               *)
LEMMA PlanSame ==
  ASSUME NEW people, people \subseteq Int,
         NEW edges, Proper(edges, people), NEW others, Proper(others, people),
         ToSet(Mentioned(others)) = ToSet(Mentioned(edges)),
         \A m \in ToSet(Mentioned(edges)) : NetOf(others, m) = NetOf(edges, m),
         ~Ties(edges)
  PROVE  ToSet(OptimizeSettlement(others)) = ToSet(OptimizeSettlement(edges))
<1>1. PICK users : users = ToSet(Mentioned(edges)) /\ users = ToSet(Mentioned(others))
  OBVIOUS
<1>2. PICK net : /\ net = [m \in users |-> NetOf(edges, m)]
                 /\ net = [m \in users |-> NetOf(others, m)]
  BY <1>1
<1>3. IsFiniteSet(users) /\ users \subseteq Int
  BY <1>1, PlanIs
<1>4. NoTies(net, users)
  BY <1>1, <1>2 DEF NoTies, Ties
<1>5. PICK w, v : w = ExactPass(edges) /\ v = ExactPass(others)
  OBVIOUS
<1>6. Matched(w, net, users, users)
  BY <1>1, <1>2, <1>4, <1>5, ExactMatched
<1>7. Matched(v, net, users, users)
  BY <1>1, <1>2, <1>4, <1>5, ExactMatched
<1>8. w \in Work(users) /\ v \in Work(users)
  BY <1>6, <1>7 DEF Matched
<1>9. Twins(w, v)
  <2>1. w.left \in [users -> Int] /\ v.left \in [users -> Int]
    BY <1>8 DEF Work
  <2>2. \A m \in users : w.left[m] = v.left[m]
    BY <1>6, <1>7 DEF Matched
  <2>3. w.left = v.left
    BY <2>1, <2>2
  <2> QED BY <1>6, <1>7, <2>3 DEF Matched, Twins
<1>10. PICK s, t, n : /\ s = Mentioned(edges) /\ t = Mentioned(others) /\ n = Cardinality(users)
  OBVIOUS
<1>11. n \in Nat /\ DOMAIN s = 1..n /\ DOMAIN t = 1..n
  <2>1. s \in Seq(people) /\ t \in Seq(people)
    BY <1>10, MentionedIs
  <2>2. Len(s) = n /\ Len(t) = n
    BY <1>1, <1>10, MentionedLength
  <2> QED BY <2>1, <2>2
<1>12. Twins(GreedyRounds(w, s), GreedyRounds(v, t))
  BY <1>3, <1>8, <1>9, <1>11, RoundsTwins
<1>13. /\ OptimizeSettlement(edges) = GreedyRounds(w, s).plan
       /\ OptimizeSettlement(others) = GreedyRounds(v, t).plan
  BY <1>5, <1>10, GreedyFrom
<1> QED BY <1>12, <1>13 DEF Twins

(* "the same inputs always yield the same plan" (comment on                 *)
(* optimizeSettlement), in whatever order the rows come, when no two        *)
(* debtors and no two creditors are even: for any debts.                    *)
THEOREM PlansAreStable ==
  ASSUME NEW people, people \subseteq Int, NEW edges, Proper(edges, people)
  PROVE  PlanIsStable(edges)
<1> SUFFICES ASSUME ~Ties(edges), NEW order \in SetToSeqs(DOMAIN edges)
             PROVE  ToSet(OptimizeSettlement([i \in DOMAIN edges |-> edges[order[i]]]))
                      = ToSet(OptimizeSettlement(edges))
  BY DEF PlanIsStable
<1>1. PICK n \in Nat : DOMAIN edges = 1..n
  BY DEF Proper
<1>2. IsFiniteSet(1..n) /\ Cardinality(1..n) = n
  BY FS_Interval
<1>3. Enumerates(order, n, 1..n)
  <2>1. PICK S : S = 1..n /\ S = DOMAIN edges
    BY <1>1
  <2>2. IsFiniteSet(S) /\ Cardinality(S) = n /\ order \in SetToSeqs(S)
    BY <1>2, <2>1
  <2>3. Enumerates(order, n, S)
    BY ONLY <2>2, OrderIs DEF Enumerates
  <2> QED BY <2>1, <2>3
<1>4. /\ \A i \in 1..n : order[i] \in 1..n
      /\ \A j \in 1..n : \E i \in 1..n : order[i] = j
  BY <1>3 DEF Enumerates
<1>5. PICK others : others = [i \in 1..n |-> edges[order[i]]]
  OBVIOUS
<1>6. DOMAIN others = 1..n /\ \A i \in 1..n : others[i] = edges[order[i]]
  BY <1>5
<1>7. Proper(others, people)
  <2>1. ASSUME NEW i \in 1..n
        PROVE  /\ others[i].debtor \in people /\ others[i].creditor \in people
               /\ others[i].debtor # others[i].creditor
               /\ others[i].amount \in Nat /\ others[i].amount > 0
    <3>1. PICK j \in DOMAIN edges : others[i] = edges[j]
      BY <1>1, <1>4, <1>6
    <3> QED BY <3>1 DEF Proper
  <2> QED BY <1>6, <2>1 DEF Proper
<1>8. Sides(others, n) = Sides(edges, n)
  <2>1. {others[i].creditor : i \in 1..n} = {edges[i].creditor : i \in 1..n}
    <3>1. ASSUME NEW i \in 1..n PROVE others[i].creditor \in {edges[j].creditor : j \in 1..n}
      BY <1>4, <1>6
    <3>2. ASSUME NEW j \in 1..n PROVE edges[j].creditor \in {others[i].creditor : i \in 1..n}
      <4>1. PICK i \in 1..n : others[i] = edges[j]
        BY <1>4, <1>6
      <4> QED BY <4>1
    <3> QED BY <3>1, <3>2
  <2>2. {others[i].debtor : i \in 1..n} = {edges[i].debtor : i \in 1..n}
    <3>1. ASSUME NEW i \in 1..n PROVE others[i].debtor \in {edges[j].debtor : j \in 1..n}
      BY <1>4, <1>6
    <3>2. ASSUME NEW j \in 1..n PROVE edges[j].debtor \in {others[i].debtor : i \in 1..n}
      <4>1. PICK i \in 1..n : others[i] = edges[j]
        BY <1>4, <1>6
      <4> QED BY <4>1
    <3> QED BY <3>1, <3>2
  <2> QED BY <2>1, <2>2 DEF Sides
<1>9. ToSet(Mentioned(others)) = ToSet(Mentioned(edges))
  BY <1>1, <1>6, <1>7, <1>8, MentionedOnce
<1>10. ASSUME NEW m PROVE NetOf(others, m) = NetOf(edges, m)
  <2>1. /\ \A i \in 1..n : edges[i].amount \in Int
        /\ \A i \in 1..n : others[i].amount \in Int
    BY <1>1, <1>6, <1>7 DEF Proper
  <2>2. PICK g, h : /\ g = [i \in 1..n |-> Part(edges[i], m)]
                    /\ h = [i \in 1..n |-> Part(others[i], m)]
    OBVIOUS
  <2>3. NetOf(edges, m) = SumOf(g, 1..n) /\ NetOf(others, m) = SumOf(h, 1..n)
    BY <1>1, <1>2, <1>6, <2>1, <2>2, NetIsSum
  <2>4. /\ \A i \in 1..n : g[i] \in Int
        /\ \A i \in 1..n : h[i] = g[order[i]]
    <3>1. \A i \in 1..n : g[i] \in Int
      BY <2>1, <2>2 DEF Part
    <3>2. ASSUME NEW i \in 1..n PROVE h[i] = g[order[i]]
      <4>1. h[i] = Part(others[i], m)
        BY <2>2
      <4>2. PICK j \in 1..n : j = order[i] /\ others[i] = edges[j]
        BY <1>4, <1>6
      <4>3. g[j] = Part(edges[j], m)
        BY <2>2
      <4> QED BY <4>1, <4>2, <4>3
    <3> QED BY <3>1, <3>2
  <2>5. SumOf(h, 1..n) = SumOf(g, 1..n)
    BY ONLY n \in Nat, <1>3, <2>4, SumEnumerated
  <2> QED BY <2>3, <2>5
<1>11. ToSet(OptimizeSettlement(others)) = ToSet(OptimizeSettlement(edges))
  BY <1>7, <1>9, <1>10, PlanSame
<1> QED BY <1>1, <1>5, <1>11
-------------------------------------------------------------------------------
(* The arithmetic of a reachable state *)

(* Every settlement that could be confirmed now: its debts are proper.      *)
LEMMA PendingProper ==
  ASSUME SceneOK, DebtsOK, LinesOK
  PROVE  /\ Proper(InOrder(SetToSeq(Pending)), members) /\ members \subseteq Int
         /\ PlanClears(InOrder(SetToSeq(Pending)))
<1>1. IsFiniteSet(Pending)
  BY RowsAre, DebtSumType
<1>2. PICK order : order = SetToSeq(Pending)
  OBVIOUS
<1>3. order \in SetToSeqs(Pending)
  <2>1. /\ order \in [1..Cardinality(Pending) -> Pending]
        /\ \A i, j \in 1..Cardinality(Pending) : order[i] = order[j] => i = j
    BY <1>1, <1>2, SetToSeqIs
  <2> QED BY <2>1 DEF SetToSeqs
<1> QED BY <1>2, <1>3, PlanOK

(* Whatever the debts are that a confirmation finds, the plan it makes of   *)
(* them settles every balance, in fewer lines than members.                 *)
THEOREM SettlementPlansClear == SettlementSpec => []PlanClears(InOrder(SetToSeq(Pending)))
<1>1. TablesInv => PlanClears(InOrder(SetToSeq(Pending)))
  BY PendingProper DEF TablesInv
<1> QED BY <1>1, TablesAlways, PTL

(* The amounts members type and share: what they may be.                    *)
LEMMA AmountsFollow ==
  ASSUME SceneOK
  PROVE  AmountsAreExact
<1>1. scene.expenses \subseteq ExpenseForm /\ scene.debts \subseteq DebtForm
  BY DEF SceneOK, SceneRow
<1>2. ASSUME NEW x \in scene.expenses
      PROVE  SplitAddsUp(x.total, x.payer, x.participants)
  <2>1. PICK P, t, p : P = x.participants /\ t = x.total /\ p = x.payer
    OBVIOUS
  <2>2. P \subseteq Int /\ t \in Nat /\ p \in Int
    BY <1>1, <2>1 DEF ExpenseForm
  <2>3. IsFiniteSet(P) /\ P # {}
    BY <2>1 DEF SceneOK
  <2>4. SplitAddsUp(t, p, P)
    BY <2>2, <2>3, SplitsAddUp
  <2> QED BY <2>1, <2>4
<1>3. ASSUME NEW e \in scene.debts, Accepted(e.typed)
      PROVE  /\ Exactly(e.typed, BdtToPaisa(e.typed))
             /\ Exactly(PaisaToBdt(BdtToPaisa(e.typed)), BdtToPaisa(e.typed))
  <2>1. PICK typed \in [whole : Nat, frac : Seq(0..9)] : typed = e.typed
    BY <1>1 DEF DebtForm
  <2>2. Len(typed.frac) <= 2
    BY <1>3, <2>1 DEF Accepted
  <2>3. PICK paisa \in Nat : paisa = BdtToPaisa(typed)
    BY PaisaAre
  <2>4. Exactly(typed, paisa)
    BY <2>2, <2>3, TypedExactly
  <2>5. Exactly(PaisaToBdt(paisa), paisa)
    BY ShownExactly
  <2> QED BY <2>1, <2>3, <2>4, <2>5
<1> QED BY <1>2, <1>3 DEF AmountsAreExact

(* Whatever is owed by whom, the plan settles it and does not depend on the *)
(* order of the rows; no paisa is lost or made when an expense is shared or *)
(* an amount is typed and shown: for any members and amounts.               *)
THEOREM SettlementArithmeticIsRight == SettlementSpec => []ArithmeticIsRight
<1>1. TablesInv => ArithmeticIsRight
  <2> SUFFICES ASSUME TablesInv PROVE ArithmeticIsRight
    OBVIOUS
  <2>1. SceneOK /\ DebtsOK /\ LinesOK
    BY DEF TablesInv
  <2>2. PICK edges : edges = InOrder(SetToSeq(Pending))
    OBVIOUS
  <2>3. Proper(edges, members) /\ members \subseteq Int /\ PlanClears(edges)
    BY <2>1, <2>2, PendingProper
  <2>4. PlanIsStable(edges)
    BY <2>3, PlansAreStable
  <2>5. AmountsAreExact
    BY <2>1, AmountsFollow
  <2> QED BY <2>2, <2>3, <2>4, <2>5 DEF ArithmeticIsRight, PlansAreRight
<1> QED BY <1>1, TablesAlways, PTL
===============================================================================
