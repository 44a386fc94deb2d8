--------------------------- MODULE SettlementMath ----------------------------
(***************************************************************************)
(* utils/settlement.ts and the arithmetic of addExpense: net balances, the *)
(* plan that clears them, its fingerprint, the split of an expense.        *)
(*                                                                         *)
(* An edge [debtor, creditor, amount] is a debt, a line [from, to, amount] *)
(* a transfer of the plan.  User ids are numbers; ties are broken by them. *)
(* The code walks its maps in insertion order, so edges are a sequence, in *)
(* whatever order the database returned the rows.                          *)
(*                                                                         *)
(* The definitions commented "slip" are plausible mistakes in the code.    *)
(***************************************************************************)
EXTENDS Integers, Sequences, FiniteSets, FiniteSetsExt, SequencesExt

(* computeNetBalances: what m is owed less what m owes, of a sequence of    *)
(* edges or of some of its rows.                                            *)
Part(e, m) ==
  (IF e.creditor = m THEN e.amount ELSE 0) - (IF e.debtor = m THEN e.amount ELSE 0)
NetOf(edges, m) == SumFunction([i \in DOMAIN edges |-> Part(edges[i], m)])

(* The keys of its map, in order of insertion.                              *)
Noted(ids, id) == IF id \in ToSet(ids) THEN ids ELSE Append(ids, id)
Mentioned(edges) ==
  FoldLeft(LAMBDA ids, e : Noted(Noted(ids, e.creditor), e.debtor), <<>>, edges)

-------------------------------------------------------------------------------
(* optimizeSettlement works on what is left of each balance, and on the     *)
(* lines of the plan so far.                                                *)
Unsettled(edges) ==
  [left |-> [m \in ToSet(Mentioned(edges)) |-> NetOf(edges, m)], plan |-> <<>>]

PaidOne(w, from, to, amount) ==  \* slip: the creditor's rest is not reduced
  [left |-> [w.left EXCEPT ![from] = @ + amount],
   plan |-> Append(w.plan, [from |-> from, to |-> to, amount |-> amount])]
PaidLine(w, from, to, amount) ==
  [left |-> [w.left EXCEPT ![from] = @ + amount, ![to] = @ - amount],
   plan |-> Append(w.plan, [from |-> from, to |-> to, amount |-> amount])]

(* Pass 1: each debtor, in order, is matched with the first creditor owed   *)
(* exactly as much.                                                         *)
ExactRound(w, ids, d) ==
  LET equals == {i \in DOMAIN ids : w.left[ids[i]] = -w.left[d]} IN
  IF w.left[d] < 0 /\ equals # {} THEN PaidLine(w, d, ids[Min(equals)], -w.left[d]) ELSE w
ExactPass(edges) ==
  FoldLeft(LAMBDA w, d : ExactRound(w, Mentioned(edges), d), Unsettled(edges), Mentioned(edges))

(* pickMax: the largest rest, of equals the one with the smallest id.       *)
Largest(size, ids) ==
  CHOOSE m \in ids : \A n \in ids :
    size[m] > size[n] \/ (size[m] = size[n] /\ m <= n)

(* Pass 2: the largest debtor pays the largest creditor the smaller of the  *)
(* two rests, until one side has none left.                                 *)
GreedyRound(w) ==
  LET debtors == {m \in DOMAIN w.left : w.left[m] < 0}
      creditors == {m \in DOMAIN w.left : w.left[m] > 0} IN
  IF debtors = {} \/ creditors = {} THEN w
  ELSE LET d == Largest([m \in debtors |-> -w.left[m]], debtors)
           c == Largest(w.left, creditors)
       IN PaidLine(w, d, c, Min({-w.left[d], w.left[c]}))

(* Every round settles somebody, so one per member is enough.               *)
OptimizeSettlement(edges) ==
  FoldLeft(LAMBDA w, i : GreedyRound(w), ExactPass(edges), Mentioned(edges)).plan

(* applyPlan: what is left of m's balance when the lines are paid.          *)
LinePart(l, m) == (IF l.from = m THEN l.amount ELSE 0) - (IF l.to = m THEN l.amount ELSE 0)
PaidBy(lines, m) == SumFunction([n \in DOMAIN lines |-> LinePart(lines[n], m)])
Residual(edges, lines, m) == NetOf(edges, m) + PaidBy(lines, m)

(* planHash: the debts being settled and the plan, neither in any order.    *)
PlanAlone(ids, plan) == <<plan>>  \* slip: the debts are left out
PlanHash(ids, plan) == <<ids, plan>>

-------------------------------------------------------------------------------
(* addExpense: equal shares; the remainder goes paisa by paisa to the       *)
(* participants with the smallest ids, who come first in sorted order.      *)
Rank(p, participants) == Cardinality({q \in participants : q <= p})
Share(total, participants, p) ==
  LET n == Cardinality(participants) IN
  total \div n + (IF Rank(p, participants) <= total % n THEN 1 ELSE 0)

(* The debts an expense becomes: the payer owes nothing, nor does anyone    *)
(* whose share is nothing.                                                  *)
ExpenseShares(total, payer, participants) ==
  {[debtor |-> p, creditor |-> payer, amount |-> Share(total, participants, p)] :
     p \in {q \in participants \ {payer} : Share(total, participants, q) > 0}}

-------------------------------------------------------------------------------
(* What the comment on optimizeSettlement promises, for any debts in any    *)
(* order: the plan settles every balance, with fewer lines than members     *)
(* that have one, each from somebody who owes to somebody who is owed.      *)
PlanClears(edges) ==
  LET plan == OptimizeSettlement(edges)
      nonzero == {m \in ToSet(Mentioned(edges)) : NetOf(edges, m) # 0} IN
  /\ \A m \in ToSet(Mentioned(edges)) : Residual(edges, plan, m) = 0
  /\ nonzero # {} => Len(plan) < Cardinality(nonzero)
  /\ \A i \in DOMAIN plan :
       plan[i].amount > 0 /\ NetOf(edges, plan[i].from) < 0 /\ NetOf(edges, plan[i].to) > 0

(* "the same inputs always yield the same plan" (comment on                 *)
(* optimizeSettlement) also when the rows come in another order, as long as *)
(* no two debtors and no two creditors have equal balances.                 *)
Ties(edges) ==
  \E m, n \in ToSet(Mentioned(edges)) :
    m # n /\ NetOf(edges, m) = NetOf(edges, n) /\ NetOf(edges, m) # 0

PlanIsStable(edges) ==
  ~Ties(edges) =>
    \A order \in SetToSeqs(DOMAIN edges) :
      ToSet(OptimizeSettlement([i \in DOMAIN edges |-> edges[order[i]]]))
        = ToSet(OptimizeSettlement(edges))

(* An expense is owed exactly: with the payer's own share the debts add up  *)
(* to the total, and no two shares differ by more than a paisa.             *)
SplitAddsUp(total, payer, participants) ==
  LET debts == ExpenseShares(total, payer, participants)
      own == IF payer \in participants THEN Share(total, participants, payer) ELSE 0
      fair == {Share(total, participants, p) : p \in participants} IN
  /\ own + MapThenSumSet(LAMBDA d : d.amount, debts) = total
  /\ Max(fair) - Min(fair) <= 1
===============================================================================
