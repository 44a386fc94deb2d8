---------------------------- MODULE MCSettlement -----------------------------
(***************************************************************************)
(* Small groups.  Partial: 1 owes 2 and 3, so that a settlement has two    *)
(* lines, may end PARTIAL and leaves a payment for the next one.  Overlap: *)
(* 1 owes 3 and an expense of 2 is split at any time, so that two          *)
(* settlements may run together. Joined: 4 joins and owes 1. Circle: new   *)
(* debts cancel the first or repeat it, and are settled from the page or   *)
(* without a hash. Script: a settlement without a hash while a page shows  *)
(* a plan, then another. Shared: two servers run one settlement. Bills:    *)
(* one expense of any size among the founders. Books: any two debts, typed *)
(* with all kinds of decimals, beside two others.                          *)
(***************************************************************************)
EXTENDS Settlement, TLC

CONSTANTS s1, s2, k1, k2

Owes(debtor, creditor, amount) ==
  [debtor |-> debtor, creditor |-> creditor, amount |-> amount]

Runners == Servers \X Settlements
LineKeys == Settlements \X (1..3)
Runs(servers, keys, first) ==
  [servers |-> servers, keys |-> keys, bare |-> FALSE, first |-> first,
   joiners |-> {}, debts |-> {}, expenses |-> {}, more |-> 0]
TwoDebts == <<Owes(1, 2, 1), Owes(1, 3, 1)>>
Dinner == [payer |-> 2, total |-> 3, participants |-> {1, 2}]
Types(debtor, creditor, frac) ==
  [debtor |-> debtor, creditor |-> creditor, typed |-> [whole |-> 0, frac |-> frac]]

Partial == Runs({s1}, {k1, k2}, TwoDebts)
Overlap == [Runs({s1}, {k1, k2}, <<Owes(1, 3, 1)>>) EXCEPT !.expenses = {Dinner}, !.more = 1]
Joined == [Runs({s1}, {k1}, <<Owes(1, 3, 1)>>) EXCEPT
             !.joiners = {4}, !.debts = {Types(4, 1, <<0, 1>>)}, !.more = 1]
Circle == [Runs({s1}, {k1}, <<Owes(1, 3, 1)>>) EXCEPT !.bare = TRUE,
             !.debts = {Types(1, 3, <<0, 1>>), Types(3, 1, <<0, 1>>)}, !.more = 2]
Script == [Runs({s1}, {k1, k2}, <<Owes(1, 3, 1)>>) EXCEPT !.bare = TRUE]
Shared == Runs({s1, s2}, {k1}, TwoDebts)

People == {1, 2, 3, 4}
Bills == [Runs({}, {}, <<>>) EXCEPT !.more = 1,
           !.expenses = [payer : Founders, total : 1..7, participants : SUBSET Founders \ {{}}]]
Typed == {Types(d, c, f) : d \in People, c \in People, f \in {<<0, 1>>, <<0, 3>>, <<0, 2, 1>>}}
          \cup {Types(1, 2, <<1>>), Types(3, 2, <<0>>)}
Books == {[Runs({}, {}, <<Owes(1, 2, a), Owes(2, 3, b)>>) EXCEPT
             !.joiners = {4}, !.more = 2, !.debts = Typed] : a \in 1..2, b \in 1..2}
AllScenes == {Partial, Overlap, Joined, Circle, Script, Shared, Bills} \cup Books
OnePartial == {Partial}
===============================================================================
