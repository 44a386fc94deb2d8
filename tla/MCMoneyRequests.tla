--------------------------- MODULE MCMoneyRequests ---------------------------
(***************************************************************************)
(* A small instance of MoneyRequests: bob can pay the request of ann twice, *)
(* if the code lets him; ann has nothing until he has paid.  Under the     *)
(* spare key nothing is ever sent.                                         *)
(***************************************************************************)
EXTENDS MoneyRequests, TLC

CONSTANTS ann, bob, asksAnn, asksBob, fromAnn, fromBob, spare

FromAnn(amount) == [from |-> ann, to |-> bob, amount |-> amount]
FromBob(amount) == [from |-> bob, to |-> ann, amount |-> amount]

TwoRequests == (asksAnn :> fromAnn) @@ (asksBob :> fromBob)
TwoIntents ==
  (fromAnn :> FromAnn(1)) @@ (fromBob :> FromBob(2)) @@ (spare :> FromBob(2))

PoorAnn == (ann :> 0) @@ (bob :> 4)
===============================================================================
