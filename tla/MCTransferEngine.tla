--------------------------- MODULE MCTransferEngine ---------------------------
(***************************************************************************)
(* Small instances of TransferEngine.  ann cannot pay before bob has paid  *)
(* her back (PoorAnn), so that a transfer is short of money first and      *)
(* affordable later, and either key could be paid twice if the engine let  *)
(* it; or both can pay one key twice, and a third, over, is unaffordable   *)
(* at first (RichBoth); or ann is rich and calls race for one key.         *)
(***************************************************************************)
EXTENDS TransferEngine, TLC

CONSTANTS ann, bob, pay, back, over

Pay(amount) == [from |-> ann, to |-> bob, amount |-> amount]
Back(amount) == [from |-> bob, to |-> ann, amount |-> amount]

OneKey == pay :> Pay(1)
TwoKeys == (pay :> Pay(2)) @@ (back :> Back(1))
ThreeKeys == TwoKeys @@ (over :> Back(3))
TopUpKeys == (pay :> Pay(2)) @@ (back :> Back(3))

RichAnn == (ann :> 3) @@ (bob :> 0)
RichBoth == (ann :> 4) @@ (bob :> 2)
PoorAnn == (ann :> 1) @@ (bob :> 6)

Symmetry == Permutations(Callers) \cup Permutations(Verifiers)
===============================================================================
