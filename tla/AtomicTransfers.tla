--------------------------- MODULE AtomicTransfers ---------------------------
(***************************************************************************)
(* What the transfer engine promises its callers, without saying how: a    *)
(* transfer is one atomic movement of money, it happens at most once per   *)
(* idempotency key unless the key is repeatable, it never overdraws the    *)
(* sender, and nobody is told that money arrived unless it did.            *)
(***************************************************************************)
EXTENDS Integers

CONSTANTS
  Users,    \* wallet owners
  Keys,     \* (sender, idempotency key) pairs
  Repeatable, \* the keys that may be paid again, each time as a whole
  Intent,   \* [Keys -> [from, to, amount]], what each key asks for
  Opening   \* [Users -> Nat], the balances before any transfer

VARIABLES
  balance,  \* [Users -> Nat]
  moved,    \* the keys whose money has moved
  told      \* the keys some caller was told are paid

vars == <<balance, moved, told>>

Init ==
  /\ balance = Opening
  /\ moved = {}
  /\ told = {}

Move(k) ==
  LET i == Intent[k] IN
  /\ k \in moved => k \in Repeatable
  /\ balance[i.from] >= i.amount
  /\ balance' = [balance EXCEPT ![i.from] = @ - i.amount,
                                ![i.to] = @ + i.amount]
  /\ moved' = moved \cup {k}
  /\ told' \in {told, told \cup {k}}

Tell(k) ==
  /\ k \in moved
  /\ told' = told \cup {k}
  /\ UNCHANGED <<balance, moved>>

Next == \E k \in Keys : Move(k) \/ Tell(k)

Spec == Init /\ [][Next]_vars
==============================================================================
