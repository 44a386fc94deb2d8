--------------------------- MODULE MCDisbursement ----------------------------
(***************************************************************************)
(* Small programmes.  Payroll: two beneficiaries, the account of one not   *)
(* verified, while the owner edits.  Roster: one beneficiary, and requests *)
(* of every shape.  Shared: two servers run one disbursement of two.       *)
(***************************************************************************)
EXTENDS Disbursement, TLC

CONSTANTS s1, s2, b1, ann, bob, eve

Runners == Servers \X Batches
Keys == Batches \X People

Starts(servers, beneficiaries, verified, asks, edits, watched) ==
  [servers |-> servers, enrolled |-> beneficiaries, accounts |-> verified,
   asks |-> asks, edits |-> edits, watched |-> watched]

Payroll == Starts({s1}, {ann, bob}, {ann}, {"all"}, 2, FALSE)
Roster == Starts({s1}, {ann}, {ann, eve}, {"listed", "roster"}, 0, TRUE)
Shared == Starts({s1, s2}, {ann, bob}, {ann, bob}, {"all"}, 0, FALSE)
AllScenes == {Payroll, Roster, Shared}
===============================================================================
