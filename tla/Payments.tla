------------------------------ MODULE Payments -------------------------------
(***************************************************************************)
(* TransferService.execute as the flows built on it see it, while nobody   *)
(* verifies the keys in question: settlements, disbursements and the       *)
(* transfer endpoint compose with this module instead of TransferEngine,   *)
(* which implements it (TransferEngine!ImplementsPayments).                *)
(*                                                                         *)
(* A caller makes one call at a time and may make another when the last    *)
(* one is over.                                                            *)
(***************************************************************************)
EXTENDS Integers, Sequences, FiniteSets

CONSTANTS
  Payers,      \* who calls execute
  PayKeys,     \* (sender, idempotency key) pairs
  RetryPays,   \* the keys whose callers pass onPriorFailure: 'retry'
  NoPay        \* the key of a caller that has not called yet

ASSUME PayKeysAssumption == RetryPays \subseteq PayKeys /\ NoPay \notin PayKeys

VARIABLES
  paid,  \* [PayKeys -> PayStatus], the transfers row and with it the money
  pay    \* [Payers -> PayCall], the call of execute each payer makes or made

payVars == <<paid, pay>>

PayStatus == {"none", "inflight", "moved", "failed"}
PayAnswer == {"none", "COMPLETED", "IN_FLIGHT", "FAILED", "UNCERTAIN"}
PayCall == [pc : {"idle", "waiting", "owning", "answered", "dead"},
            key : PayKeys \cup {NoPay}, answer : PayAnswer]
FreshPay == [pc |-> "idle", key |-> NoPay, answer |-> "none"]

PayTypeOK ==
  /\ paid \in [PayKeys -> PayStatus]
  /\ pay \in [Payers -> PayCall]

PayInit ==
  /\ paid = [k \in PayKeys |-> "none"]
  /\ pay = [c \in Payers |-> FreshPay]

Calling(c) == pay[c].pc \in {"waiting", "owning"}

(* The first read of the key: a transfer that is done answers at once.      *)
BeginPay(c, k) ==
  /\ ~Calling(c)
  /\ pay' = [pay EXCEPT ![c] =
       IF paid[k] = "moved"
         THEN [pc |-> "answered", key |-> k, answer |-> "COMPLETED"]
         ELSE [pc |-> "waiting", key |-> k, answer |-> "none"]]
  /\ UNCHANGED paid

AnswerPay(c, answer) ==
  pay' = [pay EXCEPT ![c].pc = "answered", ![c].answer = answer]

(* Waiting for whoever has the row ends with its result, or by giving up.   *)
JoinPay(c) ==
  LET k == pay[c].key IN
  /\ pay[c].pc = "waiting"
  /\ \/ paid[k] = "moved" /\ AnswerPay(c, "COMPLETED")
     \/ paid[k] = "inflight" /\ AnswerPay(c, "IN_FLIGHT")
     \/ (k \in RetryPays <=> paid[k] # "failed") /\ AnswerPay(c, "FAILED")
  /\ UNCHANGED paid

(* The caller inserts the row, or resets a failed one, and owns the attempt.*)
OwnPay(c) ==
  LET k == pay[c].key IN
  /\ pay[c].pc = "waiting"
  /\ paid[k] = "none" \/ (paid[k] = "failed" /\ k \in RetryPays)
  /\ paid' = [paid EXCEPT ![k] = "inflight"]
  /\ pay' = [pay EXCEPT ![c].pc = "owning"]

(* The money moves, told or not; or it does not and the row stays in flight *)
(* (unknown error, or the FAILED mark was lost), or is marked FAILED.       *)
EndPay(c) ==
  LET k == pay[c].key IN
  /\ pay[c].pc = "owning"
  /\ \/ /\ paid' = [paid EXCEPT ![k] = "moved"]
        /\ \E answer \in {"COMPLETED", "UNCERTAIN"} : AnswerPay(c, answer)
     \/ /\ \E answer \in {"FAILED", "UNCERTAIN"} : AnswerPay(c, answer)
        /\ UNCHANGED paid
     \/ /\ paid' = [paid EXCEPT ![k] = "failed"]
        /\ AnswerPay(c, "FAILED")

(* The server dies during the call or before its caller has used the        *)
(* answer; the transfer stays as it is.                                     *)
DropPay(c) ==
  /\ pay[c].pc # "idle"
  /\ pay' = [pay EXCEPT ![c].pc = "dead", ![c].answer = "none"]
  /\ UNCHANGED paid

StepPay(c) == JoinPay(c) \/ OwnPay(c) \/ EndPay(c)

PayNext ==
  \E c \in Payers :
    (\E k \in PayKeys : BeginPay(c, k)) \/ StepPay(c) \/ DropPay(c)

PaySpec == PayInit /\ [][PayNext]_payVars
===============================================================================
