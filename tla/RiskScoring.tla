------------------------------ MODULE RiskScoring -----------------------------
(***************************************************************************)
(* utils/riskScoring.ts: the score, the band and the decision for one      *)
(* transfer, from the signals gatherSignals reads and the thresholds of    *)
(* risk_config, which administrators change at will (updateConfig asks     *)
(* only that they are not negative).  Labels and details are left out; the *)
(* historical average is read by no rule.                                  *)
(*                                                                         *)
(* The definitions commented "slip" are plausible mistakes in the code.    *)
(***************************************************************************)
EXTENDS Integers

(* RiskSignals and RiskConfig.  `usual` is the largest of the sender's      *)
(* transfers, `sent` their number, `age` the recipient's in days.           *)
Signals ==
  [amount : Nat, recent : Nat, failed : Nat, recipients : Nat, known : BOOLEAN,
   age : Nat, usual : Nat, sent : Nat, logins : Nat, newSession : BOOLEAN]
Config ==
  [medium : Nat, high : Nat, large : Nat, cap : Nat, velocity : Nat,
   failures : Nat, newDays : Nat, loginMax : Nat]

Critical(s, c) == s.amount >= c.cap

(* The weight of each reason, 0 where the rule does not fire.               *)
AmountWeight(s, c) ==
  IF Critical(s, c) THEN 60 ELSE IF s.amount >= c.large THEN 25 ELSE 0

(* The ratio to the sender's own maximum.                                   *)
HabitWeight(s) ==
  IF s.sent < 3 \/ s.usual = 0 THEN 0
  ELSE IF s.amount >= 5 * s.usual THEN 25
  ELSE IF s.amount >= 3 * s.usual THEN 12 ELSE 0

NewIsSmall(s, c) ==  \* slip: a brand-new account is asked for first
  IF s.known THEN 0
  ELSE IF s.age <= c.newDays THEN 12 ELSE IF s.amount >= c.large THEN 15 ELSE 5
RecipientWeight(s, c) ==
  LET new == s.age <= c.newDays
      large == s.amount >= c.large IN
  IF s.known THEN 0
  ELSE IF new /\ large THEN 25 ELSE IF new THEN 12 ELSE IF large THEN 15 ELSE 5

(* Math.ceil(failed_login_max / 2).                                         *)
LoginWeight(s, c) ==
  IF s.logins >= c.loginMax THEN 25
  ELSE IF 2 * s.logins >= c.loginMax THEN 10 ELSE 0

Weights(s, c) ==
  [amount     |-> AmountWeight(s, c),
   habit      |-> HabitWeight(s),
   velocity   |-> IF s.recent >= c.velocity THEN 20 ELSE 0,
   recipients |-> IF s.recipients >= c.velocity THEN 15 ELSE 0,
   failures   |-> IF s.failed >= c.failures THEN 30 ELSE 0,
   recipient  |-> RecipientWeight(s, c),
   logins     |-> LoginWeight(s, c),
   session    |-> IF s.newSession THEN 10 ELSE 0]

Rules == {"amount", "habit", "velocity", "recipients", "failures", "recipient", "logins", "session"}

Score(s, c) ==
  LET w == Weights(s, c)
      raw == w.amount + w.habit + w.velocity + w.recipients + w.failures
               + w.recipient + w.logins + w.session IN
  IF raw > 100 THEN 100 ELSE raw

Reasons(s, c) == {r \in Rules : Weights(s, c)[r] > 0}
OneReason(s, c) == \A q, r \in Reasons(s, c) : q = r

(* A single reason that is not critical does not make a HIGH; without a     *)
(* reason the band is LOW even if the thresholds are 0.                     *)
ByScore(s, c) ==
  IF Score(s, c) >= c.high THEN "HIGH" ELSE IF Score(s, c) >= c.medium THEN "MEDIUM" ELSE "LOW"

Band(s, c) ==
  IF Reasons(s, c) = {} THEN "LOW"
  ELSE IF ByScore(s, c) = "HIGH" /\ ~Critical(s, c) /\ OneReason(s, c) THEN "MEDIUM"
  ELSE ByScore(s, c)

Decision(band) ==
  CASE band = "HIGH" -> "BLOCKED" [] band = "MEDIUM" -> "PENDING_VERIFICATION" [] OTHER -> "ALLOWED"

Level(band) == IF band = "HIGH" THEN 2 ELSE IF band = "MEDIUM" THEN 1 ELSE 0

(* t is at least as suspicious as s: more money, more activity, a younger   *)
(* or less known recipient, a newer session, by the same sender's habits.   *)
Worse(s, t) ==
  /\ t.amount >= s.amount
  /\ t.recent >= s.recent /\ t.failed >= s.failed /\ t.recipients >= s.recipients
  /\ t.logins >= s.logins
  /\ t.known => s.known
  /\ t.age <= s.age
  /\ s.newSession => t.newSession
  /\ t.usual = s.usual /\ t.sent = s.sent

(* d is at least as strict as c.                                            *)
Stricter(c, d) ==
  /\ d.medium <= c.medium /\ d.high <= c.high
  /\ d.large <= c.large /\ d.cap <= c.cap
  /\ d.velocity <= c.velocity /\ d.failures <= c.failures /\ d.loginMax <= c.loginMax
  /\ d.newDays >= c.newDays
===============================================================================
