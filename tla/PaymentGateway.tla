--------------------------- MODULE PaymentGateway ----------------------------
(***************************************************************************)
(* POST /transfers: the risk gate (fraudMiddleware), the idempotency       *)
(* records (idempotencyMiddleware) and the handler, in that order, around  *)
(* TransferService.execute; and the SendMoneyPage that calls it.           *)
(*                                                                         *)
(* All requests are one sender's, and the requests of one key carry the    *)
(* same intent, as every client of the repository sends them.  A call c is *)
(* one HTTP request; it goes on at the server when nobody waits any more.  *)
(*                                                                         *)
(* The definitions commented "slip" are plausible mistakes in the code.    *)
(***************************************************************************)
EXTENDS Payments

CONSTANTS
  Users       \* bound: [is, keys, faults]: who sends the requests ("page" or
              \* "client"), the keys that are ever sent, and how many crashes,
              \* database errors and lost responses there are

(* The route passes no onPriorFailure: a failed transfer stays failed.      *)
ASSUME GatewayAssumption == RetryPays = {}
(* The page's "no request".                                                 *)
ASSUME NoCallAssumption == NoPay \notin Payers
(* What a sender is.                                                        *)
ASSUME SenderAssumption ==
  Users \subseteq [is : {"page", "client"}, keys : SUBSET PayKeys, faults : Nat]

VARIABLES
  verdict,    \* transfer_risk_assessments.decision of each key, none without a row
  record,     \* the idempotency_records row of each key
  req,        \* the request of each call
  page,       \* the state of SendMoneyPage
  user,       \* one of Users, less the faults by now
  shown,      \* keys whose reasons and verification token the sender received
  abandoned,  \* keys the page replaced by a new one (for the properties)
  reclaimed   \* keys whose stale record was taken over (for the properties)

history == <<shown, abandoned, reclaimed>>
gateVars == <<verdict, record, req, page, user, history, payVars>>

Calls == Payers
Keys == PayKeys
Permitting == {"ALLOWED", "VERIFIED", "RELEASED"}
Verdicts == Permitting \cup {"none", "PENDING_VERIFICATION", "BLOCKED"}
Replies == PayAnswer \cup {"VERIFY", "BLOCKED", "IN_PROGRESS", "ERROR", "LOST"}
NoRecord == [status |-> "none", stale |-> FALSE, response |-> "none"]
Processing == [NoRecord EXCEPT !.status = "PROCESSING"]
(* `waits`: the sender still waits for the reply.  `persist`: what is to be *)
(* done to the record, DELETE or the response to store.                     *)
Over == [pc |-> "over", key |-> NoPay, ack |-> FALSE, waits |-> FALSE,
         reply |-> "none", persist |-> "none"]
FreshPage == [step |-> "amount", key |-> NoPay, call |-> NoPay,
              replay |-> FALSE, result |-> "none"]

(* The type invariant; the page waits only for a call of its own key.       *)
GatewayTypeOK ==
  /\ PayTypeOK
  /\ verdict \in [Keys -> Verdicts]
  /\ \A k \in Keys : record[k].status \in {"none", "PROCESSING", "COMPLETED"}
                     /\ record[k].response \in {"none", "COMPLETED", "IN_FLIGHT", "FAILED"}
  /\ \A c \in Calls : req[c].reply \in Replies /\ req[c].key \in Keys \cup {NoPay}
  /\ page.step \in {"amount", "confirm", "verify_risk", "blocked", "investigate", "result"}
  /\ page.call # NoPay => /\ req[page.call].key = page.key
                          /\ req[page.call].waits \/ req[page.call].reply # "none"

GatewayInit ==
  /\ PayInit
  /\ verdict = [k \in Keys |-> "none"]
  /\ record = [k \in Keys |-> NoRecord]
  /\ req = [c \in Calls |-> Over]
  /\ page = FreshPage
  /\ user \in Users
  /\ shown = {} /\ abandoned = {} /\ reclaimed = {}

-------------------------------------------------------------------------------
(* fraudMiddleware *)

Free(c) == req[c].pc = "over" /\ req[c].reply = "none" /\ page.call # c
Sent(c, k, ack) ==
  [req EXCEPT ![c] = [Over EXCEPT !.pc = "gate", !.key = k, !.ack = ack, !.waits = TRUE]]
Goes(c, pc) == [req EXCEPT ![c].pc = pc]
Replied(c, reply) ==
  [req EXCEPT ![c] =
     IF req[c].waits THEN [Over EXCEPT !.key = req[c].key, !.reply = reply] ELSE Over]
Heard(c) ==
  [req EXCEPT ![c] =
     IF req[c].pc = "over" THEN Over ELSE [req[c] EXCEPT !.waits = FALSE, !.reply = "none"]]
(* A reply that leaves while the record is still to be written.             *)
RepliedFirst(c, reply, persist) ==
  [Replied(c, reply) EXCEPT ![c].pc = "persist", ![c].key = req[c].key, ![c].persist = persist]

Fault == user.faults > 0 /\ user' = [user EXCEPT !.faults = @ - 1]

(* What the middleware does with the decision it has read: a verification   *)
(* token that was sent is compared with the one in the row.                 *)
TokenIgnored(c, decision) ==  \* slip: any request confirms
  CASE decision \in Permitting -> Goes(c, "claim")
    [] decision = "BLOCKED" -> Replied(c, "BLOCKED")
    [] OTHER -> Goes(c, "mark")
Gated(c, decision) ==
  CASE decision \in Permitting -> Goes(c, "claim")
    [] decision = "BLOCKED" -> Replied(c, "BLOCKED")
    [] decision = "PENDING_VERIFICATION" /\ req[c].ack -> Goes(c, "mark")
    [] OTHER -> Replied(c, "VERIFY")

ReadAssessment(c) ==
  LET decision == verdict[req[c].key] IN
  /\ req[c].pc = "gate"
  /\ req' = IF decision = "none" THEN Goes(c, "assess") ELSE Gated(c, decision)
  /\ UNCHANGED <<verdict, record, page, user, history, payVars>>

(* assess scores the transfer by what the database says just now (see       *)
(* RiskScoring) and inserts the decision unless the key has one by then;    *)
(* the row decides, not the score.  A row somebody has verified or released *)
(* meanwhile is answered VERIFICATION_REQUIRED here.                        *)
Decided(stored, scored) == IF stored = "none" THEN scored ELSE stored

Assess(c) ==
  LET k == req[c].key IN
  /\ req[c].pc = "assess"
  /\ \E scored \in {"ALLOWED", "PENDING_VERIFICATION", "BLOCKED"} :
       LET decision == Decided(verdict[k], scored) IN
       /\ verdict' = [verdict EXCEPT ![k] = IF @ = "none" THEN scored ELSE @]
       /\ req' = IF decision \in {"VERIFIED", "RELEASED"}
                 THEN Replied(c, "VERIFY") ELSE Gated(c, decision)
  /\ UNCHANGED <<record, page, user, history, payVars>>

(* markVerified: conditional on PENDING_VERIFICATION; who finds it VERIFIED *)
(* goes on as well.                                                         *)
MarkVerified(c) ==
  /\ req[c].pc = "mark"
  /\ verdict' = [verdict EXCEPT ![req[c].key] =
                   IF @ = "PENDING_VERIFICATION" THEN "VERIFIED" ELSE @]
  /\ req' = Goes(c, "claim")
  /\ UNCHANGED <<record, page, user, history, payVars>>

(* An administrator releases a blocked transfer.                            *)
Release(k) ==
  /\ verdict[k] = "BLOCKED"
  /\ verdict' = [verdict EXCEPT ![k] = "RELEASED"]
  /\ UNCHANGED <<record, req, page, user, history, payVars>>

-------------------------------------------------------------------------------
(* idempotencyMiddleware *)

(* INSERT ... ON CONFLICT DO NOTHING.                                       *)
Claim(c) ==
  LET k == req[c].key IN
  /\ req[c].pc = "claim"
  /\ \/ record[k].status = "none" /\ record' = [record EXCEPT ![k] = Processing]
                                  /\ req' = Goes(c, "execute")
     \/ record[k].status # "none" /\ req' = Goes(c, "lookup") /\ UNCHANGED record
  /\ UNCHANGED <<verdict, page, user, history, payVars>>

NeverStale(row) == FALSE  \* slip: stale rows are not reclaimed
Stale(row) == row.stale

(* The row that was in the way is read; it may be gone, and the access to   *)
(* it then throws.                                                          *)
DuplicateStored(c) ==  \* slip: res.json is wrapped before the claim
  RepliedFirst(c, "IN_PROGRESS", "FAILED")
DuplicateRefused(c) == Replied(c, "IN_PROGRESS")

Lookup(c) ==
  LET row == record[req[c].key] IN
  /\ req[c].pc = "lookup"
  /\ req' = CASE row.status = "none" -> Replied(c, "ERROR")
              [] row.status = "COMPLETED" -> Replied(c, row.response)
              [] row.status = "PROCESSING" /\ Stale(row) -> Goes(c, "reclaim")
              [] OTHER -> DuplicateRefused(c)
  /\ UNCHANGED <<verdict, record, page, user, history, payVars>>

(* The UPDATE asks for the id alone: the row may be COMPLETED or gone by    *)
(* now, and two requests may reclaim it.                                    *)
Reclaim(c) ==
  LET k == req[c].key IN
  /\ req[c].pc = "reclaim"
  /\ record' = [record EXCEPT ![k] = IF @.status = "none" THEN @ ELSE Processing]
  /\ reclaimed' = reclaimed \cup {k}
  /\ req' = Goes(c, "execute")
  /\ UNCHANGED <<verdict, page, user, shown, abandoned, payVars>>

(* Two minutes pass.                                                        *)
GrowStale(k) ==
  /\ record[k].status = "PROCESSING" /\ ~record[k].stale
  /\ record' = [record EXCEPT ![k].stale = TRUE]
  /\ UNCHANGED <<verdict, req, page, user, history, payVars>>

-------------------------------------------------------------------------------
(* The handler *)

Execute(c) ==
  /\ req[c].pc = "execute"
  /\ BeginPay(c, req[c].key)
  /\ req' = Goes(c, "paying")
  /\ UNCHANGED <<verdict, record, page, user, history>>

Paying(c) ==
  /\ req[c].pc = "paying"
  /\ StepPay(c)
  /\ UNCHANGED <<verdict, record, req, page, user, history>>

(* A response below 500 is to be stored, another one removes the record.    *)
(* TRANSFER_UNCERTAIN and its like are 5xx, a failure may be.  The reply    *)
(* leaves without waiting for the record.                                   *)
StoredAll(answer) ==  \* slip: server errors are stored like other errors
  IF answer = "UNCERTAIN" THEN {"FAILED"} ELSE {answer}
ToPersist(answer) ==
  CASE answer = "UNCERTAIN" -> {"DELETE"}
    [] answer = "FAILED" -> {"FAILED", "DELETE"}
    [] OTHER -> {answer}

Answer(c) ==
  /\ req[c].pc = "paying"
  /\ pay[c].pc = "answered"
  /\ \E persist \in ToPersist(pay[c].answer) :
       req' = RepliedFirst(c, pay[c].answer, persist)
  /\ pay' = [pay EXCEPT ![c] = FreshPay]
  /\ UNCHANGED <<verdict, record, page, user, history, paid>>

(* The un-awaited finalize, by user and key alone; when it fails, it is     *)
(* logged and the record stays PROCESSING.                                  *)
Persist(c) ==
  LET k == req[c].key
      what == req[c].persist IN
  /\ req[c].pc = "persist"
  /\ req' = [req EXCEPT ![c] = IF req[c].reply = "none" THEN Over
                              ELSE [req[c] EXCEPT !.pc = "over", !.persist = "none"]]
  /\ \/ /\ record' = [record EXCEPT ![k] =
              IF what = "DELETE" \/ @.status = "none" THEN NoRecord
              ELSE [@ EXCEPT !.status = "COMPLETED", !.response = what]]
        /\ UNCHANGED user
     \/ Fault /\ UNCHANGED record
  /\ UNCHANGED <<verdict, page, history, payVars>>

(* The server dies, or a statement of a middleware fails (500).             *)
Fail(c) ==
  /\ Fault
  /\ \/ /\ req[c].pc \notin {"over", "persist"}
        /\ req' = Replied(c, "LOST")
        /\ IF Calling(c) THEN DropPay(c) ELSE UNCHANGED payVars
     \/ /\ req[c].pc \in {"gate", "assess", "mark", "claim", "lookup", "reclaim"}
        /\ req' = Replied(c, "ERROR")
        /\ UNCHANGED payVars
  /\ UNCHANGED <<verdict, record, page, history>>

Serve(c) ==
  \/ ReadAssessment(c) \/ Assess(c) \/ MarkVerified(c) \/ Claim(c) \/ Lookup(c)
  \/ Reclaim(c) \/ Execute(c) \/ Paying(c) \/ Answer(c) \/ Persist(c)

-------------------------------------------------------------------------------
(* A client that sends a key as often as it likes, with the token when it   *)
(* was given one (the scripts under scripts/ do).                           *)
ClientSends(c, k) ==
  /\ user.is = "client"
  /\ k \in user.keys
  /\ Free(c)
  /\ \E ack \in {FALSE} \cup {k \in shown} : req' = Sent(c, k, ack)
  /\ UNCHANGED <<verdict, record, page, user, history, payVars>>

Shown(c, reply) == IF reply = "VERIFY" THEN shown \cup {req[c].key} ELSE shown

ClientReceives(c) ==
  /\ user.is = "client"
  /\ req[c].reply # "none"
  /\ shown' = Shown(c, req[c].reply)
  /\ req' = Heard(c)
  /\ UNCHANGED <<verdict, record, page, user, abandoned, reclaimed, payVars>>

-------------------------------------------------------------------------------
(* SendMoneyPage *)

PageStays == UNCHANGED <<verdict, record, user, payVars>>

(* goConfirm: a new key whenever the amount is confirmed.                   *)
GoConfirm ==
  /\ user.is = "page"
  /\ page.step = "amount"
  /\ \E k \in Keys \ (abandoned \cup {page.key}) :
       /\ \A c \in Calls : req[c].key # k
       /\ paid[k] = "none" /\ verdict[k] = "none"
       /\ page' = [page EXCEPT !.step = "confirm", !.key = k]
  /\ abandoned' = abandoned \cup ({page.key} \ {NoPay})
  /\ UNCHANGED <<req, shown, reclaimed>>
  /\ PageStays

(* Back from the confirmation; Cancel on the extra check; leaving for the   *)
(* dashboard, which forgets the page.                                       *)
GoBack ==
  /\ page.call = NoPay
  /\ \/ page.step = "confirm" /\ page' = [page EXCEPT !.step = "amount"]
     \/ page.step = "verify_risk" /\ page' = [page EXCEPT !.step = "confirm"]
     \/ page.step \in {"blocked", "investigate", "result"} /\ page' = FreshPage
  /\ UNCHANGED <<req, history>>
  /\ PageStays

(* submit, with the token on the extra check.                               *)
Submit(c) ==
  /\ page.step \in {"confirm", "verify_risk"}
  /\ page.call = NoPay
  /\ page.key \in user.keys
  /\ Free(c)
  /\ req' = Sent(c, page.key, page.step = "verify_risk")
  /\ page' = [page EXCEPT !.call = c, !.replay = FALSE]
  /\ UNCHANGED history
  /\ PageStays

(* What submit does with a reply; after a reply that is missing or says     *)
(* REQUEST_IN_PROGRESS it sends the key once more, without the token.       *)
At(step) == [page EXCEPT !.step = step, !.call = NoPay, !.replay = FALSE]
Result(reply) == [At("result") EXCEPT !.result = reply]
UncertainIsError(reply) ==  \* slip: the uncertain codes are not told apart
  CASE reply = "VERIFY" -> At("verify_risk")
    [] reply = "BLOCKED" -> At("blocked")
    [] reply \in {"COMPLETED", "IN_FLIGHT"} -> Result(reply)
    [] OTHER -> At(page.step)
FirstReply(reply) ==
  CASE reply = "VERIFY" -> At("verify_risk")
    [] reply = "BLOCKED" -> At("blocked")
    [] reply = "UNCERTAIN" -> At("investigate")
    [] reply \in {"COMPLETED", "IN_FLIGHT"} -> Result(reply)
    [] OTHER -> At(page.step)
ReplayReply(reply) ==
  IF reply \in {"COMPLETED", "IN_FLIGHT", "VERIFY"} THEN Result(reply) ELSE At("investigate")

Hear(c, reply) ==
  /\ page.call = c
  /\ \/ /\ ~page.replay /\ reply \in {"LOST", "IN_PROGRESS"}
        /\ \E d \in Calls \ {c} :
             /\ Free(d)
             /\ req' = [Heard(c) EXCEPT ![d] = Sent(d, page.key, FALSE)[d]]
             /\ page' = [page EXCEPT !.call = d, !.replay = TRUE]
     \/ /\ ~page.replay /\ reply \notin {"LOST", "IN_PROGRESS"}
        /\ req' = Heard(c) /\ page' = FirstReply(reply)
     \/ /\ page.replay
        /\ req' = Heard(c) /\ page' = ReplayReply(reply)
  /\ shown' = IF page.replay THEN shown ELSE Shown(c, reply)
  /\ UNCHANGED <<verdict, record, abandoned, reclaimed, payVars>>

PageReceives(c) ==
  /\ req[c].reply # "none"
  /\ Hear(c, req[c].reply)
  /\ UNCHANGED user

(* The connection breaks; the request goes on, if it is not over.           *)
LoseResponse(c) ==
  /\ Fault
  /\ Hear(c, "LOST")

(* simulateDuplicate sends the key again; only its message depends on it.   *)
SimulateDuplicate(c) ==
  /\ page.step = "result"
  /\ Free(c)
  /\ req' = [Sent(c, page.key, FALSE) EXCEPT ![c].waits = FALSE]
  /\ UNCHANGED <<page, history>>
  /\ PageStays

-------------------------------------------------------------------------------
GatewayNext ==
  \/ \E c \in Calls :
       \/ Serve(c) \/ Fail(c)
       \/ ClientReceives(c) \/ \E k \in Keys : ClientSends(c, k)
       \/ Submit(c) \/ PageReceives(c) \/ LoseResponse(c) \/ SimulateDuplicate(c)
  \/ \E k \in Keys : Release(k) \/ GrowStale(k)
  \/ GoConfirm \/ GoBack

GatewaySpec == GatewayInit /\ [][GatewayNext]_gateVars

(* A request proceeds, time passes, and a client that wants its transfer    *)
(* keeps sending the key.                                                   *)
GatewayFairSpec ==
  /\ GatewaySpec
  /\ \A c \in Calls : WF_gateVars(Serve(c)) /\ WF_gateVars(ClientReceives(c))
  /\ \A k \in Keys : WF_gateVars(GrowStale(k))
                     /\ SF_gateVars(\E c \in Calls : ClientSends(c, k))

-------------------------------------------------------------------------------
(* What the last steps of the page say: "Transfer on hold"; the headline    *)
(* "Transfer completed", whatever came back; and below it the status that   *)
(* the reply had.                                                           *)
SaysOnHold == page.step = "blocked"
SaysCompleted == page.step = "result"
Badge == page.result

-------------------------------------------------------------------------------
(* Safety *)

(* No transfer row, and so no movement of money, without a decision that    *)
(* permits it: whatever two requests scored at the same time, and however   *)
(* often the key is sent.                                                   *)
MovesArePermitted == \A k \in Keys : paid[k] # "none" => verdict[k] \in Permitting

(* A transfer is verified only for a sender who received the reasons and    *)
(* the token, whatever was lost and sent again.                             *)
VerifiedWasShown == \A k \in Keys : verdict[k] = "VERIFIED" => k \in shown

(* What a record replays is what happened, though answers are stored late,  *)
(* over a reclaimed record or over another request's answer; an answer      *)
(* given while the transfer was in flight promises nothing.                 *)
ReplaysTellTheTruth ==
  \A k \in Keys : record[k].status = "COMPLETED" =>
    CASE record[k].response = "COMPLETED" -> paid[k] = "moved"
      [] record[k].response = "FAILED" -> paid[k] # "moved"
      [] OTHER -> paid[k] # "none"

(* "One idempotency key per confirmed attempt": when the page takes a new   *)
(* key, the transfer of the old one has not moved and never will, so that   *)
(* confirming again cannot pay twice.                                       *)
NewKeyIsSafe == \A k \in abandoned : paid[k] # "moved"

(* "Transfer on hold ... no money has moved", and a result with the badge   *)
(* COMPLETED, are true for as long as the page shows them.                  *)
ScreensTellTheTruth ==
  /\ SaysOnHold => paid[page.key] = "none"
  /\ SaysCompleted /\ Badge = "COMPLETED" => paid[page.key] = "moved"

(* A claim of a document that the code does not keep.                       *)

(* "COMPLETED | Successfully executed, money moved | `Transfer completed` + *)
(* TXN-ID" (PRD): that headline is shown for no other state.                *)
HeadlineMeansMoved == SaysCompleted => paid[page.key] = "moved"

(* Action properties *)

(* "Replay of a COMPLETED key: the stored response is returned verbatim"    *)
(* (comment on the middleware): as long as nobody reclaims it, a stored     *)
(* response is never removed, replaced or forgotten.                        *)
StoredResponseIsKept ==
  [][\A k \in Keys \ reclaimed' :
       record[k].status = "COMPLETED" => record'[k] = record[k]]_gateVars

(* Liveness *)

(* "a stale PROCESSING row: reclaimed and retried" (comment on the          *)
(* middleware): a request that dies, or whose outcome could not be stored,  *)
(* does not lock its key against a sender who keeps trying.                 *)
NoKeyStaysLocked ==
  \A k \in Keys :
    user.is = "client" /\ record[k].status = "PROCESSING" ~> record[k].status # "PROCESSING"

-------------------------------------------------------------------------------
(* The properties by what they are about; their parts are above.            *)

(* Money moves under a key only by permission of the risk gate, and an      *)
(* extra check is passed only by somebody who was asked for it.             *)
GateIsSound == GatewayTypeOK /\ MovesArePermitted /\ VerifiedWasShown

(* The screen is right, and so is starting again with a new key.            *)
PageTellsTheTruth == NewKeyIsSafe /\ ScreensTellTheTruth
===============================================================================
