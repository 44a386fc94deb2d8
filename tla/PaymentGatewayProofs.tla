------------------------- MODULE PaymentGatewayProofs -------------------------
(***************************************************************************)
(* What holds of the transfer endpoint for every sender, every number of   *)
(* requests and keys, and every number of faults.                          *)
(*                                                                         *)
(* The properties of PaymentGateway say what may be stored, shown or       *)
(* abandoned; none of them is inductive.  GatewayInv, below, adds where    *)
(* each request is: what it knows of its payment (PaysInv, LinkInv), what  *)
(* the answers under way say (TruthInv), what let it past the gate         *)
(* (GateInv), who is behind the claim of a record (RecordInv), and what    *)
(* the page may conclude from the one request it waits for (PageInv).      *)
(***************************************************************************)
EXTENDS PaymentGateway, TLAPS

(* What the variables are.                                                  *)
Stages == {"over", "gate", "assess", "mark", "claim", "lookup", "reclaim", "execute",
           "paying", "persist"}
Stored == {"none", "COMPLETED", "IN_FLIGHT", "FAILED"}
Request == [pc : Stages, key : Keys \cup {NoPay}, ack : BOOLEAN, waits : BOOLEAN,
            reply : Replies, persist : Stored \cup {"DELETE"}]
Row == [status : {"none", "PROCESSING", "COMPLETED"}, stale : BOOLEAN, response : Stored]
Early == {"amount", "confirm", "verify_risk"}
Screen == [step : Early \cup {"blocked", "investigate", "result"}, key : Keys \cup {NoPay},
           call : Calls \cup {NoPay}, replay : BOOLEAN, result : Replies]

Types ==
  /\ PayTypeOK
  /\ verdict \in [Keys -> Verdicts] /\ record \in [Keys -> Row]
  /\ req \in [Calls -> Request] /\ page \in Screen
  /\ user \in [is : {"page", "client"}, keys : SUBSET Keys, faults : Nat]
  /\ shown \subseteq Keys /\ abandoned \subseteq Keys /\ reclaimed \subseteq Keys

(* A request on its way to the answer, and whether its answer is out.       *)
Active(c) == req[c].pc \notin {"over", "persist"}

RequestsInv ==
  \A c \in Calls :
    /\ Active(c) => req[c].key \in Keys /\ req[c].reply = "none"
    /\ req[c].pc = "persist" => req[c].key \in Keys /\ req[c].persist # "none"
    /\ req[c].waits => Active(c)
    /\ req[c].reply # "none" => req[c].key \in Keys

(* Who owns the attempt of a key owns it alone, and what the calls have     *)
(* answered is true: of a transfer that has been tried and will never move  *)
(* money too.                                                               *)
Owns(c, k) == pay[c].pc = "owning" /\ pay[c].key = k
Dead(k) == paid[k] \in {"inflight", "failed"} /\ \A c \in Calls : ~Owns(c, k)

Tells(what, k) ==
  /\ what = "COMPLETED" => paid[k] = "moved"
  /\ what = "FAILED" => Dead(k)
  /\ what = "IN_FLIGHT" => paid[k] # "none"

PaysInv ==
  /\ \A c \in Calls :
       /\ pay[c].pc \in {"waiting", "owning", "answered"} => pay[c].key \in Keys
       /\ pay[c].pc = "owning" => paid[pay[c].key] = "inflight"
       /\ pay[c].pc = "answered" => pay[c].answer # "none" /\ Tells(pay[c].answer, pay[c].key)
  /\ \A c, d \in Calls : pay[c].pc = "owning" /\ Owns(d, pay[c].key) => c = d

(* The payment a request makes is of its key, and nobody else pays.         *)
LinkInv ==
  \A c \in Calls :
    /\ Calling(c) => req[c].pc = "paying"
    /\ req[c].pc = "paying" =>
         pay[c].key = req[c].key /\ pay[c].pc \in {"waiting", "owning", "answered"}

(* What is kept, stored, replied and shown of a payment is true.            *)
TruthInv ==
  /\ \A c \in Calls :
       /\ req[c].pc = "persist" => Tells(req[c].persist, req[c].key)
       /\ req[c].reply # "none" => Tells(req[c].reply, req[c].key)
  /\ \A k \in Keys : record[k].status = "COMPLETED" =>
       record[k].response # "none" /\ Tells(record[k].response, k)
  /\ page.step = "result" => Tells(page.result, page.key)

(* Past the gate a transfer is permitted, and who brings the token has been *)
(* given it.                                                                *)
Passed == {"claim", "lookup", "reclaim", "execute", "paying"}
GateInv ==
  /\ \A c \in Calls :
       /\ req[c].pc \in Passed => verdict[req[c].key] \in Permitting
       /\ req[c].pc = "mark" => /\ verdict[req[c].key] \in {"PENDING_VERIFICATION", "VERIFIED"}
                                /\ req[c].key \in shown
       /\ Active(c) /\ req[c].ack => req[c].key \in shown
  /\ MovesArePermitted /\ VerifiedWasShown
  /\ page.step = "verify_risk" => page.key \in shown

(* Until its stale record is taken over, a key has one request behind the   *)
(* claim, and the record is PROCESSING for it.                              *)
Inside(c, k) == req[c].key = k /\ req[c].pc \in {"execute", "paying", "persist"}
RecordInv ==
  \A k \in Keys \ reclaimed : \A c \in Calls : Inside(c, k) =>
    /\ record[k].status = "PROCESSING"
    /\ \A d \in Calls : Inside(d, k) => d = c

(* The page.                                                                *)
Untouched(k) == paid[k] = "none" \/ Dead(k)
Told == {"COMPLETED", "IN_FLIGHT", "UNCERTAIN", "LOST"}

PageShape ==
  /\ user.is = "client" => page = FreshPage /\ abandoned = {}
  /\ page.step # "amount" => page.key \in Keys
  /\ page.call # NoPay => /\ page.step \in {"confirm", "verify_risk"}
                          /\ req[page.call].key = page.key
                          /\ req[page.call].waits \/ req[page.call].reply # "none"
  /\ page.call = NoPay => ~page.replay
  /\ page.key \notin abandoned

(* Until it sends again for a reply that is lost, the page's request is the *)
(* only one under way for its key, so what the money does is in the reply.  *)
Alone ==
  page.step \in Early \cup {"blocked"} /\ page.key # NoPay /\ ~page.replay =>
    \A c \in Calls : Active(c) /\ req[c].key = page.key => c = page.call
ReplyTells ==
  page.step \in Early /\ page.key # NoPay /\ ~page.replay =>
    \/ Untouched(page.key)
    \/ page.call # NoPay /\ (req[page.call].pc = "paying" \/ req[page.call].reply \in Told)
HoldTells ==
  /\ page.call # NoPay /\ ~page.replay /\ req[page.call].reply = "BLOCKED" =>
       paid[page.key] = "none"
  /\ page.step = "blocked" => paid[page.key] = "none"

(* The keys it has left are at rest.                                        *)
LeftInv == \A k \in abandoned : Untouched(k) /\ \A c \in Calls : req[c].key = k => ~Active(c)

PageInv == PageShape /\ Alone /\ ReplyTells /\ HoldTells /\ LeftInv

GatewayInv ==
  Types /\ RequestsInv /\ PaysInv /\ LinkInv /\ TruthInv /\ GateInv /\ RecordInv /\ PageInv
-----------------------------------------------------------------------------
(* What the assignments to a request make of it.                            *)
LEMMA GoesIs ==
  ASSUME Types, NEW c \in Calls, NEW pc \in Stages
  PROVE  /\ Goes(c, pc) \in [Calls -> Request]
         /\ \A d \in Calls : d # c => Goes(c, pc)[d] = req[d]
         /\ Goes(c, pc)[c] = [req[c] EXCEPT !.pc = pc]
         /\ Goes(c, pc)[c].pc = pc /\ Goes(c, pc)[c].key = req[c].key
         /\ Goes(c, pc)[c].ack = req[c].ack /\ Goes(c, pc)[c].waits = req[c].waits
         /\ Goes(c, pc)[c].reply = req[c].reply /\ Goes(c, pc)[c].persist = req[c].persist
BY DEF Types, Goes, Request

(* A call that is over.                                                     *)
LEMMA OverIs ==
  /\ Over \in Request
  /\ Over.pc = "over" /\ Over.key = NoPay /\ ~Over.waits /\ Over.reply = "none"
  /\ ~Over.ack /\ Over.persist = "none"
BY DEF Over, Request, Stages, Replies, PayAnswer, Stored

(* A request that was answered.                                             *)
LEMMA RepliedIs ==
  ASSUME Types, NEW c \in Calls, NEW reply \in Replies
  PROVE  /\ Replied(c, reply) \in [Calls -> Request]
         /\ \A d \in Calls : d # c => Replied(c, reply)[d] = req[d]
         /\ Replied(c, reply)[c].pc = "over" /\ ~Replied(c, reply)[c].waits
         /\ ~Replied(c, reply)[c].ack
         /\ Replied(c, reply)[c].key = IF req[c].waits THEN req[c].key ELSE NoPay
         /\ Replied(c, reply)[c].reply = IF req[c].waits THEN reply ELSE "none"
<1> DEFINE new == IF req[c].waits THEN [Over EXCEPT !.key = req[c].key, !.reply = reply] ELSE Over
<1>1. /\ new \in Request /\ new.pc = "over" /\ ~new.waits /\ ~new.ack
      /\ new.key = IF req[c].waits THEN req[c].key ELSE NoPay
      /\ new.reply = IF req[c].waits THEN reply ELSE "none"
  <2>1. CASE req[c].waits
    <3>1. req[c].key \in Keys \cup {NoPay}
      BY DEF Types, Request
    <3> QED BY <2>1, <3>1, OverIs DEF Request
  <2>2. CASE ~req[c].waits
    BY <2>2, OverIs
  <2> QED BY <2>1, <2>2
<1> HIDE DEF new
<1>2. Replied(c, reply) = [req EXCEPT ![c] = new]
  BY DEF Replied, new
<1> QED BY <1>1, <1>2 DEF Types

(* A request that was sent.                                                 *)
LEMMA SentIs ==
  ASSUME Types, NEW c \in Calls, NEW k \in Keys, NEW ack \in BOOLEAN
  PROVE  /\ Sent(c, k, ack) \in [Calls -> Request]
         /\ \A d \in Calls : d # c => Sent(c, k, ack)[d] = req[d]
         /\ Sent(c, k, ack)[c].pc = "gate" /\ Sent(c, k, ack)[c].key = k
         /\ Sent(c, k, ack)[c].ack = ack /\ Sent(c, k, ack)[c].waits
         /\ Sent(c, k, ack)[c].reply = "none"
<1> DEFINE new == [Over EXCEPT !.pc = "gate", !.key = k, !.ack = ack, !.waits = TRUE]
<1>1. "gate" \in Stages
  BY DEF Stages
<1>2. /\ new \in Request /\ new.pc = "gate" /\ new.key = k /\ new.ack = ack /\ new.waits
      /\ new.reply = "none"
  BY <1>1, OverIs DEF Request
<1> HIDE DEF new
<1>3. Sent(c, k, ack) = [req EXCEPT ![c] = new]
  BY DEF Sent, new
<1> QED BY <1>1, <1>2, <1>3 DEF Types

(* A request whose reply was taken, or is no longer waited for.             *)
LEMMA HeardIs ==
  ASSUME Types, NEW c \in Calls
  PROVE  /\ Heard(c) \in [Calls -> Request]
         /\ \A d \in Calls : d # c => Heard(c)[d] = req[d]
         /\ Heard(c)[c].pc = req[c].pc
         /\ req[c].pc # "over" => /\ Heard(c)[c].key = req[c].key
                                  /\ Heard(c)[c].ack = req[c].ack
                                  /\ Heard(c)[c].persist = req[c].persist
         /\ req[c].pc = "over" => Heard(c)[c] = Over
         /\ ~Heard(c)[c].waits /\ Heard(c)[c].reply = "none"
<1>1. CASE req[c].pc = "over"
  BY <1>1, OverIs DEF Types, Heard
<1>2. CASE req[c].pc # "over"
  <2>1. "none" \in Replies
    BY DEF Replies, PayAnswer
  <2> QED BY <1>2, <2>1 DEF Types, Heard, Request
<1> QED BY <1>1, <1>2

(* A request that was answered and is still to be stored.                   *)
LEMMA RepliedFirstIs ==
  ASSUME Types, NEW c \in Calls, NEW reply \in Replies, NEW persist \in Stored \cup {"DELETE"}
  PROVE  LET r == RepliedFirst(c, reply, persist) IN
         /\ r \in [Calls -> Request]
         /\ \A d \in Calls : d # c => r[d] = req[d]
         /\ r[c].pc = "persist" /\ r[c].key = req[c].key /\ ~r[c].waits
         /\ r[c].persist = persist
         /\ r[c].reply = IF req[c].waits THEN reply ELSE "none"
<1> DEFINE old == Replied(c, reply)
<1>1. /\ old \in [Calls -> Request]
      /\ \A d \in Calls : d # c => old[d] = req[d]
      /\ ~old[c].waits /\ old[c].reply = IF req[c].waits THEN reply ELSE "none"
  BY RepliedIs
<1>2. RepliedFirst(c, reply, persist)
      = [old EXCEPT ![c].pc = "persist", ![c].key = req[c].key, ![c].persist = persist]
  BY DEF RepliedFirst
<1> HIDE DEF old
<1>3. req[c].key \in Keys \cup {NoPay} /\ "persist" \in Stages
  BY DEF Types, Request, Stages
<1> DEFINE r == RepliedFirst(c, reply, persist)
<1>4. r = [old EXCEPT ![c] =
           [old[c] EXCEPT !.pc = "persist", !.key = req[c].key, !.persist = persist]]
  BY <1>1, <1>2
<1> DEFINE new == [old[c] EXCEPT !.pc = "persist", !.key = req[c].key, !.persist = persist]
<1>5. old[c] \in Request
  BY <1>1
<1>6. /\ new \in Request /\ new.pc = "persist" /\ new.key = req[c].key
      /\ new.persist = persist /\ new.waits = old[c].waits /\ new.reply = old[c].reply
  BY <1>3, <1>5 DEF Request
<1> HIDE DEF new
<1>7. r = [old EXCEPT ![c] = new]
  BY <1>4 DEF new
<1> QED BY <1>1, <1>6, <1>7

(* What the middleware does with a decision.                                *)
LEMMA GatedIs ==
  ASSUME NEW c, NEW decision \in Verdicts
  PROVE  \/ decision \in Permitting /\ Gated(c, decision) = Goes(c, "claim")
         \/ decision = "BLOCKED" /\ Gated(c, decision) = Replied(c, "BLOCKED")
         \/ decision = "PENDING_VERIFICATION" /\ req[c].ack /\ Gated(c, decision) = Goes(c, "mark")
         \/ Gated(c, decision) = Replied(c, "VERIFY")
<1>1. CASE decision \in Permitting
  BY <1>1 DEF Permitting, Gated
<1>2. CASE decision = "BLOCKED"
  BY <1>2 DEF Permitting, Gated
<1>3. CASE decision = "PENDING_VERIFICATION" /\ req[c].ack
  BY <1>3 DEF Permitting, Gated
<1>4. CASE decision = "PENDING_VERIFICATION" /\ ~req[c].ack
  BY <1>4 DEF Permitting, Gated
<1>5. CASE decision = "none"
  BY <1>5 DEF Permitting, Gated
<1> QED BY <1>1, <1>2, <1>3, <1>4, <1>5 DEF Verdicts

-----------------------------------------------------------------------------
(* The steps of one request, by what they do to it and to the rest.         *)

(* The risk gate: it asks, decides or refuses, and the verdict of the key   *)
(* goes one way.                                                            *)
GateStep(c) == ReadAssessment(c) \/ Assess(c) \/ MarkVerified(c)

Onwards(c) ==
  LET k == req[c].key IN
  \A q \in Keys :
    \/ verdict'[q] = verdict[q]
    \/ /\ q = k /\ verdict[q] = "none"
       /\ verdict'[q] \in {"ALLOWED", "PENDING_VERIFICATION", "BLOCKED"}
    \/ /\ q = k /\ req[c].pc = "mark"
       /\ verdict[q] = "PENDING_VERIFICATION" /\ verdict'[q] = "VERIFIED"

(* What a step of the gate does.                                            *)
LEMMA GateStepIs ==
  ASSUME Types, RequestsInv, GateInv, NEW c \in Calls, GateStep(c)
  PROVE  /\ UNCHANGED <<record, page, user, history, payVars>>
         /\ req[c].pc \in {"gate", "assess", "mark"} /\ req[c].key \in Keys
         /\ verdict' \in [Keys -> Verdicts] /\ Onwards(c)
         /\ \/ req' = Goes(c, "assess")
            \/ req' = Goes(c, "claim") /\ verdict'[req[c].key] \in Permitting
            \/ req' = Goes(c, "mark") /\ req[c].ack
                 /\ verdict'[req[c].key] = "PENDING_VERIFICATION"
            \/ req' = Replied(c, "VERIFY")
            \/ req' = Replied(c, "BLOCKED") /\ verdict'[req[c].key] = "BLOCKED"
<1> DEFINE k == req[c].key
<1>0. req[c].pc \in {"gate", "assess", "mark"} /\ k \in Keys
  BY DEF GateStep, ReadAssessment, Assess, MarkVerified, RequestsInv, Active
<1>a. verdict \in [Keys -> Verdicts] /\ verdict[k] \in Verdicts
  BY <1>0 DEF Types
<1>1. CASE ReadAssessment(c)
  <2>1. verdict' = verdict
    BY <1>1 DEF ReadAssessment
  <2>2. UNCHANGED <<record, page, user, history, payVars>>
    BY <1>1 DEF ReadAssessment
  <2>3. req' = Goes(c, "assess") \/ req' = Gated(c, verdict[k])
    BY <1>1 DEF ReadAssessment
  <2> QED BY <1>0, <1>a, <2>1, <2>2, <2>3, GatedIs DEF Onwards
<1>2. CASE Assess(c)
  <2>1. UNCHANGED <<record, page, user, history, payVars>>
    BY <1>2 DEF Assess
  <2>2. PICK scored \in {"ALLOWED", "PENDING_VERIFICATION", "BLOCKED"} :
          /\ verdict' = [verdict EXCEPT ![k] = IF @ = "none" THEN scored ELSE @]
          /\ req' = IF Decided(verdict[k], scored) \in {"VERIFIED", "RELEASED"}
                    THEN Replied(c, "VERIFY") ELSE Gated(c, Decided(verdict[k], scored))
    BY <1>2 DEF Assess
  <2>3. verdict'[k] = Decided(verdict[k], scored)
    BY <1>0, <1>a, <2>2 DEF Decided
  <2>4. scored \in Verdicts
    BY DEF Verdicts, Permitting
  <2>5. verdict'[k] \in Verdicts
    BY <1>a, <2>3, <2>4 DEF Decided
  <2>6. verdict' \in [Keys -> Verdicts]
    BY <1>0, <1>a, <2>2, <2>4
  <2>7. Onwards(c)
    BY <1>0, <1>a, <2>2 DEF Onwards
  <2>8. req' = Replied(c, "VERIFY") \/ req' = Gated(c, verdict'[k])
    BY <2>2, <2>3
  <2> QED BY <1>0, <2>1, <2>5, <2>6, <2>7, <2>8, GatedIs
<1>3. CASE MarkVerified(c)
  <2>1. req[c].pc = "mark" /\ req' = Goes(c, "claim")
        /\ UNCHANGED <<record, page, user, history, payVars>>
        /\ verdict' = [verdict EXCEPT ![k] = IF @ = "PENDING_VERIFICATION" THEN "VERIFIED" ELSE @]
    BY <1>3 DEF MarkVerified
  <2>2. verdict[k] \in {"PENDING_VERIFICATION", "VERIFIED"}
    BY <2>1 DEF GateInv
  <2>3. verdict'[k] = "VERIFIED" /\ "VERIFIED" \in Verdicts /\ "VERIFIED" \in Permitting
    BY <1>0, <1>a, <2>1, <2>2 DEF Permitting, Verdicts
  <2>4. verdict' \in [Keys -> Verdicts] /\ Onwards(c)
    BY <1>0, <1>a, <2>1, <2>3 DEF Onwards
  <2> QED BY <1>0, <2>1, <2>3, <2>4
<1> QED BY <1>1, <1>2, <1>3 DEF GateStep

(* The idempotency record: it is claimed, looked up or taken over.          *)
RecordStep(c) == Claim(c) \/ Lookup(c) \/ Reclaim(c)

(* What a step at the record does.                                          *)
LEMMA RecordStepIs ==
  ASSUME Types, RequestsInv, TruthInv, NEW c \in Calls, RecordStep(c)
  PROVE  LET k == req[c].key IN
         /\ UNCHANGED <<verdict, page, user, shown, abandoned, payVars>>
         /\ req[c].pc \in {"claim", "lookup", "reclaim"} /\ k \in Keys
         /\ record' \in [Keys -> Row] /\ reclaimed' \subseteq Keys /\ reclaimed \subseteq reclaimed'
         /\ \A q \in Keys : record'[q] = record[q] \/ (q = k /\ record'[q].status = "PROCESSING")
         /\ \/ req' = Goes(c, "lookup") /\ record' = record
            \/ req' = Goes(c, "reclaim") /\ record' = record
            \/ /\ req' = Goes(c, "execute")
               /\ \/ k \in reclaimed'
                  \/ record[k].status = "none" /\ record'[k].status = "PROCESSING"
            \/ /\ record' = record
               /\ \E reply \in Stored \cup {"ERROR", "IN_PROGRESS"} :
                    /\ req' = Replied(c, reply) /\ reply # "none"
                    /\ Tells(reply, k)
         /\ \A q \in Keys \ reclaimed' : record[q].status = "COMPLETED" => record'[q] = record[q]
<1> DEFINE k == req[c].key
<1>0. req[c].pc \in {"claim", "lookup", "reclaim"} /\ k \in Keys
  BY DEF RecordStep, Claim, Lookup, Reclaim, RequestsInv, Active
<1>a. record \in [Keys -> Row] /\ record[k] \in Row /\ reclaimed \subseteq Keys
  BY <1>0 DEF Types
<1>b. Processing \in Row /\ Processing.status = "PROCESSING"
  BY DEF Processing, NoRecord, Row, Stored
<1>1. CASE Claim(c)
  <2>1. UNCHANGED <<verdict, page, user, shown, abandoned, reclaimed, payVars>>
    BY <1>1 DEF Claim, history
  <2>2. CASE record[k].status = "none" /\ record' = [record EXCEPT ![k] = Processing]
             /\ req' = Goes(c, "execute")
    <3>1. record' \in [Keys -> Row] /\ record'[k].status = "PROCESSING"
          /\ \A q \in Keys : q # k => record'[q] = record[q]
      BY <1>0, <1>a, <1>b, <2>2
    <3> QED BY <1>0, <1>a, <2>1, <2>2, <3>1
  <2>3. CASE req' = Goes(c, "lookup") /\ UNCHANGED record
    BY <1>0, <1>a, <2>1, <2>3
  <2> QED BY <1>1, <2>2, <2>3 DEF Claim
<1>2. CASE Lookup(c)
  <2>1. UNCHANGED <<verdict, record, page, user, shown, abandoned, reclaimed, payVars>>
    BY <1>2 DEF Lookup, history
  <2>2. record[k].status \in {"none", "PROCESSING", "COMPLETED"} /\ record[k].response \in Stored
    BY <1>a DEF Row
  <2>3. \/ req' = Goes(c, "reclaim")
        \/ \E reply \in Stored \cup {"ERROR", "IN_PROGRESS"} :
                    /\ req' = Replied(c, reply) /\ reply # "none"
                    /\ Tells(reply, k)
    <3>1. CASE record[k].status = "none"
      <4>1. req' = Replied(c, "ERROR")
        BY <1>2, <3>1 DEF Lookup
      <4> QED BY <4>1 DEF Tells
    <3>2. CASE record[k].status = "COMPLETED"
      <4>1. req' = Replied(c, record[k].response)
        BY <1>2, <3>2 DEF Lookup
      <4> QED BY <1>0, <2>2, <3>2, <4>1 DEF TruthInv
    <3>3. CASE record[k].status = "PROCESSING" /\ Stale(record[k])
      BY <1>2, <3>3 DEF Lookup
    <3>4. CASE record[k].status = "PROCESSING" /\ ~Stale(record[k])
      <4>1. req' = Replied(c, "IN_PROGRESS")
        BY <1>2, <3>4 DEF Lookup, DuplicateRefused
      <4> QED BY <4>1 DEF Tells
    <3> QED BY <2>2, <3>1, <3>2, <3>3, <3>4
  <2> QED BY <1>0, <1>a, <2>1, <2>3
<1>3. CASE Reclaim(c)
  <2>1. UNCHANGED <<verdict, page, user, shown, abandoned, payVars>> /\ req' = Goes(c, "execute")
        /\ record' = [record EXCEPT ![k] = IF @.status = "none" THEN @ ELSE Processing]
        /\ reclaimed' = reclaimed \cup {k}
    BY <1>3 DEF Reclaim
  <2>2. record' \in [Keys -> Row] /\ (record'[k] = record[k] \/ record'[k].status = "PROCESSING")
        /\ \A q \in Keys : q # k => record'[q] = record[q]
    BY <1>0, <1>a, <1>b, <2>1
  <2>3. reclaimed' \subseteq Keys /\ reclaimed \subseteq reclaimed' /\ k \in reclaimed'
    BY <1>0, <1>a, <2>1
  <2> QED BY <1>0, <2>1, <2>2, <2>3
<1> QED BY <1>1, <1>2, <1>3 DEF RecordStep
-----------------------------------------------------------------------------
(* The payment.                                                             *)
Handed(c) == pay[c].pc = "answered" /\ pay' = [pay EXCEPT ![c] = FreshPay] /\ paid' = paid

PayStep(c) ==
  UNCHANGED payVars \/ (\E k \in Keys : BeginPay(c, k)) \/ StepPay(c) \/ DropPay(c) \/ Handed(c)

(* The six ways the statements of Payments write.                           *)
LEMMA PayStepIs ==
  ASSUME PayTypeOK, NEW c \in Calls, PayStep(c)
  PROVE  /\ PayTypeOK'
         /\ \A d \in Calls : d # c => pay'[d] = pay[d]
         /\ \/ UNCHANGED payVars
            \/ /\ paid' = paid /\ ~Calling(c) /\ pay'[c].key \in Keys
               /\ \/ pay'[c].pc = "waiting"
                  \/ pay'[c].pc = "answered" /\ pay'[c].answer = "COMPLETED"
                       /\ paid[pay'[c].key] = "moved"
            \/ /\ paid' = paid /\ pay[c].pc = "waiting"
               /\ pay'[c].pc = "answered" /\ pay'[c].key = pay[c].key
               /\ \/ pay'[c].answer = "COMPLETED" /\ paid[pay[c].key] = "moved"
                  \/ pay'[c].answer = "IN_FLIGHT" /\ paid[pay[c].key] = "inflight"
                  \/ pay'[c].answer = "FAILED" /\ paid[pay[c].key] = "failed"
            \/ /\ pay[c].pc = "waiting" /\ paid[pay[c].key] = "none"
               /\ pay'[c].pc = "owning" /\ pay'[c].key = pay[c].key
               /\ paid' = [paid EXCEPT ![pay[c].key] = "inflight"]
            \/ /\ pay[c].pc = "owning" /\ pay'[c].pc = "answered" /\ pay'[c].key = pay[c].key
               /\ \/ /\ paid' = [paid EXCEPT ![pay[c].key] = "moved"]
                     /\ pay'[c].answer \in {"COMPLETED", "UNCERTAIN"}
                  \/ paid' = paid /\ pay'[c].answer \in {"FAILED", "UNCERTAIN"}
                  \/ /\ paid' = [paid EXCEPT ![pay[c].key] = "failed"]
                     /\ pay'[c].answer = "FAILED"
            \/ paid' = paid /\ pay'[c].pc \in {"dead", "idle"}
<1>a. ASSUME NEW answer \in PayAnswer, AnswerPay(c, answer)
      PROVE  /\ pay' \in [Calls -> PayCall] /\ \A d \in Calls : d # c => pay'[d] = pay[d]
             /\ pay'[c].pc = "answered" /\ pay'[c].answer = answer /\ pay'[c].key = pay[c].key
  <2>1. pay' = [pay EXCEPT ![c] = [pay[c] EXCEPT !.pc = "answered", !.answer = answer]]
    BY <1>a DEF PayTypeOK, AnswerPay, Calls
  <2> DEFINE n == [pay[c] EXCEPT !.pc = "answered", !.answer = answer]
  <2>2. n \in PayCall /\ n.pc = "answered" /\ n.answer = answer /\ n.key = pay[c].key
    BY DEF PayTypeOK, PayCall, Calls
  <2> HIDE DEF n
  <2>3. pay' = [pay EXCEPT ![c] = n]
    BY <2>1 DEF n
  <2> QED BY <2>2, <2>3 DEF PayTypeOK, Calls
<1>b. paid \in [Keys -> PayStatus]
  BY DEF PayTypeOK, Keys
<1>1. CASE UNCHANGED payVars
  BY <1>1 DEF PayTypeOK, payVars
<1>2. ASSUME NEW k \in Keys, BeginPay(c, k)
      PROVE  /\ PayTypeOK' /\ paid' = paid /\ ~Calling(c) /\ pay'[c].key \in Keys
             /\ \A d \in Calls : d # c => pay'[d] = pay[d]
             /\ \/ pay'[c].pc = "waiting"
                \/ pay'[c].pc = "answered" /\ pay'[c].answer = "COMPLETED"
                     /\ paid[pay'[c].key] = "moved"
  <2>1. CASE paid[k] = "moved"
    BY <1>2, <2>1 DEF BeginPay, PayTypeOK, PayCall, PayAnswer, Calls, Keys
  <2>2. CASE paid[k] # "moved"
    BY <1>2, <2>2 DEF BeginPay, PayTypeOK, PayCall, PayAnswer, Calls, Keys
  <2> QED BY <2>1, <2>2
<1>3. CASE JoinPay(c)
  <2>1. /\ pay[c].pc = "waiting" /\ paid' = paid
        /\ \/ AnswerPay(c, "COMPLETED") /\ paid[pay[c].key] = "moved"
           \/ AnswerPay(c, "IN_FLIGHT") /\ paid[pay[c].key] = "inflight"
           \/ AnswerPay(c, "FAILED") /\ paid[pay[c].key] = "failed"
    BY <1>3, GatewayAssumption DEF JoinPay
  <2>2. {"COMPLETED", "IN_FLIGHT", "FAILED"} \subseteq PayAnswer
    BY DEF PayAnswer
  <2> QED BY <1>a, <1>b, <2>1, <2>2 DEF PayTypeOK, Keys, Calls
<1>4. CASE OwnPay(c)
  <2>1. /\ pay[c].pc = "waiting" /\ paid[pay[c].key] = "none"
        /\ paid' = [paid EXCEPT ![pay[c].key] = "inflight"]
        /\ pay' = [pay EXCEPT ![c].pc = "owning"]
    BY <1>4, GatewayAssumption DEF OwnPay
  <2>2. pay' \in [Calls -> PayCall] /\ pay'[c].pc = "owning" /\ pay'[c].key = pay[c].key
        /\ \A d \in Calls : d # c => pay'[d] = pay[d]
    BY <2>1 DEF PayTypeOK, PayCall, Calls
  <2>3. paid' \in [Keys -> PayStatus]
    BY <1>b, <2>1 DEF PayStatus
  <2> QED BY <2>1, <2>2, <2>3 DEF PayTypeOK, Keys, Calls
<1>5. CASE EndPay(c)
  <2>1. {"COMPLETED", "UNCERTAIN", "FAILED"} \subseteq PayAnswer
        /\ {"moved", "failed"} \subseteq PayStatus
    BY DEF PayAnswer, PayStatus
  <2>2. pay[c].pc = "owning"
    BY <1>5 DEF EndPay
  <2>3. CASE /\ paid' = [paid EXCEPT ![pay[c].key] = "moved"]
             /\ \E answer \in {"COMPLETED", "UNCERTAIN"} : AnswerPay(c, answer)
    BY <1>a, <1>b, <2>1, <2>2, <2>3 DEF PayTypeOK, Keys, Calls
  <2>4. CASE /\ \E answer \in {"FAILED", "UNCERTAIN"} : AnswerPay(c, answer)
             /\ UNCHANGED paid
    BY <1>a, <1>b, <2>1, <2>2, <2>4 DEF PayTypeOK, Keys, Calls
  <2>5. CASE /\ paid' = [paid EXCEPT ![pay[c].key] = "failed"]
             /\ AnswerPay(c, "FAILED")
    BY <1>a, <1>b, <2>1, <2>2, <2>5 DEF PayTypeOK, Keys, Calls
  <2> QED BY <1>5, <2>3, <2>4, <2>5 DEF EndPay
<1>6. CASE DropPay(c)
  BY <1>6 DEF DropPay, PayTypeOK, PayCall, PayAnswer, Calls
<1>7. CASE Handed(c)
  <2>1. FreshPay \in PayCall /\ FreshPay.pc = "idle"
    BY DEF FreshPay, PayCall, PayAnswer
  <2> QED BY <1>7, <2>1 DEF Handed, PayTypeOK, Calls
<1> QED BY <1>1, <1>2, <1>3, <1>4, <1>5, <1>6, <1>7 DEF PayStep, StepPay

(* Only the owner of a key changes the fate of its money, and what has been *)
(* told of a payment stays true.                                            *)
LEMMA PaysKept ==
  ASSUME PayTypeOK, PaysInv, NEW c \in Calls, PayStep(c)
  PROVE  /\ PaysInv'
         /\ \A k \in Keys : Dead(k) => Dead(k)' /\ paid'[k] = paid[k]
         /\ \A k \in Keys : paid[k] = "moved" => paid'[k] = "moved"
         /\ \A k \in Keys : paid[k] # "none" => paid'[k] # "none"
         /\ \A k \in Keys : paid'[k] # paid[k] => Calling(c) /\ pay[c].key = k
<1>a. paid \in [Keys -> PayStatus] /\ pay \in [Calls -> PayCall]
  BY DEF PayTypeOK, Keys, Calls
<1>b. \A d \in Calls : d # c => pay'[d] = pay[d]
  BY PayStepIs
<1>1. CASE UNCHANGED payVars
  BY <1>1 DEF payVars, PaysInv, Tells, Dead, Owns
<1>2. CASE /\ paid' = paid /\ ~Calling(c) /\ pay'[c].key \in Keys
           /\ \/ pay'[c].pc = "waiting"
              \/ pay'[c].pc = "answered" /\ pay'[c].answer = "COMPLETED"
                   /\ paid[pay'[c].key] = "moved"
  BY <1>a, <1>b, <1>2 DEF PaysInv, Tells, Dead, Owns, Calling
<1>3. CASE /\ paid' = paid /\ pay[c].pc = "waiting"
           /\ pay'[c].pc = "answered" /\ pay'[c].key = pay[c].key
           /\ \/ pay'[c].answer = "COMPLETED" /\ paid[pay[c].key] = "moved"
              \/ pay'[c].answer = "IN_FLIGHT" /\ paid[pay[c].key] = "inflight"
              \/ pay'[c].answer = "FAILED" /\ paid[pay[c].key] = "failed"
  BY <1>a, <1>b, <1>3 DEF PaysInv, Tells, Dead, Owns, Calling
<1>4. CASE /\ pay[c].pc = "waiting" /\ paid[pay[c].key] = "none"
           /\ pay'[c].pc = "owning" /\ pay'[c].key = pay[c].key
           /\ paid' = [paid EXCEPT ![pay[c].key] = "inflight"]
  BY <1>a, <1>b, <1>4 DEF PaysInv, Tells, Dead, Owns, Calling
<1>5. CASE /\ pay[c].pc = "owning" /\ pay'[c].pc = "answered" /\ pay'[c].key = pay[c].key
           /\ \/ /\ paid' = [paid EXCEPT ![pay[c].key] = "moved"]
                 /\ pay'[c].answer \in {"COMPLETED", "UNCERTAIN"}
              \/ paid' = paid /\ pay'[c].answer \in {"FAILED", "UNCERTAIN"}
              \/ /\ paid' = [paid EXCEPT ![pay[c].key] = "failed"]
                 /\ pay'[c].answer = "FAILED"
  <2> PICK k \in Keys : k = pay[c].key
    BY <1>5 DEF PaysInv
  <2>1. paid[k] = "inflight" /\ Owns(c, k) /\ pay'[c].key = k
    BY <1>5 DEF PaysInv, Owns
  <2>2. \A d \in Calls : ~Owns(d, k)'
    BY <1>b, <1>5, <2>1 DEF PaysInv, Owns
  <2>3. /\ \A q \in Keys : q # k => paid'[q] = paid[q]
        /\ paid'[k] \in {"inflight", "moved", "failed"}
    BY <1>a, <1>5, <2>1
  <2>4. \A q \in Keys : Dead(q) => q # k /\ Dead(q)'
    BY <1>b, <1>5, <2>1, <2>3 DEF Dead, Owns
  <2>5. (pay[c].answer # "none" /\ Tells(pay[c].answer, pay[c].key))'
    BY <1>a, <1>5, <2>1, <2>2, <2>3 DEF Tells, Dead
  <2>6. \A d \in Calls : pay[d].pc = "owning" /\ d # c => pay[d].key # k
    BY <1>5, <2>1 DEF PaysInv, Owns
  <2>7. (\A d \in Calls :
           pay[d].pc = "answered" => pay[d].answer # "none" /\ Tells(pay[d].answer, pay[d].key))'
    BY <1>b, <1>5, <2>1, <2>3, <2>4, <2>5 DEF PaysInv, Tells
  <2>8. PaysInv'
    BY <1>b, <1>5, <2>1, <2>3, <2>6, <2>7 DEF PaysInv, Owns
  <2> QED BY <1>5, <2>1, <2>3, <2>4, <2>8 DEF Calling
<1>6. CASE paid' = paid /\ pay'[c].pc \in {"dead", "idle"}
  BY <1>a, <1>b, <1>6 DEF PaysInv, Tells, Dead, Owns, Calling
<1> QED BY <1>1, <1>2, <1>3, <1>4, <1>5, <1>6, PayStepIs

(* So does everything told.                                                 *)
LEMMA TellsStays ==
  ASSUME PayTypeOK, PaysInv, NEW c \in Calls, PayStep(c), NEW k \in Keys, NEW what, Tells(what, k)
  PROVE  Tells(what, k)'
BY PaysKept DEF Tells

(* In any step of a payment, what is told of a key stays true, and a key    *)
(* nobody pays for just now stays as it is.                                 *)
LEMMA MoneyStays ==
  ASSUME Types, PaysInv, LinkInv, NEW c \in Calls, PayStep(c)
  PROVE  /\ PayTypeOK' /\ PaysInv'
         /\ \A k \in Keys : \A what : Tells(what, k) => Tells(what, k)'
         /\ \A k \in Keys :
              Untouched(k) /\ (req[c].pc = "paying" => req[c].key # k) => Untouched(k)'
         /\ \A k \in Keys : (req[c].pc = "paying" => req[c].key # k) => paid'[k] = paid[k]
         /\ MovesArePermitted /\ (req[c].pc = "paying" => verdict'[req[c].key] \in Permitting)
              /\ (\A k \in Keys : verdict[k] \in Permitting => verdict'[k] \in Permitting)
            => MovesArePermitted'
<1>1. PayTypeOK' /\ PaysInv'
  BY PaysKept, PayStepIs DEF Types
<1>2. \A k \in Keys : \A what : Tells(what, k) => Tells(what, k)'
  BY TellsStays DEF Types
<1>3. \A k \in Keys : (req[c].pc = "paying" => req[c].key # k) => paid'[k] = paid[k]
  BY PaysKept DEF Types, LinkInv
<1>4. \A k \in Keys : Untouched(k) /\ (req[c].pc = "paying" => req[c].key # k) => Untouched(k)'
  BY <1>3, PaysKept DEF Types, Untouched
<1>5. ASSUME MovesArePermitted, req[c].pc = "paying" => verdict'[req[c].key] \in Permitting,
             \A k \in Keys : verdict[k] \in Permitting => verdict'[k] \in Permitting
      PROVE  MovesArePermitted'
  BY <1>3, <1>5 DEF MovesArePermitted
<1> QED BY <1>1, <1>2, <1>3, <1>4, <1>5

(* A step that leaves the payments alone leaves what is said of them.       *)
LEMMA MoneyStill ==
  ASSUME UNCHANGED payVars
  PROVE  /\ (PaysInv => PaysInv')
         /\ \A k : \A what : Tells(what, k) <=> Tells(what, k)'
         /\ \A k : Untouched(k) <=> Untouched(k)'
         /\ paid' = paid
BY DEF payVars, PaysInv, Tells, Dead, Owns, Untouched

-----------------------------------------------------------------------------
(* The invariant, step by step.                                             *)

(* What a step of the service may do to a request without making the page   *)
(* or an abandoned key wrong.                                               *)
LEMMA ServedPage ==
  ASSUME Types, RequestsInv, PageInv, NEW c \in Calls,
         UNCHANGED <<page, abandoned>>, user'.is = user.is,
         \A d \in Calls : d # c => req'[d] = req[d],
         Active(c)' => Active(c) /\ req'[c].key = req[c].key,
         req[c].waits => req'[c].key = req[c].key /\ (req'[c].waits \/ req'[c].reply # "none"),
         req[c].reply # "none" => req'[c].key = req[c].key /\ req'[c].reply = req[c].reply,
         \A q \in Keys : (req[c].pc = "paying" => req[c].key # q) =>
           paid'[q] = paid[q] /\ (Untouched(q) => Untouched(q)'),
         req[c].waits => Untouched(req[c].key)' \/ req'[c].pc = "paying" \/ req'[c].reply \in Told
                           \/ (req[c].pc # "paying" /\ ~Untouched(req[c].key)),
         req[c].waits /\ req'[c].reply = "BLOCKED" => paid'[req[c].key] = "none"
  PROVE  PageInv'
<1>1. page.call # NoPay => page.call \in Calls
  BY DEF Types, Screen
<1>2. abandoned \subseteq Keys /\ page.key \in Keys \cup {NoPay} /\ c # NoPay /\ NoPay \notin Keys
  BY NoCallAssumption, PayKeysAssumption DEF Types, Screen, Calls, Keys
<1>3. PageShape'
  BY <1>1, <1>2 DEF PageInv, PageShape, FreshPage
<1>4. Alone'
  BY <1>1, <1>2 DEF PageInv, Alone, Active
<1>5. ReplyTells'
  BY <1>1, <1>2 DEF PageInv, PageShape, Alone, ReplyTells, RequestsInv, Active, Told
<1>6. HoldTells'
  <2>1. page.call # c /\ page.step \in Early \cup {"blocked"} /\ page.key \in Keys /\ ~page.replay
        => paid'[page.key] = paid[page.key]
    BY <1>2 DEF PageInv, Alone, Active
  <2>2. page.call # NoPay /\ ~page.replay /\ req'[page.call].reply = "BLOCKED" =>
          paid'[page.key] = "none"
    <3>1. SUFFICES ASSUME page.call # NoPay, ~page.replay, req'[page.call].reply = "BLOCKED"
                   PROVE  paid'[page.key] = "none"
      OBVIOUS
    <3>2. page.step \in Early /\ page.key \in Keys /\ req[page.call].key = page.key
      BY <3>1 DEF PageInv, PageShape, Early
    <3>3. CASE page.call # c
      BY <1>1, <2>1, <3>1, <3>2, <3>3 DEF PageInv, HoldTells
    <3>4. CASE page.call = c /\ req[c].waits
      BY <3>1, <3>2, <3>4
    <3>5. CASE page.call = c /\ req[c].reply # "none"
      <4>1. req[c].pc # "paying"
        BY <3>5 DEF RequestsInv, Active
      <4> QED BY <3>1, <3>2, <3>5, <4>1 DEF PageInv, HoldTells
    <3> QED BY <1>1, <3>1, <3>3, <3>4, <3>5 DEF PageInv, PageShape
  <2>3. page.step = "blocked" => paid'[page.key] = "none"
    BY <1>2, <2>1 DEF PageInv, PageShape, HoldTells, Early
  <2> QED BY <2>2, <2>3 DEF HoldTells
<1>7. LeftInv'
  BY <1>1, <1>2 DEF PageInv, LeftInv, Active
<1> QED BY <1>3, <1>4, <1>5, <1>6, <1>7 DEF PageInv

(* A permission of the gate stays one, whatever the gate does next.         *)
LEMMA GateKeeps ==
  ASSUME GatewayInv, NEW c \in Calls, GateStep(c)
  PROVE  GatewayInv'
<1> USE DEF GatewayInv
<1> DEFINE k == req[c].key
<1>s. /\ UNCHANGED <<record, page, user, history, payVars>>
      /\ req[c].pc \in {"gate", "assess", "mark"} /\ k \in Keys
      /\ verdict' \in [Keys -> Verdicts] /\ Onwards(c)
  BY GateStepIs
<1>e. /\ req' \in [Calls -> Request]
      /\ \A d \in Calls : d # c => req'[d] = req[d]
      /\ \/ /\ req'[c].pc \in {"assess", "claim", "mark"} /\ req'[c].key = k
            /\ req'[c].ack = req[c].ack /\ req'[c].waits = req[c].waits
            /\ req'[c].reply = "none"
            /\ req'[c].pc = "claim" => verdict'[k] \in Permitting
            /\ req'[c].pc = "mark" => req[c].ack /\ verdict'[k] = "PENDING_VERIFICATION"
         \/ /\ req'[c].pc = "over" /\ ~req'[c].waits /\ ~req'[c].ack
            /\ req'[c].key = IF req[c].waits THEN k ELSE NoPay
            /\ req'[c].reply \in (IF req[c].waits THEN {"VERIFY", "BLOCKED"} ELSE {"none"})
            /\ req'[c].reply = "BLOCKED" => verdict'[k] = "BLOCKED"
  <2>1. {"assess", "claim", "mark"} \subseteq Stages /\ {"VERIFY", "BLOCKED"} \subseteq Replies
    BY DEF Stages, Replies
  <2>2. req[c].reply = "none"
    BY <1>s DEF RequestsInv, Active
  <2>3. CASE req' = Goes(c, "assess")
    BY <2>1, <2>2, <2>3, GoesIs
  <2>4. CASE req' = Goes(c, "claim") /\ verdict'[k] \in Permitting
    BY <2>1, <2>2, <2>4, GoesIs
  <2>5. CASE req' = Goes(c, "mark") /\ req[c].ack /\ verdict'[k] = "PENDING_VERIFICATION"
    <3>1. /\ req' \in [Calls -> Request] /\ \A d \in Calls : d # c => req'[d] = req[d]
          /\ req'[c].pc = "mark" /\ req'[c].key = k /\ req'[c].ack = req[c].ack
          /\ req'[c].waits = req[c].waits /\ req'[c].reply = req[c].reply
      BY <2>1, <2>5, GoesIs
    <3> QED BY <2>2, <2>5, <3>1
  <2>6. CASE req' = Replied(c, "VERIFY")
    BY <2>1, <2>6, RepliedIs
  <2>7. CASE req' = Replied(c, "BLOCKED") /\ verdict'[k] = "BLOCKED"
    BY <2>1, <2>7, RepliedIs
  <2> QED BY <2>3, <2>4, <2>5, <2>6, <2>7, GateStepIs
<1>m. PaysInv' /\ (\A q \in Keys : \A what : Tells(what, q) <=> Tells(what, q)')
      /\ (\A q \in Keys : Untouched(q) <=> Untouched(q)') /\ paid' = paid /\ pay' = pay
  BY <1>s, MoneyStill DEF payVars
<1>v. \A q \in Keys : /\ verdict[q] \in Permitting => verdict'[q] = verdict[q]
                      /\ verdict[q] \in {"PENDING_VERIFICATION", "VERIFIED"} =>
                           verdict'[q] \in {"PENDING_VERIFICATION", "VERIFIED"}
                      /\ verdict'[q] = "VERIFIED" =>
                            verdict[q] = "VERIFIED" \/ (q = k /\ req[c].pc = "mark")
  BY <1>s DEF Onwards, Permitting
<1>1. Types'
  BY <1>s, <1>e DEF Types, PayTypeOK, payVars, history
<1>2. RequestsInv'
  BY <1>s, <1>e DEF RequestsInv, Active
<1>3. LinkInv'
  BY <1>s, <1>e, <1>m DEF LinkInv, Calling
<1>4. TruthInv'
  <2>1. \A d \in Calls : (req[d].pc = "persist" => Tells(req[d].persist, req[d].key))'
    BY <1>e, <1>m DEF TruthInv, RequestsInv
  <2>2. \A d \in Calls : (req[d].reply # "none" => Tells(req[d].reply, req[d].key))'
    BY <1>e, <1>m DEF TruthInv, RequestsInv, Tells
  <2>3. (\A q \in Keys : record[q].status = "COMPLETED" =>
           record[q].response # "none" /\ Tells(record[q].response, q))'
    BY <1>s, <1>m DEF TruthInv
  <2>4. (page.step = "result" => Tells(page.result, page.key))'
    BY <1>s, <1>m, MoneyStill DEF TruthInv
  <2> QED BY <2>1, <2>2, <2>3, <2>4 DEF TruthInv
<1>5. GateInv'
  <2>1. \A d \in Calls : (req[d].pc \in Passed => verdict[req[d].key] \in Permitting)'
    BY <1>e, <1>v DEF GateInv, RequestsInv, Active, Passed
  <2>2. \A d \in Calls :
          (req[d].pc = "mark" => /\ verdict[req[d].key] \in {"PENDING_VERIFICATION", "VERIFIED"}
                                 /\ req[d].key \in shown)'
    BY <1>s, <1>e, <1>v DEF GateInv, RequestsInv, Active, history
  <2>3. \A d \in Calls : (Active(d) /\ req[d].ack => req[d].key \in shown)'
    BY <1>s, <1>e DEF GateInv, Active, history
  <2>4. MovesArePermitted'
    BY <1>m, <1>v DEF GateInv, MovesArePermitted
  <2>5. VerifiedWasShown'
    BY <1>s, <1>v DEF GateInv, VerifiedWasShown, history
  <2> QED BY <1>s, <2>1, <2>2, <2>3, <2>4, <2>5 DEF GateInv, history
<1>6. RecordInv'
  BY <1>s, <1>e DEF RecordInv, Inside, history
<1>7. PageInv'
  <2>1. page' = page /\ abandoned' = abandoned /\ user' = user
    BY <1>s DEF history
  <2>2. verdict'[k] = "BLOCKED" => paid[k] = "none"
    BY <1>s, <1>v DEF GateInv, MovesArePermitted, Permitting, Onwards
  <2>3. req[c].reply = "none" /\ req[c].pc # "paying" /\ Active(c)
    BY <1>s DEF RequestsInv, Active
  <2> QED BY <1>e, <1>m, <1>s, <2>1, <2>2, <2>3, ServedPage DEF Active
<1> QED BY <1>m, <1>1, <1>2, <1>3, <1>4, <1>5, <1>6, <1>7

(* The idempotency middleware.                                              *)
LEMMA RecordKeeps ==
  ASSUME GatewayInv, NEW c \in Calls, RecordStep(c)
  PROVE  GatewayInv'
<1> USE DEF GatewayInv
<1> DEFINE k == req[c].key
<1>s. /\ UNCHANGED <<verdict, page, user, shown, abandoned, payVars>>
      /\ req[c].pc \in {"claim", "lookup", "reclaim"} /\ k \in Keys
      /\ record' \in [Keys -> Row] /\ reclaimed' \subseteq Keys /\ reclaimed \subseteq reclaimed'
      /\ \A q \in Keys : record'[q] = record[q] \/ (q = k /\ record'[q].status = "PROCESSING")
  BY RecordStepIs
<1>r. req[c].reply = "none" /\ Active(c) /\ req[c].pc # "paying"
  BY <1>s DEF RequestsInv, Active
<1>e. /\ req' \in [Calls -> Request]
      /\ \A d \in Calls : d # c => req'[d] = req[d]
      /\ \/ /\ req'[c].pc \in {"lookup", "reclaim", "execute"} /\ req'[c].key = k
            /\ req'[c].ack = req[c].ack /\ req'[c].waits = req[c].waits
            /\ req'[c].reply = "none"
            /\ req'[c].pc # "execute" => record' = record
            /\ req'[c].pc = "execute" =>
                 k \in reclaimed' \/ (record[k].status = "none" /\ record'[k].status = "PROCESSING")
         \/ /\ req'[c].pc = "over" /\ ~req'[c].waits /\ ~req'[c].ack /\ record' = record
            /\ req'[c].key = IF req[c].waits THEN k ELSE NoPay
            /\ req[c].waits => req'[c].reply # "none" /\ Tells(req'[c].reply, k)
                                 /\ req'[c].reply # "BLOCKED"
            /\ ~req[c].waits => req'[c].reply = "none"
  <2>1. {"lookup", "reclaim", "execute"} \subseteq Stages
    BY DEF Stages
  <2>2. Stored \cup {"ERROR", "IN_PROGRESS"} \subseteq Replies /\ "BLOCKED" \notin Stored
    BY DEF Stored, Replies, PayAnswer
  <2>3. CASE req' = Goes(c, "lookup") /\ record' = record
    BY <1>r, <2>1, <2>3, GoesIs
  <2>4. CASE req' = Goes(c, "reclaim") /\ record' = record
    BY <1>r, <2>1, <2>4, GoesIs
  <2>5. CASE /\ req' = Goes(c, "execute")
             /\ k \in reclaimed' \/ (record[k].status = "none" /\ record'[k].status = "PROCESSING")
    <3>1. /\ req' \in [Calls -> Request] /\ \A d \in Calls : d # c => req'[d] = req[d]
          /\ req'[c].pc = "execute" /\ req'[c].key = k /\ req'[c].ack = req[c].ack
          /\ req'[c].waits = req[c].waits /\ req'[c].reply = req[c].reply
      BY <2>1, <2>5, GoesIs
    <3> QED BY <1>r, <2>5, <3>1
  <2>6. ASSUME NEW reply \in Stored \cup {"ERROR", "IN_PROGRESS"}, record' = record,
               req' = Replied(c, reply), reply # "none", Tells(reply, k)
        PROVE  <1>e!:
    <3>1. /\ req' \in [Calls -> Request] /\ \A d \in Calls : d # c => req'[d] = req[d]
          /\ req'[c].pc = "over" /\ ~req'[c].waits /\ ~req'[c].ack
          /\ req'[c].key = IF req[c].waits THEN k ELSE NoPay
          /\ req'[c].reply = IF req[c].waits THEN reply ELSE "none"
      BY <2>2, <2>6, RepliedIs
    <3> QED BY <2>2, <2>6, <3>1
  <2> QED BY <2>3, <2>4, <2>5, <2>6, RecordStepIs
<1>m. PaysInv' /\ (\A q : \A what : Tells(what, q) <=> Tells(what, q)')
      /\ (\A q : Untouched(q) <=> Untouched(q)') /\ paid' = paid /\ pay' = pay
  BY <1>s, MoneyStill DEF payVars
<1>1. Types'
  BY <1>s, <1>e DEF Types, PayTypeOK, payVars
<1>2. RequestsInv'
  BY <1>s, <1>e DEF RequestsInv, Active
<1>3. LinkInv'
  BY <1>s, <1>e, <1>m DEF LinkInv, Calling
<1>4. TruthInv'
  <2>1. \A d \in Calls : (req[d].pc = "persist" => Tells(req[d].persist, req[d].key))'
    BY <1>e, <1>m DEF TruthInv
  <2>2. \A d \in Calls : (req[d].reply # "none" => Tells(req[d].reply, req[d].key))'
    BY <1>e, <1>m DEF TruthInv
  <2>3. (\A q \in Keys : record[q].status = "COMPLETED" =>
           record[q].response # "none" /\ Tells(record[q].response, q))'
    BY <1>s, <1>m DEF TruthInv
  <2>4. (page.step = "result" => Tells(page.result, page.key))'
    BY <1>s, <1>m DEF TruthInv
  <2> QED BY <2>1, <2>2, <2>3, <2>4 DEF TruthInv
<1>5. GateInv'
  <2>1. \A d \in Calls : (req[d].pc \in Passed => verdict[req[d].key] \in Permitting)'
    BY <1>s, <1>e DEF GateInv, Passed
  <2>2. \A d \in Calls :
          (req[d].pc = "mark" => /\ verdict[req[d].key] \in {"PENDING_VERIFICATION", "VERIFIED"}
                                 /\ req[d].key \in shown)'
    BY <1>s, <1>e DEF GateInv
  <2>3. \A d \in Calls : (Active(d) /\ req[d].ack => req[d].key \in shown)'
    BY <1>s, <1>e, <1>r DEF GateInv, Active
  <2> QED BY <1>s, <1>m, <2>1, <2>2, <2>3 DEF GateInv, MovesArePermitted, VerifiedWasShown
<1>6. RecordInv'
  <2>1. \A q \in Keys \ reclaimed' : \A d \in Calls : Inside(d, q)' =>
           \/ Inside(d, q)
           \/ /\ d = c /\ q = k
              /\ record[k].status = "none" /\ record'[k].status = "PROCESSING"
    BY <1>s, <1>e DEF Inside
  <2> QED BY <1>s, <2>1 DEF RecordInv
<1>7. PageInv'
  BY <1>e, <1>m, <1>r, <1>s, ServedPage DEF Active
<1> QED BY <1>m, <1>1, <1>2, <1>3, <1>4, <1>5, <1>6, <1>7

(* The handler, up to the response.                                         *)
LEMMA ExecuteKeeps ==
  ASSUME GatewayInv, NEW c \in Calls, Execute(c)
  PROVE  GatewayInv'
<1> USE DEF GatewayInv
<1> DEFINE k == req[c].key
<1>s. /\ UNCHANGED <<verdict, record, page, user, history>>
      /\ req[c].pc = "execute" /\ k \in Keys /\ BeginPay(c, k) /\ req' = Goes(c, "paying")
  BY DEF Execute, RequestsInv, Active
<1>r. req[c].reply = "none" /\ Active(c) /\ req[c].pc # "paying"
  BY <1>s DEF RequestsInv, Active
<1>e. /\ req' \in [Calls -> Request] /\ \A d \in Calls : d # c => req'[d] = req[d]
      /\ req'[c].pc = "paying" /\ req'[c].key = k /\ req'[c].ack = req[c].ack
      /\ req'[c].waits = req[c].waits /\ req'[c].reply = "none"
  <2>1. "paying" \in Stages
    BY DEF Stages
  <2> QED BY <1>s, <1>r, <2>1, GoesIs
<1>p. PayStep(c)
  BY <1>s DEF PayStep
<1>m. /\ PayTypeOK' /\ PaysInv'
      /\ \A q \in Keys : \A what : Tells(what, q) => Tells(what, q)'
      /\ \A q \in Keys : Untouched(q) => Untouched(q)'
      /\ paid' = paid
  BY <1>p, <1>r, <1>s, MoneyStays DEF BeginPay
<1>q. /\ \A d \in Calls : d # c => pay'[d] = pay[d]
      /\ pay'[c].key = k /\ pay'[c].pc \in {"waiting", "answered"}
  BY <1>s DEF BeginPay, Types, PayTypeOK, Calls
<1>1. Types'
  BY <1>s, <1>e, <1>m DEF Types, history
<1>2. RequestsInv'
  BY <1>s, <1>e DEF RequestsInv, Active
<1>3. LinkInv'
  BY <1>s, <1>e, <1>q DEF LinkInv, Calling
<1>4. TruthInv'
  BY <1>s, <1>e, <1>m DEF TruthInv, RequestsInv, Types, Screen, PageInv, PageShape
<1>5. GateInv'
  BY <1>s, <1>e, <1>m, <1>r DEF GateInv, Passed, Active, MovesArePermitted,
     VerifiedWasShown, history
<1>6. RecordInv'
  BY <1>s, <1>e DEF RecordInv, Inside, history
<1>7. PageInv'
  <2>1. UNCHANGED <<page, abandoned, user>>
    BY <1>s DEF history
  <2> QED BY <1>e, <1>m, <1>r, <1>s, <2>1, ServedPage DEF Active
<1> QED BY <1>m, <1>1, <1>2, <1>3, <1>4, <1>5, <1>6, <1>7

(* The handler waits for the service.                                       *)
LEMMA PayingKeeps ==
  ASSUME GatewayInv, NEW c \in Calls, Paying(c)
  PROVE  GatewayInv'
<1> USE DEF GatewayInv
<1> DEFINE k == req[c].key
<1>s. /\ UNCHANGED <<verdict, record, req, page, user, history>>
      /\ req[c].pc = "paying" /\ k \in Keys /\ PayStep(c) /\ StepPay(c)
  BY DEF Paying, RequestsInv, Active, PayStep
<1>m. /\ PayTypeOK' /\ PaysInv'
      /\ \A q \in Keys : \A what : Tells(what, q) => Tells(what, q)'
      /\ \A q \in Keys : k # q => paid'[q] = paid[q] /\ (Untouched(q) => Untouched(q)')
      /\ MovesArePermitted'
  BY <1>s, MoneyStays DEF GateInv, Passed
<1>q. /\ \A d \in Calls : d # c => pay'[d] = pay[d]
      /\ pay'[c].key = pay[c].key /\ pay'[c].pc \in {"answered", "owning"}
  BY <1>s DEF StepPay, JoinPay, OwnPay, EndPay, AnswerPay, Types, PayTypeOK, PayCall, Calls
<1>1. Types'
  BY <1>s, <1>m DEF Types, history
<1>2. RequestsInv'
  BY <1>s DEF RequestsInv, Active
<1>3. LinkInv'
  BY <1>s, <1>q DEF LinkInv, Calling
<1>4. TruthInv'
  BY <1>s, <1>m DEF TruthInv, RequestsInv, Types, Screen, PageInv, PageShape
<1>5. GateInv'
  BY <1>s, <1>m DEF GateInv, Passed, Active, VerifiedWasShown, history
<1>6. RecordInv'
  BY <1>s DEF RecordInv, Inside, history
<1>7. PageInv'
  <2>1. UNCHANGED <<page, abandoned, user>>
    BY <1>s DEF history
  <2>2. req[c].reply = "none" /\ Active(c)
    BY <1>s DEF RequestsInv, Active
  <2> QED BY <1>m, <1>s, <2>1, <2>2, ServedPage DEF Active
<1> QED BY <1>m, <1>1, <1>2, <1>3, <1>4, <1>5, <1>6, <1>7

(* The response leaves, before the record is written.                       *)
LEMMA AnswerKeeps ==
  ASSUME GatewayInv, NEW c \in Calls, Answer(c)
  PROVE  GatewayInv'
<1> USE DEF GatewayInv
<1> DEFINE k == req[c].key
<1> PICK persist \in ToPersist(pay[c].answer) : req' = RepliedFirst(c, pay[c].answer, persist)
  BY DEF Answer
<1>s. /\ UNCHANGED <<verdict, record, page, user, history>>
      /\ req[c].pc = "paying" /\ k \in Keys /\ PayStep(c)
      /\ pay[c].pc = "answered" /\ pay[c].key = k /\ Tells(pay[c].answer, k)
      /\ paid' = paid /\ pay' = [pay EXCEPT ![c] = FreshPay] /\ pay[c].answer # "none"
      /\ pay[c].answer \in PayAnswer
  BY DEF Answer, RequestsInv, Active, PayStep, Handed, LinkInv, PaysInv, Types,
     PayTypeOK, PayCall, Calls
<1>a. /\ persist \in Stored \cup {"DELETE"} /\ persist # "none" /\ Tells(persist, k)
      /\ pay[c].answer \in Replies /\ pay[c].answer # "BLOCKED"
  BY <1>s DEF ToPersist, Stored, PayAnswer, Replies, Tells
<1>e. /\ req' \in [Calls -> Request] /\ \A d \in Calls : d # c => req'[d] = req[d]
      /\ req'[c].pc = "persist" /\ req'[c].key = k /\ ~req'[c].waits /\ req'[c].persist = persist
      /\ req'[c].reply = IF req[c].waits THEN pay[c].answer ELSE "none"
  BY <1>a, RepliedFirstIs
<1>m. /\ PayTypeOK' /\ PaysInv'
      /\ \A q \in Keys : \A what : Tells(what, q) => Tells(what, q)'
      /\ \A q \in Keys : k # q => paid'[q] = paid[q] /\ (Untouched(q) => Untouched(q)')
  BY <1>s, MoneyStays
<1>q. /\ \A d \in Calls : d # c => pay'[d] = pay[d]
      /\ pay'[c].pc = "idle"
  BY <1>s DEF FreshPay, Types, PayTypeOK, Calls
<1>r. req[c].reply = "none" /\ Active(c)
  BY <1>s DEF RequestsInv, Active
<1>1. Types'
  BY <1>s, <1>e, <1>m DEF Types, history
<1>2. RequestsInv'
  BY <1>s, <1>a, <1>e DEF RequestsInv, Active
<1>3. LinkInv'
  BY <1>s, <1>e, <1>q DEF LinkInv, Calling
<1>4. TruthInv'
  BY <1>s, <1>a, <1>e, <1>m DEF TruthInv, RequestsInv, Types, Screen, PageInv, PageShape
<1>5. GateInv'
  BY <1>s, <1>e, <1>m, <1>r DEF GateInv, Passed, Active, MovesArePermitted,
     VerifiedWasShown, history
<1>6. RecordInv'
  BY <1>s, <1>e DEF RecordInv, Inside, history
<1>7. PageInv'
  <2>1. UNCHANGED <<page, abandoned, user>>
    BY <1>s DEF history
  <2>2. Untouched(k)' \/ pay[c].answer \in Told
    <3>1. pay[c].answer = "FAILED" => Dead(k)
      BY <1>s DEF Tells
    <3>2. Dead(k) => Untouched(k)'
      BY <1>s, <1>e, PaysKept DEF Untouched, Types
    <3> QED BY <1>s, <3>1, <3>2 DEF PayAnswer, Told
  <2> QED BY <1>a, <1>e, <1>m, <1>r, <1>s, <2>1, <2>2, ServedPage DEF Active
<1> QED BY <1>m, <1>1, <1>2, <1>3, <1>4, <1>5, <1>6, <1>7

(* What is stored of it.                                                    *)
LEMMA PersistKeeps ==
  ASSUME GatewayInv, NEW c \in Calls, Persist(c)
  PROVE  GatewayInv'
<1> USE DEF GatewayInv
<1> DEFINE k == req[c].key
<1>s. /\ UNCHANGED <<verdict, page, history, payVars>>
      /\ req[c].pc = "persist" /\ k \in Keys /\ req[c].persist # "none"
      /\ req[c].persist \in Stored \cup {"DELETE"} /\ Tells(req[c].persist, k) /\ ~req[c].waits
  BY DEF Persist, RequestsInv, Active, TruthInv, Types, Request
<1>e. /\ req' \in [Calls -> Request] /\ \A d \in Calls : d # c => req'[d] = req[d]
      /\ req'[c].pc = "over" /\ ~req'[c].waits /\ req'[c].reply = req[c].reply
      /\ req[c].reply # "none" => req'[c].key = k
  <2>1. CASE req[c].reply = "none"
    <3>1. req' = [req EXCEPT ![c] = Over]
      BY <2>1 DEF Persist
    <3> QED BY <2>1, <3>1, OverIs DEF Types
  <2>2. CASE req[c].reply # "none"
    <3> DEFINE n == [req[c] EXCEPT !.pc = "over", !.persist = "none"]
    <3>1. req' = [req EXCEPT ![c] = n]
      BY <2>2 DEF Persist
    <3>2. n \in Request /\ n.pc = "over" /\ n.waits = req[c].waits /\ n.reply = req[c].reply
          /\ n.key = k
      BY DEF Types, Request, Stages, Stored
    <3> HIDE DEF n
    <3> QED BY <1>s, <3>1, <3>2 DEF Types
  <2> QED BY <2>1, <2>2
<1>w. /\ record' \in [Keys -> Row]
      /\ \A q \in Keys : q # k => record'[q] = record[q]
      /\ \/ record'[k] = record[k]
         \/ record'[k].status = "none"
         \/ record'[k].status = "COMPLETED" /\ record'[k].response = req[c].persist
              /\ req[c].persist # "DELETE"
  <2>a. record \in [Keys -> Row] /\ record[k] \in Row
    BY <1>s DEF Types
  <2>1. CASE UNCHANGED record
    BY <2>1, <2>a
  <2>2. CASE record' = [record EXCEPT ![k] =
              IF req[c].persist = "DELETE" \/ @.status = "none" THEN NoRecord
              ELSE [@ EXCEPT !.status = "COMPLETED", !.response = req[c].persist]]
    <3>1. NoRecord \in Row /\ NoRecord.status = "none"
      BY DEF NoRecord, Row, Stored
    <3>2. CASE req[c].persist = "DELETE" \/ record[k].status = "none"
      <4>1. record' = [record EXCEPT ![k] = NoRecord]
        BY <2>2, <3>2
      <4> QED BY <1>s, <2>a, <3>1, <4>1
    <3>3. CASE ~(req[c].persist = "DELETE" \/ record[k].status = "none")
      <4> DEFINE n == [record[k] EXCEPT !.status = "COMPLETED", !.response = req[c].persist]
      <4>1. n \in Row /\ n.status = "COMPLETED" /\ n.response = req[c].persist
        BY <1>s, <2>a, <3>3 DEF Row
      <4>2. record' = [record EXCEPT ![k] = n]
        BY <2>2, <3>3
      <4> HIDE DEF n
      <4> QED BY <1>s, <2>a, <3>3, <4>1, <4>2
    <3> QED BY <3>2, <3>3
  <2> QED BY <2>1, <2>2 DEF Persist
<1>u. user' \in [is : {"page", "client"}, keys : SUBSET Keys, faults : Nat] /\ user'.is = user.is
  BY DEF Persist, Fault, Types
<1>m. PaysInv' /\ (\A q : \A what : Tells(what, q) <=> Tells(what, q)')
      /\ (\A q : Untouched(q) <=> Untouched(q)') /\ paid' = paid /\ pay' = pay
  BY <1>s, MoneyStill DEF payVars
<1>1. Types'
  BY <1>s, <1>e, <1>w, <1>u DEF Types, PayTypeOK, payVars, history
<1>2. RequestsInv'
  BY <1>s, <1>e DEF RequestsInv, Active
<1>3. LinkInv'
  BY <1>s, <1>e, <1>m DEF LinkInv, Calling
<1>4. TruthInv'
  BY <1>s, <1>e, <1>m, <1>w DEF TruthInv
<1>5. GateInv'
  BY <1>s, <1>e, <1>m DEF GateInv, Passed, Active, MovesArePermitted,
     VerifiedWasShown, history
<1>6. RecordInv'
  <2>1. \A q \in Keys : \A d \in Calls : Inside(d, q)' => Inside(d, q) /\ d # c
    BY <1>e DEF Inside
  <2>2. Inside(c, k)
    BY <1>s DEF Inside
  <2> QED BY <1>s, <1>w, <2>1, <2>2 DEF RecordInv, history
<1>7. PageInv'
  <2>1. UNCHANGED <<page, abandoned>>
    BY <1>s DEF history
  <2> QED BY <1>e, <1>m, <1>s, <1>u, <2>1, ServedPage DEF Active
<1> QED BY <1>m, <1>1, <1>2, <1>3, <1>4, <1>5, <1>6, <1>7

(* The server dies, or a statement fails.                                   *)
LEMMA FailKeeps ==
  ASSUME GatewayInv, NEW c \in Calls, Fail(c)
  PROVE  GatewayInv'
<1> USE DEF GatewayInv
<1> DEFINE k == req[c].key
<1>s. /\ UNCHANGED <<verdict, record, page, history>>
      /\ Active(c) /\ k \in Keys /\ req[c].reply = "none"
  BY DEF Fail, RequestsInv, Active
<1>p. PayStep(c) /\ ~Calling(c)' /\ paid' = paid /\ \A d \in Calls : d # c => pay'[d] = pay[d]
  <2>1. CASE Calling(c) /\ DropPay(c)
    BY <2>1 DEF DropPay, PayStep, Calling, Types, PayTypeOK, PayCall, Calls
  <2>2. CASE ~Calling(c) /\ UNCHANGED payVars
    BY <2>2 DEF PayStep, payVars, Calling
  <2>3. req[c].pc # "paying" => ~Calling(c)
    BY DEF LinkInv
  <2> QED BY <2>1, <2>2, <2>3 DEF Fail
<1>e. /\ req' \in [Calls -> Request] /\ \A d \in Calls : d # c => req'[d] = req[d]
      /\ req'[c].pc = "over" /\ ~req'[c].waits
      /\ req'[c].key = IF req[c].waits THEN k ELSE NoPay
      /\ req[c].waits => req'[c].reply \in {"LOST", "ERROR"}
      /\ req[c].waits => req'[c].reply = "LOST" \/ req[c].pc # "paying"
      /\ ~req[c].waits => req'[c].reply = "none"
  <2>1. "LOST" \in Replies /\ "ERROR" \in Replies
    BY DEF Replies
  <2>2. req' = Replied(c, "LOST") \/ (req' = Replied(c, "ERROR") /\ req[c].pc # "paying")
    BY DEF Fail
  <2>3. CASE req' = Replied(c, "LOST")
    BY <2>1, <2>3, RepliedIs
  <2>4. CASE req' = Replied(c, "ERROR") /\ req[c].pc # "paying"
    BY <2>1, <2>4, RepliedIs
  <2> QED BY <2>2, <2>3, <2>4
<1>u. user' \in [is : {"page", "client"}, keys : SUBSET Keys, faults : Nat] /\ user'.is = user.is
  BY DEF Fail, Fault, Types
<1>m. /\ PayTypeOK' /\ PaysInv'
      /\ \A q \in Keys : \A what : Tells(what, q) => Tells(what, q)'
      /\ \A q \in Keys : Untouched(q) => Untouched(q)'
  <2>1. \A q \in Keys : Untouched(q) => Untouched(q)'
    BY <1>p, PaysKept DEF Untouched, Types
  <2> QED BY <1>p, <2>1, MoneyStays
<1>1. Types'
  BY <1>s, <1>e, <1>u, <1>m DEF Types, history
<1>2. RequestsInv'
  BY <1>s, <1>e DEF RequestsInv, Active
<1>3. LinkInv'
  BY <1>s, <1>e, <1>p DEF LinkInv, Calling
<1>4. TruthInv'
  <2>1. \A d \in Calls : (req[d].pc = "persist" => Tells(req[d].persist, req[d].key))'
    BY <1>e, <1>m DEF TruthInv, RequestsInv
  <2>2. \A d \in Calls : (req[d].reply # "none" => Tells(req[d].reply, req[d].key))'
    <3>1. (req[c].reply # "none" => Tells(req[c].reply, req[c].key))'
      BY <1>e DEF Tells
    <3> QED BY <1>e, <1>m, <3>1 DEF TruthInv, RequestsInv
  <2>3. (\A q \in Keys : record[q].status = "COMPLETED" =>
           record[q].response # "none" /\ Tells(record[q].response, q))'
    BY <1>s, <1>m DEF TruthInv
  <2>4. (page.step = "result" => Tells(page.result, page.key))'
    BY <1>s, <1>m DEF TruthInv, PageInv, PageShape
  <2> QED BY <2>1, <2>2, <2>3, <2>4 DEF TruthInv
<1>5. GateInv'
  BY <1>s, <1>e, <1>p DEF GateInv, Passed, Active, MovesArePermitted,
     VerifiedWasShown, history
<1>6. RecordInv'
  BY <1>s, <1>e DEF RecordInv, Inside, history
<1>7. PageInv'
  <2>1. UNCHANGED <<page, abandoned>>
    BY <1>s DEF history
  <2> QED BY <1>e, <1>m, <1>p, <1>s, <1>u, <2>1, ServedPage DEF Active, Told
<1> QED BY <1>m, <1>1, <1>2, <1>3, <1>4, <1>5, <1>6, <1>7

-----------------------------------------------------------------------------
(* The sender.                                                              *)

(* A request sent to a key that nobody has left.                            *)
LEMMA SendKeeps ==
  ASSUME GatewayInv, NEW c \in Calls, Free(c), NEW k \in Keys, NEW ack \in BOOLEAN,
         ack => k \in shown,
         UNCHANGED <<verdict, record, user, history, payVars>>,
         req' \in [Calls -> Request], \A d \in Calls : d # c => req'[d] = req[d],
         req'[c].pc = "gate", req'[c].key = k, req'[c].ack = ack, req'[c].reply = "none"
  PROVE  /\ RequestsInv' /\ PaysInv' /\ LinkInv' /\ RecordInv'
         /\ (page' \in Screen => Types')
         /\ ((page' = page \/ page'.step # "result") => TruthInv')
         /\ ((page'.step = "verify_risk" => page'.key \in shown') => GateInv')
<1> USE DEF GatewayInv
<1>1. req[c].pc = "over" /\ req[c].reply = "none"
  BY DEF Free
<1>m. PaysInv' /\ (\A q : \A what : Tells(what, q) <=> Tells(what, q)')
      /\ paid' = paid /\ pay' = pay
  BY MoneyStill DEF payVars
<1>2. RequestsInv'
  BY <1>1 DEF RequestsInv, Active
<1>3. LinkInv'
  BY <1>1, <1>m DEF LinkInv, Calling
<1>4. RecordInv'
  BY <1>1 DEF RecordInv, Inside, history
<1>5. page' \in Screen => Types'
  BY DEF Types, PayTypeOK, payVars, history
<1>6. (page' = page \/ page'.step # "result") => TruthInv'
  BY <1>1, <1>m DEF TruthInv
<1>7. (page'.step = "verify_risk" => page'.key \in shown') => GateInv'
  BY <1>1, <1>m DEF GateInv, Passed, Active, MovesArePermitted,
     VerifiedWasShown, history
<1> QED BY <1>m, <1>2, <1>3, <1>4, <1>5, <1>6, <1>7

(* A client, with no page.                                                  *)
LEMMA ClientSendsKeeps ==
  ASSUME GatewayInv, NEW c \in Calls, NEW k \in Keys, ClientSends(c, k)
  PROVE  GatewayInv'
<1> USE DEF GatewayInv
<1>1. PICK ack \in BOOLEAN : req' = Sent(c, k, ack) /\ (ack => k \in shown)
  BY DEF ClientSends
<1>2. ack => k \in shown
  BY <1>1
<1>3. /\ req' \in [Calls -> Request] /\ \A d \in Calls : d # c => req'[d] = req[d]
      /\ req'[c].pc = "gate" /\ req'[c].key = k /\ req'[c].ack = ack /\ req'[c].reply = "none"
  BY <1>1, SentIs
<1>4. Free(c) /\ UNCHANGED <<verdict, record, page, user, history, payVars>> /\ user.is = "client"
  BY DEF ClientSends
<1>5. page' = page /\ page \in Screen
  BY <1>4 DEF Types
<1>g. page'.step = "verify_risk" => page'.key \in shown'
  BY <1>4, <1>5 DEF GateInv, history
<1>6. Types' /\ RequestsInv' /\ PaysInv' /\ LinkInv' /\ RecordInv' /\ TruthInv' /\ GateInv'
  BY <1>2, <1>3, <1>4, <1>5, <1>g, SendKeeps
<1>7. PageInv'
  <2>1. page = FreshPage /\ abandoned = {} /\ abandoned' = {} /\ page' = FreshPage
    BY <1>4 DEF PageInv, PageShape, history
  <2> QED BY <2>1 DEF PageInv, PageShape, Alone, ReplyTells, HoldTells, LeftInv, FreshPage, Early
<1> QED BY <1>6, <1>7

(* A request whose reply somebody has taken: what it was to do it still     *)
(* does.                                                                    *)
LEMMA HearKeeps ==
  ASSUME GatewayInv, NEW c \in Calls,
         UNCHANGED <<verdict, record, abandoned, reclaimed, payVars>>,
         shown \subseteq shown', shown' \subseteq Keys,
         user' \in [is : {"page", "client"}, keys : SUBSET Keys, faults : Nat],
         req' \in [Calls -> Request],
         \A d \in Calls : d # c =>
           \/ req'[d] = req[d]
           \/ req[d].pc = "over" /\ req'[d].pc = "gate" /\ req'[d].key \in Keys
                /\ ~req'[d].ack /\ req'[d].reply = "none",
         req'[c] = Heard(c)[c]
  PROVE  /\ RequestsInv' /\ PaysInv' /\ LinkInv' /\ RecordInv'
         /\ (page' \in Screen => Types')
         /\ ((page'.step = "result" => Tells(page'.result, page'.key)) => TruthInv')
         /\ ((page'.step = "verify_risk" => page'.key \in shown') => GateInv')
<1> USE DEF GatewayInv
<1>1. /\ req'[c].pc = req[c].pc /\ ~req'[c].waits /\ req'[c].reply = "none"
      /\ req[c].pc # "over" => /\ req'[c].key = req[c].key /\ req'[c].ack = req[c].ack
                               /\ req'[c].persist = req[c].persist
  BY HeardIs
<1>m. PaysInv' /\ (\A q : \A what : Tells(what, q) <=> Tells(what, q)')
      /\ paid' = paid /\ pay' = pay
  BY MoneyStill DEF payVars
<1>2. RequestsInv'
  BY <1>1 DEF RequestsInv, Active
<1>3. LinkInv'
  BY <1>1, <1>m DEF LinkInv, Calling
<1>4. RecordInv'
  <2>1. \A q \in Keys : \A d \in Calls : Inside(d, q)' => Inside(d, q)
    BY <1>1 DEF Inside
  <2> QED BY <2>1 DEF RecordInv
<1>5. page' \in Screen => Types'
  BY DEF Types, PayTypeOK, payVars
<1>6. ASSUME page'.step = "result" => Tells(page'.result, page'.key) PROVE TruthInv'
  <2>1. \A d \in Calls : (req[d].pc = "persist" => Tells(req[d].persist, req[d].key))'
    BY <1>1, <1>m DEF TruthInv
  <2>2. \A d \in Calls : (req[d].reply # "none" => Tells(req[d].reply, req[d].key))'
    BY <1>1, <1>m DEF TruthInv
  <2>3. (\A q \in Keys : record[q].status = "COMPLETED" =>
           record[q].response # "none" /\ Tells(record[q].response, q))'
    BY <1>m DEF TruthInv
  <2>4. (page.step = "result" => Tells(page.result, page.key))'
    BY <1>6, <1>m DEF Tells, Dead, Owns
  <2> QED BY <2>1, <2>2, <2>3, <2>4 DEF TruthInv
<1>7. ASSUME page'.step = "verify_risk" => page'.key \in shown' PROVE GateInv'
  <2>1. \A d \in Calls : (req[d].pc \in Passed => verdict[req[d].key] \in Permitting)'
    BY <1>1 DEF GateInv, Passed
  <2>2. \A d \in Calls :
          (req[d].pc = "mark" => /\ verdict[req[d].key] \in {"PENDING_VERIFICATION", "VERIFIED"}
                                 /\ req[d].key \in shown)'
    BY <1>1 DEF GateInv
  <2>3. \A d \in Calls : (Active(d) /\ req[d].ack => req[d].key \in shown)'
    BY <1>1 DEF GateInv, Active
  <2> QED BY <1>7, <1>m, <2>1, <2>2, <2>3 DEF GateInv, MovesArePermitted, VerifiedWasShown
<1> QED BY <1>m, <1>2, <1>3, <1>4, <1>5, <1>6, <1>7

(* A client takes a reply.                                                  *)
LEMMA ClientReceivesKeeps ==
  ASSUME GatewayInv, NEW c \in Calls, ClientReceives(c)
  PROVE  GatewayInv'
<1> USE DEF GatewayInv
<1>1. /\ UNCHANGED <<verdict, record, page, user, abandoned, reclaimed, payVars>>
      /\ req' = Heard(c) /\ user.is = "client" /\ req[c].reply # "none"
      /\ shown' = Shown(c, req[c].reply)
  BY DEF ClientReceives
<1>2. shown \subseteq shown' /\ shown' \subseteq Keys
  BY <1>1 DEF Shown, Types, RequestsInv
<1>3. req' \in [Calls -> Request] /\ \A d \in Calls : d # c => req'[d] = req[d]
  BY <1>1, HeardIs
<1>4. page = FreshPage /\ page' = FreshPage /\ abandoned = {} /\ abandoned' = {}
  BY <1>1 DEF PageInv, PageShape
<1>5. FreshPage.step = "amount" /\ FreshPage.call = NoPay /\ FreshPage.key = NoPay
      /\ ~FreshPage.replay
  BY DEF FreshPage
<1>6. page' \in Screen /\ user' \in [is : {"page", "client"}, keys : SUBSET Keys, faults : Nat]
  BY <1>1 DEF Types
<1>7. Types' /\ RequestsInv' /\ PaysInv' /\ LinkInv' /\ RecordInv' /\ TruthInv' /\ GateInv'
  BY <1>1, <1>2, <1>3, <1>4, <1>5, <1>6, HearKeeps
<1>8. PageInv'
  BY <1>4, <1>5 DEF PageInv, PageShape, Alone, ReplyTells, HoldTells, LeftInv, Early
<1> QED BY <1>7, <1>8

(* The page.                                                                *)
LEMMA GoConfirmKeeps ==
  ASSUME GatewayInv, GoConfirm
  PROVE  GatewayInv'
<1> USE DEF GatewayInv
<1>1. PICK k \in Keys \ (abandoned \cup {page.key}) :
        /\ \A c \in Calls : req[c].key # k
        /\ paid[k] = "none" /\ verdict[k] = "none"
        /\ page' = [page EXCEPT !.step = "confirm", !.key = k]
  BY DEF GoConfirm
<1>2. /\ UNCHANGED <<verdict, record, user, payVars, req, shown, reclaimed>>
      /\ abandoned' = abandoned \cup ({page.key} \ {NoPay})
      /\ user.is = "page" /\ page.step = "amount"
  BY DEF GoConfirm, PageStays
<1>m. PaysInv' /\ (\A q : \A what : Tells(what, q) <=> Tells(what, q)')
      /\ (\A q : Untouched(q) <=> Untouched(q)') /\ paid' = paid /\ pay' = pay
  BY <1>2, MoneyStill DEF payVars
<1>3. /\ page' \in Screen /\ page'.step = "confirm" /\ page'.key = k
      /\ page'.call = page.call /\ page'.replay = page.replay
  BY <1>1 DEF Types, Screen, Early
<1>4. page.call = NoPay /\ ~page.replay
  BY <1>2 DEF PageInv, PageShape
<1>k. k # NoPay /\ page.key \in Keys \cup {NoPay}
  BY PayKeysAssumption DEF Keys, Types, Screen
<1>5. Types'
  BY <1>2, <1>3, <1>k DEF Types, PayTypeOK, payVars
<1>6. RequestsInv' /\ LinkInv' /\ TruthInv' /\ GateInv' /\ RecordInv'
  BY <1>2, <1>3, <1>m DEF RequestsInv, Active, LinkInv, Calling, TruthInv, GateInv,
     MovesArePermitted, VerifiedWasShown, RecordInv, Inside
<1>7. PageInv'
  <2>1. PageShape'
    BY <1>1, <1>2, <1>3, <1>4, <1>k DEF PageInv, PageShape
  <2>2. Alone'
    BY <1>1, <1>2, <1>3 DEF Alone, Active
  <2>3. ReplyTells'
    BY <1>1, <1>3, <1>m DEF ReplyTells, Untouched
  <2>4. HoldTells'
    BY <1>3, <1>4 DEF HoldTells
  <2>5. LeftInv'
    <3>1. page.key \in Keys =>
            Untouched(page.key) /\ \A c \in Calls : req[c].key = page.key => ~Active(c)
      BY <1>2, <1>4, <1>k, PayKeysAssumption, NoCallAssumption
         DEF PageInv, Alone, ReplyTells, Early, Keys, Calls
    <3> QED BY <1>2, <1>m, <1>k, <3>1 DEF PageInv, LeftInv, Active
  <2> QED BY <2>1, <2>2, <2>3, <2>4, <2>5 DEF PageInv
<1> QED BY <1>m, <1>5, <1>6, <1>7

(* Back, Cancel, and leaving the page.                                      *)
LEMMA GoBackKeeps ==
  ASSUME GatewayInv, GoBack
  PROVE  GatewayInv'
<1> USE DEF GatewayInv
<1>1. /\ UNCHANGED <<verdict, record, user, payVars, req, history>>
      /\ page.call = NoPay /\ ~page.replay
  BY DEF GoBack, PageStays, PageInv, PageShape
<1>m. PaysInv' /\ (\A q : \A what : Tells(what, q) <=> Tells(what, q)')
      /\ (\A q : Untouched(q) <=> Untouched(q)') /\ paid' = paid /\ pay' = pay
  BY <1>1, MoneyStill DEF payVars
<1>2. /\ page' \in Screen
      /\ \/ /\ page.step \in {"confirm", "verify_risk"} /\ page'.step \in {"amount", "confirm"}
            /\ page'.key = page.key /\ page'.call = page.call /\ page'.replay = page.replay
         \/ page' = FreshPage
  <2>1. FreshPage \in Screen
    BY DEF FreshPage, Screen, Early, Replies, PayAnswer
  <2>2. CASE page.step = "confirm" /\ page' = [page EXCEPT !.step = "amount"]
    BY <2>2 DEF Types, Screen, Early
  <2>3. CASE page.step = "verify_risk" /\ page' = [page EXCEPT !.step = "confirm"]
    BY <2>3 DEF Types, Screen, Early
  <2> QED BY <2>1, <2>2, <2>3 DEF GoBack
<1>3. /\ page'.call = NoPay /\ ~page'.replay /\ page'.step \in {"amount", "confirm"}
      /\ page'.key = NoPay \/ (page'.key = page.key /\ page.step \in Early)
      /\ page'.step = "confirm" => page'.key = page.key /\ page.step \in Early
  BY <1>1, <1>2 DEF FreshPage, Early
<1>5. Types'
  BY <1>1, <1>2 DEF Types, PayTypeOK, payVars, history
<1>6. RequestsInv' /\ LinkInv' /\ TruthInv' /\ GateInv' /\ RecordInv'
  BY <1>1, <1>3, <1>m DEF RequestsInv, Active, LinkInv, Calling, TruthInv, GateInv,
     MovesArePermitted, VerifiedWasShown, RecordInv, Inside, history
<1>7. PageInv'
  <2>0. NoPay \notin abandoned
    BY PayKeysAssumption DEF Types, Keys
  <2>1. PageShape'
    BY <1>1, <1>2, <1>3, <2>0 DEF PageInv, PageShape, FreshPage, history
  <2>2. Alone'
    BY <1>1, <1>3 DEF PageInv, Alone, Active
  <2>3. ReplyTells'
    BY <1>1, <1>3, <1>m DEF PageInv, ReplyTells
  <2>4. HoldTells'
    BY <1>3 DEF HoldTells
  <2>5. LeftInv'
    BY <1>1, <1>m DEF PageInv, LeftInv, Active, history
  <2> QED BY <2>1, <2>2, <2>3, <2>4, <2>5 DEF PageInv
<1> QED BY <1>m, <1>5, <1>6, <1>7

(* The page sends its key.                                                  *)
LEMMA SubmitKeeps ==
  ASSUME GatewayInv, NEW c \in Calls, Submit(c)
  PROVE  GatewayInv'
<1> USE DEF GatewayInv
<1>1. /\ UNCHANGED <<verdict, record, user, payVars, history>> /\ Free(c)
      /\ page.call = NoPay /\ ~page.replay /\ page.step \in {"confirm", "verify_risk"}
      /\ req' = Sent(c, page.key, page.step = "verify_risk")
      /\ page' = [page EXCEPT !.call = c, !.replay = FALSE]
  BY DEF Submit, PageStays, PageInv, PageShape
<1>2. page.key \in Keys /\ (page.step = "verify_risk" => page.key \in shown)
  BY <1>1 DEF PageInv, PageShape, GateInv
<1>a. PICK ack \in BOOLEAN : req' = Sent(c, page.key, ack) /\ (ack => page.step = "verify_risk")
  <2>1. CASE page.step = "verify_risk"
    <3>1. (page.step = "verify_risk") = TRUE
      BY <2>1
    <3>2. req' = Sent(c, page.key, TRUE)
      BY <1>1, <3>1, Zenon
    <3> QED BY <2>1, <3>2
  <2>2. CASE page.step # "verify_risk"
    <3>1. (page.step = "verify_risk") = FALSE
      BY <2>2
    <3>2. req' = Sent(c, page.key, FALSE)
      BY <1>1, <3>1, Zenon
    <3> QED BY <3>2
  <2> QED BY <2>1, <2>2
<1>3. /\ req' \in [Calls -> Request] /\ \A d \in Calls : d # c => req'[d] = req[d]
      /\ req'[c].pc = "gate" /\ req'[c].key = page.key /\ req'[c].waits /\ req'[c].reply = "none"
      /\ req'[c].ack = ack
  BY <1>1, <1>2, <1>a, SentIs
<1>4. /\ page' \in Screen /\ page'.step = page.step /\ page'.key = page.key /\ page'.call = c
      /\ ~page'.replay /\ page'.result = page.result
  BY <1>1 DEF Types, Screen
<1>b. /\ ack => page.key \in shown
      /\ page'.step = "verify_risk" => page'.key \in shown'
  BY <1>1, <1>2, <1>4, <1>a DEF history
<1>5. Types' /\ RequestsInv' /\ PaysInv' /\ LinkInv' /\ RecordInv' /\ TruthInv' /\ GateInv'
  BY <1>1, <1>2, <1>3, <1>4, <1>b, SendKeeps
<1>m. (\A q : Untouched(q) <=> Untouched(q)') /\ paid' = paid /\ pay' = pay
  BY <1>1, MoneyStill DEF payVars
<1>c. c # NoPay /\ page.key # NoPay
  BY <1>2, NoCallAssumption, PayKeysAssumption DEF Calls, Keys
<1>7. PageInv'
  <2>1. PageShape'
    BY <1>1, <1>2, <1>3, <1>4, <1>c DEF PageInv, PageShape, FreshPage, history
  <2>2. Alone'
    BY <1>1, <1>3, <1>4, <1>c, NoCallAssumption DEF PageInv, Alone, Active, Early, Calls
  <2>3. ReplyTells'
    BY <1>1, <1>3, <1>4, <1>c, <1>m DEF PageInv, ReplyTells, Early
  <2>4. HoldTells'
    BY <1>1, <1>3, <1>4 DEF HoldTells
  <2>5. LeftInv'
    BY <1>1, <1>3, <1>m DEF PageInv, PageShape, LeftInv, Active, history
  <2> QED BY <2>1, <2>2, <2>3, <2>4, <2>5 DEF PageInv
<1> QED BY <1>5, <1>7

(* The page sends a key that is paid again.                                 *)
LEMMA SimulateDuplicateKeeps ==
  ASSUME GatewayInv, NEW c \in Calls, SimulateDuplicate(c)
  PROVE  GatewayInv'
<1> USE DEF GatewayInv
<1>1. /\ UNCHANGED <<verdict, record, user, page, payVars, history>> /\ Free(c)
      /\ page.step = "result" /\ page' = page
      /\ req' = [Sent(c, page.key, FALSE) EXCEPT ![c].waits = FALSE]
  BY DEF SimulateDuplicate, PageStays
<1>2. page.key \in Keys /\ page.call = NoPay
  BY <1>1 DEF PageInv, PageShape
<1> DEFINE s == Sent(c, page.key, FALSE)
<1>s. /\ s \in [Calls -> Request] /\ \A d \in Calls : d # c => s[d] = req[d]
      /\ s[c].pc = "gate" /\ s[c].key = page.key /\ s[c].reply = "none" /\ ~s[c].ack
  BY <1>2, SentIs
<1> HIDE DEF s
<1>3. /\ req' \in [Calls -> Request] /\ \A d \in Calls : d # c => req'[d] = req[d]
      /\ req'[c].pc = "gate" /\ req'[c].key = page.key /\ req'[c].reply = "none"
      /\ req'[c].ack = FALSE
  <2> DEFINE n == [s[c] EXCEPT !.waits = FALSE]
  <2>1. n \in Request /\ n.pc = "gate" /\ n.key = page.key /\ n.reply = "none" /\ n.ack = FALSE
    BY <1>s DEF Request
  <2>2. req' = [s EXCEPT ![c] = n]
    BY <1>1, <1>s DEF s
  <2> HIDE DEF n
  <2> QED BY <1>s, <2>1, <2>2
<1>4. page' \in Screen
  BY <1>1 DEF Types
<1>b. page'.step = "verify_risk" => page'.key \in shown'
  BY <1>1
<1>5. Types' /\ RequestsInv' /\ PaysInv' /\ LinkInv' /\ RecordInv' /\ TruthInv' /\ GateInv'
  BY <1>1, <1>2, <1>3, <1>4, <1>b, SendKeeps
<1>m. (\A q : Untouched(q) <=> Untouched(q)') /\ paid' = paid
  BY <1>1, MoneyStill DEF payVars
<1>7. PageInv'
  BY <1>1, <1>2, <1>3, <1>m DEF PageInv, PageShape, Alone, ReplyTells, HoldTells, LeftInv,
     FreshPage, Early, Active, history
<1> QED BY <1>5, <1>7

(* An administrator and the clock.                                          *)
LEMMA ReleaseKeeps ==
  ASSUME GatewayInv, NEW k \in Keys, Release(k)
  PROVE  GatewayInv'
<1> USE DEF GatewayInv
<1>1. /\ UNCHANGED <<record, req, page, user, history, payVars>>
      /\ verdict[k] = "BLOCKED" /\ verdict' = [verdict EXCEPT ![k] = "RELEASED"]
  BY DEF Release
<1>2. /\ verdict' \in [Keys -> Verdicts] /\ verdict'[k] = "RELEASED"
      /\ \A q \in Keys : q # k => verdict'[q] = verdict[q]
  BY <1>1 DEF Types, Verdicts, Permitting
<1>m. PaysInv' /\ (\A q : \A what : Tells(what, q) <=> Tells(what, q)')
      /\ (\A q : Untouched(q) <=> Untouched(q)') /\ paid' = paid /\ pay' = pay
  BY <1>1, MoneyStill DEF payVars
<1>3. Types' /\ RequestsInv' /\ LinkInv' /\ TruthInv' /\ RecordInv' /\ PageInv'
  BY <1>1, <1>2, <1>m DEF Types, PayTypeOK, payVars, history, RequestsInv, Active, LinkInv, Calling,
     TruthInv, RecordInv, Inside, PageInv, PageShape, Alone, ReplyTells, HoldTells, LeftInv
<1>4. GateInv'
  <2>1. \A q \in Keys : verdict[q] \in Permitting \cup {"PENDING_VERIFICATION"} =>
          verdict'[q] = verdict[q]
    BY <1>1, <1>2 DEF Permitting
  <2>2. \A d \in Calls : req[d].pc \in Passed \cup {"mark"} => req[d].key \in Keys
    BY DEF RequestsInv, Active, Passed
  <2>3. MovesArePermitted' /\ VerifiedWasShown'
    BY <1>1, <1>2, <1>m, <2>1 DEF GateInv, MovesArePermitted,
     VerifiedWasShown, history
  <2> QED BY <1>1, <2>1, <2>2, <2>3 DEF GateInv, Active, history, Permitting
<1> QED BY <1>m, <1>3, <1>4

(* A record grows stale.                                                    *)
LEMMA GrowStaleKeeps ==
  ASSUME GatewayInv, NEW k \in Keys, GrowStale(k)
  PROVE  GatewayInv'
<1> USE DEF GatewayInv
<1>1. /\ UNCHANGED <<verdict, req, page, user, history, payVars>>
      /\ record' = [record EXCEPT ![k].stale = TRUE] /\ record[k].status = "PROCESSING"
  BY DEF GrowStale
<1>2. /\ record' \in [Keys -> Row] /\ record'[k].status = "PROCESSING"
      /\ \A q \in Keys : q # k => record'[q] = record[q]
  BY <1>1 DEF Types, Row
<1>m. PaysInv' /\ (\A q : \A what : Tells(what, q) <=> Tells(what, q)')
      /\ (\A q : Untouched(q) <=> Untouched(q)') /\ paid' = paid /\ pay' = pay
  BY <1>1, MoneyStill DEF payVars
<1>3. Types' /\ RequestsInv' /\ LinkInv' /\ GateInv' /\ RecordInv' /\ PageInv'
  BY <1>1, <1>2, <1>m DEF Types, PayTypeOK, payVars, history, RequestsInv, Active, LinkInv, Calling,
     GateInv, MovesArePermitted, VerifiedWasShown, RecordInv, Inside,
     PageInv, PageShape, Alone, ReplyTells, HoldTells, LeftInv
<1>4. TruthInv'
  BY <1>1, <1>2, <1>m DEF TruthInv
<1> QED BY <1>m, <1>3, <1>4

(* What the page is after a reply.                                          *)
LEMMA AtIs ==
  ASSUME page \in Screen, NEW step \in Early \cup {"blocked", "investigate", "result"}
  PROVE  /\ At(step) \in Screen /\ At(step).step = step /\ At(step).key = page.key
         /\ At(step).call = NoPay /\ ~At(step).replay
BY DEF At, Screen

(* The page shows a result.                                                 *)
LEMMA ResultIs ==
  ASSUME page \in Screen, NEW reply \in Replies
  PROVE  /\ Result(reply) \in Screen /\ Result(reply).step = "result"
         /\ Result(reply).key = page.key /\ Result(reply).result = reply
         /\ Result(reply).call = NoPay /\ ~Result(reply).replay
<1> DEFINE at == At("result")
<1>1. at \in Screen /\ at.step = "result" /\ at.key = page.key /\ at.call = NoPay /\ ~at.replay
  BY AtIs
<1>2. Result(reply) = [at EXCEPT !.result = reply]
  BY DEF Result
<1> HIDE DEF at
<1> QED BY <1>1, <1>2 DEF Screen

(* A request without the token.                                             *)
LEMMA SentPlainIs ==
  ASSUME Types, NEW c \in Calls, NEW k \in Keys
  PROVE  /\ Sent(c, k, FALSE) \in [Calls -> Request]
         /\ Sent(c, k, FALSE)[c].pc = "gate" /\ Sent(c, k, FALSE)[c].key = k
         /\ ~Sent(c, k, FALSE)[c].ack /\ Sent(c, k, FALSE)[c].waits
         /\ Sent(c, k, FALSE)[c].reply = "none"
<1>1. FALSE \in BOOLEAN
  OBVIOUS
<1> QED BY <1>1, SentIs

(* The page takes a first reply, or the reply to what it sent again, or it  *)
(* sends again.                                                             *)
LEMMA FirstReplyIs ==
  ASSUME page \in Screen, NEW reply \in Replies
  PROVE  /\ FirstReply(reply) \in Screen /\ FirstReply(reply).key = page.key
         /\ FirstReply(reply).call = NoPay /\ ~FirstReply(reply).replay
         /\ \/ reply = "VERIFY" /\ FirstReply(reply).step = "verify_risk"
            \/ reply = "BLOCKED" /\ FirstReply(reply).step = "blocked"
            \/ reply = "UNCERTAIN" /\ FirstReply(reply).step = "investigate"
            \/ /\ reply \in {"COMPLETED", "IN_FLIGHT"}
               /\ FirstReply(reply).step = "result" /\ FirstReply(reply).result = reply
            \/ /\ reply \notin {"VERIFY", "BLOCKED", "UNCERTAIN", "COMPLETED", "IN_FLIGHT"}
               /\ FirstReply(reply).step = page.step
<1>s. page.step \in Early \cup {"blocked", "investigate", "result"}
  BY DEF Screen
<1>1. CASE reply = "VERIFY"
  <2>1. FirstReply(reply) = At("verify_risk")
    BY <1>1 DEF FirstReply
  <2> QED BY <1>1, <2>1, AtIs DEF Early
<1>2. CASE reply = "BLOCKED"
  <2>1. FirstReply(reply) = At("blocked")
    BY <1>2 DEF FirstReply
  <2> QED BY <1>2, <2>1, AtIs
<1>3. CASE reply = "UNCERTAIN"
  <2>1. FirstReply(reply) = At("investigate")
    BY <1>3 DEF FirstReply
  <2> QED BY <1>3, <2>1, AtIs
<1>4. CASE reply \in {"COMPLETED", "IN_FLIGHT"}
  <2>1. FirstReply(reply) = Result(reply)
    BY <1>4 DEF FirstReply
  <2> QED BY <1>4, <2>1, ResultIs
<1>5. CASE reply \notin {"VERIFY", "BLOCKED", "UNCERTAIN", "COMPLETED", "IN_FLIGHT"}
  <2>1. FirstReply(reply) = At(page.step)
    BY <1>5 DEF FirstReply
  <2> QED BY <1>s, <1>5, <2>1, AtIs
<1> QED BY <1>1, <1>2, <1>3, <1>4, <1>5

(* What the page shows for a reply to what it sent again.                   *)
LEMMA ReplayReplyIs ==
  ASSUME page \in Screen, NEW reply \in Replies
  PROVE  /\ ReplayReply(reply) \in Screen /\ ReplayReply(reply).key = page.key
         /\ ReplayReply(reply).call = NoPay /\ ~ReplayReply(reply).replay
         /\ \/ ReplayReply(reply).step = "investigate"
            \/ /\ reply \in {"COMPLETED", "IN_FLIGHT", "VERIFY"}
               /\ ReplayReply(reply).step = "result" /\ ReplayReply(reply).result = reply
<1>1. CASE reply \in {"COMPLETED", "IN_FLIGHT", "VERIFY"}
  BY <1>1, ResultIs DEF ReplayReply
<1>2. CASE reply \notin {"COMPLETED", "IN_FLIGHT", "VERIFY"}
  <2>1. ReplayReply(reply) = At("investigate")
    BY <1>2 DEF ReplayReply
  <2> QED BY <2>1, AtIs
<1> QED BY <1>1, <1>2

(* The reply of the page's call, whatever it is, or its loss.  The page is  *)
(* right about it: a reply that is none of Told has left the money alone.   *)
LEMMA HearPageKeeps ==
  ASSUME GatewayInv, NEW c \in Calls, NEW reply \in Replies, Hear(c, reply),
         reply = "LOST" \/ (reply = req[c].reply /\ reply # "none"),
         user' \in [is : {"page", "client"}, keys : SUBSET Keys, faults : Nat],
         user'.is = user.is
  PROVE  GatewayInv'
<1> USE DEF GatewayInv
<1>1. /\ UNCHANGED <<verdict, record, abandoned, reclaimed, payVars>> /\ page.call = c
      /\ shown' = IF page.replay THEN shown ELSE Shown(c, reply)
  BY DEF Hear
<1>c. c # NoPay /\ page.key # NoPay /\ NoPay \notin Keys
  BY <1>1, NoCallAssumption, PayKeysAssumption DEF Calls, Keys, PageInv, PageShape
<1>2. /\ user.is = "page" /\ page \in Screen /\ page.step \in {"confirm", "verify_risk"}
      /\ page.key \in Keys /\ req[c].key = page.key
  BY <1>1, <1>c DEF PageInv, PageShape, FreshPage, Types
<1>3. shown \subseteq shown' /\ shown' \subseteq Keys
      /\ (~page.replay /\ reply = "VERIFY" => page.key \in shown')
      /\ (reply # "VERIFY" => shown' = shown)
  BY <1>1, <1>2 DEF Shown, Types
<1>m. (\A q : \A what : Tells(what, q) <=> Tells(what, q)')
      /\ (\A q : Untouched(q) <=> Untouched(q)') /\ paid' = paid
  BY <1>1, MoneyStill DEF payVars
<1>h. /\ Heard(c) \in [Calls -> Request] /\ \A d \in Calls : d # c => Heard(c)[d] = req[d]
      /\ Heard(c)[c].pc = req[c].pc /\ ~Heard(c)[c].waits /\ Heard(c)[c].reply = "none"
      /\ Heard(c)[c].key \in {page.key, NoPay}
  BY <1>2, HeardIs, OverIs
<1>l. page.key \notin abandoned /\ NoPay \notin abandoned
  BY <1>c DEF PageInv, PageShape, Types
<1>n. req' = Heard(c) => LeftInv'
  <2>1. \A e \in Calls : Heard(c)[e].key \in abandoned => Heard(c)[e] = req[e]
    BY <1>h, <1>l
  <2> QED BY <1>1, <1>m, <2>1 DEF PageInv, LeftInv, Active
<1>4. CASE /\ ~page.replay /\ reply \in {"LOST", "IN_PROGRESS"}
           /\ \E d \in Calls \ {c} :
                /\ Free(d)
                /\ req' = [Heard(c) EXCEPT ![d] = Sent(d, page.key, FALSE)[d]]
                /\ page' = [page EXCEPT !.call = d, !.replay = TRUE]
  <2>1. PICK d \in Calls \ {c} :
          /\ Free(d)
          /\ req' = [Heard(c) EXCEPT ![d] = Sent(d, page.key, FALSE)[d]]
          /\ page' = [page EXCEPT !.call = d, !.replay = TRUE]
    BY <1>4
  <2> DEFINE s == Sent(d, page.key, FALSE)[d]
  <2>2. /\ s \in Request /\ s.pc = "gate" /\ s.key = page.key /\ ~s.ack /\ s.waits
        /\ s.reply = "none"
    <3>0. Types /\ d \in Calls /\ page.key \in Keys
      BY <1>2, <2>1
    <3> DEFINE t == Sent(d, page.key, FALSE)
    <3>1. /\ t \in [Calls -> Request] /\ t[d].pc = "gate" /\ t[d].key = page.key
          /\ ~t[d].ack /\ t[d].waits /\ t[d].reply = "none"
      <4> HIDE DEF GatewayInv, s
      <4> QED BY ONLY <3>0, SentPlainIs
    <3>2. s = t[d]
      OBVIOUS
    <3> HIDE DEF t, s
    <3> QED BY <3>1, <3>2
  <2>3. req' = [Heard(c) EXCEPT ![d] = s]
    BY <2>1
  <2> HIDE DEF s
  <2>4. /\ req' \in [Calls -> Request] /\ req'[c] = Heard(c)[c] /\ req'[d] = s
        /\ \A e \in Calls : e \notin {c, d} => req'[e] = req[e]
    BY <1>h, <2>1, <2>2, <2>3
  <2>5. /\ page' \in Screen /\ page'.step = page.step /\ page'.key = page.key
        /\ page'.call = d /\ page'.replay
    BY <1>2, <2>1 DEF Screen
  <2>6. req[d].pc = "over" /\ d # c
    BY <2>1 DEF Free
  <2>7. page'.step = "verify_risk" => page'.key \in shown'
    BY <1>3, <2>5 DEF GateInv
  <2>8. page'.step # "result"
    BY <1>2, <2>5
  <2>9. Types' /\ RequestsInv' /\ PaysInv' /\ LinkInv' /\ RecordInv' /\ TruthInv' /\ GateInv'
    BY <1>1, <1>2, <1>3, <2>2, <2>4, <2>5, <2>6, <2>7, <2>8, HearKeeps
  <2>10. PageInv'
    <3>1. PageShape'
      <4>1. page.key \notin abandoned' /\ user'.is # "client" /\ page'.call # NoPay
        BY <1>1, <1>2, <1>c, <1>l, <2>1, <2>5, NoCallAssumption DEF Calls
      <4> QED BY <1>2, <2>2, <2>4, <2>5, <4>1 DEF PageShape
    <3>2. Alone' /\ ReplyTells'
      BY <2>5 DEF Alone, ReplyTells
    <3>3. HoldTells'
      BY <1>2, <2>5 DEF HoldTells
    <3>4. LeftInv'
      <4>1. \A e \in Calls : req'[e].key \in abandoned => req'[e] = req[e]
        BY <1>c, <1>h, <1>l, <2>2, <2>4
      <4> QED BY <1>1, <1>m, <4>1 DEF PageInv, LeftInv, Active
    <3> QED BY <3>1, <3>2, <3>3, <3>4 DEF PageInv
  <2> QED BY <2>9, <2>10
<1>5. CASE /\ ~page.replay /\ reply \notin {"LOST", "IN_PROGRESS"}
           /\ req' = Heard(c) /\ page' = FirstReply(reply)
  <2>1. reply = req[c].reply /\ reply # "none" /\ ~Active(c)
    BY <1>5 DEF RequestsInv
  <2>2. /\ page' \in Screen /\ page'.key = page.key /\ page'.call = NoPay /\ ~page'.replay
        /\ \/ reply = "VERIFY" /\ page'.step = "verify_risk"
           \/ reply = "BLOCKED" /\ page'.step = "blocked"
           \/ reply = "UNCERTAIN" /\ page'.step = "investigate"
           \/ /\ reply \in {"COMPLETED", "IN_FLIGHT"}
              /\ page'.step = "result" /\ page'.result = reply
           \/ /\ reply \notin {"VERIFY", "BLOCKED", "UNCERTAIN", "COMPLETED", "IN_FLIGHT"}
              /\ page'.step = page.step
    BY <1>2, <1>5, FirstReplyIs
  <2>3. page'.step = "verify_risk" => page'.key \in shown'
    BY <1>3, <1>5, <2>2 DEF GateInv
  <2>4. page'.step = "result" => Tells(page'.result, page'.key)
    BY <1>2, <2>1, <2>2 DEF TruthInv
  <2>5. Types' /\ RequestsInv' /\ PaysInv' /\ LinkInv' /\ RecordInv' /\ TruthInv' /\ GateInv'
    BY <1>1, <1>3, <1>5, <1>h, <2>2, <2>3, <2>4, HearKeeps
  <2>6. PageInv'
    <3>1. PageShape'
      BY <1>1, <1>2, <1>c, <2>2 DEF PageInv, PageShape
    <3>2. Alone'
      BY <1>1, <1>2, <1>5, <1>c, <1>h, <2>1, <2>2 DEF PageInv, Alone, Active, Early
    <3>3. ReplyTells'
      <4>1. page'.step \in Early => Untouched(page.key)
        BY <1>1, <1>2, <1>5, <1>c, <2>1, <2>2 DEF PageInv, ReplyTells, Active, Early, Told
      <4> QED BY <1>m, <2>2, <4>1 DEF ReplyTells
    <3>4. HoldTells'
      BY <1>1, <1>2, <1>5, <1>c, <1>m, <2>1, <2>2 DEF PageInv, HoldTells
    <3>5. LeftInv'
      BY <1>5, <1>n
    <3> QED BY <3>1, <3>2, <3>3, <3>4, <3>5 DEF PageInv
  <2> QED BY <2>5, <2>6
<1>6. CASE page.replay /\ req' = Heard(c) /\ page' = ReplayReply(reply)
  <2>2. /\ page' \in Screen /\ page'.key = page.key /\ page'.call = NoPay /\ ~page'.replay
        /\ \/ page'.step = "investigate"
           \/ /\ reply \in {"COMPLETED", "IN_FLIGHT", "VERIFY"}
              /\ page'.step = "result" /\ page'.result = reply
    BY <1>2, <1>6, ReplayReplyIs
  <2>3. page'.step = "verify_risk" => page'.key \in shown'
    BY <2>2
  <2>4. page'.step = "result" => Tells(page'.result, page'.key)
    BY <1>2, <2>2 DEF TruthInv
  <2>5. Types' /\ RequestsInv' /\ PaysInv' /\ LinkInv' /\ RecordInv' /\ TruthInv' /\ GateInv'
    BY <1>1, <1>3, <1>6, <1>h, <2>2, <2>3, <2>4, HearKeeps
  <2>6. PageInv'
    <3>1. PageShape'
      BY <1>1, <1>2, <1>c, <2>2 DEF PageInv, PageShape
    <3>2. Alone' /\ ReplyTells' /\ HoldTells'
      BY <2>2 DEF Alone, ReplyTells, HoldTells, Early
    <3>5. LeftInv'
      BY <1>6, <1>n
    <3> QED BY <3>1, <3>2, <3>5 DEF PageInv
  <2> QED BY <2>5, <2>6
<1> QED BY <1>4, <1>5, <1>6 DEF Hear

(* The reply arrives.                                                       *)
LEMMA PageReceivesKeeps ==
  ASSUME GatewayInv, NEW c \in Calls, PageReceives(c)
  PROVE  GatewayInv'
<1>1. /\ req[c].reply \in Replies
      /\ user \in [is : {"page", "client"}, keys : SUBSET Keys, faults : Nat]
  BY DEF GatewayInv, Types, Request
<1>2. Hear(c, req[c].reply) /\ req[c].reply # "none" /\ user' = user
  BY DEF PageReceives
<1> QED BY <1>1, <1>2, HearPageKeeps

(* The connection breaks instead.                                           *)
LEMMA LoseResponseKeeps ==
  ASSUME GatewayInv, NEW c \in Calls, LoseResponse(c)
  PROVE  GatewayInv'
<1>1. /\ user' \in [is : {"page", "client"}, keys : SUBSET Keys, faults : Nat]
      /\ user'.is = user.is
  BY DEF LoseResponse, Fault, GatewayInv, Types
<1>2. "LOST" \in Replies
  BY DEF Replies
<1> QED BY <1>1, <1>2, HearPageKeeps DEF LoseResponse

-----------------------------------------------------------------------------
(* The invariant holds to begin with, and every step keeps it.              *)
LEMMA GatewayInvInit == GatewayInit => GatewayInv
<1> SUFFICES ASSUME GatewayInit PROVE GatewayInv
  OBVIOUS
<1>1. /\ pay = [c \in Calls |-> FreshPay] /\ paid = [k \in Keys |-> "none"]
      /\ verdict = [k \in Keys |-> "none"] /\ record = [k \in Keys |-> NoRecord]
      /\ req = [c \in Calls |-> Over] /\ page = FreshPage /\ user \in Users
      /\ shown = {} /\ abandoned = {} /\ reclaimed = {}
  BY DEF GatewayInit, PayInit, Calls, Keys
<1>2. /\ \A c \in Calls : req[c] = Over /\ ~Calling(c) /\ pay[c].pc = "idle"
      /\ \A k \in Keys : paid[k] = "none" /\ verdict[k] = "none" /\ record[k].status = "none"
  BY <1>1 DEF Calling, FreshPay, NoRecord
<1>3. Types
  <2>1. FreshPay \in PayCall /\ NoRecord \in Row /\ FreshPage \in Screen /\ "none" \in Verdicts
    BY DEF FreshPay, PayCall, PayAnswer, NoRecord, Row, Stored, FreshPage, Screen, Early,
       Replies, Verdicts
  <2>2. PayTypeOK
    BY <1>1, <2>1 DEF PayTypeOK, PayStatus, Calls, Keys
  <2>3. user \in [is : {"page", "client"}, keys : SUBSET Keys, faults : Nat]
    BY <1>1, SenderAssumption DEF Keys
  <2> QED BY <1>1, <2>1, <2>2, <2>3, OverIs DEF Types
<1>4. RequestsInv /\ PaysInv /\ LinkInv
  BY <1>2, OverIs DEF RequestsInv, Active, PaysInv, LinkInv
<1>5. TruthInv /\ GateInv /\ RecordInv
  BY <1>1, <1>2, OverIs DEF TruthInv, FreshPage, GateInv, Passed, Active, MovesArePermitted,
     VerifiedWasShown, RecordInv, Inside
<1>6. PageInv
  BY <1>1, <1>2, OverIs DEF PageInv, PageShape, FreshPage, Alone, ReplyTells, HoldTells, LeftInv,
     Early
<1> QED BY <1>3, <1>4, <1>5, <1>6 DEF GatewayInv

(* Nothing happens.                                                         *)
LEMMA GatewayInvStays ==
  ASSUME GatewayInv, UNCHANGED gateVars
  PROVE  GatewayInv'
<1>1. UNCHANGED <<verdict, record, req, page, user, shown, abandoned, reclaimed, paid, pay>>
  BY DEF gateVars, history, payVars
<1>2. Types' /\ RequestsInv' /\ PaysInv' /\ LinkInv'
  BY <1>1 DEF GatewayInv, Types, PayTypeOK, RequestsInv, Active, PaysInv, Owns, Tells, Dead,
     LinkInv, Calling
<1>3. TruthInv' /\ GateInv' /\ RecordInv'
  BY <1>1 DEF GatewayInv, TruthInv, Tells, Dead, Owns, GateInv, Active, MovesArePermitted,
     VerifiedWasShown, RecordInv, Inside
<1>4. PageInv'
  BY <1>1 DEF GatewayInv, PageInv, PageShape, Alone, ReplyTells, HoldTells, LeftInv, Untouched,
     Dead, Owns, Active
<1> QED BY <1>2, <1>3, <1>4 DEF GatewayInv

(* The invariant, for every step.                                           *)
LEMMA GatewayInvInductive ==
  ASSUME GatewayInv, GatewayNext
  PROVE  GatewayInv'
<1>1. ASSUME NEW c \in Calls, Serve(c) PROVE GatewayInv'
  BY <1>1, GateKeeps, RecordKeeps, ExecuteKeeps, PayingKeeps, AnswerKeeps, PersistKeeps
     DEF Serve, GateStep, RecordStep
<1>2. ASSUME NEW c \in Calls, Fail(c) \/ LoseResponse(c) PROVE GatewayInv'
  BY <1>2, FailKeeps, LoseResponseKeeps
<1>3. ASSUME NEW c \in Calls, ClientReceives(c) \/ \E k \in Keys : ClientSends(c, k)
      PROVE  GatewayInv'
  BY <1>3, ClientReceivesKeeps, ClientSendsKeeps
<1>4. ASSUME NEW c \in Calls, Submit(c) \/ PageReceives(c) \/ SimulateDuplicate(c)
      PROVE  GatewayInv'
  BY <1>4, SubmitKeeps, PageReceivesKeeps, SimulateDuplicateKeeps
<1>5. ASSUME NEW k \in Keys, Release(k) \/ GrowStale(k) PROVE GatewayInv'
  BY <1>5, ReleaseKeeps, GrowStaleKeeps
<1>6. CASE GoConfirm \/ GoBack
  BY <1>6, GoConfirmKeeps, GoBackKeeps
<1> QED BY <1>1, <1>2, <1>3, <1>4, <1>5, <1>6 DEF GatewayNext

(* So the invariant always holds.                                           *)
LEMMA GatewaySafety == GatewaySpec => []GatewayInv
<1>1. GatewayInv /\ [GatewayNext]_gateVars => GatewayInv'
  BY GatewayInvInductive, GatewayInvStays
<1> QED BY <1>1, GatewayInvInit, PTL DEF GatewaySpec

-----------------------------------------------------------------------------
(* The types hold, no money moves under a key without a decision of the     *)
(* risk gate that permits it, and no transfer is verified for a sender who  *)
(* was not given the token (fraudMiddleware).                               *)
THEOREM GateHolds == GatewaySpec => []GateIsSound
<1>1. GatewayInv => GateIsSound
  <2> SUFFICES ASSUME GatewayInv PROVE GateIsSound
    OBVIOUS
  <2>1. GatewayTypeOK
    BY DEF GatewayInv, Types, Row, Stored, Request, Screen, Early, PageInv, PageShape, GatewayTypeOK
  <2> QED BY <2>1 DEF GatewayInv, GateInv, GateIsSound
<1> QED BY <1>1, GatewaySafety, PTL

(* A replayed response is what happened to the transfer of its key          *)
(* (idempotencyMiddleware), in whatever order the answers are stored.       *)
THEOREM ReplaysAreTrue == GatewaySpec => []ReplaysTellTheTruth
<1>1. GatewayInv => ReplaysTellTheTruth
  <2> SUFFICES ASSUME GatewayInv, NEW k \in Keys, record[k].status = "COMPLETED"
               PROVE  CASE record[k].response = "COMPLETED" -> paid[k] = "moved"
                        [] record[k].response = "FAILED" -> paid[k] # "moved"
                        [] OTHER -> paid[k] # "none"
    BY DEF ReplaysTellTheTruth
  <2>1. Tells(record[k].response, k)
        /\ record[k].response \in {"COMPLETED", "FAILED", "IN_FLIGHT"}
    BY DEF GatewayInv, TruthInv, Types, Row, Stored
  <2>2. CASE record[k].response = "COMPLETED"
    BY <2>1, <2>2 DEF Tells
  <2>3. CASE record[k].response = "FAILED"
    BY <2>1, <2>3 DEF Tells, Dead
  <2>4. CASE record[k].response = "IN_FLIGHT"
    BY <2>1, <2>4 DEF Tells
  <2> QED BY <2>1, <2>2, <2>3, <2>4
<1> QED BY <1>1, GatewaySafety, PTL

(* When SendMoneyPage takes a new key, the transfer of the old one has not  *)
(* moved and never will; "on hold" and the badge COMPLETED are true for as  *)
(* long as they are shown.                                                  *)
THEOREM PageIsTrue == GatewaySpec => []PageTellsTheTruth
<1>1. GatewayInv => PageTellsTheTruth
  <2> SUFFICES ASSUME GatewayInv PROVE PageTellsTheTruth
    OBVIOUS
  <2>1. NewKeyIsSafe
    BY DEF GatewayInv, PageInv, LeftInv, Untouched, Dead, NewKeyIsSafe
  <2>2. ScreensTellTheTruth
    BY DEF GatewayInv, PageInv, HoldTells, TruthInv, Tells, ScreensTellTheTruth, SaysOnHold,
       SaysCompleted, Badge
  <2> QED BY <2>1, <2>2 DEF PageTellsTheTruth
<1> QED BY <1>1, GatewaySafety, PTL

(* A stored response stays as it is, as long as nobody takes its record     *)
(* over for stale.                                                          *)
THEOREM StoredStaysStored == GatewaySpec => StoredResponseIsKept
<1> DEFINE Kept ==
      \A k \in Keys \ reclaimed' : record[k].status = "COMPLETED" => record'[k] = record[k]
<1>1. ASSUME GatewayInv, [GatewayNext]_gateVars PROVE Kept
  <2>1. CASE record' = record
    BY <2>1
  <2>2. ASSUME NEW c \in Calls, RecordStep(c) PROVE Kept
    BY <1>1, <2>2, RecordStepIs DEF GatewayInv
  <2>3. ASSUME NEW c \in Calls, Persist(c) PROVE Kept
    <3>1. req[c].pc = "persist" /\ req[c].key \in Keys /\ reclaimed' = reclaimed
      BY <1>1, <2>3 DEF Persist, history, GatewayInv, RequestsInv
    <3>2. \A k \in Keys : k # req[c].key => record'[k] = record[k]
      <4>1. record \in [Keys -> Row]
        BY <1>1 DEF GatewayInv, Types
      <4> QED BY <2>3, <3>1, <4>1 DEF Persist
    <3>3. req[c].key \notin reclaimed => record[req[c].key].status = "PROCESSING"
      BY <1>1, <3>1 DEF GatewayInv, RecordInv, Inside
    <3> QED BY <3>1, <3>2, <3>3
  <2>4. ASSUME NEW k \in Keys, GrowStale(k) PROVE Kept
    <3>1. record \in [Keys -> Row]
      BY <1>1 DEF GatewayInv, Types
    <3> QED BY <2>4, <3>1 DEF GrowStale
  <2>5. CASE UNCHANGED gateVars
    BY <2>1, <2>5 DEF gateVars
  <2>6. ASSUME NEW c \in Calls, Serve(c) PROVE Kept
    BY <2>1, <2>2, <2>3, <2>6 DEF Serve, RecordStep, ReadAssessment, Assess, MarkVerified,
       Execute, Paying, Answer
  <2>7. ASSUME NEW c \in Calls,
               Fail(c) \/ ClientReceives(c) \/ (\E k \in Keys : ClientSends(c, k)) \/ Submit(c)
                 \/ PageReceives(c) \/ LoseResponse(c) \/ SimulateDuplicate(c)
        PROVE  Kept
    BY <2>1, <2>7 DEF Fail, ClientReceives, ClientSends, Submit, PageReceives, LoseResponse,
       Hear, SimulateDuplicate, PageStays
  <2>8. CASE (\E k \in Keys : Release(k)) \/ GoConfirm \/ GoBack
    BY <2>1, <2>8 DEF Release, GoConfirm, GoBack, PageStays
  <2> QED BY <1>1, <2>4, <2>5, <2>6, <2>7, <2>8 DEF GatewayNext
<1>2. GatewayInv /\ [GatewayNext]_gateVars => Kept
  BY <1>1
<1> HIDE DEF Kept
<1>3. [](GatewayInv) /\ [][GatewayNext]_gateVars => [][Kept]_gateVars
  BY <1>2, PTL
<1> QED BY <1>3, GatewaySafety DEF GatewaySpec, StoredResponseIsKept, Kept
===============================================================================
