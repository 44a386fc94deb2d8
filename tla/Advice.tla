--------------------------------- MODULE Advice -------------------------------
(***************************************************************************)
(* The AI routes: InvestigationService.investigate for one transfer and    *)
(* SummaryService.financialSummary for one user, behind the user's rate    *)
(* limit, with the cache of insights between them and the model.           *)
(*                                                                         *)
(* Texts are left out: an insight is what it was written about (`about`),  *)
(* who wrote it and the money status it tells.  verify is seen from here   *)
(* as two reads, the outcome and, later, the timeline.                     *)
(*                                                                         *)
(* The definitions commented "slip" are plausible mistakes in the code.    *)
(***************************************************************************)
EXTENDS Activity, AiClient, RateLimiter, SequencesExt

CONSTANTS
  FallbackTtl,  \* how long the insight of a fallback is kept
  AiTtl         \* how long that of a model is

ASSUME AdviceAssumption == FallbackTtl \in Nat /\ AiTtl \in Nat

VARIABLES
  clock,
  truth,     \* what the ledger says of the transfer that is investigated
  timeline,  \* its events, so far as they matter: the moves and the verdicts
  cache,     \* ai_insights: a row for each kind and hash
  query      \* one request of an AI route for each asker

aiVars == <<bucket, admitted, truth, timeline, cache, query, ask>>
adviceVars == <<activityVars, aiVars, clock>>

Kinds == {"investigate", "summary"}
Figures == {"sent", "received", "previous", "sentCount", "receivedCount", "sentRows"}
NoInsight == [about |-> <<>>, source |-> "none", status |-> "none"]
NoQuery == [pc |-> "idle", kind |-> "investigate", facts |-> <<>>, todo |-> {}, before |-> {},
            to |-> 0, insight |-> NoInsight, age |-> -1]

AdviceTypeOK ==
  /\ ActivityTypeOK /\ LimiterTypeOK /\ AiTypeOK
  /\ truth \in {"NOT_SENT", "DELIVERED", "INDETERMINATE"}
  /\ timeline \in Seq({"MOVED", "VERIFIED"})
  /\ \A key \in DOMAIN cache :
       /\ key[1] \in Kinds
       /\ cache[key].insight.source \in {"ai", "fallback"}
       /\ cache[key].made <= clock /\ cache[key].made <= cache[key].expires
  /\ \A a \in Askers :
       /\ query[a].pc \in {"idle", "verify", "reload", "read", "lookup", "ask", "write", "over"}
       /\ query[a].pc = "ask" <=> ask[a].pc # "idle"

AdviceInit ==
  /\ ActivityInit /\ AiInit /\ LimiterInit
  /\ clock = 0
  /\ truth = "NOT_SENT" /\ timeline = <<>>
  /\ cache = <<>>
  /\ query = [a \in Askers |-> NoQuery]

Answering == UNCHANGED <<activityVars, clock>>
Goes(a, pc) == query' = [query EXCEPT ![a].pc = pc]

-------------------------------------------------------------------------------
(* Behind the limiter of the user, which both routes share.                 *)
Post(a, kind) ==
  /\ server = "listening"
  /\ query[a].pc = "idle" /\ kind \in scene.asks /\ Bounded("posts")
  /\ \/ /\ Admit(clock)
        /\ query' = [query EXCEPT ![a] = [NoQuery EXCEPT
             !.kind = kind,
             !.pc = IF kind = "summary" THEN "read" ELSE "verify",
             !.todo = Figures,
             !.to = Len(items),
             !.before = {i \in DOMAIN items : items[i].status = "COMPLETED"},
             !.facts = [f \in Figures |-> {}]]]
     \/ Refuse(clock) /\ UNCHANGED query
  /\ UNCHANGED <<worldVars, server, check, reader, bell, clock, truth, timeline, cache, ask>>

(* The answer is on the screen; the asker may ask again.                    *)
Finish(a) ==
  /\ query[a].pc = "over"
  /\ query' = [query EXCEPT ![a] = NoQuery]
  /\ Answering /\ UNCHANGED <<bucket, admitted, truth, timeline, cache, ask>>

-------------------------------------------------------------------------------
(* The transfer meanwhile: an attempt in flight moves the money, and one    *)
(* more may (NeverPaidTwice of TransferEngine does not hold).               *)
Settle ==
  /\ "investigate" \in scene.asks /\ truth # "INDETERMINATE" /\ Bounded("moves")
  /\ truth' = IF truth = "NOT_SENT" THEN "DELIVERED" ELSE "INDETERMINATE"
  /\ timeline' = Append(timeline, "MOVED")
  /\ UNCHANGED <<worldVars, server, check, reader, bell, clock, bucket, admitted, cache, query, ask>>

(* verify, which throws for who is no party of the transfer.                *)
VerifyThrows(a) ==
  /\ query[a].pc = "verify" /\ ~scene.party
  /\ Goes(a, "over")
  /\ Answering /\ UNCHANGED <<bucket, admitted, truth, timeline, cache, ask>>

Resolved(outcome) ==
  outcome # "INDETERMINATE" /\ timeline # <<>> /\ Last(timeline) = "VERIFIED"

Verify(a) ==
  /\ query[a].pc = "verify" /\ scene.party
  /\ query' = [query EXCEPT ![a].pc = "reload", ![a].facts = [outcome |-> truth, timeline |-> <<>>]]
  /\ timeline' = IF Resolved(truth) \/ Len(timeline) >= scene.events THEN timeline
                 ELSE Append(timeline, "VERIFIED")
  /\ Answering /\ UNCHANGED <<bucket, admitted, truth, cache, ask>>

Reload(a) ==
  /\ query[a].pc = "reload"
  /\ query' = [query EXCEPT ![a].pc = "lookup", ![a].facts.timeline = timeline]
  /\ Answering /\ UNCHANGED <<bucket, admitted, truth, timeline, cache, ask>>

-------------------------------------------------------------------------------
(* The six queries of financialSummary.  Sums, counts and categories are    *)
(* functions of the rows a query finds.  range.to is the time of the        *)
(* request: what is created later is not found.                             *)
Concerned(figure, to) ==
  {i \in 1..to :
     /\ items[i].kind = "TRANSFER"
     /\ Me = IF figure \in {"received", "receivedCount"} THEN items[i].to ELSE items[i].from
     /\ items[i].current = (figure # "previous")}

CountsPending(status) == status # "FAILED"  \* slip: what is under way counts too
Counts(status) == status = "COMPLETED"

ReadFigure(a, figure) ==
  LET q == query[a] IN
  /\ q.pc = "read" /\ figure \in q.todo
  /\ query' = [query EXCEPT
       ![a].facts[figure] = {i \in Concerned(figure, q.to) : Counts(items[i].status)},
       ![a].todo = @ \ {figure},
       ![a].pc = IF q.todo = {figure} THEN "lookup" ELSE @]
  /\ Answering /\ UNCHANGED <<bucket, admitted, truth, timeline, cache, ask>>

-------------------------------------------------------------------------------
(* readInsight, the model, writeInsight *)

Worth(ids) == SumFunction([i \in ids |-> items[i].amount])

(* Math.round of the percentage; without a previous period 100 or 0.        *)
ChangePct(sent, previous) ==
  IF previous > 0 THEN (200 * (sent - previous) + previous) \div (2 * previous)
  ELSE IF sent > 0 THEN 100 ELSE 0

(* What the model is told, and what is hashed: the outcome and the timeline *)
(* of a transfer; of a summary the figures, not the rows they come from,    *)
(* except that each row may be in a category of its own.                    *)
AiInput(q) ==
  IF q.kind = "investigate" THEN q.facts
  ELSE LET sent == Worth(q.facts.sent)
           previous == Worth(q.facts.previous)
           received == Worth(q.facts.received) IN
       [sent |-> sent, received |-> received, net |-> received - sent,
        categories |-> q.facts.sentRows,
        comparison |-> IF sent + previous > 0 THEN <<previous, ChangePct(sent, previous)>> ELSE <<>>,
        counts |-> <<Cardinality(q.facts.sentCount), Cardinality(q.facts.receivedCount)>>]

BySubject(a) == <<query[a].kind>>  \* slip: one row per subject
HashInput(a) == <<query[a].kind, AiInput(query[a]), query[a].to>>

Fresh(key) == key \in DOMAIN cache /\ cache[key].expires > clock

(* What is cached is the answer, as it was written.                         *)
Hit(a, key) ==
  /\ Fresh(key)
  /\ query' = [query EXCEPT ![a].pc = "over", ![a].insight = cache[key].insight,
                            ![a].age = clock - cache[key].made]
  /\ UNCHANGED ask

(* A read of the cache that fails counts as a miss.                         *)
Lookup(a) ==
  /\ query[a].pc = "lookup"
  /\ \/ Hit(a, HashInput(a))
     \/ Goes(a, "ask") /\ BeginAsk(a)
  /\ Answering /\ UNCHANGED <<bucket, admitted, truth, timeline, cache>>

TryModel(a) ==
  /\ Attempt(a)
  /\ Answering /\ UNCHANGED <<bucket, admitted, truth, timeline, cache, query>>

MoneyStatusFor(outcome) ==
  CASE outcome = "DELIVERED" -> "DELIVERED" [] outcome = "NOT_SENT" -> "SAFE"
    [] OTHER -> "NEEDS_VERIFICATION"

Forced(q, answer) == MoneyStatusFor(q.facts.outcome)

InsightFor(q, answer) ==
  [about |-> AiInput(q), source |-> answer.source,
   status |-> IF q.kind = "investigate" THEN Forced(q, answer) ELSE "none"]

EndModel(a) ==
  /\ query[a].pc = "ask" /\ ask[a].pc = "answered"
  /\ query' = [query EXCEPT ![a].pc = "write", ![a].insight = InsightFor(query[a], ask[a].answer)]
  /\ EndAsk(a)
  /\ Answering /\ UNCHANGED <<bucket, admitted, truth, timeline, cache>>

Ttl(source) == IF source = "fallback" THEN FallbackTtl ELSE AiTtl
RowFor(insight) == [insight |-> insight, made |-> clock, expires |-> clock + Ttl(insight.source)]

Upserted(key, row) == row

(* A write that fails is logged and forgotten.                              *)
WriteInsight(a) ==
  LET key == HashInput(a) IN
  /\ query[a].pc = "write"
  /\ \/ cache' = With(cache, key, Upserted(key, RowFor(query[a].insight)))
     \/ UNCHANGED cache
  /\ Goes(a, "over")
  /\ Answering /\ UNCHANGED <<bucket, admitted, truth, timeline, ask>>

-------------------------------------------------------------------------------
Tick ==
  /\ clock < scene.time /\ clock' = clock + 1
  /\ UNCHANGED <<activityVars, aiVars>>

Serve(a) ==
  \/ VerifyThrows(a) \/ Verify(a) \/ Reload(a) \/ (\E f \in Figures : ReadFigure(a, f))
  \/ Lookup(a) \/ TryModel(a) \/ EndModel(a) \/ WriteInsight(a)

AdviceNext ==
  \/ ActivityNext /\ UNCHANGED <<aiVars, clock>>
  \/ \E a \in Askers : (\E kind \in Kinds : Post(a, kind)) \/ Serve(a) \/ Finish(a)
  \/ Settle \/ Tick

AdviceSpec == AdviceInit /\ [][AdviceNext]_adviceVars

(* Queries are answered, and so are calls of the API, if by the timeout; an *)
(* open page polls.                                                         *)
AdviceFairSpec ==
  /\ AdviceSpec
  /\ \A a \in Askers : WF_adviceVars(Serve(a))
  /\ \A l \in Loads : WF_adviceVars(Load(l) /\ UNCHANGED <<aiVars, clock>>)

-------------------------------------------------------------------------------
(* Safety *)

(* The explanation beside an outcome was written for that outcome and       *)
(* timeline, and tells the money status that follows from it: cached or     *)
(* not, whatever the model says and the transfer does meanwhile.            *)
AdviceFitsFacts ==
  \A a \in Askers :
    LET q == query[a] IN
    q.pc = "over" /\ q.insight.source # "none" =>
      /\ q.insight.about = AiInput(q)
      /\ q.kind = "investigate" => q.insight.status = MoneyStatusFor(q.facts.outcome)

(* A fallback is repeated for FallbackTtl at most ("we retry the model      *)
(* soon"), also when it has overwritten the insight of a model.             *)
FallbackIsShortLived ==
  \A a \in Askers : query[a].insight.source = "fallback" => query[a].age < FallbackTtl

(* No figure of a summary counts a transfer whose money has not moved, and  *)
(* each counts all that was completed when it was asked for, although the   *)
(* six queries see six states - unless a late verdict of verify has denied  *)
(* one that had moved, which some of the queries may then miss.             *)
FiguresAreTrue ==
  \A a \in Askers :
    LET q == query[a] IN
    q.kind = "summary" /\ q.pc \in {"lookup", "ask", "write", "over"} =>
      \A f \in Figures :
        /\ \A i \in q.before \cap Concerned(f, q.to) : i \in q.facts[f] \/ items[i].denied
        /\ \A i \in q.facts[f] : items[i].done > 0

(* Liveness *)

(* A question to one of the AI routes is answered, whatever the API does.   *)
EveryQuestionAnswered ==
  \A a \in Askers : query[a].pc \notin {"idle", "over"} ~> query[a].pc = "over"

-------------------------------------------------------------------------------
(* The properties by what they are about; their parts are above and in      *)
(* Activity.                                                                *)

(* Reports put together from several queries say what was so.               *)
ReadsAreTrue == AlarmsHaveCause /\ PagingMissesNothing /\ FiguresAreTrue /\ NoticesAreTrue

(* Advice fits the facts, and a makeshift one is soon replaced.             *)
AdviceIsSound == AdviceTypeOK /\ AdviceFitsFacts /\ FallbackIsShortLived

(* Whoever asks is answered, and the bell shows what there is.              *)
AdviceIsLive == EveryQuestionAnswered /\ BellCatchesUp
===============================================================================
