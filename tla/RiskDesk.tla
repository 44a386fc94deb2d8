------------------------------- MODULE RiskDesk ------------------------------
(***************************************************************************)
(* SecurityService around the assessment of one idempotency key: what      *)
(* gatherSignals finds in the database, the thresholds administrators set, *)
(* the decision, its review, and the analysis a model writes beside it.    *)
(*                                                                         *)
(* Requests of the key race each other, administrators act on rows they    *)
(* have read a while ago, analyses finish at any time.                     *)
(*                                                                         *)
(* The definitions commented "slip" are plausible mistakes in the code.    *)
(***************************************************************************)
EXTENDS RiskScoring, AiClient

CONSTANTS
  Requests,  \* HTTP requests for the key
  Admins,    \* administrators, each with one review at a time
  Scenes     \* bound: the first signals, configuration and row, the values
             \* each signal may take, the patches of the configuration that are
             \* made, whether the key is assessed, who reviews, how many
             \* analyses are run

(* `opinion` is ai_analysis: its source and risk_level; `reviewer` is       *)
(* reviewed_by.                                                            *)
Bands == {"LOW", "MEDIUM", "HIGH"}
Decisions == {"none", "ALLOWED", "PENDING_VERIFICATION", "VERIFIED", "BLOCKED", "RELEASED"}
NoOpinion == [source |-> "none", level |-> "none"]
NoRow == [decision |-> "none", band |-> "none", reviewer |-> "none", opinion |-> NoOpinion]
Rows == [decision : Decisions, band : Bands \cup {"none"}, reviewer : Admins \cup {"none"},
         opinion : {NoOpinion} \cup [source : {"ai", "fallback"}, level : Bands]]

(* The decisions the band of a row can lead to.                             *)
Outcomes(band) ==
  CASE band = "LOW" -> {"ALLOWED"}
    [] band = "MEDIUM" -> {"PENDING_VERIFICATION", "VERIFIED"}
    [] band = "HIGH" -> {"BLOCKED", "RELEASED"}
    [] OTHER -> {"none"}

(* The schema of the model's answer has no other levels.                    *)
ASSUME ClaimsAssumption == Claims \subseteq Bands

ASSUME DeskAssumption ==
  \A s \in Scenes :
    /\ DOMAIN s = {"signals", "config", "row", "values", "patches", "assess", "reviews", "analyses"}
    /\ s.signals \in Signals /\ s.config \in Config /\ s.reviews \subseteq Admins
    /\ s.row \in Rows /\ s.row.decision \in Outcomes(s.row.band)
    /\ \A f \in DOMAIN s.values : f \in DOMAIN s.signals
         /\ \A v \in s.values[f] : [s.signals EXCEPT ![f] = v] \in Signals
    /\ \A p \in s.patches : p \in [DOMAIN p -> Int] /\ DOMAIN p \subseteq DOMAIN s.config

VARIABLES
  signals,   \* what gatherSignals would return
  config,    \* risk_config
  row,       \* the transfer_risk_assessments row of the key
  request,   \* the state of assess for each request
  review,    \* what each administrator is doing
  analysis,  \* the decision each analysis has read
  scene      \* one of Scenes, less the analyses started by now

deskVars == <<signals, config, row, request, review, analysis, scene, ask>>

DeskTypeOK ==
  /\ signals \in Signals /\ config \in Config
  /\ row \in Rows
  /\ AiTypeOK
  /\ \A q \in Requests : request[q].pc \in {"look", "gather", "insert", "over"}

DeskInit ==
  /\ scene \in Scenes
  /\ signals = scene.signals /\ config = scene.config
  /\ row = scene.row
  /\ request = [q \in Requests |-> [pc |-> "look", band |-> "none"]]
  /\ review = [a \in Admins |-> [pc |-> "idle", decision |-> "none"]]
  /\ analysis = [j \in Askers |-> "none"]
  /\ AiInit

-------------------------------------------------------------------------------
(* Transfers complete and fail, logins fail, time passes: what the queries  *)
(* of gatherSignals count changes.                                          *)
SignalChanges(f, v) ==
  /\ signals[f] # v
  /\ signals' = [signals EXCEPT ![f] = v]
  /\ UNCHANGED <<config, row, request, review, analysis, scene, ask>>

(* updateConfig: any fields; a patch with a negative value is refused.      *)
Valid(patch) == \A f \in DOMAIN patch : patch[f] >= 0

UpdateConfig(patch) ==
  /\ Valid(patch)
  /\ config' = [f \in DOMAIN config |-> IF f \in DOMAIN patch THEN patch[f] ELSE config[f]]
  /\ UNCHANGED <<signals, row, request, review, analysis, scene, ask>>

-------------------------------------------------------------------------------
(* assess *)

At(q, pc) == request' = [request EXCEPT ![q].pc = pc]

Look(q) ==
  /\ scene.assess
  /\ request[q].pc = "look"
  /\ At(q, IF row.decision = "none" THEN "gather" ELSE "over")
  /\ UNCHANGED <<signals, config, row, review, analysis, scene, ask>>

(* gatherSignals and scoreRisk.  The queries run at once; the signals they  *)
(* return are those of one moment here.                                     *)
Gather(q) ==
  /\ request[q].pc = "gather"
  /\ request' = [request EXCEPT ![q] = [pc |-> "insert", band |-> Band(signals, config)]]
  /\ UNCHANGED <<signals, config, row, review, analysis, scene, ask>>

Inserted(stored, new) == IF stored.decision = "none" THEN new ELSE stored

(* ON CONFLICT DO NOTHING; who inserts the row starts the analysis.         *)
Insert(q) ==
  LET new == [NoRow EXCEPT !.decision = Decision(request[q].band), !.band = request[q].band] IN
  /\ request[q].pc = "insert"
  /\ row' = Inserted(row, new)
  /\ At(q, "over")
  /\ scene' = IF row.decision = "none" THEN [scene EXCEPT !.analyses = @ + 1] ELSE scene
  /\ UNCHANGED <<signals, config, review, analysis, ask>>

(* markVerified by the sender: conditional on PENDING_VERIFICATION.         *)
MarkVerified ==
  /\ row.decision = "PENDING_VERIFICATION"
  /\ row' = [row EXCEPT !.decision = "VERIFIED"]
  /\ UNCHANGED <<signals, config, request, review, analysis, scene, ask>>

-------------------------------------------------------------------------------
(* release and reject: the row is read, then updated by its id alone.       *)
Open(a) ==
  /\ row.decision # "none" /\ review[a].pc = "idle"
  /\ review' = [review EXCEPT ![a] = [pc |-> "read", decision |-> row.decision]]
  /\ UNCHANGED <<signals, config, row, request, analysis, scene, ask>>

Releasable(decision) == decision = "BLOCKED"

Release(a) ==
  /\ review[a].pc = "read"
  /\ IF Releasable(review[a].decision)
     THEN row' = [row EXCEPT !.decision = "RELEASED", !.reviewer = a] ELSE UNCHANGED row
  /\ review' = [review EXCEPT ![a] = [pc |-> "over", decision |-> "none"]]
  /\ UNCHANGED <<signals, config, request, analysis, scene, ask>>

Rejected(a) == [row EXCEPT !.reviewer = a]

Reject(a) ==
  /\ review[a].pc = "read"
  /\ row' = Rejected(a)
  /\ review' = [review EXCEPT ![a] = [pc |-> "over", decision |-> "none"]]
  /\ UNCHANGED <<signals, config, request, analysis, scene, ask>>

-------------------------------------------------------------------------------
(* runAiAnalysis, by itself or at an administrator's request: reads the     *)
(* row, asks the model, stores the opinion and nothing else.                *)
StartAnalysis(j) ==
  /\ row.decision # "none" /\ scene.analyses > 0
  /\ ask[j].pc = "idle"
  /\ BeginAsk(j)
  /\ analysis' = [analysis EXCEPT ![j] = row.decision]
  /\ scene' = [scene EXCEPT !.analyses = @ - 1]
  /\ UNCHANGED <<signals, config, row, request, review>>

TryAnalysis(j) ==
  /\ Attempt(j)
  /\ UNCHANGED <<signals, config, row, request, review, analysis, scene>>

(* fraudFallback repeats the band of the row, which never changes.          *)
Opinion(answer) ==
  [source |-> answer.source, level |-> IF answer = Fallback THEN row.band ELSE answer.claim]

WholeRow(decision, answer) == [row EXCEPT !.opinion = Opinion(answer), !.decision = decision]  \* slip: all columns are written
Opinionated(decision, answer) == [row EXCEPT !.opinion = Opinion(answer)]

StoreAnalysis(j) ==
  /\ ask[j].pc = "answered"
  /\ row' = Opinionated(analysis[j], ask[j].answer)
  /\ analysis' = [analysis EXCEPT ![j] = "none"]
  /\ EndAsk(j)
  /\ UNCHANGED <<signals, config, request, review, scene>>

-------------------------------------------------------------------------------
DeskNext ==
  \/ \E f \in DOMAIN scene.values : \E v \in scene.values[f] : SignalChanges(f, v)
  \/ \E patch \in scene.patches : UpdateConfig(patch)
  \/ \E q \in Requests : Look(q) \/ Gather(q) \/ Insert(q)
  \/ MarkVerified
  \/ \E a \in scene.reviews : Open(a) \/ Release(a) \/ Reject(a)
  \/ \E j \in Askers : StartAnalysis(j) \/ TryAnalysis(j) \/ StoreAnalysis(j)

DeskSpec == DeskInit /\ [][DeskNext]_deskVars

-------------------------------------------------------------------------------
(* Safety *)

(* The stored decision is one its own band leads to, whoever raced whom:    *)
(* "the rules are authoritative", what was PENDING_VERIFICATION is not      *)
(* released, what was blocked is not verified, and no model decides.        *)
DecisionMatchesBand == row.decision \in Outcomes(row.band)

(* Action properties *)

(* A transfer that is permitted stays permitted: neither a review nor an    *)
(* analysis that began before takes the permission back.                    *)
PermissionStands ==
  [][row.decision \in {"ALLOWED", "VERIFIED", "RELEASED"} => row'.decision = row.decision]_deskVars

(* More suspicious signals, or stricter thresholds, never lower the band,   *)
(* although the rules on amounts, recipients and logins exclude each other  *)
(* and a single reason counts less.                                         *)
RiskNeverFalls ==
  [][Worse(signals, signals') /\ Stricter(config, config') =>
       Level(Band(signals, config)) <= Level(Band(signals', config'))]_deskVars
===============================================================================
