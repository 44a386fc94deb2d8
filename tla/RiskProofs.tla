------------------------------ MODULE RiskProofs ------------------------------
(***************************************************************************)
(* Theorems about the risk gate, for every set of requests, administrators *)
(* and scenes.  More suspicious signals and stricter thresholds never      *)
(* lower the score nor the band, whatever thresholds there are, and so no  *)
(* step of the desk that only makes matters worse does.  The decision      *)
(* stored fits the band stored, whoever raced whom; a permission stands;   *)
(* and the administrator's page shows no permission that is not in force.  *)
(***************************************************************************)
EXTENDS RiskConsole, TLAPS

(* No rule weighs less, although the rules on *)
(* amounts, recipients and logins are alternatives that exclude each other. *)
LEMMA WeightsGrow ==
  ASSUME NEW s \in Signals, NEW t \in Signals, NEW c \in Config, NEW d \in Config,
         Worse(s, t), Stricter(c, d)
  PROVE  /\ \A r \in Rules : /\ Weights(s, c)[r] \in Nat /\ Weights(t, d)[r] \in Nat
                             /\ Weights(s, c)[r] <= Weights(t, d)[r]
         /\ Critical(s, c) => Critical(t, d)
<1>1. AmountWeight(s, c) \in Nat /\ AmountWeight(t, d) \in Nat
      /\ AmountWeight(s, c) <= AmountWeight(t, d) /\ (Critical(s, c) => Critical(t, d))
  BY DEF Signals, Config, Worse, Stricter, AmountWeight, Critical
<1>2. HabitWeight(s) \in Nat /\ HabitWeight(t) \in Nat /\ HabitWeight(s) <= HabitWeight(t)
  BY DEF Signals, Worse, HabitWeight
<1>3. RecipientWeight(s, c) \in Nat /\ RecipientWeight(t, d) \in Nat
      /\ RecipientWeight(s, c) <= RecipientWeight(t, d)
  BY DEF Signals, Config, Worse, Stricter, RecipientWeight
<1>4. LoginWeight(s, c) \in Nat /\ LoginWeight(t, d) \in Nat
      /\ LoginWeight(s, c) <= LoginWeight(t, d)
  BY DEF Signals, Config, Worse, Stricter, LoginWeight
<1>5. ASSUME NEW r \in Rules
      PROVE /\ Weights(s, c)[r] \in Nat /\ Weights(t, d)[r] \in Nat
            /\ Weights(s, c)[r] <= Weights(t, d)[r]
  <2>1. CASE r \in {"amount", "habit", "recipient", "logins"}
    BY <1>1, <1>2, <1>3, <1>4, <2>1 DEF Weights
  <2>2. CASE r \in {"velocity", "recipients", "failures", "session"}
    BY <2>2 DEF Weights, Signals, Config, Worse, Stricter
  <2>3. QED BY <2>1, <2>2 DEF Rules
<1>6. QED BY <1>1, <1>5

(* So the score, the sum of the weights up to 100, does not fall.           *)
LEMMA ScoreGrows ==
  ASSUME NEW s \in Signals, NEW t \in Signals, NEW c \in Config, NEW d \in Config,
         Worse(s, t), Stricter(c, d)
  PROVE  Score(s, c) \in Nat /\ Score(t, d) \in Nat /\ Score(s, c) <= Score(t, d)
<1> DEFINE w == Weights(s, c)
           v == Weights(t, d)
<1>1. ASSUME NEW r \in Rules PROVE w[r] \in Nat /\ v[r] \in Nat /\ w[r] <= v[r]
  BY <1>1, WeightsGrow
<1>2. /\ w.amount \in Nat /\ w.habit \in Nat /\ w.velocity \in Nat /\ w.recipients \in Nat
      /\ w.failures \in Nat /\ w.recipient \in Nat /\ w.logins \in Nat /\ w.session \in Nat
  BY <1>1 DEF Rules
<1>3. /\ v.amount \in Nat /\ v.habit \in Nat /\ v.velocity \in Nat /\ v.recipients \in Nat
      /\ v.failures \in Nat /\ v.recipient \in Nat /\ v.logins \in Nat /\ v.session \in Nat
  BY <1>1 DEF Rules
<1>4. /\ w.amount <= v.amount /\ w.habit <= v.habit /\ w.velocity <= v.velocity
      /\ w.recipients <= v.recipients /\ w.failures <= v.failures
      /\ w.recipient <= v.recipient /\ w.logins <= v.logins /\ w.session <= v.session
  BY <1>1 DEF Rules
<1> HIDE DEF w, v
<1>5. Score(s, c) = (LET raw == w.amount + w.habit + w.velocity + w.recipients + w.failures
                                  + w.recipient + w.logins + w.session
                     IN IF raw > 100 THEN 100 ELSE raw)
  BY DEF Score, w
<1>6. Score(t, d) = (LET raw == v.amount + v.habit + v.velocity + v.recipients + v.failures
                                  + v.recipient + v.logins + v.session
                     IN IF raw > 100 THEN 100 ELSE raw)
  BY DEF Score, v
<1>7. QED BY <1>2, <1>3, <1>4, <1>5, <1>6

(* The band of a transfer never falls when its signals get worse: also not  *)
(* across the exceptions for a single reason and for no reason at all.      *)
THEOREM RiskIsMonotone ==
  ASSUME NEW s \in Signals, NEW t \in Signals, NEW c \in Config, NEW d \in Config,
         Worse(s, t), Stricter(c, d)
  PROVE  Level(Band(s, c)) <= Level(Band(t, d))
<1>1. Reasons(s, c) \subseteq Reasons(t, d)
  BY WeightsGrow DEF Reasons
<1>2. OneReason(t, d) => OneReason(s, c)
  BY <1>1 DEF OneReason
<1>3. Critical(s, c) => Critical(t, d)
  BY WeightsGrow
<1>4. Level(ByScore(s, c)) <= Level(ByScore(t, d))
  BY ScoreGrows DEF ByScore, Level, Config, Stricter
<1>5. ByScore(s, c) \in {"LOW", "MEDIUM", "HIGH"} /\ ByScore(t, d) \in {"LOW", "MEDIUM", "HIGH"}
  BY DEF ByScore
<1>6. CASE Reasons(s, c) = {}
  BY <1>5, <1>6 DEF Band, Level
<1>7. CASE Reasons(s, c) # {}
  <2>1. Reasons(t, d) # {}
    BY <1>1, <1>7
  <2>2. QED BY <1>2, <1>3, <1>4, <1>5, <1>7, <2>1 DEF Band, Level
<1>8. QED BY <1>6, <1>7
-------------------------------------------------------------------------------
(* What the steps of the desk leave true of its data: signals and           *)
(* thresholds are what scoreRisk is defined for.                            *)
DeskData ==
  /\ signals \in Signals /\ config \in Config
  /\ \E s \in Scenes :
       DOMAIN scene = DOMAIN s /\ scene.values = s.values /\ scene.patches = s.patches

LEMMA ChangedSignals ==
  ASSUME NEW s \in Signals, NEW t \in Signals, NEW f \in DOMAIN t, NEW v,
         [t EXCEPT ![f] = v] \in Signals
  PROVE  [s EXCEPT ![f] = v] \in Signals
<1>1. f \in {"amount", "recent", "failed", "recipients", "known", "age", "usual", "sent",
             "logins", "newSession"}
  BY DEF Signals
<1>2. [t EXCEPT ![f] = v][f] = v
  OBVIOUS
<1>3. CASE f \in {"amount", "recent", "failed", "recipients"}
  BY <1>2, <1>3 DEF Signals
<1>4. CASE f \in {"known", "newSession"}
  BY <1>2, <1>4 DEF Signals
<1>5. CASE f \in {"age", "usual", "sent", "logins"}
  BY <1>2, <1>5 DEF Signals
<1>6. QED BY <1>1, <1>3, <1>4, <1>5

LEMMA ChangedConfig ==
  ASSUME NEW c \in Config, NEW patch, patch \in [DOMAIN patch -> Int], Valid(patch)
  PROVE  [f \in DOMAIN c |-> IF f \in DOMAIN patch THEN patch[f] ELSE c[f]] \in Config
<1> DEFINE d == [f \in DOMAIN c |-> IF f \in DOMAIN patch THEN patch[f] ELSE c[f]]
<1>1. ASSUME NEW f \in DOMAIN c PROVE d[f] \in Nat
  <2>1. c[f] \in Nat
    BY DEF Config
  <2>2. f \in DOMAIN patch => patch[f] \in Nat
    BY DEF Valid
  <2>3. QED BY <2>1, <2>2
<1>2. DOMAIN d = {"medium", "high", "large", "cap", "velocity", "failures", "newDays", "loginMax"}
  BY DEF Config
<1>3. d = [medium |-> d.medium, high |-> d.high, large |-> d.large, cap |-> d.cap,
           velocity |-> d.velocity, failures |-> d.failures, newDays |-> d.newDays,
           loginMax |-> d.loginMax]
  BY <1>2
<1>4. /\ d.medium \in Nat /\ d.high \in Nat /\ d.large \in Nat /\ d.cap \in Nat
      /\ d.velocity \in Nat /\ d.failures \in Nat /\ d.newDays \in Nat /\ d.loginMax \in Nat
  BY <1>1 DEF Config
<1> HIDE DEF d
<1>5. d \in Config
  BY <1>3, <1>4 DEF Config
<1>6. QED BY <1>5 DEF d

LEMMA DeskDataInductive == DeskSpec => []DeskData
<1>1. DeskInit => DeskData
  BY DeskAssumption DEF DeskInit, DeskData
<1>2. ASSUME DeskData, [DeskNext]_deskVars PROVE DeskData'
  <2> PICK s \in Scenes :
        DOMAIN scene = DOMAIN s /\ scene.values = s.values /\ scene.patches = s.patches
    BY <1>2 DEF DeskData
  <2>1. ASSUME NEW f \in DOMAIN scene.values, NEW v \in scene.values[f], SignalChanges(f, v)
        PROVE DeskData'
    <3>1. f \in DOMAIN s.signals /\ s.signals \in Signals /\ [s.signals EXCEPT ![f] = v] \in Signals
      BY <2>1, DeskAssumption
    <3>2. signals' \in Signals
      BY <1>2, <2>1, <3>1, ChangedSignals DEF DeskData, SignalChanges
    <3>3. QED BY <1>2, <2>1, <3>2 DEF DeskData, SignalChanges
  <2>2. ASSUME NEW patch \in scene.patches, UpdateConfig(patch) PROVE DeskData'
    <3>1. patch \in [DOMAIN patch -> Int]
      BY <2>2, DeskAssumption
    <3>2. config' \in Config
      BY <1>2, <2>2, <3>1, ChangedConfig DEF DeskData, UpdateConfig
    <3>3. QED BY <1>2, <2>2, <3>2 DEF DeskData, UpdateConfig
  <2>a. {"values", "patches", "analyses"} \subseteq DOMAIN scene
    BY DeskAssumption
  <2>3. ASSUME UNCHANGED <<signals, config>>, DOMAIN scene' = DOMAIN scene,
               scene'.values = scene.values, scene'.patches = scene.patches
        PROVE DeskData'
    BY <1>2, <2>3 DEF DeskData
  <2>4. ASSUME NEW q \in Requests, Look(q) \/ Gather(q) \/ Insert(q) PROVE DeskData'
    <3>1. CASE Look(q) \/ Gather(q)
      BY <2>3, <3>1 DEF Look, Gather
    <3>2. CASE Insert(q)
      <4>1. CASE UNCHANGED scene
        BY <2>3, <3>2, <4>1 DEF Insert
      <4>2. CASE scene' = [scene EXCEPT !.analyses = @ + 1]
        BY <2>3, <2>a, <3>2, <4>2 DEF Insert
      <4>3. QED BY <3>2, <4>1, <4>2 DEF Insert
    <3>3. QED BY <2>4, <3>1, <3>2
  <2>5. CASE MarkVerified
    BY <2>3, <2>5 DEF MarkVerified
  <2>6. ASSUME NEW a \in scene.reviews, Open(a) \/ Release(a) \/ Reject(a) PROVE DeskData'
    BY <2>3, <2>6 DEF Open, Release, Reject
  <2>7. ASSUME NEW j \in Askers, StartAnalysis(j) \/ TryAnalysis(j) \/ StoreAnalysis(j)
        PROVE DeskData'
    <3>1. CASE StartAnalysis(j)
      BY <2>3, <2>a, <3>1 DEF StartAnalysis
    <3>2. CASE TryAnalysis(j) \/ StoreAnalysis(j)
      BY <2>3, <3>2 DEF TryAnalysis, StoreAnalysis
    <3>3. QED BY <2>7, <3>1, <3>2
  <2>8. CASE UNCHANGED deskVars
    BY <2>3, <2>8 DEF deskVars
  <2>9. QED BY <1>2, <2>1, <2>2, <2>4, <2>5, <2>6, <2>7, <2>8 DEF DeskNext
<1>3. QED BY <1>1, <1>2, PTL DEF DeskSpec

(* Scores do not fall as signals get worse, whatever the service is doing.  *)
LEMMA DeskRiskNeverFalls == DeskSpec => RiskNeverFalls
<1>1. ASSUME DeskData, DeskData', Worse(signals, signals'), Stricter(config, config')
      PROVE  Level(Band(signals, config)) <= Level(Band(signals', config'))
  BY <1>1, RiskIsMonotone DEF DeskData
<1>2. DeskData /\ DeskData' /\ [DeskNext]_deskVars =>
        [Worse(signals, signals') /\ Stricter(config, config') =>
           Level(Band(signals, config)) <= Level(Band(signals', config'))]_deskVars
  BY <1>1
<1>3. QED BY <1>2, DeskDataInductive, PTL DEF DeskSpec, RiskNeverFalls

(* The page adds nothing to what the service does.                          *)
LEMMA ConsoleIsDesk == ConsoleSpec => DeskSpec
<1>1. ConsoleInit => DeskInit
  BY DEF ConsoleInit
<1>2. ConsoleNext => [DeskNext]_deskVars
  <2>1. AroundThePage => DeskNext
    BY DEF AroundThePage, DeskNext
  <2>2. ASSUME NEW a \in scene.reviews, Review(a) PROVE DeskNext
    BY <2>2 DEF Review, DeskNext
  <2>3. Mount => UNCHANGED deskVars
    BY DEF Mount
  <2>4. ASSUME NEW l \in console.loads, ReadDashboard(l) \/ Loaded(l) \/ LoadFails(l)
        PROVE UNCHANGED deskVars
    BY <2>4 DEF ReadDashboard, Loaded, LoadFails
  <2>5. OpenDrawer \/ CloseDrawer => UNCHANGED deskVars
    BY DEF OpenDrawer, CloseDrawer
  <2>6. ASSUME NEW a, Act(a, "release") \/ Act(a, "reject") \/ Reply(a)
        PROVE UNCHANGED deskVars
    BY <2>6 DEF Act, Reply
  <2>7. QED BY <2>1, <2>2, <2>3, <2>4, <2>5, <2>6 DEF ConsoleNext
<1>3. UNCHANGED consoleVars => UNCHANGED deskVars
  BY DEF consoleVars
<1>4. [ConsoleNext]_consoleVars => [DeskNext]_deskVars
  BY <1>2, <1>3
<1>5. QED BY <1>1, <1>4, PTL DEF ConsoleSpec, DeskSpec

(* The property of the run, for any signals, thresholds and patches, with   *)
(* the dashboard page in front.                                             *)
THEOREM RiskNeverFallsHolds == ConsoleSpec => RiskNeverFalls
  BY DeskRiskNeverFalls, ConsoleIsDesk, PTL
-------------------------------------------------------------------------------
(* What the race for the row and the reviews of it leave true.  A request   *)
(* brings the band it has computed; a review that has read BLOCKED has read *)
(* it from a row of band HIGH, and no row ever changes its band; an         *)
(* analysis is under way only where there is a row.                         *)
DeskInv ==
  /\ row \in Rows /\ DecisionMatchesBand
  /\ scene.reviews \subseteq Admins
  /\ request \in [Requests -> [pc : {"look", "gather", "insert", "over"}, band : Bands \cup {"none"}]]
  /\ \A q \in Requests : request[q].pc = "insert" => request[q].band \in Bands
  /\ review \in [Admins -> [pc : {"idle", "read", "over"}, decision : Decisions]]
  /\ \A a \in Admins :
       review[a].pc = "read" /\ review[a].decision = "BLOCKED" => row.band = "HIGH"
  /\ AiTypeOK
  /\ \A j \in Askers : ask[j].pc # "idle" => row.decision # "none"

LEMMA BandIsOne == \A s, c : Band(s, c) \in Bands
BY DEF Band, ByScore, Bands

LEMMA DecisionFits == \A b \in Bands : Decision(b) \in Outcomes(b) /\ Decision(b) # "none"
BY DEF Bands, Decision, Outcomes

(* Every answer is the fallback's or claims a level.                        *)
LEMMA OpinionIsOne ==
  ASSUME row \in Rows, DecisionMatchesBand, row.decision # "none", NEW x \in Answer
  PROVE  Opinion(x) \in [source : {"ai", "fallback"}, level : Bands]
<1>1. row.band \in Bands
  BY DEF Rows, DecisionMatchesBand, Outcomes, Bands
<1>2. CASE x = Fallback
  BY <1>1, <1>2 DEF Opinion, Fallback
<1>3. ASSUME NEW claim \in Claims, x = Model(claim), x # Fallback
      PROVE  Opinion(x) \in [source : {"ai", "fallback"}, level : Bands]
  BY <1>3, ClaimsAssumption DEF Opinion, Model
<1> QED BY <1>2, <1>3 DEF Answer

(* A step writes at most the row's decision, reviewer and opinion once      *)
(* there is a row; the rest of the invariant follows case by case.          *)
LEMMA AskSteps ==
  ASSUME AiTypeOK, NEW j \in Askers, BeginAsk(j) \/ Attempt(j) \/ EndAsk(j)
  PROVE  /\ AiTypeOK'
         /\ \A i \in Askers : i # j => ask'[i] = ask[i]
<1>1. AiTypeOK'
  <2>1. CASE BeginAsk(j)
    <3>1. [NotAsking EXCEPT !.pc = "trying", !.attempt = 1]
          = [pc |-> "trying", attempt |-> 1, answer |-> Fallback]
      <4>1. [NotAsking EXCEPT !.pc = "trying"]
            = [pc |-> "trying", attempt |-> 0, answer |-> Fallback]
        BY DEF NotAsking
      <4>2. [[pc |-> "trying", attempt |-> 0, answer |-> Fallback] EXCEPT !.attempt = 1]
            = [pc |-> "trying", attempt |-> 1, answer |-> Fallback]
        OBVIOUS
      <4> QED BY <4>1, <4>2
    <3>2. 1 \in 0..MaxAttempts /\ Fallback \in Answer
      BY AiAssumption DEF Answer
    <3> QED BY <2>1, <3>1, <3>2 DEF AiTypeOK, BeginAsk
  <2>2. CASE EndAsk(j)
    BY <2>2, AiAssumption DEF AiTypeOK, EndAsk, NotAsking, Answer
  <2>3. ASSUME NEW x \in Answer, ask' = Answered(j, x)
        PROVE  AiTypeOK'
    BY <2>3 DEF AiTypeOK, Answered
  <2>4. CASE ask' = TriedAgain(j)
    <3>1. Fallback \in Answer
      BY DEF Answer
    <3>2. CASE ask[j].attempt < MaxAttempts
      BY <2>4, <3>2, AiAssumption DEF AiTypeOK, TriedAgain
    <3> QED BY <2>3, <2>4, <3>1, <3>2 DEF TriedAgain
  <2>5. CASE Attempt(j)
    BY <2>3, <2>4, <2>5 DEF Attempt, Answer
  <2> QED BY <2>1, <2>2, <2>5
<1>2. ASSUME NEW i \in Askers, i # j PROVE ask'[i] = ask[i]
  BY <1>2 DEF AiTypeOK, BeginAsk, Attempt, EndAsk, Answered, TriedAgain
<1> QED BY <1>1, <1>2

LEMMA DeskInvInductive == DeskSpec => []DeskInv
<1>1. ASSUME DeskInit PROVE DeskInv
  <2>1. row \in Rows /\ DecisionMatchesBand /\ scene.reviews \subseteq Admins
    BY <1>1, DeskAssumption DEF DeskInit, DecisionMatchesBand
  <2>2. AiTypeOK /\ \A j \in Askers : ask[j].pc = "idle"
    BY <1>1, AiAssumption DEF DeskInit, AiInit, AiTypeOK, NotAsking, Answer
  <2> QED BY <1>1, <2>1, <2>2 DEF DeskInit, DeskInv, Decisions
<1>2. ASSUME DeskInv, [DeskNext]_deskVars PROVE DeskInv'
  <2> USE <1>2
  <2>1. ASSUME UNCHANGED <<row, request, review, ask>>, scene'.reviews = scene.reviews
        PROVE  DeskInv'
    BY <2>1 DEF DeskInv, DecisionMatchesBand, AiTypeOK
  <2>2. ASSUME NEW f, NEW v, SignalChanges(f, v) PROVE DeskInv'
    BY <2>1, <2>2 DEF SignalChanges
  <2>3. ASSUME NEW patch, UpdateConfig(patch) PROVE DeskInv'
    BY <2>1, <2>3 DEF UpdateConfig
  <2>4. ASSUME NEW q \in Requests, Look(q) PROVE DeskInv'
    BY <2>4 DEF DeskInv, DecisionMatchesBand, AiTypeOK, Look, At
  <2>5. ASSUME NEW q \in Requests, Gather(q) PROVE DeskInv'
    <3>1. Band(signals, config) \in Bands
      BY BandIsOne
    <3> QED BY <2>5, <3>1 DEF DeskInv, DecisionMatchesBand, AiTypeOK, Gather
  <2>6. ASSUME NEW q \in Requests, Insert(q) PROVE DeskInv'
    <3>1. request[q].band \in Bands
      BY <2>6 DEF Insert, DeskInv
    <3>2. scene'.reviews = scene.reviews
      BY <2>6 DEF Insert
    <3>3. row' \in Rows /\ DecisionMatchesBand' /\ row'.decision # "none"
      <4>1. CASE row.decision # "none"
        BY <2>6, <4>1 DEF Insert, Inserted, DeskInv, DecisionMatchesBand
      <4>2. CASE row.decision = "none"
        <5>1. row' = [NoRow EXCEPT !.decision = Decision(request[q].band), !.band = request[q].band]
          BY <2>6, <4>2 DEF Insert, Inserted
        <5>2. row'.decision = Decision(request[q].band) /\ row'.band = request[q].band
          BY <5>1 DEF NoRow
        <5>3. row' \in Rows
          BY <3>1, <5>1 DEF NoRow, Rows, Decisions, Decision, Bands
        <5> QED BY <3>1, <5>2, <5>3, DecisionFits DEF DecisionMatchesBand
      <4> QED BY <4>1, <4>2
    <3>4. row.band = "HIGH" => row'.band = "HIGH"
      BY <2>6 DEF Insert, Inserted, DeskInv, DecisionMatchesBand, Outcomes
    <3>5. request' \in [Requests -> [pc : {"look", "gather", "insert", "over"}, band : Bands \cup {"none"}]]
          /\ \A p \in Requests : request'[p].pc = "insert" => request'[p].band \in Bands
      BY <2>6 DEF DeskInv, Insert, At
    <3> QED BY <2>6, <3>2, <3>3, <3>4, <3>5 DEF DeskInv, AiTypeOK, Insert
  <2>7. CASE MarkVerified
    BY <2>7 DEF MarkVerified, DeskInv, DecisionMatchesBand, Outcomes, Rows, Decisions, AiTypeOK
  <2>8. ASSUME NEW a \in Admins, Open(a) PROVE DeskInv'
    BY <2>8 DEF Open, DeskInv, DecisionMatchesBand, Outcomes, Rows, AiTypeOK
  <2>9. ASSUME NEW a \in Admins, Release(a) PROVE DeskInv'
    <3>1. row' \in Rows /\ DecisionMatchesBand' /\ row'.band = row.band
          /\ (row.decision # "none" => row'.decision # "none")
      BY <2>9 DEF Release, Releasable, DeskInv, DecisionMatchesBand, Outcomes, Rows, Decisions
    <3> QED BY <2>9, <3>1 DEF Release, DeskInv, Decisions, AiTypeOK
  <2>10. ASSUME NEW a \in Admins, Reject(a) PROVE DeskInv'
    <3>1. row' \in Rows /\ DecisionMatchesBand' /\ row'.band = row.band
          /\ row'.decision = row.decision
      BY <2>10 DEF Reject, Rejected, DeskInv, DecisionMatchesBand, Rows
    <3> QED BY <2>10, <3>1 DEF Reject, DeskInv, Decisions, AiTypeOK
  <2>11. ASSUME NEW j \in Askers, StartAnalysis(j) PROVE DeskInv'
    <3>1. AiTypeOK' /\ \A i \in Askers : i # j => ask'[i] = ask[i]
      BY <2>11, AskSteps DEF StartAnalysis, DeskInv
    <3>2. scene'.reviews = scene.reviews /\ row.decision # "none"
      BY <2>11 DEF StartAnalysis
    <3> QED BY <2>11, <3>1, <3>2 DEF StartAnalysis, DeskInv, DecisionMatchesBand
  <2>12. ASSUME NEW j \in Askers, TryAnalysis(j) PROVE DeskInv'
    <3>1. AiTypeOK' /\ \A i \in Askers : i # j => ask'[i] = ask[i]
      BY <2>12, AskSteps DEF TryAnalysis, DeskInv
    <3>2. row.decision # "none"
      BY <2>12 DEF TryAnalysis, Attempt, DeskInv
    <3> QED BY <2>12, <3>1, <3>2 DEF TryAnalysis, DeskInv, DecisionMatchesBand
  <2>13. ASSUME NEW j \in Askers, StoreAnalysis(j) PROVE DeskInv'
    <3>1. AiTypeOK' /\ \A i \in Askers : i # j => ask'[i] = ask[i]
      BY <2>13, AskSteps DEF StoreAnalysis, DeskInv
    <3>2. row.decision # "none" /\ ask[j].answer \in Answer
      BY <2>13 DEF StoreAnalysis, DeskInv, AiTypeOK
    <3>3. Opinion(ask[j].answer) \in [source : {"ai", "fallback"}, level : Bands]
      BY <3>2, OpinionIsOne DEF DeskInv
    <3>4. row' \in Rows /\ row'.decision = row.decision /\ row'.band = row.band
      BY <2>13, <3>3 DEF StoreAnalysis, Opinionated, DeskInv, Rows
    <3> QED BY <2>13, <3>1, <3>2, <3>4 DEF StoreAnalysis, DeskInv, DecisionMatchesBand
  <2>14. CASE UNCHANGED deskVars
    BY <2>1, <2>14 DEF deskVars
  <2>15. scene.reviews \subseteq Admins
    BY DEF DeskInv
  <2> QED BY <2>2, <2>3, <2>4, <2>5, <2>6, <2>7, <2>8, <2>9, <2>10, <2>11, <2>12, <2>13,
             <2>14, <2>15 DEF DeskNext
<1> QED BY <1>1, <1>2, PTL DEF DeskSpec

(* Once given, a permission is not taken back.                              *)
LEMMA PermissionKept ==
  ASSUME DeskInv, [DeskNext]_deskVars,
         row.decision \in {"ALLOWED", "VERIFIED", "RELEASED"}
  PROVE  row'.decision = row.decision
<1>1. CASE UNCHANGED row
  BY <1>1
<1>2. ASSUME NEW q \in Requests, Insert(q) PROVE row'.decision = row.decision
  BY <1>2 DEF Insert, Inserted
<1>3. ASSUME NEW a \in Admins, Release(a) \/ Reject(a) PROVE row'.decision = row.decision
  BY <1>3 DEF Release, Releasable, Reject, Rejected, DeskInv, DecisionMatchesBand, Outcomes, Rows
<1>4. ASSUME NEW j \in Askers, StoreAnalysis(j) PROVE row'.decision = row.decision
  BY <1>4 DEF StoreAnalysis, Opinionated, DeskInv, Rows
<1>5. CASE MarkVerified
  BY <1>5 DEF MarkVerified
<1>6. scene.reviews \subseteq Admins
  BY DEF DeskInv
<1> QED BY <1>1, <1>2, <1>3, <1>4, <1>5, <1>6 DEF DeskNext, deskVars, SignalChanges,
          UpdateConfig, Look, Gather, Open, StartAnalysis, TryAnalysis
-----------------------------------------------------------------------------
(* What the page holds, and what it knows of the row.  Whatever permission  *)
(* a load, the table or the drawer carries is the row's; a release accepted *)
(* or told has happened; and the load that began last, if it began after    *)
(* the page was told, has seen the release or has not read yet.             *)
Load == [nr : Nat, flagged : Decisions \cup {"unread"}, blocked : {"unread", "none", "one"}]
Pages ==
  [asked : Nat, loads : SUBSET Load, dash : Load, loading : BOOLEAN, error : BOOLEAN,
   drawer : [open : BOOLEAN, decision : Decisions, acting : SUBSET Page],
   sent : [Page -> {"no", "release", "reject", "answered"}], accepted : SUBSET Page,
   told : BOOLEAN]

Carried(load) == load.flagged \in Permissions => row.decision = load.flagged

SeenRelease(load, nr) ==
  load.nr = nr => load.flagged \in {"unread", "RELEASED"} /\ load.blocked \in {"unread", "none"}

ConsoleInv ==
  /\ console \in Pages
  /\ \A l \in console.loads : l.nr \in 1..console.asked /\ Carried(l)
  /\ console.dash.nr <= console.asked /\ Carried(console.dash)
  /\ console.drawer.decision \in Permissions => row.decision = console.drawer.decision
  /\ \A a \in console.accepted :
       console.sent[a] # "no" /\ (console.sent[a] = "release" => row.decision = "RELEASED")
  /\ console.told =>
       /\ row.decision = "RELEASED" /\ console.asked > 0
       /\ \A l \in console.loads : SeenRelease(l, console.asked)
       /\ console.dash.nr = console.asked =>
            console.dash.flagged = "RELEASED" /\ console.dash.blocked = "none"

(* A step of the service alone keeps whatever the page has been shown.      *)
LEMMA AroundKeeps ==
  ASSUME DeskInv, ConsoleInv, [DeskNext]_deskVars, UNCHANGED console
  PROVE  ConsoleInv'
<1>1. \A l : Carried(l) => Carried(l)'
  BY PermissionKept DEF Carried, Permissions
<1>2. row.decision = "RELEASED" => row'.decision = "RELEASED"
  BY PermissionKept
<1>3. console.drawer.decision \in Permissions => row'.decision = console.drawer.decision
  BY PermissionKept DEF ConsoleInv, Permissions
<1> QED BY <1>1, <1>2, <1>3 DEF ConsoleInv, SeenRelease

(* A page that loads again: the new load has read nothing.                  *)
LEMMA LoadsAgain ==
  ASSUME NEW c \in Pages
  PROVE  /\ Loading(c) \in Pages
         /\ Loading(c).asked = c.asked + 1
         /\ Loading(c).loads = c.loads \cup {[Unread EXCEPT !.nr = c.asked + 1]}
         /\ Loading(c).dash = c.dash /\ Loading(c).drawer = c.drawer
         /\ Loading(c).sent = c.sent /\ Loading(c).accepted = c.accepted
         /\ Loading(c).told = c.told
<1>1. [Unread EXCEPT !.nr = c.asked + 1] \in Load
  BY DEF Unread, Pages, Load
<1> DEFINE n == [Unread EXCEPT !.nr = c.asked + 1]
<1>2. n \in Load
  BY <1>1
<1> HIDE DEF n
<1>3. Loading(c) = [c EXCEPT !.asked = c.asked + 1, !.loads = c.loads \cup {n},
                             !.loading = TRUE, !.error = FALSE]
  BY DEF Loading, n
<1>4. c.asked + 1 \in Nat /\ c.loads \cup {n} \in SUBSET Load
  BY <1>2 DEF Pages
<1>5. Loading(c) \in Pages
  BY <1>3, <1>4 DEF Pages
<1> QED BY <1>3, <1>5 DEF Pages, n

LEMMA LoadingKeeps ==
  ASSUME NEW c \in Pages, console' = Loading(c),
         \A l \in c.loads : l.nr \in 1..c.asked /\ Carried(l)',
         c.dash.nr <= c.asked, Carried(c.dash)',
         c.drawer.decision \in Permissions => row'.decision = c.drawer.decision,
         \A a \in c.accepted :
           c.sent[a] # "no" /\ (c.sent[a] = "release" => row'.decision = "RELEASED"),
         c.told => row'.decision = "RELEASED"
  PROVE  ConsoleInv'
<1> DEFINE n == [Unread EXCEPT !.nr = c.asked + 1]
<1>1. n.nr = c.asked + 1 /\ n.flagged = "unread" /\ n.blocked = "unread"
  BY DEF Unread
<1> HIDE DEF n
<1>2. /\ console' \in Pages
      /\ console'.asked = c.asked + 1
      /\ console'.loads = c.loads \cup {n}
      /\ console'.dash = c.dash /\ console'.drawer = c.drawer
      /\ console'.sent = c.sent /\ console'.accepted = c.accepted /\ console'.told = c.told
  BY LoadsAgain DEF n
<1>3. c.asked \in Nat /\ c.dash.nr \in Nat
  BY DEF Pages, Load
<1>4. \A l \in console'.loads : l.nr \in 1..console'.asked /\ Carried(l)'
  BY <1>1, <1>2, <1>3 DEF Carried, Permissions
<1>5. console'.told => \A l \in console'.loads : SeenRelease(l, console'.asked)
  BY <1>1, <1>2, <1>3 DEF SeenRelease
<1>6. console'.dash.nr < console'.asked
  BY <1>2, <1>3
<1>7. console'.dash.nr <= console'.asked /\ Carried(console.dash)'
  BY <1>2, <1>3 DEF Carried
<1>8. console'.told => row'.decision = "RELEASED" /\ console'.asked > 0
  BY <1>2, <1>3
<1>9. console'.dash.nr # console'.asked
  BY <1>2, <1>3
<1> QED BY <1>2, <1>4, <1>5, <1>7, <1>8, <1>9 DEF ConsoleInv

LEMMA PageSteps ==
  ASSUME DeskInv, ConsoleInv, UNCHANGED deskVars,
         \/ Mount \/ OpenDrawer \/ CloseDrawer
         \/ \E l \in console.loads : ReadDashboard(l) \/ Loaded(l) \/ LoadFails(l)
         \/ \E a \in Page : Act(a, "release") \/ Act(a, "reject") \/ Reply(a)
  PROVE  ConsoleInv'
<1> DEFINE c == console
<1>a. row' = row
  BY DEF deskVars
<1>b. \A l : Carried(l)' <=> (l.flagged \in Permissions => row.decision = l.flagged)
  BY <1>a DEF Carried
<1>c. \A l : Carried(l) => (l.flagged \in Permissions => row.decision = l.flagged)
  BY DEF Carried
<1>1. CASE Mount
  <2>1. c \in Pages /\ console' = Loading(c)
    BY <1>1 DEF Mount, ConsoleInv
  <2> QED BY <1>a, <1>b, <1>c, <2>1, LoadingKeeps DEF ConsoleInv
<1>2. ASSUME NEW l \in console.loads, ReadDashboard(l) PROVE ConsoleInv'
  <2>1. l \in Load /\ l.nr \in 1..c.asked /\ Carried(l)
        /\ (c.told => SeenRelease(l, c.asked) /\ row.decision = "RELEASED")
    BY DEF ConsoleInv, Pages
  <2>2. PICK m \in Load : console' = [console EXCEPT !.loads = (@ \ {l}) \cup {m}] /\ m.nr = l.nr
           /\ (m.flagged \in Permissions => row.decision = m.flagged)
           /\ (c.told => SeenRelease(m, c.asked))
    <3>1. CASE /\ l.flagged = "unread"
               /\ console' = [console EXCEPT !.loads = (@ \ {l}) \cup {[l EXCEPT !.flagged = Flagged]}]
      <4>1. Flagged \in Decisions \cup {"unread"} /\ (Flagged \in Permissions => row.decision = Flagged)
            /\ (row.decision = "RELEASED" => Flagged = "RELEASED")
        BY DEF Flagged, Permissions, Decisions, DeskInv, Rows, DecisionMatchesBand, Outcomes
      <4>2. [l EXCEPT !.flagged = Flagged] \in Load
        BY <2>1, <4>1 DEF Load
      <4>3. [l EXCEPT !.flagged = Flagged].nr = l.nr /\ [l EXCEPT !.flagged = Flagged].flagged = Flagged
            /\ [l EXCEPT !.flagged = Flagged].blocked = l.blocked
        BY <2>1 DEF Load
      <4> QED BY <2>1, <3>1, <4>1, <4>2, <4>3 DEF SeenRelease
    <3>2. CASE /\ l.blocked = "unread"
               /\ console' = [console EXCEPT !.loads = (@ \ {l}) \cup {[l EXCEPT !.blocked = Blocked]}]
      <4>1. Blocked \in {"none", "one"} /\ (row.decision = "RELEASED" => Blocked = "none")
        BY DEF Blocked
      <4>2. [l EXCEPT !.blocked = Blocked] \in Load
        BY <2>1, <4>1 DEF Load
      <4>3. [l EXCEPT !.blocked = Blocked].nr = l.nr /\ [l EXCEPT !.blocked = Blocked].blocked = Blocked
            /\ [l EXCEPT !.blocked = Blocked].flagged = l.flagged
        BY <2>1 DEF Load
      <4> QED BY <2>1, <3>2, <4>1, <4>2, <4>3 DEF SeenRelease, Carried
    <3> QED BY <1>2, <3>1, <3>2 DEF ReadDashboard
  <2>3. (console.loads \ {l}) \cup {m} \in SUBSET Load
    BY DEF ConsoleInv, Pages
  <2>4. console' \in Pages
    BY <2>2, <2>3 DEF ConsoleInv, Pages
  <2>5. console'.loads = (c.loads \ {l}) \cup {m} /\ console'.asked = c.asked /\ console'.dash = c.dash
        /\ console'.drawer = c.drawer /\ console'.sent = c.sent /\ console'.accepted = c.accepted
        /\ console'.told = c.told
    BY <2>2 DEF ConsoleInv, Pages
  <2>6. \A x \in console'.loads : x.nr \in 1..console'.asked /\ Carried(x)'
    BY <1>b, <1>c, <2>1, <2>2, <2>5 DEF ConsoleInv
  <2>7. console'.told => \A x \in console'.loads : SeenRelease(x, console'.asked)
    BY <2>2, <2>5 DEF ConsoleInv
  <2> QED BY <1>a, <1>b, <1>c, <2>4, <2>5, <2>6, <2>7 DEF ConsoleInv, Carried
<1>3. ASSUME NEW l \in console.loads, Loaded(l) PROVE ConsoleInv'
  <2>1. l \in Load /\ l.nr \in 1..c.asked /\ Carried(l) /\ l.flagged # "unread" /\ l.blocked # "unread"
        /\ (c.told => SeenRelease(l, c.asked))
    BY <1>3 DEF ConsoleInv, Pages, Loaded
  <2>2. console'.loads = c.loads \ {l} /\ console'.asked = c.asked /\ console'.dash = l
        /\ console'.drawer = c.drawer /\ console'.sent = c.sent /\ console'.accepted = c.accepted
        /\ console'.told = c.told
    BY <1>3 DEF ConsoleInv, Pages, Loaded
  <2>3. console' \in Pages
    BY <1>3, <2>1 DEF ConsoleInv, Pages, Loaded
  <2>4. c.asked \in Nat
    BY DEF ConsoleInv, Pages
  <2> QED BY <1>a, <1>b, <1>c, <2>1, <2>2, <2>3, <2>4 DEF ConsoleInv, SeenRelease, Carried
<1>4. ASSUME NEW l \in console.loads, LoadFails(l) PROVE ConsoleInv'
  <2>1. console'.loads = c.loads \ {l} /\ console'.asked = c.asked /\ console'.dash = c.dash
        /\ console'.drawer = c.drawer /\ console'.sent = c.sent /\ console'.accepted = c.accepted
        /\ console'.told = c.told
    BY <1>4 DEF ConsoleInv, Pages, LoadFails
  <2>2. console' \in Pages
    BY <1>4 DEF ConsoleInv, Pages, LoadFails
  <2> QED BY <1>a, <1>b, <1>c, <2>1, <2>2 DEF ConsoleInv, Carried
<1>5. CASE OpenDrawer \/ CloseDrawer
  <2>1. PICK d \in [open : BOOLEAN, decision : Decisions, acting : SUBSET Page] :
           console' = [console EXCEPT !.drawer = d] /\ d.decision \in {"none", row.decision}
    <3>1. CASE OpenDrawer
      <4>1. Closed \in [open : BOOLEAN, decision : Decisions, acting : SUBSET Page]
            /\ row.decision \in Decisions
        BY DEF Closed, Decisions, DeskInv, Rows
      <4> DEFINE d == [Closed EXCEPT !.open = TRUE, !.decision = row.decision]
      <4>2. d \in [open : BOOLEAN, decision : Decisions, acting : SUBSET Page]
            /\ d.decision = row.decision
        BY <4>1
      <4>3. console' = [console EXCEPT !.drawer = d]
        BY <3>1 DEF OpenDrawer
      <4> HIDE DEF d
      <4> QED BY <4>2, <4>3
    <3>2. CASE CloseDrawer
      <4>1. Closed \in [open : BOOLEAN, decision : Decisions, acting : SUBSET Page]
            /\ Closed.decision = "none"
        BY DEF Closed, Decisions
      <4>2. console' = [console EXCEPT !.drawer = Closed]
        BY <3>2 DEF CloseDrawer
      <4> QED BY <4>1, <4>2
    <3> QED BY <1>5, <3>1, <3>2
  <2>2. console'.loads = c.loads /\ console'.asked = c.asked /\ console'.dash = c.dash
        /\ console'.drawer = d /\ console'.sent = c.sent /\ console'.accepted = c.accepted
        /\ console'.told = c.told
    BY <2>1 DEF ConsoleInv, Pages
  <2>3. console' \in Pages
    BY <2>1 DEF ConsoleInv, Pages
  <2> QED BY <1>a, <1>b, <1>c, <2>1, <2>2, <2>3 DEF ConsoleInv, Permissions, Carried
<1>6. ASSUME NEW a \in Page, NEW kind \in {"release", "reject"}, Act(a, kind) PROVE ConsoleInv'
  <2>1. c.drawer \in [open : BOOLEAN, decision : Decisions, acting : SUBSET Page]
        /\ c.sent \in [Page -> {"no", "release", "reject", "answered"}]
    BY DEF ConsoleInv, Pages
  <2>2. a \notin c.accepted
    BY <1>6 DEF Act, ConsoleInv
  <2>3. console'.loads = c.loads /\ console'.asked = c.asked /\ console'.dash = c.dash
        /\ console'.drawer = [c.drawer EXCEPT !.acting = {a}]
        /\ console'.sent = [c.sent EXCEPT ![a] = kind] /\ console'.accepted = c.accepted
        /\ console'.told = c.told
    BY <1>6 DEF ConsoleInv, Pages, Act
  <2>4. console' \in Pages
    BY <1>6, <2>1 DEF ConsoleInv, Pages, Act
  <2>5. console'.drawer.decision = c.drawer.decision
    BY <2>1, <2>3
  <2>6. \A b \in console'.accepted : console'.sent[b] = c.sent[b]
    BY <2>1, <2>2, <2>3 DEF ConsoleInv, Pages
  <2> QED BY <1>a, <1>b, <1>c, <2>3, <2>4, <2>5, <2>6 DEF ConsoleInv, Carried
<1>7. ASSUME NEW a \in Page, console.sent[a] \in {"release", "reject"},
             a \in console.accepted, console' = Accepted(a)
      PROVE  ConsoleInv'
  <2> DEFINE e == [console EXCEPT !.sent[a] = "answered", !.drawer = Closed,
                                  !.told = @ \/ console.sent[a] = "release"]
  <2>1. console' = Loading(e)
    BY <1>7 DEF Accepted
  <2>2. e \in Pages
    BY DEF ConsoleInv, Pages, Closed, Decisions
  <2>3. e.loads = c.loads /\ e.asked = c.asked /\ e.dash = c.dash
        /\ e.drawer = Closed /\ e.accepted = c.accepted
        /\ e.sent = [c.sent EXCEPT ![a] = "answered"]
        /\ e.told = (c.told \/ c.sent[a] = "release")
    BY DEF ConsoleInv, Pages
  <2>4. e.drawer.decision \notin Permissions
    BY <2>3 DEF Closed, Permissions
  <2>5. \A b \in e.accepted :
          e.sent[b] # "no" /\ (e.sent[b] = "release" => row'.decision = "RELEASED")
    BY <1>a, <2>3 DEF ConsoleInv, Pages
  <2>6. e.told => row'.decision = "RELEASED"
    BY <1>a, <1>7, <2>3 DEF ConsoleInv
  <2>7. \A l \in e.loads : l.nr \in 1..e.asked /\ Carried(l)'
    BY <1>b, <1>c, <2>3 DEF ConsoleInv
  <2>8. e.dash.nr <= e.asked /\ (e.dash.flagged \in Permissions => row'.decision = e.dash.flagged)
    BY <1>a, <2>3 DEF ConsoleInv, Carried
  <2> HIDE DEF e
  <2>9. \A x \in Pages : x = e => Carried(x.dash)'
    BY <2>8 DEF Carried
  <2> QED BY <2>1, <2>2, <2>4, <2>5, <2>6, <2>7, <2>8, LoadingKeeps DEF Carried
<1>8. ASSUME NEW a \in Page, console' = Failed(a), console.sent[a] \in {"release", "reject"}
      PROVE ConsoleInv'
  <2>1. c.drawer \in [open : BOOLEAN, decision : Decisions, acting : SUBSET Page]
        /\ c.sent \in [Page -> {"no", "release", "reject", "answered"}]
    BY DEF ConsoleInv, Pages
  <2>3. console'.loads = c.loads /\ console'.asked = c.asked /\ console'.dash = c.dash
        /\ console'.drawer = [c.drawer EXCEPT !.acting = @ \ {a}]
        /\ console'.sent = [c.sent EXCEPT ![a] = "answered"] /\ console'.accepted = c.accepted
        /\ console'.told = c.told
    BY <1>8 DEF ConsoleInv, Pages, Failed
  <2>4. console' \in Pages
    BY <1>8, <2>1 DEF ConsoleInv, Pages, Failed
  <2>5. console'.drawer.decision = c.drawer.decision
    BY <2>1, <2>3
  <2>6. \A b \in console'.accepted : console'.sent[b] \in {c.sent[b], "answered"}
    BY <2>1, <2>3 DEF ConsoleInv, Pages
  <2> QED BY <1>a, <1>b, <1>c, <2>3, <2>4, <2>5, <2>6 DEF ConsoleInv, Carried
<1> QED BY <1>1, <1>2, <1>3, <1>4, <1>5, <1>6, <1>7, <1>8 DEF Reply

(* The server's part of a review: what it accepts has happened.             *)
LEMMA ReviewKeeps ==
  ASSUME DeskInv, ConsoleInv, NEW a \in scene.reviews, Review(a)
  PROVE  ConsoleInv'
<1>1. [DeskNext]_deskVars
  BY DEF Review, DeskNext
<1>2. CASE UNCHANGED console
  BY <1>1, <1>2, AroundKeeps
<1>3. \A l : Carried(l) => Carried(l)'
  BY <1>1, PermissionKept DEF Carried, Permissions
<1>4. row.decision = "RELEASED" => row'.decision = "RELEASED"
  BY <1>1, PermissionKept
<1>5. console.drawer.decision \in Permissions => row'.decision = console.drawer.decision
  BY <1>1, PermissionKept DEF ConsoleInv, Permissions
<1>6. ASSUME a \in Page, console' = [console EXCEPT !.accepted = @ \cup {a}],
             console.sent[a] # "no", console.sent[a] = "release" => row'.decision = "RELEASED"
      PROVE  ConsoleInv'
  <2>1. console'.loads = console.loads /\ console'.asked = console.asked
        /\ console'.dash = console.dash /\ console'.drawer = console.drawer
        /\ console'.sent = console.sent /\ console'.accepted = console.accepted \cup {a}
        /\ console'.told = console.told
    BY <1>6 DEF ConsoleInv, Pages
  <2>2. console' \in Pages
    BY <1>6 DEF ConsoleInv, Pages
  <2>3. Carried(console.dash)'
    BY <2>1, <1>3 DEF ConsoleInv, Carried
  <2> QED BY <1>3, <1>4, <1>5, <1>6, <2>1, <2>2, <2>3 DEF ConsoleInv, SeenRelease
<1>7. CASE Release(a) /\ a \in Page /\ Releasable(review[a].decision)
           /\ console.sent[a] = "release"
           /\ console' = [console EXCEPT !.accepted = @ \cup {a}]
  <2>1. row'.decision = "RELEASED"
    BY <1>7 DEF Release, DeskInv, Rows
  <2> QED BY <1>6, <1>7, <2>1
<1>8. CASE Reject(a) /\ a \in Page /\ console.sent[a] = "reject"
           /\ console' = [console EXCEPT !.accepted = @ \cup {a}]
  BY <1>6, <1>8
<1>9. [console EXCEPT !.accepted = @] = console
  BY DEF ConsoleInv, Pages
<1> QED BY <1>2, <1>7, <1>8, <1>9 DEF Review

LEMMA ConsoleInvInductive == ConsoleSpec => [](DeskInv /\ ConsoleInv)
<1>1. ASSUME ConsoleInit PROVE ConsoleInv
  BY <1>1 DEF ConsoleInit, ConsoleInv, Pages, Load, Unread, Closed, Decisions, Carried, Permissions
<1>2. ASSUME DeskInv, ConsoleInv, [ConsoleNext]_consoleVars PROVE ConsoleInv'
  <2>1. CASE AroundThePage
    <3>1. DeskNext /\ UNCHANGED console
      BY <2>1 DEF AroundThePage, DeskNext
    <3> QED BY <1>2, <3>1, AroundKeeps
  <2>2. CASE UNCHANGED consoleVars
    BY <1>2, <2>2, AroundKeeps DEF consoleVars
  <2>3. ASSUME NEW a \in scene.reviews, Review(a) PROVE ConsoleInv'
    BY <1>2, <2>3, ReviewKeeps
  <2>4. CASE Mount \/ OpenDrawer \/ CloseDrawer
    BY <1>2, <2>4, PageSteps DEF Mount, OpenDrawer, CloseDrawer
  <2>5. CASE \E l \in console.loads : ReadDashboard(l) \/ Loaded(l) \/ LoadFails(l)
    BY <1>2, <2>5, PageSteps DEF ReadDashboard, Loaded, LoadFails
  <2>6. CASE \E a \in scene.reviews \cap Page : Act(a, "release") \/ Act(a, "reject") \/ Reply(a)
    BY <1>2, <2>6, PageSteps DEF Act, Reply
  <2> QED BY <1>2, <2>1, <2>2, <2>3, <2>4, <2>5, <2>6 DEF ConsoleNext
<1> QED BY <1>1, <1>2, ConsoleIsDesk, DeskInvInductive, PTL DEF ConsoleSpec

(* The run's property for every scene: the decision fits the band whoever   *)
(* raced whom, no permission is taken back, and no permission on the screen *)
(* is wrong, however old.                                                   *)
THEOREM ReviewsSound == ConsoleSpec => ReviewsAreSound
<1>1. ASSUME DeskInv, ConsoleInv, DeskData
      PROVE  DeskTypeOK /\ ConsoleTypeOK /\ DecisionMatchesBand /\ ScreenIsTrue
  <2>1. DeskTypeOK
    BY <1>1 DEF DeskTypeOK, DeskInv, DeskData
  <2>2. ConsoleTypeOK
    BY <1>1 DEF ConsoleTypeOK, ConsoleInv, Pages, Load
  <2>3. ScreenIsTrue
    BY <1>1 DEF ScreenIsTrue, ConsoleInv, Carried
  <2> QED BY <1>1, <2>1, <2>2, <2>3 DEF DeskInv
<1>2. ASSUME DeskInv, [DeskNext]_deskVars
      PROVE  [row.decision \in {"ALLOWED", "VERIFIED", "RELEASED"} =>
                row'.decision = row.decision]_deskVars
  BY <1>2, PermissionKept
<1> QED BY <1>1, <1>2, ConsoleInvInductive, ConsoleIsDesk, DeskDataInductive, PTL
       DEF DeskSpec, ReviewsAreSound, PermissionStands
===============================================================================
