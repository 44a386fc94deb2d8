-------------------------- MODULE DisbursementProofs --------------------------
(***************************************************************************)
(* What holds of the disbursements of a programme for any finite number of *)
(* people and of servers, any scene, any number of batches and of crashes. *)
(*                                                                         *)
(* The properties of Disbursement speak of a finished batch, or of a page  *)
(* that is shown; none of them is inductive.  DisbursementInv, below, adds *)
(* what is true on the way: what every runner still has on its list        *)
(* (ItemsInv), whose payment it makes (PayInv), and, with one server, that *)
(* nothing on the list is done (ListInv), how far the counters are behind  *)
(* the items (TallyInv), where the money of each item may be (MoneyInv,    *)
(* StepInv) and what the owner's page has read (RowInv, ShownInv).         *)
(*                                                                         *)
(* StepKeeps is the heart of it: a step of one runner leaves the other     *)
(* batches and the other runners as they are, so that each action has to   *)
(* show the parts about its own batch and runner only.                     *)
(***************************************************************************)
EXTENDS Disbursement, FiniteSetTheorems, TLAPS

(* What the variables are.                                                  *)
Batch == [status : Final \cup {"NONE", "PROCESSING"}, total : Nat,
          counts : [paid : Nat, failed : Nat, skipped : Nat],
          items : [People -> Settled \cup {"NONE", "PENDING"}]]
Runner == [pc : {"idle", "status", "items", "next", "already", "skip", "paying", "flush",
                 "finalize"},
           todo : SUBSET People, eligible : SUBSET People, user : People \cup {NoPay}, since : Int]
Request == [pc : {"idle", "create"}, targets : SUBSET People, toEnroll : SUBSET People, extra : Nat]
Screen == [pc : {"closed", "first", "second", "shown"},
         row : [status : Final \cup {"NONE", "PROCESSING"},
                counts : [paid : Nat, failed : Nat, skipped : Nat]],
         items : [People -> Settled \cup {"NONE", "PENDING"}]]

Scene == [servers : SUBSET Servers, enrolled : SUBSET People, accounts : SUBSET People,
          asks : SUBSET {"all", "listed", "roster"}, edits : Int, watched : BOOLEAN]

Types ==
  /\ PayTypeOK
  /\ program \in {"ACTIVE", "CLOSED"} /\ accounts \subseteq People
  /\ enrolled \in [People -> {"NONE", "ACTIVE", "SUSPENDED", "REMOVED"}]
  /\ request \in [Batches -> Request] /\ batch \in [Batches -> Batch]
  /\ runner \in [Payers -> Runner] /\ page \in [Batches -> Screen]
  /\ scene \in Scene

(* Items by their status.                                                   *)
UsersOf(items) == {u \in People : items[u] # "NONE"}
NumberOf(items, status) == Cardinality({u \in People : items[u] = status})
CountsOf(items) == [paid |-> NumberOf(items, "PAID"), failed |-> NumberOf(items, "FAILED"),
                    skipped |-> NumberOf(items, "SKIPPED")]

(* A runner that has read its items.                                        *)
Reading(r) == runner[r].pc \in {"next", "already", "skip", "paying", "flush", "finalize"}

(* A batch is created once, and before it exists nobody runs or shows it.   *)
CreatedInv ==
  \A b \in Batches :
    /\ request[b].pc = "create" => batch[b].status = "NONE"
    /\ batch[b].status = "NONE" =>
         page[b].pc = "closed" /\ \A s \in Servers : runner[<<s, b>>].pc = "idle"
    /\ \A s \in Servers : runner[<<s, b>>].pc # "idle" => s \in scene.servers

(* What nobody has tried is on the list of every runner.                    *)
ItemsAt(s, b) ==
  Reading(<<s, b>>) =>
    /\ runner[<<s, b>>].todo \subseteq ItemUsers(b)
    /\ \A u \in People : batch[b].items[u] = "PENDING" => u \in runner[<<s, b>>].todo
    /\ runner[<<s, b>>].pc \in {"already", "skip", "paying"} =>
         runner[<<s, b>>].user \in runner[<<s, b>>].todo
    /\ runner[<<s, b>>].pc = "finalize" => runner[<<s, b>>].todo = {}
DecidedIn(b) == IsFinal(b) => \A u \in People : batch[b].items[u] # "PENDING"
ItemsInv == \A b \in Batches : DecidedIn(b) /\ \A s \in Servers : ItemsAt(s, b)

CountIn(b) ==
  /\ batch[b].counts.paid + batch[b].counts.failed + batch[b].counts.skipped
       <= Cardinality(ItemUsers(b))
  /\ Cardinality(ItemUsers(b)) <= batch[b].total
CountInv == \A b \in Batches : CountIn(b)

(* A runner pays for the item it is at, and nobody else calls.              *)
PayAt(r) ==
  /\ Calling(r) => runner[r].pc = "paying"
  /\ runner[r].pc = "paying" => /\ pay[r].key = <<r[2], runner[r].user>>
                                /\ pay[r].pc \in {"waiting", "owning", "answered"}
  /\ pay[r].pc = "answered" => pay[r].answer # "none"
PayInv == \A r \in Payers : PayAt(r)

(* What one server alone makes of it.                                       *)
Moved(b, u) == paid[<<b, u>>] = "moved"

(* The one runner is behind every change: what is on its list is not done,  *)
(* and a finished batch has no runner any more.                             *)
ListAt(s, b) ==
  /\ IsFinal(b) => runner[<<s, b>>].pc \in {"idle", "status"}
  /\ Reading(<<s, b>>) =>
       \A u \in runner[<<s, b>>].todo : batch[b].items[u] \in {"PENDING", "FAILED"}
  /\ runner[<<s, b>>].pc = "finalize" => batch[b].counts = Counts(b)
ListInv == Alone => \A b \in Batches, s \in scene.servers : ListAt(s, b)

(* The counters run behind the items, and catch up at the end.              *)
TallyIn(b) ==
  /\ batch[b].counts.paid <= NumberOf(batch[b].items, "PAID")
  /\ batch[b].counts.skipped <= NumberOf(batch[b].items, "SKIPPED")
  /\ IsFinal(b) => /\ batch[b].counts = Counts(b)
                   /\ batch[b].status = "COMPLETED" => batch[b].counts.paid = batch[b].total
TallyInv == Alone => \A b \in Batches : TallyIn(b)

(* Where the money of an item may be, while it is not told.                 *)
MoneyAt(s, b, u) ==
  /\ batch[b].items[u] = "PAID" => Moved(b, u) \/ <<b, u>> \in doubt
  /\ batch[b].items[u] = "SKIPPED" => ~Moved(b, u)
  /\ Moved(b, u) /\ u \in ItemUsers(b) =>
       \/ batch[b].items[u] = "PAID"
       \/ <<b, u>> \in doubt
       \/ ~IsFinal(b) /\ (Reading(<<s, b>>) => u \in runner[<<s, b>>].todo)
MoneyInv ==
  Alone => \A b \in Batches, s \in scene.servers : \A u \in People : MoneyAt(s, b, u)

(* What the runner knows of the money of the item it is at.                 *)
StepAt(s, b) ==
  LET r == <<s, b>> IN
  /\ runner[r].pc = "already" => Moved(b, runner[r].user)
  /\ runner[r].pc = "skip" => ~Moved(b, runner[r].user)
  /\ runner[r].pc = "paying" =>
       /\ pay[r].pc = "waiting" => ~Moved(b, runner[r].user)
       /\ pay[r].pc = "owning" => paid[<<b, runner[r].user>>] = "inflight"
       /\ pay[r].pc = "answered" /\ pay[r].answer = "COMPLETED" => Moved(b, runner[r].user)
       /\ pay[r].pc = "answered" /\ pay[r].answer = "FAILED" => ~Moved(b, runner[r].user)
StepInv == Alone => \A b \in Batches, s \in scene.servers : StepAt(s, b)

(* The owner's page has read a row that the items have caught up with.      *)
RowIn(b) ==
  page[b].pc = "second" =>
    /\ page[b].row.counts.paid <= NumberOf(batch[b].items, "PAID")
    /\ page[b].row.counts.skipped <= NumberOf(batch[b].items, "SKIPPED")
    /\ page[b].row.status # "PROCESSING" => IsFinal(b) /\ page[b].row.counts = batch[b].counts
RowInv == Alone => \A b \in Batches : RowIn(b)

(* What it shows then adds up.                                              *)
ShownInv ==
  Alone => \A b \in Batches : page[b].pc = "shown" =>
    /\ page[b].row.counts.paid <= NumberOf(page[b].items, "PAID")
    /\ page[b].row.counts.skipped <= NumberOf(page[b].items, "SKIPPED")
    /\ page[b].row.status # "PROCESSING" => page[b].row.counts = CountsOf(page[b].items)

DisbursementInv ==
  /\ Types /\ CreatedInv /\ ItemsInv /\ CountInv /\ PayInv
  /\ ListInv /\ TallyInv /\ MoneyInv /\ StepInv /\ RowInv /\ ShownInv

-----------------------------------------------------------------------------
(* Numbers of items.                                                        *)
LEMMA NumbersAre ==
  ASSUME NEW items
  PROVE  /\ IsFiniteSet(UsersOf(items)) /\ Cardinality(UsersOf(items)) \in Nat
         /\ \A status : NumberOf(items, status) \in Nat
         /\ NumberOf(items, "PAID") + NumberOf(items, "FAILED") + NumberOf(items, "SKIPPED")
              <= Cardinality(UsersOf(items))
<1> DEFINE S(status) == {u \in People : items[u] = status}
           some == S("PAID") \cup S("FAILED")
<1>1. \A status : IsFiniteSet(S(status)) /\ Cardinality(S(status)) \in Nat
  BY PeopleAssumption, FS_Subset, FS_CardinalityType
<1>2. IsFiniteSet(UsersOf(items)) /\ Cardinality(UsersOf(items)) \in Nat
  BY PeopleAssumption, FS_Subset, FS_CardinalityType DEF UsersOf
<1>3. /\ IsFiniteSet(some)
      /\ Cardinality(some)
           = Cardinality(S("PAID")) + Cardinality(S("FAILED"))
               - Cardinality(S("PAID") \cap S("FAILED"))
  BY <1>1, FS_Union
<1>4. Cardinality(S("PAID") \cap S("FAILED")) = 0
  <2>1. S("PAID") \cap S("FAILED") = {}
    OBVIOUS
  <2> QED BY <2>1, FS_EmptySet
<1>5. /\ IsFiniteSet(some \cup S("SKIPPED"))
      /\ Cardinality(some \cup S("SKIPPED"))
           = Cardinality(some) + Cardinality(S("SKIPPED")) - Cardinality(some \cap S("SKIPPED"))
  BY <1>1, <1>3, FS_Union
<1>6. Cardinality(some \cap S("SKIPPED")) = 0
  <2>1. some \cap S("SKIPPED") = {}
    OBVIOUS
  <2> QED BY <2>1, FS_EmptySet
<1>7. Cardinality(some \cup S("SKIPPED")) <= Cardinality(UsersOf(items))
  <2>1. some \cup S("SKIPPED") \in SUBSET UsersOf(items)
    BY DEF UsersOf
  <2> QED BY <1>2, <2>1, FS_Subset
<1>8. \A status : NumberOf(items, status) = Cardinality(S(status))
  BY DEF NumberOf
<1> HIDE DEF S, some
<1> QED BY <1>1, <1>2, <1>3, <1>4, <1>5, <1>6, <1>7, <1>8

(* More items of a status, more of them in its number.                      *)
LEMMA NumberGrows ==
  ASSUME NEW items, NEW new, NEW status,
         \A u \in People : items[u] = status => new[u] = status
  PROVE  NumberOf(items, status) <= NumberOf(new, status)
<1>1. {u \in People : items[u] = status} \in SUBSET {u \in People : new[u] = status}
  OBVIOUS
<1>2. IsFiniteSet({u \in People : new[u] = status})
  BY PeopleAssumption, FS_Subset
<1> QED BY <1>1, <1>2, FS_Subset DEF NumberOf

(* When as many are paid as there are, all are.                             *)
LEMMA AllPaid ==
  ASSUME NEW items, NumberOf(items, "PAID") >= Cardinality(UsersOf(items))
  PROVE  \A u \in UsersOf(items) : items[u] = "PAID"
<1> DEFINE p == {u \in People : items[u] = "PAID"}
<1>1. p \in SUBSET UsersOf(items) /\ IsFiniteSet(UsersOf(items))
  BY NumbersAre DEF UsersOf
<1>2. Cardinality(p) = Cardinality(UsersOf(items))
  <2>1. Cardinality(p) <= Cardinality(UsersOf(items)) /\ Cardinality(p) \in Nat
    BY <1>1, FS_Subset, FS_CardinalityType
  <2>2. NumberOf(items, "PAID") = Cardinality(p)
    BY DEF NumberOf
  <2>3. Cardinality(UsersOf(items)) \in Nat
    BY NumbersAre
  <2> HIDE DEF p
  <2> QED BY <2>1, <2>2, <2>3
<1>3. p = UsersOf(items)
  BY <1>1, <1>2, FS_Subset
<1> QED BY <1>3

(* The same numbers by the names of the model.                              *)
LEMMA CountsAre ==
  ASSUME NEW b \in Batches
  PROVE  Counts(b) = CountsOf(batch[b].items) /\ ItemUsers(b) = UsersOf(batch[b].items)
BY DEF Counts, CountsOf, NumberOf, ItemUsers, UsersOf

(* One server is one.                                                       *)
LEMMA OneServer ==
  ASSUME Types, Alone, NEW s \in scene.servers, NEW t \in scene.servers
  PROVE  s = t
<1>1. IsFiniteSet(scene.servers)
  BY PeopleAssumption, FS_Subset DEF Types, Scene
<1> QED BY <1>1, FS_Singleton DEF Alone

-----------------------------------------------------------------------------
(* The payment.                                                             *)

(* What a step of the service does.                                         *)
LEMMA StepPayIs ==
  ASSUME PayTypeOK, NEW r \in Payers, StepPay(r), pay[r].key \in PayKeys
  PROVE  LET k == pay[r].key IN
         /\ PayTypeOK'
         /\ \A q \in Payers : q # r => pay'[q] = pay[q]
         /\ pay'[r].key = k
         /\ \A q \in PayKeys : q # k => paid'[q] = paid[q]
         /\ \/ /\ pay[r].pc = "waiting" /\ pay'[r].pc = "answered" /\ paid' = paid
               /\ \/ pay'[r].answer = "COMPLETED" /\ paid[k] = "moved"
                  \/ pay'[r].answer \in {"IN_FLIGHT", "FAILED"}
            \/ /\ pay[r].pc = "waiting" /\ pay'[r].pc = "owning"
               /\ paid[k] \in {"none", "failed"} /\ paid'[k] = "inflight"
            \/ /\ pay[r].pc = "owning" /\ pay'[r].pc = "answered"
               /\ \/ paid'[k] = "moved" /\ pay'[r].answer \in {"COMPLETED", "UNCERTAIN"}
                  \/ paid'[k] = paid[k] /\ pay'[r].answer \in {"FAILED", "UNCERTAIN"}
                  \/ paid'[k] = "failed" /\ pay'[r].answer = "FAILED"
<1>a. ASSUME NEW answer \in PayAnswer, AnswerPay(r, answer)
      PROVE  /\ pay' \in [Payers -> PayCall] /\ \A q \in Payers : q # r => pay'[q] = pay[q]
             /\ pay'[r].pc = "answered" /\ pay'[r].answer = answer /\ pay'[r].key = pay[r].key
  <2>1. pay' = [pay EXCEPT ![r] = [pay[r] EXCEPT !.pc = "answered", !.answer = answer]]
    BY <1>a DEF PayTypeOK, AnswerPay
  <2> DEFINE n == [pay[r] EXCEPT !.pc = "answered", !.answer = answer]
  <2>2. n \in PayCall /\ n.pc = "answered" /\ n.answer = answer /\ n.key = pay[r].key
    BY DEF PayTypeOK, PayCall
  <2> HIDE DEF n
  <2>3. pay' = [pay EXCEPT ![r] = n]
    BY <2>1 DEF n
  <2> QED BY <2>2, <2>3 DEF PayTypeOK
<1>b. paid \in [PayKeys -> PayStatus]
  BY DEF PayTypeOK
<1>3. CASE JoinPay(r)
  <2>1. /\ pay[r].pc = "waiting" /\ paid' = paid
        /\ \/ AnswerPay(r, "COMPLETED") /\ paid[pay[r].key] = "moved"
           \/ AnswerPay(r, "IN_FLIGHT")
           \/ AnswerPay(r, "FAILED")
    BY <1>3 DEF JoinPay
  <2>2. {"COMPLETED", "IN_FLIGHT", "FAILED"} \subseteq PayAnswer
    BY DEF PayAnswer
  <2> QED BY <1>a, <1>b, <2>1, <2>2 DEF PayTypeOK
<1>4. CASE OwnPay(r)
  <2>1. /\ pay[r].pc = "waiting" /\ paid[pay[r].key] \in {"none", "failed"}
        /\ paid' = [paid EXCEPT ![pay[r].key] = "inflight"]
        /\ pay' = [pay EXCEPT ![r].pc = "owning"]
    BY <1>4 DEF OwnPay
  <2>2. pay' \in [Payers -> PayCall] /\ pay'[r].pc = "owning" /\ pay'[r].key = pay[r].key
        /\ \A q \in Payers : q # r => pay'[q] = pay[q]
    BY <2>1 DEF PayTypeOK, PayCall
  <2>3. paid' \in [PayKeys -> PayStatus]
    BY <1>b, <2>1 DEF PayStatus
  <2> QED BY <1>b, <2>1, <2>2, <2>3 DEF PayTypeOK
<1>5. CASE EndPay(r)
  <2>1. /\ {"COMPLETED", "UNCERTAIN", "FAILED"} \subseteq PayAnswer
        /\ {"moved", "failed"} \subseteq PayStatus
    BY DEF PayAnswer, PayStatus
  <2>2. pay[r].pc = "owning"
    BY <1>5 DEF EndPay
  <2>3. CASE /\ paid' = [paid EXCEPT ![pay[r].key] = "moved"]
             /\ \E answer \in {"COMPLETED", "UNCERTAIN"} : AnswerPay(r, answer)
    BY <1>a, <1>b, <2>1, <2>2, <2>3 DEF PayTypeOK
  <2>4. CASE /\ \E answer \in {"FAILED", "UNCERTAIN"} : AnswerPay(r, answer)
             /\ UNCHANGED paid
    BY <1>a, <1>b, <2>1, <2>2, <2>4 DEF PayTypeOK
  <2>5. CASE /\ paid' = [paid EXCEPT ![pay[r].key] = "failed"]
             /\ AnswerPay(r, "FAILED")
    BY <1>a, <1>b, <2>1, <2>2, <2>5 DEF PayTypeOK
  <2> QED BY <1>5, <2>3, <2>4, <2>5 DEF EndPay
<1> QED BY <1>3, <1>4, <1>5 DEF StepPay

(* A call begins: a transfer that is done answers at once.                  *)
LEMMA BeginPayIs ==
  ASSUME PayTypeOK, NEW r \in Payers, NEW k \in PayKeys, BeginPay(r, k)
  PROVE  /\ PayTypeOK' /\ paid' = paid
         /\ \A q \in Payers : q # r => pay'[q] = pay[q]
         /\ pay'[r].key = k
         /\ \/ pay'[r].pc = "answered" /\ pay'[r].answer = "COMPLETED" /\ paid[k] = "moved"
            \/ pay'[r].pc = "waiting" /\ paid[k] # "moved"
<1>1. CASE paid[k] = "moved"
  BY <1>1 DEF BeginPay, PayTypeOK, PayCall, PayAnswer
<1>2. CASE paid[k] # "moved"
  BY <1>2 DEF BeginPay, PayTypeOK, PayCall, PayAnswer
<1> QED BY <1>1, <1>2

(* A crash in a call leaves the money where it is.                          *)
LEMMA DropPayIs ==
  ASSUME PayTypeOK, NEW r \in Payers, IF Calling(r) THEN DropPay(r) ELSE UNCHANGED payVars
  PROVE  /\ PayTypeOK' /\ paid' = paid
         /\ \A q \in Payers : q # r => pay'[q] = pay[q]
         /\ ~Calling(r)'
         /\ pay'[r].pc = "answered" => pay'[r] = pay[r]
<1>1. CASE Calling(r)
  <2>1. DropPay(r)
    BY <1>1
  <2> DEFINE n == [pay[r] EXCEPT !.pc = "dead", !.answer = "none"]
  <2>2. pay' = [pay EXCEPT ![r] = n] /\ paid' = paid
    BY <2>1 DEF DropPay, PayTypeOK
  <2>3. n \in PayCall /\ n.pc = "dead"
    BY DEF PayTypeOK, PayCall, PayAnswer
  <2> HIDE DEF n
  <2> QED BY <2>2, <2>3 DEF PayTypeOK, Calling
<1>2. CASE ~Calling(r)
  BY <1>2 DEF payVars, PayTypeOK, Calling
<1> QED BY <1>1, <1>2

-----------------------------------------------------------------------------
(* What does not concern the runners leaves what is true of them.           *)
LEMMA RunnersKept ==
  ASSUME DisbursementInv, UNCHANGED <<batch, runner, doubt, payVars>>,
         scene'.servers = scene.servers
  PROVE  ItemsInv' /\ CountInv' /\ PayInv' /\ ListInv' /\ TallyInv' /\ MoneyInv' /\ StepInv'
<1> USE DEF DisbursementInv
<1>0. paid' = paid /\ pay' = pay
  BY DEF payVars
<1>1. ItemsInv'
  BY DEF ItemsInv, ItemsAt, DecidedIn, Reading, ItemUsers, IsFinal
<1>2. CountInv'
  BY DEF CountInv, CountIn, ItemUsers
<1>3. PayInv'
  BY <1>0 DEF PayInv, PayAt, Calling
<1>4. ListInv'
  BY DEF ListInv, ListAt, Alone, Reading, IsFinal, Counts
<1>5. TallyInv'
  BY DEF TallyInv, TallyIn, Alone, IsFinal, Counts
<1>6. MoneyInv'
  BY <1>0 DEF MoneyInv, MoneyAt, Alone, Moved, ItemUsers, IsFinal, Reading
<1>7. StepInv'
  BY <1>0 DEF StepInv, StepAt, Alone, Moved
<1> QED BY <1>1, <1>2, <1>3, <1>4, <1>5, <1>6, <1>7

(* What leaves the batches and the page alone leaves what the page shows.   *)
LEMMA PageKept ==
  ASSUME DisbursementInv, UNCHANGED <<batch, page>>, scene'.servers = scene.servers
  PROVE  RowInv' /\ ShownInv'
<1> USE DEF DisbursementInv
<1>1. RowInv'
  BY DEF RowInv, RowIn, Alone, IsFinal
<1>2. ShownInv'
  BY DEF ShownInv, Alone
<1> QED BY <1>1, <1>2

(* The owner's edits and the users' own accounts.                           *)
LEMMA OwnerKeeps ==
  ASSUME DisbursementInv, OwnerNext
  PROVE  DisbursementInv'
<1> USE DEF DisbursementInv
<1>1. /\ Edit
      /\ program' \in {"ACTIVE", "CLOSED"} /\ accounts' \subseteq People
      /\ enrolled' \in [People -> {"NONE", "ACTIVE", "SUSPENDED", "REMOVED"}]
  <2>1. ASSUME NEW u \in People, Enroll(u) \/ RemoveBeneficiary(u)
                 \/ \E status \in {"ACTIVE", "SUSPENDED"} : UpdateBeneficiary(u, status)
        PROVE  /\ Edit /\ program' = program /\ accounts' = accounts
               /\ \E status \in {"ACTIVE", "SUSPENDED", "REMOVED"} :
                    enrolled' = [enrolled EXCEPT ![u] = status]
    BY <2>1 DEF Enroll, RemoveBeneficiary, UpdateBeneficiary, SetStatus
  <2>2. ASSUME NEW u \in People, VerifyAccount(u)
        PROVE  Edit /\ program' = program /\ accounts' = accounts \cup {u} /\ enrolled' = enrolled
    BY <2>2 DEF VerifyAccount
  <2>3. ASSUME CloseProgram
        PROVE  Edit /\ program' = "CLOSED" /\ accounts' = accounts /\ enrolled' = enrolled
    BY <2>3 DEF CloseProgram
  <2>4. /\ program \in {"ACTIVE", "CLOSED"} /\ accounts \subseteq People
        /\ enrolled \in [People -> {"NONE", "ACTIVE", "SUSPENDED", "REMOVED"}]
    BY DEF Types
  <2>5. CASE CloseProgram
    BY <2>3, <2>4, <2>5
  <2>6. ASSUME NEW u \in People, VerifyAccount(u)
        PROVE  /\ Edit
               /\ program' \in {"ACTIVE", "CLOSED"} /\ accounts' \subseteq People
               /\ enrolled' \in [People -> {"NONE", "ACTIVE", "SUSPENDED", "REMOVED"}]
    BY <2>2, <2>4, <2>6
  <2>7. ASSUME NEW u \in People, Enroll(u) \/ RemoveBeneficiary(u)
                 \/ \E status \in {"ACTIVE", "SUSPENDED"} : UpdateBeneficiary(u, status)
        PROVE  /\ Edit
               /\ program' \in {"ACTIVE", "CLOSED"} /\ accounts' \subseteq People
               /\ enrolled' \in [People -> {"NONE", "ACTIVE", "SUSPENDED", "REMOVED"}]
    BY <2>1, <2>4, <2>7
  <2> QED BY <2>5, <2>6, <2>7 DEF OwnerNext
<1>2. /\ UNCHANGED <<page, request, batch, runner, doubt, payVars>>
      /\ scene' \in Scene /\ scene'.servers = scene.servers
  BY <1>1 DEF Edit, Types, Scene
<1>3. Types'
  BY <1>1, <1>2 DEF Types, PayTypeOK, payVars
<1>4. CreatedInv'
  BY <1>2 DEF CreatedInv
<1> QED BY <1>2, <1>3, <1>4, RunnersKept, PageKept

(* Requests, up to the batch.                                               *)
LEMMA RequestKeeps ==
  ASSUME DisbursementInv, NEW b \in Batches,
         Disburse(b) \/ BulkDisburse(b) \/ GiveUp(b) \/ \E u \in People : EnrollNext(b, u)
  PROVE  DisbursementInv'
<1> USE DEF DisbursementInv
<1>1. /\ UNCHANGED <<page, batch, runner, scene, doubt, payVars>>
      /\ program' = program /\ accounts' = accounts
      /\ enrolled' \in [People -> {"NONE", "ACTIVE", "SUSPENDED", "REMOVED"}]
      /\ \E q \in Request : /\ request' = [request EXCEPT ![b] = q]
                            /\ q.pc = "create" => batch[b].status = "NONE"
  <2>0. /\ request[b] \in Request /\ Members \subseteq People
        /\ enrolled \in [People -> {"NONE", "ACTIVE", "SUSPENDED", "REMOVED"}]
        /\ request[b].pc = "create" => batch[b].status = "NONE"
    BY DEF Types, Members, CreatedInv
  <2>1. ASSUME NEW targets \in SUBSET People, NEW toEnroll \in SUBSET People, NEW extra \in Nat,
               Ask(b, targets, toEnroll, extra)
        PROVE  /\ UNCHANGED <<page, batch, runner, scene, doubt, payVars, roster>>
               /\ \E q \in Request : /\ request' = [request EXCEPT ![b] = q]
                                     /\ q.pc = "create" => batch[b].status = "NONE"
    <3> DEFINE q == [pc |-> "create", targets |-> targets, toEnroll |-> toEnroll, extra |-> extra]
    <3>1. q \in Request
      BY DEF Request
    <3> QED BY <2>1, <3>1 DEF Ask
  <2>2. CASE Disburse(b) \/ BulkDisburse(b)
    <3>1. \E targets, toEnroll \in SUBSET People, extra \in 0..1 : Ask(b, targets, toEnroll, extra)
      <4>1. CASE Disburse(b)
        <5>1. CASE Ask(b, Members, {}, 0)
          BY <2>0, <5>1
        <5>2. ASSUME NEW listed \in SUBSET Members, NEW extra \in 0..1, Ask(b, listed, {}, extra)
              PROVE  \E targets, toEnroll \in SUBSET People, n \in 0..1 :
                       Ask(b, targets, toEnroll, n)
          BY <2>0, <5>2
        <5> QED BY <4>1, <5>1, <5>2 DEF Disburse
      <4>2. CASE BulkDisburse(b)
        <5>1. PICK rows \in SUBSET People, autoEnroll \in BOOLEAN :
                Ask(b, rows \cap Members, IF autoEnroll THEN rows \ Members ELSE {}, 0)
          BY <4>2 DEF BulkDisburse
        <5>2. PICK new \in SUBSET People : new = IF autoEnroll THEN rows \ Members ELSE {}
          OBVIOUS
        <5>3. Ask(b, rows \cap Members, new, 0) /\ rows \cap Members \in SUBSET People /\ 0 \in 0..1
          BY <2>0, <5>1, <5>2
        <5> QED BY <5>3
      <4> QED BY <2>2, <4>1, <4>2
    <3>2. PICK targets \in SUBSET People, toEnroll \in SUBSET People, extra \in 0..1 :
            Ask(b, targets, toEnroll, extra)
      BY <3>1
    <3>3. /\ UNCHANGED <<page, batch, runner, scene, doubt, payVars, roster>>
          /\ \E q \in Request : /\ request' = [request EXCEPT ![b] = q]
                                /\ q.pc = "create" => batch[b].status = "NONE"
      <4>1. extra \in Nat
        OBVIOUS
      <4> QED BY <2>1, <3>2, <4>1
    <3> QED BY <2>0, <3>3 DEF roster
  <2>3. CASE GiveUp(b)
    <3>1. NoRequest \in Request /\ NoRequest.pc = "idle"
      BY DEF NoRequest, Request
    <3> QED BY <2>0, <2>3, <3>1 DEF GiveUp, roster
  <2>4. ASSUME NEW u \in People, EnrollNext(b, u)
        PROVE  /\ UNCHANGED <<page, batch, runner, scene, doubt, payVars>>
               /\ program' = program /\ accounts' = accounts
               /\ enrolled' \in [People -> {"NONE", "ACTIVE", "SUSPENDED", "REMOVED"}]
               /\ \E q \in Request : /\ request' = [request EXCEPT ![b] = q]
                                     /\ q.pc = "create" => batch[b].status = "NONE"
    <3> DEFINE one == [request[b] EXCEPT !.toEnroll = @ \ {u}, !.targets = @ \cup {u}]
               two == [request[b] EXCEPT !.toEnroll = @ \ {u}]
    <3>1. one \in Request /\ one.pc = request[b].pc /\ two \in Request /\ two.pc = request[b].pc
      BY <2>0 DEF Request
    <3>2. request \in [Batches -> Request]
      BY DEF Types
    <3>3. CASE /\ SetStatus(u, "ACTIVE")
               /\ request' = [request EXCEPT ![b].toEnroll = @ \ {u}, ![b].targets = @ \cup {u}]
      <4>1. request' = [request EXCEPT ![b] = one]
        BY <3>2, <3>3
      <4> HIDE DEF one, two
      <4> QED BY <2>0, <2>4, <3>1, <3>3, <4>1 DEF EnrollNext, SetStatus
    <3>4. CASE /\ request' = [request EXCEPT ![b].toEnroll = @ \ {u}]
               /\ UNCHANGED roster
      <4>1. request' = [request EXCEPT ![b] = two]
        BY <3>4
      <4> HIDE DEF one, two
      <4> QED BY <2>0, <2>4, <3>1, <3>4, <4>1 DEF EnrollNext, roster
    <3> QED BY <2>4, <3>3, <3>4 DEF EnrollNext
  <2> QED BY <2>2, <2>3, <2>4
<1>2. /\ request' \in [Batches -> Request]
      /\ \A a \in Batches : request'[a].pc = "create" => batch[a].status = "NONE"
  BY <1>1 DEF Types, CreatedInv
<1>3. Types'
  BY <1>1, <1>2 DEF Types, PayTypeOK, payVars
<1>4. CreatedInv'
  BY <1>1, <1>2 DEF CreatedInv
<1> QED BY <1>1, <1>3, <1>4, RunnersKept, PageKept

(* The batch is created: nobody has been paid for it by this run, and the   *)
(* first runner is about to read it.                                        *)
LEMMA CreateKeeps ==
  ASSUME DisbursementInv, NEW b \in Batches, NEW s \in Servers, CreateDisbursement(s, b)
  PROVE  DisbursementInv'
<1> USE DEF DisbursementInv
<1> DEFINE r == <<s, b>>
           new == NewBatch(request[b])
           start == [Idle EXCEPT !.pc = "status"]
<1>0. /\ UNCHANGED <<roster, page, scene, crashes, doubt, payVars>> /\ s \in scene.servers
      /\ batch' = [batch EXCEPT ![b] = new] /\ runner' = [runner EXCEPT ![r] = start]
      /\ request' = [request EXCEPT ![b] = NoRequest] /\ request[b].pc = "create"
  BY DEF CreateDisbursement
<1>a. r \in Payers /\ request[b] \in Request
  BY DisbursementAssumption DEF Types
<1>1. /\ new \in Batch /\ new.status = "PROCESSING" /\ new.counts = NoCounts
      /\ Cardinality(UsersOf(new.items)) <= new.total
      /\ \A u \in People : new.items[u] \in {"PENDING", "NONE"}
  <2>1. new.items = [u \in People |-> IF u \in request[b].targets THEN "PENDING" ELSE "NONE"]
        /\ new.total = Cardinality(request[b].targets) + request[b].extra
        /\ new.counts = NoCounts /\ new.status = "PROCESSING"
    BY DEF NewBatch
  <2>2. UsersOf(new.items) = request[b].targets
    BY <1>a, <2>1 DEF UsersOf, Request
  <2>3. Cardinality(request[b].targets) \in Nat /\ request[b].extra \in Nat
    BY <1>a, <2>2, NumbersAre DEF Request
  <2>4. new.total \in Nat /\ Cardinality(UsersOf(new.items)) <= new.total
    BY <2>1, <2>2, <2>3
  <2>5. new.items \in [People -> Settled \cup {"NONE", "PENDING"}]
    BY <2>1
  <2>6. new = [status |-> new.status, total |-> new.total, counts |-> new.counts,
               items |-> new.items]
    BY DEF NewBatch
  <2> HIDE DEF new
  <2>7. new \in Batch
    BY <2>1, <2>4, <2>5, <2>6 DEF Batch, NoCounts
  <2> QED BY <2>1, <2>4, <2>5, <2>7
<1>2. start \in Runner /\ start.pc = "status"
  BY DEF Idle, Runner
<1> HIDE DEF new, start
<1>3. /\ batch' \in [Batches -> Batch] /\ batch'[b] = new
      /\ \A a \in Batches : a # b => batch'[a] = batch[a]
  BY <1>0, <1>1 DEF Types
<1>4. /\ runner' \in [Payers -> Runner] /\ runner'[r] = start
      /\ \A q \in Payers : q # r => runner'[q] = runner[q]
  BY <1>0, <1>2, <1>a DEF Types
<1>5. request' \in [Batches -> Request] /\ request'[b].pc = "idle"
      /\ \A a \in Batches : a # b => request'[a] = request[a]
  BY <1>0 DEF Types, Request, NoRequest
<1>6. batch[b].status = "NONE" /\ page[b].pc = "closed"
      /\ \A t \in Servers : runner[<<t, b>>].pc = "idle"
  BY <1>0 DEF CreatedInv
<1>7. \A t \in Servers, a \in Batches : /\ <<t, a>> \in Payers
                                        /\ <<t, a>> = r => a = b
  BY DisbursementAssumption
<1>8. \A t \in Servers : ~Reading(<<t, b>>)' /\ runner'[<<t, b>>].pc \in {"idle", "status"}
  BY <1>2, <1>4, <1>6, <1>7 DEF Reading
<1>9. \A a \in Batches : a # b => \A t \in Servers : runner'[<<t, a>>] = runner[<<t, a>>]
  BY <1>4, <1>7
<1>p. paid' = paid /\ pay' = pay
  BY <1>0 DEF payVars
<1>q. scene.servers \subseteq Servers /\ scene' = scene /\ doubt' = doubt
  BY <1>0 DEF Types, Scene
<1>10. Types'
  BY <1>0, <1>3, <1>4, <1>5 DEF Types, PayTypeOK, payVars, roster
<1>11. CreatedInv'
  BY <1>0, <1>1, <1>2, <1>3, <1>4, <1>5, <1>7, <1>9 DEF CreatedInv
<1>12. ItemsInv'
  BY <1>1, <1>3, <1>8, <1>9 DEF ItemsInv, ItemsAt, DecidedIn, Reading, ItemUsers, IsFinal, Final
<1>13. CountInv'
  <2>1. \A a \in Batches : a # b => ItemUsers(a)' = ItemUsers(a)
    BY <1>3 DEF ItemUsers
  <2>2. /\ ItemUsers(b)' = UsersOf(new.items) /\ Cardinality(UsersOf(new.items)) \in Nat
    BY <1>3, NumbersAre DEF ItemUsers, UsersOf
  <2> QED BY <1>1, <1>3, <2>1, <2>2 DEF CountInv, CountIn, NoCounts
<1>14. PayInv'
  BY <1>2, <1>4, <1>6, <1>p DEF PayInv, PayAt, Calling
<1>r. /\ Alone' <=> Alone
      /\ \A a \in Batches, t \in Servers : a # b => (Reading(<<t, a>>)' <=> Reading(<<t, a>>))
      /\ \A a \in Batches : a # b => (IsFinal(a)' <=> IsFinal(a)) /\ Counts(a)' = Counts(a)
      /\ ~IsFinal(b)'
  BY <1>1, <1>3, <1>9, <1>q DEF Alone, Reading, IsFinal, Counts, Final
<1>15. ListInv'
  <2>1. \A t \in scene.servers : <<t, b>> \in Payers /\ runner'[<<t, b>>].pc # "finalize"
    BY <1>7, <1>8, <1>q
  <2> QED BY <1>3, <1>8, <1>9, <1>q, <1>r, <2>1 DEF ListInv, ListAt
<1>16. TallyInv'
  <2>1. \A status : NumberOf(new.items, status) \in Nat
    BY NumbersAre
  <2> QED BY <1>0, <1>1, <1>3, <2>1 DEF TallyInv, TallyIn, Alone, IsFinal, Counts, Final, NoCounts
<1>17. MoneyInv'
  <2>1. \A u \in People : batch'[b].items[u] \in {"PENDING", "NONE"}
    BY <1>1, <1>3
  <2>2. ASSUME NEW a \in Batches, a # b, NEW t \in scene.servers, NEW u \in People,
               MoneyAt(t, a, u)
        PROVE  MoneyAt(t, a, u)'
    <3>1. /\ batch'[a] = batch[a] /\ Moved(a, u)' = Moved(a, u) /\ ItemUsers(a)' = ItemUsers(a)
          /\ runner'[<<t, a>>] = runner[<<t, a>>] /\ (IsFinal(a)' <=> IsFinal(a))
          /\ (Reading(<<t, a>>)' <=> Reading(<<t, a>>))
      BY <1>3, <1>9, <1>p, <1>q, <1>r, <2>2 DEF ItemUsers, Moved
    <3> QED BY <1>q, <2>2, <3>1 DEF MoneyAt
  <2>3. ASSUME NEW t \in scene.servers, NEW u \in People
        PROVE  MoneyAt(t, b, u)'
    BY <1>8, <1>q, <1>r, <2>1 DEF MoneyAt
  <2> QED BY <1>q, <1>r, <2>2, <2>3 DEF MoneyInv
<1>18. StepInv'
  <2>2. ASSUME NEW a \in Batches, a # b, NEW t \in scene.servers, StepAt(t, a)
        PROVE  StepAt(t, a)'
    BY <1>9, <1>p, <1>q, <2>2 DEF StepAt, Moved
  <2>3. ASSUME NEW t \in scene.servers
        PROVE  StepAt(t, b)'
    BY <1>8, <1>q DEF StepAt
  <2> QED BY <1>q, <1>r, <2>2, <2>3 DEF StepInv
<1>19. RowInv'
  BY <1>0, <1>3, <1>6 DEF RowInv, RowIn, Alone, IsFinal
<1>20. ShownInv'
  BY <1>0 DEF ShownInv, Alone
<1> QED BY <1>10, <1>11, <1>12, <1>13, <1>14, <1>15, <1>16, <1>17, <1>18, <1>19, <1>20

(* The owner's page.                                                        *)
LEMMA OpenOrPollKeeps ==
  ASSUME DisbursementInv, NEW b \in Batches, OpenBatch(b) \/ Poll(b)
  PROVE  DisbursementInv'
<1> USE DEF DisbursementInv
<1>1. /\ UNCHANGED <<roster, request, batch, runner, scene, crashes, doubt, payVars>>
      /\ batch[b].status # "NONE"
      /\ \E pc \in {"first", "closed"} : page' = [page EXCEPT ![b].pc = pc]
  BY DEF OpenBatch, Poll, CreatedInv
<1>2. /\ page' \in [Batches -> Screen] /\ page'[b].pc \in {"first", "closed"}
      /\ \A a \in Batches : a # b => page'[a] = page[a]
  <2>1. PICK pc \in {"first", "closed"} : page' = [page EXCEPT ![b].pc = pc]
    BY <1>1
  <2>2. page \in [Batches -> Screen] /\ page[b] \in Screen
    BY DEF Types
  <2> DEFINE new == [page[b] EXCEPT !.pc = pc]
  <2>3. new \in Screen /\ new.pc = pc /\ page' = [page EXCEPT ![b] = new]
    BY <2>1, <2>2 DEF Screen
  <2> HIDE DEF new
  <2> QED BY <2>2, <2>3
<1>3. Types' /\ CreatedInv'
  BY <1>1, <1>2 DEF Types, PayTypeOK, payVars, roster, CreatedInv
<1>4. RowInv'
  BY <1>1, <1>2 DEF RowInv, RowIn, Alone, IsFinal
<1>5. ShownInv'
  BY <1>1, <1>2 DEF ShownInv, Alone
<1> QED BY <1>1, <1>3, <1>4, <1>5, RunnersKept

(* It reads the row first, and the items, which may have gone on.           *)
LEMMA ReadBatchKeeps ==
  ASSUME DisbursementInv, NEW b \in Batches, ReadBatch(b)
  PROVE  DisbursementInv'
<1> USE DEF DisbursementInv
<1>0. /\ UNCHANGED <<roster, request, batch, runner, scene, crashes, doubt, payVars>>
      /\ page[b] \in Screen /\ batch[b] \in Batch /\ page \in [Batches -> Screen]
  BY DEF ReadBatch, Types
<1>1. CASE page[b].pc = "first"
  <2> DEFINE new == [page[b] EXCEPT !.row = RowOf(b), !.pc = "second"]
  <2>1. page' = [page EXCEPT ![b] = new]
    <3>1. page' = [page EXCEPT ![b]["row"] = RowOf(b), ![b].pc = "second"]
      BY <1>1 DEF ReadBatch, ReadAt
    <3> QED BY <1>0, <3>1
  <2>2. /\ RowOf(b) \in [status : Final \cup {"NONE", "PROCESSING"},
                         counts : [paid : Nat, failed : Nat, skipped : Nat]]
        /\ RowOf(b).status = batch[b].status /\ RowOf(b).counts = batch[b].counts
    BY <1>0 DEF RowOf, Batch
  <2>3. new \in Screen /\ new.row = RowOf(b) /\ new.pc = "second"
    BY <1>0, <2>2 DEF Screen
  <2> HIDE DEF new
  <2>4. /\ page' \in [Batches -> Screen] /\ page'[b] = new
        /\ \A a \in Batches : a # b => page'[a] = page[a]
    BY <1>0, <2>1, <2>3
  <2>5. batch[b].status # "NONE"
    BY <1>1 DEF CreatedInv
  <2>6. Types' /\ CreatedInv'
    BY <1>0, <2>4, <2>5 DEF Types, PayTypeOK, payVars, roster, CreatedInv
  <2>7. RowInv'
    <3>1. Alone => /\ batch[b].counts.paid <= NumberOf(batch[b].items, "PAID")
                   /\ batch[b].counts.skipped <= NumberOf(batch[b].items, "SKIPPED")
      BY DEF TallyInv, TallyIn
    <3>2. batch[b].status # "PROCESSING" => IsFinal(b)
      BY <1>0, <2>5 DEF Batch, IsFinal
    <3> QED BY <1>0, <2>2, <2>3, <2>4, <3>1, <3>2 DEF RowInv, RowIn, Alone, IsFinal
  <2>8. ShownInv'
    BY <1>0, <2>3, <2>4 DEF ShownInv, Alone
  <2> QED BY <1>0, <2>6, <2>7, <2>8, RunnersKept
<1>2. CASE page[b].pc = "second"
  <2> DEFINE new == [page[b] EXCEPT !.items = batch[b].items, !.pc = "shown"]
  <2>1. page' = [page EXCEPT ![b] = new]
    <3>1. page' = [page EXCEPT ![b]["items"] = batch[b].items, ![b].pc = "shown"]
      BY <1>2 DEF ReadBatch, ReadAt
    <3> QED BY <1>0, <3>1
  <2>2. batch[b].items \in [People -> Settled \cup {"NONE", "PENDING"}]
    BY <1>0 DEF Batch
  <2>3. new \in Screen /\ new.row = page[b].row /\ new.pc = "shown" /\ new.items = batch[b].items
    BY <1>0, <2>2 DEF Screen
  <2> HIDE DEF new
  <2>4. /\ page' \in [Batches -> Screen] /\ page'[b] = new
        /\ \A a \in Batches : a # b => page'[a] = page[a]
    BY <1>0, <2>1, <2>3
  <2>5. batch[b].status # "NONE"
    BY <1>2 DEF CreatedInv
  <2>6. Types' /\ CreatedInv'
    BY <1>0, <2>4, <2>5 DEF Types, PayTypeOK, payVars, roster, CreatedInv
  <2>7. RowInv'
    BY <1>0, <2>3, <2>4 DEF RowInv, RowIn, Alone, IsFinal
  <2>8. ShownInv'
    <3>1. Alone' <=> Alone
      BY <1>0 DEF Alone
    <3>2. Alone /\ IsFinal(b) => batch[b].counts = CountsOf(batch[b].items)
      BY CountsAre DEF TallyInv, TallyIn
    <3>3. Alone =>
            /\ page[b].row.counts.paid <= NumberOf(batch[b].items, "PAID")
            /\ page[b].row.counts.skipped <= NumberOf(batch[b].items, "SKIPPED")
            /\ page[b].row.status # "PROCESSING" => page[b].row.counts = CountsOf(batch[b].items)
      BY <1>2, <3>2 DEF RowInv, RowIn
    <3> QED BY <2>3, <2>4, <3>1, <3>3 DEF ShownInv
  <2> QED BY <1>0, <2>6, <2>7, <2>8, RunnersKept
<1> QED BY <1>1, <1>2 DEF ReadBatch

-----------------------------------------------------------------------------
(* A step of one runner.                                                    *)

(* What is true of the other batches stays so, and of this one all but what *)
(* the step itself may change.                                              *)
LEMMA StepKeeps ==
  ASSUME DisbursementInv, NEW s \in Servers, NEW b \in Batches,
         UNCHANGED <<roster, page, request, scene>>, s \in scene.servers,
         Types', batch[b].status # "NONE", batch'[b].status # "NONE",
         \A a \in Batches : a # b => batch'[a] = batch[a],
         \A q \in Payers : q # <<s, b>> => runner'[q] = runner[q] /\ pay'[q] = pay[q],
         \A a \in Batches, u \in People : a # b =>
           paid'[<<a, u>>] = paid[<<a, u>>] /\ (<<a, u>> \in doubt' <=> <<a, u>> \in doubt),
         ItemUsers(b)' = ItemUsers(b),
         \A u \in People : batch'[b].items[u] = "PENDING" => batch[b].items[u] = "PENDING",
         Alone => \A u \in People, status \in {"PAID", "SKIPPED"} :
           batch[b].items[u] = status => batch'[b].items[u] = status,
         (Alone /\ IsFinal(b)) => batch'[b] = batch[b],
         ItemsAt(s, b)', DecidedIn(b)', CountIn(b)', PayAt(<<s, b>>)',
         Alone => /\ ListAt(s, b)' /\ TallyIn(b)' /\ StepAt(s, b)'
                  /\ \A u \in People : MoneyAt(s, b, u)'
  PROVE  DisbursementInv'
<1> USE DEF DisbursementInv
<1>1. /\ Alone' <=> Alone
      /\ scene' = scene /\ page' = page /\ request' = request /\ scene.servers \subseteq Servers
  BY DEF Alone, Types, Scene
<1>2. \A t \in Servers, a \in Batches :
        /\ <<t, a>> \in Payers
        /\ (t # s \/ a # b) => /\ runner'[<<t, a>>] = runner[<<t, a>>]
                              /\ pay'[<<t, a>>] = pay[<<t, a>>]
                              /\ (Reading(<<t, a>>)' <=> Reading(<<t, a>>))
  BY DisbursementAssumption DEF Reading
<1>3. \A a \in Batches : a # b =>
        /\ batch'[a] = batch[a] /\ ItemUsers(a)' = ItemUsers(a) /\ Counts(a)' = Counts(a)
        /\ (IsFinal(a)' <=> IsFinal(a))
  <2> SUFFICES ASSUME NEW a \in Batches, a # b
               PROVE  /\ batch'[a] = batch[a] /\ ItemUsers(a)' = ItemUsers(a)
                      /\ Counts(a)' = Counts(a) /\ (IsFinal(a)' <=> IsFinal(a))
    OBVIOUS
  <2>1. batch'[a] = batch[a]
    OBVIOUS
  <2> QED BY <2>1 DEF ItemUsers, Counts, IsFinal
<1>4. Alone => \A t \in scene.servers : t = s
  BY OneServer
<1>5. CreatedInv'
  BY <1>1, <1>2, <1>3 DEF CreatedInv
<1>6. ItemsInv'
  <2>1. ASSUME NEW a \in Batches, NEW t \in Servers, t # s \/ a # b
        PROVE  ItemsAt(t, a)'
    <3>1. ItemsAt(t, a)
      BY DEF ItemsInv
    <3>2. /\ ItemUsers(a)' = ItemUsers(a)
          /\ \A u \in People : batch'[a].items[u] = "PENDING" => batch[a].items[u] = "PENDING"
      BY <1>3
    <3> QED BY <1>2, <2>1, <3>1, <3>2 DEF ItemsAt
  <2>2. ASSUME NEW a \in Batches, a # b
        PROVE  DecidedIn(a)'
    BY <1>3, <2>2 DEF ItemsInv, DecidedIn
  <2> QED BY <2>1, <2>2 DEF ItemsInv
<1>7. CountInv'
  <2>1. \A a \in Batches : a # b => CountIn(a)'
    BY <1>3 DEF CountInv, CountIn
  <2> QED BY <2>1 DEF CountInv
<1>8. PayInv'
  <2>1. \A q \in Payers : q # <<s, b>> => PayAt(q)'
    BY DEF PayInv, PayAt, Calling
  <2> QED BY <2>1 DEF PayInv
<1>9. ListInv'
  <2>1. ASSUME Alone, NEW a \in Batches, a # b
        PROVE  ListAt(s, a)'
    <3>1. ListAt(s, a)
      BY <2>1 DEF ListInv
    <3> QED BY <1>2, <1>3, <2>1, <3>1 DEF ListAt
  <2> QED BY <1>1, <1>4, <2>1 DEF ListInv
<1>10. TallyInv'
  <2>1. ASSUME Alone, NEW a \in Batches, a # b
        PROVE  TallyIn(a)'
    BY <1>3, <2>1 DEF TallyInv, TallyIn
  <2> QED BY <1>1, <2>1 DEF TallyInv
<1>11. MoneyInv'
  <2>1. ASSUME Alone, NEW a \in Batches, a # b, NEW u \in People
        PROVE  MoneyAt(s, a, u)'
    <3>1. MoneyAt(s, a, u)
      BY <2>1 DEF MoneyInv
    <3>2. (Moved(a, u)' <=> Moved(a, u)) /\ (<<a, u>> \in doubt' <=> <<a, u>> \in doubt)
      BY <2>1 DEF Moved
    <3> QED BY <1>2, <1>3, <2>1, <3>1, <3>2 DEF MoneyAt
  <2> QED BY <1>1, <1>4, <2>1 DEF MoneyInv
<1>12. StepInv'
  <2>1. ASSUME Alone, NEW a \in Batches, a # b
        PROVE  StepAt(s, a)'
    <3>1. StepAt(s, a)
      BY <2>1 DEF StepInv
    <3>2. /\ runner'[<<s, a>>] = runner[<<s, a>>] /\ pay'[<<s, a>>] = pay[<<s, a>>]
          /\ \A u \in People : paid'[<<a, u>>] = paid[<<a, u>>]
      BY <1>2, <2>1
    <3>3. runner[<<s, a>>].pc \in {"already", "skip", "paying"} => runner[<<s, a>>].user \in People
      BY <1>2 DEF ItemsInv, ItemsAt, Reading, ItemUsers
    <3> QED BY <3>1, <3>2, <3>3 DEF StepAt, Moved
  <2> QED BY <1>1, <1>4, <2>1 DEF StepInv
<1>13. RowInv'
  <2>1. ASSUME Alone, NEW a \in Batches, a # b
        PROVE  RowIn(a)'
    BY <1>1, <1>3, <2>1 DEF RowInv, RowIn
  <2>2. ASSUME Alone
        PROVE  RowIn(b)'
    <3>1. RowIn(b)
      BY <2>2 DEF RowInv
    <3>2. \A status \in {"PAID", "SKIPPED"} :
            /\ NumberOf(batch[b].items, status) <= NumberOf(batch'[b].items, status)
            /\ NumberOf(batch[b].items, status) \in Nat /\ NumberOf(batch'[b].items, status) \in Nat
      BY <2>2, NumberGrows, NumbersAre
    <3>3. page[b].row.counts.paid \in Nat /\ page[b].row.counts.skipped \in Nat
      BY DEF Types, Screen
    <3>4. IsFinal(b) => batch'[b] = batch[b] /\ IsFinal(b)'
      BY <2>2 DEF IsFinal
    <3> QED BY <1>1, <3>1, <3>2, <3>3, <3>4 DEF RowIn
  <2> QED BY <1>1, <2>1, <2>2 DEF RowInv
<1>14. ShownInv'
  BY <1>1 DEF ShownInv
<1> QED BY <1>5, <1>6, <1>7, <1>8, <1>9, <1>10, <1>11, <1>12, <1>13, <1>14

(* A step that leaves the batch and the money alone.                        *)
LEMMA RunnerMoves ==
  ASSUME DisbursementInv, NEW s \in Servers, NEW b \in Batches, NEW n \in Runner,
         UNCHANGED <<roster, page, request, scene, batch, doubt, paid>>, s \in scene.servers,
         batch[b].status # "NONE", runner' = [runner EXCEPT ![<<s, b>>] = n], PayTypeOK',
         \A q \in Payers : q # <<s, b>> => pay'[q] = pay[q],
         ItemsAt(s, b)', PayAt(<<s, b>>)',
         Alone => ListAt(s, b)' /\ StepAt(s, b)',
         (Alone /\ Reading(<<s, b>>)') => \A u \in ItemUsers(b) : Moved(b, u) =>
           \/ batch[b].items[u] = "PAID"
           \/ <<b, u>> \in doubt
           \/ ~IsFinal(b) /\ u \in n.todo
  PROVE  DisbursementInv'
<1> USE DEF DisbursementInv
<1>1. /\ <<s, b>> \in Payers /\ runner'[<<s, b>>] = n /\ runner' \in [Payers -> Runner]
      /\ \A q \in Payers : q # <<s, b>> => runner'[q] = runner[q]
  BY DisbursementAssumption DEF Types
<1>2. /\ ItemUsers(b)' = ItemUsers(b) /\ Counts(b)' = Counts(b) /\ (IsFinal(b)' <=> IsFinal(b))
      /\ batch' = batch /\ doubt' = doubt /\ \A u \in People : (Moved(b, u)' <=> Moved(b, u))
  BY DEF ItemUsers, Counts, IsFinal, Moved
<1>3. Types'
  BY <1>1 DEF Types, roster
<1>4. DecidedIn(b)' /\ CountIn(b)'
  BY <1>2 DEF ItemsInv, DecidedIn, CountInv, CountIn
<1>5. Alone => TallyIn(b)'
  BY <1>2 DEF TallyInv, TallyIn
<1>6. ASSUME Alone, NEW u \in People
      PROVE  MoneyAt(s, b, u)'
  <2>1. MoneyAt(s, b, u)
    BY <1>6 DEF MoneyInv
  <2>2. CASE Reading(<<s, b>>)'
    BY <1>1, <1>2, <1>6, <2>1, <2>2 DEF MoneyAt
  <2>3. CASE ~Reading(<<s, b>>)'
    BY <1>1, <1>2, <1>6, <2>1, <2>3 DEF MoneyAt
  <2> QED BY <2>2, <2>3
<1> QED BY <1>1, <1>2, <1>3, <1>4, <1>5, <1>6, StepKeeps

(* What is true of a runner in the middle of its work.                      *)
LEMMA AtWork ==
  ASSUME DisbursementInv, NEW s \in Servers, NEW b \in Batches, runner[<<s, b>>].pc # "idle"
  PROVE  /\ <<s, b>> \in Payers /\ runner[<<s, b>>] \in Runner /\ batch[b] \in Batch
         /\ s \in scene.servers /\ batch[b].status # "NONE"
         /\ ItemsAt(s, b) /\ PayAt(<<s, b>>)
         /\ Alone => /\ ListAt(s, b) /\ StepAt(s, b) /\ TallyIn(b)
                     /\ \A u \in People : MoneyAt(s, b, u)
<1> USE DEF DisbursementInv
<1>1. <<s, b>> \in Payers
  BY DisbursementAssumption
<1>2. s \in scene.servers /\ batch[b].status # "NONE"
  BY DEF CreatedInv
<1> QED BY <1>1, <1>2
        DEF Types, ItemsInv, PayInv, ListInv, StepInv, MoneyInv, TallyInv

(* A runner starts, and finds the batch to be run or done.                  *)
LEMMA ResumeKeeps ==
  ASSUME DisbursementInv, NEW s \in Servers, NEW b \in Batches, Resume(s, b)
  PROVE  DisbursementInv'
<1> DEFINE n == [Idle EXCEPT !.pc = "status"]
<1>1. /\ UNCHANGED <<roster, page, request, scene, batch, doubt, payVars>> /\ s \in scene.servers
      /\ batch[b].status # "NONE" /\ runner[<<s, b>>].pc = "idle"
      /\ runner' = [runner EXCEPT ![<<s, b>>] = n]
  BY DEF Resume
<1>2. n \in Runner /\ n.pc = "status"
  BY DEF Idle, Runner
<1> HIDE DEF n
<1>3. <<s, b>> \in Payers /\ runner'[<<s, b>>] = n /\ pay' = pay /\ paid' = paid /\ PayTypeOK'
  BY <1>1, DisbursementAssumption DEF DisbursementInv, Types, payVars, PayTypeOK
<1>4. ItemsAt(s, b)' /\ ~Reading(<<s, b>>)'
  BY <1>2, <1>3 DEF ItemsAt, Reading
<1>5. PayAt(<<s, b>>)'
  BY <1>1, <1>2, <1>3 DEF PayAt, DisbursementInv, PayInv, Calling
<1>6. ListAt(s, b)' /\ StepAt(s, b)'
  BY <1>2, <1>3, <1>4 DEF ListAt, StepAt
<1> QED BY <1>1, <1>2, <1>3, <1>4, <1>5, <1>6, RunnerMoves

(* Only a batch that is PROCESSING is run.                                  *)
LEMMA ReadStatusKeeps ==
  ASSUME DisbursementInv, NEW s \in Servers, NEW b \in Batches, ReadStatus(s, b)
  PROVE  DisbursementInv'
<1> DEFINE pc == IF ToRun(b) THEN "items" ELSE "idle"
           n == [runner[<<s, b>>] EXCEPT !.pc = pc]
<1>1. /\ UNCHANGED <<roster, page, request, scene, batch, doubt, payVars>>
      /\ runner[<<s, b>>].pc = "status" /\ runner' = [runner EXCEPT ![<<s, b>>].pc = pc]
  BY DEF ReadStatus, RunnerAt
<1>2. /\ <<s, b>> \in Payers /\ runner[<<s, b>>] \in Runner /\ s \in scene.servers
      /\ batch[b].status # "NONE" /\ PayAt(<<s, b>>)
  BY <1>1, AtWork
<1>3. n \in Runner /\ n.pc = pc /\ runner' = [runner EXCEPT ![<<s, b>>] = n]
  BY <1>1, <1>2 DEF Runner
<1>p. pc \in {"items", "idle"} /\ (IsFinal(b) => pc = "idle")
  BY DEF ToRun, IsFinal, Final
<1> HIDE DEF n, pc
<1>4. runner'[<<s, b>>] = n /\ pay' = pay /\ paid' = paid /\ PayTypeOK' /\ batch' = batch
  BY <1>1, <1>2, <1>3 DEF DisbursementInv, Types, payVars, PayTypeOK
<1>5. ItemsAt(s, b)' /\ ~Reading(<<s, b>>)'
  BY <1>p, <1>3, <1>4 DEF ItemsAt, Reading
<1>6. PayAt(<<s, b>>)'
  BY <1>p, <1>1, <1>2, <1>3, <1>4 DEF PayAt, Calling
<1>7. ListAt(s, b)' /\ StepAt(s, b)'
  BY <1>p, <1>3, <1>4, <1>5 DEF ListAt, StepAt, IsFinal
<1> QED BY <1>1, <1>2, <1>3, <1>4, <1>5, <1>6, <1>7, RunnerMoves

(* Its list is every item that is not done.                                 *)
LEMMA ReadItemsKeeps ==
  ASSUME DisbursementInv, NEW s \in Servers, NEW b \in Batches, ReadItems(s, b)
  PROVE  DisbursementInv'
<1> DEFINE todo == {u \in People : batch[b].items[u] \in {"PENDING", "FAILED"}}
           eligible == {u \in accounts : enrolled[u] = "ACTIVE"}
           n == [runner[<<s, b>>] EXCEPT !.pc = "next", !.todo = todo, !.eligible = eligible]
<1>1. /\ UNCHANGED <<roster, page, request, scene, batch, doubt, payVars>>
      /\ runner[<<s, b>>].pc = "items"
      /\ runner' = [runner EXCEPT ![<<s, b>>].pc = "next", ![<<s, b>>].todo = todo,
                                  ![<<s, b>>].eligible = eligible]
  BY DEF ReadItems
<1>2. /\ <<s, b>> \in Payers /\ runner[<<s, b>>] \in Runner /\ s \in scene.servers
      /\ batch[b].status # "NONE" /\ PayAt(<<s, b>>) /\ batch[b] \in Batch
      /\ Alone => ListAt(s, b) /\ \A u \in People : MoneyAt(s, b, u)
  BY <1>1, AtWork
<1>3. runner' = [runner EXCEPT ![<<s, b>>] = n]
  BY <1>1, <1>2 DEF DisbursementInv, Types
<1>4. n \in Runner /\ n.pc = "next" /\ n.todo = todo
  BY <1>2 DEF Runner, DisbursementInv, Types
<1> HIDE DEF n
<1>5. runner'[<<s, b>>] = n /\ pay' = pay /\ paid' = paid /\ PayTypeOK' /\ batch' = batch
  BY <1>1, <1>2, <1>3 DEF DisbursementInv, Types, payVars, PayTypeOK
<1>6. ItemsAt(s, b)'
  BY <1>4, <1>5 DEF ItemsAt, ItemUsers
<1>7. PayAt(<<s, b>>)'
  BY <1>1, <1>2, <1>4, <1>5 DEF PayAt, Calling
<1>8. Alone => ListAt(s, b)' /\ StepAt(s, b)' /\ ~IsFinal(b)
  BY <1>1, <1>2, <1>4, <1>5 DEF ListAt, StepAt, IsFinal
<1>9. ASSUME Alone, NEW u \in ItemUsers(b), Moved(b, u)
      PROVE  \/ batch[b].items[u] = "PAID"
             \/ <<b, u>> \in doubt
             \/ ~IsFinal(b) /\ u \in n.todo
  <2>1. u \in People /\ batch[b].items[u] # "NONE" /\ batch[b].items[u] # "SKIPPED"
    BY <1>2, <1>9 DEF ItemUsers, MoneyAt
  <2>2. batch[b].items[u] \in {"PAID", "FAILED", "SKIPPED", "NONE", "PENDING"}
    BY <1>2, <2>1 DEF Batch, Settled
  <2> QED BY <1>4, <1>8, <1>9, <2>1, <2>2
<1> QED BY <1>1, <1>2, <1>3, <1>4, <1>5, <1>6, <1>7, <1>8, <1>9, RunnerMoves

(* The next item is begun as it is: paid, not to be paid, or to be paid.    *)
LEMMA NextItemKeeps ==
  ASSUME DisbursementInv, NEW s \in Servers, NEW b \in Batches, NEW u \in People,
         NextItem(s, b, u)
  PROVE  DisbursementInv'
<1> DEFINE r == <<s, b>>
<1>1. /\ UNCHANGED <<roster, page, request, scene, batch, doubt>>
      /\ runner[r].pc = "next" /\ u \in runner[r].todo
  BY DEF NextItem
<1>2. /\ r \in Payers /\ runner[r] \in Runner /\ s \in scene.servers
      /\ batch[b].status # "NONE" /\ PayAt(r) /\ ItemsAt(s, b)
      /\ Alone => ListAt(s, b) /\ \A v \in People : MoneyAt(s, b, v)
  BY <1>1, AtWork
<1>3. <<b, u>> \in PayKeys /\ PayTypeOK /\ runner \in [Payers -> Runner]
  BY DisbursementAssumption DEF DisbursementInv, Types
<1>4. ASSUME NEW pc \in {"already", "skip", "paying"},
             runner' = [runner EXCEPT ![r].pc = pc, ![r].user = u],
             PayTypeOK', paid' = paid, \A q \in Payers : q # r => pay'[q] = pay[q],
             pc # "paying" => pay' = pay,
             pc = "already" => Moved(b, u), pc = "skip" => ~Moved(b, u),
             pc = "paying" =>
               /\ pay'[r].key = <<b, u>>
               /\ \/ pay'[r].pc = "answered" /\ pay'[r].answer = "COMPLETED" /\ Moved(b, u)
                  \/ pay'[r].pc = "waiting" /\ ~Moved(b, u)
      PROVE  DisbursementInv'
  <2> DEFINE n == [runner[r] EXCEPT !.pc = pc, !.user = u]
  <2>1. runner' = [runner EXCEPT ![r] = n]
    BY <1>2, <1>3, <1>4
  <2>2. n \in Runner /\ n.pc = pc /\ n.user = u /\ n.todo = runner[r].todo
    BY <1>2, <1>4 DEF Runner
  <2> HIDE DEF n
  <2>3. runner'[r] = n /\ batch' = batch
    BY <1>1, <1>2, <1>3, <2>1
  <2>4. ItemsAt(s, b)'
    BY <1>1, <1>2, <1>4, <2>2, <2>3 DEF ItemsAt, ItemUsers, Reading
  <2>5. PayAt(r)'
    BY <1>1, <1>2, <1>4, <2>2, <2>3 DEF PayAt, Calling
  <2>6. Alone => ListAt(s, b)'
    BY <1>1, <1>2, <1>4, <2>2, <2>3 DEF ListAt, Reading, IsFinal
  <2>7. StepAt(s, b)'
    BY <1>4, <2>2, <2>3 DEF StepAt, Moved
  <2>8. Alone => \A v \in ItemUsers(b) : Moved(b, v) =>
           \/ batch[b].items[v] = "PAID"
           \/ <<b, v>> \in doubt
           \/ ~IsFinal(b) /\ v \in n.todo
    BY <1>1, <1>2, <2>2 DEF MoneyAt, Reading, ItemUsers
  <2> QED BY <1>1, <1>2, <1>4, <2>1, <2>2, <2>4, <2>5, <2>6, <2>7, <2>8, RunnerMoves
<1>5. CASE /\ AlreadyPaid(<<b, u>>)
           /\ runner' = [runner EXCEPT ![r].pc = "already", ![r].user = u]
           /\ UNCHANGED payVars
  BY <1>3, <1>4, <1>5 DEF AlreadyPaid, Moved, payVars, PayTypeOK
<1>6. CASE /\ ~AlreadyPaid(<<b, u>>)
           /\ runner' = [runner EXCEPT ![r].pc = "skip", ![r].user = u]
           /\ UNCHANGED payVars
  BY <1>3, <1>4, <1>6 DEF AlreadyPaid, Moved, payVars, PayTypeOK
<1>7. CASE /\ runner' = [runner EXCEPT ![r].pc = "paying", ![r].user = u]
           /\ BeginPay(r, <<b, u>>)
  BY <1>2, <1>3, <1>4, <1>7, BeginPayIs DEF Moved
<1> QED BY <1>5, <1>6, <1>7 DEF NextItem

(* A crash leaves what the runner knew to the next one.                     *)
LEMMA CrashKeeps ==
  ASSUME DisbursementInv, NEW s \in Servers, NEW b \in Batches, Crash(s, b)
  PROVE  DisbursementInv'
<1> DEFINE r == <<s, b>>
<1>1. /\ UNCHANGED <<roster, page, request, scene, batch, doubt>>
      /\ runner[r].pc # "idle" /\ runner' = [runner EXCEPT ![r] = Idle]
      /\ IF Calling(r) THEN DropPay(r) ELSE UNCHANGED payVars
  BY DEF Crash, Stopped
<1>2. /\ r \in Payers /\ runner[r] \in Runner /\ s \in scene.servers
      /\ batch[b].status # "NONE" /\ PayAt(r)
  BY <1>1, AtWork
<1>3. Idle \in Runner /\ Idle.pc = "idle"
  BY DEF Idle, Runner
<1>4. PayTypeOK /\ runner' \in [Payers -> Runner] /\ runner'[r] = Idle
  BY <1>1, <1>2, <1>3 DEF DisbursementInv, Types
<1>5. /\ PayTypeOK' /\ paid' = paid /\ \A q \in Payers : q # r => pay'[q] = pay[q]
      /\ ~Calling(r)' /\ (pay'[r].pc = "answered" => pay'[r] = pay[r])
  BY <1>1, <1>2, <1>4, DropPayIs
<1>6. PayAt(r)'
  BY <1>2, <1>3, <1>4, <1>5 DEF PayAt
<1>7. ItemsAt(s, b)' /\ ListAt(s, b)' /\ StepAt(s, b)' /\ ~Reading(r)'
  BY <1>3, <1>4 DEF ItemsAt, ListAt, StepAt, Reading
<1> QED BY <1>1, <1>2, <1>3, <1>5, <1>6, <1>7, RunnerMoves

(* The payment goes on: money arrives only for the item the runner is at,   *)
(* which stays on its list until the answer is recorded.                    *)
LEMMA PayingKeeps ==
  ASSUME DisbursementInv, NEW s \in Servers, NEW b \in Batches, Paying(s, b)
  PROVE  DisbursementInv'
<1> DEFINE r == <<s, b>>
<1>w. PICK w : w = runner[r].user
  OBVIOUS
<1>1. /\ UNCHANGED <<roster, page, request, batch, runner, scene, doubt>>
      /\ runner[r].pc = "paying" /\ StepPay(r)
  BY DEF Paying
<1>2. /\ r \in Payers /\ runner[r] \in Runner /\ s \in scene.servers
      /\ batch[b].status # "NONE" /\ PayAt(r) /\ ItemsAt(s, b)
      /\ Alone => /\ ListAt(s, b) /\ StepAt(s, b) /\ TallyIn(b)
                  /\ \A v \in People : MoneyAt(s, b, v)
  BY <1>1, AtWork
<1>3. /\ w \in People /\ w \in runner[r].todo /\ w \in ItemUsers(b) /\ pay[r].key = <<b, w>>
      /\ Reading(r)
  BY <1>w, <1>1, <1>2, DisbursementAssumption DEF PayAt, ItemsAt, ItemUsers, Reading
<1>4. <<b, w>> \in PayKeys /\ PayTypeOK /\ \A a \in Batches, v \in People : <<a, v>> \in PayKeys
  BY <1>3, DisbursementAssumption DEF DisbursementInv, Types
<1>5. /\ PayTypeOK'
      /\ \A q \in Payers : q # r => pay'[q] = pay[q]
      /\ pay'[r].key = <<b, w>>
      /\ \A q \in PayKeys : q # <<b, w>> => paid'[q] = paid[q]
  BY <1>1, <1>2, <1>3, <1>4, StepPayIs
<1>6. \/ /\ pay[r].pc = "waiting" /\ pay'[r].pc = "answered" /\ paid' = paid
         /\ \/ pay'[r].answer = "COMPLETED" /\ Moved(b, w)
            \/ pay'[r].answer \in {"IN_FLIGHT", "FAILED"}
      \/ /\ pay[r].pc = "waiting" /\ pay'[r].pc = "owning"
         /\ ~Moved(b, w) /\ paid'[<<b, w>>] = "inflight"
      \/ /\ pay[r].pc = "owning" /\ pay'[r].pc = "answered"
         /\ \/ Moved(b, w)' /\ pay'[r].answer \in {"COMPLETED", "UNCERTAIN"}
            \/ paid'[<<b, w>>] = paid[<<b, w>>] /\ pay'[r].answer \in {"FAILED", "UNCERTAIN"}
            \/ paid'[<<b, w>>] = "failed" /\ pay'[r].answer = "FAILED"
  BY <1>1, <1>2, <1>3, <1>4, StepPayIs DEF Moved
<1>7. /\ \A v \in People : v # w => (Moved(b, v)' <=> Moved(b, v))
      /\ Alone => (Moved(b, w) => Moved(b, w)')
  BY <1>w, <1>1, <1>2, <1>3, <1>4, <1>5, <1>6 DEF Moved, StepAt
<1>8. /\ batch' = batch /\ runner' = runner /\ doubt' = doubt
      /\ ItemUsers(b)' = ItemUsers(b) /\ Counts(b)' = Counts(b) /\ (IsFinal(b)' <=> IsFinal(b))
      /\ (Reading(r)' <=> Reading(r))
  BY <1>1 DEF ItemUsers, Counts, IsFinal, Reading
<1>9. Types'
  BY <1>1, <1>5 DEF DisbursementInv, Types, roster
<1>10. /\ ItemsAt(s, b)' /\ DecidedIn(b)' /\ CountIn(b)'
       /\ Alone => ListAt(s, b)' /\ TallyIn(b)'
  BY <1>2, <1>8 DEF ItemsAt, ListAt, TallyIn, DisbursementInv, ItemsInv, CountInv, DecidedIn,
     CountIn
<1>11. PayAt(r)'
  BY <1>w, <1>1, <1>3, <1>5, <1>6, <1>8 DEF PayAt
<1>12. Alone => StepAt(s, b)'
  <2>1. ASSUME Alone
        PROVE  /\ pay[r].pc = "waiting" => ~Moved(b, w)
               /\ pay[r].pc = "owning" => paid[<<b, w>>] = "inflight"
    BY <1>w, <1>1, <1>2, <2>1 DEF StepAt
  <2>2. ASSUME Alone
        PROVE  /\ pay'[r].pc = "waiting" => ~Moved(b, w)'
               /\ pay'[r].pc = "owning" => paid'[<<b, w>>] = "inflight"
               /\ (pay'[r].pc = "answered" /\ pay'[r].answer = "COMPLETED") => Moved(b, w)'
               /\ (pay'[r].pc = "answered" /\ pay'[r].answer = "FAILED") => ~Moved(b, w)'
    BY <1>6, <2>1, <2>2 DEF Moved
  <2>3. runner'[r].pc = "paying" /\ runner'[r].user = w
    BY <1>w, <1>1, <1>8
  <2> QED BY <2>2, <2>3 DEF StepAt
<1>13. ASSUME Alone, NEW v \in People
       PROVE  MoneyAt(s, b, v)'
  <2>1. MoneyAt(s, b, v)
    BY <1>2, <1>13
  <2>2. CASE v # w
    BY <1>7, <1>8, <2>1, <2>2 DEF MoneyAt
  <2>3. CASE v = w
    <3>1. /\ batch[b].items[w] \in {"PENDING", "FAILED"} /\ ~IsFinal(b)
      BY <1>1, <1>2, <1>3, <1>13 DEF ListAt
    <3> QED BY <1>3, <1>8, <2>3, <3>1 DEF MoneyAt
  <2> QED BY <2>2, <2>3
<1>14. \A a \in Batches, v \in People : a # b => paid'[<<a, v>>] = paid[<<a, v>>]
  BY <1>4, <1>5
<1> QED BY <1>1, <1>2, <1>5, <1>8, <1>9, <1>10, <1>11, <1>12, <1>13, <1>14, StepKeeps

(* The answer is recorded: the item is off the list with its status.        *)
LEMMA RecordKeeps ==
  ASSUME DisbursementInv, NEW s \in Servers, NEW b \in Batches, NEW status \in Settled,
         runner[<<s, b>>].pc \in {"already", "skip", "paying"}, RecordItem(<<s, b>>, status),
         UNCHANGED <<roster, page, request, scene, crashes, paid>>, PayTypeOK',
         \A q \in Payers : q # <<s, b>> => pay'[q] = pay[q],
         ~Calling(<<s, b>>)', pay'[<<s, b>>].pc = "answered" => pay'[<<s, b>>].answer # "none",
         doubt \subseteq doubt',
         \A a \in Batches, u \in People : <<a, u>> \in doubt' =>
           <<a, u>> \in doubt \/ (a = b /\ u = runner[<<s, b>>].user),
         Alone => LET u == runner[<<s, b>>].user IN
           /\ status = "PAID" => Moved(b, u) \/ <<b, u>> \in doubt'
           /\ status = "SKIPPED" => ~Moved(b, u)
           /\ status = "FAILED" => ~Moved(b, u) \/ <<b, u>> \in doubt'
  PROVE  DisbursementInv'
<1>w. PICK w : w = runner[<<s, b>>].user
  OBVIOUS
<1> DEFINE r == <<s, b>>
           since == runner[r].since + 1
           items == [batch[b].items EXCEPT ![w] = status]
           n == [batch[b] EXCEPT !.items = items]
           m == [runner[r] EXCEPT !.pc = IF since >= FlushEvery THEN "flush" ELSE "next",
                                  !.since = IF since >= FlushEvery THEN 0 ELSE since,
                                  !.todo = runner[r].todo \ {w}, !.user = NoPay]
<1>1. /\ r \in Payers /\ runner[r] \in Runner /\ s \in scene.servers /\ batch[b] \in Batch
      /\ batch[b].status # "NONE" /\ PayAt(r) /\ ItemsAt(s, b)
      /\ Alone => /\ ListAt(s, b) /\ StepAt(s, b) /\ TallyIn(b)
                  /\ \A v \in People : MoneyAt(s, b, v)
  BY AtWork
<1>2. w \in People /\ w \in runner[r].todo /\ w \in ItemUsers(b) /\ Reading(r)
  BY <1>w, <1>1 DEF ItemsAt, ItemUsers, Reading
<1>3. r[1] = s /\ r[2] = b
  OBVIOUS
<1>4. batch' = [batch EXCEPT ![b] = n] /\ runner' = [runner EXCEPT ![r] = m]
  <2>1. batch \in [Batches -> Batch] /\ runner \in [Payers -> Runner]
    BY DEF DisbursementInv, Types
  <2>2. batch' = [batch EXCEPT ![r[2]].items[w] = status]
    BY <1>w DEF RecordItem
  <2>3. batch' = [batch EXCEPT ![b] = n]
    BY <1>1, <1>3, <2>1, <2>2
  <2>4. runner' = [runner EXCEPT ![r].pc = IF since >= FlushEvery THEN "flush" ELSE "next",
                              ![r].since = IF since >= FlushEvery THEN 0 ELSE since,
                              ![r].todo = @ \ {w}, ![r].user = NoPay]
    BY <1>w DEF RecordItem
  <2>5. runner' = [runner EXCEPT ![r] = m]
    BY <1>1, <2>1, <2>4
  <2> QED BY <2>3, <2>5
<1>5. /\ n \in Batch /\ n.status = batch[b].status /\ n.total = batch[b].total
      /\ n.counts = batch[b].counts /\ n.items = items
  BY <1>1 DEF Batch
<1>6. /\ m \in Runner /\ m.pc \in {"flush", "next"} /\ m.todo = runner[r].todo \ {w}
  <2>1. m.pc \in {"flush", "next"} /\ m.todo = runner[r].todo \ {w}
    BY <1>1 DEF Runner
  <2>2. m \in Runner
    <3>1. /\ since \in Int /\ (IF since >= FlushEvery THEN 0 ELSE since) \in Int
          /\ (IF since >= FlushEvery THEN "flush" ELSE "next") \in {"flush", "next"}
      BY <1>1 DEF Runner
    <3>2. runner[r].todo \ {w} \in SUBSET People
      BY <1>1 DEF Runner
    <3> HIDE DEF since
    <3> QED BY <1>1, <3>1, <3>2 DEF Runner
  <2> QED BY <2>1, <2>2
<1>7. /\ items \in [People -> Settled \cup {"NONE", "PENDING"}] /\ items[w] = status
      /\ \A v \in People : v # w => items[v] = batch[b].items[v]
  <2>1. batch[b].items \in [People -> Settled \cup {"NONE", "PENDING"}]
    BY <1>1 DEF Batch
  <2> QED BY <1>2, <2>1
<1>8. status # "NONE" /\ status # "PENDING" /\ batch[b].items[w] # "NONE"
  BY <1>2 DEF Settled, ItemUsers
<1> HIDE DEF n, m, items, since
<1>9. /\ batch' \in [Batches -> Batch] /\ batch'[b] = n
      /\ \A a \in Batches : a # b => batch'[a] = batch[a]
      /\ runner' \in [Payers -> Runner] /\ runner'[r] = m
      /\ \A q \in Payers : q # r => runner'[q] = runner[q]
  BY <1>1, <1>4, <1>5, <1>6 DEF DisbursementInv, Types
<1>10. /\ batch'[b].items = items /\ batch'[b].status = batch[b].status
       /\ batch'[b].total = batch[b].total /\ batch'[b].counts = batch[b].counts
  BY <1>5, <1>9
<1>11. Types'
  BY <1>9 DEF DisbursementInv, Types, roster
<1>12. ItemUsers(b)' = ItemUsers(b) /\ (IsFinal(b)' <=> IsFinal(b))
  <2>1. ItemUsers(b)' = {v \in People : items[v] # "NONE"}
    BY <1>10 DEF ItemUsers
  <2> QED BY <1>7, <1>8, <1>10, <2>1 DEF ItemUsers, IsFinal
<1>13. Reading(r)' /\ runner'[r].pc \in {"flush", "next"} /\ runner'[r].todo = runner[r].todo \ {w}
  BY <1>6, <1>9 DEF Reading
<1>14. ItemsAt(s, b)'
  BY <1>1, <1>2, <1>7, <1>8, <1>10, <1>12, <1>13 DEF ItemsAt
<1>15. DecidedIn(b)' /\ CountIn(b)'
  BY <1>7, <1>8, <1>10, <1>12 DEF DisbursementInv, ItemsInv, DecidedIn, CountInv, CountIn
<1>16. PayAt(r)'
  BY <1>13 DEF PayAt
<1>17. Alone => batch[b].items[w] \in {"PENDING", "FAILED"} /\ ~IsFinal(b)
  BY <1>1, <1>2 DEF ListAt
<1>18. ASSUME Alone
       PROVE  \A v \in People, old \in {"PAID", "SKIPPED"} :
                batch[b].items[v] = old => batch'[b].items[v] = old
  BY <1>7, <1>10, <1>17, <1>18
<1>19. ASSUME Alone
       PROVE  ListAt(s, b)' /\ StepAt(s, b)'
  <2>1. ListAt(s, b)'
    <3>1. \A v \in runner[r].todo \ {w} : batch'[b].items[v] \in {"PENDING", "FAILED"}
      BY <1>1, <1>2, <1>7, <1>10, <1>19 DEF ListAt, Runner
    <3> QED BY <1>12, <1>13, <1>17, <1>19, <3>1 DEF ListAt
  <2>2. StepAt(s, b)'
    BY <1>13 DEF StepAt
  <2> QED BY <2>1, <2>2
<1>20. ASSUME Alone
       PROVE  TallyIn(b)'
  <2>1. \A old \in {"PAID", "SKIPPED"} :
          /\ NumberOf(batch[b].items, old) <= NumberOf(batch'[b].items, old)
          /\ NumberOf(batch[b].items, old) \in Nat /\ NumberOf(batch'[b].items, old) \in Nat
    BY <1>18, <1>20, NumberGrows, NumbersAre
  <2>2. batch[b].counts.paid \in Nat /\ batch[b].counts.skipped \in Nat
    BY <1>1 DEF Batch
  <2> QED BY <1>1, <1>10, <1>12, <1>17, <1>20, <2>1, <2>2 DEF TallyIn
<1>21. ASSUME Alone, NEW v \in People
       PROVE  MoneyAt(s, b, v)'
  <2>1. MoneyAt(s, b, v) /\ (Moved(b, v)' <=> Moved(b, v))
    BY <1>1, <1>21 DEF Moved
  <2>2. CASE v # w
    <3>1. <<b, v>> \in doubt' <=> <<b, v>> \in doubt
      BY <1>w, <2>2
    <3> QED BY <1>2, <1>7, <1>10, <1>12, <1>13, <2>1, <2>2, <3>1 DEF MoneyAt
  <2>3. CASE v = w
    <3>1. /\ status = "PAID" => Moved(b, w) \/ <<b, w>> \in doubt'
          /\ status = "SKIPPED" => ~Moved(b, w)
          /\ status = "FAILED" => ~Moved(b, w) \/ <<b, w>> \in doubt'
          /\ status \in {"PAID", "FAILED", "SKIPPED"}
      BY <1>w, <1>21 DEF Settled
    <3> QED BY <1>7, <1>10, <2>1, <2>3, <3>1 DEF MoneyAt
  <2> QED BY <2>2, <2>3
<1>22. /\ \A v \in People : batch'[b].items[v] = "PENDING" => batch[b].items[v] = "PENDING"
       /\ \A a \in Batches, v \in People : a # b =>
            paid'[<<a, v>>] = paid[<<a, v>>] /\ (<<a, v>> \in doubt' <=> <<a, v>> \in doubt)
  BY <1>7, <1>8, <1>10
<1> QED BY <1>1, <1>9, <1>10, <1>11, <1>12, <1>14, <1>15, <1>16, <1>17, <1>18, <1>19, <1>20,
           <1>21, <1>22, StepKeeps

(* A transfer done before, or a beneficiary who is not eligible.            *)
LEMMA RecordUnpaidKeeps ==
  ASSUME DisbursementInv, NEW s \in Servers, NEW b \in Batches, RecordUnpaid(s, b)
  PROVE  DisbursementInv'
<1> DEFINE r == <<s, b>>
<1>1. /\ UNCHANGED <<roster, page, request, scene, crashes, doubt>> /\ pay' = pay /\ paid' = paid
      /\ \/ runner[r].pc = "already" /\ RecordItem(r, "PAID")
         \/ runner[r].pc = "skip" /\ RecordItem(r, "SKIPPED")
  BY DEF RecordUnpaid, payVars
<1>2. /\ r \in Payers /\ PayAt(r) /\ (Alone => StepAt(s, b)) /\ PayTypeOK'
  BY <1>1, AtWork DEF DisbursementInv, Types, PayTypeOK
<1>3. ~Calling(r)' /\ (pay'[r].pc = "answered" => pay'[r].answer # "none")
  BY <1>1, <1>2 DEF PayAt, Calling
<1>4. CASE runner[r].pc = "already" /\ RecordItem(r, "PAID")
  <2>1. Alone => Moved(b, runner[r].user)
    BY <1>2, <1>4 DEF StepAt
  <2> QED BY <1>1, <1>2, <1>3, <1>4, <2>1, RecordKeeps DEF Settled
<1>5. CASE runner[r].pc = "skip" /\ RecordItem(r, "SKIPPED")
  <2>1. Alone => ~Moved(b, runner[r].user)
    BY <1>2, <1>5 DEF StepAt
  <2> QED BY <1>1, <1>2, <1>3, <1>5, <2>1, RecordKeeps DEF Settled
<1> QED BY <1>1, <1>4, <1>5

(* What execute told: an answer that is not sure is remembered as such.     *)
LEMMA RecordPaidKeeps ==
  ASSUME DisbursementInv, NEW s \in Servers, NEW b \in Batches, RecordPaid(s, b)
  PROVE  DisbursementInv'
<1> DEFINE r == <<s, b>>
<1>u. PICK u : u = runner[r].user
  OBVIOUS
<1>o. PICK answer : answer = pay[r].answer
  OBVIOUS
<1>1. /\ UNCHANGED <<roster, page, request, scene, crashes, paid>>
      /\ runner[r].pc = "paying" /\ pay[r].pc = "answered" /\ RecordItem(r, ItemOn(answer))
      /\ pay' = [pay EXCEPT ![r] = FreshPay]
      /\ doubt' = IF answer \in {"UNCERTAIN", "IN_FLIGHT"} THEN doubt \cup {pay[r].key} ELSE doubt
  BY <1>o DEF RecordPaid
<1>2. /\ r \in Payers /\ PayAt(r) /\ (Alone => StepAt(s, b)) /\ PayTypeOK
  BY <1>1, AtWork DEF DisbursementInv, Types
<1>3. pay[r].key = <<b, u>> /\ answer # "none"
  BY <1>u, <1>o, <1>1, <1>2 DEF PayAt
<1>4. /\ PayTypeOK' /\ pay'[r] = FreshPay /\ \A q \in Payers : q # r => pay'[q] = pay[q]
      /\ answer \in {"COMPLETED", "IN_FLIGHT", "FAILED", "UNCERTAIN"}
  <2>1. FreshPay \in PayCall
    BY DEF FreshPay, PayCall, PayAnswer
  <2>2. answer \in PayAnswer
    BY <1>o, <1>2 DEF PayTypeOK, PayCall
  <2> QED BY <1>1, <1>2, <1>3, <2>1, <2>2 DEF PayTypeOK, PayAnswer
<1>5. ~Calling(r)' /\ pay'[r].pc # "answered"
  BY <1>4 DEF Calling, FreshPay
<1>6. /\ doubt \subseteq doubt'
      /\ \A a \in Batches, v \in People : <<a, v>> \in doubt' =>
           <<a, v>> \in doubt \/ (a = b /\ v = u)
      /\ answer \in {"UNCERTAIN", "IN_FLIGHT"} => <<b, u>> \in doubt'
  BY <1>1, <1>3
<1>7. /\ Alone /\ answer = "COMPLETED" => Moved(b, u)
      /\ Alone /\ answer = "FAILED" => ~Moved(b, u)
  BY <1>u, <1>o, <1>1, <1>2 DEF StepAt
<1>8. ItemOn(answer) \in Settled
  BY DEF ItemOn, Settled
<1>9. Alone => /\ ItemOn(answer) = "PAID" => Moved(b, u) \/ <<b, u>> \in doubt'
               /\ ItemOn(answer) = "SKIPPED" => ~Moved(b, u)
               /\ ItemOn(answer) = "FAILED" => ~Moved(b, u) \/ <<b, u>> \in doubt'
  BY <1>4, <1>6, <1>7 DEF ItemOn
<1>10. PICK status \in Settled : status = ItemOn(answer)
  BY <1>8
<1>11. Alone => /\ status = "PAID" => Moved(b, runner[r].user) \/ <<b, runner[r].user>> \in doubt'
                /\ status = "SKIPPED" => ~Moved(b, runner[r].user)
                /\ status = "FAILED" =>
                     ~Moved(b, runner[r].user) \/ <<b, runner[r].user>> \in doubt'
  BY <1>u, <1>9, <1>10
<1>12. /\ RecordItem(r, status) /\ runner[r].pc \in {"already", "skip", "paying"}
       /\ \A a \in Batches, v \in People : <<a, v>> \in doubt' =>
           <<a, v>> \in doubt \/ (a = b /\ v = runner[r].user)
  BY <1>u, <1>1, <1>6, <1>10
<1>13. UNCHANGED <<roster, page, request, scene, crashes, paid>>
  BY <1>1
<1>14. ~Calling(r)' /\ (pay'[r].pc = "answered" => pay'[r].answer # "none")
  BY <1>5
<1>15. /\ PayTypeOK' /\ \A q \in Payers : q # r => pay'[q] = pay[q]
       /\ doubt \subseteq doubt'
  BY <1>4, <1>6
<1> HIDE DEF r
<1> QED BY <1>11, <1>12, <1>13, <1>14, <1>15, RecordKeeps DEF r

(* The counters catch up with the items.                                    *)
LEMMA FlushKeeps ==
  ASSUME DisbursementInv, NEW s \in Servers, NEW b \in Batches, FlushProgress(s, b)
  PROVE  DisbursementInv'
<1> DEFINE r == <<s, b>>
           n == [batch[b] EXCEPT !.counts = Counts(b)]
<1>1. /\ UNCHANGED <<roster, page, request, scene, crashes, doubt>> /\ pay' = pay /\ paid' = paid
      /\ batch' = [batch EXCEPT ![b].counts = Counts(b)]
      /\ \E pc \in {"next", "finalize"} :
           /\ runner' = [runner EXCEPT ![r].pc = pc]
           /\ pc = "finalize" => runner[r].todo = {}
      /\ runner[r].pc \in {"flush", "next"}
  BY DEF FlushProgress, FlushedCounts, RunnerAt, payVars
<1>2. PICK pc \in {"next", "finalize"} :
        /\ runner' = [runner EXCEPT ![r].pc = pc]
        /\ pc = "finalize" => runner[r].todo = {}
  BY <1>1
<1> DEFINE m == [runner[r] EXCEPT !.pc = pc]
<1>3. /\ r \in Payers /\ runner[r] \in Runner /\ s \in scene.servers /\ batch[b] \in Batch
      /\ batch[b].status # "NONE" /\ PayAt(r) /\ ItemsAt(s, b)
      /\ Alone => /\ ListAt(s, b) /\ StepAt(s, b) /\ TallyIn(b)
                  /\ \A v \in People : MoneyAt(s, b, v)
  BY <1>1, AtWork
<1>4. /\ Counts(b) = CountsOf(batch[b].items) /\ ItemUsers(b) = UsersOf(batch[b].items)
  BY CountsAre
<1>5. /\ Counts(b) \in [paid : Nat, failed : Nat, skipped : Nat]
      /\ Counts(b).paid + Counts(b).failed + Counts(b).skipped <= Cardinality(ItemUsers(b))
  BY <1>4, NumbersAre DEF CountsOf
<1>6. /\ n \in Batch /\ n.status = batch[b].status /\ n.total = batch[b].total
      /\ n.items = batch[b].items /\ n.counts = Counts(b)
  BY <1>3, <1>5 DEF Batch
<1>7. m \in Runner /\ m.pc = pc /\ m.todo = runner[r].todo
  BY <1>3 DEF Runner
<1>8. batch' = [batch EXCEPT ![b] = n] /\ runner' = [runner EXCEPT ![r] = m]
  BY <1>1, <1>2
<1> HIDE DEF n, m
<1>9. /\ batch' \in [Batches -> Batch] /\ batch'[b] = n
      /\ \A a \in Batches : a # b => batch'[a] = batch[a]
      /\ runner' \in [Payers -> Runner] /\ runner'[r] = m
      /\ \A q \in Payers : q # r => runner'[q] = runner[q]
  BY <1>3, <1>6, <1>7, <1>8 DEF DisbursementInv, Types
<1>10. Types'
  BY <1>1, <1>9 DEF DisbursementInv, Types, roster, PayTypeOK
<1>11. /\ ItemUsers(b)' = ItemUsers(b) /\ (IsFinal(b)' <=> IsFinal(b)) /\ Counts(b)' = Counts(b)
       /\ Reading(r) /\ Reading(r)' /\ batch'[b].items = batch[b].items
  BY <1>1, <1>6, <1>7, <1>9 DEF ItemUsers, IsFinal, Counts, Reading
<1>12. ItemsAt(s, b)' /\ DecidedIn(b)'
  BY <1>2, <1>3, <1>7, <1>9, <1>11 DEF ItemsAt, DecidedIn, DisbursementInv, ItemsInv
<1>13. CountIn(b)'
  BY <1>5, <1>6, <1>9, <1>11 DEF DisbursementInv, CountInv, CountIn
<1>14. PayAt(r)'
  BY <1>1, <1>3, <1>7, <1>9 DEF PayAt, Calling
<1>15. Alone => ~IsFinal(b)
  BY <1>1, <1>3 DEF ListAt
<1>16. Alone => ListAt(s, b)' /\ StepAt(s, b)'
  <2>1. Alone => ListAt(s, b)'
    BY <1>3, <1>6, <1>7, <1>9, <1>11, <1>15 DEF ListAt
  <2>2. StepAt(s, b)'
    BY <1>7, <1>9 DEF StepAt
  <2> QED BY <2>1, <2>2
<1>17. Alone => TallyIn(b)'
  <2>1. /\ Counts(b).paid = NumberOf(batch[b].items, "PAID")
        /\ Counts(b).skipped = NumberOf(batch[b].items, "SKIPPED")
    BY <1>4 DEF CountsOf
  <2>2. Counts(b).paid \in Nat /\ Counts(b).skipped \in Nat
    BY <1>5
  <2>3. batch'[b].counts = Counts(b)
    BY <1>6, <1>9
  <2> QED BY <1>11, <1>15, <2>1, <2>2, <2>3 DEF TallyIn
<1>18. ASSUME Alone, NEW v \in People
       PROVE  MoneyAt(s, b, v)'
  <2>1. MoneyAt(s, b, v) /\ (Moved(b, v)' <=> Moved(b, v)) /\ doubt' = doubt
    BY <1>1, <1>3, <1>18 DEF Moved
  <2> QED BY <1>7, <1>9, <1>11, <2>1 DEF MoneyAt
<1>19. batch'[b].status # "NONE" /\ doubt' = doubt
  BY <1>1, <1>3, <1>6, <1>9
<1> QED BY <1>1, <1>3, <1>9, <1>10, <1>11, <1>12, <1>13, <1>14, <1>15, <1>16, <1>17, <1>18,
           <1>19, StepKeeps

(* The verdict, with nothing left on the list.                              *)
LEMMA FinalizeKeeps ==
  ASSUME DisbursementInv, NEW s \in Servers, NEW b \in Batches, Finalize(s, b)
  PROVE  DisbursementInv'
<1> DEFINE r == <<s, b>>
<1>1. /\ UNCHANGED <<roster, page, request, scene, crashes, doubt>> /\ pay' = pay /\ paid' = paid
      /\ batch' = IF batch[b].status = "PROCESSING"
                  THEN [batch EXCEPT ![b].status = Verdict(batch[b])] ELSE batch
      /\ runner' = [runner EXCEPT ![r] = Idle] /\ runner[r].pc = "finalize"
  BY DEF Finalize, payVars
<1>2. /\ r \in Payers /\ runner[r] \in Runner /\ s \in scene.servers /\ batch[b] \in Batch
      /\ batch[b].status # "NONE" /\ PayAt(r) /\ ItemsAt(s, b)
      /\ Alone => /\ ListAt(s, b) /\ StepAt(s, b) /\ TallyIn(b)
                  /\ \A v \in People : MoneyAt(s, b, v)
  BY <1>1, AtWork
<1>3. Reading(r) /\ runner[r].todo = {}
  BY <1>1, <1>2 DEF Reading, ItemsAt
<1>4. /\ Verdict(batch[b]) \in Final
      /\ Verdict(batch[b]) = "COMPLETED" => batch[b].counts.paid = batch[b].total
  <2>1. CASE batch[b].counts.paid = batch[b].total
    BY <2>1 DEF Verdict, Final
  <2>2. CASE batch[b].counts.paid # batch[b].total /\ batch[b].counts.paid > 0
    BY <2>2 DEF Verdict, Final
  <2>3. CASE batch[b].counts.paid # batch[b].total /\ ~(batch[b].counts.paid > 0)
    BY <2>3 DEF Verdict, Final
  <2> QED BY <2>1, <2>2, <2>3
<1>5. /\ batch' \in [Batches -> Batch] /\ batch'[b].items = batch[b].items
      /\ batch'[b].counts = batch[b].counts /\ batch'[b].total = batch[b].total
      /\ batch'[b].status \in Final
      /\ batch[b].status = "PROCESSING" => batch'[b].status = Verdict(batch[b])
      /\ batch[b].status # "PROCESSING" => batch' = batch
      /\ \A a \in Batches : a # b => batch'[a] = batch[a]
  <2>1. batch \in [Batches -> Batch]
    BY DEF DisbursementInv, Types
  <2>2. CASE batch[b].status = "PROCESSING"
    <3> DEFINE n == [batch[b] EXCEPT !.status = Verdict(batch[b])]
    <3>1. /\ n \in Batch /\ n.status = Verdict(batch[b]) /\ n.total = batch[b].total
          /\ n.items = batch[b].items /\ n.counts = batch[b].counts
      BY <1>2, <1>4 DEF Batch
    <3>2. batch' = [batch EXCEPT ![b] = n]
      BY <1>1, <2>2
    <3> HIDE DEF n
    <3> QED BY <1>4, <2>1, <2>2, <3>1, <3>2
  <2>3. CASE batch[b].status # "PROCESSING"
    BY <1>1, <1>2, <2>1, <2>3 DEF Batch
  <2> QED BY <2>2, <2>3
<1>6. /\ runner' \in [Payers -> Runner] /\ runner'[r] = Idle
      /\ \A q \in Payers : q # r => runner'[q] = runner[q]
  <2>1. Idle \in Runner
    BY DEF Idle, Runner
  <2> QED BY <1>1, <1>2, <2>1 DEF DisbursementInv, Types
<1>7. runner'[r].pc = "idle" /\ ~Reading(r)'
  BY <1>6 DEF Idle, Reading
<1>8. Types'
  BY <1>1, <1>5, <1>6 DEF DisbursementInv, Types, roster, PayTypeOK
<1>9. ItemUsers(b)' = ItemUsers(b) /\ Counts(b)' = Counts(b) /\ IsFinal(b)'
  BY <1>5 DEF ItemUsers, Counts, IsFinal
<1>10. ItemsAt(s, b)' /\ DecidedIn(b)'
  BY <1>2, <1>3, <1>5, <1>7 DEF ItemsAt, DecidedIn
<1>11. CountIn(b)'
  BY <1>5, <1>9 DEF DisbursementInv, CountInv, CountIn
<1>12. PayAt(r)'
  BY <1>1, <1>2, <1>7 DEF PayAt, Calling
<1>13. ListAt(s, b)' /\ StepAt(s, b)'
  BY <1>7 DEF ListAt, StepAt
<1>14. ASSUME Alone
       PROVE  TallyIn(b)' /\ batch[b].status = "PROCESSING" /\ ~IsFinal(b)
  <2>1. ~IsFinal(b) /\ batch[b].counts = Counts(b)
    BY <1>1, <1>2, <1>14 DEF ListAt
  <2>2. batch[b].status = "PROCESSING"
    BY <1>2, <2>1 DEF IsFinal, Batch
  <2>3. /\ batch'[b].counts.paid <= NumberOf(batch'[b].items, "PAID")
        /\ batch'[b].counts.skipped <= NumberOf(batch'[b].items, "SKIPPED")
    BY <1>2, <1>5, <1>14 DEF TallyIn
  <2> QED BY <1>4, <1>5, <1>9, <2>1, <2>2, <2>3 DEF TallyIn
<1>15. ASSUME Alone, NEW v \in People
       PROVE  MoneyAt(s, b, v)'
  <2>1. MoneyAt(s, b, v) /\ (Moved(b, v)' <=> Moved(b, v)) /\ doubt' = doubt
    BY <1>1, <1>2, <1>15 DEF Moved
  <2> QED BY <1>3, <1>5, <1>9, <2>1 DEF MoneyAt
<1>16. batch'[b].status # "NONE" /\ doubt' = doubt
  BY <1>1, <1>5 DEF Final
<1> QED BY <1>1, <1>2, <1>5, <1>6, <1>8, <1>9, <1>10, <1>11, <1>12, <1>13, <1>14, <1>15, <1>16,
           StepKeeps

-----------------------------------------------------------------------------
(* The whole.                                                               *)
(* At first there is no batch.                                              *)
LEMMA DisbursementInitInv ==
  ASSUME DisbursementInit
  PROVE  DisbursementInv
<1> USE DEF DisbursementInit
<1>1. NoBatch \in Batch /\ NoBatch.status = "NONE" /\ NoBatch.counts = NoCounts /\ NoBatch.total = 0
      /\ \A u \in People : NoBatch.items[u] = "NONE"
  BY DEF NoBatch, Batch, NoCounts
<1>2. Idle \in Runner /\ Idle.pc = "idle"
  BY DEF Idle, Runner
<1>3. NoRequest \in Request /\ NoRequest.pc = "idle" /\ NoPage \in Screen /\ NoPage.pc = "closed"
  BY DEF NoRequest, Request, NoPage, Screen, NoBatch, NoCounts
<1>4. PayTypeOK /\ \A r \in Payers : pay[r].pc = "idle"
  BY DEF PayInit, PayTypeOK, FreshPay, PayCall, PayAnswer, PayStatus
<1>5. /\ \A b \in Batches : batch[b] = NoBatch /\ request[b].pc = "idle" /\ page[b].pc = "closed"
      /\ \A s \in Servers, b \in Batches : runner[<<s, b>>].pc = "idle"
      /\ \A r \in Payers : runner[r].pc = "idle"
  BY <1>2, <1>3, DisbursementAssumption
<1>6. scene \in Scene
  BY ScenesAssumption DEF Scene
<1>7. Types
  BY <1>1, <1>2, <1>3, <1>4, <1>6 DEF Types, Scene
<1>8. CreatedInv
  BY <1>5 DEF CreatedInv
<1>9. \A b \in Batches : ~IsFinal(b) /\ \A s \in Servers : ~Reading(<<s, b>>)
  BY <1>1, <1>5 DEF IsFinal, Final, Reading
<1>10. ItemsInv
  BY <1>9 DEF ItemsInv, ItemsAt, DecidedIn
<1>11. CountInv
  <2>1. ASSUME NEW b \in Batches
        PROVE  ItemUsers(b) = {}
    BY <1>1, <1>5 DEF ItemUsers
  <2>2. Cardinality({}) = 0
    BY FS_EmptySet
  <2>3. ASSUME NEW b \in Batches
        PROVE  CountIn(b)
    <3>1. batch[b].counts = NoCounts /\ batch[b].total = 0 /\ Cardinality(ItemUsers(b)) = 0
      BY <1>1, <1>5, <2>1, <2>2
    <3> QED BY <3>1 DEF CountIn, NoCounts
  <2> QED BY <2>3 DEF CountInv
<1>12. PayInv
  BY <1>4, <1>5 DEF PayInv, PayAt, Calling
<1>13. scene.servers \subseteq Servers
  BY <1>6 DEF Scene
<1>14. ListInv /\ StepInv
  BY <1>5, <1>9, <1>13 DEF ListInv, ListAt, StepInv, StepAt
<1>15. TallyInv
  <2>1. \A b \in Batches : \A status : NumberOf(batch[b].items, status) \in Nat
    BY NumbersAre
  <2> QED BY <1>1, <1>5, <1>9, <2>1 DEF TallyInv, TallyIn, NoCounts
<1>16. MoneyInv
  BY <1>1, <1>5, <1>9, <1>13 DEF MoneyInv, MoneyAt, ItemUsers
<1>17. RowInv /\ ShownInv
  BY <1>5 DEF RowInv, RowIn, ShownInv
<1> QED BY <1>7, <1>8, <1>10, <1>11, <1>12, <1>14, <1>15, <1>16, <1>17 DEF DisbursementInv

(* One action, one lemma.                                                   *)
LEMMA DisbursementStep ==
  ASSUME DisbursementInv, [DisbursementNext]_disburseVars
  PROVE  DisbursementInv'
<1>1. CASE UNCHANGED disburseVars
  <2>1. UNCHANGED <<program, enrolled, accounts, page, request, batch, runner, scene, doubt,
                    payVars>>
    BY <1>1 DEF disburseVars, roster
  <2>2. Types' /\ CreatedInv'
    BY <2>1 DEF DisbursementInv, Types, PayTypeOK, payVars, CreatedInv
  <2> QED BY <2>1, <2>2, RunnersKept, PageKept DEF DisbursementInv
<1>2. CASE OwnerNext
  BY <1>2, OwnerKeeps
<1>3. ASSUME NEW b \in Batches,
             \/ Disburse(b) \/ BulkDisburse(b) \/ GiveUp(b)
             \/ OpenBatch(b) \/ ReadBatch(b) \/ Poll(b)
             \/ \E u \in People : EnrollNext(b, u)
      PROVE  DisbursementInv'
  BY <1>3, RequestKeeps, OpenOrPollKeeps, ReadBatchKeeps
<1>4. ASSUME NEW b \in Batches, NEW s \in Servers,
             CreateDisbursement(s, b) \/ Resume(s, b) \/ Run(s, b) \/ Crash(s, b)
      PROVE  DisbursementInv'
  BY <1>4, CreateKeeps, ResumeKeeps, CrashKeeps, ReadStatusKeeps, ReadItemsKeeps, NextItemKeeps,
     PayingKeeps, RecordUnpaidKeeps, RecordPaidKeeps, FlushKeeps, FinalizeKeeps DEF Run
<1> QED BY <1>1, <1>2, <1>3, <1>4 DEF DisbursementNext

(* The invariant holds for ever.                                            *)
LEMMA DisbursementInvariant == DisbursementSpec => []DisbursementInv
<1>1. DisbursementInit => DisbursementInv
  BY DisbursementInitInv
<1>2. DisbursementInv /\ [DisbursementNext]_disburseVars => DisbursementInv'
  BY DisbursementStep
<1> QED BY <1>1, <1>2, PTL DEF DisbursementSpec

(* Alone there is a server.                                                 *)
LEMMA TheServer ==
  ASSUME Types, Alone
  PROVE  \E s \in Servers : s \in scene.servers
<1>1. IsFiniteSet(scene.servers) /\ scene.servers \subseteq Servers
  BY PeopleAssumption, FS_Subset DEF Types, Scene
<1>2. scene.servers # {}
  BY <1>1, FS_EmptySet DEF Alone
<1> QED BY <1>1, <1>2

(* Every item of a finished disbursement agrees with the beneficiary's page *)
(* on whether the money arrived, unless execute could not tell, and nobody  *)
(* is skipped who was paid.                                                 *)
THEOREM ItemsTellWhoWasPaid == DisbursementSpec => []ItemsAreTrue
<1>1. DisbursementInv => ItemsAreTrue
  <2> SUFFICES ASSUME DisbursementInv, Alone
               PROVE  /\ \A b \in Batches : IsFinal(b) => \A u \in ItemUsers(b) :
                           \/ <<b, u>> \in doubt
                           \/ (batch[b].items[u] = "PAID" <=> b \in ReceivedForUser(u))
                      /\ \A b \in Batches, u \in People :
                           batch[b].items[u] = "SKIPPED" => paid[<<b, u>>] # "moved"
    BY DEF ItemsAreTrue, ItemsTellTheTruth, SkippedIsUnpaid
  <2>1. PICK s \in Servers : s \in scene.servers
    BY TheServer DEF DisbursementInv
  <2>2. \A b \in Batches, u \in People : MoneyAt(s, b, u)
    BY <2>1 DEF DisbursementInv, MoneyInv
  <2>3. ASSUME NEW b \in Batches, IsFinal(b), NEW u \in ItemUsers(b)
        PROVE  \/ <<b, u>> \in doubt
               \/ (batch[b].items[u] = "PAID" <=> b \in ReceivedForUser(u))
    <3>1. u \in People /\ MoneyAt(s, b, u)
      BY <2>2 DEF ItemUsers
    <3>2. b \in ReceivedForUser(u) <=> Moved(b, u)
      BY DEF ReceivedForUser, Moved
    <3> QED BY <2>3, <3>1, <3>2 DEF MoneyAt
  <2> QED BY <2>2, <2>3 DEF MoneyAt, Moved
<1> QED BY <1>1, DisbursementInvariant, PTL

(* What the owner's page shows adds up, at any moment.                      *)
THEOREM ThePageAddsUp == DisbursementSpec => []PageAddsUp
<1>1. DisbursementInv => PageAddsUp
  <2> SUFFICES ASSUME DisbursementInv, Alone, NEW b \in Batches, page[b].pc = "shown"
               PROVE  /\ Card(b).badges.paid <= NumberOf(Card(b).items, "PAID")
                      /\ Card(b).badges.skipped <= NumberOf(Card(b).items, "SKIPPED")
                      /\ Card(b).headline # "Disbursing" =>
                           Card(b).badges = CountsOf(Card(b).items)
    BY DEF PageAddsUp, NumberOf, CountsOf
  <2>1. /\ Card(b).badges = page[b].row.counts /\ Card(b).items = page[b].items
        /\ Card(b).headline # "Disbursing" => page[b].row.status # "PROCESSING"
    BY DEF Card
  <2> QED BY <2>1 DEF DisbursementInv, ShownInv
<1> QED BY <1>1, DisbursementInvariant, PTL

(* What a finished disbursement says is so.                                 *)
LEMMA FinishedIsTrue ==
  ASSUME DisbursementInv
  PROVE  DisbursementTypeOK /\ EveryItemDecided /\ CountsMatchItems
<1>1. DisbursementTypeOK
  BY CountsAre DEF DisbursementInv, Types, Batch, Runner, Screen, CountInv, CountIn, ItemUsers,
     DisbursementTypeOK
<1>2. EveryItemDecided
  <2> SUFFICES ASSUME NEW b \in Batches, IsFinal(b), NEW u \in ItemUsers(b)
               PROVE  batch[b].items[u] \in Settled
    BY DEF EveryItemDecided
  <2>1. u \in People /\ batch[b].items[u] # "NONE" /\ batch[b].items[u] # "PENDING"
    BY DEF DisbursementInv, ItemsInv, DecidedIn, ItemUsers
  <2> QED BY <2>1 DEF DisbursementInv, Types, Batch
<1>3. CountsMatchItems
  <2> SUFFICES ASSUME Alone, NEW b \in Batches, IsFinal(b)
               PROVE  /\ batch[b].counts = Counts(b)
                      /\ batch[b].status = "COMPLETED" =>
                           \A u \in ItemUsers(b) : batch[b].items[u] = "PAID"
    BY DEF CountsMatchItems
  <2>1. TallyIn(b) /\ CountIn(b)
    BY DEF DisbursementInv, TallyInv, CountInv
  <2>2. ASSUME batch[b].status = "COMPLETED"
        PROVE  \A u \in ItemUsers(b) : batch[b].items[u] = "PAID"
    <3>1. /\ NumberOf(batch[b].items, "PAID") = batch[b].total
          /\ Cardinality(UsersOf(batch[b].items)) <= batch[b].total
      BY <2>1, <2>2, CountsAre DEF TallyIn, CountIn, CountsOf
    <3>2. NumberOf(batch[b].items, "PAID") \in Nat /\ Cardinality(UsersOf(batch[b].items)) \in Nat
      BY NumbersAre
    <3>3. NumberOf(batch[b].items, "PAID") >= Cardinality(UsersOf(batch[b].items))
      BY <3>1, <3>2
    <3> QED BY <3>3, AllPaid, CountsAre
  <2> QED BY <2>1, <2>2 DEF TallyIn
<1> QED BY <1>1, <1>2, <1>3

(* With one server its runner is gone, and no other one touches it.         *)
LEMMA FinishedStays ==
  ASSUME DisbursementInv, [DisbursementNext]_disburseVars, Alone, NEW b \in Batches, IsFinal(b)
  PROVE  batch'[b] = batch[b] /\ \A u \in People : paid'[<<b, u>>] = paid[<<b, u>>]
<1>1. PICK s \in Servers : s \in scene.servers
  BY TheServer DEF DisbursementInv
<1>2. \A t \in Servers : runner[<<t, b>>].pc \in {"idle", "status"}
  <2> SUFFICES ASSUME NEW t \in Servers, runner[<<t, b>>].pc # "idle"
               PROVE  runner[<<t, b>>].pc = "status"
    OBVIOUS
  <2>1. ListAt(t, b)
    BY AtWork
  <2> QED BY <2>1 DEF ListAt
<1>3. batch[b].status # "NONE"
  BY DEF IsFinal, Final
<1>4. CASE UNCHANGED disburseVars
  BY <1>4 DEF disburseVars, payVars
<1>5. CASE OwnerNext
  BY <1>5 DEF OwnerNext, Edit, Enroll, RemoveBeneficiary, VerifyAccount, UpdateBeneficiary,
     CloseProgram, payVars
<1>6. ASSUME NEW a \in Batches,
             \/ Disburse(a) \/ BulkDisburse(a) \/ GiveUp(a)
             \/ OpenBatch(a) \/ ReadBatch(a) \/ Poll(a)
             \/ \E u \in People : EnrollNext(a, u)
      PROVE  batch' = batch /\ paid' = paid
  BY <1>6 DEF Disburse, BulkDisburse, Ask, GiveUp, OpenBatch, ReadBatch, Poll, EnrollNext, payVars
<1>7. ASSUME NEW a \in Batches, NEW t \in Servers, CreateDisbursement(t, a)
      PROVE  paid' = paid /\ batch'[b] = batch[b]
  <2>1. a # b
    BY <1>3, <1>7 DEF CreateDisbursement, DisbursementInv, CreatedInv
  <2> QED BY <1>7, <2>1 DEF CreateDisbursement, payVars, DisbursementInv, Types
<1>8. ASSUME NEW a \in Batches, NEW t \in Servers,
             \/ Resume(t, a) \/ ReadStatus(t, a) \/ ReadItems(t, a)
      PROVE  paid' = paid /\ batch' = batch
  BY <1>8 DEF Resume, ReadStatus, ReadItems, payVars
<1>9. ASSUME NEW a \in Batches, NEW t \in Servers,
             \/ Crash(t, a) \/ \E u \in People : NextItem(t, a, u)
      PROVE  paid' = paid /\ batch' = batch
  BY <1>9 DEF Crash, NextItem, DropPay, BeginPay, payVars
<1>10. ASSUME NEW a \in Batches, NEW t \in Servers, Paying(t, a)
       PROVE  batch' = batch /\ \A u \in People : paid'[<<b, u>>] = paid[<<b, u>>]
  <2> DEFINE r == <<t, a>>
  <2>1. runner[r].pc = "paying" /\ StepPay(r) /\ batch' = batch
    BY <1>10 DEF Paying
  <2>2. a # b
    BY <1>2, <2>1
  <2>3. r \in Payers /\ PayAt(r) /\ ItemsAt(t, a) /\ PayTypeOK
    BY <2>1, AtWork DEF DisbursementInv, Types
  <2>4. pay[r].key = <<a, runner[r].user>> /\ runner[r].user \in People
    BY <2>1, <2>3 DEF PayAt, ItemsAt, Reading, ItemUsers
  <2>5. pay[r].key \in PayKeys /\ \A u \in People : <<b, u>> \in PayKeys /\ <<b, u>> # pay[r].key
    BY <2>2, <2>4, DisbursementAssumption
  <2>6. \A q \in PayKeys : q # pay[r].key => paid'[q] = paid[q]
    BY <2>1, <2>3, <2>5, StepPayIs
  <2> QED BY <2>1, <2>5, <2>6
<1>11. ASSUME NEW a \in Batches, NEW t \in Servers,
              RecordUnpaid(t, a) \/ RecordPaid(t, a) \/ FlushProgress(t, a) \/ Finalize(t, a)
       PROVE  batch'[b] = batch[b] /\ paid' = paid
  <2>1. /\ paid' = paid /\ runner[<<t, a>>].pc \notin {"idle", "status"}
        /\ \/ batch' = batch
           \/ \E new : batch' = [batch EXCEPT ![a] = new]
    <3>1. CASE RecordUnpaid(t, a)
      BY <3>1 DEF RecordUnpaid, RecordItem, payVars
    <3>2. CASE RecordPaid(t, a)
      BY <3>2 DEF RecordPaid, RecordItem
    <3>3. CASE FlushProgress(t, a)
      BY <3>3 DEF FlushProgress, payVars
    <3>4. CASE Finalize(t, a)
      BY <3>4 DEF Finalize, payVars
    <3> QED BY <1>11, <3>1, <3>2, <3>3, <3>4
  <2>2. a # b
    BY <1>2, <2>1
  <2> QED BY <2>1, <2>2 DEF DisbursementInv, Types
<1> QED BY <1>4, <1>5, <1>6, <1>7, <1>8, <1>9, <1>10, <1>11 DEF DisbursementNext, Run

(* A finished disbursement has decided every item, its counters are those   *)
(* of its items, COMPLETED means all are paid, and with one server nothing  *)
(* of it changes any more, the money of its items neither.                  *)
THEOREM BatchesHold == DisbursementSpec => BatchesAreSound
<1>1. DisbursementInv => DisbursementTypeOK /\ EveryItemDecided /\ CountsMatchItems
  BY FinishedIsTrue
<1>2. DisbursementInv /\ [DisbursementNext]_disburseVars =>
        [Alone => \A b \in Batches : IsFinal(b) =>
           /\ batch'[b] = batch[b]
           /\ \A u \in People : paid'[<<b, u>>] = paid[<<b, u>>]]_disburseVars
  BY FinishedStays
<1> QED BY <1>1, <1>2, DisbursementInvariant, PTL
        DEF DisbursementSpec, BatchesAreSound, DisbursementIsClosed
=========================================================================
