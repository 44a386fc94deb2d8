----------------------------- MODULE Disbursement ----------------------------
(***************************************************************************)
(* StipendService: one programme, its beneficiaries, and the disbursements *)
(* that pay them one by one through TransferService.execute, standard or   *)
(* from a roster, and are resumed after a crash.                           *)
(*                                                                         *)
(* A disbursement is named by its idempotency key; beneficiary u is paid   *)
(* under <<disbursement, u>> ('dsb-<id>-<user>').  A runner <<s, b>> is    *)
(* the call of _runDisbursement for b on server s.  Amounts are left out:  *)
(* every target has one.                                                   *)
(*                                                                         *)
(* The definitions commented "slip" are plausible mistakes in the code.    *)
(***************************************************************************)
EXTENDS Payments, FiniteSetsExt

CONSTANTS
  Servers,      \* backend processes
  Batches,      \* idempotency keys of disbursements
  People,       \* users with an account who may be beneficiaries
  Scenes,       \* bound: [servers, enrolled, accounts, asks, edits, watched]: the
                \* servers that are up, the beneficiaries and the verified accounts
                \* at first, the requests made, the number of the owner's edits,
                \* whether the owner's page is open
  FlushEvery,   \* items between two updates of the counters (20 in the code)
  MaxCrashes    \* bound: requests and runs that end in a crash or an error

ASSUME DisbursementAssumption ==
  /\ Payers = Servers \X Batches
  /\ PayKeys = Batches \X People
  /\ RetryPays = PayKeys
(* There are finitely many accounts and processes.                          *)
ASSUME PeopleAssumption == IsFiniteSet(People) /\ IsFiniteSet(Servers)
(* What a scene is.                                                         *)
ASSUME ScenesAssumption ==
  Scenes \subseteq [servers : SUBSET Servers, enrolled : SUBSET People, accounts : SUBSET People,
                    asks : SUBSET {"all", "listed", "roster"}, edits : Nat, watched : BOOLEAN]

VARIABLES
  program,   \* stipend_programs.status
  enrolled,  \* stipend_beneficiaries.status of each user, NONE without a row
  accounts,  \* the users whose account is ACTIVE
  request,   \* a call of disburse or bulkDisburse for each key, before it creates
  batch,     \* the stipend_disbursements row of each key and its items
  page,      \* what the owner's page has read of each disbursement
  runner,    \* the state of _runDisbursement, idle when b is not in _running
  scene,     \* one of Scenes, less the edits made
  crashes,
  doubt      \* keys whose execute did not tell for sure (for the properties)

roster == <<program, enrolled, accounts>>
disburseVars == <<roster, page, request, batch, runner, scene, crashes, doubt, payVars>>

Settled == {"PAID", "FAILED", "SKIPPED"}
Final == {"COMPLETED", "PARTIAL", "FAILED"}
NoCounts == [paid |-> 0, failed |-> 0, skipped |-> 0]
NoBatch == [status |-> "NONE", total |-> 0, counts |-> NoCounts,
            items |-> [u \in People |-> "NONE"]]
NoRequest == [pc |-> "idle", targets |-> {}, toEnroll |-> {}, extra |-> 0]
NoPage == [pc |-> "closed", row |-> [status |-> "NONE", counts |-> NoCounts],
           items |-> NoBatch.items]
Idle == [pc |-> "idle", todo |-> {}, eligible |-> {}, user |-> NoPay, since |-> 0]

(* The type invariant; the progress counters never exceed the items.        *)
DisbursementTypeOK ==
  /\ PayTypeOK
  /\ program \in {"ACTIVE", "CLOSED"}
  /\ enrolled \in [People -> {"NONE", "ACTIVE", "SUSPENDED", "REMOVED"}]
  /\ accounts \subseteq People
  /\ \A b \in Batches :
       /\ batch[b].status \in Final \cup {"NONE", "PROCESSING"}
       /\ batch[b].items \in [People -> Settled \cup {"NONE", "PENDING"}]
       /\ batch[b].counts.paid + batch[b].counts.failed + batch[b].counts.skipped
            <= Cardinality({u \in People : batch[b].items[u] # "NONE"})
       /\ page[b].pc \in {"closed", "first", "second", "shown"}
  /\ \A r \in Payers : runner[r].eligible \subseteq People /\ runner[r].todo \subseteq People

DisbursementInit ==
  /\ PayInit
  /\ scene \in Scenes
  /\ program = "ACTIVE"
  /\ enrolled = [u \in People |-> IF u \in scene.enrolled THEN "ACTIVE" ELSE "NONE"]
  /\ accounts = scene.accounts
  /\ request = [b \in Batches |-> NoRequest]
  /\ batch = [b \in Batches |-> NoBatch]
  /\ page = [b \in Batches |-> NoPage]
  /\ runner = [r \in Payers |-> Idle]
  /\ crashes = 0
  /\ doubt = {}

-------------------------------------------------------------------------------
(* The owner's pages and the users' own accounts.                           *)
Edit ==
  /\ scene.edits > 0
  /\ scene' = [scene EXCEPT !.edits = @ - 1]
  /\ UNCHANGED <<page, request, batch, runner, crashes, doubt, payVars>>

SetStatus(u, status) ==
  /\ enrolled' = [enrolled EXCEPT ![u] = status]
  /\ UNCHANGED <<program, accounts>>

(* enroll: a new beneficiary, or a removed one again.                       *)
Enrollable(u) == program = "ACTIVE" /\ enrolled[u] \in {"NONE", "REMOVED"}
Enroll(u) == Edit /\ Enrollable(u) /\ SetStatus(u, "ACTIVE")

(* updateBeneficiary writes the status of any row, a REMOVED one included;  *)
(* neither it nor removeBeneficiary asks whether the programme is open.     *)
UpdateBeneficiary(u, status) == Edit /\ enrolled[u] # "NONE" /\ SetStatus(u, status)
RemoveBeneficiary(u) ==
  Edit /\ enrolled[u] \in {"ACTIVE", "SUSPENDED"} /\ SetStatus(u, "REMOVED")

CloseProgram == Edit /\ program' = "CLOSED" /\ UNCHANGED <<enrolled, accounts>>
VerifyAccount(u) ==
  /\ u \notin accounts
  /\ Edit
  /\ accounts' = accounts \cup {u}
  /\ UNCHANGED <<program, enrolled>>

-------------------------------------------------------------------------------
(* disburse and bulkDisburse, up to the batch.                              *)
Members == {u \in People : enrolled[u] \in {"ACTIVE", "SUSPENDED"}}

Ask(b, targets, toEnroll, extra) ==
  /\ program = "ACTIVE"
  /\ batch[b].status = "NONE"
  /\ request[b].pc = "idle"
  /\ targets \cup toEnroll # {}
  /\ request' = [request EXCEPT ![b] =
       [pc |-> "create", targets |-> targets, toEnroll |-> toEnroll, extra |-> extra]]
  /\ UNCHANGED <<roster, page, batch, runner, scene, crashes, doubt, payVars>>

(* _resolveStandardTargets: everybody, or the listed ones, suspended        *)
(* beneficiaries too.  A user listed twice counts twice in total_count.     *)
Disburse(b) ==
  \/ "all" \in scene.asks /\ Ask(b, Members, {}, 0)
  \/ /\ "listed" \in scene.asks
     /\ \E listed \in SUBSET Members, extra \in 0..1 : Ask(b, listed, {}, extra)

(* bulkDisburse: rows of unknown, institutional or repeated users and, with *)
(* auto_enroll off, of users not enrolled end up in `unresolved`.           *)
BulkDisburse(b) ==
  /\ "roster" \in scene.asks
  /\ \E rows \in SUBSET People, autoEnroll \in BOOLEAN :
       Ask(b, rows \cap Members, IF autoEnroll THEN rows \ Members ELSE {}, 0)

(* The roster's new users are enrolled one by one before the batch exists;  *)
(* one that cannot be (any more) is dropped.                                *)
EnrollNext(b, u) ==
  /\ request[b].pc = "create"
  /\ u \in request[b].toEnroll
  /\ IF Enrollable(u)
     THEN /\ SetStatus(u, "ACTIVE")
          /\ request' = [request EXCEPT ![b].toEnroll = @ \ {u}, ![b].targets = @ \cup {u}]
     ELSE /\ request' = [request EXCEPT ![b].toEnroll = @ \ {u}]
          /\ UNCHANGED roster
  /\ UNCHANGED <<page, batch, runner, scene, crashes, doubt, payVars>>

(* _createDisbursement: one transaction for the batch and its items; two    *)
(* rows of a user are one item.  Then this process runs it, in the request  *)
(* (standard) or after it (bulk).                                           *)
NewBatch(q) ==
  [status |-> "PROCESSING", total |-> Cardinality(q.targets) + q.extra,
   counts |-> NoCounts,
   items |-> [u \in People |-> IF u \in q.targets THEN "PENDING" ELSE "NONE"]]

CreateDisbursement(s, b) ==
  /\ s \in scene.servers
  /\ request[b].pc = "create"
  /\ request[b].toEnroll = {}
  /\ request[b].targets # {}
  /\ batch' = [batch EXCEPT ![b] = NewBatch(request[b])]
  /\ runner' = [runner EXCEPT ![<<s, b>>] = [Idle EXCEPT !.pc = "status"]]
  /\ request' = [request EXCEPT ![b] = NoRequest]
  /\ UNCHANGED <<roster, page, scene, crashes, doubt, payVars>>

(* noDisbursementTargets, or a crash: users enrolled by then stay enrolled. *)
GiveUp(b) ==
  /\ request[b].pc = "create"
  /\ \/ request[b].toEnroll = {} /\ request[b].targets = {} /\ UNCHANGED crashes
     \/ crashes < MaxCrashes /\ crashes' = crashes + 1
  /\ request' = [request EXCEPT ![b] = NoRequest]
  /\ UNCHANGED <<roster, page, batch, runner, scene, doubt, payVars>>

-------------------------------------------------------------------------------
(* _runDisbursement *)

RunnerAt(r, pc) == runner' = [runner EXCEPT ![r].pc = pc]
Counts(b) ==
  LET number(status) == Cardinality({u \in People : batch[b].items[u] = status}) IN
  [paid |-> number("PAID"), failed |-> number("FAILED"), skipped |-> number("SKIPPED")]

(* The key was sent again, or the sweep found no progress for 90 seconds;   *)
(* whoever calls has seen the batch PROCESSING, possibly a while ago.       *)
Resume(s, b) ==
  /\ s \in scene.servers
  /\ batch[b].status # "NONE"
  /\ runner[<<s, b>>].pc = "idle"
  /\ runner' = [runner EXCEPT ![<<s, b>>] = [Idle EXCEPT !.pc = "status"]]
  /\ UNCHANGED <<roster, page, request, batch, scene, crashes, doubt, payVars>>

RunAnyway(b) == TRUE  \* slip: the status is not read again
ToRun(b) == batch[b].status = "PROCESSING"

ReadStatus(s, b) ==
  /\ runner[<<s, b>>].pc = "status"
  /\ RunnerAt(<<s, b>>, IF ToRun(b) THEN "items" ELSE "idle")
  /\ UNCHANGED <<roster, page, request, batch, scene, crashes, doubt, payVars>>

(* The items to pay are read once, with the eligibility of their users; no  *)
(* order is asked for.  A guardian NID is on file for every beneficiary.    *)
ReadItems(s, b) ==
  /\ runner[<<s, b>>].pc = "items"
  /\ runner' = [runner EXCEPT
       ![<<s, b>>].pc = "next",
       ![<<s, b>>].todo = {u \in People : batch[b].items[u] \in {"PENDING", "FAILED"}},
       ![<<s, b>>].eligible = {u \in accounts : enrolled[u] = "ACTIVE"}]
  /\ UNCHANGED <<roster, page, request, batch, scene, crashes, doubt, payVars>>

AlreadyPaid(k) == paid[k] = "moved"

(* One item: reconcile a transfer that is done, skip who is not eligible,   *)
(* or pay.                                                                  *)
NextItem(s, b, u) ==
  LET r == <<s, b>> IN
  /\ runner[r].pc = "next"
  /\ u \in runner[r].todo
  /\ \/ /\ AlreadyPaid(<<b, u>>)
        /\ runner' = [runner EXCEPT ![r].pc = "already", ![r].user = u]
        /\ UNCHANGED payVars
     \/ /\ ~AlreadyPaid(<<b, u>>) /\ u \notin runner[r].eligible
        /\ runner' = [runner EXCEPT ![r].pc = "skip", ![r].user = u]
        /\ UNCHANGED payVars
     \/ /\ ~AlreadyPaid(<<b, u>>) /\ u \in runner[r].eligible
        /\ runner' = [runner EXCEPT ![r].pc = "paying", ![r].user = u]
        /\ BeginPay(r, <<b, u>>)
  /\ UNCHANGED <<roster, page, request, batch, scene, crashes, doubt>>

Paying(s, b) ==
  /\ runner[<<s, b>>].pc = "paying"
  /\ StepPay(<<s, b>>)
  /\ UNCHANGED <<roster, page, request, batch, runner, scene, crashes, doubt>>

(* Any transfer execute returns makes the item PAID, one in flight too.     *)
PaidAnyway(answer) == "PAID"  \* slip: the error is swallowed
ItemOn(answer) == IF answer \in {"COMPLETED", "IN_FLIGHT"} THEN "PAID" ELSE "FAILED"

(* The UPDATE of the item asks for its id alone.  Every FlushEvery items    *)
(* the counters follow.                                                     *)
RecordItem(r, status) ==
  LET u == runner[r].user
      since == runner[r].since + 1 IN
  /\ batch' = [batch EXCEPT ![r[2]].items[u] = status]
  /\ runner' = [runner EXCEPT ![r].pc = IF since >= FlushEvery THEN "flush" ELSE "next",
                              ![r].since = IF since >= FlushEvery THEN 0 ELSE since,
                              ![r].todo = @ \ {u}, ![r].user = NoPay]

RecordUnpaid(s, b) ==
  LET r == <<s, b>> IN
  /\ \/ runner[r].pc = "already" /\ RecordItem(r, "PAID")
     \/ runner[r].pc = "skip" /\ RecordItem(r, "SKIPPED")
  /\ UNCHANGED <<roster, page, request, scene, crashes, doubt, payVars>>

RecordPaid(s, b) ==
  LET r == <<s, b>> IN
  /\ runner[r].pc = "paying"
  /\ pay[r].pc = "answered"
  /\ RecordItem(r, ItemOn(pay[r].answer))
  /\ doubt' = IF pay[r].answer \in {"UNCERTAIN", "IN_FLIGHT"}
              THEN doubt \cup {pay[r].key} ELSE doubt
  /\ pay' = [pay EXCEPT ![r] = FreshPay]
  /\ UNCHANGED <<roster, page, request, scene, crashes, paid>>

(* _flushProgress, between items and as the first half of _finalize.        *)
FlushedCounts(b) == Counts(b)

FlushProgress(s, b) ==
  LET r == <<s, b>> IN
  /\ \/ runner[r].pc = "flush" /\ RunnerAt(r, "next")
     \/ runner[r].pc = "next" /\ runner[r].todo = {} /\ RunnerAt(r, "finalize")
  /\ batch' = [batch EXCEPT ![b].counts = FlushedCounts(b)]
  /\ UNCHANGED <<roster, page, request, scene, crashes, doubt, payVars>>

(* The second half is a statement of its own: the verdict comes from the    *)
(* counters in the row, and is given once.                                  *)
Verdict(row) ==
  IF row.counts.paid = row.total THEN "COMPLETED"
  ELSE IF row.counts.paid > 0 THEN "PARTIAL" ELSE "FAILED"

Finalize(s, b) ==
  /\ runner[<<s, b>>].pc = "finalize"
  /\ batch' = IF batch[b].status = "PROCESSING"
              THEN [batch EXCEPT ![b].status = Verdict(batch[b])] ELSE batch
  /\ runner' = [runner EXCEPT ![<<s, b>>] = Idle]
  /\ UNCHANGED <<roster, page, request, scene, crashes, doubt, payVars>>

StillRunning(r) == runner  \* slip: no finally
Stopped(r) == [runner EXCEPT ![r] = Idle]

Crash(s, b) ==
  LET r == <<s, b>> IN
  /\ crashes < MaxCrashes
  /\ runner[r].pc # "idle"
  /\ runner' = Stopped(r)
  /\ IF Calling(r) THEN DropPay(r) ELSE UNCHANGED payVars
  /\ crashes' = crashes + 1
  /\ UNCHANGED <<roster, page, request, batch, scene, doubt>>

Run(s, b) ==
  \/ ReadStatus(s, b) \/ ReadItems(s, b) \/ (\E u \in People : NextItem(s, b, u))
  \/ Paying(s, b) \/ RecordUnpaid(s, b) \/ RecordPaid(s, b)
  \/ FlushProgress(s, b) \/ Finalize(s, b)

-------------------------------------------------------------------------------
(* The pages.  The owner's shows a disbursement from the moment it exists,  *)
(* or from the list of the programme's; getDisbursement reads the row, then *)
(* the items, and the page asks again every second while it is PROCESSING.  *)
OpenBatch(b) ==
  /\ scene.watched
  /\ page[b].pc = "closed"
  /\ batch[b].status # "NONE"
  /\ page' = [page EXCEPT ![b].pc = "first"]
  /\ UNCHANGED <<roster, request, batch, runner, scene, crashes, doubt, payVars>>

RowOf(b) == [status |-> batch[b].status, counts |-> batch[b].counts]
ItemsFirst(pc) == IF pc = "first" THEN "items" ELSE "row"  \* slip: two queries swapped
ReadAt(pc) == IF pc = "first" THEN "row" ELSE "items"

ReadBatch(b) ==
  /\ page[b].pc \in {"first", "second"}
  /\ page' = [page EXCEPT
       ![b][ReadAt(page[b].pc)] = IF ReadAt(page[b].pc) = "row" THEN RowOf(b) ELSE batch[b].items,
       ![b].pc = IF page[b].pc = "first" THEN "second" ELSE "shown"]
  /\ UNCHANGED <<roster, request, batch, runner, scene, crashes, doubt, payVars>>

Poll(b) ==
  /\ page[b].pc = "shown"
  /\ page' = [page EXCEPT ![b].pc =
                IF page[b].row.status = "PROCESSING" THEN "first" ELSE "closed"]
  /\ UNCHANGED <<roster, request, batch, runner, scene, crashes, doubt, payVars>>

(* The card of the result: icon, headline and badges are of the row, the    *)
(* list below them of the items.                                            *)
Card(b) ==
  [headline |-> IF page[b].row.status = "PROCESSING" THEN "Disbursing" ELSE page[b].row.status,
   badges |-> page[b].row.counts, items |-> page[b].items]

(* The page of beneficiary u lists the COMPLETED transfers u received.      *)
ReceivedForUser(u) == {b \in Batches : paid[<<b, u>>] = "moved"}

OwnerNext ==
  \/ \E u \in People :
       \/ Enroll(u) \/ RemoveBeneficiary(u) \/ VerifyAccount(u)
       \/ \E status \in {"ACTIVE", "SUSPENDED"} : UpdateBeneficiary(u, status)
  \/ CloseProgram

DisbursementNext ==
  \/ OwnerNext
  \/ \E b \in Batches :
       \/ Disburse(b) \/ BulkDisburse(b) \/ GiveUp(b)
       \/ OpenBatch(b) \/ ReadBatch(b) \/ Poll(b)
       \/ \E u \in People : EnrollNext(b, u)
       \/ \E s \in Servers :
            CreateDisbursement(s, b) \/ Resume(s, b) \/ Run(s, b) \/ Crash(s, b)

DisbursementSpec == DisbursementInit /\ [][DisbursementNext]_disburseVars

(* The sweep comes every 60 seconds, and a runner is resumed whenever its   *)
(* statement is answered.                                                   *)
DisbursementFairSpec ==
  /\ DisbursementSpec
  /\ \A s \in Servers, b \in Batches :
       WF_disburseVars(Resume(s, b)) /\ WF_disburseVars(Run(s, b))

-------------------------------------------------------------------------------
(* Safety *)

Alone == Cardinality(scene.servers) = 1
IsFinal(b) == batch[b].status \in Final
ItemUsers(b) == {u \in People : batch[b].items[u] # "NONE"}

(* A disbursement is not finished over an item nobody has tried, also when  *)
(* two servers run it and one of them dies.                                 *)
EveryItemDecided ==
  \A b \in Batches : IsFinal(b) => \A u \in ItemUsers(b) : batch[b].items[u] \in Settled

(* The items of a finished disbursement agree with the beneficiaries' own   *)
(* pages on who was paid, whatever failed and was resumed on the way,       *)
(* unless execute itself could not tell.                                    *)
ItemsTellTheTruth ==
  Alone => \A b \in Batches : IsFinal(b) =>
    \A u \in ItemUsers(b) :
      <<b, u>> \in doubt \/ (batch[b].items[u] = "PAID" <=> b \in ReceivedForUser(u))

(* Nobody is called skipped who was paid: not even when the payment was     *)
(* made by a run that died before it could say so, and the beneficiary was  *)
(* suspended or removed meanwhile.                                          *)
SkippedIsUnpaid ==
  Alone => \A b \in Batches : \A u \in People :
    batch[b].items[u] = "SKIPPED" => paid[<<b, u>>] # "moved"

(* The counters of a finished disbursement are those of its items, though   *)
(* they are stored by another statement than the verdict, and COMPLETED     *)
(* means that everybody was paid.                                           *)
CountsMatchItems ==
  Alone => \A b \in Batches : IsFinal(b) =>
    /\ batch[b].counts = Counts(b)
    /\ batch[b].status = "COMPLETED" => \A u \in ItemUsers(b) : batch[b].items[u] = "PAID"

(* What the owner's page shows adds up, though it is read by two statements *)
(* while the runner, or the one that resumes after a crash, goes on: never  *)
(* more paid or skipped than the items below, and for a finished one all of *)
(* them exactly.                                                            *)
PageAddsUp ==
  Alone => \A b \in Batches : page[b].pc = "shown" =>
    LET number(status) == Cardinality({u \in People : Card(b).items[u] = status})
        counts == Card(b).badges IN
    /\ counts.paid <= number("PAID") /\ counts.skipped <= number("SKIPPED")
    /\ Card(b).headline # "Disbursing" =>
         counts = [paid |-> number("PAID"), failed |-> number("FAILED"),
                   skipped |-> number("SKIPPED")]

(* Action properties *)

(* With one server nothing of a finished disbursement changes any more, and *)
(* none of its money moves.                                                 *)
DisbursementIsClosed ==
  [][Alone => \A b \in Batches : IsFinal(b) =>
       /\ batch'[b] = batch[b]
       /\ \A u \in People : paid'[<<b, u>>] = paid[<<b, u>>]]_disburseVars

(* Liveness *)

(* "A crash-recovery sweep finishes any batch left in PROCESSING even if    *)
(* the client never retries" (comment on the disbursement engine).          *)
EveryDisbursementFinishes ==
  \A b \in Batches : batch[b].status = "PROCESSING" ~> IsFinal(b)

-------------------------------------------------------------------------------
(* The properties by what they are about; their parts are above.            *)

(* A finished batch has decided every item, its counts are those of its     *)
(* items, and it stays as it is.                                            *)
BatchesAreSound ==
  [](DisbursementTypeOK /\ EveryItemDecided /\ CountsMatchItems) /\ DisbursementIsClosed

(* PAID, FAILED and SKIPPED items each say what happened to the money.      *)
ItemsAreTrue == ItemsTellTheTruth /\ SkippedIsUnpaid
===============================================================================
