------------------------------ MODULE Settlement -----------------------------
(***************************************************************************)
(* DebtService: one group's debts, and the settlements that pay a computed *)
(* plan line by line through TransferService.execute, survive a crash, and *)
(* are resumed by a sweep on any server.                                   *)
(*                                                                         *)
(* A settlement is named by the idempotency key it was confirmed with, its *)
(* line n is paid under the key <<settlement, n>> ('stl-<id>-<seq>').  A   *)
(* runner <<s, k>> is the call of _run for settlement k on server s.  One  *)
(* process is the normal deployment; with a second one (a rolling deploy)  *)
(* two runners of one settlement may overlap.                              *)
(*                                                                         *)
(* The definitions commented "slip" are plausible mistakes in the code.    *)
(***************************************************************************)
EXTENDS Payments, SettlementMath, Money

CONSTANTS
  Servers,      \* backend processes
  Settlements,  \* idempotency keys of confirmations
  Founders,     \* members the group is created with
  Scenes,       \* bound: the servers that are up, the keys confirmed, whether
                \* some may be without a hash, the users who join, the edges
                \* recorded first, the debts and expenses that may be recorded
                \* later, and how many of them are
  MaxCrashes    \* bound: runs that end in a crash or a database error

ASSUME SettlementAssumption ==
  /\ Payers = Servers \X Settlements
  /\ PayKeys \subseteq Settlements \X Nat
  /\ RetryPays = PayKeys
  /\ IsFiniteSet(Settlements)

(* A scene is a real group: what it owes at first, what its members type,   *)
(* and room for the lines of a plan, which are fewer than its members.      *)
ASSUME ScenesAssumption ==
  \A sc \in Scenes :
    LET people == Founders \cup sc.joiners IN
    /\ sc \in [servers : SUBSET Servers, keys : SUBSET Settlements, bare : BOOLEAN,
               first : Seq([debtor : Founders, creditor : Founders, amount : Nat \ {0}]),
               joiners : SUBSET Int,
               debts : SUBSET [debtor : Int, creditor : Int,
                               typed : [whole : Nat, frac : Seq(0..9)]],
               expenses : SUBSET [payer : Int, total : Nat, participants : SUBSET Int],
               more : Nat]
    /\ \A i \in DOMAIN sc.first : sc.first[i].debtor # sc.first[i].creditor
    /\ \A x \in sc.expenses : IsFiniteSet(x.participants) /\ x.participants # {}
    /\ people \subseteq Int /\ IsFiniteSet(people) /\ IsFiniteSet(sc.servers)
    /\ Settlements \X (1..(Cardinality(people) - 1)) \subseteq PayKeys

VARIABLES
  members,     \* debt_group_members
  debts,       \* the debts of the group, in order of creation
  settlement,  \* the debt_settlements row of each key, with its lines, and
               \* whether its plan was compared with the one on a page
  preview,     \* the plan a group page shows, for the debts it is computed from
  runner,      \* the state of _run, idle when the key is not in _running
  scene,       \* one of Scenes, less what has been recorded by now
  crashes,     \* runs that did not end by themselves
  doubt        \* keys whose execute did not tell for sure (for the properties)

settleVars == <<members, debts, settlement, preview, runner, scene, crashes, doubt,
                paid, pay>>

Kind == {"DEBT", "EXPENSE_SHARE", "SETTLEMENT_PAYMENT"}
Final == {"COMPLETED", "PARTIAL", "FAILED"}
NoPreview == [ids |-> {}, plan |-> {}]
NoSettlement == [status |-> "NONE", lines |-> <<>>, success |-> 0, checked |-> FALSE]
Idle == [pc |-> "idle", todo |-> {}]

(* The type invariant: the CHECK constraints of the tables (no debt to      *)
(* oneself, positive amounts) and the values of the local variables.        *)
SettlementTypeOK ==
  /\ PayTypeOK
  /\ members \subseteq Founders \cup scene.joiners
  /\ \A i \in DOMAIN debts :
       /\ debts[i].debtor \in members /\ debts[i].creditor \in members
       /\ debts[i].debtor # debts[i].creditor
       /\ debts[i].amount > 0
       /\ debts[i].kind \in Kind
       /\ debts[i].status \in {"PENDING", "PROCESSING", "COMPLETED"}
  /\ \A k \in Settlements :
       /\ settlement[k].status \in Final \cup {"NONE", "PROCESSING"}
       /\ settlement[k].success \in 0..Len(settlement[k].lines)
       /\ \A n \in DOMAIN settlement[k].lines :
            settlement[k].lines[n].status \in {"PENDING", "COMPLETED", "FAILED"}
  /\ \A r \in Payers : runner[r].pc \in
       {"idle", "status", "lines", "next", "paying", "record", "finalize"}

-------------------------------------------------------------------------------
NewDebt(e, kind) ==
  [debtor |-> e.debtor, creditor |-> e.creditor, amount |-> e.amount,
   kind |-> kind, status |-> "PENDING", settlement |-> "none"]

SettlementInit ==
  /\ PayInit
  /\ members = Founders
  /\ settlement = [k \in Settlements |-> NoSettlement]
  /\ preview = NoPreview
  /\ runner = [r \in Payers |-> Idle]
  /\ scene \in Scenes
  /\ debts = [i \in DOMAIN scene.first |-> NewDebt(scene.first[i], "DEBT")]
  /\ crashes = 0
  /\ doubt = {}

(* addMember: ON CONFLICT DO NOTHING; nobody leaves a group.                *)
AddMember(u) ==
  /\ u \in scene.joiners \ members
  /\ members' = members \cup {u}
  /\ UNCHANGED <<debts, settlement, preview, runner, scene, crashes, doubt, payVars>>

Insert(edges, kind) ==
  debts' = debts \o [i \in DOMAIN SetToSeq(edges) |-> NewDebt(SetToSeq(edges)[i], kind)]

Recorded(edges, kind) ==
  /\ scene.more > 0
  /\ Insert(edges, kind)
  /\ scene' = [scene EXCEPT !.more = @ - 1]
  /\ UNCHANGED <<members, settlement, preview, runner, crashes, doubt, payVars>>

(* The amount is what the member typed.                                     *)
AddDebt(e) ==
  /\ {e.debtor, e.creditor} \subseteq members
  /\ e.debtor # e.creditor
  /\ Accepted(e.typed)
  /\ Recorded({[debtor |-> e.debtor, creditor |-> e.creditor, amount |-> BdtToPaisa(e.typed)]},
              "DEBT")

(* addExpense: the shares of the others are inserted in one transaction.    *)
AddExpense(x) ==
  /\ {x.payer} \cup x.participants \subseteq members
  /\ Recorded(ExpenseShares(x.total, x.payer, x.participants), "EXPENSE_SHARE")

-------------------------------------------------------------------------------
(* The PENDING debts in the order the database happens to return them.      *)
Pending == {i \in DOMAIN debts : debts[i].status = "PENDING"}
InOrder(order) == [i \in DOMAIN order |-> debts[order[i]]]

DebtsOf(k) == {i \in DOMAIN debts :
                 debts[i].status = "PROCESSING" /\ debts[i].settlement = k}
WithStatus(ids, status, k) ==
  [i \in DOMAIN debts |->
     IF i \in ids THEN [debts[i] EXCEPT !.status = status, !.settlement = k] ELSE debts[i]]

(* previewSettlement, and runPreview of the page; not modelled any more     *)
(* once all keys of the scene are used.                                     *)
Plan(order) == OptimizeSettlement(InOrder(order))

Preview ==
  /\ \E k \in scene.keys : settlement[k].status = "NONE"
  /\ \E order \in SetToSeqs(Pending) :
       preview' = [ids |-> Pending, plan |-> ToSet(Plan(order))]
  /\ UNCHANGED <<members, debts, settlement, runner, scene, crashes, doubt, payVars>>

(* The SERIALIZABLE transaction of settle: the PENDING debts are locked and *)
(* planned anew.  One with nothing to settle is refused, and so is a        *)
(* confirmation whose plan_hash is not this plan's.  The page's             *)
(* confirmSettle sends the hash of the plan it shows, under a new key; but  *)
(* the API takes a call without one (settlement.mjs makes it), and settles  *)
(* whatever is owed.  Then this process runs the settlement.                *)
LinesOf(plan) ==
  [n \in DOMAIN plan |-> [from |-> plan[n].from, to |-> plan[n].to,
                          amount |-> plan[n].amount, status |-> "PENDING"]]
Confirmed == PlanHash(preview.ids, preview.plan)
TakenButNewest == Pending \ {Len(debts)}  \* slip: a debt added meanwhile is planned, not taken
Taken == Pending

Settle(s, k) ==
  /\ s \in scene.servers
  /\ k \in scene.keys
  /\ settlement[k].status = "NONE"
  /\ \E order \in SetToSeqs(Pending), sent \in BOOLEAN :
       /\ sent \/ scene.bare
       /\ sent => PlanHash(Pending, ToSet(Plan(order))) = Confirmed
       /\ Plan(order) # <<>>
       /\ settlement' = [settlement EXCEPT ![k] =
                           [NoSettlement EXCEPT !.status = "PROCESSING", !.checked = sent,
                                                !.lines = LinesOf(Plan(order))]]
       /\ preview' = IF sent THEN NoPreview ELSE preview
  /\ debts' = WithStatus(Taken, "PROCESSING", k)
  /\ runner' = [runner EXCEPT ![<<s, k>>] = [Idle EXCEPT !.pc = "status"]]
  /\ UNCHANGED <<members, scene, crashes, doubt, payVars>>

-------------------------------------------------------------------------------
(* _run *)

RunnerAt(r, pc) == runner' = [runner EXCEPT ![r].pc = pc]
RestOfTable == <<members, debts, preview, scene>>

(* _run for a settlement that is there: settle was called again with its    *)
(* key, or lost the race of the insert, or the sweep found no progress for  *)
(* 90 seconds.  Whoever calls has seen it PROCESSING, possibly a while ago. *)
(* A settlement in _running is not run again by the same process.           *)
Resume(s, k) ==
  /\ s \in scene.servers
  /\ settlement[k].status # "NONE"
  /\ runner[<<s, k>>].pc = "idle"
  /\ runner' = [runner EXCEPT ![<<s, k>>] = [Idle EXCEPT !.pc = "status"]]
  /\ UNCHANGED <<RestOfTable, settlement, crashes, doubt, payVars>>

ToRun(k) == settlement[k].status = "PROCESSING"

ReadStatus(s, k) ==
  /\ runner[<<s, k>>].pc = "status"
  /\ RunnerAt(<<s, k>>, IF ToRun(k) THEN "lines" ELSE "idle")
  /\ UNCHANGED <<RestOfTable, settlement, crashes, doubt, payVars>>

Undone(k) ==
  {n \in DOMAIN settlement[k].lines : settlement[k].lines[n].status # "COMPLETED"}

(* The lines to pay are read once, and paid in seq order.                   *)
FirstOf(r) == Min(runner[r].todo)
ReadLines(s, k) ==
  /\ runner[<<s, k>>].pc = "lines"
  /\ runner' = [runner EXCEPT ![<<s, k>>].pc = "next",
                              ![<<s, k>>].todo = Undone(k)]
  /\ UNCHANGED <<RestOfTable, settlement, crashes, doubt, payVars>>

AlreadyPaid(k) == paid[k] = "moved"

(* getByIdempotencyKey decides whether the next line is paid at all.        *)
NextLine(s, k) ==
  LET r == <<s, k>> IN
  /\ runner[r].pc = "next"
  /\ \/ /\ runner[r].todo = {}
        /\ RunnerAt(r, "finalize")
        /\ UNCHANGED payVars
     \/ /\ runner[r].todo # {}
        /\ LET key == <<k, FirstOf(r)>> IN
           \/ /\ AlreadyPaid(key)
              /\ RunnerAt(r, "record")
              /\ UNCHANGED payVars
           \/ /\ ~AlreadyPaid(key)
              /\ BeginPay(r, key)
              /\ RunnerAt(r, "paying")
  /\ UNCHANGED <<RestOfTable, settlement, crashes, doubt>>

Paying(s, k) ==
  /\ runner[<<s, k>>].pc = "paying"
  /\ StepPay(<<s, k>>)
  /\ UNCHANGED <<RestOfTable, settlement, runner, crashes, doubt>>

(* Any transfer execute returns makes the line COMPLETED, one in flight     *)
(* too; any error makes it FAILED.                                          *)
SuccessOnly(answer) ==  \* slip: only a success is recorded
  IF answer \in {"COMPLETED", "IN_FLIGHT"} THEN "COMPLETED" ELSE "PENDING"
VerdictOn(answer) == IF answer \in {"COMPLETED", "IN_FLIGHT"} THEN "COMPLETED" ELSE "FAILED"

RecordAs(r, n, status) ==
  /\ settlement' = [settlement EXCEPT ![r[2]].lines[n].status = status]
  /\ runner' = [runner EXCEPT ![r].pc = "next", ![r].todo = @ \ {n}]

(* The UPDATE of the line asks for its id alone.  last_progress_at, written *)
(* next, only delays the sweep, which may come at any time here.            *)
RecordResult(s, k) ==
  LET r == <<s, k>> IN
  /\ runner[r].pc = "paying"
  /\ pay[r].pc = "answered"
  /\ RecordAs(r, FirstOf(r), VerdictOn(pay[r].answer))
  /\ doubt' = IF pay[r].answer \in {"UNCERTAIN", "IN_FLIGHT"}
              THEN doubt \cup {pay[r].key} ELSE doubt
  /\ pay' = [pay EXCEPT ![r] = FreshPay]
  /\ UNCHANGED <<RestOfTable, crashes, paid>>

RecordAlreadyPaid(s, k) ==
  LET r == <<s, k>> IN
  /\ runner[r].pc = "record"
  /\ RecordAs(r, FirstOf(r), "COMPLETED")
  /\ UNCHANGED <<RestOfTable, crashes, doubt, payVars>>

-------------------------------------------------------------------------------
(* _finalize: one SERIALIZABLE transaction, which counts the COMPLETED      *)
(* lines; anything less than all of them reopens the debts.                 *)
Done(k) ==
  {n \in DOMAIN settlement[k].lines : settlement[k].lines[n].status = "COMPLETED"}
FinalStatus(k) ==
  IF Cardinality(Done(k)) = Len(settlement[k].lines) THEN "COMPLETED"
  ELSE IF Cardinality(Done(k)) > 0 THEN "PARTIAL" ELSE "FAILED"

(* What a line of a PARTIAL settlement becomes: its receiver owes its payer.*)
Payment(l) == [debtor |-> l.to, creditor |-> l.from, amount |-> l.amount]

ReopenedNone(k) == debts  \* slip: the debts of a failed settlement are forgotten
Reopened(k) ==
  WithStatus(DebtsOf(k), "PENDING", "none")

(* They are inserted in whatever order the database returns the lines.      *)
PaymentsMade(k) ==
  LET done == SetToSeq(Done(k)) IN
  [i \in DOMAIN done |->
     [NewDebt(Payment(settlement[k].lines[done[i]]), "SETTLEMENT_PAYMENT")
        EXCEPT !.settlement = k]]

Closed(k) ==
  CASE FinalStatus(k) = "COMPLETED" -> WithStatus(DebtsOf(k), "COMPLETED", k)
    [] FinalStatus(k) = "PARTIAL" -> Reopened(k) \o PaymentsMade(k)
    [] FinalStatus(k) = "FAILED" -> Reopened(k)

Finalize(s, k) ==
  /\ runner[<<s, k>>].pc = "finalize"
  /\ RunnerAt(<<s, k>>, "idle")
  /\ \/ /\ settlement[k].status = "PROCESSING"
        /\ debts' = Closed(k)
        /\ settlement' = [settlement EXCEPT ![k].status = FinalStatus(k),
                                            ![k].success = Cardinality(Done(k))]
     \/ /\ settlement[k].status # "PROCESSING"
        /\ UNCHANGED <<debts, settlement>>
  /\ UNCHANGED <<members, preview, scene, crashes, doubt, payVars>>

(* A statement fails or the server dies: _run is over, with what it has     *)
(* committed; `finally` or the restart takes the key out of _running.       *)
StillRunning(r) == runner  \* slip: no finally
Stopped(r) == [runner EXCEPT ![r] = Idle]

Crash(s, k) ==
  LET r == <<s, k>> IN
  /\ crashes < MaxCrashes
  /\ runner[r].pc # "idle"
  /\ runner' = Stopped(r)
  /\ IF Calling(r) THEN DropPay(r) ELSE UNCHANGED payVars
  /\ crashes' = crashes + 1
  /\ UNCHANGED <<RestOfTable, settlement, doubt>>

Run(s, k) ==
  \/ ReadStatus(s, k) \/ ReadLines(s, k) \/ NextLine(s, k) \/ Paying(s, k)
  \/ RecordResult(s, k) \/ RecordAlreadyPaid(s, k) \/ Finalize(s, k)

-------------------------------------------------------------------------------
(* What the pages show *)

Edges(status) == Restrict(debts, {i \in DOMAIN debts : debts[i].status \in status})
Balances == [m \in members |-> NetOf(Edges({"PENDING"}), m)]

(* getGroup: balances and the outstanding sum are of the PENDING debts, the *)
(* history is of all.                                                       *)
GroupPage ==
  [balances |-> Balances, history |-> debts,
   outstanding |-> MapThenSumSet(LAMBDA i : debts[i].amount, Pending)]

(* getSettlement, and the card of a settlement that is over: the count is   *)
(* stored in the row, the lines are those of now.                           *)
SettlementPage(k) ==
  [status |-> settlement[k].status, success |-> settlement[k].success,
   lines |-> settlement[k].lines, balances |-> Balances]
Result(k) ==
  LET page == SettlementPage(k) IN
  [badge |-> page.status, done |-> page.success, of |-> Len(page.lines), lines |-> page.lines]

-------------------------------------------------------------------------------
UserNext ==
  \/ \E u \in scene.joiners : AddMember(u)
  \/ \E e \in scene.debts : AddDebt(e)
  \/ \E x \in scene.expenses : AddExpense(x)
  \/ Preview

SettlementNext ==
  \/ UserNext
  \/ \E s \in Servers, k \in Settlements :
       \/ Settle(s, k) \/ Resume(s, k) \/ Run(s, k) \/ Crash(s, k)

SettlementSpec == SettlementInit /\ [][SettlementNext]_settleVars

(* The sweep comes every 60 seconds, and a runner is resumed whenever its   *)
(* statement is answered.                                                   *)
SettlementFairSpec ==
  /\ SettlementSpec
  /\ \A s \in Servers, k \in Settlements :
       WF_settleVars(Resume(s, k)) /\ WF_settleVars(Run(s, k))

-------------------------------------------------------------------------------
(* Safety *)

Alone == Cardinality(scene.servers) = 1
IsFinal(k) == settlement[k].status \in Final

(* No debt is stranded: a debt is PROCESSING exactly while the settlement   *)
(* it names is, whatever crashes, resumes and second servers there were.    *)
ProcessingDebtsHaveOwner ==
  /\ \A i \in DOMAIN debts :
       debts[i].status = "PROCESSING" => settlement[debts[i].settlement].status = "PROCESSING"
  /\ \A k \in Settlements : settlement[k].status = "PROCESSING" => DebtsOf(k) # {}

(* The card of a settlement adds up: no line nobody has tried is left, also *)
(* when two servers ran it, and with one the "n of m completed", counted    *)
(* before, is the number of lines marked COMPLETED.                         *)
EveryLineDecided ==
  \A k \in Settlements : IsFinal(k) =>
    LET lines == Result(k).lines
        number(status) == Cardinality({n \in DOMAIN lines : lines[n].status = status}) IN
    /\ number("PENDING") = 0
    /\ Alone => /\ Result(k).done = number("COMPLETED")
                /\ Result(k).badge = "COMPLETED" <=> Result(k).done = Result(k).of

(* The books balance: for every member, what the group page shows and what  *)
(* is being settled is what was recorded, changed by exactly the lines that *)
(* the finished settlements count as paid; across partial settlements whose *)
(* payments are debts of the next one.  One server, because a second may    *)
(* rewrite a line later.                                                    *)
Counted == {k \in Settlements : settlement[k].status \in {"COMPLETED", "PARTIAL"}}

BooksBalance ==
  Alone => \A m \in members :
    GroupPage.balances[m] + NetOf(Edges({"PROCESSING"}), m)
      = NetOf(Restrict(debts, {i \in DOMAIN debts : debts[i].kind # "SETTLEMENT_PAYMENT"}), m)
        + SumFunction([k \in Counted |-> PaidBy(Restrict(settlement[k].lines, Done(k)), m)])

(* The lines of a finished settlement say what happened to the money,       *)
(* whatever failed and was resumed on the way, unless execute itself could  *)
(* not tell (TRANSFER_UNCERTAIN, or a transfer in flight).                  *)
LinesTellTheTruth ==
  Alone => \A k \in Settlements : IsFinal(k) =>
    \A n \in DOMAIN settlement[k].lines :
      <<k, n>> \in doubt \/ (settlement[k].lines[n].status = "COMPLETED" <=> paid[<<k, n>>] = "moved")

(* Whatever is owed by whom: the plan settles every balance, in fewer lines *)
(* than members, and does not depend on the order the rows come in.         *)
PlansAreRight == PlanClears(InOrder(SetToSeq(Pending))) /\ PlanIsStable(InOrder(SetToSeq(Pending)))

(* No paisa is lost or made between what members type or share and what is  *)
(* recorded, nor when it is shown again.                                    *)
AmountsAreExact ==
  /\ \A x \in scene.expenses : SplitAddsUp(x.total, x.payer, x.participants)
  /\ \A e \in scene.debts : Accepted(e.typed) =>
       /\ Exactly(e.typed, BdtToPaisa(e.typed))
       /\ Exactly(PaisaToBdt(BdtToPaisa(e.typed)), BdtToPaisa(e.typed))

(* Action properties *)

(* A settlement takes all debts that are owed when it begins, and its lines *)
(* pay exactly these.  "If any debt is added/changed between preview and    *)
(* execute ... a stale confirmation is rejected" (comment on planHash): if  *)
(* the hash was sent they are moreover the debts and the lines of the page. *)
SettlesWhatIsOwed ==
  [][\A k \in Settlements : settlement[k].status = "NONE" /\ settlement'[k].status # "NONE" =>
       /\ DebtsOf(k)' = Pending
       /\ \A m \in members :
            NetOf(Edges({"PENDING"}), m) + PaidBy(settlement'[k].lines, m) = 0
       /\ settlement'[k].checked =>
            /\ DebtsOf(k)' = preview.ids
            /\ ToSet(settlement'[k].lines) = ToSet(LinesOf(SetToSeq(preview.plan)))]_settleVars

(* With one server nothing of a finished settlement changes any more: not   *)
(* its verdict, not a line, and none of its money moves; "settled" is the   *)
(* last word to the payers.                                                 *)
SettlementIsClosed ==
  [][Alone => \A k \in Settlements : IsFinal(k) =>
       /\ settlement'[k] = settlement[k]
       /\ \A n \in DOMAIN settlement[k].lines : paid'[<<k, n>>] = paid[<<k, n>>]]_settleVars

(* A claim of a comment that the code does not keep.                        *)

(* "Record each completed transfer as a live payment so the group's net     *)
(* balances reflect what actually moved" (comment in _finalize).            *)
BooksFollowTheMoney ==
  \A k \in Settlements : IsFinal(k) =>
    \A n \in DOMAIN settlement[k].lines :
      settlement[k].lines[n].status = "COMPLETED" <=> paid[<<k, n>>] = "moved"

(* Liveness *)

(* "Crash recovery: finish any settlement stuck in PROCESSING" (comment on  *)
(* resumeStuckSettlements): every settlement is finished, so no debt stays  *)
(* locked, once the crashes stop.                                           *)
EverySettlementFinishes ==
  \A k \in Settlements : settlement[k].status = "PROCESSING" ~> IsFinal(k)

-------------------------------------------------------------------------------
(* The properties by what they are about; their parts are above.            *)

(* The tables: a debt taken out of the balances belongs to a settlement     *)
(* that runs, which alone can give it back.                                 *)
TablesAreSound == SettlementTypeOK /\ ProcessingDebtsHaveOwner

(* A finished settlement has decided each line, and each says what its      *)
(* transfer did.                                                            *)
LinesAreTrue == EveryLineDecided /\ LinesTellTheTruth

(* The optimiser, the shares and the amounts, on all small inputs.          *)
ArithmeticIsRight == PlansAreRight /\ AmountsAreExact

(* A settlement is what was owed, and shown to who sent the hash; and it    *)
(* stays what it became.                                                    *)
ConfirmedForGood == SettlesWhatIsOwed /\ SettlementIsClosed
===============================================================================
