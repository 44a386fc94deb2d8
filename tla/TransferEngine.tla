---------------------------- MODULE TransferEngine ----------------------------
(***************************************************************************)
(* TransferService.execute and TransferService.verify, the money-movement  *)
(* primitive and the "What happened to my money?" reconciliation.          *)
(*                                                                         *)
(* Every statement sent on the pool is its own database transaction, so    *)
(* one action; every callback of withSerializableTransaction commits or    *)
(* rolls back as a whole, so one action that may also not happen.  Between *)
(* two actions of a request any other request may run, and the server may  *)
(* die.  Each member of Callers is one call of execute, each member of     *)
(* Verifiers one call of verify.                                           *)
(*                                                                         *)
(* The definitions commented "slip" are plausible mistakes in the code;    *)
(* the specification does not use them, they show what a property catches. *)
(***************************************************************************)
EXTENDS Integers, Sequences, FiniteSets, FiniteSetsExt, SequencesExt

CONSTANTS
  Users,      \* owners of a wallet
  Keys,       \* (sender_id, idempotency_key) pairs, the unique key of transfers
  RetryKeys,  \* the keys whose callers pass onPriorFailure: 'retry'
  Intent,     \* [Keys -> [from, to, amount]], the arguments sent under a key
  Opening,    \* [Users -> Nat], the initial funding of every wallet
  Callers,    \* calls of execute
  Verifiers,  \* calls of verify
  MaxPolls,   \* how often awaitSettled reads a row in flight (15 in the code)
  NoKey       \* the transfer_id NULL of an initial funding entry

ASSUME KeysAssumption == RetryKeys \subseteq Keys /\ NoKey \notin Keys
ASSUME UsersAssumption == IsFiniteSet(Users)
ASSUME OpeningAssumption == Opening \in [Users -> Nat]
ASSUME IntentAssumption ==
  /\ Intent \in [Keys -> [from : Users, to : Users, amount : Nat \ {0}]]
  /\ \A k \in Keys : Intent[k].from # Intent[k].to
ASSUME PollsAssumption == MaxPolls \in Nat

VARIABLES
  active,   \* the users whose account_status is ACTIVE
  balance,  \* wallets.balance_paisa
  ledger,   \* ledger_entries of each user, oldest first
  row,      \* the transfers row of each key
  events,   \* the transfer_events of each key, in seq order
  call,     \* the local state of each call of execute
  probe     \* the local state of each call of verify

db == <<active, balance, ledger, row, events>>
vars == <<active, balance, ledger, row, events, call, probe>>

-------------------------------------------------------------------------------
(* Types.  No statement ever writes the status PROCESSING to a row, so the  *)
(* only rows in flight are PENDING and VERIFYING ones.                      *)

InFlight == {"PENDING", "VERIFYING"}
Status == {"NONE", "COMPLETED", "FAILED"} \cup InFlight
Rejection == {"INSUFFICIENT_BALANCE", "RECEIVER_INACTIVE"}
Reason == {"none", "RECONCILED_NOT_PROCESSED"} \cup Rejection
EventName == {"INITIATED", "BALANCE_LOCKED", "PROCESSED", "COMPLETED", "FAILED",
              "CLIENT_CONFIRMATION_LOST", "VERIFIED"}

Row == [status : Status, reason : Reason, attempt : Nat]
Entry == [amount : Int, after : Nat, key : Keys \cup {NoKey}]

CallStep == {"idle", "resolve", "await", "insert", "initiate", "money",
             "markFailed", "logFailed", "done"}
Answer == {"none", "COMPLETED", "IN_FLIGHT", "FAILED", "UNCERTAIN", "LOST"}
Call == [pc : CallStep, key : Keys \cup {NoKey}, polls : Nat, second : BOOLEAN,
         reason : Reason, answer : Answer]

ProbeStep == {"idle", "readLedger", "readEvents", "reconcile", "reload", "done"}
Outcome == {"none", "DELIVERED", "NOT_SENT", "INDETERMINATE"}
Probe == [pc : ProbeStep, key : Keys \cup {NoKey}, status : Status,
          outcome : Outcome, newest : {"none"} \cup EventName, report : Status]

DatabaseTypeOK ==
  /\ active \subseteq Users
  /\ balance \in [Users -> Nat]
  /\ ledger \in [Users -> Seq(Entry)]
  /\ row \in [Keys -> Row]
  /\ events \in [Keys -> Seq(EventName)]

CallTypeOK ==
  /\ call \in [Callers -> Call]
  /\ \A c \in Callers : call[c].pc # "idle" => call[c].key \in Keys

ProbeTypeOK ==
  /\ probe \in [Verifiers -> Probe]
  /\ \A v \in Verifiers : probe[v].pc # "idle" => probe[v].key \in Keys

(* The type invariant: every row, ledger entry, event and local variable    *)
(* holds a value of its column or declaration; no balance is negative (the  *)
(* CHECK constraint on wallets never fires).                                *)
TypeOK == DatabaseTypeOK /\ CallTypeOK /\ ProbeTypeOK

-------------------------------------------------------------------------------
NoRow == [status |-> "NONE", reason |-> "none", attempt |-> 0]
Funding(u) == [amount |-> Opening[u], after |-> Opening[u], key |-> NoKey]
FreshCall == [pc |-> "idle", key |-> NoKey, polls |-> 0, second |-> FALSE,
              reason |-> "none", answer |-> "none"]
FreshProbe == [pc |-> "idle", key |-> NoKey, status |-> "NONE", outcome |-> "none",
               newest |-> "none", report |-> "NONE"]

Init ==
  /\ active \in SUBSET Users
  /\ balance = Opening
  /\ ledger = [u \in Users |-> <<Funding(u)>>]
  /\ row = [k \in Keys |-> NoRow]
  /\ events = [k \in Keys |-> <<>>]
  /\ call = [c \in Callers |-> FreshCall]
  /\ probe = [v \in Verifiers |-> FreshProbe]

(* A wallet owner confirms the e-mail address; accounts only ever become    *)
(* ACTIVE, no code deactivates one.                                         *)
Activate(u) ==
  /\ u \notin active
  /\ active' = active \cup {u}
  /\ UNCHANGED <<balance, ledger, row, events, call, probe>>

-------------------------------------------------------------------------------
(* execute: what a caller does after reading a row of its key.              *)

AfterRead == [NONE |-> "insert", COMPLETED |-> "done", FAILED |-> "resolve",
              PENDING |-> "await", VERIFYING |-> "await"]

AnswerAfterRead(s) == IF s = "COMPLETED" THEN "COMPLETED" ELSE "none"

Goto(c, step) == call' = [call EXCEPT ![c].pc = step]
Respond(c, answer) == call' = [call EXCEPT ![c].pc = "done", ![c].answer = answer]

(* findByIdempotencyKey: replay a COMPLETED transfer, resolve a FAILED one, *)
(* wait for one in flight, or create the row.                               *)
Lookup(c, k) ==
  /\ call[c].pc = "idle"
  /\ call' = [call EXCEPT ![c].pc = AfterRead[row[k].status],
                          ![c].key = k,
                          ![c].answer = AnswerAfterRead(row[k].status)]
  /\ UNCHANGED <<active, balance, ledger, row, events, probe>>

StuckPoll(n) == n  \* slip: the loop counter is not advanced
NextPoll(n) == n + 1

(* One read of awaitSettled: the row is terminal, or the caller sleeps, or  *)
(* it has slept MaxPolls times and returns the row in flight as its result. *)
Poll(c) ==
  LET s == row[call[c].key].status IN
  /\ call[c].pc = "await"
  /\ \/ /\ s \notin InFlight
        /\ call' = [call EXCEPT ![c].pc = AfterRead[s], ![c].answer = AnswerAfterRead(s)]
     \/ /\ s \in InFlight /\ call[c].polls < MaxPolls
        /\ call' = [call EXCEPT ![c].polls = NextPoll(@)]
     \/ /\ s \in InFlight /\ call[c].polls >= MaxPolls
        /\ Respond(c, "IN_FLIGHT")
  /\ UNCHANGED <<active, balance, ledger, row, events, probe>>

(* resolvePriorFailure under the replay policy: the stored failure is the   *)
(* answer.                                                                  *)
RetriesAll(k) == TRUE  \* slip: every key retries
MayRetry(k) == k \in RetryKeys

ReplayFailure(c) ==
  /\ call[c].pc = "resolve"
  /\ ~MayRetry(call[c].key)
  /\ Respond(c, "FAILED")
  /\ UNCHANGED <<active, balance, ledger, row, events, probe>>

(* resolvePriorFailure under the retry policy: one UPDATE ... WHERE status  *)
(* = 'FAILED' takes the row back to PENDING and opens a new attempt.        *)
ResettableAnyway(k) == row[k].status # "NONE"  \* slip: no AND status = 'FAILED'
Resettable(k) == row[k].status = "FAILED"
NextAttempt(n) == n + 1

Reset(c) ==
  LET k == call[c].key IN
  /\ call[c].pc = "resolve"
  /\ MayRetry(k)
  /\ Resettable(k)
  /\ row' = [row EXCEPT ![k] = [status |-> "PENDING", reason |-> "none",
                                attempt |-> NextAttempt(@.attempt)]]
  /\ Goto(c, "initiate")
  /\ UNCHANGED <<active, balance, ledger, events, probe>>

(* The UPDATE matched no row: another retry was first.  Before the insert   *)
(* the caller goes on to try one; after it, it throws the failure it read.  *)
LoseReset(c) ==
  LET k == call[c].key IN
  /\ call[c].pc = "resolve"
  /\ MayRetry(k)
  /\ ~Resettable(k)
  /\ IF call[c].second THEN Respond(c, "FAILED") ELSE Goto(c, "insert")
  /\ UNCHANGED <<active, balance, ledger, row, events, probe>>

(* INSERT ... ON CONFLICT (sender_id, idempotency_key) DO NOTHING.          *)
ClaimableAnyway(k) == TRUE  \* slip: no unique (sender_id, idempotency_key)
Claimable(k) == row[k].status = "NONE"

CreateRow(c) ==
  LET k == call[c].key IN
  /\ call[c].pc = "insert"
  /\ Claimable(k)
  /\ row' = [row EXCEPT ![k] = [status |-> "PENDING", reason |-> "none", attempt |-> 1]]
  /\ Goto(c, "initiate")
  /\ UNCHANGED <<active, balance, ledger, events, probe>>

LoseInsert(c) ==
  /\ call[c].pc = "insert"
  /\ ~Claimable(call[c].key)
  /\ call' = [call EXCEPT ![c].pc = "await", ![c].polls = 0, ![c].second = TRUE]
  /\ UNCHANGED <<active, balance, ledger, row, events, probe>>

(* appendEvent on the pool, a statement of its own after the row is there.  *)
WithEvent(k, e) == [events EXCEPT ![k] = Append(@, e)]
ForgottenInitiation(k) == events  \* slip: the event is not written
Initiation(k) == WithEvent(k, "INITIATED")

Initiate(c) ==
  /\ call[c].pc = "initiate"
  /\ events' = Initiation(call[c].key)
  /\ Goto(c, "money")
  /\ UNCHANGED <<active, balance, ledger, row, probe>>

(* The checks made with both wallets locked.                                *)
AffordableAnyway(k) == TRUE  \* slip: no balance check
Affordable(k) == balance[Intent[k].from] >= Intent[k].amount
ReceiverActive(k) == Intent[k].to \in active

\* slip: the receiver is not credited
DebitOnly(k) == [balance EXCEPT ![Intent[k].from] = @ - Intent[k].amount]
Transferred(k) == [balance EXCEPT ![Intent[k].from] = @ - Intent[k].amount,
                                  ![Intent[k].to] = @ + Intent[k].amount]

UncreditedAfter(k) == balance[Intent[k].to]  \* slip: balance before the credit
ReceiverAfter(k) == balance[Intent[k].to] + Intent[k].amount
SenderAfter(k) == balance[Intent[k].from] - Intent[k].amount

Debit(k) == [amount |-> -Intent[k].amount, after |-> SenderAfter(k), key |-> k]
Credit(k) == [amount |-> Intent[k].amount, after |-> ReceiverAfter(k), key |-> k]

(* The SERIALIZABLE transaction: both wallets, both ledger entries, three   *)
(* events and the status, committed together.  The UPDATE of the row asks   *)
(* only for its id, so it completes the transfer whatever its status is.    *)
(* The caller may not learn of the commit (lost response, lost COMMIT ack). *)
MoveMoney(c) ==
  LET k == call[c].key
      i == Intent[k] IN
  /\ call[c].pc = "money"
  /\ ReceiverActive(k)
  /\ Affordable(k)
  /\ balance' = Transferred(k)
  /\ ledger' = [ledger EXCEPT ![i.from] = Append(@, Debit(k)),
                              ![i.to] = Append(@, Credit(k))]
  /\ row' = [row EXCEPT ![k].status = "COMPLETED"]
  /\ events' = [events EXCEPT ![k] = @ \o <<"BALANCE_LOCKED", "PROCESSED", "COMPLETED">>]
  /\ \E answer \in {"COMPLETED", "UNCERTAIN"} : Respond(c, answer)
  /\ UNCHANGED <<active, probe>>

(* The transaction rolls back on a business rule; the sentinel is kept.     *)
RejectMoney(c) ==
  LET k == call[c].key IN
  /\ call[c].pc = "money"
  /\ \/ ~ReceiverActive(k) /\ call' = [call EXCEPT ![c].pc = "markFailed",
                                                   ![c].reason = "RECEIVER_INACTIVE"]
     \/ ReceiverActive(k) /\ ~Affordable(k)
        /\ call' = [call EXCEPT ![c].pc = "markFailed",
                                ![c].reason = "INSUFFICIENT_BALANCE"]
  /\ UNCHANGED <<active, balance, ledger, row, events, probe>>

(* The transaction rolls back on anything else (serialization retries used  *)
(* up, unique seq taken, connection lost, a simulated crash): the row stays *)
(* as it is and the caller is told TRANSFER_UNCERTAIN.                      *)
AbortMoney(c) ==
  /\ call[c].pc = "money"
  /\ Respond(c, "UNCERTAIN")
  /\ UNCHANGED <<active, balance, ledger, row, events, probe>>

(* UPDATE ... SET status = 'FAILED' WHERE status = 'PENDING'; an error of   *)
(* this statement is logged and swallowed.                                  *)
MarkFailed(c) ==
  LET k == call[c].key IN
  /\ call[c].pc = "markFailed"
  /\ \/ /\ row[k].status = "PENDING"
        /\ row' = [row EXCEPT ![k].status = "FAILED", ![k].reason = call[c].reason]
     \/ UNCHANGED row
  /\ Goto(c, "logFailed")
  /\ UNCHANGED <<active, balance, ledger, events, probe>>

(* The FAILED event is appended whether or not the row was updated; an      *)
(* error is swallowed.  The caller gets the typed error.                    *)
LogFailed(c) ==
  LET k == call[c].key IN
  /\ call[c].pc = "logFailed"
  /\ \/ events' = WithEvent(k, "FAILED")
     \/ UNCHANGED events
  /\ Respond(c, "FAILED")
  /\ UNCHANGED <<active, balance, ledger, row, probe>>

(* The server dies, or a statement outside the try block fails: whatever    *)
(* was committed stays, the request ends without a verdict.                 *)
Interrupt(c) ==
  /\ call[c].pc \notin {"idle", "done"}
  /\ Respond(c, "LOST")
  /\ UNCHANGED <<active, balance, ledger, row, events, probe>>

Continue(c) ==
  \/ Poll(c) \/ ReplayFailure(c) \/ Reset(c) \/ LoseReset(c)
  \/ CreateRow(c) \/ LoseInsert(c) \/ Initiate(c)
  \/ MoveMoney(c) \/ RejectMoney(c) \/ AbortMoney(c) \/ MarkFailed(c) \/ LogFailed(c)

-------------------------------------------------------------------------------
(* verify *)

(* The ledger entries of a transfer, as <<user, position>> pairs.           *)
Positions(u, k) == {i \in DOMAIN ledger[u] : ledger[u][i].key = k}
Movements(k) == UNION {{<<u, i>> : i \in Positions(u, k)} : u \in Users}
AmountAt(m) == ledger[m[1]][m[2]].amount

(* `moved`: exactly two entries, the debit and the credit of the amount.    *)
\* slip: only the net is tested, which is also 0 when there are no entries
NetZero(k) == FoldSet(LAMBDA m, acc : AmountAt(m) + acc, 0, Movements(k)) = 0
Confirmed(k) ==
  \E d, e \in Movements(k) :
    /\ Movements(k) = {d, e}
    /\ AmountAt(d) = -Intent[k].amount
    /\ AmountAt(e) = Intent[k].amount

LedgerOutcome(k, status) ==
  IF Confirmed(k) THEN "DELIVERED"
  ELSE IF Movements(k) = {} /\ status # "COMPLETED" THEN "NOT_SENT"
  ELSE "INDETERMINATE"

ReadTransfer(v, k) ==
  /\ probe[v].pc = "idle"
  /\ row[k].status # "NONE"
  /\ probe' = [probe EXCEPT ![v].pc = "readLedger", ![v].key = k,
                            ![v].status = row[k].status]
  /\ UNCHANGED <<active, balance, ledger, row, events, call>>

ReadLedger(v) ==
  /\ probe[v].pc = "readLedger"
  /\ probe' = [probe EXCEPT ![v].pc = "readEvents",
                            ![v].outcome = LedgerOutcome(probe[v].key, probe[v].status)]
  /\ UNCHANGED <<active, balance, ledger, row, events, call>>

Newest(k) == IF events[k] = <<>> THEN "none" ELSE Last(events[k])
AlreadyResolved(p, newest) ==
  /\ newest = "VERIFIED"
  /\ \/ p.outcome = "DELIVERED" /\ p.status = "COMPLETED"
     \/ p.outcome = "NOT_SENT" /\ p.status = "FAILED"

(* A verdict already recorded is not recorded again.                        *)
ReadEvents(v) ==
  LET newest == Newest(probe[v].key) IN
  /\ probe[v].pc = "readEvents"
  /\ probe' = [probe EXCEPT
       ![v].pc = IF AlreadyResolved(probe[v], newest) THEN "reload" ELSE "reconcile",
       ![v].newest = newest]
  /\ UNCHANGED <<active, balance, ledger, row, events, call>>

(* The row after the UPDATEs of the reconciling transaction.                *)
Reconciled(r, outcome, opening) ==
  CASE outcome = "DELIVERED" -> [r EXCEPT !.status = "COMPLETED"]
    [] outcome = "NOT_SENT" ->
         IF r.status = "FAILED" THEN r
         ELSE [r EXCEPT !.status = "FAILED",
                        !.reason = IF @ = "none" THEN "RECONCILED_NOT_PROCESSED" ELSE @]
    [] OTHER ->
         IF opening /\ r.status = "PENDING" THEN [r EXCEPT !.status = "VERIFYING"] ELSE r

(* The SERIALIZABLE transaction of verify.  The outcome and the newest      *)
(* event were read before it began and are not read again.                  *)
Reconcile(v) ==
  LET p == probe[v]
      opening == p.newest \notin {"CLIENT_CONFIRMATION_LOST", "VERIFIED"} IN
  /\ p.pc = "reconcile"
  /\ row' = [row EXCEPT ![p.key] = Reconciled(@, p.outcome, opening)]
  /\ events' = [events EXCEPT ![p.key] =
       @ \o (IF opening THEN <<"CLIENT_CONFIRMATION_LOST", "VERIFIED">> ELSE <<"VERIFIED">>)]
  /\ probe' = [probe EXCEPT ![v].pc = "reload"]
  /\ UNCHANGED <<active, balance, ledger, call>>

(* The answer pairs the outcome with the status the row has by now.         *)
Reload(v) ==
  /\ probe[v].pc = "reload"
  /\ probe' = [probe EXCEPT ![v].pc = "done", ![v].report = row[probe[v].key].status]
  /\ UNCHANGED <<active, balance, ledger, row, events, call>>

InterruptProbe(v) ==
  /\ probe[v].pc \notin {"idle", "done"}
  /\ probe' = [probe EXCEPT ![v].pc = "done"]
  /\ UNCHANGED <<active, balance, ledger, row, events, call>>

ContinueProbe(v) == ReadLedger(v) \/ ReadEvents(v) \/ Reconcile(v) \/ Reload(v)

-------------------------------------------------------------------------------
CallNext(c) == (\E k \in Keys : Lookup(c, k)) \/ Continue(c) \/ Interrupt(c)
ProbeNext(v) ==
  (\E k \in Keys : ReadTransfer(v, k)) \/ ContinueProbe(v) \/ InterruptProbe(v)

Next ==
  \/ \E u \in Users : Activate(u)
  \/ \E c \in Callers : CallNext(c)
  \/ \E v \in Verifiers : ProbeNext(v)

Spec == Init /\ [][Next]_vars

(* The event loop resumes a request whenever its statement is answered.     *)
Fairness ==
  /\ \A c \in Callers : WF_vars(Continue(c))
  /\ \A v \in Verifiers : WF_vars(ContinueProbe(v))

FairSpec == Spec /\ Fairness

-------------------------------------------------------------------------------
(* Safety *)

Debits(k) == Positions(Intent[k].from, k)
Moved(k) == Debits(k) # {}
AtMostOnce(k) == \A i, j \in Debits(k) : i = j

(* A key that nothing but its own inserting call can bring back to PENDING: *)
(* either its callers replay failures, or nobody reconciles concurrently.   *)
Exclusive(k) == k \notin RetryKeys \/ Verifiers = {}

(* Auditability: each ledger entry continues the balance its predecessor    *)
(* left, and the newest one is the wallet's balance (README "ledger_entries *)
(* ... each carrying balance_after"), whatever transfers interleave.        *)
WalletsMatchLedger ==
  \A u \in Users :
    /\ ledger[u] # <<>>
    /\ ledger[u][1] = Funding(u)
    /\ \A i \in 2..Len(ledger[u]) :
         ledger[u][i].after = ledger[u][i - 1].after + ledger[u][i].amount
    /\ balance[u] = ledger[u][Len(ledger[u])].after

Total(f) == MapThenSumSet(LAMBDA u : f[u], Users)

(* The system invariant of checkInvariants: the wallets hold what all       *)
(* ledger entries sum to, and transfers neither create nor destroy money.   *)
MoneyIsConserved ==
  /\ Total(balance) = Total(Opening)
  /\ Total(balance) = Total([u \in Users |->
       FoldSeq(LAMBDA e, acc : e.amount + acc, 0, ledger[u])])

(* Exactly-once: under racing, interrupted and repeated calls of execute, a *)
(* key of the replay policy is debited at most once even while verify runs, *)
(* and a key of the retry policy as long as nobody verifies it.             *)
MovedAtMostOnce == \A k \in Keys : Exclusive(k) => AtMostOnce(k)

(* Every debit belongs to an attempt of its own: attempt_count bounds the   *)
(* damage even where a retry and a verify race.                             *)
MovesWithinAttempts == \A k \in Keys : Cardinality(Debits(k)) <= row[k].attempt

(* A COMPLETED transfer really moved the money, also when verify set the    *)
(* status from what it had read earlier.                                    *)
CompletedMeansMoved == \A k \in Keys : row[k].status = "COMPLETED" => Moved(k)

(* Nobody is told COMPLETED or DELIVERED about money that has not moved.    *)
NoFalseSuccess ==
  /\ \A c \in Callers : call[c].answer = "COMPLETED" => Moved(call[c].key)
  /\ \A v \in Verifiers : probe[v].outcome = "DELIVERED" => Moved(probe[v].key)

(* The timeline opens an attempt before it records money moving: at each    *)
(* PROCESSED event at least as many INITIATED events precede it.            *)
TimelineCoversMoves ==
  \A k \in Keys : \A n \in 1..Len(events[k]) :
    LET before(e) == {i \in 1..n : events[k][i] = e} IN
    Cardinality(before("PROCESSED")) <= Cardinality(before("INITIATED"))

(* With no verify around, FAILED is the truth: no money moved under the key *)
(* and no call still owns it.                                               *)
FailedMeansNotMoved ==
  Verifiers = {} => \A k \in Keys : row[k].status = "FAILED" => ~Moved(k)

(* With no verify around, a caller of the replay policy that is told its    *)
(* transfer failed is told so for good.                                     *)
DenialIsFinal ==
  Verifiers = {} =>
    \A c \in Callers :
      call[c].answer = "FAILED" /\ call[c].key \notin RetryKeys => ~Moved(call[c].key)

(* What the proofs carry from step to step.  A call owns the attempt it     *)
(* opened until it moves the money, rejects it or dies; an exclusive key    *)
(* has one owner at a time, and while it has one no money has moved.        *)
Owns(c, k) ==
  call[c].key = k /\ call[c].pc \in {"initiate", "money", "markFailed"}

OwnedOnce(k) ==
  /\ AtMostOnce(k)
  /\ \A c \in Callers : Owns(c, k) => ~Moved(k) /\ row[k].status # "NONE"
  /\ \A c, d \in Callers : Owns(c, k) /\ Owns(d, k) => c = d
  /\ row[k].status = "NONE" => ~Moved(k)
  /\ Verifiers = {} =>
       /\ \A c \in Callers : Owns(c, k) => row[k].status = "PENDING"
       /\ row[k].status = "FAILED" => ~Moved(k)

(* Every entry of a transfer is its debit at the sender or its credit at    *)
(* the receiver, of exactly the amount asked for.                           *)
EntryMatchesIntent(u, e) ==
  e.key \in Keys =>
    \/ u = Intent[e.key].from /\ e.amount = -Intent[e.key].amount
    \/ u = Intent[e.key].to /\ e.amount = Intent[e.key].amount

(* Ownership of exclusive keys and the shape of the ledger, inductive       *)
(* together with the types.                                                 *)
EngineInv ==
  /\ \A k \in Keys : Exclusive(k) => OwnedOnce(k)
  /\ \A u \in Users : \A i \in DOMAIN ledger[u] : EntryMatchesIntent(u, ledger[u][i])

(* A claim of the documentation that the code does not keep.                *)

(* README, Exactly-once: a crash at any point cannot double-spend, and      *)
(* verify() reconciles the aftermath; here for the keys of internal flows.  *)
NeverPaidTwice == \A k \in Keys : AtMostOnce(k)

(* Liveness *)

(* Every call that has looked up its key is answered, even when the row it  *)
(* waits for was abandoned in flight by a call that died.                   *)
EveryCallAnswered ==
  \A c \in Callers : call[c].pc # "idle" ~> call[c].pc = "done"

(* The engine implements the abstract promise.                              *)
PaidKeys ==
  {call[c].key : c \in {d \in Callers : call[d].answer = "COMPLETED"}}
    \cup {probe[v].key : v \in {w \in Verifiers : probe[w].outcome = "DELIVERED"}}

Atomic == INSTANCE AtomicTransfers WITH
  Repeatable <- {k \in Keys : ~Exclusive(k)},
  moved <- {k \in Keys : Moved(k)}, told <- PaidKeys

(* Each step of execute and verify is one atomic movement of a key that has *)
(* not moved, or tells a caller about one that has, or changes neither.     *)
ImplementsAtomicTransfers == Atomic!Spec

(* What the flows built on execute rely on, with no verify around.          *)
PayStatusOf == [NONE |-> "none", PENDING |-> "inflight", VERIFYING |-> "inflight",
                COMPLETED |-> "moved", FAILED |-> "failed"]
PayStepOf(c) ==
  LET s == call[c].pc IN
  CASE s = "idle" -> "idle"
    [] s \in {"resolve", "await", "insert"} -> "waiting"
    [] s \in {"initiate", "money", "markFailed"} -> "owning"
    [] s = "logFailed" -> "answered"
    [] OTHER -> IF call[c].answer = "LOST" THEN "dead" ELSE "answered"
PayAnswerOf(c) ==
  CASE call[c].pc = "logFailed" -> "FAILED"
    [] call[c].answer = "LOST" -> "none"
    [] OTHER -> call[c].answer

Payment == INSTANCE Payments WITH
  Payers <- Callers, PayKeys <- Keys, RetryPays <- RetryKeys, NoPay <- NoKey,
  paid <- [k \in Keys |-> PayStatusOf[row[k].status]],
  pay <- [c \in Callers |->
            [pc |-> PayStepOf(c), key |-> call[c].key, answer |-> PayAnswerOf(c)]]

(* Each step of execute, racing, failing and dying, is one of Payments or   *)
(* changes nothing that settlements and disbursements see.                  *)
ImplementsPayments == Payment!PaySpec

-------------------------------------------------------------------------------
(* The properties by what they are about; their parts are above.            *)

(* What execute keeps about its rows and its callers: the values stay in    *)
(* their domains, an exclusive key has one owner and pays once.             *)
EngineSound == TypeOK /\ EngineInv

(* The wallets, the ledger and the rows are three records of one thing.     *)
LedgerIsSound == WalletsMatchLedger /\ MoneyIsConserved

(* COMPLETED, in a row or in an answer, means the money has moved.          *)
SuccessIsTrue == CompletedMeansMoved /\ NoFalseSuccess

(* The timeline and the attempt counter account for every movement.         *)
AuditIsComplete == TimelineCoversMoves /\ MovesWithinAttempts
===============================================================================
