# A TLA+ model of Artho

Artho moves money between wallets: an Express server over PostgreSQL, whose
state is in the database and whose concurrency is that of requests interleaving
between database statements, and a React client whose pages hold copies of that
state. This directory models the parts that decide something in TLA+, checks the
models with TLC on small instances and proves the most important theorems with
TLAPS for every instance. Source paths are relative to `src/backend/src/` unless
they start with `src/`; `pages/`, `lib/`, `context/` and `components/` are under
`src/frontend/src/`.

## The system

| Component | State it keeps | Operations | What makes it correct | Modules |
|---|---|---|---|---|
| Transfer engine, `services/transfer.service.ts`, `config/database.ts` | `wallets`, `ledger_entries`, `transfers`, `transfer_events` | `execute` (replay or retry policy), `verify` | a key moves money at most once, never overdraws, the ledger explains every balance, an answer tells the truth, every call is answered | `TransferEngine`, `AtomicTransfers`, `Payments` |
| Money requests, `services/request.service.ts` | `money_requests` | `create`, `approve`, `reject`, `cancel`, `expireStale` | approved exactly when paid; one resolution | `MoneyRequests` |
| Debt groups, `services/debt.service.ts`, `utils/settlement.ts` | members, `debts`, settlements and their lines, `_running` | `addMember`, `addDebt`, `addExpense`, `previewSettlement`, `settle`, `_run`, `_finalize`, the sweep | the plan clears every balance; the books agree with the lines; settlements end | `Settlement`, `SettlementMath`, `Money` |
| Stipends, `services/stipend.service.ts` | programmes, beneficiaries, disbursements, items, `_running` | enrolment, `disburse`, `bulkDisburse`, `_runDisbursement`, `_flushProgress`, `_finalize`, the sweep | items and counters agree with the money; batches end | `Disbursement` |
| HTTP payment, `middleware/fraud.ts`, `middleware/idempotency.ts`, `routes/transfers.routes.ts`, `pages/SendMoneyPage.tsx` | assessments, `idempotency_records`, the page | gate, claim, replay, reclaim, finalize, the page's steps | nothing moves unpermitted; what is replayed and shown is true; no key stays locked | `PaymentGateway` |
| Sessions, `services/refreshToken.service.ts`, `middleware/auth.ts`, `lib/api.ts`, `context/AuthContext.tsx` | `refresh_tokens`, cookie, localStorage | issue, rotate, revoke, the single-flight refresh | one live token per family while no token is presented twice at once; ended is over; nobody is signed out without a reason | `Sessions` |
| Accounts, `services/auth.service.ts` | `users`, `email_verifications`, login events | `register`, `login`, `verifyEmail`, `resendVerification`, `changePassword` | guessing is bounded; a suspension stands | `Accounts` |
| Risk, `services/security.service.ts`, `utils/riskScoring.ts`, `pages/SecurityDashboardPage.tsx` | `transfer_risk_assessments`, `risk_config`, the page | `assess`, `markVerified`, `release`, `reject`, `updateConfig`, the dashboard | the decision fits the band and stands; risk is monotone; the page is right | `RiskScoring`, `RiskDesk`, `RiskConsole` |
| AI advice, `services/ai/`, `services/investigation.service.ts`, `services/summary.service.ts`, `middleware/rateLimit.ts` | `ai_insights`, buckets | ask, retry, fall back, cache; admit or refuse | advice fits the facts; every question is answered; bursts are bounded | `AiClient`, `Advice`, `RateLimiter` |
| Reports, `services/invariant.service.ts`, `services/history.service.ts`, `services/notification.service.ts`, `components/Layout.tsx`, `pages/HistoryPage.tsx` | `notifications`, the pages | `checkInvariants`, the feed, emit, mark, the bell | alarms have a cause, a reader misses nothing, notices are true | `Activity` |
| Server, `server.ts` | timers | sweeps every 60 s, the invariant check at the start | interrupted work is finished | in the modules of the flows |
| Plumbing | none of their own | validation, errors, cryptography, references, mail, logging, other pages | - | not modelled |

How they interact. `POST /transfers` runs authentication, the risk gate, the
idempotency middleware and then `execute`, each over its own table and all over
the same client key. Requests, settlements and disbursements call `execute` with
deterministic keys (`req-approve-…`, `stl-…`, `dsb-…`) and the policy `'retry'`;
they record what it answers in rows of their own, in later statements. `verify`
can be called by either party of any transfer at any time. The sweeps of
`server.ts` run concurrently with requests, and a second server process may run
them too. Pages keep what they have read, and act on it.

What is hard here: statements of different requests in any order; a value read
in one statement and acted on in a later one; reports put together from several
statements; a server that dies between two statements; a commit whose caller
never hears of it; retries and sweeps that redo what was already done; answers
that reach a page late or in another order. The hazards with their lines, and the
properties that watch over each, are `hazards` in `PROJECT.json`.

## The modules

```
AtomicTransfers <--refines-- TransferEngine --refines--> Payments
                                  ^                         ^
                            MoneyRequests    Settlement, Disbursement, PaymentGateway
Accounts <- Sessions        Activity, AiClient, RateLimiter <- Advice
RiskScoring, AiClient <- RiskDesk <- RiskConsole
SettlementMath, Money <- Settlement
```

`<-` is EXTENDS. `Payments` is the interface of `execute` as the flows built on
it see it: per key `none`, `inflight`, `moved` or `failed`, per call the answer.
That `TransferEngine` implements it while nobody runs `verify` is checked
(`ImplementsPayments`, in the run `requests`) and proved, so the flows above need not carry
the ledger. `AtomicTransfers` is the promise of the engine: a transfer is one
step, at most once per key, and nobody is told of money that has not moved.

In every module a statement sent on the pool is one action, because it is its own
transaction; a callback of `withSerializableTransaction` is one action that may
also not happen, because it commits or rolls back as a whole. A handler of
several statements is several actions with a program counter, and anything may
run in between. `slip` definitions are plausible mistakes which no specification
uses; they show what a property catches.

### TransferEngine

| State | In the code |
|---|---|
| `balance` | `wallets.balance_paisa` |
| `ledger[u]` | the `ledger_entries` of `u` in insertion order: amount, `balance_after`, the key of the transfer (`NoKey` for `INITIAL_FUNDING`) |
| `row[k]` | the `transfers` row under `UNIQUE (sender_id, idempotency_key)`: status, failure reason, attempt count |
| `events[k]` | `transfer_events` in `seq` order |
| `active` | users whose `account_status` is `ACTIVE` |
| `call[c]`, `probe[v]` | the local variables of one call of `execute`, of `verify`, and where it is |

`execute`: `Lookup` reads the row (lines 236-251); `Poll` is one read of
`awaitSettled` (171-179); `ReplayFailure`, `Reset`, `LoseReset` are
`resolvePriorFailure` (210-233, and 282 for the second place it is called from);
`CreateRow` and `LoseInsert` are the two outcomes of the `INSERT … ON CONFLICT DO
NOTHING` (257-287); `Initiate` the `INITIATED` event; `MoveMoney`, `RejectMoney`,
`AbortMoney` the money transaction (311-449); `MarkFailed` and `LogFailed` the two
statements after a rejection (475-482); `Interrupt` a dead server or an error
outside the `try`. `verify`: `ReadTransfer`, `ReadLedger`, `ReadEvents`,
`Reconcile`, `Reload` are its five accesses (554, 563, 599, 607-641, 644).
`simulate` needs no action of its own: it forces outcomes these actions have.

Abstractions. The arguments sent under a key are the constant `Intent[k]`:
internal keys always come with the same arguments, and the HTTP middleware
refuses a client key with another body. References, notes and timestamps are left
out. `RECEIVER_NOT_FOUND` cannot happen (the wallet is inserted with the user). No
statement writes `PROCESSING` to a row. The locks are left out with the order
they are taken in: a deadlock is one of the errors the transaction retries.

### MoneyRequests

`request[r]` is `money_requests.status`; `approval[c]` and `decision[d]` a call of
`approve`, and of `reject` or `cancel`. Approval `c` runs the engine's call `c`
under `ApprovalKey[r]` with policy `'retry'`: `LoadForApproval` (174-175), `Pay` one
step of `execute`, `Conclude` the conditional `UPDATE` and the answer (190-221),
`PassError` an `execute` that threw. `LoadForDecision` and `Decide` are the two
statements of `reject` and `cancel`. `ExpireStale` expires any set of `PENDING`
requests: which ones are overdue is the clock's choice. Refusals without a state
change (unknown ids, foreign actors) and the reads are left out.

### Settlement, SettlementMath, Money

`debts`, `settlement[k]` with its lines and `members` are the tables; `preview` the
plan on the group's page; `runner[<<s, k>>]` the `_run` of settlement `k` on server
`s`, `idle` when the id is not in `_running`. `Preview` and `Settle` are the page and
`settle` with its serializable transaction; `Run` is the next statement of `_run`
(status, lines, one payment by `execute`, its record) or `_finalize`; `Resume` the
sweep; `Crash` a dead process or failed statement. `GroupPage` and `Result` are what
the page shows of the group and of a settlement. `SettlementMath` has the optimiser
(exact matches, then greedy), the shares of an expense and the plan's fingerprint,
written with folds; `Money` the parser and printer of amounts, digit by digit.
`pendingDebts` has no `ORDER BY`, so `Preview` and `Settle` take any order. `doubt`
(history) holds the lines of which `execute` could not tell.

The plan's hash is compared only if it was sent (`debt.service.ts:440`, optional in
`middleware/schemas.ts:218`; `src/scripts/settlement.mjs:157-160` settles with an empty
body). So `Settle` comes with the hash of the page's plan or, in the scenes that are
`bare`, without one; `checked` (history) remembers which. Without it nothing ties the
settlement to a page: it takes whatever is owed by then.

### Disbursement

`program`, `enrolled` and `batch[b]` with its items and counters are the tables,
`request[b]` the handler of `disburse` or `bulkDisburse` up to the transaction that
creates the batch, `runner` the `_runDisbursement` with its local counters, of which
`FlushEvery` items are flushed at a time (20 in the code), `page[b]` the card that
polls `getDisbursement`, which is two reads. The owner edits meanwhile (`Enroll`,
`UpdateBeneficiary`, `RemoveBeneficiary`, `CloseProgram`). Amounts, names and the
parsing of a roster are left out: a roster is a set of users, some unknown.

### PaymentGateway

`verdict[k]` is the assessment's decision, `record[k]` the idempotency record with
`stale` for its age, `req[c]` one HTTP request: through `fraudMiddleware` (look,
score, token), `idempotencyMiddleware` (insert, read the conflicting record, replay,
refuse, reclaim), the handler with `execute`, the reply, and the un-awaited
finalize that comes after it. `page` is `SendMoneyPage`: amount, confirmation, extra
check, hold, result, the replay of a lost response, the new key at each
confirmation. A `client` sends the key by itself whenever it likes.

### Sessions and Accounts

`Accounts` has the handlers of one account: registration, codes and resending,
login and its lockout. `Sessions` adds the `refresh_tokens` rows, one browser's
cookie jar and localStorage, its tabs with concurrent API requests, each of which
may meet an expired token, lead the tab's refresh or wait for it; page loads,
lost answers, logout, password change in its two statements, and time as far as
an access token expires (`MaxClock`).

A handler of `POST /auth/refresh` does not stop when its page is loaded anew or its
answer is lost: `Reload` and `LoseRefresh` move it to a slot of `Adrift`, where
`ReadToken`, `ReuseDetected` and `Rotate` go on as for any other, with nobody to
answer; a response that was already on its way may have left its cookie
(`CookieOf`). The new page presents whatever is in the jar. `rotate` reads the status
(line 69) and its transaction does not look again (118-122), so two handlers that
have found one token `ACTIVE` both rotate it and leave two live tokens: `twins`
(history) are the families where two have. `RefreshFails` is any refresh that ends in
an error - no connection, a transaction rolled back once too often, a COMMIT without an
answer (so the rotation may stand), a token past its 30 days - and clears the cookie
(`routes/auth.routes.ts:75-77`); `RefreshLimited` is the 429 of line 68, which does not.
Either signs the tab out.

### RiskScoring, RiskDesk, RiskConsole

`RiskScoring` is `scoreRisk`, rule by rule, over records of signals and
thresholds. `RiskDesk` is the life of one assessment: concurrent `assess` (look,
gather, insert), `markVerified`, `release` and `reject` as read and unconditional
write, `updateConfig`, and the analysis by a model. `RiskConsole` puts the
dashboard page in front: loads of two queries that nothing cancels (`Loading`,
`ReadDashboard`, `Loaded`, `LoadFails`), the drawer with its copy of the row, the
review whose answer may come when another drawer is open, or never.

### AiClient, RateLimiter, Activity, Advice

`AiClient` is `chatJson`: bounded attempts, then an answer or the fallback. The model
is external and may claim anything. `RateLimiter` is the fixed window of one key.
`Activity` has the writers of the engine and of the requests as one action per
transaction, and what reads across them: `checkInvariants` as three queries, the
feed's pages as two, the bell as two that overlap with other polls. As in the code, an
attempt completes its row by id whatever the status (`transfer.service.ts:387-391`),
and `verify` fails any row that is not `FAILED` (629-635) by what it once read: a
`COMPLETED` row becomes `FAILED` (`denied`, history, if its money had moved), is
retried, and pays again (`Complete`, `Fail`, `Deny`, `Confirm`, `Retry`). `done`
(history) counts how often the money moved, or how often a call of `approve` told the
requester. The notices are those of money received and of requests asked, approved (by
every call that gets there, `request.service.ts:212`), rejected, cancelled and
expired; security alerts have other types and are left out, and no run reaches the
list's LIMIT 100. `Advice` composes them: the investigation around `verify`, the
summary as six queries, the cache of insights by hash and expiry.

## The properties

A property worth a run takes several steps, mostly of several actors, to violate.
The parts of a listed property are definitions of their own, each explained above
it in its module.

| Property | Its parts, in words |
|---|---|
| `EngineSound` | types, no overdraft; the inductive invariant `EngineInv`: an exclusive key has one owner and pays once |
| `LedgerIsSound` | every entry continues its predecessor's balance and the newest is the wallet's; the invariant of `checkInvariants`, and the total never changes |
| `SuccessIsTrue` | a `COMPLETED` row, a `COMPLETED` answer and a `DELIVERED` verdict are about money that moved |
| `AuditIsComplete` | the timeline opens an attempt before it records a movement; every debit has an attempt of its own |
| `ImplementsAtomicTransfers`, `EveryCallAnswered` | the refinement; every call ends, also when the row it waits for was abandoned |
| `MovedAtMostOnce`, `FailedMeansNotMoved`, `DenialIsFinal` | one debit per exclusive key; without a `verify`, `FAILED` is the truth, and final for a replay key |
| `StatusIsTrue` | a decider told DECIDED has decided; `APPROVED` is paid, except by an approval that stopped waiting |
| `RequestPaidOnce`, `ResolutionIsFinal`, `ResolvedRequestsStayUnpaid` | all approvals together pay once; the first resolution stands; only an approval already under way can still pay |
| `ImplementsPayments`, `EveryApprovalAnswered` | the engine implements the interface; approvals end |
| `TablesAreSound` | types; a debt is locked exactly while its settlement runs |
| `BooksBalance` | each member's balance is what was recorded, changed by exactly the lines counted as paid |
| `LinesAreTrue` | a finished settlement has decided every line, with any number of servers; with one server each says what its transfer did, unless `execute` could not tell |
| `ArithmeticIsRight` | the plan clears every balance with fewer lines than members, in whatever order the rows come; shares add up; amounts are exact |
| `ConfirmedForGood` | a settlement takes all that is owed and its lines pay exactly that; if it came with a plan's hash, they are the debts and lines that were shown; it does not change once finished |
| `EverySettlementFinishes`, `EveryDisbursementFinishes` | the sweep finishes what a dead runner left |
| `ItemsAreTrue` | a `PAID` item moved its money, a `SKIPPED` one did not |
| `BatchesAreSound` | a finished batch has decided every item and does not change, with any number of servers; with one server its counters agree |
| `PageAddsUp` | counters and items of one page, read at two moments, do not contradict each other |
| `GateIsSound` | no transfer row without a permission; nobody passes an extra check who was not asked |
| `ReplaysTellTheTruth`, `StoredResponseIsKept` | a stored response is what happened; it stays unless reclaimed |
| `PageTellsTheTruth` | a key the page gave up has not moved and never will; "on hold" and the badge `COMPLETED` are true |
| `NoKeyStaysLocked` | a key is freed for a sender who keeps trying |
| `SessionsAreSound` | one live token per family unless two handlers found the same one alive (`twins`), which takes a second tab or a lost answer; a revoked family stays dead; a suspension stands |
| `SignedOutForAReason`, `GuessingIsBounded`, `EveryCallEnds` | with one tab, no answer lost and no refresh failed or limited, no false reuse alarm and no sign-out; wrong passwords and codes tested are bounded; every request ends |
| `ReviewsAreSound` | the decision is one its band leads to, a permission stands, a permission on the administrator's screen is in force, and after a release was confirmed the last load shows it |
| `RiskNeverFalls` | worse signals or stricter thresholds never lower the band |
| `ReadsAreTrue` | an alarm of the invariant check has a registration as its cause; turning pages misses nothing; figures count only transfers that moved, and all that were completed at the start and not denied since; nothing is told more often than it happened |
| `AdviceIsSound`, `BurstsAreBounded`, `AdviceIsLive` | advice fits outcome and timeline, fallbacks are short-lived; a window's bound; questions are answered and the bell catches up |

Restrictions inside the properties are where the code makes no such promise:
`Verifiers = {}` (see `twice`), `Alone` (one server: a second runner may overwrite a
finished line; the run has two servers for what holds even so), `doubt` (see
`settlement_books`), `OneTab` (two tabs share one cookie), `reasons`
(what may sign a tab out), `twins` (two handlers of one refresh token), `raced` (a rotation
racing a revocation leaves a live token), `denied` (a late verdict of `verify`), `checked`
(a settlement that came with the hash). Each is also listed under Observations.

## The runs

| Run | Instance | Distinct states |
|---|---|---|
| `engine` | 2 calls, 1 verify; two replay keys and a retry key, money both ways; receivers may be inactive | 624 000 |
| `retry` | 4 calls, no verify; a replay and a retry key; the sender needs a top-up | 3 858 000 |
| `twice` | 2 calls, 1 verify, a retry key: the claim is violated | - |
| `requests` | 2 approvals, a decider, the sweep; two opposite requests and a spare key | 283 000 |
| `settlement` | scenes below, 1 crash | 455 000 |
| `settlement_books` | scene Partial: the claim is violated | - |
| `disbursement` | scenes Payroll, Roster, Shared; flush every 2 items, 1 crash | 856 000 |
| `gateway` | 2 requests of one key; a page with 2 faults or a client with 1 | 513 000 |
| `gateway_headline` | the page: the claim is violated | - |
| `sessions` | scenes Quiet, Failures, Reloads, Change, Suspended, TwoTabs, Guesses, Codes; two adrift handlers per tab | 431 000 |
| `risk` | scenes Grid, Desk, Screen | 365 000 |
| `advice` | scenes Alarms, Bell, Twice, Answers, Totals, Money, Later, Bursts, Pages | 735 000 |

The system is one, but its components meet few at a time; a *scene* is an initial
state with what may happen in it, so that one run covers several small instances
without their product. The `MC` modules describe each scene.

Why the bounds are enough. Engine: two calls and a verify are the smallest instance in
which an attempt can be judged failed while in flight and be retried, three calls the
smallest in which one loses both the insert and the reset; `retry` has four. A
repeated payment must be affordable to be seen: in `RichBoth` both keys can be paid
twice while `over` is unaffordable until `pay` is; in `PoorAnn` ann cannot pay before
bob has paid her. `MaxPolls` is 15 in the code; it only counts reads of a row in
flight, and 1 already lets a wait end by success, by failure and by giving up, at
either place. In `requests` an approval fails for want of money, the opposite request
tops up, and the money would suffice twice; the spare key has the request's intent and
no approval uses it, so a fresh key per approval would show. Settlement: two lines
allow PARTIAL and leave a payment for a second settlement; Overlap lets two
settlements run; Joined and Circle change the debts between preview and confirmation;
Circle and Script settle without a hash as well; Shared overlaps two runners; Bills
and Books range over expenses, amounts and decimals. One crash at every point, and a
resume, is the case; a second crash repeats it. Disbursement: `FlushEvery = 2` over
two items flushes at the boundary and not at it. Gateway: two requests of a key are
what a double click or a retry is; the faults allow a crash and a lost response of one
request. Sessions: `MaxClock` only has to pass one expiry; two slots are concurrent
401s; four tokens are three rotations; one lost answer, one refresh failed or limited
and one reload are each combined with everything else of their scenes, and leave at
most two handlers adrift. Risk: Grid takes every value around each default threshold,
Desk two requests, two reviewers and two analyses of a key of each band, Screen two
overlapping reviews on one page and one from elsewhere. Advice: the limiter's window
is crossed twice; a page boundary moves while two items are added; Twice has the four
steps it takes to deny a transfer, retry it and pay it twice.

`CHECK_DEADLOCK FALSE` because these systems stop when nobody wants anything more.
`SYMMETRY` only in runs without liveness.

Fairness. Weak fairness on what the event loop resumes when a statement is
answered, by a result or an error: `Continue` and `ContinueProbe` of the engine,
`Pay`, `Conclude`, `PassError` of an approval, `Run` of a runner, `Serve` of the
gateway and of the AI routes, `CallStep` of the browser and its server, `Load` of
the bell. Weak fairness on `Resume`: the sweep comes every 60 seconds, and once
crashes stop (`MaxCrashes`) it finds the row. `GrowStale`: time passes. The one
strong fairness is on `ClientSends`: "a sender who keeps trying" is the premise of
`NoKeyStaysLocked`. It is never assumed that a client calls, that a transaction
commits (aborting is one of the ways to go on), that a model answers, or that a
server survives.

Every property has a mutant in `PROJECT.json`: a plausible mistake in one
definition under which the run must fail.

## Findings

- `twice`: under the retry policy a row that `verify` failed is reset and paid by a
  second attempt; the first attempt, whose `UPDATE` asks for the id only, pays too.
- `settlement_books`: a line whose transfer committed but whose answer was
  `TRANSFER_UNCERTAIN` is recorded `FAILED`, so the payment is missing from the
  balances that should "reflect what actually moved", and is asked for again.
- `gateway_headline`: `SendMoneyPage` headlines "Transfer completed" for any
  transfer it gets back, one in flight included.

## Observations

Met while modelling; the properties above are stated around them.

Money.
- `verify` decides from reads made before its transaction: `NOT_SENT` may be
  answered for money that an attempt in flight then moves, and a `COMPLETED` row may
  become `FAILED`.
- A reject, cancel or expiry while an approval pays leaves a resolved request that
  is paid, and `approve` answers `APPROVED` for it; `approve`, `_run` of settlements
  and `_runDisbursement` take a transfer that is still in flight for paid.
- `MoneyRecovery.tsx` 80-97: the panel for a payment without a reference cannot
  resolve it.
- A RELEASED assessment serves its own key only, while the page takes a new key for
  each confirmation: the release is of no use to it.
- A slow first request that ends after a stale reclaim may delete or overwrite a
  `COMPLETED` idempotency record. `fraud.ts` trims the key, `idempotency.ts` does not.
- `ProgramDetailPage.tsx` sends a new idempotency key with each click while it says
  "Retrying with the same request resumes the batch — nobody is paid twice"; the
  bulk preview has no fingerprint, so a stale preview may differ from the run.
- A user listed twice in a roster makes `total_count` unreachable: PARTIAL, though
  everybody was paid. `total_disbursed` of a programme includes failed items.
- Line and item updates ask for the id only: with two servers the slower runner
  overwrites the faster one's result.
- A settlement without a `plan_hash` is not compared with what any page showed.
- `pendingDebts` has no `ORDER BY`; equal balances may give another, equally good
  plan, and so a spurious `PLAN_STALE`. `getGroup` reads history and balances in two
  statements. `pollUntilDone` gives up at an error.

Sessions and accounts.
- Two tabs refresh one cookie at once: reuse is detected, the family dies, and the
  failing tab clears the cookie; or both find it `ACTIVE`, both rotate, and the family
  has two live tokens. Reloading a page during its refresh does either with one tab.
  So the comment on `RefreshTokenService`, "The old token can never be used again",
  holds for one presentation after the other only. A refresh that fails or is limited
  signs the tab out, although the session may be alive. Any error of `GET /wallet`
  shows the user signed out (`AuthContext.tsx` 43-45).
- `rotate` updates without asking for the status (118-122): racing a revocation it
  leaves a live token in a revoked family.
- `changePassword` revokes its own session too, and a failure of the revocation is
  swallowed (`auth.service.ts` 423); a logout that fails leaves the cookie alive.
- A login refused by the lock is recorded and prolongs it; `retry_after` does not
  say so (193-207). Resend's cooldown is read in a statement of its own.

Risk.
- `reject` does not look at the decision and the last reviewer wins: "Keep blocked"
  is answered OK for a row that another administrator has released.
- Overlapping loads of the dashboard are not cancelled: after two reviews on a page
  an older load may arrive last and show a released transfer as blocked. A drawer
  opened while an earlier review is under way is closed by that review's answer. A
  drawer whose `GET` fails spins for ever. The count of blocked transfers and the
  table come from two queries.
- `updateConfig` may set `medium_threshold` above `high_threshold`. The velocity
  counts are read without a lock. An analysis is lost when the process dies between
  the answer and `setImmediate`; a slower fallback may overwrite a model's opinion.

Reads.
- A registration between two queries of `checkInvariants` is a false alarm
  (`invariant.service.ts` 17-18 says "Any drift means money was created or
  destroyed"), and at the start it keeps the server from starting.
- Feeds and ledger views count and select in two queries; equal `created_at` have no
  tie-break; a status filter makes rows leave pages under the reader.
- A figure of the summary counts a transfer that moved twice once, and misses a moved one
  that a late verdict of `verify` has marked `FAILED`.
- The summary's cache key contains `range.to`, which is now, so it never hits.
- The bell: `markAllRead` marks notices never shown, a late answer overwrites a newer
  one until the next poll, a transfer paid twice is told twice and an approval by
  every call of `approve`, also when its money is still in flight, a notice is lost if
  the process dies before the insert.
- Loads of `HistoryPage`, `FinancialSummaryPage`, the security event log and the
  disbursement history are not cancelled: the last answer wins.
- The limiter refuses a client that returns exactly at `Retry-After`, and its map of
  buckets never shrinks.

## The proofs

TLC checks small instances; these hold for every value of the constants that the
named assumptions admit:

- `KeysAssumption`, `PayKeysAssumption`, `NoRequestAssumption`, `NoCallAssumption`:
  the values that stand for "none" are none of the others;
- `UsersAssumption`, `AccountsAssumption`, `PeopleAssumption`: users, clients,
  beneficiaries and servers are finitely many;
- `OpeningAssumption`, `IntentAssumption`, `PollsAssumption`,
  `ApprovalKeyAssumption`, `GatewayAssumption`, `SenderAssumption`: the types of the
  constants, transfers have two parties and a positive amount, every approval of a
  request has that request's key, the endpoint's keys are of the replay policy;
- `SettlementAssumption`: a runner is a server and a settlement, a line's key is its
  settlement and number, lines are paid by the retry policy, settlements are finitely many;
- `DeskAssumption`, `ClaimsAssumption`, `ScenesAssumption`, `SlotsAssumption`: scenes
  are well formed (a group is finite, its first debts have two parties and a positive
  amount, what its members type later is any number, an expense is shared by somebody:
  `participant_ids`, `middleware/schemas.ts:213`; the items there at first are
  between two registered users), an assessment that is there at first has a decision
  that fits its band, a model's band is checked by the schema (`aiService.ts:157`), a
  page's first request has a slot;
- `ActivityAssumption`, `AdviceAssumption`, `LimiterAssumption`, `AiAssumption`: a page,
  a window, a limit and the number of attempts are at least 1, lifetimes and the welcome
  grant are numbers, the user whose pages are watched is one of the people.

Each theorem about a `Spec` rests on an inductive invariant, which TLC checked on the
run's instance before it was proved; each action of the model has a step or a lemma
that keeps it. The theorems that state a run's property name it in brackets.

### `SumProofs`

Totals are sums over finite sets, which the community modules define by a recursive
function that takes the members out in an arbitrary order. The library's induction
theorems cannot be used (they take the predicate as an operator), so `NatSetInduction`
and `SubsetInduction` state induction with the predicate as a set, proved from the
library's well-founded orders. From these: the function the fold computes exists
(`SumExists`), the order does not matter (`SumStep`), and what is cited elsewhere:
`SumType`, `SumEmpty`, `SumEqual`, `SumWith`, `SumWithout`, `SumTransfer`, `SumUnion`,
`SumAdd`, `SumConst`, and `SumEnumerated`, a sum taken in any order.

### `TransferEngineProofs`

- `TypeCorrect`: `Spec => []TypeOK`. The step that is not routine is `MoveMoney`: a
  balance stays a natural number because the check is made in the transaction that
  debits.
- `EngineIsSound` (`EngineSound`): the types and the ownership invariant.
- `ExactlyOnce` (`MovedAtMostOnce`), `FailedIsTrue` (`FailedMeansNotMoved`).
- `SuccessMeansMoved` (`SuccessIsTrue`), `DenialStands` (`DenialIsFinal`),
  `EveryMoveIsAudited` (`AuditIsComplete`), `BooksAgree` (`LedgerIsSound`).
- `EngineImplementsAtomicTransfers` (`ImplementsAtomicTransfers`) and, with
  `Verifiers = {}`, `EngineImplementsPayments` (`ImplementsPayments`).

`MovedAtMostOnce` is not inductive: nothing in it stops two calls from being about
to pay. The strengthening is `OwnedOnce(k)`, part of `EngineInv`: the call that
inserted or reset the row *owns* the attempt until it has moved the money, recorded
the rejection or died; an exclusive key has at most one owner, and while it has one
no money has moved under it. A new owner appears only where `CreateRow` finds no row
(so nobody owned it and nothing moved) or, with no verification, where `Reset` finds
a `FAILED` row, which no call owns because an owned row is `PENDING`. `MovePosts` and
`MoveDebits` say what the money transaction does to the ledger; `QuietCallStep` that
every other step leaves ownership and debits alone or passes them on;
`EngineInvInductive` puts the cases together.

`DenialInv` adds that a key somebody was told has failed is closed: not moved, not
owned, and with a row that is never reset, so it gets no owner any more. `AuditInv`
counts: the debits of a key and the attempts still owned are within `attempt_count`,
and every call about to move money has left an `INITIATED` event that no `PROCESSED`
one has used up. `LedgerInv` makes a wallet the sum of its ledger, so that the total
is untouched by a transfer (`SumTransfer`). The refinements map rows and calls to the
abstract state; the step lemmas show action by action which abstract action, or which
stutter, a step is. `PaymentInv` holds what that needs about rows (a call that is
about to answer with a stored failure still finds it stored).

The second half of the module is about `MoneyRequests`. `RequestStepIsEngineStep`
shows that every step of the request layer is a step of the engine or leaves its state
alone, so `RequestSpec => Spec` and every theorem about the engine holds of it
(`RequestSafety`). The invariant it adds, `RequestInv`, consists of the types,
`KeyOfRequest` (a call made by an approval has the one key of its request) and
`DecisionStands`. From these follow

- `RequestTypeCorrect`: `RequestSpec => []RequestTypeOK`;
- `RequestsPaidOnce` (`RequestPaidOnce`), because all approvals of a request share a
  key, which `ExactlyOnce` says is debited at most once;
- `DecisionsAreKept`: `RequestSpec => []DecisionStands`;
- `ResolvedForGood` (`ResolutionIsFinal`), because each `UPDATE` asks for `PENDING`;
- `RequestStatusIsTrue` (`StatusIsTrue`): a request becomes `APPROVED` by a call that
  has its answer, and the engine's answers are true;
- `ResolvedStaysUnpaid` (`ResolvedRequestsStayUnpaid`), an action property: without an
  approval under way no call can move the money of the request;
- `RequestsImplementPayments` (`ImplementsPayments`), with `Verifiers = {}`.

### `RiskProofs`

- `RiskIsMonotone`: for all signals and thresholds, worse signals and stricter
  thresholds do not lower the band. `WeightsGrow` and its neighbours go rule by
  rule, the alternatives of each taken together; the score is a sum of eight weights,
  capped; a single reason is demoted only if it stays single.
- `RiskNeverFallsHolds` (`RiskNeverFalls`). The invariant is `DeskData`: signals and
  thresholds are of their types, since a patch with a negative value is refused.
  `ConsoleIsDesk` shows that the page's steps leave the desk alone, so that what holds
  of `DeskSpec` holds of `ConsoleSpec`.
- `ReviewsSound` (`ReviewsAreSound`). `DeskInv` says what each review and each
  confirmation has read of a row it writes without looking again: a review that has read
  `BLOCKED` has read it from a row of band `HIGH`, and no row changes its band.
  `ConsoleInv` says what every load under way carries: a permission, once read, is in
  force, and a load sent after a release was confirmed has seen it.

### `PaymentGatewayProofs`

`GateHolds` (`GateIsSound`), `ReplaysAreTrue` (`ReplaysTellTheTruth`), `PageIsTrue`
(`PageTellsTheTruth`), `StoredStaysStored` (`StoredResponseIsKept`). `GatewayInv` says
where each request is: what it knows of its payment (`PaysInv`, `LinkInv`), that the
answers under way are true (`TruthInv`), that who is past the gate was let past it
(`GateInv`), who is behind a claimed record (`RecordInv`), and what the page may
conclude from the one request it waits for (`PageInv`: it is the only one that is
under way for the page's key until a lost response is replayed).

### `DisbursementProofs`

`ItemsTellWhoWasPaid` (`ItemsAreTrue`), `ThePageAddsUp` (`PageAddsUp`), `BatchesHold`
(`BatchesAreSound`), for any number of servers where the property does not ask for one.
`DisbursementInv` adds what is true on the way: what every runner still has on its list
(`ItemsInv`), whose payment it makes (`PayInv`) and, with one server, that nothing on
the list is done (`ListInv`), how far the counters lag behind the items (`TallyInv`),
where the money of each item may be (`MoneyInv`, `StepInv`) and what the owner's page
has read (`RowInv`, `ShownInv`). `StepKeeps` shows once that a step of one runner leaves
other batches and runners as they are.

### `SessionsProofs`

- `GuessingBounded` (`GuessingIsBounded`). `AccountInv` counts the failures recorded
  and the clients let in but not yet counted together: who is let in found fewer
  failures than the limit, and no more clients can be inside than there are.
- `SignedOutWithReason` (`SignedOutForAReason`) and `SessionsHoldUp`
  (`SessionsAreSound`, with the type invariant and the action property
  `SuspensionStands`). `SessionInv`: one call of a tab leads a refresh and who waits
  waits for it (`LeaderInv`); a family that ended has no live token and no rotation
  begins in it (`EndedInv`); in a family that is not of `twins`, the token being
  rotated is the only one that may be live, and one handler rotates it (`OneLiveInv`);
  nothing is adrift before an answer was lost, and one tab without that has no twins
  (`SoloInv`); and while nothing happened that may end a session, the cookie is live
  or about to be replaced and no 401 reaches a request that was retried (`Blameless`,
  `Kept`).

### `SettlementProofs`

- `PlansClear`, of every sequence of debts between any people: the promise of the
  comment on `optimizeSettlement`. A left fold is a recursive function over an
  arbitrary choice too; `FoldIs` shows that it goes through its sequence in order, so
  that an invariant of the step is an invariant of the fold. The one of the optimiser
  is `Fair`: what is left of each balance and what the lines pay make up the balance,
  the rests cancel (`NetsCancel`), nobody's rest changes sign or grows, and there are
  at most as many lines as members already settled. Each round of pass 2 settles
  somebody, so one per member leaves nobody; the last line settles two, hence fewer
  lines than members.
- `SettlementPlansClear`: in every reachable state the debts a confirmation finds are
  debts of that kind.
- `PlansAreStable`, of every sequence of debts again: with no two equal balances the
  lines are the same in any order of the rows. The two orders are run side by side.
  After the turns of a set of debtors pass 1 has settled those with an opposite
  balance, by the line between the two, and nobody else (`Matched`, `ExactTurn`): with
  no ties each has at most one partner, so that once all had their turn the order is
  forgotten. Pass 2 looks at rests alone, so equal rests stay equal (`Twins`,
  `RoundsTwins`), and both orders mention the members once each, so the rounds are as
  many (`MentionedOnce`, `MentionedLength`). With ties it is false, which is why the
  property excludes them.
- `SplitsAddUp`: shares add up to the total. The ranks of n participants are 1 to n
  (`RankIs`), so as many as the remainder get one paisa more (`FirstRanks`).
- `SettlementArithmeticIsRight` (`ArithmeticIsRight`) from these, and from
  `TypedExactly` and `ShownExactly`: a typed amount of at most two decimals is stored
  exactly, and a stored amount is shown exactly.
- `SettlementTablesAreSound` (`TablesAreSound`). `TablesInv`: the types, lines between
  two members, a key for each line, runners whose list is of lines of their settlement.
  Amounts stay positive through the parser (`Accepted`) and the split (`Share`).
- `SettlementLinesAreTrue` (`LinesAreTrue`). `DecidedInv` says that what a runner has
  taken off its list is decided, `CallInv` that the payment it makes is of the first
  line on the list, `AloneInv` (one server) that its answer is true and that a line is
  paid for by its runner only. `OwnSteps` shows once that a step of one runner leaves
  the other settlements and runners as they are.
- `SettlementConfirmedForGood` (`ConfirmedForGood`), two action properties. That the
  lines pay exactly the debts taken is `PlansClear` at `Settle`, with or without the
  hash; with it, equal fingerprints are equal debts and lines. The other is from the
  invariant above.
- `SettlementBooksBalance` (`BooksBalance`). `PlanInv`: the lines of a running
  settlement pay its debts exactly, by `PlansClear` at the confirmation. `BooksInv` is
  the balance for every user; the one step that is not routine is `Finalize`, where
  COMPLETED drops debts that the lines have paid, and PARTIAL reopens them and adds
  the payments made.

The proofs asked one change of the definitions: cases of the model that overlapped
(a `CASE` with two true guards, of which TLC takes the first) are now exclusive.

### `AdviceProofs`

`AdviceInvariant` is `AdviceSpec => []AdviceInv`, about `Activity`, `RateLimiter`,
`AiClient` and `Advice` together; the other three follow from it.

- `ReportsAreTrue` (`ReadsAreTrue`). What the writers do is summed up once, in `Grows`:
  users and items are only added, and each item moves as `Becomes` says: it keeps its
  parties and amount, `done` does not fall, and a COMPLETED one stays COMPLETED or is
  `denied`. A report of
  several queries is then judged by its first. `CheckInv`: as long as nobody has
  registered since the check began, each sum read is what was granted to those who were
  there (a transfer moves money between the sums' own terms: `TotalMoved`, by
  `SumTransfer`). `ReaderInv`: what the reader is owed and has not seen lies after the
  pages read, in the feed of the query under way; rows that arrive only push it further
  back (`PlaceGrows`), and the number of pages counts them (`PagesAreEnough`).
  `NoticesInv`: every notice, inserted or due, is of one of
  the times its event has happened (`Right`), and no two are of the same; so the notices of
  an event map one to one into `1..Times` and are not more (`NoticesTold` and what follows
  it). `BellInv`: no load has read more than there is.
- `AdviceFitsItsFacts` (`AdviceIsSound`). `CacheInv`: an insight in the cache is about
  the input its key was made of and was made for its lifetime. `QueryInv` says the
  same of each request step by step; `FiguresInv` that each figure read so far holds
  all that was completed at the start, unless denied since, and nothing that has not
  moved. `InputSame` is why neither is disturbed: what a model is told depends on the
  amounts of rows, and these never change.
- `LimiterBounds` (`BurstsAreBounded`). Not inductive: nothing in it relates the log
  to the window that is open. `LimiterInv` adds that the requests counted are the last
  of the log, that the open window began with the first of them, and that all but the
  last `MaxRequests - 1` of those before it came more than a window earlier
  (`AdmitOpens`, `AdmitCounts`).

### What is only model-checked

- Liveness under fairness: `EveryCallAnswered`, `EveryApprovalAnswered`,
  `EverySettlementFinishes`, `EveryDisbursementFinishes`, `NoKeyStaysLocked`,
  `EveryCallEnds`, `AdviceIsLive`. It is out of the prover's reach.

Every invariant and every action property of a passing run is also a theorem. The three
properties of the runs that expect a violation are false, as those runs show.

## Not modelled

- Validation, headers, error formatting, routing (`middleware/validate.ts`,
  `middleware/schemas.ts`): stateless. The models take validated inputs.
- Cryptography, references, mail, logging, configuration: stateless helpers; a
  password, code or token is right or wrong, hashes of different things differ.
- The intent hash of the idempotency middleware: requests of one key carry one
  intent; another body is refused without a state change.
- Profiles, user search, wallet and ledger views, lists of programmes, groups,
  assessments and security events: single reads, or a count and a page.
- Amounts in disbursements, names and the CSV parsing of rosters; the wording of
  prompts, notices and pages; upper bounds of amounts.
- Mail delivery; migrations; signal
  handlers; the demo history of `database/seed.ts` (its accounts are initial states).
- Pages that only display or submit a form.
