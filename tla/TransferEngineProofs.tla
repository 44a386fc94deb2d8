------------------------ MODULE TransferEngineProofs ------------------------
(***************************************************************************)
(* Theorems about TransferEngine, for every finite set of users and every  *)
(* set of keys, callers and verifiers: the safety invariants of execute    *)
(* and verify, and that the engine implements AtomicTransfers and, while   *)
(* nobody verifies, Payments.  Then, for every set of requests, approvals  *)
(* and deciders, those about MoneyRequests, which runs the engine.         *)
(***************************************************************************)
EXTENDS MoneyRequests, SumProofs

-----------------------------------------------------------------------------
(* Types *)

(* The initial state is well typed.                                         *)
LEMMA InitType == Init => TypeOK
<1> SUFFICES ASSUME Init PROVE TypeOK
  OBVIOUS
<1>1. ledger \in [Users -> Seq(Entry)]
  <2>1. \A u \in Users : Funding(u) \in Entry
    BY OpeningAssumption DEF Funding, Entry
  <2> QED BY <2>1 DEF Init
<1>2. row \in [Keys -> Row]
  BY DEF Init, NoRow, Row, Status, Reason
<1>3. events \in [Keys -> Seq(EventName)]
  BY DEF Init
<1>4. CallTypeOK
  BY DEF Init, FreshCall, CallTypeOK, Call, CallStep, Reason, Answer
<1>5. ProbeTypeOK
  BY DEF Init, FreshProbe, ProbeTypeOK, Probe, ProbeStep, Status, Outcome
<1> QED
  BY <1>1, <1>2, <1>3, <1>4, <1>5, OpeningAssumption DEF TypeOK, DatabaseTypeOK, Init

(* What a caller finds in a row sends it to a step of execute.              *)
LEMMA AfterReadType ==
  ASSUME NEW s \in Status
  PROVE  /\ AfterRead[s] \in {"insert", "done", "resolve", "await"}
         /\ AfterRead[s] \in CallStep \ {"idle"}
         /\ AnswerAfterRead(s) \in Answer
BY DEF AfterRead, AnswerAfterRead, Status, InFlight, CallStep, Answer

(* A call that has begun and moves to another step with another answer.     *)
LEMMA CallStepType ==
  ASSUME CallTypeOK, NEW c \in Callers, call[c].pc # "idle",
         NEW s \in CallStep \ {"idle"}
  PROVE  /\ call' = [call EXCEPT ![c].pc = s] => CallTypeOK'
         /\ \A a \in Answer :
              call' = [call EXCEPT ![c].pc = s, ![c].answer = a] => CallTypeOK'
         /\ \A r \in Reason :
              call' = [call EXCEPT ![c].pc = s, ![c].reason = r] => CallTypeOK'
BY DEF CallTypeOK, Call

(* Every step of execute keeps the types of the local state of the calls.   *)
LEMMA CallsCallType ==
  ASSUME TypeOK, NEW c \in Callers, CallNext(c)
  PROVE  CallTypeOK'
<1> USE DEF TypeOK
<1>1. ASSUME NEW k \in Keys, Lookup(c, k) PROVE CallTypeOK'
  <2>1. row[k].status \in Status
    BY DEF DatabaseTypeOK, Row
  <2>2. /\ AfterRead[row[k].status] \in CallStep \ {"idle"}
        /\ AnswerAfterRead(row[k].status) \in Answer
    BY <2>1, AfterReadType
  <2> DEFINE new == [call[c] EXCEPT !.pc = AfterRead[row[k].status], !.key = k,
                                    !.answer = AnswerAfterRead(row[k].status)]
  <2>3. new \in Call /\ new.key = k
    BY <2>2 DEF CallTypeOK, Call
  <2>4. call' = [call EXCEPT ![c] = new]
    BY <1>1 DEF Lookup
  <2> HIDE DEF new
  <2> QED BY <2>3, <2>4 DEF CallTypeOK
<1>2. ASSUME call[c].pc # "idle" PROVE call[c].key \in Keys
  BY <1>2 DEF CallTypeOK
<1>3. CASE Poll(c)
  <2>1. row[call[c].key].status \in Status
    BY <1>2, <1>3 DEF DatabaseTypeOK, Row, Poll
  <2>2. call[c].pc # "idle"
    BY <1>3 DEF Poll
  <2>3. call[c].polls \in Nat /\ MaxPolls \in Nat
    BY PollsAssumption DEF CallTypeOK, Call
  <2>4. CASE row[call[c].key].status \notin InFlight
    <3>1. /\ AfterRead[row[call[c].key].status] \in CallStep \ {"idle"}
          /\ AnswerAfterRead(row[call[c].key].status) \in Answer
      BY <2>1, AfterReadType
    <3>2. PICK s \in CallStep \ {"idle"}, a \in Answer :
            call' = [call EXCEPT ![c].pc = s, ![c].answer = a]
      BY <1>3, <2>4, <3>1 DEF Poll
    <3> QED BY <2>2, <3>2, CallStepType
  <2>5. CASE row[call[c].key].status \in InFlight /\ call[c].polls < MaxPolls
    <3>1. call' = [call EXCEPT ![c].polls = call[c].polls + 1]
      BY <1>3, <2>5, <2>3 DEF Poll, NextPoll
    <3> QED BY <3>1, <2>3 DEF CallTypeOK, Call
  <2>6. CASE row[call[c].key].status \in InFlight /\ call[c].polls >= MaxPolls
    <3>1. Respond(c, "IN_FLIGHT")
      BY <1>3, <2>6, <2>3 DEF Poll
    <3> QED BY <3>1, <2>2, CallStepType DEF Respond, CallStep, Answer
  <2> QED BY <2>3, <2>4, <2>5, <2>6
<1>4. CASE LoseInsert(c)
  <2> DEFINE new == [call[c] EXCEPT !.pc = "await", !.polls = 0, !.second = TRUE]
  <2>1. call[c] \in Call /\ call[c].key \in Keys
    BY <1>2, <1>4 DEF CallTypeOK, LoseInsert
  <2>2. new \in Call /\ new.key \in Keys
    BY <2>1 DEF Call, CallStep
  <2>3. call' = [call EXCEPT ![c] = new]
    BY <1>4 DEF LoseInsert
  <2> HIDE DEF new
  <2> QED BY <2>2, <2>3 DEF CallTypeOK
<1>5. CASE RejectMoney(c)
  BY <1>5, CallStepType DEF RejectMoney, CallStep, Reason, Rejection
<1>6. CASE ReplayFailure(c) \/ LoseReset(c) \/ MoveMoney(c) \/ AbortMoney(c)
           \/ LogFailed(c) \/ Interrupt(c)
  <2>1. call[c].pc # "idle"
    BY <1>6 DEF ReplayFailure, LoseReset, MoveMoney, AbortMoney, LogFailed, Interrupt
  <2>2. \/ \E a \in Answer : Respond(c, a)
        \/ Goto(c, "insert")
    BY <1>6 DEF ReplayFailure, LoseReset, MoveMoney, AbortMoney, LogFailed, Interrupt,
       Answer
  <2> QED BY <2>1, <2>2, CallStepType DEF Respond, Goto, CallStep
<1>7. CASE Reset(c) \/ CreateRow(c) \/ Initiate(c) \/ MarkFailed(c)
  BY <1>7, CallStepType DEF Reset, CreateRow, Initiate, MarkFailed, Goto, CallStep
<1> QED
  BY <1>1, <1>3, <1>4, <1>5, <1>6, <1>7 DEF CallNext, Continue

(* The arguments sent under a key.                                          *)
LEMMA IntentType ==
  ASSUME NEW k \in Keys
  PROVE  /\ Intent[k].from \in Users
         /\ Intent[k].to \in Users
         /\ Intent[k].amount \in Nat /\ Intent[k].amount > 0
         /\ Intent[k].from # Intent[k].to
BY IntentAssumption

(* The events of a transfer stay a sequence of event names when more are    *)
(* appended.                                                                *)
LEMMA WithEventType ==
  ASSUME events \in [Keys -> Seq(EventName)], NEW k \in Keys, NEW e \in EventName
  PROVE  WithEvent(k, e) \in [Keys -> Seq(EventName)]
BY DEF WithEvent

(* Moving an amount the sender has leaves every balance non-negative.       *)
LEMMA TransferredType ==
  ASSUME NEW f \in [Users -> Nat], NEW a \in Users, NEW b \in Users, NEW n \in Nat,
         a # b, f[a] >= n
  PROVE  [f EXCEPT ![a] = @ - n, ![b] = @ + n] \in [Users -> Nat]
<1>1. f[a] - n \in Nat /\ f[b] + n \in Nat
  OBVIOUS
<1>2. PICK p \in Nat, q \in Nat : p = f[a] - n /\ q = f[b] + n
  BY <1>1
<1>3. [f EXCEPT ![a] = p, ![b] = q] \in [Users -> Nat]
  OBVIOUS
<1>4. [f EXCEPT ![a] = @ - n, ![b] = @ + n] = [f EXCEPT ![a] = p, ![b] = q]
  BY <1>2, Zenon
<1> QED BY <1>3, <1>4

(* Posting one entry to each of two accounts.                               *)
LEMMA PostedType ==
  ASSUME NEW l \in [Users -> Seq(Entry)], NEW a \in Users, NEW b \in Users,
         a # b, NEW d \in Entry, NEW e \in Entry
  PROVE  [l EXCEPT ![a] = Append(@, d), ![b] = Append(@, e)] \in [Users -> Seq(Entry)]
<1>1. PICK p \in Seq(Entry), q \in Seq(Entry) : p = Append(l[a], d) /\ q = Append(l[b], e)
  <2>1. l[a] \in Seq(Entry) /\ l[b] \in Seq(Entry)
    OBVIOUS
  <2>2. Append(l[a], d) \in Seq(Entry)
    BY <2>1
  <2>3. Append(l[b], e) \in Seq(Entry)
    BY <2>1
  <2> QED BY <2>2, <2>3, Zenon
<1>2. [l EXCEPT ![a] = p, ![b] = q] \in [Users -> Seq(Entry)]
  OBVIOUS
<1>3. [l EXCEPT ![a] = Append(@, d), ![b] = Append(@, e)] = [l EXCEPT ![a] = p, ![b] = q]
  BY <1>1, Zenon
<1> QED BY <1>2, <1>3

(* The money transaction keeps the types of the tables; the sender's        *)
(* balance stays non-negative because it was checked under the lock.        *)
LEMMA MoveMoneyType ==
  ASSUME TypeOK, NEW c \in Callers, MoveMoney(c)
  PROVE  DatabaseTypeOK'
<1> DEFINE k == call[c].key
<1> DEFINE i == Intent[k]
<1> USE DEF TypeOK
<1>1. k \in Keys
  BY DEF MoveMoney, CallTypeOK
<1>2. /\ i.from \in Users /\ i.to \in Users /\ i.from # i.to
      /\ i.amount \in Nat
  BY <1>1, IntentType
<1>3. /\ balance \in [Users -> Nat]
      /\ balance[i.from] >= i.amount
  BY DEF MoveMoney, Affordable, DatabaseTypeOK
<1>4. balance' \in [Users -> Nat]
  <2>1. balance' = [balance EXCEPT ![i.from] = @ - i.amount, ![i.to] = @ + i.amount]
    BY DEF MoveMoney, Transferred
  <2> QED BY <1>2, <1>3, <2>1, TransferredType
<1>5. Debit(k) \in Entry /\ Credit(k) \in Entry
  BY <1>1, <1>2, <1>3 DEF Debit, Credit, Entry, SenderAfter, ReceiverAfter
<1>6. ledger' \in [Users -> Seq(Entry)]
  <2>1. ledger' = [ledger EXCEPT ![i.from] = Append(@, Debit(k)),
                                 ![i.to] = Append(@, Credit(k))]
    BY DEF MoveMoney
  <2> QED BY <1>2, <1>5, <2>1, PostedType DEF DatabaseTypeOK
<1>7. row' \in [Keys -> Row]
  BY <1>1 DEF MoveMoney, DatabaseTypeOK, Row, Status
<1>8. events' \in [Keys -> Seq(EventName)]
  <2>1. <<"BALANCE_LOCKED", "PROCESSED", "COMPLETED">> \in Seq(EventName)
    BY DEF EventName
  <2>2. events[k] \o <<"BALANCE_LOCKED", "PROCESSED", "COMPLETED">> \in Seq(EventName)
    BY <1>1, <2>1 DEF DatabaseTypeOK
  <2> QED BY <1>1, <2>2 DEF MoveMoney, DatabaseTypeOK
<1> QED BY <1>4, <1>6, <1>7, <1>8 DEF MoveMoney, DatabaseTypeOK

(* Every step of execute keeps the types of the tables.                     *)
LEMMA CallsDatabaseType ==
  ASSUME TypeOK, NEW c \in Callers, CallNext(c)
  PROVE  DatabaseTypeOK'
<1> USE DEF TypeOK
<1>1. ASSUME call[c].pc # "idle" PROVE call[c].key \in Keys
  BY <1>1 DEF CallTypeOK
<1>2. CASE \/ \E k \in Keys : Lookup(c, k)
           \/ Poll(c) \/ ReplayFailure(c) \/ LoseReset(c) \/ LoseInsert(c)
           \/ RejectMoney(c) \/ AbortMoney(c) \/ Interrupt(c)
  BY <1>2 DEF Lookup, Poll, ReplayFailure, LoseReset, LoseInsert, RejectMoney,
     AbortMoney, Interrupt, DatabaseTypeOK
<1>3. CASE Reset(c)
  BY <1>1, <1>3 DEF Reset, DatabaseTypeOK, Row, Status, InFlight, Reason, NextAttempt
<1>4. CASE CreateRow(c)
  BY <1>1, <1>4 DEF CreateRow, DatabaseTypeOK, Row, Status, InFlight, Reason
<1>5. CASE Initiate(c)
  BY <1>1, <1>5, WithEventType DEF Initiate, Initiation, DatabaseTypeOK, EventName
<1>6. CASE MoveMoney(c)
  BY <1>6, MoveMoneyType
<1>7. CASE MarkFailed(c)
  <2>1. call[c].reason \in Reason
    BY DEF CallTypeOK, Call
  <2> DEFINE k == call[c].key
             new == [row[k] EXCEPT !.status = "FAILED", !.reason = call[c].reason]
  <2>2. k \in Keys
    BY <1>1, <1>7 DEF MarkFailed
  <2>3. new \in Row
    BY <2>1, <2>2 DEF DatabaseTypeOK, Row, Status
  <2>4. row' = row \/ row' = [row EXCEPT ![k] = new]
    BY <1>7 DEF MarkFailed
  <2>5. row' \in [Keys -> Row]
    <3> HIDE DEF new
    <3> QED BY <2>3, <2>4 DEF DatabaseTypeOK
  <2> QED BY <1>7, <2>5 DEF MarkFailed, DatabaseTypeOK
<1>8. CASE LogFailed(c)
  BY <1>1, <1>8, WithEventType DEF LogFailed, DatabaseTypeOK, EventName
<1> QED
  BY <1>2, <1>3, <1>4, <1>5, <1>6, <1>7, <1>8 DEF CallNext, Continue

(* Every step of verify keeps the types of the tables and of its own state. *)
LEMMA ProbesType ==
  ASSUME TypeOK, NEW v \in Verifiers, ProbeNext(v)
  PROVE  DatabaseTypeOK' /\ ProbeTypeOK'
<1> USE DEF TypeOK
<1>1. ASSUME probe[v].pc # "idle" PROVE probe[v].key \in Keys
  BY <1>1 DEF ProbeTypeOK
<1>2. ASSUME NEW k \in Keys, ReadTransfer(v, k) PROVE DatabaseTypeOK' /\ ProbeTypeOK'
  <2>1. row[k].status \in Status
    BY DEF DatabaseTypeOK, Row
  <2> DEFINE new == [probe[v] EXCEPT !.pc = "readLedger", !.key = k,
                                     !.status = row[k].status]
  <2>2. new \in Probe /\ new.key \in Keys
    BY <2>1 DEF ProbeTypeOK, Probe, ProbeStep
  <2>3. probe' = [probe EXCEPT ![v] = new]
    BY <1>2 DEF ReadTransfer
  <2>4. ProbeTypeOK'
    <3> HIDE DEF new
    <3> QED BY <2>2, <2>3 DEF ProbeTypeOK
  <2> QED BY <1>2, <2>4 DEF ReadTransfer, DatabaseTypeOK
<1>3. CASE ReadLedger(v)
  <2>1. LedgerOutcome(probe[v].key, probe[v].status) \in Outcome
    BY DEF LedgerOutcome, Outcome
  <2> QED BY <1>3, <2>1 DEF ReadLedger, DatabaseTypeOK, ProbeTypeOK, Probe, ProbeStep
<1>4. CASE ReadEvents(v)
  <2>1. Newest(probe[v].key) \in {"none"} \cup EventName
    BY <1>1, <1>4 DEF ReadEvents, Newest, Last, DatabaseTypeOK
  <2>2. PICK s \in {"reload", "reconcile"}, e \in {"none"} \cup EventName :
          probe' = [probe EXCEPT ![v].pc = s, ![v].newest = e]
    BY <1>4, <2>1 DEF ReadEvents
  <2>3. probe[v].key \in Keys
    BY <1>1, <1>4 DEF ReadEvents
  <2> DEFINE new == [probe[v] EXCEPT !.pc = s, !.newest = e]
  <2>4. new \in Probe /\ new.key \in Keys
    BY <2>3 DEF ProbeTypeOK, Probe, ProbeStep
  <2>5. ProbeTypeOK'
    <3>1. probe' = [probe EXCEPT ![v] = new]
      BY <2>2
    <3> HIDE DEF new
    <3> QED BY <2>4, <3>1 DEF ProbeTypeOK
  <2> QED BY <1>4, <2>5 DEF ReadEvents, DatabaseTypeOK
<1>5. CASE Reconcile(v)
  <2> DEFINE k == probe[v].key
  <2>1. k \in Keys
    BY <1>1, <1>5 DEF Reconcile
  <2>2. \A o \in Outcome, opening \in BOOLEAN : Reconciled(row[k], o, opening) \in Row
    BY <2>1 DEF Reconciled, DatabaseTypeOK, Row, Status, InFlight, Reason
  <2>3. row' \in [Keys -> Row]
    BY <1>5, <2>1, <2>2 DEF Reconcile, DatabaseTypeOK, ProbeTypeOK, Probe
  <2>4. events' \in [Keys -> Seq(EventName)]
    <3>1. /\ <<"CLIENT_CONFIRMATION_LOST", "VERIFIED">> \in Seq(EventName)
          /\ <<"VERIFIED">> \in Seq(EventName)
      BY DEF EventName
    <3>2. PICK new \in Seq(EventName) : events' = [events EXCEPT ![k] = @ \o new]
      BY <1>5, <3>1 DEF Reconcile
    <3> QED BY <2>1, <3>2 DEF DatabaseTypeOK
  <2>5. ProbeTypeOK'
    <3>1. probe[v].pc # "idle" /\ probe' = [probe EXCEPT ![v].pc = "reload"]
      BY <1>5 DEF Reconcile
    <3> QED BY <1>1, <3>1 DEF ProbeTypeOK, Probe, ProbeStep
  <2> QED BY <1>5, <2>3, <2>4, <2>5 DEF Reconcile, DatabaseTypeOK
<1>6. CASE Reload(v)
  <2>1. row[probe[v].key].status \in Status
    BY <1>1, <1>6 DEF Reload, DatabaseTypeOK, Row
  <2> QED BY <1>6, <2>1 DEF Reload, DatabaseTypeOK, ProbeTypeOK, Probe, ProbeStep
<1>7. CASE InterruptProbe(v)
  BY <1>7 DEF InterruptProbe, DatabaseTypeOK, ProbeTypeOK, Probe, ProbeStep
<1> QED
  BY <1>2, <1>3, <1>4, <1>5, <1>6, <1>7 DEF ProbeNext, ContinueProbe

(* Every step of the engine keeps the types.                                *)
LEMMA NextType ==
  ASSUME TypeOK, [Next]_vars
  PROVE  TypeOK'
<1>1. ASSUME NEW u \in Users, Activate(u) PROVE TypeOK'
  BY <1>1 DEF Activate, TypeOK, DatabaseTypeOK, CallTypeOK, ProbeTypeOK
<1>2. ASSUME NEW c \in Callers, CallNext(c) PROVE TypeOK'
  <2>1. probe' = probe
    BY <1>2 DEF CallNext, Continue, Lookup, Poll, ReplayFailure, Reset, LoseReset,
       CreateRow, LoseInsert, Initiate, MoveMoney, RejectMoney, AbortMoney,
       MarkFailed, LogFailed, Interrupt
  <2> QED BY <1>2, <2>1, CallsDatabaseType, CallsCallType DEF TypeOK, ProbeTypeOK
<1>3. ASSUME NEW v \in Verifiers, ProbeNext(v) PROVE TypeOK'
  <2>1. call' = call
    BY <1>3 DEF ProbeNext, ContinueProbe, ReadTransfer, ReadLedger, ReadEvents,
       Reconcile, Reload, InterruptProbe
  <2> QED BY <1>3, <2>1, ProbesType DEF TypeOK, CallTypeOK
<1>4. CASE UNCHANGED vars
  BY <1>4 DEF vars, TypeOK, DatabaseTypeOK, CallTypeOK, ProbeTypeOK
<1> QED BY <1>1, <1>2, <1>3, <1>4 DEF Next

(* TransferEngine is type correct: in particular no wallet is ever          *)
(* overdrawn, whatever transfers interleave.                                *)
THEOREM TypeCorrect == Spec => []TypeOK
BY InitType, NextType, PTL DEF Spec

-----------------------------------------------------------------------------
(* Exactly once *)

(* Where the entries of key j are after one more entry.                     *)
LEMMA AppendPositions ==
  ASSUME NEW s \in Seq(Entry), NEW e \in Entry, NEW j
  PROVE  {i \in DOMAIN Append(s, e) : Append(s, e)[i].key = j} =
           {i \in DOMAIN s : s[i].key = j} \cup (IF e.key = j THEN {Len(s) + 1} ELSE {})
<1>1. DOMAIN Append(s, e) = DOMAIN s \cup {Len(s) + 1}
  OBVIOUS
<1>2. Append(s, e)[Len(s) + 1] = e /\ \A i \in DOMAIN s : Append(s, e)[i] = s[i]
  OBVIOUS
<1>3. Len(s) + 1 \notin DOMAIN s
  OBVIOUS
<1> QED BY <1>1, <1>2, <1>3, Zenon

(* The money transaction posts its debit at the end of the sender's ledger, *)
(* its credit at the end of the receiver's, and nothing else.               *)
LEMMA MovePosts ==
  ASSUME TypeOK, NEW c \in Callers, MoveMoney(c)
  PROVE  LET k == call[c].key IN
         /\ k \in Keys
         /\ Debit(k) \in Entry /\ Credit(k) \in Entry
         /\ ledger'[Intent[k].from] = Append(ledger[Intent[k].from], Debit(k))
         /\ ledger'[Intent[k].to] = Append(ledger[Intent[k].to], Credit(k))
         /\ \A u \in Users \ {Intent[k].from, Intent[k].to} : ledger'[u] = ledger[u]
<1> DEFINE k == call[c].key
<1>1. k \in Keys
  BY DEF MoveMoney, CallTypeOK, TypeOK
<1>2. /\ Intent[k].from \in Users /\ Intent[k].to \in Users
      /\ Intent[k].amount \in Nat /\ Intent[k].from # Intent[k].to
  BY <1>1, IntentType
<1>3. /\ balance \in [Users -> Nat]
      /\ balance[Intent[k].from] >= Intent[k].amount
  BY DEF MoveMoney, Affordable, TypeOK, DatabaseTypeOK
<1>4. Debit(k) \in Entry /\ Credit(k) \in Entry
  BY <1>1, <1>2, <1>3 DEF Debit, Credit, Entry, SenderAfter, ReceiverAfter
<1>5. ledger' = [ledger EXCEPT ![Intent[k].from] = Append(@, Debit(k)),
                               ![Intent[k].to] = Append(@, Credit(k))]
  BY DEF MoveMoney
<1>6. ledger \in [Users -> Seq(Entry)]
  BY DEF TypeOK, DatabaseTypeOK
<1> HIDE DEF k
<1>7. /\ ledger'[Intent[k].from] = Append(ledger[Intent[k].from], Debit(k))
      /\ ledger'[Intent[k].to] = Append(ledger[Intent[k].to], Credit(k))
      /\ \A u \in Users \ {Intent[k].from, Intent[k].to} : ledger'[u] = ledger[u]
  BY <1>2, <1>5, <1>6, Zenon
<1> QED BY <1>1, <1>4, <1>7 DEF k

(* The money transaction debits its own key once more and no other key.     *)
LEMMA MoveDebits ==
  ASSUME TypeOK, NEW c \in Callers, MoveMoney(c), NEW j \in Keys
  PROVE  /\ j # call[c].key => Debits(j)' = Debits(j)
         /\ j = call[c].key => Debits(j)' = Debits(j) \cup {Len(ledger[Intent[j].from]) + 1}
<1> DEFINE k == call[c].key
<1> DEFINE u == Intent[j].from
<1>1. /\ k \in Keys
      /\ Debit(k) \in Entry /\ Credit(k) \in Entry
      /\ ledger'[Intent[k].from] = Append(ledger[Intent[k].from], Debit(k))
      /\ ledger'[Intent[k].to] = Append(ledger[Intent[k].to], Credit(k))
      /\ \A w \in Users \ {Intent[k].from, Intent[k].to} : ledger'[w] = ledger[w]
  BY MovePosts
<1>2. u \in Users /\ ledger[u] \in Seq(Entry) /\ Intent[k].from # Intent[k].to
  BY <1>1, IntentType DEF TypeOK, DatabaseTypeOK
<1>3. Debit(k).key = k /\ Credit(k).key = k
  BY DEF Debit, Credit
<1>4. /\ Debits(j) = {i \in DOMAIN ledger[u] : ledger[u][i].key = j}
      /\ Debits(j)' = {i \in DOMAIN ledger'[u] : ledger'[u][i].key = j}
  BY DEF Debits, Positions
<1> HIDE DEF k, u
<1>5. CASE u = Intent[k].from
  <2>1. Debits(j)' = Debits(j) \cup (IF k = j THEN {Len(ledger[u]) + 1} ELSE {})
    <3>1. ledger'[u] = Append(ledger[u], Debit(k))
      BY <1>1, <1>5
    <3>2. {i \in DOMAIN ledger'[u] : ledger'[u][i].key = j} =
            {i \in DOMAIN ledger[u] : ledger[u][i].key = j}
              \cup (IF Debit(k).key = j THEN {Len(ledger[u]) + 1} ELSE {})
      BY <1>1, <1>2, <3>1, AppendPositions
    <3> QED BY <1>3, <1>4, <3>2
  <2> QED BY <2>1 DEF k, u
<1>6. CASE u = Intent[k].to
  <2>1. Debits(j)' = Debits(j) \cup (IF k = j THEN {Len(ledger[u]) + 1} ELSE {})
    <3>1. ledger'[u] = Append(ledger[u], Credit(k))
      BY <1>1, <1>6
    <3>2. {i \in DOMAIN ledger'[u] : ledger'[u][i].key = j} =
            {i \in DOMAIN ledger[u] : ledger[u][i].key = j}
              \cup (IF Credit(k).key = j THEN {Len(ledger[u]) + 1} ELSE {})
      BY <1>1, <1>2, <3>1, AppendPositions
    <3> QED BY <1>3, <1>4, <3>2
  <2>2. j # k
    BY <1>2, <1>6 DEF u
  <2> QED BY <2>1, <2>2 DEF k, u
<1>7. CASE u \notin {Intent[k].from, Intent[k].to}
  <2>1. j # k
    BY <1>7 DEF u
  <2>2. ledger'[u] = ledger[u]
    BY <1>1, <1>2, <1>7
  <2> QED BY <1>4, <2>1, <2>2 DEF k
<1> QED BY <1>5, <1>6, <1>7

(* A step that leaves the row and the ledger of a key alone and makes no    *)
(* new owner keeps the key owned once.                                      *)
LEMMA OwnedFrame ==
  ASSUME NEW k \in Keys, OwnedOnce(k),
         row'[k] = row[k], Debits(k)' = Debits(k),
         \A d \in Callers : Owns(d, k)' => Owns(d, k)
  PROVE  OwnedOnce(k)'
<1>1. Moved(k)' = Moved(k) /\ AtMostOnce(k)' = AtMostOnce(k)
  BY DEF Moved, AtMostOnce
<1> QED BY <1>1 DEF OwnedOnce

(* A call's step leaves the local state of the other calls alone, and never *)
(* changes the key of a call that has begun.                                *)
LEMMA CallFrame ==
  ASSUME TypeOK, NEW c \in Callers, CallNext(c)
  PROVE  /\ \A d \in Callers \ {c} : call'[d] = call[d]
         /\ call[c].pc # "idle" => call'[c].key = call[c].key
<1> USE DEF TypeOK, CallTypeOK, Call
<1>1. CASE \E k \in Keys : Lookup(c, k)
  BY <1>1 DEF Lookup
<1>2. CASE Poll(c)
  BY <1>2 DEF Poll, Respond
<1>3. CASE LoseInsert(c) \/ RejectMoney(c)
  BY <1>3 DEF LoseInsert, RejectMoney
<1>4. CASE ReplayFailure(c) \/ LoseReset(c) \/ MoveMoney(c) \/ AbortMoney(c)
           \/ LogFailed(c) \/ Interrupt(c)
  BY <1>4 DEF ReplayFailure, LoseReset, MoveMoney, AbortMoney, LogFailed, Interrupt,
     Respond, Goto
<1>5. CASE Reset(c) \/ CreateRow(c) \/ Initiate(c) \/ MarkFailed(c)
  BY <1>5 DEF Reset, CreateRow, Initiate, MarkFailed, Goto
<1> QED BY <1>1, <1>2, <1>3, <1>4, <1>5 DEF CallNext, Continue

(* The steps of execute that change neither a row nor the ledger make no    *)
(* owner: only the call that wins the insert or the reset becomes one.      *)
LEMMA QuietCallStep ==
  ASSUME TypeOK, NEW c \in Callers, NEW k \in Keys,
         \/ \E j \in Keys : Lookup(c, j)
         \/ Poll(c) \/ ReplayFailure(c) \/ LoseReset(c) \/ LoseInsert(c) \/ Initiate(c)
         \/ RejectMoney(c) \/ AbortMoney(c) \/ LogFailed(c) \/ Interrupt(c)
  PROVE  /\ row' = row /\ ledger' = ledger
         /\ \A d \in Callers : Owns(d, k)' => Owns(d, k)
<1> USE DEF TypeOK, CallTypeOK, Call
<1>1. row' = row /\ ledger' = ledger
  BY DEF Lookup, Poll, ReplayFailure, LoseReset, LoseInsert, Initiate, RejectMoney,
     AbortMoney, LogFailed, Interrupt
<1>2. \A d \in Callers \ {c} : call'[d] = call[d]
  BY CallFrame DEF CallNext, Continue
<1>3. call[c].pc # "idle" => call'[c].key = call[c].key
  BY CallFrame DEF CallNext, Continue
<1>4. Owns(c, k)' => Owns(c, k)
  <2>1. CASE \E j \in Keys : Lookup(c, j)
    <3>1. PICK j \in Keys : Lookup(c, j)
      BY <2>1
    <3>2. row[j].status \in Status
      BY DEF DatabaseTypeOK, Row
    <3>3. call'[c].pc = AfterRead[row[j].status]
      BY <3>1 DEF Lookup
    <3> QED BY <3>2, <3>3, AfterReadType DEF Owns
  <2>2. CASE Poll(c)
    <3>1. row[call[c].key].status \in Status
      BY <2>2 DEF Poll, DatabaseTypeOK, Row
    <3>2. call'[c].pc \in {AfterRead[row[call[c].key].status], "await", "done"}
      BY <2>2 DEF Poll, Respond
    <3> QED BY <3>1, <3>2, AfterReadType DEF Owns
  <2>3. CASE LoseInsert(c)
    BY <2>3 DEF LoseInsert, Owns
  <2>4. CASE RejectMoney(c) \/ Initiate(c)
    <3>1. call[c].pc \in {"initiate", "money"}
      BY <2>4 DEF RejectMoney, Initiate
    <3> QED BY <1>3, <3>1 DEF Owns
  <2>5. CASE ReplayFailure(c) \/ LoseReset(c) \/ AbortMoney(c) \/ LogFailed(c)
             \/ Interrupt(c)
    <3>1. call'[c].pc \in {"done", "insert"}
      BY <2>5 DEF ReplayFailure, LoseReset, AbortMoney, LogFailed, Interrupt, Respond,
         Goto
    <3> QED BY <3>1 DEF Owns
  <2> QED BY <2>1, <2>2, <2>3, <2>4, <2>5
<1>5. ASSUME NEW d \in Callers \ {c} PROVE Owns(d, k)' => Owns(d, k)
  BY <1>2, <1>5 DEF Owns
<1> QED BY <1>1, <1>4, <1>5

(* Execute keeps every exclusive key owned once.                            *)
LEMMA CallsOwnOnce ==
  ASSUME TypeOK, NEW c \in Callers, CallNext(c),
         NEW k \in Keys, Exclusive(k), OwnedOnce(k)
  PROVE  OwnedOnce(k)'
<1>1. \A d \in Callers \ {c} : call'[d] = call[d]
  BY CallFrame
<1>2. ASSUME NEW d \in Callers \ {c} PROVE Owns(d, k)' = Owns(d, k)
  BY <1>1, <1>2 DEF Owns
<1>3. CASE \/ \E j \in Keys : Lookup(c, j)
           \/ Poll(c) \/ ReplayFailure(c) \/ LoseReset(c) \/ LoseInsert(c)
           \/ Initiate(c) \/ RejectMoney(c) \/ AbortMoney(c) \/ LogFailed(c)
           \/ Interrupt(c)
  <2>1. /\ row' = row /\ ledger' = ledger
        /\ \A d \in Callers : Owns(d, k)' => Owns(d, k)
    BY <1>3, QuietCallStep
  <2>2. Debits(k)' = Debits(k)
    BY <2>1 DEF Debits, Positions
  <2> QED BY <2>1, <2>2, OwnedFrame
<1>4. ASSUME call[c].key # k, Reset(c) \/ CreateRow(c) \/ MoveMoney(c) \/ MarkFailed(c)
      PROVE  OwnedOnce(k)'
  <2>1. call'[c].key = call[c].key
    BY <1>4, CallFrame DEF Reset, CreateRow, MoveMoney, MarkFailed
  <2>2. row'[k] = row[k]
    BY <1>4 DEF Reset, CreateRow, MoveMoney, MarkFailed, TypeOK, DatabaseTypeOK
  <2>3. Debits(k)' = Debits(k)
    <3>1. CASE MoveMoney(c)
      BY <1>4, <3>1, MoveDebits
    <3>2. CASE ~MoveMoney(c)
      BY <1>4, <3>2 DEF Reset, CreateRow, MarkFailed, Debits, Positions
    <3> QED BY <3>1, <3>2
  <2>4. ~Owns(c, k)'
    BY <1>4, <2>1 DEF Owns
  <2> QED BY <1>2, <2>2, <2>3, <2>4, OwnedFrame
<1>5. CASE call[c].key = k /\ Reset(c)
  <2>1. /\ k \in RetryKeys /\ Verifiers = {} /\ row[k].status = "FAILED"
    BY <1>5 DEF Reset, MayRetry, Resettable, Exclusive
  <2>2. ~Moved(k) /\ \A d \in Callers : ~Owns(d, k)
    BY <2>1 DEF OwnedOnce
  <2>3. row'[k].status = "PENDING"
    BY <1>5 DEF Reset, TypeOK, DatabaseTypeOK
  <2>4. Debits(k)' = Debits(k)
    BY <1>5 DEF Reset, Debits, Positions
  <2>5. Moved(k)' = Moved(k) /\ AtMostOnce(k)' = AtMostOnce(k)
    BY <2>4 DEF Moved, AtMostOnce
  <2> QED BY <1>2, <2>2, <2>3, <2>5 DEF OwnedOnce
<1>6. CASE call[c].key = k /\ CreateRow(c)
  <2>1. row[k].status = "NONE"
    BY <1>6 DEF CreateRow, Claimable
  <2>2. ~Moved(k) /\ \A d \in Callers : ~Owns(d, k)
    BY <2>1 DEF OwnedOnce
  <2>3. row'[k].status = "PENDING"
    BY <1>6 DEF CreateRow, TypeOK, DatabaseTypeOK
  <2>4. Debits(k)' = Debits(k)
    BY <1>6 DEF CreateRow, Debits, Positions
  <2>5. Moved(k)' = Moved(k) /\ AtMostOnce(k)' = AtMostOnce(k)
    BY <2>4 DEF Moved, AtMostOnce
  <2> QED BY <1>2, <2>2, <2>3, <2>5 DEF OwnedOnce
<1>7. CASE call[c].key = k /\ MoveMoney(c)
  <2>1. Owns(c, k)
    BY <1>7 DEF Owns, MoveMoney
  <2>2. ~Moved(k) /\ \A d \in Callers \ {c} : ~Owns(d, k)
    BY <2>1 DEF OwnedOnce
  <2>3. AtMostOnce(k)'
    BY <1>7, <2>2, MoveDebits DEF Moved, AtMostOnce
  <2>4. \A d \in Callers : ~Owns(d, k)'
    <3>1. call'[c].pc = "done"
      BY <1>7 DEF MoveMoney, Respond, TypeOK, CallTypeOK, Call
    <3> QED BY <1>2, <2>2, <3>1 DEF Owns
  <2>5. row'[k].status = "COMPLETED"
    BY <1>7 DEF MoveMoney, TypeOK, DatabaseTypeOK, Row
  <2> QED BY <2>3, <2>4, <2>5 DEF OwnedOnce
<1>8. CASE call[c].key = k /\ MarkFailed(c)
  <2>1. Owns(c, k)
    BY <1>8 DEF Owns, MarkFailed
  <2>2. ~Moved(k) /\ \A d \in Callers \ {c} : ~Owns(d, k)
    BY <2>1 DEF OwnedOnce
  <2>3. Debits(k)' = Debits(k)
    BY <1>8 DEF MarkFailed, Debits, Positions
  <2>4. \A d \in Callers : ~Owns(d, k)'
    <3>1. call'[c].pc = "logFailed"
      BY <1>8 DEF MarkFailed, Goto, TypeOK, CallTypeOK, Call
    <3> QED BY <1>2, <2>2, <3>1 DEF Owns
  <2>5. Moved(k)' = Moved(k) /\ AtMostOnce(k)' = AtMostOnce(k)
    BY <2>3 DEF Moved, AtMostOnce
  <2> QED BY <2>2, <2>4, <2>5 DEF OwnedOnce
<1> QED
  BY <1>3, <1>4, <1>5, <1>6, <1>7, <1>8 DEF CallNext, Continue

(* Reconciliation never deletes a row nor creates one, never writes the     *)
(* ledger and never touches a call, so it keeps the replay keys owned once. *)
LEMMA ProbesOwnOnce ==
  ASSUME TypeOK, NEW v \in Verifiers, ProbeNext(v),
         NEW k \in Keys, Exclusive(k), OwnedOnce(k)
  PROVE  OwnedOnce(k)'
<1>1. call' = call /\ ledger' = ledger
  BY DEF ProbeNext, ContinueProbe, ReadTransfer, ReadLedger, ReadEvents, Reconcile,
     Reload, InterruptProbe
<1>2. \A d \in Callers : Owns(d, k)' = Owns(d, k)
  BY <1>1 DEF Owns
<1>3. Debits(k)' = Debits(k)
  BY <1>1 DEF Debits, Positions
<1>4. Moved(k)' = Moved(k) /\ AtMostOnce(k)' = AtMostOnce(k)
  BY <1>3 DEF Moved, AtMostOnce
<1>5. row'[k].status = "NONE" => row[k].status = "NONE"
  <2>1. CASE Reconcile(v)
    <3>1. \A r \in Row, o \in Outcome, opening \in BOOLEAN :
            Reconciled(r, o, opening).status = "NONE" => r.status = "NONE"
      BY DEF Reconciled, Row
    <3>2. PICK opening \in BOOLEAN :
            row' = [row EXCEPT ![probe[v].key] = Reconciled(@, probe[v].outcome, opening)]
      BY <2>1 DEF Reconcile
    <3>3. row[k] \in Row /\ probe[v].outcome \in Outcome
      BY DEF TypeOK, DatabaseTypeOK, ProbeTypeOK, Probe
    <3> QED BY <3>1, <3>2, <3>3 DEF TypeOK, DatabaseTypeOK
  <2>2. CASE ~Reconcile(v)
    BY <2>2 DEF ProbeNext, ContinueProbe, ReadTransfer, ReadLedger, ReadEvents, Reload,
       InterruptProbe
  <2> QED BY <2>1, <2>2
<1>6. Verifiers # {}
  OBVIOUS
<1> QED BY <1>2, <1>4, <1>5, <1>6 DEF OwnedOnce

(* Every entry the engine posts matches what its key asks for.              *)
LEMMA EntriesMatch ==
  ASSUME TypeOK, NEW c \in Callers, MoveMoney(c),
         \A u \in Users : \A i \in DOMAIN ledger[u] : EntryMatchesIntent(u, ledger[u][i])
  PROVE  (\A u \in Users : \A i \in DOMAIN ledger[u] : EntryMatchesIntent(u, ledger[u][i]))'
<1> DEFINE k == call[c].key
<1>1. /\ k \in Keys
      /\ Debit(k) \in Entry /\ Credit(k) \in Entry
      /\ ledger'[Intent[k].from] = Append(ledger[Intent[k].from], Debit(k))
      /\ ledger'[Intent[k].to] = Append(ledger[Intent[k].to], Credit(k))
      /\ \A w \in Users \ {Intent[k].from, Intent[k].to} : ledger'[w] = ledger[w]
  BY MovePosts
<1>2. EntryMatchesIntent(Intent[k].from, Debit(k)) /\ EntryMatchesIntent(Intent[k].to, Credit(k))
  BY DEF EntryMatchesIntent, Debit, Credit
<1> HIDE DEF k
<1>3. ASSUME NEW u \in Users, NEW e \in Entry, ledger'[u] = Append(ledger[u], e),
             EntryMatchesIntent(u, e), NEW i \in DOMAIN ledger'[u]
      PROVE  EntryMatchesIntent(u, ledger'[u][i])
  <2>1. ledger[u] \in Seq(Entry)
    BY DEF TypeOK, DatabaseTypeOK
  <2>2. CASE i \in DOMAIN ledger[u]
    <3>1. ledger'[u][i] = ledger[u][i]
      BY <1>3, <2>1, <2>2
    <3> QED BY <2>2, <3>1
  <2>3. CASE i \notin DOMAIN ledger[u]
    <3>1. ledger'[u][i] = e
      BY <1>3, <2>1, <2>3
    <3> QED BY <1>3, <3>1
  <2> QED BY <2>2, <2>3
<1>4. ASSUME NEW u \in Users, NEW i \in DOMAIN ledger'[u]
      PROVE  EntryMatchesIntent(u, ledger'[u][i])
  <2>1. CASE u = Intent[k].from
    BY <1>1, <1>2, <1>3, <2>1
  <2>2. CASE u = Intent[k].to
    BY <1>1, <1>2, <1>3, <2>2
  <2>3. CASE u \notin {Intent[k].from, Intent[k].to}
    <3>1. ledger'[u] = ledger[u]
      BY <1>1, <2>3
    <3> QED BY <1>4, <3>1
  <2> QED BY <2>1, <2>2, <2>3
<1> QED BY <1>4 DEF EntryMatchesIntent

(* Nothing but the money transaction writes the ledger.                     *)
LEMMA LedgerOnlyMoves ==
  ASSUME [Next]_vars
  PROVE  ledger' = ledger \/ \E c \in Callers : MoveMoney(c)
<1>1. ASSUME NEW c \in Callers, CallNext(c), ~MoveMoney(c) PROVE ledger' = ledger
  BY <1>1 DEF CallNext, Continue, Lookup, Poll, ReplayFailure, Reset, LoseReset,
     CreateRow, LoseInsert, Initiate, RejectMoney, AbortMoney, MarkFailed, LogFailed,
     Interrupt
<1>2. ASSUME NEW v \in Verifiers, ProbeNext(v) PROVE ledger' = ledger
  BY <1>2 DEF ProbeNext, ContinueProbe, ReadTransfer, ReadLedger, ReadEvents, Reconcile,
     Reload, InterruptProbe
<1>3. ASSUME NEW u \in Users, Activate(u) PROVE ledger' = ledger
  BY <1>3 DEF Activate
<1>4. CASE UNCHANGED vars
  BY <1>4 DEF vars
<1> QED BY <1>1, <1>2, <1>3, <1>4 DEF Next

(* The engine invariant is inductive relative to the types.                 *)
LEMMA EngineInvInductive ==
  /\ Init => EngineInv
  /\ TypeOK /\ EngineInv /\ [Next]_vars => EngineInv'
<1>1. Init => EngineInv
  <2> SUFFICES ASSUME Init PROVE EngineInv
    OBVIOUS
  <2>1. \A u \in Users : DOMAIN ledger[u] = {1} /\ ledger[u][1] = Funding(u)
    BY DEF Init
  <2>2. ASSUME NEW u \in Users, NEW i \in DOMAIN ledger[u] PROVE ledger[u][i].key \notin Keys
    <3>1. ledger[u][i] = Funding(u)
      BY <2>1
    <3> QED BY <3>1, KeysAssumption DEF Funding
  <2>3. \A u \in Users : \A i \in DOMAIN ledger[u] : EntryMatchesIntent(u, ledger[u][i])
    BY <2>2 DEF EntryMatchesIntent
  <2>4. ASSUME NEW k \in Keys PROVE OwnedOnce(k)
    <3>1. Debits(k) = {}
      <4>1. Intent[k].from \in Users
        BY IntentType
      <4>2. \A i \in DOMAIN ledger[Intent[k].from] : ledger[Intent[k].from][i].key # k
        BY <2>2, <4>1
      <4> QED BY <4>2 DEF Debits, Positions
    <3>2. \A c \in Callers : ~Owns(c, k)
      BY DEF Init, FreshCall, Owns
    <3>3. row[k].status = "NONE"
      BY DEF Init, NoRow
    <3> QED BY <3>1, <3>2, <3>3 DEF OwnedOnce, AtMostOnce, Moved
  <2> QED BY <2>3, <2>4 DEF EngineInv
<1>2. ASSUME TypeOK, EngineInv, [Next]_vars PROVE EngineInv'
  <2>1. ASSUME NEW k \in Keys, Exclusive(k) PROVE OwnedOnce(k)'
    <3>1. OwnedOnce(k)
      BY <1>2, <2>1 DEF EngineInv
    <3>2. ASSUME NEW c \in Callers, CallNext(c) PROVE OwnedOnce(k)'
      BY <1>2, <2>1, <3>1, <3>2, CallsOwnOnce
    <3>3. ASSUME NEW v \in Verifiers, ProbeNext(v) PROVE OwnedOnce(k)'
      BY <1>2, <2>1, <3>1, <3>3, ProbesOwnOnce
    <3>4. CASE UNCHANGED vars \/ \E u \in Users : Activate(u)
      <4>1. row' = row /\ ledger' = ledger /\ call' = call
        BY <3>4 DEF vars, Activate
      <4>2. Debits(k)' = Debits(k) /\ \A d \in Callers : Owns(d, k)' = Owns(d, k)
        BY <4>1 DEF Debits, Positions, Owns
      <4> QED BY <3>1, <4>1, <4>2, OwnedFrame
    <3> QED BY <1>2, <3>2, <3>3, <3>4 DEF Next
  <2>2. (\A u \in Users : \A i \in DOMAIN ledger[u] : EntryMatchesIntent(u, ledger[u][i]))'
    <3>1. ASSUME NEW c \in Callers, MoveMoney(c)
          PROVE  (\A u \in Users : \A i \in DOMAIN ledger[u] :
                    EntryMatchesIntent(u, ledger[u][i]))'
      BY <1>2, <3>1, EntriesMatch DEF EngineInv
    <3>2. CASE ledger' = ledger
      BY <1>2, <3>2 DEF EngineInv, EntryMatchesIntent
    <3>3. ledger' = ledger \/ \E c \in Callers : MoveMoney(c)
      BY <1>2, LedgerOnlyMoves
    <3> QED BY <3>1, <3>2, <3>3
  <2> QED BY <2>1, <2>2 DEF EngineInv, Exclusive
<1> QED BY <1>1, <1>2

(* What execute keeps: the types, and the ownership of the exclusive keys.  *)
THEOREM EngineIsSound == Spec => []EngineSound
<1>1. TypeOK /\ EngineInv => EngineSound
  BY DEF EngineSound
<1> QED BY <1>1, TypeCorrect, EngineInvInductive, PTL DEF Spec

(* Under any number of racing, interrupted and repeated calls, a key of the *)
(* replay policy is debited at most once even while verify runs, and a key  *)
(* of the retry policy as long as nothing verifies.                         *)
THEOREM ExactlyOnce == Spec => []MovedAtMostOnce
<1>1. EngineInv => MovedAtMostOnce
  BY DEF EngineInv, OwnedOnce, MovedAtMostOnce
<1> QED BY <1>1, TypeCorrect, EngineInvInductive, PTL DEF Spec

(* Without reconciliation a FAILED row is the truth: its money has not      *)
(* moved.                                                                   *)
THEOREM FailedIsTrue == Spec => []FailedMeansNotMoved
<1>1. EngineInv => FailedMeansNotMoved
  BY DEF EngineInv, OwnedOnce, Exclusive, FailedMeansNotMoved
<1> QED BY <1>1, TypeCorrect, EngineInvInductive, PTL DEF Spec

-----------------------------------------------------------------------------
(* Success *)

(* No step takes a posted debit away: money that has moved stays moved.     *)
LEMMA DebitsStay ==
  ASSUME TypeOK, [Next]_vars, NEW k \in Keys
  PROVE  Debits(k) \subseteq Debits(k)' /\ (Moved(k) => Moved(k)')
<1>1. Debits(k) \subseteq Debits(k)'
  <2>1. CASE ledger' = ledger
    BY <2>1 DEF Debits, Positions
  <2>2. ASSUME NEW c \in Callers, MoveMoney(c) PROVE Debits(k) \subseteq Debits(k)'
    BY <2>2, MoveDebits
  <2> QED BY <2>1, <2>2, LedgerOnlyMoves
<1> QED BY <1>1 DEF Moved

(* What SuccessIsTrue needs from step to step: a call has no answer before  *)
(* it ends, and a probe has no outcome before it has read the ledger.       *)
SuccessInv ==
  /\ SuccessIsTrue
  /\ \A c \in Callers : call[c].pc # "done" => call[c].answer = "none"
  /\ \A v \in Verifiers : probe[v].pc \in {"idle", "readLedger"} => probe[v].outcome = "none"

(* A call of execute answers COMPLETED because it moved the money itself or *)
(* because it read a row that says so.                                      *)
LEMMA CallAnswers ==
  ASSUME TypeOK, NEW c \in Callers, CallNext(c), call[c].pc # "done" => call[c].answer = "none"
  PROVE  /\ call[c].pc # "done"
         /\ call'[c].pc # "done" => call'[c].answer = "none"
         /\ call'[c].answer = "COMPLETED" =>
              \/ MoveMoney(c)
              \/ call'[c].key \in Keys /\ row[call'[c].key].status = "COMPLETED" /\ UNCHANGED db
<1> USE DEF TypeOK, CallTypeOK, Call
<1>1. ASSUME NEW k \in Keys, Lookup(c, k)
      PROVE  /\ call'[c].pc # "done" => call'[c].answer = "none"
             /\ call'[c].answer = "COMPLETED" =>
                  call'[c].key \in Keys /\ row[call'[c].key].status = "COMPLETED" /\ UNCHANGED db
  <2>1. row[k].status \in Status
    BY DEF DatabaseTypeOK, Row
  <2>2. /\ call'[c].pc = AfterRead[row[k].status]
        /\ call'[c].answer = AnswerAfterRead(row[k].status) /\ call'[c].key = k
    BY <1>1 DEF Lookup
  <2>3. UNCHANGED db
    BY <1>1 DEF Lookup, db
  <2> QED BY <2>1, <2>2, <2>3 DEF AfterRead, AnswerAfterRead, Status, InFlight
<1>2. CASE Poll(c)
  <2> DEFINE k == call[c].key
  <2>1. k \in Keys /\ row[k].status \in Status /\ call[c].pc = "await" /\ call[c].answer = "none"
    BY <1>2 DEF Poll, DatabaseTypeOK, Row
  <2>2. UNCHANGED db /\ call'[c].key = k
    BY <1>2 DEF Poll, db, Respond
  <2>3. \/ call'[c].pc = AfterRead[row[k].status] /\ call'[c].answer = AnswerAfterRead(row[k].status)
        \/ call'[c].pc = "await" /\ call'[c].answer = "none"
        \/ call'[c].pc = "done" /\ call'[c].answer = "IN_FLIGHT"
    BY <1>2, <2>1 DEF Poll, Respond
  <2> QED BY <2>1, <2>2, <2>3 DEF AfterRead, AnswerAfterRead, Status, InFlight
<1>3. CASE LoseInsert(c) \/ RejectMoney(c)
  BY <1>3 DEF LoseInsert, RejectMoney
<1>4. CASE MoveMoney(c)
  BY <1>4 DEF MoveMoney, Respond
<1>5. CASE ReplayFailure(c) \/ LoseReset(c) \/ AbortMoney(c) \/ LogFailed(c) \/ Interrupt(c)
  BY <1>5 DEF ReplayFailure, LoseReset, AbortMoney, LogFailed, Interrupt, Respond, Goto
<1>6. CASE Reset(c) \/ CreateRow(c) \/ Initiate(c) \/ MarkFailed(c)
  BY <1>6 DEF Reset, CreateRow, Initiate, MarkFailed, Goto
<1>7. call[c].pc # "done"
  BY DEF CallNext, Continue, Lookup, Poll, ReplayFailure, Reset, LoseReset,
     CreateRow, LoseInsert, Initiate, MoveMoney, RejectMoney, AbortMoney, MarkFailed, LogFailed,
     Interrupt
<1> QED
  BY <1>1, <1>2, <1>3, <1>4, <1>5, <1>6, <1>7 DEF CallNext, Continue

(* A step of execute completes a row only by moving its money.              *)
LEMMA CallCompletes ==
  ASSUME TypeOK, NEW c \in Callers, CallNext(c), NEW k \in Keys, row'[k].status = "COMPLETED"
  PROVE  row[k].status = "COMPLETED" \/ (MoveMoney(c) /\ k = call[c].key)
<1>1. CASE Reset(c) \/ CreateRow(c) \/ MarkFailed(c)
  BY <1>1 DEF Reset, CreateRow, MarkFailed, TypeOK, DatabaseTypeOK, Row, CallTypeOK
<1>2. CASE MoveMoney(c)
  BY <1>2 DEF MoveMoney, TypeOK, DatabaseTypeOK, Row, CallTypeOK
<1>3. CASE row' = row
  BY <1>3
<1> QED BY <1>1, <1>2, <1>3 DEF CallNext, Continue, Lookup, Poll, ReplayFailure, LoseReset,
     LoseInsert, Initiate, RejectMoney, AbortMoney, LogFailed, Interrupt

(* The money transaction leaves its key moved.                              *)
LEMMA MoveMoves ==
  ASSUME TypeOK, NEW c \in Callers, MoveMoney(c), NEW k, k = call[c].key
  PROVE  k \in Keys /\ call'[c].key = k /\ Moved(k)'
<1>1. k \in Keys
  BY DEF MoveMoney, TypeOK, CallTypeOK
<1>2. call'[c].key = k
  BY DEF MoveMoney, Respond, TypeOK, CallTypeOK, Call
<1> QED BY <1>1, <1>2, MoveDebits DEF Moved

(* What verify takes for DELIVERED is a debit of the key at its sender.     *)
LEMMA DeliveredMoved ==
  ASSUME TypeOK, EngineInv, NEW k \in Keys, NEW s, LedgerOutcome(k, s) = "DELIVERED"
  PROVE  Moved(k)
<1>1. Confirmed(k)
  BY DEF LedgerOutcome
<1>2. PICK d \in Movements(k) : AmountAt(d) = -Intent[k].amount
  BY <1>1 DEF Confirmed
<1>3. PICK u \in Users : \E i \in Positions(u, k) : d = <<u, i>>
  BY <1>2 DEF Movements
<1>a. PICK i \in Positions(u, k) : d = <<u, i>>
  BY <1>3
<1>4. i \in DOMAIN ledger[u] /\ ledger[u][i].key = k /\ ledger[u][i].amount = -Intent[k].amount
  BY <1>2, <1>a DEF Positions, AmountAt
<1>5. u = Intent[k].from
  <2>1. EntryMatchesIntent(u, ledger[u][i])
    BY <1>4 DEF EngineInv
  <2> QED BY <1>4, <2>1, IntentType DEF EntryMatchesIntent
<1> QED BY <1>a, <1>5 DEF Moved, Debits

(* Execute keeps SuccessInv.                                                *)
LEMMA CallsSuccess ==
  ASSUME TypeOK, EngineInv, SuccessInv, NEW c \in Callers, CallNext(c)
  PROVE  SuccessInv'
<1>1. [Next]_vars
  BY DEF Next
<1>2. probe' = probe
  BY DEF CallNext, Continue, Lookup, Poll, ReplayFailure, Reset, LoseReset,
     CreateRow, LoseInsert, Initiate, MoveMoney, RejectMoney, AbortMoney, MarkFailed,
     LogFailed, Interrupt
<1>3. ASSUME NEW k \in Keys, row'[k].status = "COMPLETED" PROVE Moved(k)'
  BY <1>1, <1>3, CallCompletes, MoveMoves, DebitsStay
     DEF SuccessInv, SuccessIsTrue, CompletedMeansMoved
<1>4. ASSUME NEW d \in Callers, NEW k, k = call'[d].key
      PROVE  /\ call'[d].answer = "COMPLETED" => Moved(k)'
             /\ call'[d].pc # "done" => call'[d].answer = "none"
  <2>1. CASE d = c
    <3>1. /\ call'[c].pc # "done" => call'[c].answer = "none"
          /\ call'[c].answer = "COMPLETED" =>
              \/ MoveMoney(c)
              \/ k \in Keys /\ row[k].status = "COMPLETED" /\ UNCHANGED db
      BY <1>4, <2>1, CallAnswers DEF SuccessInv
    <3>2. ASSUME MoveMoney(c) PROVE Moved(k)'
      BY <1>4, <2>1, <3>2, MoveMoves
    <3>3. ASSUME k \in Keys, row[k].status = "COMPLETED", UNCHANGED db PROVE Moved(k)'
      BY <1>3, <3>3 DEF db
    <3> QED BY <2>1, <3>1, <3>2, <3>3
  <2>2. CASE d # c
    <3>1. call'[d] = call[d]
      BY <2>2, CallFrame
    <3>2. ASSUME call[d].answer = "COMPLETED" PROVE Moved(k)'
      <4>1. call[d].pc # "idle" /\ Moved(k)
        BY <1>4, <3>1, <3>2 DEF SuccessInv, SuccessIsTrue, NoFalseSuccess
      <4>2. k \in Keys
        BY <1>4, <3>1, <4>1 DEF TypeOK, CallTypeOK
      <4> QED BY <1>1, <4>1, <4>2, DebitsStay
    <3> QED BY <3>1, <3>2 DEF SuccessInv
  <2> QED BY <2>1, <2>2
<1>5. ASSUME NEW v \in Verifiers, NEW k, k = probe[v].key, probe[v].outcome = "DELIVERED"
      PROVE  Moved(k)'
  <2>1. probe[v].pc # "idle" /\ Moved(k)
    BY <1>5 DEF SuccessInv, SuccessIsTrue, NoFalseSuccess
  <2>2. k \in Keys
    BY <1>5, <2>1 DEF TypeOK, ProbeTypeOK
  <2> QED BY <1>1, <2>1, <2>2, DebitsStay
<1>6. CompletedMeansMoved'
  BY <1>3 DEF CompletedMeansMoved
<1>7. NoFalseSuccess'
  <2>1. ASSUME NEW d \in Callers, (call[d].answer = "COMPLETED")' PROVE Moved(call[d].key)'
    BY <1>4, <2>1
  <2>2. ASSUME NEW v \in Verifiers, (probe[v].outcome = "DELIVERED")' PROVE Moved(probe[v].key)'
    BY <1>2, <1>5, <2>2
  <2> QED BY <2>1, <2>2 DEF NoFalseSuccess
<1> QED BY <1>2, <1>4, <1>6, <1>7 DEF SuccessInv, SuccessIsTrue

(* Verify keeps SuccessInv: it completes a row, and says DELIVERED, only    *)
(* after it has found the debit in the ledger.                              *)
LEMMA ProbesSuccess ==
  ASSUME TypeOK, EngineInv, SuccessInv, NEW v \in Verifiers, ProbeNext(v)
  PROVE  SuccessInv'
<1>1. call' = call /\ ledger' = ledger
  BY DEF ProbeNext, ContinueProbe, ReadTransfer, ReadLedger, ReadEvents, Reconcile,
     Reload, InterruptProbe
<1>2. \A k : Moved(k)' = Moved(k)
  BY <1>1 DEF Moved, Debits, Positions
<1>3. ASSUME NEW k \in Keys, row'[k].status = "COMPLETED" PROVE Moved(k)
  <2>1. CASE row' = row
    BY <1>3, <2>1 DEF SuccessInv, SuccessIsTrue, CompletedMeansMoved
  <2>2. CASE Reconcile(v)
    <3>1. PICK opening \in BOOLEAN :
            row' = [row EXCEPT ![probe[v].key] = Reconciled(@, probe[v].outcome, opening)]
      BY <2>2 DEF Reconcile
    <3>2. row[k] \in Row /\ probe[v].outcome \in Outcome
      BY DEF TypeOK, DatabaseTypeOK, ProbeTypeOK, Probe
    <3>3. \A r \in Row, o \in Outcome :
            Reconciled(r, o, opening).status = "COMPLETED" => r.status = "COMPLETED" \/ o = "DELIVERED"
      BY DEF Reconciled, Row
    <3>4. row[k].status = "COMPLETED" \/ (probe[v].key = k /\ probe[v].outcome = "DELIVERED")
      BY <1>3, <3>1, <3>2, <3>3 DEF TypeOK, DatabaseTypeOK
    <3> QED BY <3>4 DEF SuccessInv, SuccessIsTrue, CompletedMeansMoved, NoFalseSuccess
  <2> QED BY <2>1, <2>2 DEF ProbeNext, ContinueProbe, ReadTransfer, ReadLedger, ReadEvents,
       Reload, InterruptProbe
<1>4. \A w \in Verifiers \ {v} : probe'[w] = probe[w]
  BY DEF ProbeNext, ContinueProbe, ReadTransfer, ReadLedger, ReadEvents, Reconcile,
     Reload, InterruptProbe, TypeOK, ProbeTypeOK
<1>5. /\ probe'[v].outcome = "DELIVERED" => Moved(probe'[v].key)
      /\ probe'[v].pc \in {"idle", "readLedger"} => probe'[v].outcome = "none"
  <2> USE DEF TypeOK, ProbeTypeOK, Probe
  <2>1. CASE \E k \in Keys : ReadTransfer(v, k)
    BY <2>1 DEF ReadTransfer, SuccessInv
  <2>2. CASE ReadLedger(v)
    <3>1. /\ probe'[v].key = probe[v].key /\ probe[v].key \in Keys
          /\ probe'[v].outcome = LedgerOutcome(probe[v].key, probe[v].status)
          /\ probe'[v].pc = "readEvents"
      BY <2>2 DEF ReadLedger
    <3> QED BY <3>1, DeliveredMoved
  <2>3. CASE ReadEvents(v) \/ Reconcile(v) \/ Reload(v) \/ InterruptProbe(v)
    <3>1. /\ probe'[v].key = probe[v].key /\ probe'[v].outcome = probe[v].outcome
          /\ probe'[v].pc \in {"reload", "reconcile", "done"}
      <4>1. CASE ReadEvents(v)
        <5> DEFINE n == Newest(probe[v].key)
                   s == IF AlreadyResolved(probe[v], n) THEN "reload" ELSE "reconcile"
        <5>1. probe' = [probe EXCEPT ![v].pc = s, ![v].newest = n]
          BY <4>1 DEF ReadEvents
        <5>2. s \in {"reload", "reconcile"}
          OBVIOUS
        <5> HIDE DEF n, s
        <5> QED BY <5>1, <5>2
      <4>2. CASE Reconcile(v)
        BY <4>2 DEF Reconcile
      <4>3. CASE Reload(v)
        BY <4>3 DEF Reload
      <4>4. CASE InterruptProbe(v)
        BY <4>4 DEF InterruptProbe
      <4> QED BY <2>3, <4>1, <4>2, <4>3, <4>4
    <3> QED BY <3>1 DEF SuccessInv, SuccessIsTrue, NoFalseSuccess
  <2> QED BY <2>1, <2>2, <2>3 DEF ProbeNext, ContinueProbe
<1>6. CompletedMeansMoved'
  BY <1>2, <1>3 DEF CompletedMeansMoved
<1>7. NoFalseSuccess'
  BY <1>1, <1>2, <1>4, <1>5 DEF NoFalseSuccess, SuccessInv, SuccessIsTrue
<1> QED BY <1>1, <1>4, <1>5, <1>6, <1>7 DEF SuccessInv, SuccessIsTrue

(* SuccessInv is inductive relative to the types and the engine invariant.  *)
LEMMA SuccessInductive ==
  /\ Init => SuccessInv
  /\ TypeOK /\ EngineInv /\ SuccessInv /\ [Next]_vars => SuccessInv'
<1>1. Init => SuccessInv
  BY DEF Init, NoRow, FreshCall, FreshProbe, SuccessInv, SuccessIsTrue, CompletedMeansMoved,
     NoFalseSuccess
<1>2. ASSUME TypeOK, EngineInv, SuccessInv, [Next]_vars PROVE SuccessInv'
  <2>1. CASE UNCHANGED vars \/ \E u \in Users : Activate(u)
    <3>1. row' = row /\ ledger' = ledger /\ call' = call /\ probe' = probe
      BY <2>1 DEF vars, Activate
    <3>2. \A k : Moved(k)' = Moved(k)
      BY <3>1 DEF Moved, Debits, Positions
    <3> QED BY <1>2, <3>1, <3>2 DEF SuccessInv, SuccessIsTrue, CompletedMeansMoved, NoFalseSuccess
  <2> QED BY <1>2, <2>1, CallsSuccess, ProbesSuccess DEF Next
<1> QED BY <1>1, <1>2

(* COMPLETED in a row, COMPLETED as an answer and DELIVERED as a verdict    *)
(* all mean that the money has moved, whatever verify had read earlier.     *)
THEOREM SuccessMeansMoved == Spec => []SuccessIsTrue
<1>1. SuccessInv => SuccessIsTrue
  BY DEF SuccessInv
<1> QED BY <1>1, TypeCorrect, EngineInvInductive, SuccessInductive, PTL DEF Spec

-----------------------------------------------------------------------------
(* Denial *)

(* A call that is to answer FAILED for the key, or has.                     *)
Denies(c, k) ==
  call[c].key = k /\ (call[c].pc \in {"resolve", "logFailed"} \/ call[c].answer = "FAILED")

(* A key of the replay policy of which anybody was told, or is about to be  *)
(* told, that its transfer failed: it has not moved, and since its row is   *)
(* there and is never reset, it gets no owner any more.                     *)
Closed(k) ==
  /\ row[k].status # "NONE" /\ ~Moved(k)
  /\ \A c \in Callers : ~Owns(c, k)

(* What DenialIsFinal needs from step to step: a call has no answer before  *)
(* it ends, and only closed keys are denied.                                *)
DenialInv ==
  Verifiers = {} =>
    /\ \A c \in Callers : call[c].pc # "done" => call[c].answer = "none"
    /\ \A k \in Keys \ RetryKeys : \A c \in Callers : Denies(c, k) => Closed(k)

(* A key of the replay policy that has a row and no owner keeps both the    *)
(* row and its money as they are.                                           *)
LEMMA ClosedStays ==
  ASSUME TypeOK, NEW c \in Callers, CallNext(c), NEW k \in Keys \ RetryKeys, Closed(k)
  PROVE  Closed(k)'
<1>1. ASSUME row'[k] = row[k], Debits(k)' = Debits(k), \A d \in Callers : Owns(d, k)' => Owns(d, k)
      PROVE  Closed(k)'
  BY <1>1 DEF Closed, Moved
<1>2. CASE \/ \E j \in Keys : Lookup(c, j)
           \/ Poll(c) \/ ReplayFailure(c) \/ LoseReset(c) \/ LoseInsert(c)
           \/ Initiate(c) \/ RejectMoney(c) \/ AbortMoney(c) \/ LogFailed(c)
           \/ Interrupt(c)
  <2>1. /\ row' = row /\ ledger' = ledger
        /\ \A d \in Callers : Owns(d, k)' => Owns(d, k)
    BY <1>2, QuietCallStep
  <2>2. Debits(k)' = Debits(k)
    BY <2>1 DEF Debits, Positions
  <2> QED BY <1>1, <2>1, <2>2
<1>3. CASE Reset(c) \/ CreateRow(c) \/ MoveMoney(c) \/ MarkFailed(c)
  <2>1. call[c].key # k
    BY <1>3 DEF Closed, Owns, Reset, CreateRow, MoveMoney, MarkFailed, MayRetry, Claimable
  <2>2. call'[c].key = call[c].key
    BY <1>3, CallFrame DEF Reset, CreateRow, MoveMoney, MarkFailed
  <2>3. row'[k] = row[k]
    BY <1>3, <2>1 DEF Reset, CreateRow, MoveMoney, MarkFailed, TypeOK, DatabaseTypeOK
  <2>4. Debits(k)' = Debits(k)
    <3>1. CASE MoveMoney(c)
      BY <2>1, <3>1, MoveDebits
    <3>2. CASE ~MoveMoney(c)
      BY <1>3, <3>2 DEF Reset, CreateRow, MarkFailed, Debits, Positions
    <3> QED BY <3>1, <3>2
  <2>5. \A d \in Callers \ {c} : call'[d] = call[d]
    BY CallFrame
  <2>6. \A d \in Callers : Owns(d, k)' => Owns(d, k)
    BY <2>1, <2>2, <2>5 DEF Owns
  <2> QED BY <1>1, <2>3, <2>4, <2>6
<1> QED BY <1>2, <1>3 DEF CallNext, Continue

(* A call comes to deny a key because it reads a FAILED row or because it   *)
(* owned the key and has given it up.                                       *)
LEMMA NewDenial ==
  ASSUME TypeOK, NEW c \in Callers, CallNext(c), NEW k \in Keys \ RetryKeys,
         call[c].pc # "done" => call[c].answer = "none",
         Denies(c, k)'
  PROVE  \/ Denies(c, k)
         \/ row[k].status = "FAILED"
         \/ call[c].key = k /\ MarkFailed(c)
<1> USE DEF TypeOK, CallTypeOK, Call
<1>1. ASSUME NEW j \in Keys, Lookup(c, j) PROVE row[k].status = "FAILED"
  <2>1. row[j].status \in Status
    BY DEF DatabaseTypeOK, Row
  <2>2. /\ call'[c].pc = AfterRead[row[j].status] /\ call'[c].key = j
        /\ call'[c].answer = AnswerAfterRead(row[j].status)
    BY <1>1 DEF Lookup
  <2> QED BY <2>1, <2>2 DEF Denies, AfterRead, AnswerAfterRead, Status, InFlight
<1>2. CASE Poll(c)
  <2>1. k = call[c].key
    BY <1>2 DEF Poll, Respond, Denies
  <2>2. row[k].status \in Status /\ call[c].answer = "none"
    BY <1>2 DEF Poll, DatabaseTypeOK, Row
  <2>3. \/ call'[c].pc = AfterRead[row[k].status] /\ call'[c].answer = AnswerAfterRead(row[k].status)
        \/ call'[c].pc = "await" /\ call'[c].answer = "none"
        \/ call'[c].pc = "done" /\ call'[c].answer = "IN_FLIGHT"
    BY <1>2, <2>1, <2>2 DEF Poll, Respond
  <2> QED BY <2>2, <2>3 DEF Denies, AfterRead, AnswerAfterRead, Status, InFlight
<1>3. CASE LoseInsert(c) \/ RejectMoney(c)
  BY <1>3 DEF LoseInsert, RejectMoney, Denies
<1>4. CASE ReplayFailure(c) \/ LogFailed(c)
  BY <1>4 DEF ReplayFailure, LogFailed, Respond, Denies
<1>5. CASE LoseReset(c)
  BY <1>5 DEF LoseReset, Respond, Goto, Denies, MayRetry
<1>6. CASE MoveMoney(c) \/ AbortMoney(c) \/ Interrupt(c)
  BY <1>6 DEF MoveMoney, AbortMoney, Interrupt, Respond, Denies
<1>7. CASE Reset(c) \/ CreateRow(c) \/ Initiate(c)
  BY <1>7 DEF Reset, CreateRow, Initiate, Goto, Denies
<1>8. CASE MarkFailed(c)
  BY <1>8 DEF MarkFailed, Goto, Denies
<1> QED
  BY <1>1, <1>2, <1>3, <1>4, <1>5, <1>6, <1>7, <1>8 DEF CallNext, Continue

(* Without verify, execute keeps DenialInv.                                 *)
LEMMA CallsDenial ==
  ASSUME TypeOK, EngineInv, DenialInv, Verifiers = {}, NEW c \in Callers, CallNext(c)
  PROVE  DenialInv'
<1>1. call[c].pc # "done" => call[c].answer = "none"
  BY DEF DenialInv
<1>2. \A d \in Callers \ {c} : call'[d] = call[d]
  BY CallFrame
<1>3. \A d \in Callers : call'[d].pc # "done" => call'[d].answer = "none"
  BY <1>1, <1>2, CallAnswers DEF DenialInv
<1>4. ASSUME NEW k \in Keys \ RetryKeys, NEW d \in Callers, Denies(d, k)' PROVE Closed(k)'
  <2>1. OwnedOnce(k)
    BY DEF EngineInv, Exclusive
  <2>2. CASE Denies(d, k)
    BY <2>2, ClosedStays DEF DenialInv
  <2>3. CASE row[k].status = "FAILED"
    <3>1. Closed(k)
      BY <2>1, <2>3 DEF OwnedOnce, Closed
    <3> QED BY <3>1, ClosedStays
  <2>4. CASE d = c /\ call[c].key = k /\ MarkFailed(c)
    <3>1. Owns(c, k)
      BY <2>4 DEF Owns, MarkFailed
    <3>2. ~Moved(k) /\ row[k].status # "NONE" /\ \A e \in Callers \ {c} : ~Owns(e, k)
      BY <2>1, <3>1 DEF OwnedOnce
    <3>3. Debits(k)' = Debits(k)
      BY <2>4 DEF MarkFailed, Debits, Positions
    <3>4. row'[k].status # "NONE"
      BY <2>4, <3>2 DEF MarkFailed, TypeOK, DatabaseTypeOK, Row
    <3>5. call'[c].pc = "logFailed"
      BY <2>4 DEF MarkFailed, Goto, TypeOK, CallTypeOK, Call
    <3> QED BY <1>2, <3>2, <3>3, <3>4, <3>5 DEF Closed, Moved, Owns
  <2>5. CASE d # c
    BY <1>2, <1>4, <2>2, <2>5 DEF Denies
  <2> QED BY <1>1, <1>4, <2>2, <2>3, <2>4, <2>5, NewDenial
<1> QED BY <1>3, <1>4 DEF DenialInv

(* DenialInv is inductive relative to the types and the engine invariant.   *)
LEMMA DenialInductive ==
  /\ Init => DenialInv
  /\ TypeOK /\ EngineInv /\ DenialInv /\ [Next]_vars => DenialInv'
<1>1. Init => DenialInv
  BY DEF Init, FreshCall, DenialInv, Denies
<1>2. ASSUME TypeOK, EngineInv, DenialInv, [Next]_vars PROVE DenialInv'
  <2> SUFFICES ASSUME Verifiers = {} PROVE DenialInv'
    BY DEF DenialInv
  <2>1. CASE UNCHANGED vars \/ \E u \in Users : Activate(u)
    <3>1. row' = row /\ ledger' = ledger /\ call' = call
      BY <2>1 DEF vars, Activate
    <3> QED BY <1>2, <3>1 DEF DenialInv, Denies, Closed, Moved, Debits, Positions, Owns
  <2> QED BY <1>2, <2>1, CallsDenial DEF Next
<1> QED BY <1>1, <1>2

(* Without reconciliation, who is told of a key of the replay policy that   *)
(* its transfer failed is told so for good: the money never moves.          *)
THEOREM DenialStands == Spec => []DenialIsFinal
<1>1. TypeOK /\ DenialInv => DenialIsFinal
  <2> SUFFICES ASSUME TypeOK, DenialInv, Verifiers = {}, NEW c \in Callers,
                      call[c].answer = "FAILED", call[c].key \notin RetryKeys
               PROVE  ~Moved(call[c].key)
    BY DEF DenialIsFinal
  <2>1. call[c].key \in Keys
    BY DEF DenialInv, TypeOK, CallTypeOK
  <2> QED BY <2>1 DEF DenialInv, Denies, Closed
<1> QED BY <1>1, TypeCorrect, EngineInvInductive, DenialInductive, PTL DEF Spec

-----------------------------------------------------------------------------
(* Audit *)

(* How often an event stands among the first n of a timeline.               *)
Count(s, e, n) == Cardinality({i \in 1..n : s[i] = e})

(* Every PROCESSED follows an INITIATED of its own, with m INITIATED left.  *)
Covered(s, m) ==
  /\ \A n \in 1..Len(s) : Count(s, "PROCESSED", n) <= Count(s, "INITIATED", n)
  /\ Count(s, "PROCESSED", Len(s)) + m <= Count(s, "INITIATED", Len(s))

(* The calls that own an attempt, and those about to move its money.        *)
Holders(k) == {c \in Callers : Owns(c, k)}
AtMoney(k) == {c \in Callers : call[c].key = k /\ call[c].pc = "money"}

(* What the audit needs from step to step: the debits and the attempts      *)
(* still open are within attempt_count, and every call about to move money  *)
(* has left an INITIATED event that no PROCESSED one has used.              *)
AttemptsSuffice(k) ==
  /\ row[k].status = "NONE" => row[k].attempt = 0
  /\ IsFiniteSet(Holders(k))
  /\ Cardinality(Debits(k)) + Cardinality(Holders(k)) <= row[k].attempt

(* The attempts suffice for the moves of every key, and its timeline covers *)
(* them.                                                                    *)
AuditInv ==
  \A k \in Keys : AttemptsSuffice(k) /\ Covered(events[k], Cardinality(AtMoney(k)))

(* A count is a number.                                                     *)
LEMMA CountType ==
  ASSUME NEW s \in Seq(EventName), NEW x, NEW n \in Nat
  PROVE  Count(s, x, n) \in Nat
<1>1. IsFiniteSet(1..n)
  BY FS_Interval
<1>2. {i \in 1..n : s[i] = x} \subseteq 1..n
  OBVIOUS
<1>3. IsFiniteSet({i \in 1..n : s[i] = x})
  BY <1>1, <1>2, FS_Subset
<1> QED BY <1>3, FS_CardinalityType DEF Count

(* One more event adds one to the count of its name and nothing to the      *)
(* others.                                                                  *)
LEMMA CountAppend ==
  ASSUME NEW s \in Seq(EventName), NEW e \in EventName, NEW x
  PROVE  /\ \A n \in 1..Len(s) : Count(Append(s, e), x, n) = Count(s, x, n)
         /\ Count(Append(s, e), x, Len(s) + 1) = Count(s, x, Len(s)) + (IF e = x THEN 1 ELSE 0)
         /\ \A n \in Nat : Count(s, x, n) \in Nat
<1> DEFINE t == Append(s, e)
           m == Len(s) + 1
<1>1. /\ m \in Nat /\ Len(s) \in Nat /\ t[m] = e /\ \A i \in 1..Len(s) : t[i] = s[i]
      /\ 1..m = (1..Len(s)) \cup {m} /\ m \notin 1..Len(s)
  OBVIOUS
<1> HIDE DEF t, m
<1>2. ASSUME NEW n \in 1..Len(s) PROVE Count(t, x, n) = Count(s, x, n)
  <2>1. \A i \in 1..n : t[i] = s[i]
    BY <1>1
  <2> QED BY <2>1 DEF Count
<1>3. ASSUME NEW n \in Nat PROVE IsFiniteSet({i \in 1..n : s[i] = x})
  <2>1. IsFiniteSet(1..n)
    BY FS_Interval
  <2>2. {i \in 1..n : s[i] = x} \subseteq 1..n
    OBVIOUS
  <2> QED BY <2>1, <2>2, FS_Subset
<1>4. Count(t, x, m) = Count(s, x, Len(s)) + (IF e = x THEN 1 ELSE 0)
  <2> DEFINE old == {i \in 1..Len(s) : s[i] = x}
             new == {i \in 1..m : t[i] = x}
  <2>1. new = IF e = x THEN old \cup {m} ELSE old
    BY <1>1
  <2>2. IsFiniteSet(old) /\ m \notin old
    BY <1>1, <1>3
  <2> HIDE DEF old, new
  <2>3. Cardinality(old) \in Nat /\ Cardinality(old \cup {m}) = Cardinality(old) + 1
    BY <2>2, FS_AddElement, FS_CardinalityType
  <2>4. Cardinality(new) = Cardinality(old) + (IF e = x THEN 1 ELSE 0)
    BY <2>1, <2>3
  <2> QED BY <2>4 DEF old, new, Count
<1>5. \A n \in Nat : Count(s, x, n) \in Nat
  BY <1>3, FS_CardinalityType DEF Count
<1> QED BY <1>2, <1>4, <1>5 DEF t, m

(* One more event: PROCESSED uses up an INITIATED, the others do not.       *)
LEMMA CoveredAppend ==
  ASSUME NEW s \in Seq(EventName), NEW e \in EventName, NEW m \in Nat, Covered(s, m),
         NEW r \in Nat,
         r <= m + (IF e = "INITIATED" THEN 1 ELSE 0) - (IF e = "PROCESSED" THEN 1 ELSE 0)
  PROVE  Append(s, e) \in Seq(EventName) /\ Covered(Append(s, e), r)
<1> DEFINE t == Append(s, e)
<1>1. t \in Seq(EventName) /\ Len(t) = Len(s) + 1 /\ Len(s) \in Nat
  OBVIOUS
<1>2. \A n \in 1..Len(s) : /\ Count(t, "PROCESSED", n) = Count(s, "PROCESSED", n)
                           /\ Count(t, "INITIATED", n) = Count(s, "INITIATED", n)
  <2>1. \A n \in 1..Len(s) : Count(t, "PROCESSED", n) = Count(s, "PROCESSED", n)
    BY CountAppend
  <2>2. \A n \in 1..Len(s) : Count(t, "INITIATED", n) = Count(s, "INITIATED", n)
    BY CountAppend
  <2> QED BY <2>1, <2>2
<1>3. /\ Count(t, "PROCESSED", Len(s) + 1)
           = Count(s, "PROCESSED", Len(s)) + (IF e = "PROCESSED" THEN 1 ELSE 0)
      /\ Count(t, "INITIATED", Len(s) + 1)
           = Count(s, "INITIATED", Len(s)) + (IF e = "INITIATED" THEN 1 ELSE 0)
      /\ Count(s, "PROCESSED", Len(s)) \in Nat /\ Count(s, "INITIATED", Len(s)) \in Nat
  <2>1. /\ Count(t, "PROCESSED", Len(s) + 1)
             = Count(s, "PROCESSED", Len(s)) + (IF e = "PROCESSED" THEN 1 ELSE 0)
        /\ Count(s, "PROCESSED", Len(s)) \in Nat
    BY <1>1, CountAppend
  <2>2. /\ Count(t, "INITIATED", Len(s) + 1)
             = Count(s, "INITIATED", Len(s)) + (IF e = "INITIATED" THEN 1 ELSE 0)
        /\ Count(s, "INITIATED", Len(s)) \in Nat
    BY <1>1, CountAppend
  <2> QED BY <2>1, <2>2
<1> HIDE DEF t
<1>4. Count(t, "PROCESSED", Len(t)) + r <= Count(t, "INITIATED", Len(t))
  BY <1>1, <1>3 DEF Covered
<1>5. Count(t, "PROCESSED", Len(t)) \in Nat /\ Count(t, "INITIATED", Len(t)) \in Nat
  BY <1>1, <1>3
<1>6. Count(t, "PROCESSED", Len(t)) <= Count(t, "INITIATED", Len(t))
  BY <1>4, <1>5
<1>7. ASSUME NEW n \in 1..Len(t) PROVE Count(t, "PROCESSED", n) <= Count(t, "INITIATED", n)
  <2>1. CASE n \in 1..Len(s)
    BY <1>2, <2>1 DEF Covered
  <2>2. CASE n = Len(t)
    BY <1>6, <2>2
  <2> QED BY <1>1, <2>1, <2>2
<1> QED BY <1>1, <1>4, <1>7 DEF t, Covered

(* With fewer still to come the timeline is still covered.                  *)
LEMMA CoveredLess ==
  ASSUME NEW s \in Seq(EventName), NEW m \in Nat, NEW r \in Nat, Covered(s, m), r <= m
  PROVE  Covered(s, r)
<1>1. Count(s, "PROCESSED", Len(s)) \in Nat
  <2>1. Len(s) \in Nat
    OBVIOUS
  <2> QED BY <2>1, CountType
<1>2. Count(s, "INITIATED", Len(s)) \in Nat
  <2>1. Len(s) \in Nat
    OBVIOUS
  <2> QED BY <2>1, CountType
<1> QED BY <1>1, <1>2 DEF Covered

(* The three events of the money transaction use up one INITIATED event.    *)
LEMMA CoveredMove ==
  ASSUME NEW s \in Seq(EventName), NEW m \in Nat, m > 0, Covered(s, m)
  PROVE  Covered(s \o <<"BALANCE_LOCKED", "PROCESSED", "COMPLETED">>, m - 1)
<1> DEFINE a == Append(s, "BALANCE_LOCKED")
           b == Append(a, "PROCESSED")
           d == Append(b, "COMPLETED")
<1>1. s \o <<"BALANCE_LOCKED", "PROCESSED", "COMPLETED">> = d
  OBVIOUS
<1>2. {"BALANCE_LOCKED", "PROCESSED", "COMPLETED"} \subseteq EventName /\ m - 1 \in Nat
  BY DEF EventName
<1>3. a \in Seq(EventName) /\ Covered(a, m)
  BY <1>2, CoveredAppend
<1> HIDE DEF a
<1>4. b \in Seq(EventName) /\ Covered(b, m - 1)
  BY <1>2, <1>3, CoveredAppend
<1> HIDE DEF b
<1>5. Covered(d, m - 1)
  BY <1>2, <1>4, CoveredAppend
<1> QED BY <1>1, <1>5

(* The events of a reconciliation use up none.                              *)
LEMMA CoveredVerify ==
  ASSUME NEW s \in Seq(EventName), NEW m \in Nat, Covered(s, m)
  PROVE  /\ Covered(s \o <<"VERIFIED">>, m)
         /\ Covered(s \o <<"CLIENT_CONFIRMATION_LOST", "VERIFIED">>, m)
<1> DEFINE a == Append(s, "CLIENT_CONFIRMATION_LOST")
           b == Append(a, "VERIFIED")
           d == Append(s, "VERIFIED")
<1>1. /\ s \o <<"CLIENT_CONFIRMATION_LOST", "VERIFIED">> = b
      /\ s \o <<"VERIFIED">> = d
  OBVIOUS
<1>2. {"CLIENT_CONFIRMATION_LOST", "VERIFIED"} \subseteq EventName
  BY DEF EventName
<1>3. a \in Seq(EventName) /\ Covered(a, m)
  BY <1>2, CoveredAppend
<1>4. Covered(d, m)
  BY <1>2, CoveredAppend
<1> HIDE DEF a, d
<1>5. Covered(b, m)
  BY <1>2, <1>3, CoveredAppend
<1> QED BY <1>1, <1>4, <1>5

(* A part of a finite set is finite and no larger.                          *)
LEMMA NoLarger ==
  ASSUME NEW S, IsFiniteSet(S), NEW T \in SUBSET S
  PROVE  /\ IsFiniteSet(T) /\ Cardinality(T) \in Nat /\ Cardinality(S) \in Nat
         /\ Cardinality(T) <= Cardinality(S)
BY FS_Subset, FS_CardinalityType

(* Adding a member makes a finite set larger by one at most.                *)
LEMMA OneMore ==
  ASSUME NEW S, IsFiniteSet(S), NEW x
  PROVE  /\ IsFiniteSet(S \cup {x}) /\ Cardinality(S \cup {x}) \in Nat
         /\ Cardinality(S) \in Nat /\ Cardinality(S \cup {x}) <= Cardinality(S) + 1
<1>1. /\ IsFiniteSet(S \cup {x})
      /\ Cardinality(S \cup {x}) = IF x \in S THEN Cardinality(S) ELSE Cardinality(S) + 1
  BY FS_AddElement
<1>2. Cardinality(S) \in Nat
  BY FS_CardinalityType
<1> QED BY <1>1, <1>2

(* The debits of a key are positions in one ledger, so finitely many.       *)
LEMMA DebitsFinite ==
  ASSUME TypeOK, NEW k \in Keys
  PROVE  IsFiniteSet(Debits(k)) /\ Cardinality(Debits(k)) \in Nat
<1> DEFINE l == ledger[Intent[k].from]
<1>1. l \in Seq(Entry)
  BY IntentType DEF TypeOK, DatabaseTypeOK
<1>2. IsFiniteSet(1..Len(l))
  BY <1>1, FS_Interval
<1>3. Debits(k) \subseteq 1..Len(l)
  BY <1>1 DEF Debits, Positions
<1> HIDE DEF l
<1> QED BY <1>2, <1>3, NoLarger

(* What the audit needs of a key whose attempt gets no new holder.          *)
LEMMA AttemptsFrame ==
  ASSUME NEW k \in Keys, AttemptsSuffice(k), TypeOK,
         row'[k].status = "NONE" => row[k].status = "NONE",
         row'[k].attempt = row[k].attempt, Debits(k)' = Debits(k),
         Holders(k)' \subseteq Holders(k)
  PROVE  AttemptsSuffice(k)'
<1>1. /\ IsFiniteSet(Holders(k)') /\ Cardinality(Holders(k)') \in Nat
      /\ Cardinality(Holders(k)) \in Nat
      /\ Cardinality(Holders(k)') <= Cardinality(Holders(k))
  BY NoLarger DEF AttemptsSuffice
<1>2. Cardinality(Debits(k)) \in Nat /\ row[k].attempt \in Nat
  BY DebitsFinite DEF TypeOK, DatabaseTypeOK, Row
<1> QED BY <1>1, <1>2 DEF AttemptsSuffice

(* The steps of execute that touch neither a row nor the ledger leave the   *)
(* attempts enough; Initiate pays for the money it may move by its event.   *)
LEMMA QuietAudit ==
  ASSUME TypeOK, AuditInv, NEW c \in Callers, NEW k \in Keys,
         \/ \E j \in Keys : Lookup(c, j)
         \/ Poll(c) \/ ReplayFailure(c) \/ LoseReset(c) \/ LoseInsert(c) \/ Initiate(c)
         \/ RejectMoney(c) \/ AbortMoney(c) \/ LogFailed(c) \/ Interrupt(c)
  PROVE  AttemptsSuffice(k)'
<1>1. /\ row' = row /\ ledger' = ledger
      /\ \A d \in Callers : Owns(d, k)' => Owns(d, k)
  BY QuietCallStep
<1>2. Debits(k)' = Debits(k)
  BY <1>1 DEF Debits, Positions
<1>3. Holders(k)' \subseteq Holders(k)
  BY <1>1 DEF Holders
<1> QED BY <1>1, <1>2, <1>3, AttemptsFrame DEF AuditInv

(* Creating the row and resetting it open one attempt for one new holder.   *)
LEMMA OpenedAudit ==
  ASSUME TypeOK, AuditInv, NEW c \in Callers, NEW k \in Keys, k = call[c].key,
         CreateRow(c) \/ Reset(c)
  PROVE  AttemptsSuffice(k)'
<1>1. \A d \in Callers \ {c} : call'[d] = call[d]
  BY CallFrame DEF CallNext, Continue
<1>2. Holders(k)' \subseteq Holders(k) \cup {c}
  BY <1>1 DEF Holders, Owns
<1>3. row'[k].status = "PENDING" /\ row'[k].attempt = row[k].attempt + 1
  BY DEF CreateRow, Reset, Claimable, NextAttempt, AuditInv, AttemptsSuffice, TypeOK,
     DatabaseTypeOK, Row
<1>4. Debits(k)' = Debits(k)
  BY DEF CreateRow, Reset, Debits, Positions
<1>5. Cardinality(Debits(k)) \in Nat /\ row[k].attempt \in Nat
  BY DebitsFinite DEF TypeOK, DatabaseTypeOK, Row
<1>6. /\ IsFiniteSet(Holders(k)) /\ Cardinality(Holders(k)) \in Nat
      /\ IsFiniteSet(Holders(k) \cup {c})
      /\ Cardinality(Holders(k) \cup {c}) \in Nat
      /\ Cardinality(Holders(k) \cup {c}) <= Cardinality(Holders(k)) + 1
  <2>1. IsFiniteSet(Holders(k))
    BY DEF AuditInv, AttemptsSuffice
  <2> QED BY <2>1, OneMore
<1>7. /\ IsFiniteSet(Holders(k)') /\ Cardinality(Holders(k)') \in Nat
      /\ Cardinality(Holders(k)') <= Cardinality(Holders(k) \cup {c})
  BY <1>2, <1>6, NoLarger
<1> QED BY <1>3, <1>4, <1>5, <1>6, <1>7 DEF AuditInv, AttemptsSuffice

(* Moving the money turns a holder into a debit.                            *)
LEMMA MovedAudit ==
  ASSUME TypeOK, AuditInv, NEW c \in Callers, NEW k \in Keys, k = call[c].key, MoveMoney(c)
  PROVE  AttemptsSuffice(k)'
<1>1. \A d \in Callers \ {c} : call'[d] = call[d]
  BY CallFrame DEF CallNext, Continue
<1>2. c \in Holders(k)
  BY DEF Holders, Owns, MoveMoney
<1>a. call'[c].pc = "done"
  BY DEF MoveMoney, Respond, TypeOK, CallTypeOK, Call
<1>b. Holders(k)' \subseteq Holders(k) \ {c}
  BY <1>1, <1>a DEF Holders, Owns
<1>3. row'[k].status = "COMPLETED" /\ row'[k].attempt = row[k].attempt
  BY DEF MoveMoney, TypeOK, DatabaseTypeOK, Row
<1> DEFINE n == Len(ledger[Intent[k].from]) + 1
<1>4. Debits(k)' = Debits(k) \cup {n}
  BY MoveDebits
<1> HIDE DEF n
<1>5. /\ IsFiniteSet(Debits(k)) /\ Cardinality(Debits(k)) \in Nat /\ row[k].attempt \in Nat
  BY DebitsFinite DEF TypeOK, DatabaseTypeOK, Row
<1>6. /\ Cardinality(Debits(k)') \in Nat /\ Cardinality(Debits(k)') <= Cardinality(Debits(k)) + 1
  BY <1>4, <1>5, OneMore
<1>7. /\ IsFiniteSet(Holders(k)) /\ IsFiniteSet(Holders(k) \ {c})
      /\ Cardinality(Holders(k)) \in Nat
      /\ Cardinality(Holders(k) \ {c}) = Cardinality(Holders(k)) - 1
  BY <1>2, FS_RemoveElement, FS_CardinalityType DEF AuditInv, AttemptsSuffice
<1>8. /\ IsFiniteSet(Holders(k)') /\ Cardinality(Holders(k)') \in Nat
      /\ Cardinality(Holders(k)') <= Cardinality(Holders(k) \ {c})
  BY <1>b, <1>7, NoLarger
<1> QED BY <1>3, <1>5, <1>6, <1>7, <1>8 DEF AuditInv, AttemptsSuffice

(* Execute keeps the attempts of every key enough.                          *)
LEMMA CallsAttempts ==
  ASSUME TypeOK, AuditInv, NEW c \in Callers, CallNext(c), NEW k \in Keys
  PROVE  AttemptsSuffice(k)'
<1>1. CASE \/ \E j \in Keys : Lookup(c, j)
           \/ Poll(c) \/ ReplayFailure(c) \/ LoseReset(c) \/ LoseInsert(c)
           \/ Initiate(c) \/ RejectMoney(c) \/ AbortMoney(c) \/ LogFailed(c)
           \/ Interrupt(c)
  BY <1>1, QuietAudit
<1>2. CASE k = call[c].key /\ (CreateRow(c) \/ Reset(c))
  BY <1>2, OpenedAudit
<1>3. CASE k = call[c].key /\ MoveMoney(c)
  BY <1>3, MovedAudit
<1>4. ASSUME \/ MarkFailed(c)
             \/ k # call[c].key /\ (CreateRow(c) \/ Reset(c) \/ MoveMoney(c))
      PROVE  AttemptsSuffice(k)'
  <2>1. /\ \A d \in Callers \ {c} : call'[d] = call[d]
        /\ call'[c].key = call[c].key
    BY <1>4, CallFrame DEF MarkFailed, CreateRow, Reset, MoveMoney
  <2>2. MarkFailed(c) => call[c].pc = "markFailed"
    BY DEF MarkFailed
  <2>3. Holders(k)' \subseteq Holders(k)
    BY <1>4, <2>1, <2>2 DEF Holders, Owns
  <2>4. Debits(k)' = Debits(k)
    <3>1. CASE MoveMoney(c)
      <4>1. k # call[c].key
        BY <1>4, <3>1 DEF MarkFailed, MoveMoney
      <4> QED BY <3>1, <4>1, MoveDebits
    <3>2. CASE ~MoveMoney(c)
      BY <1>4, <3>2 DEF Reset, CreateRow, MarkFailed, Debits, Positions
    <3> QED BY <3>1, <3>2
  <2>5. row'[k].attempt = row[k].attempt /\ (row'[k].status = "NONE" => row[k].status = "NONE")
    <3>1. CASE MarkFailed(c)
      <4>2. row[k] \in Row /\ DOMAIN row = Keys
        BY DEF TypeOK, DatabaseTypeOK
      <4>3. CASE row'[k] = row[k]
        BY <4>3
      <4>4. CASE row[k].status = "PENDING" /\ k = call[c].key /\ row' =
                   [row EXCEPT ![k].status = "FAILED", ![k].reason = call[c].reason]
        BY <4>2, <4>4 DEF Row
      <4> QED BY <3>1, <4>2, <4>3, <4>4 DEF MarkFailed
    <3>2. CASE ~MarkFailed(c)
      BY <1>4, <3>2 DEF CreateRow, Reset, MoveMoney, TypeOK, DatabaseTypeOK, Row
    <3> QED BY <3>1, <3>2
  <2>6. AttemptsSuffice(k)
    BY DEF AuditInv
  <2> QED BY <2>3, <2>4, <2>5, <2>6, AttemptsFrame
<1> QED BY <1>1, <1>2, <1>3, <1>4 DEF CallNext, Continue

(* Whoever is about to move a key's money holds an attempt of it.           *)
LEMMA AtMoneyFinite ==
  ASSUME NEW k \in Keys, AttemptsSuffice(k)
  PROVE  IsFiniteSet(AtMoney(k)) /\ Cardinality(AtMoney(k)) \in Nat
<1>1. AtMoney(k) \subseteq Holders(k)
  BY DEF AtMoney, Holders, Owns
<1> QED BY <1>1, NoLarger DEF AttemptsSuffice

(* A timeline that does not change stays covered when no call arrives at    *)
(* the money.                                                               *)
LEMMA CoveredFrame ==
  ASSUME TypeOK, NEW k \in Keys, AttemptsSuffice(k), Covered(events[k], Cardinality(AtMoney(k))),
         AtMoney(k)' \subseteq AtMoney(k),
         \/ events'[k] = events[k]
         \/ events'[k] = Append(events[k], "FAILED")
         \/ events'[k] = events[k] \o <<"VERIFIED">>
         \/ events'[k] = events[k] \o <<"CLIENT_CONFIRMATION_LOST", "VERIFIED">>
  PROVE  Covered(events[k], Cardinality(AtMoney(k)))'
<1>1. /\ Cardinality(AtMoney(k)) \in Nat /\ Cardinality(AtMoney(k)') \in Nat
      /\ Cardinality(AtMoney(k)') <= Cardinality(AtMoney(k))
  BY AtMoneyFinite, NoLarger
<1>2. events[k] \in Seq(EventName)
  BY DEF TypeOK, DatabaseTypeOK
<1>3. Covered(events[k], Cardinality(AtMoney(k)'))
  BY <1>1, <1>2, CoveredLess
<1>4. CASE events'[k] = events[k]
  BY <1>3, <1>4
<1>5. CASE events'[k] = Append(events[k], "FAILED")
  <2>1. "FAILED" \in EventName
    BY DEF EventName
  <2>2. Covered(Append(events[k], "FAILED"), Cardinality(AtMoney(k)'))
    BY <1>1, <1>2, <1>3, <2>1, CoveredAppend
  <2> QED BY <1>5, <2>2
<1>6. CASE \/ events'[k] = events[k] \o <<"VERIFIED">>
           \/ events'[k] = events[k] \o <<"CLIENT_CONFIRMATION_LOST", "VERIFIED">>
  BY <1>1, <1>2, <1>3, <1>6, CoveredVerify
<1> QED BY <1>4, <1>5, <1>6

(* Only writing INITIATED takes a call to the money.                        *)
LEMMA ArrivesAtMoney ==
  ASSUME TypeOK, NEW c \in Callers, CallNext(c), call'[c].pc = "money"
  PROVE  Initiate(c)
<1> USE DEF TypeOK, CallTypeOK, Call
<1>1. ASSUME NEW k \in Keys, Lookup(c, k) PROVE FALSE
  <2>1. row[k].status \in Status /\ call'[c].pc = AfterRead[row[k].status]
    BY <1>1 DEF Lookup, DatabaseTypeOK, Row
  <2> QED BY <2>1, AfterReadType
<1>2. CASE Poll(c)
  <2>1. row[call[c].key].status \in Status
    BY <1>2 DEF Poll, DatabaseTypeOK, Row
  <2>2. call'[c].pc \in {AfterRead[row[call[c].key].status], "await", "done"}
    BY <1>2 DEF Poll, Respond
  <2> QED BY <2>1, <2>2, AfterReadType
<1>3. CASE LoseInsert(c) \/ RejectMoney(c)
  BY <1>3 DEF LoseInsert, RejectMoney
<1>4. CASE ReplayFailure(c) \/ LoseReset(c) \/ MoveMoney(c) \/ AbortMoney(c)
           \/ LogFailed(c) \/ Interrupt(c)
  BY <1>4 DEF ReplayFailure, LoseReset, MoveMoney, AbortMoney, LogFailed, Interrupt,
     Respond, Goto
<1>5. CASE Reset(c) \/ CreateRow(c) \/ MarkFailed(c)
  BY <1>5 DEF Reset, CreateRow, MarkFailed, Goto
<1> QED BY <1>1, <1>2, <1>3, <1>4, <1>5 DEF CallNext, Continue

(* Execute keeps every timeline covered.                                    *)
LEMMA CallsCovered ==
  ASSUME TypeOK, AuditInv, NEW c \in Callers, CallNext(c), NEW k \in Keys
  PROVE  Covered(events[k], Cardinality(AtMoney(k)))'
<1>1. AttemptsSuffice(k) /\ Covered(events[k], Cardinality(AtMoney(k)))
  BY DEF AuditInv
<1>2. \A d \in Callers \ {c} : call'[d] = call[d]
  BY CallFrame
<1>3. call[c].pc # "idle" => call'[c].key = call[c].key
  BY CallFrame
<1>4. events \in [Keys -> Seq(EventName)] /\ events[k] \in Seq(EventName)
  BY DEF TypeOK, DatabaseTypeOK
<1>5. Cardinality(AtMoney(k)) \in Nat /\ IsFiniteSet(AtMoney(k))
  BY <1>1, AtMoneyFinite
<1>6. CASE Initiate(c) /\ call[c].key = k
  <2>1. events'[k] = Append(events[k], "INITIATED")
    BY <1>4, <1>6 DEF Initiate, Initiation, WithEvent
  <2>2. AtMoney(k)' \subseteq AtMoney(k) \cup {c}
    BY <1>2 DEF AtMoney
  <2>3. /\ Cardinality(AtMoney(k)') \in Nat
        /\ Cardinality(AtMoney(k)') <= Cardinality(AtMoney(k)) + 1
    <3>1. /\ IsFiniteSet(AtMoney(k) \cup {c}) /\ Cardinality(AtMoney(k) \cup {c}) \in Nat
          /\ Cardinality(AtMoney(k) \cup {c}) <= Cardinality(AtMoney(k)) + 1
      BY <1>5, OneMore
    <3> QED BY <1>5, <2>2, <3>1, NoLarger
  <2>4. "INITIATED" \in EventName
    BY DEF EventName
  <2>5. Covered(Append(events[k], "INITIATED"), Cardinality(AtMoney(k)'))
    BY <1>1, <1>4, <1>5, <2>3, <2>4, CoveredAppend
  <2> QED BY <2>1, <2>5
<1>7. CASE MoveMoney(c) /\ call[c].key = k
  <2>1. events'[k] = events[k] \o <<"BALANCE_LOCKED", "PROCESSED", "COMPLETED">>
    BY <1>4, <1>7 DEF MoveMoney
  <2>2. c \in AtMoney(k) /\ call'[c].pc = "done"
    BY <1>7 DEF AtMoney, MoveMoney, Respond, TypeOK, CallTypeOK, Call
  <2>3. AtMoney(k)' \subseteq AtMoney(k) \ {c}
    BY <1>2, <2>2 DEF AtMoney
  <2>4. /\ Cardinality(AtMoney(k)') \in Nat /\ Cardinality(AtMoney(k)) > 0
        /\ Cardinality(AtMoney(k)') <= Cardinality(AtMoney(k)) - 1
    <3>1. /\ IsFiniteSet(AtMoney(k) \ {c})
          /\ Cardinality(AtMoney(k) \ {c}) = Cardinality(AtMoney(k)) - 1
      BY <1>5, <2>2, FS_RemoveElement
    <3>2. Cardinality(AtMoney(k) \ {c}) \in Nat
      BY <3>1, FS_CardinalityType
    <3> QED BY <1>5, <2>3, <3>1, <3>2, NoLarger
  <2>5. Covered(events'[k], Cardinality(AtMoney(k)) - 1) /\ events'[k] \in Seq(EventName)
    BY <1>1, <1>4, <1>5, <2>1, <2>4, CoveredMove, NextType DEF EventName
  <2> QED BY <1>5, <2>4, <2>5, CoveredLess
<1>8. ASSUME ~(Initiate(c) /\ call[c].key = k), ~(MoveMoney(c) /\ call[c].key = k)
      PROVE  Covered(events[k], Cardinality(AtMoney(k)))'
  <2>1. AtMoney(k)' \subseteq AtMoney(k)
    <3>1. call'[c].pc = "money" /\ call'[c].key = k => c \in AtMoney(k)
      BY <1>8, <1>3, ArrivesAtMoney DEF Initiate
    <3> QED BY <1>2, <3>1 DEF AtMoney
  <2>2. \/ events'[k] = events[k]
        \/ events'[k] = Append(events[k], "FAILED")
    <3>1. CASE LogFailed(c)
      BY <1>4, <3>1 DEF LogFailed, WithEvent
    <3>2. CASE Initiate(c)
      BY <1>4, <1>8, <3>2 DEF Initiate, Initiation, WithEvent
    <3>3. CASE MoveMoney(c)
      BY <1>4, <1>8, <3>3 DEF MoveMoney
    <3>4. CASE events' = events
      BY <3>4
    <3> QED BY <3>1, <3>2, <3>3, <3>4 DEF CallNext, Continue, Lookup, Poll, ReplayFailure,
         Reset, LoseReset, CreateRow, LoseInsert, RejectMoney, AbortMoney, MarkFailed, Interrupt
  <2> QED BY <1>1, <2>1, <2>2, CoveredFrame
<1> QED BY <1>6, <1>7, <1>8

(* Verify keeps the attempts enough and the timelines covered.              *)
LEMMA ProbesAudit ==
  ASSUME TypeOK, AuditInv, NEW v \in Verifiers, ProbeNext(v), NEW k \in Keys
  PROVE  AttemptsSuffice(k)' /\ Covered(events[k], Cardinality(AtMoney(k)))'
<1>1. call' = call /\ ledger' = ledger
  BY DEF ProbeNext, ContinueProbe, ReadTransfer, ReadLedger, ReadEvents, Reconcile,
     Reload, InterruptProbe
<1>2. Debits(k)' = Debits(k) /\ Holders(k)' = Holders(k) /\ AtMoney(k)' = AtMoney(k)
  BY <1>1 DEF Debits, Positions, Holders, Owns, AtMoney
<1>3. AttemptsSuffice(k) /\ Covered(events[k], Cardinality(AtMoney(k)))
  BY DEF AuditInv
<1>4. CASE Reconcile(v)
  <2>1. PICK o \in BOOLEAN :
          /\ row' = [row EXCEPT ![probe[v].key] = Reconciled(@, probe[v].outcome, o)]
          /\ events' = [events EXCEPT ![probe[v].key] =
               @ \o (IF o THEN <<"CLIENT_CONFIRMATION_LOST", "VERIFIED">> ELSE <<"VERIFIED">>)]
    BY <1>4 DEF Reconcile
  <2>2. row[k] \in Row /\ probe[v].outcome \in Outcome
    BY DEF TypeOK, DatabaseTypeOK, ProbeTypeOK, Probe
  <2>3. \A r \in Row, out \in Outcome :
          /\ Reconciled(r, out, o).attempt = r.attempt
          /\ Reconciled(r, out, o).status = "NONE" => r.status = "NONE"
    BY DEF Reconciled, Row
  <2>4. row'[k].attempt = row[k].attempt /\ (row'[k].status = "NONE" => row[k].status = "NONE")
    BY <2>1, <2>2, <2>3 DEF TypeOK, DatabaseTypeOK
  <2>5. \/ events'[k] = events[k]
        \/ events'[k] = events[k] \o <<"VERIFIED">>
        \/ events'[k] = events[k] \o <<"CLIENT_CONFIRMATION_LOST", "VERIFIED">>
    BY <2>1 DEF TypeOK, DatabaseTypeOK
  <2>6. AttemptsSuffice(k)'
    BY <1>2, <1>3, <2>4, AttemptsFrame
  <2>7. Covered(events[k], Cardinality(AtMoney(k)))'
    BY <1>2, <1>3, <2>5, CoveredFrame
  <2> QED BY <2>6, <2>7
<1>5. CASE ~Reconcile(v)
  <2>1. row' = row /\ events' = events
    BY <1>5 DEF ProbeNext, ContinueProbe, ReadTransfer, ReadLedger, ReadEvents, Reload,
       InterruptProbe
  <2> QED BY <1>2, <1>3, <2>1 DEF AttemptsSuffice
<1> QED BY <1>4, <1>5

(* AuditInv is inductive relative to the types.                             *)
LEMMA AuditInductive ==
  /\ Init => AuditInv
  /\ TypeOK /\ AuditInv /\ [Next]_vars => AuditInv'
<1>1. ASSUME Init, NEW k \in Keys
      PROVE  AttemptsSuffice(k) /\ Covered(events[k], Cardinality(AtMoney(k)))
  <2>1. Holders(k) = {} /\ AtMoney(k) = {} /\ events[k] = <<>> /\ row[k] = NoRow
    BY <1>1 DEF Init, FreshCall, Holders, Owns, AtMoney
  <2>2. Debits(k) = {}
    <3>1. Intent[k].from \in Users
      BY IntentType
    <3>2. DOMAIN ledger[Intent[k].from] = {1} /\ ledger[Intent[k].from][1].key = NoKey
      BY <1>1, <3>1 DEF Init, Funding
    <3> QED BY <3>2, KeysAssumption DEF Debits, Positions
  <2>3. Cardinality({}) = 0 /\ IsFiniteSet({})
    BY FS_EmptySet
  <2>4. Covered(<<>>, 0)
    <3>1. \A e : Count(<<>>, e, 0) = 0
      BY <2>3 DEF Count
    <3> QED BY <3>1 DEF Covered
  <2> QED BY <2>1, <2>2, <2>3, <2>4 DEF AttemptsSuffice, NoRow
<1>2. ASSUME TypeOK, AuditInv, [Next]_vars, NEW k \in Keys
      PROVE  AttemptsSuffice(k)' /\ Covered(events[k], Cardinality(AtMoney(k)))'
  <2>1. CASE UNCHANGED vars \/ \E u \in Users : Activate(u)
    <3>1. row' = row /\ ledger' = ledger /\ call' = call /\ events' = events
      BY <2>1 DEF vars, Activate
    <3>2. Debits(k)' = Debits(k) /\ Holders(k)' = Holders(k) /\ AtMoney(k)' = AtMoney(k)
      BY <3>1 DEF Debits, Positions, Holders, Owns, AtMoney
    <3> QED BY <1>2, <3>1, <3>2 DEF AuditInv, AttemptsSuffice
  <2> QED BY <1>2, <2>1, CallsAttempts, CallsCovered, ProbesAudit DEF Next
<1> QED BY <1>1, <1>2 DEF AuditInv

(* The timeline and the attempt counter account for every movement of       *)
(* money, for every interleaving of execute, verify and crashes.            *)
THEOREM EveryMoveIsAudited == Spec => []AuditIsComplete
<1>1. TypeOK /\ AuditInv => AuditIsComplete
  <2> SUFFICES ASSUME TypeOK, AuditInv PROVE AuditIsComplete
    OBVIOUS
  <2>1. TimelineCoversMoves
    BY DEF AuditInv, Covered, Count, TimelineCoversMoves
  <2>2. ASSUME NEW k \in Keys PROVE Cardinality(Debits(k)) <= row[k].attempt
    <3>1. Cardinality(Holders(k)) \in Nat
      BY FS_CardinalityType DEF AuditInv, AttemptsSuffice
    <3>2. Cardinality(Debits(k)) \in Nat /\ row[k].attempt \in Nat
      BY DebitsFinite DEF TypeOK, DatabaseTypeOK, Row
    <3> QED BY <3>1, <3>2 DEF AuditInv, AttemptsSuffice
  <2> QED BY <2>1, <2>2 DEF AuditIsComplete, MovesWithinAttempts
<1> QED BY <1>1, TypeCorrect, AuditInductive, PTL DEF Spec

-----------------------------------------------------------------------------
(* Conservation *)

(* The sum of the amounts of a ledger, as checkInvariants computes it.      *)
Posted(s) == FoldSeq(LAMBDA e, acc : e.amount + acc, 0, s)
Amounts(s) == [i \in DOMAIN s |-> s[i].amount]

(* The fold over a ledger is the sum over its positions.                    *)
LEMMA PostedSum ==
  ASSUME NEW s \in Seq(Entry)
  PROVE  /\ Posted(s) = SumOf(Amounts(s), DOMAIN s)
         /\ IsFiniteSet(DOMAIN s) /\ \A i \in DOMAIN s : Amounts(s)[i] \in Int
<1> DEFINE U == DOMAIN s
           g == Amounts(s)
           C(t) == CHOOSE x \in t : TRUE
<1>1. IsFiniteSet(U) /\ \A i \in U : g[i] \in Int /\ g[i] = s[i].amount
  <2>1. U = 1..Len(s) /\ Len(s) \in Nat
    OBVIOUS
  <2>2. IsFiniteSet(1..Len(s))
    BY <2>1, FS_Interval
  <2>3. \A i \in U : s[i] \in Entry
    OBVIOUS
  <2> QED BY <2>1, <2>2, <2>3 DEF Amounts, Entry
<1>2. PICK jt : Iterates(jt, g, U) /\ SumOf(g, U) = jt[U]
  BY <1>1, SumOfIterates
<1>3. jt = [t \in SUBSET U |-> IF t = {} THEN 0 ELSE s[C(t)].amount + jt[t \ {C(t)}]]
  <2>1. \A t \in SUBSET U : t # {} => C(t) \in U
    OBVIOUS
  <2>2. jt = [t \in SUBSET U |-> IF t = {} THEN 0 ELSE g[C(t)] + jt[t \ {C(t)}]]
    BY <1>2 DEF Iterates, AddChosen
  <2>3. \A t \in SUBSET U : jt[t] = IF t = {} THEN 0 ELSE s[C(t)].amount + jt[t \ {C(t)}]
    BY <1>1, <2>1, <2>2
  <2> HIDE DEF C, g
  <2> QED BY <2>2, <2>3
<1> DEFINE it == CHOOSE it : it = [t \in SUBSET U |->
                   IF t = {} THEN 0 ELSE s[CHOOSE x \in t : TRUE].amount + it[t \ {CHOOSE x \in t : TRUE}]]
<1>4. it = [t \in SUBSET U |-> IF t = {} THEN 0 ELSE s[C(t)].amount + it[t \ {C(t)}]]
  BY <1>3
<1>5. Posted(s) = it[U]
  BY DEF Posted, FoldSeq, FoldFunction, FoldFunctionOnSet, MapThenFoldSet
<1>6. Iterates(it, g, U)
  <2>1. \A t \in SUBSET U : t # {} => C(t) \in U
    OBVIOUS
  <2>2. \A t \in SUBSET U : it[t] = IF t = {} THEN 0 ELSE g[C(t)] + it[t \ {C(t)}]
    <3> HIDE DEF it, g
    <3> QED BY <1>1, <1>4, <2>1
  <2> HIDE DEF it, g
  <2>3. it = [t \in SUBSET U |-> IF t = {} THEN 0 ELSE g[C(t)] + it[t \ {C(t)}]]
    BY <1>4, <2>2
  <2> QED BY <2>3 DEF Iterates, AddChosen
<1>7. it[U] = jt[U]
  <2> HIDE DEF it, g
  <2> QED BY <1>1, <1>2, <1>6, SumAgree
<1> QED BY <1>1, <1>2, <1>5, <1>7

(* One more entry adds its amount.                                          *)
LEMMA PostedAppend ==
  ASSUME NEW s \in Seq(Entry), NEW e \in Entry
  PROVE  Posted(s) \in Int /\ e.amount \in Int /\ Posted(Append(s, e)) = Posted(s) + e.amount
<1> DEFINE t == Append(s, e)
           n == Len(s) + 1
           g == Amounts(s)
           h == Amounts(t)
<1>1. t \in Seq(Entry) /\ DOMAIN t = DOMAIN s \cup {n} /\ n \notin DOMAIN s
      /\ t[n] = e /\ \A i \in DOMAIN s : t[i] = s[i]
  OBVIOUS
<1>2. /\ Posted(s) = SumOf(g, DOMAIN s) /\ IsFiniteSet(DOMAIN s)
      /\ \A i \in DOMAIN s : g[i] \in Int
  BY PostedSum
<1>3. /\ Posted(t) = SumOf(h, DOMAIN t) /\ \A i \in DOMAIN t : h[i] \in Int
  BY <1>1, PostedSum
<1>4. h[n] = e.amount /\ \A i \in DOMAIN s : h[i] = g[i]
  BY <1>1 DEF Amounts
<1> HIDE DEF t, n, g, h
<1>5. SumOf(h, DOMAIN s \cup {n}) = h[n] + SumOf(h, DOMAIN s)
  BY <1>1, <1>2, <1>3, SumWith
<1>6. SumOf(g, DOMAIN s) = SumOf(h, DOMAIN s) /\ SumOf(g, DOMAIN s) \in Int
  BY <1>2, <1>4, SumEqual, SumType
<1>7. e.amount \in Int
  BY DEF Entry
<1> QED BY <1>1, <1>2, <1>3, <1>4, <1>5, <1>6, <1>7 DEF t

(* Each wallet holds what its ledger sums to.                               *)
LedgerInv ==
  /\ WalletsMatchLedger
  /\ Total(balance) = Total(Opening)
  /\ \A u \in Users : balance[u] = Posted(ledger[u])

(* The entries of a ledger continue one another up to the balance.          *)
Chained(u, l, b) ==
  /\ l # <<>>
  /\ l[1] = Funding(u)
  /\ \A i \in 2..Len(l) : l[i].after = l[i - 1].after + l[i].amount
  /\ b = l[Len(l)].after

(* An entry that starts from the balance continues the ledger.              *)
LEMMA ChainedAppend ==
  ASSUME NEW u \in Users, NEW l \in Seq(Entry), NEW b, NEW e \in Entry, Chained(u, l, b),
         e.after = b + e.amount
  PROVE  Chained(u, Append(l, e), e.after)
<1> DEFINE m == Append(l, e)
<1>1. /\ Len(l) \in Nat /\ Len(l) > 0 /\ Len(m) = Len(l) + 1 /\ m # <<>>
      /\ m[Len(m)] = e /\ \A i \in 1..Len(l) : m[i] = l[i]
  BY DEF Chained
<1> HIDE DEF m
<1>2. m[1] = Funding(u)
  BY <1>1 DEF Chained
<1>3. ASSUME NEW i \in 2..Len(m) PROVE m[i].after = m[i - 1].after + m[i].amount
  <2>1. CASE i = Len(m)
    BY <1>1, <2>1 DEF Chained
  <2>2. CASE i \in 2..Len(l)
    <3>1. i - 1 \in 1..Len(l) /\ i \in 1..Len(l)
      BY <1>1, <2>2
    <3> QED BY <1>1, <2>2, <3>1 DEF Chained
  <2> QED BY <1>1, <2>1, <2>2
<1> QED BY <1>1, <1>2, <1>3 DEF Chained, m

(* The total of all wallets is their sum.                                   *)
LEMMA TotalIsSum ==
  ASSUME NEW f
  PROVE  Total(f) = SumOf(f, Users)
BY DEF Total, SumOf

(* The money transaction keeps wallets and ledger together.                 *)
LEMMA MoveKeepsBooks ==
  ASSUME TypeOK, LedgerInv, NEW c \in Callers, MoveMoney(c)
  PROVE  LedgerInv'
<1> DEFINE k == call[c].key
           a == Intent[k].from
           b == Intent[k].to
           n == Intent[k].amount
<1>1. /\ k \in Keys
      /\ Debit(k) \in Entry /\ Credit(k) \in Entry
      /\ ledger'[a] = Append(ledger[a], Debit(k))
      /\ ledger'[b] = Append(ledger[b], Credit(k))
      /\ \A u \in Users \ {a, b} : ledger'[u] = ledger[u]
  BY MovePosts
<1>2. a \in Users /\ b \in Users /\ n \in Nat /\ a # b
  BY <1>1, IntentType
<1>3. balance \in [Users -> Nat] /\ balance[a] >= n /\ ledger \in [Users -> Seq(Entry)]
  BY DEF MoveMoney, Affordable, TypeOK, DatabaseTypeOK
<1>4. /\ Debit(k).amount = -n /\ Debit(k).after = balance[a] - n
      /\ Credit(k).amount = n /\ Credit(k).after = balance[b] + n
  BY DEF Debit, Credit, SenderAfter, ReceiverAfter
<1>5. /\ balance'[a] = balance[a] - n /\ balance'[b] = balance[b] + n
      /\ \A u \in Users \ {a, b} : balance'[u] = balance[u]
  <2>1. balance' = [balance EXCEPT ![a] = @ - n, ![b] = @ + n]
    BY DEF MoveMoney, Transferred
  <2> HIDE DEF a, b, n, k
  <2> QED BY <1>2, <1>3, <2>1, Zenon
<1> HIDE DEF a, b, n, k
<1>6. Total(balance)' = Total(balance)
  <2>1. SumOf(balance', Users) = SumOf(balance, Users)
    <3>1. \A u \in Users : balance[u] \in Int
      BY <1>3
    <3>2. n \in Int
      BY <1>2
    <3> QED BY <1>2, <1>5, <3>1, <3>2, UsersAssumption, SumTransfer
  <2>2. Total(balance) = SumOf(balance, Users) /\ Total(balance') = SumOf(balance', Users)
    BY TotalIsSum
  <2> QED BY <2>1, <2>2
<1>7. ASSUME NEW u \in Users
      PROVE  Chained(u, ledger'[u], balance'[u]) /\ balance'[u] = Posted(ledger'[u])
  <2>1. ledger[u] \in Seq(Entry) /\ balance[u] \in Nat
    BY <1>3
  <2>2. Chained(u, ledger[u], balance[u]) /\ balance[u] = Posted(ledger[u])
    BY DEF LedgerInv, WalletsMatchLedger, Chained
  <2>3. ASSUME NEW e \in Entry, ledger'[u] = Append(ledger[u], e),
               e.after = balance[u] + e.amount, balance'[u] = e.after
        PROVE  Chained(u, ledger'[u], balance'[u]) /\ balance'[u] = Posted(ledger'[u])
    <3>1. Chained(u, ledger'[u], balance'[u])
      BY <2>1, <2>2, <2>3, ChainedAppend
    <3>2. balance'[u] = Posted(ledger'[u])
      BY <2>1, <2>2, <2>3, PostedAppend
    <3> QED BY <3>1, <3>2
  <2>4. CASE u = a
    BY <1>1, <1>2, <1>4, <1>5, <2>1, <2>3, <2>4
  <2>5. CASE u = b
    BY <1>1, <1>2, <1>4, <1>5, <2>1, <2>3, <2>5
  <2>6. CASE u \notin {a, b}
    BY <1>1, <1>5, <2>2, <2>6
  <2> QED BY <2>4, <2>5, <2>6
<1> QED BY <1>6, <1>7 DEF LedgerInv, WalletsMatchLedger, Chained

(* Nothing but the money transaction writes a wallet or the ledger.         *)
LEMMA BooksOnlyMoves ==
  ASSUME [Next]_vars
  PROVE  \/ ledger' = ledger /\ balance' = balance
         \/ \E c \in Callers : MoveMoney(c)
<1>1. ASSUME NEW c \in Callers, CallNext(c), ~MoveMoney(c) PROVE balance' = balance
  BY <1>1 DEF CallNext, Continue, Lookup, Poll, ReplayFailure, Reset, LoseReset,
     CreateRow, LoseInsert, Initiate, RejectMoney, AbortMoney, MarkFailed, LogFailed,
     Interrupt
<1>2. ASSUME NEW v \in Verifiers, ProbeNext(v) PROVE balance' = balance
  BY <1>2 DEF ProbeNext, ContinueProbe, ReadTransfer, ReadLedger, ReadEvents, Reconcile,
     Reload, InterruptProbe
<1>3. ASSUME NEW u \in Users, Activate(u) PROVE balance' = balance
  BY <1>3 DEF Activate
<1>4. CASE UNCHANGED vars
  BY <1>4 DEF vars
<1> QED BY <1>1, <1>2, <1>3, <1>4, LedgerOnlyMoves DEF Next

(* LedgerInv is inductive relative to the types.                            *)
LEMMA LedgerInductive ==
  /\ Init => LedgerInv
  /\ TypeOK /\ LedgerInv /\ [Next]_vars => LedgerInv'
<1>1. ASSUME Init PROVE LedgerInv
  <2>1. ASSUME NEW u \in Users PROVE Posted(<<Funding(u)>>) = Opening[u] /\ Funding(u).after = Opening[u]
    <3>1. Funding(u) \in Entry /\ Funding(u).amount = Opening[u] /\ Opening[u] \in Nat
      BY OpeningAssumption DEF Funding, Entry
    <3>2. <<>> \in Seq(Entry) /\ <<Funding(u)>> = Append(<<>>, Funding(u)) /\ DOMAIN <<>> = {}
      OBVIOUS
    <3>3. Posted(<<>>) = 0
      BY <3>2, PostedSum, SumEmpty
    <3>4. Posted(Append(<<>>, Funding(u))) = Posted(<<>>) + Funding(u).amount
      BY <3>1, <3>2, PostedAppend
    <3> QED BY <3>1, <3>2, <3>3, <3>4 DEF Funding
  <2>2. Total(balance) = Total(Opening)
    BY <1>1 DEF Init
  <2>3. ASSUME NEW u \in Users PROVE Chained(u, ledger[u], balance[u]) /\ balance[u] = Posted(ledger[u])
    <3>1. ledger[u] = <<Funding(u)>> /\ balance[u] = Opening[u]
      BY <1>1 DEF Init
    <3>2. Len(<<Funding(u)>>) = 1 /\ <<Funding(u)>>[1] = Funding(u) /\ <<Funding(u)>> # <<>>
      OBVIOUS
    <3> QED BY <2>1, <3>1, <3>2 DEF Chained
  <2> QED BY <2>2, <2>3 DEF LedgerInv, WalletsMatchLedger, Chained
<1>2. ASSUME TypeOK, LedgerInv, [Next]_vars PROVE LedgerInv'
  <2>1. CASE ledger' = ledger /\ balance' = balance
    <3>1. Total(balance)' = Total(balance)
      BY <2>1
    <3>2. WalletsMatchLedger'
      BY <1>2, <2>1 DEF LedgerInv, WalletsMatchLedger
    <3>3. \A u \in Users : Posted(ledger'[u]) = Posted(ledger[u])
      BY <2>1
    <3> QED BY <1>2, <2>1, <3>1, <3>2, <3>3 DEF LedgerInv
  <2>2. \/ ledger' = ledger /\ balance' = balance
        \/ \E c \in Callers : MoveMoney(c)
    BY <1>2, BooksOnlyMoves
  <2> QED BY <1>2, <2>1, <2>2, MoveKeepsBooks
<1> QED BY <1>1, <1>2

(* Wallets and ledger are two records of one thing and money is conserved,  *)
(* for any number of users and any interleaving.                            *)
THEOREM BooksAgree == Spec => []LedgerIsSound
<1>1. TypeOK /\ LedgerInv => LedgerIsSound
  <2> SUFFICES ASSUME TypeOK, LedgerInv PROVE LedgerIsSound
    OBVIOUS
  <2> DEFINE sums == [u \in Users |-> Posted(ledger[u])]
  <2>1. \A u \in Users : sums[u] = balance[u] /\ balance[u] \in Int
    BY DEF LedgerInv, TypeOK, DatabaseTypeOK
  <2>2. SumOf(balance, Users) = SumOf(sums, Users)
    <3> HIDE DEF sums
    <3> QED BY <2>1, UsersAssumption, SumEqual
  <2>3. Total(balance) = Total(sums)
    <3> HIDE DEF sums
    <3> QED BY <2>2, TotalIsSum
  <2>4. MoneyIsConserved = (Total(balance) = Total(Opening) /\ Total(balance) = Total(sums))
    BY DEF MoneyIsConserved, Posted
  <2> HIDE DEF sums
  <2> QED BY <2>3, <2>4 DEF LedgerInv, LedgerIsSound
<1> QED BY <1>1, TypeCorrect, LedgerInductive, PTL DEF Spec

-----------------------------------------------------------------------------
(* Refinement of AtomicTransfers *)

(* A step of one call tells at most the key of that call.                   *)
LEMMA ToldByCall ==
  ASSUME NEW c \in Callers, NEW k, k = call'[c].key,
         \A d \in Callers \ {c} : call'[d] = call[d], probe' = probe,
         call[c].answer = "none"
  PROVE  PaidKeys' = IF call'[c].answer = "COMPLETED" THEN PaidKeys \cup {k} ELSE PaidKeys
<1> DEFINE ByProbes == {probe[v].key : v \in {w \in Verifiers : probe[w].outcome = "DELIVERED"}}
           ByCalls == {call[d].key : d \in {d \in Callers : call[d].answer = "COMPLETED"}}
           NewByCalls == {call'[d].key : d \in {d \in Callers : call'[d].answer = "COMPLETED"}}
<1>1. PaidKeys = ByCalls \cup ByProbes /\ PaidKeys' = NewByCalls \cup ByProbes
  BY DEF PaidKeys
<1>2. NewByCalls = IF call'[c].answer = "COMPLETED" THEN ByCalls \cup {k} ELSE ByCalls
  OBVIOUS
<1> HIDE DEF ByProbes, ByCalls, NewByCalls
<1> QED BY <1>1, <1>2

(* A step of one probe tells at most the key of that probe.                 *)
LEMMA ToldByProbe ==
  ASSUME NEW v \in Verifiers, NEW k, k = probe'[v].key,
         \A w \in Verifiers \ {v} : probe'[w] = probe[w], call' = call,
         \/ probe[v].outcome = "none"
         \/ probe'[v].outcome = probe[v].outcome /\ probe'[v].key = probe[v].key
  PROVE  PaidKeys' = IF probe'[v].outcome = "DELIVERED" THEN PaidKeys \cup {k} ELSE PaidKeys
<1> DEFINE ByProbes == {probe[w].key : w \in {w \in Verifiers : probe[w].outcome = "DELIVERED"}}
           NewByProbes == {probe'[w].key : w \in {w \in Verifiers : probe'[w].outcome = "DELIVERED"}}
           ByCalls == {call[d].key : d \in {d \in Callers : call[d].answer = "COMPLETED"}}
<1>1. PaidKeys = ByCalls \cup ByProbes /\ PaidKeys' = ByCalls \cup NewByProbes
  BY DEF PaidKeys
<1>2. NewByProbes = IF probe'[v].outcome = "DELIVERED" THEN ByProbes \cup {k} ELSE ByProbes
  OBVIOUS
<1> HIDE DEF ByProbes, ByCalls, NewByProbes
<1> QED BY <1>1, <1>2

(* The money transaction is one atomic movement of its key.                 *)
LEMMA MoveRefines ==
  ASSUME TypeOK, EngineInv, SuccessInv, NEW c \in Callers, MoveMoney(c), NEW k, k = call[c].key
  PROVE  k \in Keys /\ Atomic!Move(k)
<1>1. k \in Keys /\ call'[c].key = k /\ Moved(k)'
  BY MoveMoves
<1>2. CallNext(c)
  BY DEF CallNext, Continue
<1>3. balance[Intent[k].from] >= Intent[k].amount
  BY DEF MoveMoney, Affordable
<1>4. balance' = [balance EXCEPT ![Intent[k].from] = @ - Intent[k].amount,
                                 ![Intent[k].to] = @ + Intent[k].amount]
  BY DEF MoveMoney, Transferred
<1>5. Moved(k) => ~Exclusive(k)
  <2>1. Owns(c, k)
    BY DEF Owns, MoveMoney
  <2> QED BY <1>1, <2>1 DEF EngineInv, OwnedOnce
<1>6. {j \in Keys : Moved(j)}' = {j \in Keys : Moved(j)} \cup {k}
  <2>1. \A j \in Keys : j # k => Moved(j)' = Moved(j)
    BY MoveDebits DEF Moved
  <2> QED BY <1>1, <2>1
<1>7. PaidKeys' \in {PaidKeys, PaidKeys \cup {k}}
  <2>1. \A d \in Callers \ {c} : call'[d] = call[d]
    BY <1>2, CallFrame
  <2>2. probe' = probe /\ call[c].answer = "none"
    BY DEF MoveMoney, SuccessInv
  <2> QED BY <1>1, <2>1, <2>2, ToldByCall
<1> QED BY <1>1, <1>3, <1>4, <1>5, <1>6, <1>7 DEF Atomic!Move

(* A step that leaves the ledger alone leaves what has moved as it is.      *)
LEMMA MovedFrame ==
  ASSUME ledger' = ledger
  PROVE  {j \in Keys : Moved(j)}' = {j \in Keys : Moved(j)}
BY DEF Moved, Debits, Positions

(* Telling a caller about money that has moved.                             *)
LEMMA TellRefines ==
  ASSUME NEW k \in Keys, Moved(k), balance' = balance, ledger' = ledger,
         PaidKeys' = PaidKeys \cup {k}
  PROVE  Atomic!Next
<1>1. {j \in Keys : Moved(j)}' = {j \in Keys : Moved(j)}
  BY MovedFrame
<1>2. Atomic!Tell(k)
  BY <1>1 DEF Atomic!Tell
<1> QED BY <1>2 DEF Atomic!Next

(* A step that moves and tells nothing.                                     *)
LEMMA StutterRefines ==
  ASSUME balance' = balance, ledger' = ledger, PaidKeys' = PaidKeys
  PROVE  UNCHANGED Atomic!vars
<1>1. {j \in Keys : Moved(j)}' = {j \in Keys : Moved(j)}
  BY MovedFrame
<1> QED BY <1>1 DEF Atomic!vars

(* Every step of execute moves one key, tells about one that has moved, or  *)
(* changes neither.                                                         *)
LEMMA CallsRefine ==
  ASSUME TypeOK, EngineInv, SuccessInv, NEW c \in Callers, CallNext(c)
  PROVE  Atomic!Next \/ UNCHANGED Atomic!vars
<1>1. CASE MoveMoney(c)
  BY <1>1, MoveRefines DEF Atomic!Next
<1>2. CASE ~MoveMoney(c)
  <2>1. balance' = balance /\ ledger' = ledger /\ probe' = probe
    BY <1>2 DEF CallNext, Continue, Lookup, Poll, ReplayFailure, Reset, LoseReset,
       CreateRow, LoseInsert, Initiate, RejectMoney, AbortMoney, MarkFailed, LogFailed,
       Interrupt
  <2>2. call[c].pc # "done" /\ call[c].answer = "none"
    BY CallAnswers DEF SuccessInv
  <2>3. \A d \in Callers \ {c} : call'[d] = call[d]
    BY CallFrame
  <2>4. PICK k : k = call'[c].key
    OBVIOUS
  <2>5. PaidKeys' = IF call'[c].answer = "COMPLETED" THEN PaidKeys \cup {k} ELSE PaidKeys
    BY <2>1, <2>2, <2>3, <2>4, ToldByCall
  <2>6. ASSUME call'[c].answer = "COMPLETED" PROVE k \in Keys /\ Moved(k)
    <3>1. k \in Keys /\ row[k].status = "COMPLETED"
      BY <1>2, <2>2, <2>4, <2>6, CallAnswers
    <3> QED BY <3>1 DEF SuccessInv, SuccessIsTrue, CompletedMeansMoved
  <2> QED BY <2>1, <2>5, <2>6, TellRefines, StutterRefines
<1> QED BY <1>1, <1>2

(* Every step of verify tells about a key that has moved, or changes        *)
(* nothing.                                                                 *)
LEMMA ProbesRefine ==
  ASSUME TypeOK, EngineInv, SuccessInv, NEW v \in Verifiers, ProbeNext(v)
  PROVE  Atomic!Next \/ UNCHANGED Atomic!vars
<1>1. balance' = balance /\ ledger' = ledger /\ call' = call
  BY DEF ProbeNext, ContinueProbe, ReadTransfer, ReadLedger, ReadEvents, Reconcile,
     Reload, InterruptProbe
<1>2. \A w \in Verifiers \ {v} : probe'[w] = probe[w]
  BY DEF ProbeNext, ContinueProbe, ReadTransfer, ReadLedger, ReadEvents, Reconcile,
     Reload, InterruptProbe, TypeOK, ProbeTypeOK
<1>3. CASE ReadLedger(v)
  <2>1. PICK k : k = probe[v].key
    OBVIOUS
  <2>2. /\ k \in Keys /\ probe'[v].key = k /\ probe[v].outcome = "none"
        /\ probe'[v].outcome = LedgerOutcome(k, probe[v].status)
    BY <1>3, <2>1 DEF ReadLedger, SuccessInv, TypeOK, ProbeTypeOK, Probe
  <2>3. PaidKeys' = IF probe'[v].outcome = "DELIVERED" THEN PaidKeys \cup {k} ELSE PaidKeys
    BY <1>1, <1>2, <2>2, ToldByProbe
  <2>4. probe'[v].outcome = "DELIVERED" => Moved(k)
    BY <2>2, DeliveredMoved
  <2> QED BY <1>1, <2>2, <2>3, <2>4, TellRefines, StutterRefines
<1>4. CASE ~ReadLedger(v)
  <2>1. \/ probe[v].outcome = "none" /\ probe'[v].outcome = "none"
        \/ probe'[v].outcome = probe[v].outcome /\ probe'[v].key = probe[v].key
    <3> USE DEF TypeOK, ProbeTypeOK, Probe
    <3>1. CASE \E k \in Keys : ReadTransfer(v, k)
      BY <3>1 DEF ReadTransfer, SuccessInv
    <3>2. CASE ReadEvents(v)
      <4>1. PICK s, e : probe' = [probe EXCEPT ![v].pc = s, ![v].newest = e]
        BY <3>2 DEF ReadEvents
      <4> QED BY <4>1
    <3>3. CASE Reconcile(v)
      BY <3>3 DEF Reconcile
    <3>4. CASE Reload(v)
      BY <3>4 DEF Reload
    <3>5. CASE InterruptProbe(v)
      BY <3>5 DEF InterruptProbe
    <3> QED BY <1>4, <3>1, <3>2, <3>3, <3>4, <3>5 DEF ProbeNext, ContinueProbe
  <2>2. PaidKeys' = PaidKeys
    <3>1. PICK k : k = probe'[v].key
      OBVIOUS
    <3>2. PaidKeys' = IF probe'[v].outcome = "DELIVERED" THEN PaidKeys \cup {k} ELSE PaidKeys
      BY <1>1, <1>2, <2>1, <3>1, ToldByProbe
    <3>3. probe[v].outcome = "DELIVERED" => probe[v].key \in PaidKeys
      BY DEF PaidKeys
    <3> QED BY <2>1, <3>1, <3>2, <3>3
  <2> QED BY <1>1, <2>2, StutterRefines
<1> QED BY <1>3, <1>4

(* Every step of the engine is a step of AtomicTransfers or a stutter.      *)
LEMMA StepRefines ==
  TypeOK /\ EngineInv /\ SuccessInv /\ [Next]_vars => [Atomic!Next]_Atomic!vars
<1> SUFFICES ASSUME TypeOK, EngineInv, SuccessInv, [Next]_vars
             PROVE  Atomic!Next \/ UNCHANGED Atomic!vars
  OBVIOUS
<1>1. CASE UNCHANGED vars \/ \E u \in Users : Activate(u)
  <2>1. balance' = balance /\ ledger' = ledger /\ call' = call /\ probe' = probe
    BY <1>1 DEF vars, Activate
  <2>2. PaidKeys' = PaidKeys
    BY <2>1 DEF PaidKeys
  <2> QED BY <2>1, <2>2, StutterRefines
<1> QED BY <1>1, CallsRefine, ProbesRefine DEF Next

(* The engine starts where AtomicTransfers does.                            *)
LEMMA InitRefines == Init => Atomic!Init
<1> SUFFICES ASSUME Init PROVE Atomic!Init
  OBVIOUS
<1>1. PaidKeys = {}
  BY DEF Init, PaidKeys, FreshCall, FreshProbe
<1>2. ASSUME NEW k \in Keys PROVE ~Moved(k)
  <2>1. Intent[k].from \in Users
    BY IntentType
  <2>2. DOMAIN ledger[Intent[k].from] = {1} /\ ledger[Intent[k].from][1].key = NoKey
    BY <2>1 DEF Init, Funding
  <2> QED BY <2>2, KeysAssumption DEF Moved, Debits, Positions
<1> QED BY <1>1, <1>2 DEF Init, Atomic!Init

(* Execute and verify, with all their interleavings, lost answers and       *)
(* crashes, implement atomic transfers.                                     *)
THEOREM EngineImplementsAtomicTransfers == Spec => ImplementsAtomicTransfers
<1> QED BY InitRefines, TypeCorrect, EngineInvInductive, SuccessInductive, StepRefines, PTL
     DEF Spec, ImplementsAtomicTransfers, Atomic!Spec

-----------------------------------------------------------------------------
(* Refinement of Payments *)

(* What Payments sees of the rows and of the calls.                         *)
PaidOf == [k \in Keys |-> PayStatusOf[row[k].status]]
PayOf == [c \in Callers |->
            [pc |-> PayStepOf(c), key |-> call[c].key, answer |-> PayAnswerOf(c)]]

(* The rows the refinement reads: a caller of the replay policy that is     *)
(* about to answer with the stored failure finds it still stored, and the   *)
(* answers come at the end.                                                 *)
PaymentInv ==
  /\ \A c \in Callers : call[c].pc # "done" => call[c].answer = "none"
  /\ \A c \in Callers :
       call[c].pc = "resolve" /\ call[c].key \notin RetryKeys =>
         row[call[c].key].status = "FAILED"

(* How the steps of a call look to Payments.                                *)
LEMMA PayViews ==
  ASSUME NEW c \in Callers
  PROVE  /\ call[c].pc = "idle" => PayStepOf(c) = "idle"
         /\ call[c].pc \in {"resolve", "await", "insert"} => PayStepOf(c) = "waiting"
         /\ call[c].pc \in {"initiate", "money", "markFailed"} => PayStepOf(c) = "owning"
         /\ call[c].pc = "logFailed" /\ call[c].answer = "none" =>
              PayStepOf(c) = "answered" /\ PayAnswerOf(c) = "FAILED"
         /\ call[c].pc = "done" /\ call[c].answer # "LOST" =>
              PayStepOf(c) = "answered" /\ PayAnswerOf(c) = call[c].answer
         /\ call[c].pc = "done" /\ call[c].answer = "LOST" =>
              PayStepOf(c) = "dead" /\ PayAnswerOf(c) = "none"
         /\ call[c].pc # "logFailed" /\ call[c].answer = "none" => PayAnswerOf(c) = "none"
BY DEF PayStepOf, PayAnswerOf

(* The same after the step.                                                 *)
LEMMA NewPayViews ==
  ASSUME NEW c \in Callers
  PROVE  /\ call'[c].pc = "idle" => PayStepOf(c)' = "idle"
         /\ call'[c].pc \in {"resolve", "await", "insert"} => PayStepOf(c)' = "waiting"
         /\ call'[c].pc \in {"initiate", "money", "markFailed"} => PayStepOf(c)' = "owning"
         /\ call'[c].pc = "logFailed" /\ call'[c].answer = "none" =>
              PayStepOf(c)' = "answered" /\ PayAnswerOf(c)' = "FAILED"
         /\ call'[c].pc = "done" /\ call'[c].answer # "LOST" =>
              PayStepOf(c)' = "answered" /\ PayAnswerOf(c)' = call'[c].answer
         /\ call'[c].pc = "done" /\ call'[c].answer = "LOST" =>
              PayStepOf(c)' = "dead" /\ PayAnswerOf(c)' = "none"
         /\ call'[c].pc # "logFailed" /\ call'[c].answer = "none" => PayAnswerOf(c)' = "none"
BY DEF PayStepOf, PayAnswerOf

(* What Payments sees of a step of one call.                                *)
LEMMA PayChange ==
  ASSUME NEW c \in Callers, \A d \in Callers \ {c} : call'[d] = call[d],
         call'[c].key = call[c].key
  PROVE  /\ PayOf' = [PayOf EXCEPT ![c].pc = PayStepOf(c)', ![c].answer = PayAnswerOf(c)']
         /\ PayAnswerOf(c)' = PayAnswerOf(c) => PayOf' = [PayOf EXCEPT ![c].pc = PayStepOf(c)']
         /\ PayAnswerOf(c)' = PayAnswerOf(c) /\ PayStepOf(c)' = PayStepOf(c) => PayOf' = PayOf
<1>1. \A d \in Callers \ {c} : PayStepOf(d)' = PayStepOf(d) /\ PayAnswerOf(d)' = PayAnswerOf(d)
  BY DEF PayStepOf, PayAnswerOf
<1> QED BY <1>1 DEF PayOf

(* What Payments sees of a step of one row.                                 *)
LEMMA PaidChange ==
  ASSUME NEW k \in Keys, \A j \in Keys \ {k} : row'[j] = row[j]
  PROVE  PaidOf' = [PaidOf EXCEPT ![k] = PayStatusOf[row'[k].status]]
BY DEF PaidOf

(* The first read of a key.                                                 *)
LEMMA LookupPays ==
  ASSUME TypeOK, PaymentInv, NEW c \in Callers, NEW k \in Keys, Lookup(c, k)
  PROVE  Payment!BeginPay(c, k)
<1>1. row[k].status \in Status /\ PaidOf' = PaidOf
  BY DEF Lookup, TypeOK, DatabaseTypeOK, Row, PaidOf
<1>2. PaidOf[k] = "moved" <=> row[k].status = "COMPLETED"
  BY <1>1 DEF PaidOf, PayStatusOf, Status, InFlight
<1>3. /\ \A d \in Callers \ {c} : call'[d] = call[d]
      /\ call'[c].key = k /\ call'[c].pc = AfterRead[row[k].status]
      /\ call'[c].answer = AnswerAfterRead(row[k].status)
      /\ call[c].pc = "idle"
  BY DEF Lookup, TypeOK, CallTypeOK, Call
<1>4. /\ row[k].status = "COMPLETED" => PayStepOf(c)' = "answered" /\ PayAnswerOf(c)' = "COMPLETED"
      /\ row[k].status # "COMPLETED" => PayStepOf(c)' = "waiting" /\ PayAnswerOf(c)' = "none"
  BY <1>1, <1>3, NewPayViews DEF AfterRead, AnswerAfterRead, Status, InFlight
<1>5. PayOf' = [PayOf EXCEPT ![c] =
         IF PaidOf[k] = "moved"
           THEN [pc |-> "answered", key |-> k, answer |-> "COMPLETED"]
           ELSE [pc |-> "waiting", key |-> k, answer |-> "none"]]
  <2>1. \A d \in Callers \ {c} : PayStepOf(d)' = PayStepOf(d) /\ PayAnswerOf(d)' = PayAnswerOf(d)
    BY <1>3 DEF PayStepOf, PayAnswerOf
  <2> QED BY <1>2, <1>3, <1>4, <2>1 DEF PayOf
<1>6. PayOf[c].pc = "idle"
  BY <1>3, PayViews DEF PayOf
<1> QED BY <1>1, <1>5, <1>6 DEF Payment!BeginPay, Payment!Calling, PaidOf, PayOf

(* A waiting call that ends with what its row says.                         *)
LEMMA JoinPays ==
  ASSUME NEW c \in Callers, NEW k \in Keys, call[c].key = k, call'[c].key = k,
         \A d \in Callers \ {c} : call'[d] = call[d],
         PayStepOf(c) = "waiting", PayStepOf(c)' = "answered", PaidOf' = PaidOf,
         \/ PaidOf[k] = "moved" /\ PayAnswerOf(c)' = "COMPLETED"
         \/ PaidOf[k] = "inflight" /\ PayAnswerOf(c)' = "IN_FLIGHT"
         \/ (k \in RetryKeys <=> PaidOf[k] # "failed") /\ PayAnswerOf(c)' = "FAILED"
  PROVE  Payment!JoinPay(c)
BY PayChange DEF Payment!JoinPay, Payment!AnswerPay, PayOf, PaidOf

(* A waiting call that takes the attempt.                                   *)
LEMMA OwnPays ==
  ASSUME NEW c \in Callers, NEW k \in Keys, call[c].key = k, call'[c].key = k,
         \A d \in Callers \ {c} : call'[d] = call[d],
         PayStepOf(c) = "waiting", PayStepOf(c)' = "owning", PayAnswerOf(c)' = PayAnswerOf(c),
         PaidOf[k] = "none" \/ (PaidOf[k] = "failed" /\ k \in RetryKeys),
         PaidOf' = [PaidOf EXCEPT ![k] = "inflight"]
  PROVE  Payment!OwnPay(c)
BY PayChange DEF Payment!OwnPay, PayOf, PaidOf

(* An owning call that ends its attempt.                                    *)
LEMMA EndPays ==
  ASSUME NEW c \in Callers, NEW k \in Keys, call[c].key = k, call'[c].key = k,
         \A d \in Callers \ {c} : call'[d] = call[d],
         PayStepOf(c) = "owning", PayStepOf(c)' = "answered",
         \/ /\ PaidOf' = [PaidOf EXCEPT ![k] = "moved"]
            /\ PayAnswerOf(c)' = "COMPLETED" \/ PayAnswerOf(c)' = "UNCERTAIN"
         \/ /\ PaidOf' = PaidOf
            /\ PayAnswerOf(c)' = "FAILED" \/ PayAnswerOf(c)' = "UNCERTAIN"
         \/ PaidOf' = [PaidOf EXCEPT ![k] = "failed"] /\ PayAnswerOf(c)' = "FAILED"
  PROVE  Payment!EndPay(c)
BY PayChange DEF Payment!EndPay, Payment!AnswerPay, PayOf, PaidOf

(* A call that dies.                                                        *)
LEMMA DropPays ==
  ASSUME NEW c \in Callers, NEW k \in Keys, call[c].key = k, call'[c].key = k,
         \A d \in Callers \ {c} : call'[d] = call[d],
         PayStepOf(c) # "idle", PayStepOf(c)' = "dead", PayAnswerOf(c)' = "none",
         PaidOf' = PaidOf
  PROVE  Payment!DropPay(c)
BY PayChange DEF Payment!DropPay, PayOf, PaidOf

(* A step that Payments does not see.                                       *)
LEMMA HiddenFromPays ==
  ASSUME NEW c \in Callers, NEW k \in Keys, call[c].key = k, call'[c].key = k,
         \A d \in Callers \ {c} : call'[d] = call[d],
         PayStepOf(c)' = PayStepOf(c), PayAnswerOf(c)' = PayAnswerOf(c), PaidOf' = PaidOf
  PROVE  UNCHANGED Payment!payVars
BY PayChange DEF Payment!payVars, PayOf, PaidOf

(* What Payments sees of a row.                                             *)
LEMMA PaidViews ==
  ASSUME NEW k \in Keys, row[k].status \in Status
  PROVE  /\ PaidOf[k] = "none" <=> row[k].status = "NONE"
         /\ PaidOf[k] = "inflight" <=> row[k].status \in InFlight
         /\ PaidOf[k] = "moved" <=> row[k].status = "COMPLETED"
         /\ PaidOf[k] = "failed" <=> row[k].status = "FAILED"
BY DEF PaidOf, PayStatusOf, Status, InFlight

(* The steps of a call that read the row it waits for.                      *)
LEMMA WaitingPays ==
  ASSUME TypeOK, PaymentInv, NEW c \in Callers,
         Poll(c) \/ ReplayFailure(c) \/ LoseReset(c) \/ LoseInsert(c)
  PROVE  Payment!JoinPay(c) \/ UNCHANGED Payment!payVars
<1> DEFINE k == call[c].key
<1>1. /\ \A d \in Callers \ {c} : call'[d] = call[d]
      /\ call'[c].key = k /\ k \in Keys /\ row[k].status \in Status /\ call[c].answer = "none"
      /\ call[c].pc \in {"resolve", "await", "insert"} /\ row' = row
  <2>1. call[c].pc \in {"resolve", "await", "insert"} /\ row' = row
    BY DEF Poll, ReplayFailure, LoseReset, LoseInsert
  <2>2. CallNext(c)
    BY DEF CallNext, Continue
  <2> QED BY <2>1, <2>2, CallFrame DEF PaymentInv, TypeOK, CallTypeOK, DatabaseTypeOK, Row
<1>2. PayStepOf(c) = "waiting" /\ PayAnswerOf(c) = "none" /\ PaidOf' = PaidOf
  BY <1>1, PayViews DEF PaidOf
<1>3. call[c] \in Call
  BY DEF TypeOK, CallTypeOK
<1> DEFINE Waits == call'[c].pc \in {"resolve", "await", "insert"} /\ call'[c].answer = "none"
           Ends(a) == call'[c].pc = "done" /\ call'[c].answer = a
<1>4. \/ Waits
      \/ Ends("COMPLETED") /\ row[k].status = "COMPLETED"
      \/ Ends("IN_FLIGHT") /\ row[k].status \in InFlight
      \/ Ends("FAILED") /\ (k \in RetryKeys <=> row[k].status # "FAILED")
  <2> USE DEF TypeOK, CallTypeOK
  <2>1. CASE Poll(c)
    <3>1. \/ row[k].status \notin InFlight /\ call'[c].pc = AfterRead[row[k].status]
               /\ call'[c].answer = AnswerAfterRead(row[k].status)
          \/ call'[c].pc = call[c].pc /\ call'[c].answer = call[c].answer
          \/ row[k].status \in InFlight /\ Ends("IN_FLIGHT")
      BY <2>1, <1>3 DEF Poll, Respond, Call
    <3> QED BY <1>1, <3>1 DEF AfterRead, AnswerAfterRead, Status, InFlight
  <2>2. CASE ReplayFailure(c)
    BY <1>1, <1>3, <2>2 DEF ReplayFailure, Respond, Call, MayRetry, PaymentInv
  <2>3. CASE LoseReset(c)
    BY <1>1, <1>3, <2>3 DEF LoseReset, Respond, Goto, Call, MayRetry, Resettable
  <2>4. CASE LoseInsert(c)
    BY <1>1, <1>3, <2>4 DEF LoseInsert, Call
  <2> QED BY <2>1, <2>2, <2>3, <2>4
<1>5. /\ Waits => PayStepOf(c)' = "waiting" /\ PayAnswerOf(c)' = "none"
      /\ Ends("COMPLETED") => PayStepOf(c)' = "answered" /\ PayAnswerOf(c)' = "COMPLETED"
      /\ Ends("IN_FLIGHT") => PayStepOf(c)' = "answered" /\ PayAnswerOf(c)' = "IN_FLIGHT"
      /\ Ends("FAILED") => PayStepOf(c)' = "answered" /\ PayAnswerOf(c)' = "FAILED"
  BY NewPayViews
<1> HIDE DEF Waits, Ends, k
<1>6. /\ PaidOf[k] = "inflight" <=> row[k].status \in InFlight
      /\ PaidOf[k] = "moved" <=> row[k].status = "COMPLETED"
      /\ PaidOf[k] = "failed" <=> row[k].status = "FAILED"
  BY <1>1, PaidViews
<1>7. CASE Waits
  <2>1. PayStepOf(c)' = PayStepOf(c) /\ PayAnswerOf(c)' = PayAnswerOf(c) /\ PaidOf' = PaidOf
    BY <1>2, <1>5, <1>7
  <2> QED BY <1>1, <2>1, HiddenFromPays DEF k
<1>8. CASE ~Waits
  <2>1. /\ PayStepOf(c)' = "answered" /\ PaidOf' = PaidOf
        /\ \/ PaidOf[k] = "moved" /\ PayAnswerOf(c)' = "COMPLETED"
           \/ PaidOf[k] = "inflight" /\ PayAnswerOf(c)' = "IN_FLIGHT"
           \/ (k \in RetryKeys <=> PaidOf[k] # "failed") /\ PayAnswerOf(c)' = "FAILED"
    BY <1>2, <1>4, <1>5, <1>6, <1>8
  <2> QED BY <1>1, <1>2, <2>1, JoinPays DEF k
<1> QED BY <1>7, <1>8

(* Winning the insert or the reset.                                         *)
LEMMA OwningPays ==
  ASSUME TypeOK, PaymentInv, NEW c \in Callers, Reset(c) \/ CreateRow(c)
  PROVE  Payment!OwnPay(c)
<1> DEFINE k == call[c].key
<1>1. /\ \A d \in Callers \ {c} : call'[d] = call[d]
      /\ call'[c].key = k /\ k \in Keys /\ row[k].status \in Status /\ call[c].answer = "none"
      /\ call[c].pc \in {"resolve", "insert"}
  <2>1. call[c].pc \in {"resolve", "insert"}
    BY DEF Reset, CreateRow
  <2>2. CallNext(c)
    BY DEF CallNext, Continue
  <2> QED BY <2>1, <2>2, CallFrame DEF PaymentInv, TypeOK, CallTypeOK, DatabaseTypeOK, Row
<1>2. PayStepOf(c) = "waiting" /\ PayAnswerOf(c) = "none"
  BY <1>1, PayViews
<1>3. call'[c].pc = "initiate" /\ call'[c].answer = call[c].answer
  BY DEF Reset, CreateRow, Goto, TypeOK, CallTypeOK, Call
<1>4. PayStepOf(c)' = "owning" /\ PayAnswerOf(c)' = "none"
  BY <1>1, <1>3, NewPayViews
<1>5. row[k].status = "NONE" \/ (row[k].status = "FAILED" /\ k \in RetryKeys)
  BY DEF Reset, CreateRow, Resettable, MayRetry, Claimable
<1>6. /\ \A j \in Keys \ {k} : row'[j] = row[j]
      /\ row'[k].status = "PENDING"
  BY <1>1 DEF Reset, CreateRow, TypeOK, DatabaseTypeOK
<1>7. PaidOf' = [PaidOf EXCEPT ![k] = "inflight"]
  <2>1. PayStatusOf["PENDING"] = "inflight"
    BY DEF PayStatusOf
  <2> HIDE DEF k
  <2> QED BY <1>1, <1>6, <2>1, PaidChange
<1> HIDE DEF k
<1>8. PaidOf[k] = "none" \/ (PaidOf[k] = "failed" /\ k \in RetryKeys)
  BY <1>1, <1>5, PaidViews
<1> QED BY <1>1, <1>2, <1>4, <1>7, <1>8, OwnPays DEF k

(* The steps of a call that owns the attempt.                               *)
LEMMA OwnerPays ==
  ASSUME TypeOK, PaymentInv, NEW c \in Callers,
         \/ Initiate(c) \/ MoveMoney(c) \/ RejectMoney(c) \/ AbortMoney(c)
         \/ MarkFailed(c) \/ LogFailed(c)
  PROVE  Payment!EndPay(c) \/ UNCHANGED Payment!payVars
<1> DEFINE k == call[c].key
<1>1. /\ \A d \in Callers \ {c} : call'[d] = call[d]
      /\ call'[c].key = k /\ k \in Keys /\ row[k].status \in Status /\ call[c].answer = "none"
      /\ call[c].pc \in {"initiate", "money", "markFailed", "logFailed"}
      /\ call[c] \in Call /\ row[k] \in Row
  <2>1. call[c].pc \in {"initiate", "money", "markFailed", "logFailed"}
    BY DEF Initiate, MoveMoney, RejectMoney, AbortMoney, MarkFailed, LogFailed
  <2>2. CallNext(c)
    BY DEF CallNext, Continue
  <2> QED BY <2>1, <2>2, CallFrame DEF PaymentInv, TypeOK, CallTypeOK, DatabaseTypeOK, Row
<1>2. /\ call[c].pc # "logFailed" => PayStepOf(c) = "owning" /\ PayAnswerOf(c) = "none"
      /\ call[c].pc = "logFailed" => PayStepOf(c) = "answered" /\ PayAnswerOf(c) = "FAILED"
  BY <1>1, PayViews
<1>3. row' = row => PaidOf' = PaidOf
  BY DEF PaidOf
<1>4. CASE Initiate(c)
  <2>1. row' = row /\ call[c].pc = "initiate" /\ call'[c].pc = "money" /\ call'[c].answer = "none"
    BY <1>1, <1>4 DEF Initiate, Goto, TypeOK, CallTypeOK, Call
  <2>2. PayStepOf(c)' = "owning" /\ PayAnswerOf(c)' = "none"
    BY <2>1, NewPayViews
  <2> QED BY <1>1, <1>2, <1>3, <2>1, <2>2, HiddenFromPays
<1>5. CASE RejectMoney(c)
  <2>1. row' = row /\ call[c].pc = "money" /\ call'[c].pc = "markFailed" /\ call'[c].answer = "none"
    BY <1>1, <1>5 DEF RejectMoney, TypeOK, CallTypeOK, Call
  <2>2. PayStepOf(c)' = "owning" /\ PayAnswerOf(c)' = "none"
    BY <2>1, NewPayViews
  <2> QED BY <1>1, <1>2, <1>3, <2>1, <2>2, HiddenFromPays
<1>6. CASE AbortMoney(c)
  <2>1. row' = row /\ call[c].pc = "money" /\ call'[c].pc = "done" /\ call'[c].answer = "UNCERTAIN"
    BY <1>1, <1>6 DEF AbortMoney, Respond, TypeOK, CallTypeOK, Call
  <2>2. PayStepOf(c)' = "answered" /\ PayAnswerOf(c)' = "UNCERTAIN"
    BY <2>1, NewPayViews
  <2> QED BY <1>1, <1>2, <1>3, <2>1, <2>2, EndPays
<1>7. CASE LogFailed(c)
  <2>1. row' = row /\ call[c].pc = "logFailed" /\ call'[c].pc = "done" /\ call'[c].answer = "FAILED"
    BY <1>1, <1>7 DEF LogFailed, Respond, TypeOK, CallTypeOK, Call
  <2>2. PayStepOf(c)' = "answered" /\ PayAnswerOf(c)' = "FAILED"
    BY <2>1, NewPayViews
  <2>3. PayStepOf(c)' = PayStepOf(c) /\ PayAnswerOf(c)' = PayAnswerOf(c) /\ PaidOf' = PaidOf
    BY <1>2, <1>3, <2>1, <2>2
  <2> HIDE DEF k
  <2> QED BY <1>1, <2>3, HiddenFromPays DEF k
<1>8. CASE MoveMoney(c)
  <2>1. /\ call[c].pc = "money" /\ call'[c].pc = "done"
        /\ call'[c].answer \in {"COMPLETED", "UNCERTAIN"}
    BY <1>1, <1>8 DEF MoveMoney, Respond, TypeOK, CallTypeOK, Call
  <2>2. PayStepOf(c)' = "answered" /\ PayAnswerOf(c)' \in {"COMPLETED", "UNCERTAIN"}
    BY <2>1, NewPayViews
  <2>3. row'[k].status = "COMPLETED" /\ \A j \in Keys \ {k} : row'[j] = row[j]
    BY <1>1, <1>8 DEF MoveMoney, TypeOK, DatabaseTypeOK, Row
  <2>4. PaidOf' = [PaidOf EXCEPT ![k] = "moved"]
    <3>1. PayStatusOf["COMPLETED"] = "moved"
      BY DEF PayStatusOf
    <3> HIDE DEF k
    <3> QED BY <1>1, <2>3, <3>1, PaidChange
  <2> QED BY <1>1, <1>2, <2>1, <2>2, <2>4, EndPays
<1>9. CASE MarkFailed(c)
  <2>1. call[c].pc = "markFailed" /\ call'[c].pc = "logFailed" /\ call'[c].answer = "none"
    BY <1>1, <1>9 DEF MarkFailed, Goto, TypeOK, CallTypeOK, Call
  <2>2. PayStepOf(c)' = "answered" /\ PayAnswerOf(c)' = "FAILED"
    BY <2>1, NewPayViews
  <2>3. \/ row' = row
        \/ row'[k].status = "FAILED" /\ \A j \in Keys \ {k} : row'[j] = row[j]
    BY <1>1, <1>9 DEF MarkFailed, TypeOK, DatabaseTypeOK, Row
  <2>4. PaidOf' = PaidOf \/ PaidOf' = [PaidOf EXCEPT ![k] = "failed"]
    <3>1. PayStatusOf["FAILED"] = "failed"
      BY DEF PayStatusOf
    <3> HIDE DEF k
    <3> QED BY <1>1, <1>3, <2>3, <3>1, PaidChange
  <2>5. PayStepOf(c) = "owning"
    BY <1>2, <2>1
  <2>6. \/ PaidOf' = PaidOf /\ PayAnswerOf(c)' \in {"FAILED", "UNCERTAIN"}
        \/ PaidOf' = [PaidOf EXCEPT ![k] = "failed"] /\ PayAnswerOf(c)' = "FAILED"
    BY <2>2, <2>4
  <2> HIDE DEF k
  <2> QED BY <1>1, <2>2, <2>5, <2>6, EndPays DEF k
<1> QED BY <1>4, <1>5, <1>6, <1>7, <1>8, <1>9

(* The end of the server is the end of the call.                            *)
LEMMA InterruptPays ==
  ASSUME TypeOK, PaymentInv, NEW c \in Callers, Interrupt(c)
  PROVE  Payment!DropPay(c)
<1> DEFINE k == call[c].key
<1>1. /\ \A d \in Callers \ {c} : call'[d] = call[d]
      /\ call'[c].key = k /\ k \in Keys /\ call[c].answer = "none" /\ row' = row
      /\ call[c].pc \in CallStep \ {"idle", "done"}
      /\ call'[c].pc = "done" /\ call'[c].answer = "LOST"
  <2>1. CallNext(c)
    BY DEF CallNext
  <2> QED BY <2>1, CallFrame DEF Interrupt, Respond, PaymentInv, TypeOK, CallTypeOK, Call
<1>2. PayStepOf(c) # "idle" /\ PayStepOf(c)' = "dead" /\ PayAnswerOf(c)' = "none"
  BY <1>1, PayViews, NewPayViews DEF CallStep
<1>3. PaidOf' = PaidOf
  BY <1>1 DEF PaidOf
<1> QED BY <1>1, <1>2, <1>3, DropPays

(* Only reading a FAILED row takes a call to its resolution.                *)
LEMMA ArrivesAtResolve ==
  ASSUME TypeOK, NEW c \in Callers, CallNext(c), call'[c].pc = "resolve",
         NEW k, k = call'[c].key
  PROVE  row[k].status = "FAILED" /\ row' = row
<1> USE DEF TypeOK, CallTypeOK, Call
<1>1. ASSUME NEW j \in Keys, Lookup(c, j) PROVE row[k].status = "FAILED" /\ row' = row
  <2>1. row[j].status \in Status /\ call'[c].pc = AfterRead[row[j].status] /\ j = k /\ row' = row
    BY <1>1 DEF Lookup, DatabaseTypeOK, Row
  <2> QED BY <2>1 DEF AfterRead, Status, InFlight
<1>2. CASE Poll(c)
  <2>1. row[k].status \in Status /\ call[c].key = k /\ row' = row
    BY <1>2 DEF Poll, Respond, DatabaseTypeOK, Row
  <2>2. call'[c].pc \in {AfterRead[row[k].status], "await", "done"}
    BY <1>2, <2>1 DEF Poll, Respond
  <2> QED BY <2>1, <2>2 DEF AfterRead, Status, InFlight
<1>3. CASE LoseInsert(c) \/ RejectMoney(c)
  BY <1>3 DEF LoseInsert, RejectMoney
<1>4. CASE ReplayFailure(c) \/ LoseReset(c) \/ MoveMoney(c) \/ AbortMoney(c)
           \/ LogFailed(c) \/ Interrupt(c)
  BY <1>4 DEF ReplayFailure, LoseReset, MoveMoney, AbortMoney, LogFailed, Interrupt,
     Respond, Goto
<1>5. CASE Reset(c) \/ CreateRow(c) \/ MarkFailed(c) \/ Initiate(c)
  BY <1>5 DEF Reset, CreateRow, MarkFailed, Initiate, Goto
<1> QED BY <1>1, <1>2, <1>3, <1>4, <1>5 DEF CallNext, Continue

(* With no verify around, a FAILED row of the replay policy stays FAILED:   *)
(* it has no owner to complete it and nobody resets it.                     *)
LEMMA FailedStays ==
  ASSUME TypeOK, EngineInv, Verifiers = {}, NEW c \in Callers, CallNext(c),
         NEW k \in Keys \ RetryKeys, row[k].status = "FAILED"
  PROVE  row'[k].status = "FAILED"
<1>1. ~Owns(c, k)
  BY DEF EngineInv, Exclusive, OwnedOnce
<1>2. CASE Reset(c) \/ CreateRow(c) \/ MoveMoney(c) \/ MarkFailed(c)
  <2>1. call[c].key # k
    BY <1>1, <1>2 DEF Reset, CreateRow, MoveMoney, MarkFailed, MayRetry, Claimable, Owns
  <2> QED BY <1>2, <2>1 DEF Reset, CreateRow, MoveMoney, MarkFailed, TypeOK, DatabaseTypeOK
<1>3. CASE row' = row
  BY <1>3
<1> QED BY <1>2, <1>3 DEF CallNext, Continue, Lookup, Poll, ReplayFailure, LoseReset,
     LoseInsert, Initiate, RejectMoney, AbortMoney, LogFailed, Interrupt

(* Without verify the engine keeps PaymentInv.                              *)
LEMMA PaymentInductive ==
  ASSUME Verifiers = {}
  PROVE  /\ Init => PaymentInv
         /\ TypeOK /\ EngineInv /\ PaymentInv /\ [Next]_vars => PaymentInv'
<1>1. Init => PaymentInv
  BY DEF Init, FreshCall, PaymentInv
<1>2. ASSUME TypeOK, EngineInv, PaymentInv, NEW c \in Callers, CallNext(c) PROVE PaymentInv'
  <2>1. \A d \in Callers \ {c} : call'[d] = call[d]
    BY <1>2, CallFrame
  <2>2. ASSUME NEW d \in Callers PROVE call'[d].pc # "done" => call'[d].answer = "none"
    BY <1>2, <2>1, CallAnswers DEF PaymentInv
  <2>3. ASSUME NEW d \in Callers, NEW k, k = call'[d].key, call'[d].pc = "resolve", k \notin RetryKeys
        PROVE  row'[k].status = "FAILED"
    <3>1. CASE d = c
      BY <1>2, <2>3, <3>1, ArrivesAtResolve
    <3>2. CASE d # c
      <4>1. k \in Keys /\ row[k].status = "FAILED"
        BY <1>2, <2>1, <2>3, <3>2 DEF PaymentInv, TypeOK, CallTypeOK
      <4> QED BY <1>2, <2>3, <4>1, FailedStays
    <3> QED BY <3>1, <3>2
  <2> QED BY <2>2, <2>3 DEF PaymentInv
<1>3. ASSUME PaymentInv, UNCHANGED vars \/ \E u \in Users : Activate(u) PROVE PaymentInv'
  BY <1>3 DEF vars, Activate, PaymentInv
<1> QED BY <1>1, <1>2, <1>3 DEF Next

(* Every step of the engine is one of Payments or hidden from it.           *)
LEMMA StepPays ==
  ASSUME Verifiers = {}
  PROVE  TypeOK /\ PaymentInv /\ [Next]_vars => [Payment!PayNext]_Payment!payVars
<1> SUFFICES ASSUME TypeOK, PaymentInv, [Next]_vars
             PROVE  Payment!PayNext \/ UNCHANGED Payment!payVars
  OBVIOUS
<1>1. ASSUME NEW c \in Callers, CallNext(c)
      PROVE  Payment!PayNext \/ UNCHANGED Payment!payVars
  <2>1. ASSUME NEW k \in Keys, Lookup(c, k) PROVE Payment!PayNext
    BY <2>1, LookupPays DEF Payment!PayNext
  <2>2. ASSUME Continue(c) PROVE Payment!StepPay(c) \/ UNCHANGED Payment!payVars
    BY <2>2, WaitingPays, OwningPays, OwnerPays DEF Continue, Payment!StepPay
  <2>3. ASSUME Interrupt(c) PROVE Payment!DropPay(c)
    BY <2>3, InterruptPays
  <2> QED BY <1>1, <2>1, <2>2, <2>3 DEF CallNext, Payment!PayNext
<1>2. CASE UNCHANGED vars \/ \E u \in Users : Activate(u)
  <2>1. row' = row /\ call' = call
    BY <1>2 DEF vars, Activate
  <2> QED BY <2>1 DEF Payment!payVars, PayStepOf, PayAnswerOf
<1> QED BY <1>1, <1>2 DEF Next

(* The engine starts where Payments does.                                   *)
LEMMA InitPays == Init => Payment!PayInit
<1> SUFFICES ASSUME Init PROVE Payment!PayInit
  OBVIOUS
<1>1. \A k \in Keys : PayStatusOf[row[k].status] = "none"
  BY DEF Init, NoRow, PayStatusOf
<1>2. \A c \in Callers : PayStepOf(c) = "idle" /\ call[c].key = NoKey /\ PayAnswerOf(c) = "none"
  BY PayViews DEF Init, FreshCall
<1> QED BY <1>1, <1>2 DEF Payment!PayInit, Payment!FreshPay

(* While nobody verifies, execute is to the flows built on it what Payments *)
(* says.                                                                    *)
THEOREM EngineImplementsPayments ==
  ASSUME Verifiers = {}
  PROVE  Spec => ImplementsPayments
BY InitPays, PaymentInductive, StepPays, TypeCorrect, EngineInvInductive, PTL
   DEF Spec, ImplementsPayments, Payment!PaySpec

-----------------------------------------------------------------------------
(* The request layer runs the engine: every step of it is a step of the     *)
(* engine or leaves the engine's state alone.                               *)
LEMMA RequestStepIsEngineStep ==
  ASSUME RequestTypeOK, [RequestNext]_allVars
  PROVE  [Next]_vars
<1>1. CASE EngineStep
  BY <1>1 DEF EngineStep, Next
<1>2. ASSUME NEW c \in Callers, Pay(c) PROVE Next
  <2>1. approval[c].request \in Requests
    BY <1>2 DEF RequestTypeOK, Pay, FreshApproval
  <2>2. KeysFor(approval[c].request) \subseteq Keys
    BY <2>1, ApprovalKeyAssumption DEF KeysFor
  <2>3. (\E k \in Keys : Lookup(c, k)) \/ Continue(c)
    BY <1>2, <2>2 DEF Pay
  <2> QED BY <2>3 DEF Next, CallNext
<1>3. ASSUME NEW c \in Callers, InterruptApproval(c) PROVE [Next]_vars
  BY <1>3 DEF InterruptApproval, Next, CallNext
<1>4. ASSUME NEW c \in Callers, NEW r \in Requests, LoadForApproval(c, r)
      PROVE  UNCHANGED vars
  BY <1>4 DEF LoadForApproval
<1>5. ASSUME NEW c \in Callers, Conclude(c) \/ PassError(c) PROVE UNCHANGED vars
  BY <1>5 DEF Conclude, PassError
<1>6. ASSUME NEW r \in Requests, Create(r) PROVE UNCHANGED vars
  BY <1>6 DEF Create
<1>7. ASSUME NEW d \in Deciders, NEW r \in Requests, NEW w \in Verdict,
             LoadForDecision(d, r, w)
      PROVE  UNCHANGED vars
  BY <1>7 DEF LoadForDecision
<1>8. ASSUME NEW d \in Deciders, Decide(d) \/ InterruptDecision(d) PROVE UNCHANGED vars
  BY <1>8 DEF Decide, InterruptDecision
<1>9. CASE ExpireStale
  BY <1>9 DEF ExpireStale
<1>10. CASE UNCHANGED allVars
  BY <1>10 DEF allVars
<1> QED
  BY <1>1, <1>2, <1>3, <1>4, <1>5, <1>6, <1>7, <1>8, <1>9, <1>10 DEF RequestNext

-----------------------------------------------------------------------------
(* An approval calls execute under the one key derived from its request.    *)
KeyOfRequest ==
  \A c \in Callers :
    /\ approval[c].pc = "idle" => approval[c].request = NoRequest /\ call[c].pc = "idle"
    /\ approval[c].pc # "idle" /\ call[c].pc # "idle" =>
         call[c].key = ApprovalKey[approval[c].request]

RequestInv == RequestTypeOK /\ KeyOfRequest /\ DecisionStands

LEMMA RequestInitInv == RequestInit => RequestInv
BY NoRequestAssumption
   DEF RequestInit, Init, RequestInv, RequestTypeOK, KeyOfRequest, DecisionStands,
       FreshApproval, FreshDecision, FreshCall, Approval, Decision, Verdict

(* A step of a call already begun leaves its key alone, and the other calls *)
(* as they are.                                                             *)
LEMMA ContinueFrame ==
  ASSUME TypeOK, NEW c \in Callers, Continue(c) \/ Interrupt(c)
  PROVE  /\ call[c].pc # "idle"
         /\ call'[c].pc # "idle" /\ call'[c].key = call[c].key
         /\ \A d \in Callers \ {c} : call'[d] = call[d]
<1> USE DEF Goto, Respond, CallTypeOK, Call, TypeOK
<1>1. CASE Poll(c)
  <2>1. row[call[c].key].status \in Status
    BY <1>1 DEF Poll, DatabaseTypeOK, Row
  <2>2. AfterRead[row[call[c].key].status] # "idle"
    BY <2>1, AfterReadType
  <2> QED BY <1>1, <2>2 DEF Poll
<1>2. CASE ReplayFailure(c) \/ Reset(c) \/ LoseReset(c)
  BY <1>2 DEF ReplayFailure, Reset, LoseReset
<1>3. CASE CreateRow(c) \/ LoseInsert(c) \/ Initiate(c)
  BY <1>3 DEF CreateRow, LoseInsert, Initiate
<1>4. CASE MoveMoney(c)
  <2>1. call[c].pc # "idle" /\ \E answer \in Answer : Respond(c, answer)
    BY <1>4 DEF MoveMoney, Answer
  <2> QED BY <2>1
<1>5. CASE RejectMoney(c) \/ AbortMoney(c)
  BY <1>5 DEF RejectMoney, AbortMoney
<1>6. CASE MarkFailed(c) \/ LogFailed(c)
  BY <1>6 DEF MarkFailed, LogFailed
<1>7. CASE Interrupt(c)
  BY <1>7 DEF Interrupt
<1> QED BY <1>1, <1>2, <1>3, <1>4, <1>5, <1>6, <1>7 DEF Continue

(* An approval that ends keeps its request; the others stay as they are.    *)
LEMMA ApprovalEnds ==
  ASSUME RequestTypeOK, NEW c \in Callers, approval[c].pc = "paying",
         NEW reply \in {"APPROVED", "ERROR", "LOST"},
         approval' = [approval EXCEPT ![c].pc = "done", ![c].reply = reply]
  PROVE  /\ approval[c].request \in Requests
         /\ approval' \in [Callers -> Approval]
         /\ \A d \in Callers :
              /\ approval'[d] = FreshApproval \/ approval'[d].request \in Requests
              /\ approval'[d].request = approval[d].request
              /\ approval'[d].pc = "idle" <=> approval[d].pc = "idle"
<1>1. approval[c] # FreshApproval
  BY DEF FreshApproval
<1>2. approval[c].request \in Requests
  BY <1>1 DEF RequestTypeOK
<1>3. approval \in [Callers -> Approval]
  BY DEF RequestTypeOK
<1>4. approval' \in [Callers -> Approval]
  BY <1>3 DEF Approval
<1>5. approval'[c].request = approval[c].request /\ approval'[c].pc = "done"
  BY <1>3 DEF Approval
<1>6. \A d \in Callers \ {c} : approval'[d] = approval[d]
  BY <1>3
<1> QED BY <1>2, <1>4, <1>5, <1>6 DEF RequestTypeOK

(* The request and the approvals under a step of an approval.               *)
LEMMA ApprovalSteps ==
  ASSUME RequestInv, TypeOK, NEW c \in Callers,
         \/ \E r \in Requests : LoadForApproval(c, r)
         \/ Pay(c) \/ Conclude(c) \/ PassError(c) \/ InterruptApproval(c)
  PROVE  RequestTypeOK' /\ KeyOfRequest'
<1> USE DEF RequestInv
<1>1. ASSUME NEW r \in Requests, LoadForApproval(c, r)
      PROVE  RequestTypeOK' /\ KeyOfRequest'
  <2>1. RequestTypeOK'
    BY <1>1 DEF LoadForApproval, RequestTypeOK, Approval, FreshApproval
  <2>2. KeyOfRequest'
    BY <1>1 DEF LoadForApproval, RequestTypeOK, Approval, FreshApproval,
                KeyOfRequest, vars
  <2> QED BY <2>1, <2>2
<1>2. CASE Pay(c)
  <2>1. RequestTypeOK'
    BY <1>2 DEF Pay, requestVars, RequestTypeOK
  <2>2. approval' = approval /\ approval[c].pc = "paying"
    BY <1>2 DEF Pay, requestVars
  <2>3. ASSUME NEW k \in KeysFor(approval[c].request), Lookup(c, k) PROVE KeyOfRequest'
    <3>1. k = ApprovalKey[approval[c].request]
      BY <2>3 DEF KeysFor
    <3>2. call'[c].key = k /\ \A d \in Callers \ {c} : call'[d] = call[d]
      BY <2>3 DEF Lookup, TypeOK, CallTypeOK, Call
    <3> QED BY <2>2, <3>1, <3>2 DEF KeyOfRequest
  <2>4. ASSUME Continue(c) PROVE KeyOfRequest'
    BY <2>2, <2>4, ContinueFrame DEF KeyOfRequest
  <2> QED BY <1>2, <2>1, <2>3, <2>4 DEF Pay
<1>3. CASE Conclude(c)
  <2>1. approval[c].pc = "paying" /\ call' = call /\ decision' = decision
    BY <1>3 DEF Conclude, vars
  <2>2. approval' = [approval EXCEPT ![c].pc = "done", ![c].reply = "APPROVED"]
    BY <1>3 DEF Conclude
  <2>3. request' \in [Requests -> Resolved \cup {"NONE", "PENDING"}]
    BY <1>3 DEF Conclude, RequestTypeOK, ApprovedFrom, Resolved
  <2> QED BY <2>1, <2>2, <2>3, ApprovalEnds DEF RequestTypeOK, KeyOfRequest
<1>4. CASE PassError(c)
  <2>1. approval[c].pc = "paying" /\ UNCHANGED <<call, request, decision>>
    BY <1>4 DEF PassError, vars
  <2>2. approval' = [approval EXCEPT ![c].pc = "done", ![c].reply = "ERROR"]
    BY <1>4 DEF PassError
  <2> QED BY <2>1, <2>2, ApprovalEnds DEF RequestTypeOK, KeyOfRequest
<1>5. CASE InterruptApproval(c)
  <2>1. approval[c].pc = "paying" /\ UNCHANGED <<request, decision>>
    BY <1>5 DEF InterruptApproval
  <2>2. approval' = [approval EXCEPT ![c].pc = "done", ![c].reply = "LOST"]
    BY <1>5 DEF InterruptApproval
  <2>3. RequestTypeOK'
    BY <2>1, <2>2, ApprovalEnds DEF RequestTypeOK
  <2>4. \A d \in Callers :
          /\ approval'[d].request = approval[d].request
          /\ approval'[d].pc = "idle" <=> approval[d].pc = "idle"
    BY <2>1, <2>2, ApprovalEnds
  <2>5. CASE Interrupt(c)
    <3>1. /\ call[c].pc # "idle" /\ call'[c].pc # "idle"
          /\ call'[c].key = call[c].key
          /\ \A d \in Callers \ {c} : call'[d] = call[d]
      BY <2>5, ContinueFrame
    <3> QED BY <2>1, <2>3, <2>4, <3>1 DEF KeyOfRequest
  <2>6. CASE UNCHANGED vars
    <3>1. call' = call
      BY <2>6 DEF vars
    <3> QED BY <2>3, <2>4, <3>1 DEF KeyOfRequest
  <2> QED BY <1>5, <2>5, <2>6 DEF InterruptApproval
<1> QED BY <1>1, <1>2, <1>3, <1>4, <1>5

(* The remaining steps leave calls and approvals as they are.               *)
LEMMA OtherSteps ==
  ASSUME RequestInv, [RequestNext]_allVars,
         ~ \E c \in Callers :
             \/ \E r \in Requests : LoadForApproval(c, r)
             \/ Pay(c) \/ Conclude(c) \/ PassError(c) \/ InterruptApproval(c)
  PROVE  RequestTypeOK' /\ KeyOfRequest'
<1> USE DEF RequestInv
<1>1. CASE EngineStep
  <2>1. UNCHANGED <<call, requestVars>>
    BY <1>1 DEF EngineStep, Activate, ProbeNext, ReadTransfer, ContinueProbe,
                ReadLedger, ReadEvents, Reconcile, Reload, InterruptProbe
  <2> QED BY <2>1 DEF requestVars, RequestTypeOK, KeyOfRequest
<1>2. ASSUME NEW r \in Requests, Create(r) PROVE RequestTypeOK' /\ KeyOfRequest'
  BY <1>2 DEF Create, RequestTypeOK, KeyOfRequest, vars
<1>3. ASSUME NEW d \in Deciders, NEW r \in Requests, NEW w \in Verdict,
             LoadForDecision(d, r, w)
      PROVE  RequestTypeOK' /\ KeyOfRequest'
  <2>1. RequestTypeOK'
    BY <1>3 DEF LoadForDecision, RequestTypeOK, Decision, FreshDecision
  <2> QED BY <1>3, <2>1 DEF LoadForDecision, KeyOfRequest, vars
<1>4. ASSUME NEW d \in Deciders, Decide(d) PROVE RequestTypeOK' /\ KeyOfRequest'
  <2>1. RequestTypeOK'
    BY <1>4 DEF Decide, RequestTypeOK, Decision, FreshDecision, Verdict, Resolved
  <2> QED BY <1>4, <2>1 DEF Decide, KeyOfRequest, vars
<1>5. ASSUME NEW d \in Deciders, InterruptDecision(d)
      PROVE  RequestTypeOK' /\ KeyOfRequest'
  <2>1. decision[d].request \in Requests /\ decision[d].verdict \in Verdict
    BY <1>5 DEF InterruptDecision, RequestTypeOK, FreshDecision
  <2>2. decision' \in [Deciders -> Decision]
    <3> DEFINE new == [decision[d] EXCEPT !.pc = "done", !.reply = "LOST"]
    <3>1. new \in Decision
      BY DEF RequestTypeOK, Decision
    <3>2. decision' = [decision EXCEPT ![d] = new]
      BY <1>5 DEF InterruptDecision
    <3> HIDE DEF new
    <3> QED BY <3>1, <3>2 DEF RequestTypeOK
  <2>3. /\ decision'[d].request = decision[d].request
        /\ decision'[d].verdict = decision[d].verdict
        /\ \A e \in Deciders \ {d} : decision'[e] = decision[e]
    BY <1>5 DEF InterruptDecision, RequestTypeOK, Decision
  <2>4. UNCHANGED <<call, request, approval>>
    BY <1>5 DEF InterruptDecision, vars
  <2> QED BY <2>1, <2>2, <2>3, <2>4 DEF RequestTypeOK, KeyOfRequest
<1>6. CASE ExpireStale
  BY <1>6 DEF ExpireStale, RequestTypeOK, KeyOfRequest, vars, Resolved
<1>7. CASE UNCHANGED allVars
  BY <1>7 DEF allVars, vars, requestVars, RequestTypeOK, KeyOfRequest
<1> QED BY <1>1, <1>2, <1>3, <1>4, <1>5, <1>6, <1>7 DEF RequestNext

(* A decision that was told DECIDED is never overruled: whoever comes later *)
(* updates PENDING requests only.                                           *)
LEMMA DecisionsKept ==
  ASSUME RequestInv, [RequestNext]_allVars
  PROVE  DecisionStands'
<1> USE DEF RequestInv
<1>1. ASSUME UNCHANGED decision,
             \A r \in Requests : request[r] \in Resolved => request'[r] = request[r]
      PROVE  DecisionStands'
  BY <1>1 DEF DecisionStands, RequestTypeOK, Decision, FreshDecision, Verdict, Resolved
<1>2. CASE EngineStep \/ UNCHANGED allVars
  BY <1>1, <1>2 DEF EngineStep, requestVars, allVars
<1>3. ASSUME NEW r \in Requests, Create(r) PROVE DecisionStands'
  BY <1>1, <1>3 DEF Create, RequestTypeOK, Resolved
<1>4. ASSUME NEW c \in Callers,
             \/ \E r \in Requests : LoadForApproval(c, r)
             \/ Pay(c) \/ PassError(c) \/ InterruptApproval(c)
      PROVE  DecisionStands'
  <2>1. UNCHANGED <<request, decision>>
    BY <1>4 DEF LoadForApproval, Pay, PassError, InterruptApproval, requestVars
  <2> QED BY <1>1, <2>1
<1>5. ASSUME NEW c \in Callers, Conclude(c) PROVE DecisionStands'
  BY <1>1, <1>5 DEF Conclude, ApprovedFrom, RequestTypeOK, Resolved, Approval
<1>6. ASSUME NEW d \in Deciders, NEW r \in Requests, NEW w \in Verdict,
             LoadForDecision(d, r, w)
      PROVE  DecisionStands'
  BY <1>6 DEF LoadForDecision, DecisionStands, RequestTypeOK, Decision, FreshDecision
<1>7. ASSUME NEW d \in Deciders, Decide(d) PROVE DecisionStands'
  BY <1>7 DEF Decide, Decidable, DecisionStands, RequestTypeOK, Decision,
              FreshDecision, Verdict
<1>8. ASSUME NEW d \in Deciders, InterruptDecision(d) PROVE DecisionStands'
  BY <1>8 DEF InterruptDecision, DecisionStands, RequestTypeOK, Decision, FreshDecision
<1>9. CASE ExpireStale
  BY <1>1, <1>9 DEF ExpireStale, RequestTypeOK, Resolved
<1> QED
  BY <1>2, <1>3, <1>4, <1>5, <1>6, <1>7, <1>8, <1>9 DEF RequestNext

LEMMA RequestInvInductive ==
  ASSUME RequestInv, TypeOK, [RequestNext]_allVars
  PROVE  RequestInv'
BY ApprovalSteps, OtherSteps, DecisionsKept DEF RequestInv

-----------------------------------------------------------------------------
(* Theorems *)

(* The request layer keeps its invariant, and what it does to the engine is *)
(* a behaviour of the engine.                                               *)
LEMMA RequestSafety == RequestSpec => []RequestInv /\ Spec
<1>1. RequestInit => RequestInv /\ Init
  BY RequestInitInv DEF RequestInit
<1>2. Init => TypeOK
  BY InitType
<1>3. RequestInv /\ [RequestNext]_allVars => [Next]_vars
  BY RequestStepIsEngineStep DEF RequestInv
<1>4. RequestInv /\ TypeOK /\ [RequestNext]_allVars => RequestInv'
  BY RequestInvInductive
<1>5. TypeOK /\ [Next]_vars => TypeOK'
  BY NextType
<1> QED BY <1>1, <1>2, <1>3, <1>4, <1>5, PTL DEF RequestSpec, Spec

(* The request layer is type correct.                                       *)
THEOREM RequestTypeCorrect == RequestSpec => []RequestTypeOK
<1>1. RequestInv => RequestTypeOK
  BY DEF RequestInv
<1> QED BY <1>1, RequestSafety, PTL

(* What a rejecting or cancelling user was told stands for good.            *)
THEOREM DecisionsAreKept == RequestSpec => []DecisionStands
<1>1. RequestInv => DecisionStands
  BY DEF RequestInv
<1> QED BY <1>1, RequestSafety, PTL

(* However many approvals race, fail, die and are repeated, a request is    *)
(* paid at most once: its approvals share one key, which the engine debits  *)
(* at most once.                                                            *)
THEOREM RequestsPaidOnce == RequestSpec => []RequestPaidOnce
<1>1. ASSUME RequestInv, MovedAtMostOnce PROVE RequestPaidOnce
  <2> SUFFICES ASSUME Verifiers = {}, NEW r \in Requests,
                      NEW i \in PaymentsOf(r), NEW j \in PaymentsOf(r)
               PROVE  i = j
    BY DEF RequestPaidOnce
  <2>1. ApprovalKey[r] \in Keys
    BY ApprovalKeyAssumption
  <2>2. ASSUME NEW c \in Callers, approval[c].request = r, call[c].pc # "idle"
        PROVE  call[c].key = ApprovalKey[r]
    BY <1>1, <2>2 DEF RequestInv, KeyOfRequest
  <2>3. PaymentsOf(r) \subseteq Debits(ApprovalKey[r])
    BY <2>2 DEF PaymentsOf
  <2>4. AtMostOnce(ApprovalKey[r])
    BY <1>1, <2>1 DEF MovedAtMostOnce, Exclusive
  <2> QED BY <2>3, <2>4 DEF AtMostOnce
<1> QED BY <1>1, RequestSafety, ExactlyOnce, PTL

(* A resolved request is never updated again: every UPDATE asks for PENDING.*)
LEMMA ResolvedStays ==
  ASSUME RequestInv, [RequestNext]_allVars, NEW r \in Requests, request[r] \in Resolved
  PROVE  request'[r] = request[r]
<1> USE DEF RequestInv, RequestTypeOK, Resolved
<1>1. CASE UNCHANGED request
  BY <1>1
<1>2. ASSUME NEW q \in Requests, Create(q) PROVE request'[r] = request[r]
  BY <1>2 DEF Create
<1>3. ASSUME NEW c \in Callers, Conclude(c) PROVE request'[r] = request[r]
  BY <1>3 DEF Conclude, ApprovedFrom
<1>4. ASSUME NEW d \in Deciders, Decide(d) PROVE request'[r] = request[r]
  BY <1>4 DEF Decide, Decidable
<1>5. CASE ExpireStale
  BY <1>5 DEF ExpireStale
<1> QED
  BY <1>1, <1>2, <1>3, <1>4, <1>5
  DEF RequestNext, EngineStep, LoadForApproval, Pay, PassError, InterruptApproval,
      LoadForDecision, InterruptDecision, requestVars, allVars

(* A request leaves PENDING once, whoever races for it.                     *)
THEOREM ResolvedForGood == RequestSpec => ResolutionIsFinal
<1>1. RequestInv /\ [RequestNext]_allVars =>
        [\A r \in Requests : request[r] \in Resolved => request'[r] = request[r]]_request
  BY ResolvedStays
<1> QED BY <1>1, RequestSafety, PTL DEF RequestSpec, ResolutionIsFinal
-----------------------------------------------------------------------------
(* A step of the request layer that changes a call is a step of its         *)
(* approval; a call that has answered stays as it is.                       *)
LEMMA AnsweredCallStays ==
  ASSUME RequestInv, TypeOK, [RequestNext]_allVars, NEW c \in Callers, call[c].pc = "done"
  PROVE  call'[c] = call[c]
<1>1. [Next]_vars
  BY RequestStepIsEngineStep DEF RequestInv
<1>2. ASSUME NEW d \in Callers, CallNext(d) PROVE call'[c] = call[c]
  <2>1. call[d].pc # "done"
    BY <1>2 DEF CallNext, Continue, Lookup, Poll, ReplayFailure, Reset, LoseReset,
       CreateRow, LoseInsert, Initiate, MoveMoney, RejectMoney, AbortMoney, MarkFailed,
       LogFailed, Interrupt
  <2> QED BY <1>2, <2>1, CallFrame
<1>3. CASE ~ \E d \in Callers : CallNext(d)
  BY <1>1, <1>3 DEF Next, Activate, ProbeNext, ContinueProbe, ReadTransfer, ReadLedger,
     ReadEvents, Reconcile, Reload, InterruptProbe, vars
<1> QED BY <1>2, <1>3

(* What a request step does to the requests and the approvals.              *)
LEMMA RequestFrame ==
  ASSUME RequestInv, [RequestNext]_allVars
  PROVE  /\ \A c \in Callers : approval[c].pc # "idle" => approval'[c].request = approval[c].request
         /\ \A r \in Requests : request'[r] = "APPROVED" =>
              \/ request[r] = "APPROVED"
              \/ \E c \in Callers : Conclude(c) /\ approval[c].request = r
         /\ \A c \in Callers : approval'[c].pc = "paying" =>
              approval'[c] = approval[c] \/ request[approval'[c].request] = "PENDING"
<1> USE DEF RequestInv, RequestTypeOK, Approval
<1>1. CASE UNCHANGED <<request, approval>>
  BY <1>1
<1>2. ASSUME NEW r \in Requests, Create(r) PROVE approval' = approval /\ (\A q \in Requests : request'[q] = "APPROVED" => request[q] = "APPROVED")
  BY <1>2 DEF Create
<1>3. ASSUME NEW c \in Callers, NEW r \in Requests, LoadForApproval(c, r)
      PROVE  /\ request' = request /\ approval[c].pc = "idle"
             /\ \A d \in Callers \ {c} : approval'[d] = approval[d]
             /\ approval'[c].pc = "paying" => request[approval'[c].request] = "PENDING"
  BY <1>3 DEF LoadForApproval, Open
<1>4. ASSUME NEW c \in Callers, Conclude(c)
      PROVE  /\ \A r \in Requests \ {approval[c].request} : request'[r] = request[r]
             /\ \A d \in Callers \ {c} : approval'[d] = approval[d]
             /\ approval'[c].request = approval[c].request /\ approval'[c].pc = "done"
  BY <1>4 DEF Conclude
<1>5. ASSUME NEW c \in Callers, PassError(c) \/ InterruptApproval(c)
      PROVE  /\ request' = request
             /\ \A d \in Callers \ {c} : approval'[d] = approval[d]
             /\ approval'[c].request = approval[c].request /\ approval'[c].pc = "done"
  BY <1>5 DEF PassError, InterruptApproval
<1>6. ASSUME NEW d \in Deciders, Decide(d)
      PROVE  approval' = approval /\ (\A r \in Requests : request'[r] = "APPROVED" => request[r] = "APPROVED")
  BY <1>6 DEF Decide, Decidable, Decision, FreshDecision, Verdict
<1>7. CASE ExpireStale
  BY <1>7 DEF ExpireStale
<1> QED
  <2>1. CASE \E c \in Callers : Conclude(c)
    BY <1>4, <2>1
  <2>2. CASE \E c \in Callers, r \in Requests : LoadForApproval(c, r)
    BY <1>3, <2>2
  <2>3. CASE \E c \in Callers : PassError(c) \/ InterruptApproval(c)
    BY <1>5, <2>3
  <2>4. CASE (\E r \in Requests : Create(r)) \/ (\E d \in Deciders : Decide(d)) \/ ExpireStale
    BY <1>2, <1>6, <1>7, <2>4
  <2> QED BY <1>1, <2>1, <2>2, <2>3, <2>4 DEF RequestNext, EngineStep, Pay, LoadForDecision,
           InterruptDecision, requestVars, allVars

(* An APPROVED request stays paid or waited for.                            *)
LEMMA ApprovedKept ==
  ASSUME RequestInv, TypeOK, EngineInv, SuccessInv, ApprovedMeansPaid, [RequestNext]_allVars
  PROVE  ApprovedMeansPaid'
<1>1. [Next]_vars
  BY RequestStepIsEngineStep DEF RequestInv
<1> SUFFICES ASSUME NEW r \in Requests, request'[r] = "APPROVED"
             PROVE  \/ Moved(ApprovalKey[r])'
                    \/ \E c \in Callers : approval'[c].request = r /\ call'[c].answer = "IN_FLIGHT"
  BY DEF ApprovedMeansPaid
<1>2. ApprovalKey[r] \in Keys
  BY ApprovalKeyAssumption
<1>3. ASSUME Moved(ApprovalKey[r]) PROVE Moved(ApprovalKey[r])'
  BY <1>1, <1>2, <1>3, DebitsStay
<1>4. ASSUME NEW c \in Callers, approval[c].request = r, call[c].answer = "IN_FLIGHT"
      PROVE  approval'[c].request = r /\ call'[c].answer = "IN_FLIGHT"
  <2>1. call[c].pc = "done"
    BY <1>4 DEF SuccessInv
  <2>2. approval[c].pc # "idle"
    BY <2>1 DEF RequestInv, KeyOfRequest
  <2> QED BY <1>4, <2>1, <2>2, AnsweredCallStays, RequestFrame
<1>5. CASE request[r] = "APPROVED"
  BY <1>3, <1>4, <1>5 DEF ApprovedMeansPaid
<1>6. CASE request[r] # "APPROVED"
  <2>1. PICK c \in Callers : Conclude(c) /\ approval[c].request = r
    BY <1>6, RequestFrame
  <2>2. /\ call[c].pc = "done" /\ approval[c].pc = "paying"
        /\ call[c].answer = "COMPLETED" \/ call[c].answer = "IN_FLIGHT"
    BY <2>1 DEF Conclude, TakenAsPaid
  <2>3. call[c].key = ApprovalKey[r]
    BY <2>1, <2>2 DEF RequestInv, KeyOfRequest
  <2>4. call[c].answer = "COMPLETED" => Moved(ApprovalKey[r])
    BY <2>3 DEF SuccessInv, SuccessIsTrue, NoFalseSuccess
  <2> QED BY <1>3, <1>4, <2>1, <2>2, <2>4
<1> QED BY <1>5, <1>6

(* The status of a request is the truth for its decider and its payer.      *)
THEOREM RequestStatusIsTrue == RequestSpec => []StatusIsTrue
<1>1. RequestInit => ApprovedMeansPaid
  BY DEF RequestInit, ApprovedMeansPaid
<1>2. RequestInv /\ ApprovedMeansPaid => StatusIsTrue
  BY DEF RequestInv, StatusIsTrue
<1>3. RequestInv /\ TypeOK /\ EngineInv /\ SuccessInv /\ ApprovedMeansPaid /\ [RequestNext]_allVars
        => ApprovedMeansPaid'
  BY ApprovedKept
<1>4. Spec => [](TypeOK /\ EngineInv /\ SuccessInv)
  BY TypeCorrect, EngineInvInductive, SuccessInductive, PTL DEF Spec
<1> QED BY <1>1, <1>2, <1>3, <1>4, RequestSafety, PTL DEF RequestSpec

(* Whoever moves the money of a request is an approval of it under way.     *)
LEMMA OnlyApprovalsPay ==
  ASSUME RequestInv, TypeOK, [RequestNext]_allVars, NEW r \in Requests,
         \A c \in Callers : approval[c].request = r => approval[c].pc # "paying"
  PROVE  Debits(ApprovalKey[r])' = Debits(ApprovalKey[r])
<1>1. [Next]_vars
  BY RequestStepIsEngineStep DEF RequestInv
<1>2. CASE ledger' = ledger
  BY <1>2 DEF Debits, Positions
<1>3. ASSUME NEW c \in Callers, MoveMoney(c) PROVE Debits(ApprovalKey[r])' = Debits(ApprovalKey[r])
  <2>1. call[c].pc = "money" /\ call'[c] # call[c]
    <3>1. call[c].pc = "money"
      BY <1>3 DEF MoveMoney
    <3>2. call'[c].pc = "done"
      BY <1>3 DEF MoveMoney, Respond, TypeOK, CallTypeOK, Call
    <3>3. QED BY <3>1, <3>2
  <2>2. approval[c].pc = "paying"
    <3>1. CASE \E d \in Callers : Pay(d) \/ InterruptApproval(d)
      <4>1. PICK d \in Callers : Pay(d) \/ InterruptApproval(d)
        BY <3>1
      <4>2. approval[d].pc = "paying"
        BY <4>1 DEF Pay, InterruptApproval
      <4>3. \/ \E k \in Keys : Lookup(d, k)
            \/ Continue(d) \/ Interrupt(d) \/ UNCHANGED vars
        <5>1. approval[d].request \in Requests
          BY <4>2 DEF RequestInv, RequestTypeOK, FreshApproval
        <5>2. KeysFor(approval[d].request) \subseteq Keys
          BY <5>1, ApprovalKeyAssumption DEF KeysFor
        <5> QED BY <4>1, <5>2 DEF Pay, InterruptApproval
      <4>4. d = c
        <5>1. ~ UNCHANGED vars
          BY <2>1 DEF vars
        <5> QED BY <2>1, <4>3, <5>1, CallFrame DEF CallNext
      <4> QED BY <4>2, <4>4
    <3>2. CASE ~ \E d \in Callers : Pay(d) \/ InterruptApproval(d)
      <4>1. call' = call
        BY <3>2 DEF RequestNext, EngineStep, Activate, ProbeNext, ContinueProbe, ReadTransfer,
           ReadLedger, ReadEvents, Reconcile, Reload, InterruptProbe, Create, LoadForApproval,
           Conclude, PassError, LoadForDecision, Decide, InterruptDecision, ExpireStale, allVars, vars
      <4> QED BY <2>1, <4>1
    <3> QED BY <3>1, <3>2
  <2>3. call[c].key = ApprovalKey[approval[c].request] /\ approval[c].request \in Requests
    BY <2>1, <2>2 DEF RequestInv, KeyOfRequest, RequestTypeOK, FreshApproval
  <2>4. ApprovalKey[r] # call[c].key
    BY <2>2, <2>3, ApprovalKeyAssumption
  <2>5. ApprovalKey[r] \in Keys
    BY ApprovalKeyAssumption
  <2> QED BY <1>3, <2>4, <2>5, MoveDebits
<1> QED BY <1>1, <1>2, <1>3, LedgerOnlyMoves

(* A request that is resolved and has no approval under way stays so, and   *)
(* its money stays where it is.                                             *)
THEOREM ResolvedStaysUnpaid == RequestSpec => ResolvedRequestsStayUnpaid
<1>1. ASSUME RequestInv, TypeOK, [RequestNext]_allVars
      PROVE  [\A r \in Requests : Quiet(r) =>
                Quiet(r)' /\ Debits(ApprovalKey[r])' = Debits(ApprovalKey[r])]_allVars
  <2> SUFFICES ASSUME NEW r \in Requests, Quiet(r)
               PROVE  Quiet(r)' /\ Debits(ApprovalKey[r])' = Debits(ApprovalKey[r])
    OBVIOUS
  <2>1. request'[r] = request[r]
    BY <1>1, ResolvedStays DEF Quiet
  <2>2. ASSUME NEW c \in Callers, approval'[c].request = r PROVE approval'[c].pc # "paying"
    BY <1>1, <2>2, RequestFrame DEF Quiet, Resolved
  <2> QED BY <1>1, <2>1, <2>2, OnlyApprovalsPay DEF Quiet
<1> QED BY <1>1, RequestSafety, TypeCorrect, PTL DEF RequestSpec, ResolvedRequestsStayUnpaid

(* While nobody verifies, the calls approvals make are those of Payments.   *)
THEOREM RequestsImplementPayments ==
  ASSUME Verifiers = {}
  PROVE  RequestSpec => ImplementsPayments
BY RequestSafety, EngineImplementsPayments, PTL
===============================================================================
