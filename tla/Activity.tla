-------------------------------- MODULE Activity ------------------------------
(***************************************************************************)
(* What is read about everybody's transfers and requests while they go on: *)
(* checkInvariants at the start of the server and for /health/invariants,  *)
(* the pages of the activity feed, and the notifications of one user.      *)
(*                                                                         *)
(* Each of these puts together the results of several queries of the pool, *)
(* each of a moment of its own.  The writers are those of TransferEngine   *)
(* and MoneyRequests, one action for each of their transactions: an        *)
(* attempt completes a transfer by its id and a verifier fails it from     *)
(* what it once read, whatever its status is by then.                      *)
(*                                                                         *)
(* The definitions commented "slip" are plausible mistakes in the code.    *)
(***************************************************************************)
EXTENDS Integers, Sequences, FiniteSets, Functions

CONSTANTS
  People,    \* users and those who may still register
  Me,        \* who reads the feed and the summary
  Grant,     \* the INITIAL_FUNDING of an account
  PageSize,  \* limit of the feed
  Scenes     \* bound: what there is to begin with and what may happen

ASSUME ActivityAssumption == Me \in People /\ Grant \in Nat /\ PageSize \in Nat \ {0}

(* A scene begins with some users, and with transfers and requests between  *)
(* two of them; the numbers bound how often what is named may happen.       *)
ASSUME ScenesAssumption ==
  \A sc \in Scenes :
    /\ sc \in [registered : SUBSET People,
               items : Seq([kind : {"TRANSFER", "REQUEST"}, from : sc.registered,
                            to : sc.registered, amount : Nat,
                            status : {"PENDING", "COMPLETED", "FAILED"}, current : BOOLEAN,
                            running : Nat, done : Nat, denied : {FALSE}]),
               amounts : SUBSET Nat, kinds : SUBSET {"TRANSFER", "REQUEST"},
               asks : SUBSET {"investigate", "summary"},
               history : BOOLEAN, bell : BOOLEAN, party : BOOLEAN,
               registrations : Nat, creations : Nat, moves : Nat, checks : Nat, marks : Nat,
               posts : Nat, events : Nat, time : Nat]
    /\ IsFiniteSet(sc.registered)
    /\ \A i \in DOMAIN sc.items :
         /\ sc.items[i].from # sc.items[i].to
         /\ sc.items[i].status = "COMPLETED" => sc.items[i].done > 0

VARIABLES
  wallets,  \* balance of each user
  entries,  \* sum of the ledger entries of each user
  items,    \* transfers and requests in the order of created_at, with the
            \* attempts under way, how often the money has moved or the request
            \* was approved, and whether a verdict has denied money that moved
  notices,  \* the notifications of Me, and those still to be inserted
  server,   \* "starting", "listening" or "exited"
  check,    \* checkInvariants
  reader,   \* HistoryPage
  bell,     \* Layout: the notifications shown, and the loads under way
  scene     \* one of Scenes, less what has happened

worldVars == <<wallets, entries, items, notices>>
activityVars == <<worldVars, server, check, reader, bell, scene>>

Queries == {"wallets", "entries", "negative"}
NoCheck == [pc |-> "idle", todo |-> Queries, wallets |-> 0, entries |-> 0, negative |-> 0,
            since |-> {}, until |-> {}]
Loads == 1..2
NoLoad == [pc |-> "idle", todo |-> {"list", "count"}, list |-> <<>>, count |-> 0]
NoReader == [pc |-> "closed", page |-> 1, pages |-> 1, transfers |-> {}, seen |-> {}, owed |-> {}]

ActivityTypeOK ==
  /\ DOMAIN wallets \subseteq People /\ DOMAIN entries = DOMAIN wallets
  /\ \A u \in DOMAIN wallets : wallets[u] \in Nat
  /\ \A i \in DOMAIN items :
       /\ items[i].kind \in {"TRANSFER", "REQUEST"}
       /\ items[i].status \in {"PENDING", "COMPLETED", "FAILED"}
  /\ server \in {"starting", "listening", "exited"}
  /\ check.pc \in {"idle", "reading", "done"} /\ check.todo \subseteq Queries
  /\ reader.pc \in {"closed", "transfers", "requests", "shown"}
  /\ reader.seen \subseteq DOMAIN items /\ reader.page \in 1..(Len(items) + 1)
  /\ \A told \in notices.due : told.about \in DOMAIN items
  /\ \A n \in DOMAIN notices.rows : notices.rows[n].about \in DOMAIN items
  /\ \A i \in DOMAIN items : items[i].status = "COMPLETED" => items[i].done > 0
  /\ bell.unread \in 0..Len(notices.rows) /\ Len(bell.list) <= Len(notices.rows)

ActivityInit ==
  /\ scene \in Scenes
  /\ wallets = [u \in scene.registered |-> Grant] /\ entries = wallets
  /\ items = scene.items
  /\ server = "starting"
  /\ check = NoCheck /\ reader = NoReader
  /\ notices = [due |-> {}, rows |-> <<>>]
  /\ bell = [list |-> <<>>, unread |-> 0, load |-> [l \in Loads |-> NoLoad]]

Bounded(what) == scene[what] > 0 /\ scene' = [scene EXCEPT ![what] = @ - 1]

-------------------------------------------------------------------------------
(* The writers *)

(* A row is inserted, or replaces the one of its key.                       *)
With(rows, key, row) == [k \in DOMAIN rows \cup {key} |-> IF k = key THEN row ELSE rows[k]]

Granted(u) == With(entries, u, Grant)

(* register: the wallet and its INITIAL_FUNDING entry in one transaction.   *)
Register(u) ==
  /\ Bounded("registrations")
  /\ u \notin DOMAIN wallets
  /\ wallets' = With(wallets, u, Grant)
  /\ entries' = Granted(u)
  /\ UNCHANGED <<items, notices, server, check, reader, bell>>

(* What is to be told to u, if that is Me: the nth time that it happens.    *)
Told(u, i, what, nth) ==
  notices' = IF scene.bell /\ u = Me
             THEN [notices EXCEPT !.due = @ \cup {[about |-> i, what |-> what, nth |-> nth]}]
             ELSE notices

(* A transfer is inserted, PENDING, by the attempt that will pay it, or a   *)
(* request, of which the requestee is told.                                 *)
Create(kind, u, v) ==
  /\ Bounded("creations")
  /\ u # v
  /\ \E n \in scene.amounts :
       items' = Append(items, [kind |-> kind, from |-> u, to |-> v, amount |-> n,
                               status |-> "PENDING", current |-> TRUE,
                               running |-> IF kind = "TRANSFER" THEN 1 ELSE 0,
                               done |-> 0, denied |-> FALSE])
  /\ IF kind = "REQUEST" THEN Told(v, Len(items) + 1, "asked", 1) ELSE UNCHANGED notices
  /\ UNCHANGED <<wallets, entries, server, check, reader, bell>>

IsTransfer(i) == items[i].kind = "TRANSFER"
Moved(sums, i) == [sums EXCEPT ![items[i].from] = @ - items[i].amount,
                               ![items[i].to] = @ + items[i].amount]
Affordable(i) == wallets[items[i].from] >= items[i].amount

(* The money transaction of execute, whatever has become of the row; then   *)
(* the receiver is told, each time.                                         *)
Complete(i) ==
  /\ Bounded("moves")
  /\ IsTransfer(i) /\ items[i].running > 0
  /\ Affordable(i)
  /\ wallets' = Moved(wallets, i) /\ entries' = Moved(entries, i)
  /\ items' = [items EXCEPT ![i].status = "COMPLETED", ![i].running = @ - 1, ![i].done = @ + 1]
  /\ Told(items[i].to, i, "received", items[i].done + 1)
  /\ UNCHANGED <<server, check, reader, bell>>

Unpaid == UNCHANGED <<wallets, entries, notices, server, check, reader, bell>>

(* An attempt ends without moving money: a refusal fails the row if it is   *)
(* still PENDING, any other error leaves it.                                *)
Fail(i) ==
  /\ Bounded("moves")
  /\ IsTransfer(i) /\ items[i].running > 0
  /\ \E status \in {items[i].status} \cup (IF items[i].status = "PENDING" THEN {"FAILED"} ELSE {}) :
       items' = [items EXCEPT ![i].status = status, ![i].running = @ - 1]
  /\ Unpaid

(* verify has found no entries - when it looked, which may be long ago: no  *)
(* transfer has any at first - and fails the row, a COMPLETED one too.      *)
Deny(i) ==
  /\ Bounded("moves")
  /\ IsTransfer(i) /\ items[i].status # "FAILED"
  /\ items' = [items EXCEPT ![i].status = "FAILED", ![i].denied = @ \/ items[i].done > 0]
  /\ Unpaid

(* verify has found the entries of one payment, by now or a while ago.      *)
Confirm(i) ==
  /\ Bounded("moves")
  /\ IsTransfer(i) /\ items[i].status # "COMPLETED" /\ items[i].done > 0
  /\ items' = [items EXCEPT ![i].status = "COMPLETED"]
  /\ Unpaid

(* A FAILED transfer is tried again, by one attempt more.                   *)
Retry(i) ==
  /\ Bounded("moves")
  /\ IsTransfer(i) /\ items[i].status = "FAILED"
  /\ items' = [items EXCEPT ![i].status = "PENDING", ![i].running = @ + 1]
  /\ Unpaid

(* approve, which found the request PENDING some time ago, has its transfer *)
(* (an item of its own), done or in flight: whatever the request is by now, *)
(* the requester is told, by each call that gets here.                      *)
Approve(i) ==
  /\ Bounded("moves")
  /\ ~IsTransfer(i)
  /\ items' = [items EXCEPT ![i].status = IF @ = "PENDING" THEN "COMPLETED" ELSE @,
                            ![i].done = @ + 1]
  /\ Told(items[i].from, i, "approved", items[i].done + 1)
  /\ UNCHANGED <<wallets, entries, server, check, reader, bell>>

(* reject and expireStale tell the requester, cancel the requestee; only    *)
(* who has changed the row does.                                            *)
Close(i) ==
  /\ Bounded("moves")
  /\ ~IsTransfer(i) /\ items[i].status = "PENDING"
  /\ items' = [items EXCEPT ![i].status = "FAILED"]
  /\ \E u \in {items[i].from, items[i].to} : Told(u, i, "closed", 1)
  /\ UNCHANGED <<wallets, entries, server, check, reader, bell>>

-------------------------------------------------------------------------------
(* NotificationService, and the bell of Layout *)

(* emit is not awaited, and its error is swallowed; nor is it repeated when *)
(* the process dies.                                                        *)
Inserted(told) ==
  Append(notices.rows, [about |-> told.about, what |-> told.what, nth |-> told.nth, read |-> FALSE])
Emit(told) ==
  /\ told \in notices.due
  /\ \E rows \in {notices.rows, Inserted(told)} :
       notices' = [due |-> notices.due \ {told}, rows |-> rows]
  /\ UNCHANGED <<wallets, entries, items, server, check, reader, bell, scene>>

Unread(rows) == {n \in DOMAIN rows : ~rows[n].read}
Read(ns) == [n \in DOMAIN notices.rows |->
               IF n \in ns THEN [notices.rows[n] EXCEPT !.read = TRUE] ELSE notices.rows[n]]

(* markRead, and markAll of the page: all that is unread by now.            *)
Mark(ns) ==
  /\ Bounded("marks")
  /\ notices' = [notices EXCEPT !.rows = Read(ns)]
  /\ UNCHANGED <<wallets, entries, items, server, check, reader, bell>>

MarkRead == \E n \in DOMAIN bell.list : Mark({n})
MarkAllRead == Mark(Unread(notices.rows))

(* loadNotifs, every 15 seconds and after markAll: a list (of the newest    *)
(* 100, which no run reaches) and a count, by two queries; a load may       *)
(* overtake the one before.                                                 *)
BeginLoad(l) ==
  /\ server = "listening" /\ scene.bell
  /\ bell.load[l].pc = "idle"
  /\ bell' = [bell EXCEPT !.load[l] = [NoLoad EXCEPT !.pc = "reading"]]
  /\ UNCHANGED <<worldVars, server, check, reader, scene>>

UnreadCount(rows) == Cardinality(Unread(rows))

LoadRead(l, q) ==
  /\ bell.load[l].pc = "reading" /\ q \in bell.load[l].todo
  /\ bell' = [bell EXCEPT
       !.load[l].todo = @ \ {q},
       !.load[l].list = IF q = "list" THEN notices.rows ELSE @,
       !.load[l].count = IF q = "count" THEN UnreadCount(notices.rows) ELSE @]
  /\ UNCHANGED <<worldVars, server, check, reader, scene>>

EndLoad(l) ==
  /\ bell.load[l].pc = "reading" /\ bell.load[l].todo = {}
  /\ bell' = [list |-> bell.load[l].list, unread |-> bell.load[l].count,
               load |-> [bell.load EXCEPT ![l] = NoLoad]]
  /\ UNCHANGED <<worldVars, server, check, reader, scene>>

Load(l) == BeginLoad(l) \/ (\E q \in NoLoad.todo : LoadRead(l, q)) \/ EndLoad(l)

-------------------------------------------------------------------------------
(* checkInvariants: Promise.all of three queries *)

Total(sums) == SumFunction(sums)
InDebt == {u \in DOMAIN wallets : wallets[u] < 0}

BeginCheck ==
  /\ server # "exited" /\ check.pc = "idle"
  /\ Bounded("checks")
  /\ check' = [NoCheck EXCEPT !.pc = "reading", !.since = DOMAIN wallets]
  /\ UNCHANGED <<worldVars, server, reader, bell>>

CheckRead(q) ==
  LET left == check.todo \ {q} IN
  /\ check.pc = "reading" /\ q \in check.todo
  /\ check' = [check EXCEPT
       !.todo = left,
       !.wallets = IF q = "wallets" THEN Total(wallets) ELSE @,
       !.entries = IF q = "entries" THEN Total(entries) ELSE @,
       !.negative = IF q = "negative" THEN Cardinality(InDebt) ELSE @,
       !.pc = IF left = {} THEN "done" ELSE @,
       !.until = DOMAIN wallets]
  /\ UNCHANGED <<worldVars, server, reader, bell, scene>>

Healthy == check.wallets = check.entries /\ check.negative = 0

(* main goes on to listen or exits; /health/invariants answers 200 or 500.  *)
EndCheck ==
  /\ check.pc = "done"
  /\ server' = IF server # "starting" THEN server
                ELSE IF Healthy THEN "listening" ELSE "exited"
  /\ check' = NoCheck
  /\ UNCHANGED <<worldVars, reader, bell, scene>>

-------------------------------------------------------------------------------
(* HistoryService.feed and the page around it *)

Mine(kind) == {i \in DOMAIN items :
  /\ items[i].kind = kind /\ kind \in scene.kinds
  /\ Me \in {items[i].from, items[i].to}}

(* load: the page asks again for every page it turns to.                    *)
OpenPage(page) ==
  reader' = [reader EXCEPT !.pc = "transfers", !.page = page]

OpenHistory ==
  /\ server = "listening" /\ scene.history /\ reader.pc = "closed"
  /\ reader' = [NoReader EXCEPT !.pc = "transfers",
                                !.owed = Mine("TRANSFER") \cup Mine("REQUEST")]
  /\ UNCHANGED <<worldVars, server, check, bell, scene>>

LoadTransfers ==
  /\ reader.pc = "transfers"
  /\ reader' = [reader EXCEPT !.pc = "requests", !.transfers = Mine("TRANSFER")]
  /\ UNCHANGED <<worldVars, server, check, bell, scene>>

(* created_at DESC: the newest is the first.                                *)
PlaceIn(feed, i) == Cardinality({j \in feed : j >= i})
PagesOf(n) == IF n = 0 THEN 1 ELSE (n + PageSize - 1) \div PageSize
Slice(feed, page) ==
  {i \in feed : (page - 1) * PageSize < PlaceIn(feed, i) /\ PlaceIn(feed, i) <= page * PageSize}

(* The second query, the merged and sorted page, and its display.           *)
LoadRequests ==
  LET feed == reader.transfers \cup Mine("REQUEST") IN
  /\ reader.pc = "requests"
  /\ reader' = [reader EXCEPT !.pc = "shown", !.transfers = {},
                              !.pages = PagesOf(Cardinality(feed)),
                              !.seen = @ \cup Slice(feed, reader.page)]
  /\ UNCHANGED <<worldVars, server, check, bell, scene>>

Turn(page) ==
  /\ reader.pc = "shown"
  /\ page \in 1..reader.pages
  /\ OpenPage(page)
  /\ UNCHANGED <<worldVars, server, check, bell, scene>>
NextPage == reader.page < reader.pages /\ Turn(reader.page + 1)
PrevPage == reader.page > 1 /\ Turn(reader.page - 1)

-------------------------------------------------------------------------------
ActivityNext ==
  \/ \E u \in People : Register(u)
  \/ \E kind \in {"TRANSFER", "REQUEST"}, u, v \in DOMAIN wallets : Create(kind, u, v)
  \/ \E i \in DOMAIN items : Complete(i) \/ Fail(i) \/ Deny(i) \/ Confirm(i) \/ Retry(i)
                             \/ Approve(i) \/ Close(i)
  \/ BeginCheck \/ (\E q \in Queries : CheckRead(q)) \/ EndCheck
  \/ (\E told \in notices.due : Emit(told)) \/ MarkRead \/ MarkAllRead \/ (\E l \in Loads : Load(l))
  \/ OpenHistory \/ LoadTransfers \/ LoadRequests \/ NextPage \/ PrevPage

-------------------------------------------------------------------------------
(* "Any drift means money was created or destroyed" -- or that somebody     *)
(* registered between the queries; transfers, however they interleave with  *)
(* them, raise no alarm and do not keep a server from starting.             *)
AlarmsHaveCause == check.pc = "done" /\ ~Healthy => check.since # check.until

(* Who turns the pages to the last one has seen everything there was at the *)
(* start, whatever is added meanwhile.                                      *)
PagingMissesNothing ==
  reader.pc = "shown" /\ reader.page >= reader.pages => reader.owed \subseteq reader.seen

(* "the transaction is already durable by the time we get here": nobody is  *)
(* told of money more often than it has come, although a transfer may be    *)
(* paid twice; nor twice of being asked, nor of a request closed that is    *)
(* open or approved, or closed twice.  (Of an approval every call of        *)
(* approve tells.)                                                          *)
Tidings == {"received", "asked", "approved", "closed"}
Telling(i, what) ==
  {n \in DOMAIN notices.rows : notices.rows[n].about = i /\ notices.rows[n].what = what}
Times(i, what) ==
  CASE what = "received" -> IF IsTransfer(i) /\ items[i].to = Me THEN items[i].done ELSE 0
    [] what = "asked" -> IF ~IsTransfer(i) /\ items[i].to = Me THEN 1 ELSE 0
    [] what = "approved" -> IF ~IsTransfer(i) /\ items[i].from = Me THEN items[i].done ELSE 0
    [] what = "closed" -> IF ~IsTransfer(i) /\ Me \in {items[i].from, items[i].to}
                             /\ items[i].status = "FAILED" THEN 1 ELSE 0

NoticesAreTrue ==
  \A i \in DOMAIN items, what \in Tidings : Cardinality(Telling(i, what)) <= Times(i, what)

(* Liveness *)

(* Once nothing more happens the bell shows what there is, and the badge    *)
(* counts what is not read, although its two queries are not of one moment  *)
(* and the answers of two loads may come in any order.                      *)
BellCatchesUp ==
  <>[](server = "listening" /\ scene.bell =>
         bell.list = notices.rows /\ bell.unread = Cardinality(Unread(notices.rows)))
===============================================================================
