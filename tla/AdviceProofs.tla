----------------------------- MODULE AdviceProofs -----------------------------
(***************************************************************************)
(* What holds of reports, feeds, notices and advice, for any number of     *)
(* users, of transfers and requests, of pages and of askers.               *)
(*                                                                         *)
(* Most of it rests on one fact about the writers (Grows): users and rows  *)
(* only come, money that has moved has moved for good, and a row that is   *)
(* COMPLETED stays so unless a late verdict denies it.  A report put       *)
(* together from several queries is then judged by what its first query    *)
(* found (CheckInv, ReaderInv, FiguresInv).  The advice depends on the     *)
(* rows that its facts name and on nothing that changes (InputSame), and   *)
(* the limiter is about two windows in a row (LimiterInv).                 *)
(***************************************************************************)
EXTENDS Advice, SumProofs

-------------------------------------------------------------------------------
(* The invariant *)

ItemRow ==
  [kind : {"TRANSFER", "REQUEST"}, from : People, to : People, amount : Nat,
   status : {"PENDING", "COMPLETED", "FAILED"}, current : BOOLEAN,
   running : Nat, done : Nat, denied : BOOLEAN]
Items == Seq(ItemRow)
SceneRow ==
  [registered : SUBSET People,
   items : Items,
   amounts : SUBSET Nat, kinds : SUBSET {"TRANSFER", "REQUEST"},
   asks : SUBSET {"investigate", "summary"},
   history : BOOLEAN, bell : BOOLEAN, party : BOOLEAN,
   registrations : Nat, creations : Nat, moves : Nat, checks : Nat, marks : Nat,
   posts : Nat, events : Nat, time : Nat]

(* The users there are have wallets, each with as much as its ledger, and   *)
(* all of it was granted.                                                   *)
Users == DOMAIN wallets
WorldInv ==
  /\ scene \in SceneRow
  /\ Users \subseteq People /\ IsFiniteSet(Users)
  /\ wallets \in [Users -> Nat] /\ entries \in [Users -> Int]
  /\ items \in Seq(ItemRow)
  /\ \A i \in DOMAIN items :
       /\ items[i].from \in Users /\ items[i].to \in Users /\ items[i].from # items[i].to
       /\ items[i].status = "COMPLETED" => items[i].done > 0
  /\ server \in {"starting", "listening", "exited"}
  /\ Total(wallets) = Grant * Cardinality(Users) /\ Total(entries) = Grant * Cardinality(Users)

(* As long as nobody has registered since a check began, what it has read   *)
(* is what was granted to those who were there.                             *)
GrantedThen == Grant * Cardinality(check.since)
SoFar ==
  /\ "wallets" \notin check.todo => check.wallets = GrantedThen
  /\ "entries" \notin check.todo => check.entries = GrantedThen
CheckRow ==
  [pc : {"idle", "reading", "done"}, todo : SUBSET Queries,
   wallets : Nat, entries : Nat, negative : Nat, since : SUBSET People, until : SUBSET People]
CheckInv ==
  /\ check \in CheckRow
  /\ check.negative = 0
  /\ check.pc # "idle" => check.since \subseteq Users
  /\ check.pc = "reading" /\ check.since = Users => SoFar
  /\ check.pc = "done" => check.todo = {} /\ (check.since = check.until => SoFar)

(* What the reader is owed and has not seen comes after the pages that were *)
(* read, in the feed of now or of the query under way.                      *)
Feed == Mine("TRANSFER") \cup Mine("REQUEST")
Asked == reader.transfers \cup Mine("REQUEST")
Unseen == reader.owed \ reader.seen
After(unseen, feed, place) ==
  \A i \in unseen : i \in feed /\ PlaceIn(feed, i) > place * PageSize
ReaderRow ==
  [pc : {"closed", "transfers", "requests", "shown"}, page : Nat, pages : Nat,
   transfers : SUBSET Nat, seen : SUBSET Nat, owed : SUBSET Nat]
ReaderInv ==
  /\ reader \in ReaderRow
  /\ reader.seen \subseteq DOMAIN items
  /\ 1 <= reader.page /\ reader.page <= Len(items) + 1
  /\ 1 <= reader.pages /\ reader.pages <= Len(items) + 1
  /\ reader.transfers \subseteq Mine("TRANSFER")
  /\ reader.pc = "transfers" => After(Unseen, Feed, reader.page - 1)
  /\ reader.pc = "requests" => After(Unseen, Asked, reader.page - 1)
  /\ reader.pc = "shown" => After(Unseen, Feed, reader.page)
  /\ reader.pc = "shown" /\ reader.page >= reader.pages => Unseen = {}

(* What is to be told to Me, and what was, is one of the times it happened, *)
(* and each of them is told once.                                           *)
Tiding == [about : Nat, what : Tidings, nth : Nat]
Notice == [about : Nat, what : Tidings, nth : Nat, read : BOOLEAN]
Right(told) == told.about \in DOMAIN items /\ told.nth \in 1..Times(told.about, told.what)
Same(told, row) == told.about = row.about /\ told.what = row.what /\ told.nth = row.nth
NoticesInv ==
  /\ notices \in [due : SUBSET Tiding, rows : Seq(Notice)]
  /\ \A told \in notices.due : Right(told)
  /\ \A n \in DOMAIN notices.rows :
       /\ Right(notices.rows[n])
       /\ \A told \in notices.due : ~Same(told, notices.rows[n])
       /\ \A m \in DOMAIN notices.rows : Same(notices.rows[m], notices.rows[n]) => m = n

(* What a bell shows or a load has read is no more than there is.           *)
LoadRow ==
  [pc : {"idle", "reading"}, todo : SUBSET {"list", "count"}, list : Seq(Notice), count : Nat]
BellInv ==
  /\ bell \in [list : Seq(Notice), unread : Nat, load : [Loads -> LoadRow]]
  /\ Len(bell.list) <= Len(notices.rows) /\ bell.unread <= Len(notices.rows)
  /\ \A l \in Loads :
       /\ Len(bell.load[l].list) <= Len(notices.rows)
       /\ bell.load[l].count <= Len(notices.rows)

-------------------------------------------------------------------------------
(* The invariant of the AI routes *)

(* The window that is open began with the first of the last `count`         *)
(* requests; all but the last of those before it fell within one window,    *)
(* which was over when this one began.                                      *)
Opened == bucket.resetAt - Window
Before == Len(admitted) - bucket.count
LimiterInv ==
  /\ clock \in Nat
  /\ bucket \in [count : Nat, resetAt : Int] /\ admitted \in Seq(Nat)
  /\ bucket.count <= MaxRequests /\ bucket.count <= Len(admitted)
  /\ bucket = NoBucket \/ (bucket.count > 0 /\ bucket.resetAt \in Nat /\ Opened \in Nat)
  /\ bucket = NoBucket => admitted = <<>>
  /\ \A j \in DOMAIN admitted :
       /\ admitted[j] <= clock /\ admitted[j] <= bucket.resetAt
       /\ j <= Before => admitted[j] < Opened
       /\ j = Before + 1 => admitted[j] = Opened
       /\ j > Before => Opened <= admitted[j]
       /\ j <= Before - MaxRequests + 1 => admitted[j] + Window < Opened
  /\ BurstsAreBounded

QueryFields == DOMAIN NoQuery
Cached(key) ==
  /\ key[1] \in Kinds
  /\ cache[key].insight.source \in {"ai", "fallback"}
  /\ cache[key].insight.about = key[2]
  /\ key[1] = "investigate" => cache[key].insight.status = MoneyStatusFor(key[2].outcome)
  /\ cache[key].made \in Nat /\ cache[key].made <= clock
  /\ cache[key].expires = cache[key].made + Ttl(cache[key].insight.source)
CacheInv == \A key \in DOMAIN cache : Cached(key)

(* What the model is told, with what it depends on: the amounts of rows.    *)
WorthIn(ids, rows) == SumFunction([i \in ids |-> rows[i].amount])
InputFrom(kind, facts, rows) ==
  IF kind = "investigate" THEN facts
  ELSE LET sent == WorthIn(facts.sent, rows)
           previous == WorthIn(facts.previous, rows)
           received == WorthIn(facts.received, rows) IN
       [sent |-> sent, received |-> received, net |-> received - sent,
        categories |-> facts.sentRows,
        comparison |->
          IF sent + previous > 0 THEN <<previous, ChangePct(sent, previous)>> ELSE <<>>,
        counts |-> <<Cardinality(facts.sentCount), Cardinality(facts.receivedCount)>>]

(* An insight fits the facts of the request it is given to.                 *)
Fits(q) ==
  /\ q.insight.about = InputFrom(q.kind, q.facts, items)
  /\ q.kind = "investigate" => q.insight.status = MoneyStatusFor(q.facts.outcome)
StepInv(q) ==
  /\ q.pc \in {"idle", "verify", "reload", "read", "lookup", "ask", "write", "over"}
  /\ q.kind \in Kinds
  /\ q.pc \in {"verify", "reload"} => q.kind = "investigate"
  /\ q.pc = "read" => q.kind = "summary"
  /\ q.pc \notin {"write", "over"} => q.insight = NoInsight
  /\ q.pc = "write" => q.insight.source # "none"
  /\ q.insight.source # "none" =>
       q.insight.source \in {"ai", "fallback"} /\ Fits(q) /\ q.pc # "idle"
  /\ q.pc # "over" => q.age = -1
  /\ q.insight.source = "fallback" => q.age < FallbackTtl

(* Each figure read so far counts only what has moved, and all that was     *)
(* completed at the beginning, unless it was denied since.                  *)
FigureInv(q, f) ==
  /\ q.facts[f] \subseteq Concerned(f, q.to)
  /\ \A i \in q.facts[f] : items[i].done > 0
  /\ f \notin q.todo =>
       \A i \in q.before \cap Concerned(f, q.to) : i \in q.facts[f] \/ items[i].denied
StillCounts(i) == items[i].status = "COMPLETED" \/ items[i].denied
FiguresInv(q) ==
  q.kind = "summary" /\ q.pc # "idle" =>
    /\ q.to \in Nat /\ q.to <= Len(items)
    /\ DOMAIN q.facts = Figures
    /\ q.todo \subseteq Figures /\ (q.pc # "read" => q.todo = {})
    /\ \A i \in q.before : i \in DOMAIN items /\ StillCounts(i)
    /\ \A f \in Figures : FigureInv(q, f)

QueryInv ==
  /\ DOMAIN query = Askers
  /\ \A a \in Askers :
       /\ DOMAIN query[a] = QueryFields
       /\ query[a].pc = "ask" <=> ask[a].pc # "idle"
       /\ StepInv(query[a]) /\ FiguresInv(query[a])
TransferInv ==
  /\ truth \in {"NOT_SENT", "DELIVERED", "INDETERMINATE"}
  /\ timeline \in Seq({"MOVED", "VERIFIED"})

ActivityInv == WorldInv /\ CheckInv /\ ReaderInv /\ NoticesInv /\ BellInv
AdviceInv == ActivityInv /\ LimiterInv /\ AiTypeOK /\ TransferInv /\ CacheInv /\ QueryInv

-------------------------------------------------------------------------------
(* The world only grows *)

Counters == {"registrations", "creations", "moves", "checks", "marks", "posts"}

(* What happens is counted, and nothing else of a scene changes.            *)
SameScene ==
  /\ scene'.amounts = scene.amounts /\ scene'.kinds = scene.kinds
LEMMA SceneKept ==
  ASSUME scene \in SceneRow, NEW what \in Counters, Bounded(what)
  PROVE  scene' \in SceneRow /\ SameScene
<1>1. scene' = [scene EXCEPT ![what] = scene[what] - 1] /\ scene[what] > 0
  BY DEF Bounded
<1>2. CASE what = "registrations"
  BY <1>1, <1>2 DEF SceneRow, SameScene
<1>3. CASE what = "creations"
  BY <1>1, <1>3 DEF SceneRow, SameScene
<1>4. CASE what = "moves"
  BY <1>1, <1>4 DEF SceneRow, SameScene
<1>5. CASE what = "checks"
  BY <1>1, <1>5 DEF SceneRow, SameScene
<1>6. CASE what = "marks"
  BY <1>1, <1>6 DEF SceneRow, SameScene
<1>7. CASE what = "posts"
  BY <1>1, <1>7 DEF SceneRow, SameScene
<1> QED BY <1>2, <1>3, <1>4, <1>5, <1>6, <1>7 DEF Counters

(* What may become of a row.                                                *)
Becomes(old, new) ==
  /\ new.kind = old.kind /\ new.current = old.current
  /\ new.from = old.from /\ new.to = old.to /\ new.amount = old.amount
  /\ new.done \in Nat /\ old.done <= new.done
  /\ old.denied => new.denied
  /\ old.status = "COMPLETED" => new.status = "COMPLETED" \/ new.denied
  /\ old.kind # "TRANSFER" /\ old.status = "FAILED" => new.status = "FAILED"
Grows ==
  /\ \A i \in DOMAIN items : i \in DOMAIN items' /\ Becomes(items[i], items'[i])
  /\ Len(items) <= Len(items')
  /\ scene'.kinds = scene.kinds
  /\ Users \subseteq Users'

(* The totals, as sums over the users.                                      *)
LEMMA TotalIs ==
  ASSUME NEW sums
  PROVE  Total(sums) = SumOf(sums, DOMAIN sums)
BY SumFunctionIs DEF Total

(* A grant raises the total by itself.                                      *)
LEMMA TotalGranted ==
  ASSUME NEW sums, NEW u, u \notin DOMAIN sums, IsFiniteSet(DOMAIN sums),
         \A v \in DOMAIN sums : sums[v] \in Int,
         NEW more, more = With(sums, u, Grant)
  PROVE  Total(more) = Total(sums) + Grant
<1>1. /\ DOMAIN more = DOMAIN sums \cup {u} /\ more[u] = Grant
      /\ \A v \in DOMAIN sums : more[v] = sums[v]
  BY DEF With
<1>2. Grant \in Int
  BY ActivityAssumption
<1>3. SumOf(more, DOMAIN sums \cup {u}) = Grant + SumOf(more, DOMAIN sums)
  BY <1>1, <1>2, SumWith
<1>4. SumOf(more, DOMAIN sums) = SumOf(sums, DOMAIN sums)
  BY <1>1, SumEqual
<1>5. SumOf(sums, DOMAIN sums) \in Int
  BY SumType
<1>6. Total(more) = Total(sums) + Grant
  BY <1>1, <1>2, <1>3, <1>4, <1>5, TotalIs
<1> QED BY <1>6

(* What a row is.                                                          *)
LEMMA ItemIs ==
  ASSUME WorldInv, NEW i \in DOMAIN items
  PROVE  /\ items[i] \in ItemRow /\ items[i].kind \in {"TRANSFER", "REQUEST"}
         /\ items[i].status \in {"PENDING", "COMPLETED", "FAILED"} /\ items[i].amount \in Nat
         /\ items[i].from \in Users /\ items[i].to \in Users /\ items[i].from # items[i].to
         /\ items[i].running \in Nat /\ items[i].done \in Nat
         /\ items[i].status = "COMPLETED" => items[i].done > 0
         /\ Becomes(items[i], items[i])
<1>1. items[i] \in ItemRow
  BY DEF WorldInv
<1>2. /\ items[i].from \in Users /\ items[i].to \in Users /\ items[i].from # items[i].to
      /\ items[i].status = "COMPLETED" => items[i].done > 0
  BY DEF WorldInv
<1>3. items[i].done \in Nat /\ items[i].running \in Nat
  BY <1>1 DEF ItemRow
<1>4. Becomes(items[i], items[i])
  BY <1>3 DEF Becomes
<1> QED BY <1>1, <1>2, <1>3, <1>4 DEF ItemRow

(* A transfer changes no total.                                             *)
LEMMA TotalMoved ==
  ASSUME WorldInv, NEW i \in DOMAIN items, NEW sums \in [Users -> Int]
  PROVE  Total(Moved(sums, i)) = Total(sums) /\ Moved(sums, i) \in [Users -> Int]
<1> DEFINE a == items[i].from
           b == items[i].to
           n == items[i].amount
           moved == Moved(sums, i)
<1>1. a \in Users /\ b \in Users /\ a # b /\ n \in Int /\ IsFiniteSet(Users)
  BY ItemIs DEF WorldInv
<1>2. /\ moved \in [Users -> Int] /\ moved[a] = sums[a] - n /\ moved[b] = sums[b] + n
      /\ \A x \in Users \ {a, b} : moved[x] = sums[x]
  BY <1>1 DEF Moved
<1> HIDE DEF moved, a, b, n
<1>3. Shifts(moved, sums, Users, a, b, n)
  BY <1>1, <1>2 DEF Shifts
<1>4. SumOf(moved, Users) = SumOf(sums, Users)
  BY <1>1, <1>3, SumShift
<1> QED BY <1>2, <1>4, TotalIs DEF moved

(* One row changes.                                                         *)
LEMMA RowKept ==
  ASSUME WorldInv, NEW i \in DOMAIN items, NEW row \in ItemRow, Becomes(items[i], row),
         row.status = "COMPLETED" => row.done > 0,
         items' = [items EXCEPT ![i] = row], Users' = Users
  PROVE  /\ items' \in Seq(ItemRow)
         /\ \A j \in DOMAIN items' :
              /\ items'[j].from \in Users /\ items'[j].to \in Users
              /\ items'[j].from # items'[j].to
              /\ items'[j].status = "COMPLETED" => items'[j].done > 0
         /\ scene'.kinds = scene.kinds => Grows
<1>1. items \in Seq(ItemRow) /\ Len(items) \in Nat
  BY DEF WorldInv
<1>2. items' \in Seq(ItemRow) /\ Len(items') = Len(items) /\ DOMAIN items' = DOMAIN items
  BY <1>1
<1>3. items'[i] = row /\ \A j \in DOMAIN items : j # i => items'[j] = items[j]
  BY <1>1
<1>4. \A j \in DOMAIN items : Becomes(items[j], items'[j])
  BY <1>3, ItemIs
<1>5. \A j \in DOMAIN items :
        /\ items'[j].from = items[j].from /\ items'[j].to = items[j].to
        /\ items'[j].status = "COMPLETED" => items'[j].done > 0
  BY <1>3, <1>4, ItemIs DEF Becomes
<1>6. \A j \in DOMAIN items' :
        /\ items'[j].from \in Users /\ items'[j].to \in Users
        /\ items'[j].from # items'[j].to
        /\ items'[j].status = "COMPLETED" => items'[j].done > 0
  BY <1>2, <1>5, ItemIs
<1> QED BY <1>1, <1>2, <1>4, <1>6 DEF Grows

LEMMA WorldKept ==
  ASSUME WorldInv, UNCHANGED <<wallets, entries, items>>, scene' \in SceneRow,
         scene'.kinds = scene.kinds, server' \in {"starting", "listening", "exited"}
  PROVE  WorldInv' /\ Grows
<1>1. WorldInv'
  BY DEF WorldInv, Users, Total
<1>2. Len(items) \in Nat
  BY DEF WorldInv
<1>3. \A i \in DOMAIN items : Becomes(items[i], items[i])
  BY ItemIs
<1> QED BY <1>1, <1>2, <1>3 DEF Grows, Users

LEMMA RegisterWorld ==
  ASSUME WorldInv, NEW u \in People, Register(u)
  PROVE  WorldInv' /\ Grows
<1>1. scene' \in SceneRow /\ SameScene
  BY SceneKept DEF WorldInv, Register, Counters
<1>2. u \notin Users /\ wallets' = With(wallets, u, Grant) /\ entries' = With(entries, u, Grant)
  BY DEF Register, Granted, Users
<1>13. /\ DOMAIN wallets = Users /\ DOMAIN entries = Users /\ IsFiniteSet(Users)
      /\ \A v \in Users : wallets[v] \in Int /\ entries[v] \in Int
  BY DEF WorldInv, Users
<1>3. /\ Total(wallets') = Total(wallets) + Grant /\ Users' = Users \cup {u}
      /\ wallets'[u] = Grant /\ \A v \in Users : wallets'[v] = wallets[v]
  <2>1. /\ u \notin DOMAIN wallets /\ IsFiniteSet(DOMAIN wallets)
        /\ \A v \in DOMAIN wallets : wallets[v] \in Int
    BY <1>2, <1>13
  <2>2. wallets' = With(wallets, u, Grant)
    BY <1>2
  <2>3. Total(wallets') = Total(wallets) + Grant
    BY <2>1, <2>2, TotalGranted, Zenon
  <2>4. DOMAIN wallets' = DOMAIN wallets \cup {u} /\ wallets'[u] = Grant
    BY <2>2 DEF With
  <2>5. \A v \in DOMAIN wallets : wallets'[v] = wallets[v]
    BY <2>1, <2>2 DEF With
  <2> QED BY <1>13, <2>3, <2>4, <2>5 DEF Users
<1>4. /\ Total(entries') = Total(entries) + Grant /\ DOMAIN entries' = Users \cup {u}
      /\ entries'[u] = Grant /\ \A v \in Users : entries'[v] = entries[v]
  <2>1. /\ u \notin DOMAIN entries /\ IsFiniteSet(DOMAIN entries)
        /\ \A v \in DOMAIN entries : entries[v] \in Int
    BY <1>2, <1>13
  <2>2. entries' = With(entries, u, Grant)
    BY <1>2
  <2>3. Total(entries') = Total(entries) + Grant
    BY <2>1, <2>2, TotalGranted, Zenon
  <2>4. DOMAIN entries' = DOMAIN entries \cup {u} /\ entries'[u] = Grant
    BY <2>2 DEF With
  <2>5. \A v \in DOMAIN entries : entries'[v] = entries[v]
    BY <2>1, <2>2 DEF With
  <2> QED BY <1>13, <2>3, <2>4, <2>5 DEF Users
<1>5. wallets' = [v \in Users' |-> wallets'[v]] /\ entries' = [v \in Users' |-> entries'[v]]
  <2>1. wallets' = [v \in DOMAIN wallets' |-> wallets'[v]]
    BY <1>2 DEF With
  <2>2. entries' = [v \in DOMAIN entries' |-> entries'[v]]
    BY <1>2 DEF With
  <2> QED BY <1>3, <1>4, <2>1, <2>2 DEF Users
<1>6. wallets' \in [Users' -> Nat] /\ entries' \in [Users' -> Int]
  <2>1. \A v \in Users' : wallets'[v] \in Nat /\ entries'[v] \in Int
    BY <1>3, <1>4, ActivityAssumption DEF WorldInv
  <2> QED BY <1>5, <2>1
<1>7. IsFiniteSet(Users') /\ Cardinality(Users') = Cardinality(Users) + 1
  BY <1>2, <1>3, FS_AddElement DEF WorldInv
<1>8. Cardinality(Users) \in Nat
  BY FS_CardinalityType DEF WorldInv
<1>9. Grant * (Cardinality(Users) + 1) = Grant * Cardinality(Users) + Grant
  BY <1>8, ActivityAssumption
<1>10. items' = items /\ server' = server
  BY DEF Register
<1>11. WorldInv'
  BY <1>1, <1>3, <1>4, <1>6, <1>7, <1>9, <1>10 DEF WorldInv
<1>12. Len(items) \in Nat /\ \A i \in DOMAIN items : Becomes(items[i], items[i])
  BY ItemIs DEF WorldInv
<1> QED BY <1>1, <1>3, <1>10, <1>11, <1>12 DEF Grows, SameScene

LEMMA CreateWorld ==
  ASSUME WorldInv, NEW kind \in {"TRANSFER", "REQUEST"}, NEW u \in Users, NEW v \in Users,
         Create(kind, u, v)
  PROVE  WorldInv' /\ Grows
<1>1. scene' \in SceneRow /\ SameScene
  BY SceneKept DEF WorldInv, Create, Counters
<1> DEFINE Item(n) == [kind |-> kind, from |-> u, to |-> v, amount |-> n,
                       status |-> "PENDING", current |-> TRUE,
                       running |-> IF kind = "TRANSFER" THEN 1 ELSE 0, done |-> 0, denied |-> FALSE]
<1>2. PICK n \in scene.amounts : items' = Append(items, Item(n))
  BY DEF Create
<1> DEFINE item == Item(n)
<1>3. /\ item \in ItemRow /\ item.from = u /\ item.to = v /\ u # v
      /\ item.status # "COMPLETED"
  BY DEF WorldInv, SceneRow, ItemRow, Create
<1>4. items' = Append(items, item)
  BY <1>2
<1> HIDE DEF item
<1>5. items \in Seq(ItemRow)
  BY DEF WorldInv
<1>6. /\ items' \in Seq(ItemRow) /\ Len(items') = Len(items) + 1 /\ Len(items) \in Nat
      /\ \A i \in DOMAIN items : i \in DOMAIN items' /\ items'[i] = items[i]
      /\ items'[Len(items) + 1] = item
      /\ DOMAIN items' = DOMAIN items \cup {Len(items) + 1}
  BY <1>3, <1>4, <1>5
<1>7. wallets' = wallets /\ entries' = entries /\ server' = server
  BY DEF Create
<1>8. WorldInv'
  BY <1>1, <1>3, <1>6, <1>7 DEF WorldInv, Users, Total
<1>9. \A i \in DOMAIN items : Becomes(items[i], items'[i])
  BY <1>6, ItemIs
<1> QED BY <1>1, <1>6, <1>7, <1>8, <1>9 DEF Grows, SameScene, Users

(* What each step makes of a row.                                           *)
Moves(i) == Complete(i) \/ Fail(i) \/ Deny(i) \/ Confirm(i) \/ Retry(i) \/ Approve(i) \/ Close(i)
RowStep(i, row) ==
  /\ row \in ItemRow /\ Becomes(items[i], row)
  /\ row.status = "COMPLETED" => row.done > 0
  /\ items' = [items EXCEPT ![i] = row]
(* A row with other values, and what it is to it.                           *)
RowWith(old, status, running, done, denied) ==
  [kind |-> old.kind, from |-> old.from, to |-> old.to, amount |-> old.amount, status |-> status,
   current |-> old.current, running |-> running, done |-> done, denied |-> denied]
LEMMA RowWithIs ==
  ASSUME NEW old \in ItemRow, NEW row, NEW status \in {"PENDING", "COMPLETED", "FAILED"},
         NEW running \in Nat, NEW done \in Nat, NEW denied \in BOOLEAN,
         row = RowWith(old, status, running, done, denied),
         old.done <= done, old.denied => denied,
         old.status = "COMPLETED" => status = "COMPLETED" \/ denied,
         old.kind # "TRANSFER" /\ old.status = "FAILED" => status = "FAILED",
         status = "COMPLETED" => done > 0
  PROVE  row \in ItemRow /\ Becomes(old, row) /\ (row.status = "COMPLETED" => row.done > 0)
<1>1. row \in ItemRow
  BY DEF ItemRow, RowWith
<1>2. Becomes(old, row)
  BY DEF RowWith, Becomes
<1> QED BY <1>1, <1>2 DEF RowWith

LEMMA RowSteps ==
  ASSUME WorldInv, NEW i \in DOMAIN items, Moves(i)
  PROVE  \E row : RowStep(i, row)
<1>1. PICK old : old = items[i]
  OBVIOUS
<1>2. /\ old \in ItemRow /\ old.running \in Nat /\ old.done \in Nat
      /\ old.status = "COMPLETED" => old.done > 0
      /\ old.status \in {"PENDING", "COMPLETED", "FAILED"} /\ old.denied \in BOOLEAN
  BY <1>1, ItemIs DEF ItemRow
<1>3. items \in Seq(ItemRow)
  BY DEF WorldInv
<1>4. CASE Complete(i)
  <2>1. PICK row : row = [old EXCEPT !.status = "COMPLETED", !.running = old.running - 1,
                                     !.done = old.done + 1]
    OBVIOUS
  <2>2. items' = [items EXCEPT ![i] = row] /\ old.running > 0 /\ old.kind = "TRANSFER"
    BY <1>1, <1>2, <1>3, <1>4, <2>1 DEF Complete, IsTransfer, ItemRow
  <2>3. row = RowWith(old, "COMPLETED", old.running - 1, old.done + 1, old.denied)
    BY <1>2, <2>1 DEF RowWith, ItemRow
  <2>4. /\ old.running - 1 \in Nat /\ old.done + 1 \in Nat /\ old.done <= old.done + 1
        /\ old.done + 1 > 0
    BY <1>2, <2>2
  <2>5. row \in ItemRow /\ Becomes(old, row) /\ (row.status = "COMPLETED" => row.done > 0)
    BY <1>2, <2>2, <2>3, <2>4, RowWithIs
  <2> QED BY <1>1, <2>2, <2>5 DEF RowStep
<1>5. CASE Fail(i)
  <2>1. PICK status : /\ status = old.status \/ (old.status = "PENDING" /\ status = "FAILED")
                      /\ items' = [items EXCEPT ![i].status = status, ![i].running = @ - 1]
    BY <1>1, <1>5 DEF Fail
  <2>2. PICK row : row = [old EXCEPT !.status = status, !.running = old.running - 1]
    OBVIOUS
  <2>3. items' = [items EXCEPT ![i] = row] /\ old.running > 0 /\ old.kind = "TRANSFER"
    BY <1>1, <1>2, <1>3, <1>5, <2>1, <2>2 DEF Fail, IsTransfer, ItemRow
  <2>4. row = RowWith(old, status, old.running - 1, old.done, old.denied)
    BY <1>2, <2>2 DEF RowWith, ItemRow
  <2>5. /\ old.running - 1 \in Nat /\ old.done \in Nat /\ old.done <= old.done
        /\ status = "COMPLETED" => old.done > 0
        /\ old.kind # "TRANSFER" /\ old.status = "FAILED" => status = "FAILED"
    BY <1>2, <2>1, <2>3
  <2>6. row \in ItemRow /\ Becomes(old, row) /\ (row.status = "COMPLETED" => row.done > 0)
    BY <1>2, <2>1, <2>3, <2>4, <2>5, RowWithIs
  <2> QED BY <1>1, <2>3, <2>6 DEF RowStep
<1>6. CASE Deny(i)
  <2>1. PICK denied \in BOOLEAN : denied = (old.denied \/ old.done > 0)
    BY <1>2
  <2>2. PICK row : row = [old EXCEPT !.status = "FAILED", !.denied = denied]
    OBVIOUS
  <2>3. items' = [items EXCEPT ![i] = row] /\ old.kind = "TRANSFER"
    BY <1>1, <1>2, <1>3, <1>6, <2>1, <2>2 DEF Deny, IsTransfer, ItemRow
  <2>4. row = RowWith(old, "FAILED", old.running, old.done, denied)
    BY <1>2, <2>2 DEF RowWith, ItemRow
  <2>5. old.running \in Nat /\ old.done \in Nat /\ old.done <= old.done
    BY <1>2, <2>1, <2>3
  <2>6. row \in ItemRow /\ Becomes(old, row) /\ (row.status = "COMPLETED" => row.done > 0)
    BY <1>2, <2>1, <2>3, <2>4, <2>5, RowWithIs
  <2> QED BY <1>1, <2>3, <2>6 DEF RowStep
<1>7. CASE Confirm(i)
  <2>1. PICK row : row = [old EXCEPT !.status = "COMPLETED"]
    OBVIOUS
  <2>2. items' = [items EXCEPT ![i] = row] /\ old.done > 0 /\ old.kind = "TRANSFER"
    BY <1>1, <1>2, <1>3, <1>7, <2>1 DEF Confirm, IsTransfer, ItemRow
  <2>3. row = RowWith(old, "COMPLETED", old.running, old.done, old.denied)
    BY <1>2, <2>1 DEF RowWith, ItemRow
  <2>4. /\ old.running \in Nat /\ old.done \in Nat /\ old.done <= old.done
        /\ old.done > 0
    BY <1>2, <2>2
  <2>5. row \in ItemRow /\ Becomes(old, row) /\ (row.status = "COMPLETED" => row.done > 0)
    BY <1>2, <2>2, <2>3, <2>4, RowWithIs
  <2> QED BY <1>1, <2>2, <2>5 DEF RowStep
<1>8. CASE Retry(i)
  <2>1. PICK row : row = [old EXCEPT !.status = "PENDING", !.running = old.running + 1]
    OBVIOUS
  <2>2. items' = [items EXCEPT ![i] = row] /\ old.status = "FAILED" /\ old.kind = "TRANSFER"
    BY <1>1, <1>2, <1>3, <1>8, <2>1 DEF Retry, IsTransfer, ItemRow
  <2>3. row = RowWith(old, "PENDING", old.running + 1, old.done, old.denied)
    BY <1>2, <2>1 DEF RowWith, ItemRow
  <2>4. old.running + 1 \in Nat /\ old.done \in Nat /\ old.done <= old.done
    BY <1>2, <2>2
  <2>5. row \in ItemRow /\ Becomes(old, row) /\ (row.status = "COMPLETED" => row.done > 0)
    BY <1>2, <2>2, <2>3, <2>4, RowWithIs
  <2> QED BY <1>1, <2>2, <2>5 DEF RowStep
<1>9. CASE Approve(i)
  <2>1. PICK status : status = IF old.status = "PENDING" THEN "COMPLETED" ELSE old.status
    OBVIOUS
  <2>2. PICK row : row = [old EXCEPT !.status = status, !.done = old.done + 1]
    OBVIOUS
  <2>3. items' = [items EXCEPT ![i] = row]
    BY <1>1, <1>2, <1>3, <1>9, <2>1, <2>2 DEF Approve, ItemRow
  <2>4. row = RowWith(old, status, old.running, old.done + 1, old.denied)
    BY <1>2, <2>2 DEF RowWith, ItemRow
  <2>5. /\ old.running \in Nat /\ old.done + 1 \in Nat /\ old.done <= old.done + 1
        /\ status = "COMPLETED" => old.done + 1 > 0
        /\ old.kind # "TRANSFER" /\ old.status = "FAILED" => status = "FAILED"
    BY <1>2, <2>1, <2>3
  <2>6. row \in ItemRow /\ Becomes(old, row) /\ (row.status = "COMPLETED" => row.done > 0)
    BY <1>2, <2>1, <2>3, <2>4, <2>5, RowWithIs
  <2> QED BY <1>1, <2>3, <2>6 DEF RowStep
<1>10. CASE Close(i)
  <2>1. PICK row : row = [old EXCEPT !.status = "FAILED"]
    OBVIOUS
  <2>2. items' = [items EXCEPT ![i] = row] /\ old.status = "PENDING"
    BY <1>1, <1>2, <1>3, <1>10, <2>1 DEF Close, ItemRow
  <2>3. row = RowWith(old, "FAILED", old.running, old.done, old.denied)
    BY <1>2, <2>1 DEF RowWith, ItemRow
  <2>4. old.running \in Nat /\ old.done \in Nat /\ old.done <= old.done
    BY <1>2, <2>2
  <2>5. row \in ItemRow /\ Becomes(old, row) /\ (row.status = "COMPLETED" => row.done > 0)
    BY <1>2, <2>2, <2>3, <2>4, RowWithIs
  <2> QED BY <1>1, <2>2, <2>5 DEF RowStep
<1> QED BY <1>4, <1>5, <1>6, <1>7, <1>8, <1>9, <1>10 DEF Moves

LEMMA MovesWorld ==
  ASSUME WorldInv, NEW i \in DOMAIN items, Moves(i)
  PROVE  WorldInv' /\ Grows
<1>1. scene' \in SceneRow /\ SameScene
  BY SceneKept DEF WorldInv, Moves, Complete, Fail, Deny, Confirm, Retry, Approve, Close, Counters
<1>2. server' = server
  BY DEF Moves, Complete, Fail, Deny, Confirm, Retry, Approve, Close, Unpaid
<1>3. wallets \in [Users -> Int] /\ entries \in [Users -> Int] /\ wallets \in [Users -> Nat]
  BY DEF WorldInv
<1>4. /\ Total(wallets') = Total(wallets) /\ wallets' \in [Users -> Nat]
      /\ Total(entries') = Total(entries) /\ entries' \in [Users -> Int]
  <2>1. CASE Complete(i)
    <3>1. /\ wallets' = Moved(wallets, i) /\ entries' = Moved(entries, i)
          /\ wallets[items[i].from] >= items[i].amount
      BY <2>1 DEF Complete, Affordable
    <3>2. /\ Total(wallets') = Total(wallets) /\ wallets' \in [Users -> Int]
          /\ Total(entries') = Total(entries) /\ entries' \in [Users -> Int]
      BY <1>3, <3>1, TotalMoved
    <3>3. \A v \in Users : wallets'[v] \in Nat
      <4>1. items[i].from \in Users /\ items[i].to \in Users /\ items[i].amount \in Nat
        BY ItemIs
      <4> QED BY <1>3, <3>1, <4>1 DEF Moved
    <3> QED BY <3>2, <3>3
  <2>2. CASE ~Complete(i)
    <3>1. wallets' = wallets /\ entries' = entries
      BY <2>2 DEF Moves, Fail, Deny, Confirm, Retry, Approve, Close, Unpaid
    <3> QED BY <1>3, <3>1
  <2> QED BY <2>1, <2>2
<1>5. Users' = Users
  BY <1>4 DEF Users
<1>6. PICK row : RowStep(i, row)
  BY RowSteps
<1>7. /\ items' \in Seq(ItemRow)
      /\ \A j \in DOMAIN items' :
           /\ items'[j].from \in Users /\ items'[j].to \in Users
           /\ items'[j].from # items'[j].to
           /\ items'[j].status = "COMPLETED" => items'[j].done > 0
      /\ Grows
  BY <1>1, <1>5, <1>6, RowKept DEF SameScene, RowStep
<1>8. WorldInv'
  BY <1>1, <1>2, <1>4, <1>5, <1>7 DEF WorldInv
<1> QED BY <1>7, <1>8

(* The steps that leave reports, feeds and notices alone but are counted.   *)
Quiet ==
  /\ UNCHANGED <<worldVars, server, check, reader, bell>>
  /\ scene' \in SceneRow /\ scene'.kinds = scene.kinds
AnyStep == ActivityNext \/ Quiet

LEMMA WorldNext ==
  ASSUME WorldInv, AnyStep
  PROVE  WorldInv' /\ Grows
<1>1. ASSUME NEW u \in People, Register(u)
      PROVE  WorldInv' /\ Grows
  BY <1>1, RegisterWorld
<1>2. ASSUME NEW kind \in {"TRANSFER", "REQUEST"}, NEW u \in DOMAIN wallets,
             NEW v \in DOMAIN wallets, Create(kind, u, v)
      PROVE  WorldInv' /\ Grows
  <2>1. u \in Users /\ v \in Users
    BY DEF Users
  <2> QED BY <1>2, <2>1, CreateWorld
<1>3. ASSUME NEW i \in DOMAIN items, Moves(i)
      PROVE  WorldInv' /\ Grows
  BY <1>3, MovesWorld
<1>4. scene \in SceneRow /\ server \in {"starting", "listening", "exited"}
  BY DEF WorldInv
<1>5. CASE BeginCheck
  <2>1. scene' \in SceneRow /\ SameScene
    BY <1>4, <1>5, SceneKept DEF BeginCheck, Counters
  <2> QED BY <1>4, <1>5, <2>1, WorldKept DEF BeginCheck, SameScene, worldVars
<1>6. CASE \E q \in Queries : CheckRead(q)
  <2>1. UNCHANGED <<wallets, entries, items, server, scene>>
    BY <1>6 DEF CheckRead, worldVars
  <2> QED BY <1>4, <2>1, WorldKept
<1>7. CASE EndCheck
  <2>1. UNCHANGED <<wallets, entries, items, scene>>
    BY <1>7 DEF EndCheck, worldVars
  <2>2. server' \in {"starting", "listening", "exited"}
    BY <1>4, <1>7 DEF EndCheck
  <2> QED BY <1>4, <2>1, <2>2, WorldKept
<1>8. CASE (\E told \in notices.due : Emit(told)) \/ (\E l \in Loads : Load(l))
  <2>1. UNCHANGED <<wallets, entries, items, server, scene>>
    BY <1>8 DEF Emit, Load, BeginLoad, LoadRead, EndLoad, worldVars
  <2> QED BY <1>4, <2>1, WorldKept
<1>9. ASSUME NEW ns, Mark(ns)
      PROVE  WorldInv' /\ Grows
  <2>1. scene' \in SceneRow /\ SameScene
    BY <1>4, <1>9, SceneKept DEF Mark, Counters
  <2> QED BY <1>4, <1>9, <2>1, WorldKept DEF Mark, SameScene
<1>10. CASE MarkRead \/ MarkAllRead
  BY <1>9, <1>10 DEF MarkRead, MarkAllRead
<1>11. CASE OpenHistory \/ LoadTransfers \/ LoadRequests \/ NextPage \/ PrevPage
  <2>1. UNCHANGED <<wallets, entries, items, server, scene>>
    BY <1>11 DEF OpenHistory, LoadTransfers, LoadRequests, NextPage, PrevPage, Turn, worldVars
  <2> QED BY <1>4, <2>1, WorldKept
<1>12. CASE Quiet
  BY <1>4, <1>12, WorldKept DEF Quiet, worldVars
<1> QED
  BY <1>1, <1>2, <1>3, <1>5, <1>6, <1>7, <1>8, <1>10, <1>11, <1>12
  DEF AnyStep, ActivityNext, Moves

-------------------------------------------------------------------------------
(* The check of the invariants *)

LEMMA CheckKept ==
  ASSUME CheckInv, Grows, UNCHANGED check, Users' \subseteq People
  PROVE  CheckInv'
<1>1. Users \subseteq Users'
  BY DEF Grows
<1>2. SoFar' <=> SoFar
  BY DEF SoFar, GrantedThen
<1>3. check.pc # "idle" /\ check.since = Users' => check.since = Users
  BY <1>1 DEF CheckInv
<1> QED BY <1>1, <1>2, <1>3 DEF CheckInv

(* Nobody is in debt, so the check finds as much in the ledger as there is, *)
(* if both are of the time when it began.                                   *)
LEMMA CheckReadKeeps ==
  ASSUME WorldInv, CheckInv, NEW q \in Queries, CheckRead(q)
  PROVE  CheckInv'
<1> DEFINE left == check.todo \ {q}
<1>1. check \in CheckRow /\ check.pc = "reading" /\ check.since \subseteq Users
  BY DEF CheckInv, CheckRead
<1>2. Users' = Users /\ Users \subseteq People
  BY DEF CheckRead, worldVars, Users, WorldInv
<1>3. InDebt = {}
  BY DEF InDebt, WorldInv, Users
<1>4. Cardinality(InDebt) = 0
  BY <1>3, FS_EmptySet
<1>5. check' = [check EXCEPT
       !.todo = left,
       !.wallets = IF q = "wallets" THEN Total(wallets) ELSE @,
       !.entries = IF q = "entries" THEN Total(entries) ELSE @,
       !.negative = IF q = "negative" THEN 0 ELSE @,
       !.pc = IF left = {} THEN "done" ELSE @,
       !.until = Users]
  BY <1>4 DEF CheckRead, Users
<1>6. /\ Total(wallets) = Grant * Cardinality(Users)
      /\ Total(entries) = Grant * Cardinality(Users)
      /\ Grant * Cardinality(Users) \in Nat
  BY FS_CardinalityType, ActivityAssumption DEF WorldInv
<1>7. check' \in CheckRow
  BY <1>1, <1>2, <1>5, <1>6 DEF CheckRow
<1>8. check'.negative = 0
  BY <1>1, <1>5 DEF CheckRow, CheckInv
<1>9. /\ check'.since = check.since /\ check'.todo = left /\ check'.until = Users
      /\ check'.pc = IF left = {} THEN "done" ELSE "reading"
  BY <1>1, <1>5 DEF CheckRow
<1>10. check.since = Users => SoFar'
  <2>1. /\ check'.wallets = IF q = "wallets" THEN Total(wallets) ELSE check.wallets
        /\ check'.entries = IF q = "entries" THEN Total(entries) ELSE check.entries
    BY <1>1, <1>5 DEF CheckRow
  <2>2. check.since = Users => SoFar
    BY <1>1 DEF CheckInv
  <2> QED BY <1>6, <1>9, <2>1, <2>2 DEF SoFar, GrantedThen
<1> QED BY <1>1, <1>2, <1>7, <1>8, <1>9, <1>10 DEF CheckInv

LEMMA CheckNext ==
  ASSUME WorldInv, CheckInv, AnyStep
  PROVE  CheckInv'
<1>1. WorldInv' /\ Grows
  BY WorldNext
<1>2. Users \subseteq People /\ Users' \subseteq People
  BY <1>1 DEF WorldInv
<1>3. CASE UNCHANGED check
  BY <1>1, <1>2, <1>3, CheckKept
<1>4. CASE BeginCheck
  <2>1. check' = [NoCheck EXCEPT !.pc = "reading", !.since = Users] /\ Users' = Users
    BY <1>4 DEF BeginCheck, worldVars, Users
  <2> QED BY <1>2, <2>1 DEF CheckInv, CheckRow, NoCheck, SoFar, Queries
<1>5. CASE \E q \in Queries : CheckRead(q)
  BY <1>5, CheckReadKeeps
<1>6. CASE EndCheck
  BY <1>6 DEF EndCheck, CheckInv, CheckRow, NoCheck
<1>7. CASE \E u \in People : Register(u)
  BY <1>3, <1>7 DEF Register
<1>8. CASE \E kind \in {"TRANSFER", "REQUEST"}, u, v \in DOMAIN wallets : Create(kind, u, v)
  BY <1>3, <1>8 DEF Create
<1>9. CASE \E i \in DOMAIN items : Moves(i)
  BY <1>3, <1>9 DEF Moves, Complete, Fail, Deny, Confirm, Retry, Approve, Close, Unpaid
<1>10. CASE \/ \E told \in notices.due : Emit(told)
            \/ MarkRead \/ MarkAllRead \/ \E l \in Loads : Load(l)
  BY <1>3, <1>10 DEF Emit, MarkRead, MarkAllRead, Mark, Load, BeginLoad, LoadRead, EndLoad
<1>11. CASE OpenHistory \/ LoadTransfers \/ LoadRequests \/ NextPage \/ PrevPage
  BY <1>3, <1>11 DEF OpenHistory, LoadTransfers, LoadRequests, NextPage, PrevPage, Turn
<1>12. CASE Quiet
  BY <1>3, <1>12 DEF Quiet
<1> QED
  BY <1>4, <1>5, <1>6, <1>7, <1>8, <1>9, <1>10, <1>11, <1>12 DEF AnyStep, ActivityNext, Moves

LEMMA ChecksAreRight ==
  ASSUME CheckInv
  PROVE  AlarmsHaveCause
BY DEF CheckInv, SoFar, AlarmsHaveCause, Healthy

-------------------------------------------------------------------------------
(* The feed *)

(* What is in a feed of rows is finite, and more rows are further down.     *)
LEMMA FeedFinite ==
  ASSUME NEW n \in Nat, NEW feed \in SUBSET (1..n)
  PROVE  IsFiniteSet(feed) /\ Cardinality(feed) \in Nat /\ Cardinality(feed) <= n
<1>1. IsFiniteSet(1..n) /\ Cardinality(1..n) = n
  BY FS_Interval
<1> QED BY <1>1, FS_Subset, FS_CardinalityType

LEMMA PlaceIs ==
  ASSUME NEW n \in Nat, NEW feed \in SUBSET (1..n), NEW i
  PROVE  /\ PlaceIn(feed, i) \in Nat /\ PlaceIn(feed, i) <= Cardinality(feed)
         /\ i \in feed => PlaceIn(feed, i) > 0
<1> DEFINE above == {j \in feed : j >= i}
<1>1. IsFiniteSet(feed) /\ above \subseteq feed
  BY FeedFinite
<1>2. IsFiniteSet(above) /\ Cardinality(above) \in Nat /\ Cardinality(above) <= Cardinality(feed)
  BY <1>1, FS_Subset, FS_CardinalityType
<1>3. ASSUME i \in feed
      PROVE  Cardinality(above) # 0
  <2>1. i \in above
    BY <1>3
  <2> QED BY <1>2, <2>1, FS_EmptySet
<1>4. PlaceIn(feed, i) = Cardinality(above)
  BY DEF PlaceIn
<1> QED BY <1>2, <1>3, <1>4

LEMMA PlaceGrows ==
  ASSUME NEW n \in Nat, NEW more \in SUBSET (1..n), NEW feed \in SUBSET more, NEW i
  PROVE  PlaceIn(feed, i) <= PlaceIn(more, i)
<1> DEFINE some == {j \in feed : j >= i}
           all == {j \in more : j >= i}
<1>1. IsFiniteSet(all)
  <2>1. IsFiniteSet(more) /\ all \subseteq more
    BY FeedFinite
  <2> QED BY <2>1, FS_Subset
<1>2. some \subseteq all
  OBVIOUS
<1>3. Cardinality(some) <= Cardinality(all)
  BY <1>1, <1>2, FS_Subset
<1> QED BY <1>3 DEF PlaceIn

(* The pages are enough for n rows, and not more than rows.                 *)
LEMMA PagesAreEnough ==
  ASSUME NEW n \in Nat
  PROVE  /\ PagesOf(n) \in Nat /\ 1 <= PagesOf(n) /\ PagesOf(n) <= n + 1
         /\ n <= PagesOf(n) * PageSize
<1> DEFINE p == PageSize
           d == (n + p - 1) \div p
<1>1. p \in Nat /\ p > 0
  BY ActivityAssumption
<1>2. CASE n = 0
  <2>1. PagesOf(n) = 1
    BY <1>2 DEF PagesOf
  <2> QED BY <1>1, <1>2, <2>1
<1>3. CASE n > 0
  <2>1. PagesOf(n) = d /\ n + p - 1 \in Nat
    BY <1>1, <1>3 DEF PagesOf
  <2>2. d \in Int /\ p * d <= n + p - 1 /\ n + p - 1 < p * d + p
    BY <1>1, <2>1
  <2> HIDE DEF d, p
  <2>3. n <= p * d
    <3>1. p * d \in Int
      BY <1>1, <2>2
    <3> QED BY <1>1, <2>2, <3>1
  <2>4. d >= 1
    <3>1. CASE d <= 0
      <4>1. p * d <= 0 /\ p * d \in Int
        BY <1>1, <2>2, <3>1
      <4> QED BY <1>3, <2>3, <4>1
    <3> QED BY <2>2, <3>1
  <2>5. d <= n
    <3>1. CASE d >= n + 1
      <4>1. p * d >= p * (n + 1)
        BY <1>1, <2>2, <3>1
      <4>2. p * (n + 1) = p * n + p /\ p * n \in Int
        BY <1>1
      <4>3. p * n >= n
        BY <1>1
      <4> QED BY <1>1, <2>2, <4>1, <4>2, <4>3
    <3> QED BY <2>2, <3>1
  <2>6. d * p = p * d
    BY <1>1, <2>2
  <2> QED BY <2>1, <2>2, <2>3, <2>4, <2>5, <2>6 DEF p
<1> QED BY <1>2, <1>3

LEMMA MineGrows ==
  ASSUME Grows, NEW kind
  PROVE  Mine(kind) \subseteq Mine(kind)'
BY DEF Grows, Becomes, Mine

LEMMA FeedBounds ==
  ASSUME WorldInv
  PROVE  /\ Len(items) \in Nat /\ DOMAIN items = 1..Len(items) /\ Feed \subseteq DOMAIN items
         /\ Mine("TRANSFER") \subseteq DOMAIN items /\ Mine("REQUEST") \subseteq DOMAIN items
<1>1. items \in Seq(ItemRow)
  BY DEF WorldInv
<1> QED BY <1>1 DEF Feed, Mine

(* What comes after some pages does so in a longer feed ...                 *)
LEMMA AfterMore ==
  ASSUME NEW n \in Nat, NEW feed, NEW more, feed \subseteq more, more \subseteq 1..n,
         NEW unseen, NEW place \in Int, After(unseen, feed, place)
  PROVE  After(unseen, more, place)
<1> SUFFICES ASSUME NEW i \in unseen
             PROVE  i \in more /\ PlaceIn(more, i) > place * PageSize
  BY DEF After
<1>1. PlaceIn(feed, i) <= PlaceIn(more, i)
  BY PlaceGrows
<1>2. i \in feed /\ PlaceIn(feed, i) > place * PageSize
  BY DEF After
<1>3. PlaceIn(feed, i) \in Nat /\ PlaceIn(more, i) \in Nat
  BY PlaceIs
<1>4. place * PageSize \in Int
  BY ActivityAssumption
<1> QED BY <1>1, <1>2, <1>3, <1>4

(* ... and after fewer pages.                                               *)
LEMMA AfterFewer ==
  ASSUME NEW n \in Nat, NEW feed, feed \subseteq 1..n, NEW unseen,
         NEW place \in Int, NEW before \in Int, before <= place, After(unseen, feed, place)
  PROVE  After(unseen, feed, before)
<1> SUFFICES ASSUME NEW i \in unseen
             PROVE  i \in feed /\ PlaceIn(feed, i) > before * PageSize
  BY DEF After
<1>1. i \in feed /\ PlaceIn(feed, i) > place * PageSize /\ PlaceIn(feed, i) \in Nat
  BY PlaceIs DEF After
<1>2. PageSize \in Nat
  BY ActivityAssumption
<1>3. /\ before * PageSize \in Int /\ place * PageSize \in Int
      /\ before * PageSize <= place * PageSize
  BY <1>2
<1> QED BY <1>1, <1>3

LEMMA ReaderKept ==
  ASSUME WorldInv, WorldInv', Grows, ReaderInv, UNCHANGED reader
  PROVE  ReaderInv'
<1>1. Mine("TRANSFER") \subseteq Mine("TRANSFER")' /\ Mine("REQUEST") \subseteq Mine("REQUEST")'
  BY MineGrows
<1>2. /\ Feed \subseteq Feed' /\ Asked \subseteq Asked' /\ Unseen' = Unseen
  BY <1>1 DEF Feed, Asked, Unseen
<1>3. /\ Len(items) \in Nat /\ Len(items') \in Nat /\ Len(items) <= Len(items')
      /\ DOMAIN items = 1..Len(items) /\ DOMAIN items' = 1..Len(items')
  BY FeedBounds DEF WorldInv, Grows
<1>4. Feed' \in SUBSET (1..Len(items')) /\ Asked' \in SUBSET (1..Len(items'))
  <2>1. Mine("TRANSFER")' \subseteq DOMAIN items' /\ Mine("REQUEST")' \subseteq DOMAIN items'
    BY DEF Mine
  <2>2. reader.transfers \subseteq Mine("TRANSFER")
    BY DEF ReaderInv
  <2> QED BY <1>1, <1>3, <2>1, <2>2 DEF Feed, Asked
<1>5. reader.page \in Int /\ reader.page - 1 \in Int
  BY DEF ReaderInv, ReaderRow
<1>6. ASSUME NEW feed, NEW more, feed \subseteq more, more \subseteq 1..Len(items'),
             NEW place \in Int, After(Unseen, feed, place)
      PROVE  After(Unseen', more, place)
  <2>1. After(Unseen, more, place)
    BY <1>3, <1>6, AfterMore
  <2> QED BY <1>2, <2>1
<1>7. reader.pc = "transfers" => After(Unseen', Feed', reader.page - 1)
  BY <1>2, <1>4, <1>5, <1>6 DEF ReaderInv
<1>8. reader.pc = "requests" => After(Unseen', Asked', reader.page - 1)
  BY <1>2, <1>4, <1>5, <1>6 DEF ReaderInv
<1>9. reader.pc = "shown" => After(Unseen', Feed', reader.page)
  BY <1>2, <1>4, <1>5, <1>6 DEF ReaderInv
<1>10. reader.transfers \subseteq Mine("TRANSFER")' /\ reader.seen \subseteq DOMAIN items'
  BY <1>1, <1>3 DEF ReaderInv
<1>11. reader.page <= Len(items') + 1 /\ reader.pages <= Len(items') + 1
  BY <1>3 DEF ReaderInv, ReaderRow
<1> QED BY <1>2, <1>7, <1>8, <1>9, <1>10, <1>11 DEF ReaderInv

(* The feed is asked for: everything there is in it counts as owed.         *)
LEMMA OpenReader ==
  ASSUME WorldInv, ReaderInv, OpenHistory
  PROVE  ReaderInv'
<1>1. /\ reader' = [NoReader EXCEPT !.pc = "transfers", !.owed = Feed]
      /\ Feed' = Feed /\ items' = items
  BY DEF OpenHistory, Feed, Mine, worldVars
<1>2. /\ reader'.pc = "transfers" /\ reader'.page = 1 /\ reader'.pages = 1
      /\ reader'.seen = {} /\ reader'.transfers = {} /\ reader'.owed = Feed
  BY <1>1 DEF NoReader
<1>3. Len(items) \in Nat /\ Feed \in SUBSET (1..Len(items))
  BY FeedBounds
<1>4. After(Unseen', Feed', reader'.page - 1)
  <2>1. \A i \in Feed : PlaceIn(Feed, i) > 0
    BY <1>3, PlaceIs
  <2>2. (1 - 1) * PageSize = 0
    BY ActivityAssumption
  <2>3. Unseen' = Feed
    BY <1>2 DEF Unseen
  <2> QED BY <1>1, <1>2, <2>1, <2>2, <2>3 DEF After
<1>5. reader' \in ReaderRow
  <2>1. Feed \in SUBSET Nat
    BY <1>3
  <2> QED BY <1>1, <2>1 DEF ReaderRow, NoReader
<1> QED BY <1>1, <1>2, <1>3, <1>4, <1>5 DEF ReaderInv

LEMMA TransfersReader ==
  ASSUME WorldInv, ReaderInv, LoadTransfers
  PROVE  ReaderInv'
<1>1. /\ reader \in ReaderRow /\ reader.pc = "transfers"
      /\ reader' = [reader EXCEPT !.pc = "requests", !.transfers = Mine("TRANSFER")]
      /\ items' = items /\ scene' = scene
  BY DEF LoadTransfers, ReaderInv, worldVars
<1>2. /\ reader'.pc = "requests" /\ reader'.page = reader.page /\ reader'.pages = reader.pages
      /\ reader'.seen = reader.seen /\ reader'.owed = reader.owed
      /\ reader'.transfers = Mine("TRANSFER")
  BY <1>1 DEF ReaderRow
<1>3. Mine("TRANSFER")' = Mine("TRANSFER") /\ Mine("REQUEST")' = Mine("REQUEST")
  BY <1>1 DEF Mine
<1>4. Asked' = Feed /\ Unseen' = Unseen
  BY <1>2, <1>3 DEF Asked, Feed, Unseen
<1>5. After(Unseen, Feed, reader.page - 1)
  BY <1>1 DEF ReaderInv
<1>6. After(Unseen', Asked', reader'.page - 1)
  BY <1>2, <1>4, <1>5
<1>7. Mine("TRANSFER") \subseteq Nat
  BY FeedBounds
<1>8. reader' \in ReaderRow
  BY <1>1, <1>7 DEF ReaderRow
<1> QED BY <1>1, <1>2, <1>3, <1>6, <1>8 DEF ReaderInv

(* A page is merged and sorted: what was after the pages before it is on it *)
(* or after it, and on the last page there is nothing after it.             *)
LEMMA RequestsReader ==
  ASSUME WorldInv, ReaderInv, LoadRequests
  PROVE  ReaderInv'
<1> DEFINE page == reader.page
           pages == PagesOf(Cardinality(Asked))
           n == Len(items)
           slice == Slice(Asked, page)
<1>1. /\ reader \in ReaderRow /\ reader.pc = "requests" /\ items' = items /\ scene' = scene
      /\ reader' = [reader EXCEPT !.pc = "shown", !.transfers = {}, !.pages = pages,
                                  !.seen = reader.seen \cup slice]
  BY DEF LoadRequests, ReaderInv, Asked, worldVars
<1>2. /\ reader'.pc = "shown" /\ reader'.page = page /\ reader'.pages = pages
      /\ reader'.seen = reader.seen \cup slice /\ reader'.owed = reader.owed
      /\ reader'.transfers = {}
  BY <1>1 DEF ReaderRow
<1>3. n \in Nat /\ Asked \in SUBSET (1..n) /\ Feed \in SUBSET (1..n) /\ Asked \subseteq Feed
  BY FeedBounds DEF ReaderInv, Asked, Feed
<1>4. Cardinality(Asked) \in Nat /\ Cardinality(Asked) <= n
  BY <1>3, FeedFinite
<1>5. /\ pages \in Nat /\ 1 <= pages /\ pages <= n + 1
      /\ Cardinality(Asked) <= pages * PageSize
  <2>1. /\ pages \in Nat /\ 1 <= pages /\ pages <= Cardinality(Asked) + 1
        /\ Cardinality(Asked) <= pages * PageSize
    BY <1>4, PagesAreEnough
  <2> QED BY <1>3, <1>4, <2>1
<1>6. slice \subseteq 1..n
  BY <1>3 DEF Slice
<1>7. page \in Nat /\ PageSize \in Nat
  BY <1>1, ActivityAssumption DEF ReaderRow
<1> HIDE DEF pages, n, slice, page
<1>8. Unseen' \subseteq Unseen /\ \A i \in Unseen' : i \notin slice
  BY <1>2 DEF Unseen
<1>9. After(Unseen', Asked, page)
  <2> SUFFICES ASSUME NEW i \in Unseen'
               PROVE  i \in Asked /\ PlaceIn(Asked, i) > page * PageSize
    BY DEF After
  <2>1. i \in Asked /\ PlaceIn(Asked, i) > (page - 1) * PageSize
    BY <1>1, <1>8 DEF ReaderInv, After, page
  <2>2. ~(PlaceIn(Asked, i) <= page * PageSize)
    BY <1>8, <2>1 DEF slice, Slice
  <2>3. PlaceIn(Asked, i) \in Nat
    BY <1>3, PlaceIs
  <2>4. page * PageSize \in Nat
    BY <1>7
  <2> QED BY <2>1, <2>2, <2>3, <2>4
<1>10. After(Unseen', Feed, page)
  <2>1. Feed \subseteq 1..n /\ n \in Nat /\ page \in Int
    BY <1>3, <1>7
  <2> QED BY <1>3, <1>9, <2>1, AfterMore
<1>11. Feed' = Feed
  BY <1>1 DEF Feed, Mine
<1>12. page >= pages => Unseen' = {}
  <2> SUFFICES ASSUME page >= pages, NEW i \in Unseen' PROVE FALSE
    OBVIOUS
  <2>1. PlaceIn(Asked, i) \in Nat /\ PlaceIn(Asked, i) <= Cardinality(Asked)
    BY <1>3, PlaceIs
  <2>2. PlaceIn(Asked, i) > page * PageSize
    BY <1>9 DEF After
  <2>3. pages * PageSize <= page * PageSize /\ pages * PageSize \in Nat /\ page * PageSize \in Nat
    BY <1>5, <1>7
  <2> QED BY <1>4, <1>5, <2>1, <2>2, <2>3
<1>13. reader' \in ReaderRow
  <2>1. slice \in SUBSET Nat /\ reader.seen \in SUBSET Nat
    BY <1>1, <1>3, <1>6 DEF ReaderRow
  <2>2. reader.seen \cup slice \in SUBSET Nat
    BY <2>1
  <2> QED BY <1>1, <1>5, <2>2 DEF ReaderRow
<1>14. reader'.seen \subseteq DOMAIN items'
  <2>1. DOMAIN items = 1..n /\ reader.seen \subseteq DOMAIN items
    BY FeedBounds DEF ReaderInv, n
  <2> QED BY <1>1, <1>2, <1>6, <2>1
<1>15. page >= 1 /\ page <= Len(items') + 1 /\ pages <= Len(items') + 1
  BY <1>1, <1>5 DEF ReaderInv, page, n
<1> QED BY <1>2, <1>5, <1>10, <1>11, <1>12, <1>13, <1>14, <1>15 DEF ReaderInv

(* A page is turned to only if there is no gap before it.                   *)
LEMMA TurnReader ==
  ASSUME WorldInv, ReaderInv, NextPage \/ PrevPage
  PROVE  ReaderInv'
<1>1. PICK page \in {reader.page + 1, reader.page - 1} : Turn(page)
  BY DEF NextPage, PrevPage
<1>2. reader.page \in Nat /\ reader.pages \in Nat /\ page \in 1..reader.pages
  BY <1>1 DEF ReaderInv, ReaderRow, Turn
<1>3. /\ reader \in ReaderRow /\ reader.pc = "shown" /\ items' = items /\ scene' = scene
      /\ reader' = [reader EXCEPT !.pc = "transfers", !.page = page]
  BY <1>1 DEF Turn, OpenPage, ReaderInv, worldVars
<1>4. /\ reader'.pc = "transfers" /\ reader'.page = page /\ reader'.pages = reader.pages
      /\ reader'.seen = reader.seen /\ reader'.owed = reader.owed
      /\ reader'.transfers = reader.transfers
  BY <1>3 DEF ReaderRow
<1>5. Feed' = Feed /\ Unseen' = Unseen /\ Mine("TRANSFER")' = Mine("TRANSFER")
  BY <1>3, <1>4 DEF Feed, Unseen, Mine
<1>6. Len(items) \in Nat /\ Feed \in SUBSET (1..Len(items))
  BY FeedBounds
<1>7. After(Unseen, Feed, reader.page)
  BY <1>3 DEF ReaderInv
<1>8. page - 1 \in Int /\ reader.page \in Int /\ page - 1 <= reader.page
  BY <1>2
<1>9. After(Unseen, Feed, page - 1)
  BY <1>6, <1>7, <1>8, AfterFewer
<1>10. reader' \in ReaderRow
  <2>1. page \in Nat
    BY <1>2
  <2> QED BY <1>3, <2>1 DEF ReaderRow
<1>11. 1 <= page /\ page <= Len(items) + 1
  BY <1>2, <1>6 DEF ReaderInv
<1> QED BY <1>3, <1>4, <1>5, <1>9, <1>10, <1>11 DEF ReaderInv

LEMMA ReaderNext ==
  ASSUME WorldInv, ReaderInv, AnyStep
  PROVE  ReaderInv'
<1>1. WorldInv' /\ Grows
  BY WorldNext
<1>2. CASE UNCHANGED reader
  BY <1>1, <1>2, ReaderKept
<1>3. CASE OpenHistory \/ LoadTransfers \/ LoadRequests \/ NextPage \/ PrevPage
  BY <1>3, OpenReader, TransfersReader, RequestsReader, TurnReader
<1>4. CASE \E u \in People : Register(u)
  BY <1>2, <1>4 DEF Register
<1>5. CASE \E kind \in {"TRANSFER", "REQUEST"}, u, v \in DOMAIN wallets : Create(kind, u, v)
  BY <1>2, <1>5 DEF Create
<1>6. CASE \E i \in DOMAIN items : Moves(i)
  BY <1>2, <1>6 DEF Moves, Complete, Fail, Deny, Confirm, Retry, Approve, Close, Unpaid
<1>7. CASE BeginCheck \/ (\E q \in Queries : CheckRead(q)) \/ EndCheck
  BY <1>2, <1>7 DEF BeginCheck, CheckRead, EndCheck
<1>8. CASE \/ \E told \in notices.due : Emit(told)
           \/ MarkRead \/ MarkAllRead \/ \E l \in Loads : Load(l)
  BY <1>2, <1>8 DEF Emit, MarkRead, MarkAllRead, Mark, Load, BeginLoad, LoadRead, EndLoad
<1>9. CASE Quiet
  BY <1>2, <1>9 DEF Quiet
<1> QED BY <1>3, <1>4, <1>5, <1>6, <1>7, <1>8, <1>9 DEF AnyStep, ActivityNext, Moves

LEMMA PagesMissNothing ==
  ASSUME ReaderInv
  PROVE  PagingMissesNothing
BY DEF ReaderInv, PagingMissesNothing, Unseen

-------------------------------------------------------------------------------
(* The notifications *)

(* What happens does not unhappen.                                          *)
LEMMA TimesGrow ==
  ASSUME WorldInv, Grows, NEW i \in DOMAIN items, NEW what \in Tidings
  PROVE  Times(i, what) \in Nat /\ Times(i, what)' \in Nat /\ Times(i, what) <= Times(i, what)'
<1>1. Becomes(items[i], items'[i]) /\ items[i].done \in Nat
  BY ItemIs DEF Grows
<1>2. IsTransfer(i)' <=> IsTransfer(i)
  BY <1>1 DEF Becomes, IsTransfer
<1>3. CASE what = "received"
  BY <1>1, <1>2, <1>3 DEF Times, Becomes
<1>4. CASE what = "asked"
  BY <1>1, <1>2, <1>4 DEF Times, Becomes
<1>5. CASE what = "approved"
  BY <1>1, <1>2, <1>5 DEF Times, Becomes
<1>6. CASE what = "closed"
  BY <1>1, <1>2, <1>6 DEF Times, Becomes, IsTransfer
<1> QED BY <1>3, <1>4, <1>5, <1>6 DEF Tidings

LEMMA RightStays ==
  ASSUME WorldInv, Grows, NEW told, told.what \in Tidings, told.nth \in Nat, Right(told)
  PROVE  Right(told)'
<1>1. told.about \in DOMAIN items'
  BY DEF Grows, Right
<1>2. PICK i \in DOMAIN items : i = told.about
  BY DEF Right
<1>3. PICK what \in Tidings : what = told.what
  OBVIOUS
<1>4. Times(i, what) \in Nat /\ Times(i, what)' \in Nat /\ Times(i, what) <= Times(i, what)'
  BY TimesGrow
<1>5. told.nth \in 1..Times(i, what)
  BY <1>2, <1>3 DEF Right
<1>6. told.nth \in 1..Times(i, what)'
  BY <1>4, <1>5
<1>7. Times(i, what)' = Times(told.about, told.what)'
  BY <1>2, <1>3
<1> QED BY <1>1, <1>6, <1>7 DEF Right

(* Everything that is or was to be told.                                    *)
LEMMA NoticesRightStill ==
  ASSUME WorldInv, Grows, NoticesInv
  PROVE  /\ \A told \in notices.due : Right(told)'
         /\ \A row : (\E n \in DOMAIN notices.rows : row = notices.rows[n]) => Right(row)'
<1>1. ASSUME NEW told \in notices.due
      PROVE  Right(told)'
  <2>1. told \in Tiding /\ Right(told)
    BY DEF NoticesInv
  <2>2. told.what \in Tidings /\ told.nth \in Nat
    BY <2>1 DEF Tiding
  <2> QED BY <2>1, <2>2, RightStays
<1>2. ASSUME NEW row, NEW n \in DOMAIN notices.rows, row = notices.rows[n]
      PROVE  Right(row)'
  <2>1. row \in Notice /\ Right(row)
    BY <1>2 DEF NoticesInv
  <2>2. row.what \in Tidings /\ row.nth \in Nat
    BY <2>1 DEF Notice
  <2> QED BY <2>1, <2>2, RightStays
<1> QED BY <1>1, <1>2

LEMMA NoticesKept ==
  ASSUME WorldInv, Grows, NoticesInv, UNCHANGED notices
  PROVE  NoticesInv'
<1>1. \A told \in notices'.due : Right(told)'
  BY NoticesRightStill
<1>2. \A n \in DOMAIN notices'.rows : Right(notices.rows[n])'
  BY NoticesRightStill DEF Right
<1> QED BY <1>1, <1>2 DEF NoticesInv

(* Something new is to be told, or nothing is.                              *)
LEMMA NoticesTold ==
  ASSUME WorldInv, Grows, NoticesInv, NEW u, NEW i \in Nat, NEW what \in Tidings, NEW nth \in Nat,
         Told(u, i, what, nth),
         u = Me => i \in DOMAIN items' /\ nth \in 1..Times(i, what)',
         i \in DOMAIN items => nth > Times(i, what)
  PROVE  NoticesInv' /\ notices'.rows = notices.rows
<1>1. CASE notices' = notices
  BY <1>1, NoticesKept
<1>2. CASE notices' # notices
  <2>1. PICK told : told = [about |-> i, what |-> what, nth |-> nth]
    OBVIOUS
  <2>2. u = Me /\ notices' = [notices EXCEPT !.due = notices.due \cup {told}]
    BY <1>2, <2>1 DEF Told
  <2>3. told \in Tiding /\ told.about = i /\ told.what = what /\ told.nth = nth
    BY <2>1 DEF Tiding
  <2>4. /\ notices'.due = notices.due \cup {told} /\ notices'.rows = notices.rows
        /\ notices' \in [due : SUBSET Tiding, rows : Seq(Notice)]
    BY <2>2, <2>3 DEF NoticesInv
  <2>5. Right(told)'
    BY <2>2, <2>3 DEF Right
  <2>6. \A t \in notices'.due : Right(t)'
    BY <2>4, <2>5, NoticesRightStill
  <2>7. \A n \in DOMAIN notices.rows : ~Same(told, notices.rows[n])
    <3> SUFFICES ASSUME NEW n \in DOMAIN notices.rows, Same(told, notices.rows[n]) PROVE FALSE
      OBVIOUS
    <3>1. Right(notices.rows[n])
      BY DEF NoticesInv
    <3>2. i \in DOMAIN items /\ nth \in 1..Times(i, what)
      BY <2>3, <3>1 DEF Right, Same
    <3>3. Times(i, what) \in Nat
      BY <3>2, TimesGrow
    <3> QED BY <3>2, <3>3
  <2>8. \A n \in DOMAIN notices.rows : \A t \in notices'.due : ~Same(t, notices.rows[n])
    BY <2>4, <2>7 DEF NoticesInv
  <2>9. \A n \in DOMAIN notices'.rows : Right(notices.rows[n])'
    BY <2>4, NoticesRightStill DEF Right
  <2> QED BY <2>4, <2>6, <2>8, <2>9 DEF NoticesInv
<1> QED BY <1>1, <1>2

LEMMA CreateNotices ==
  ASSUME WorldInv, NoticesInv, NEW kind \in {"TRANSFER", "REQUEST"},
         NEW u \in Users, NEW v \in Users, Create(kind, u, v)
  PROVE  NoticesInv' /\ notices'.rows = notices.rows
<1>1. Grows
  BY CreateWorld
<1>2. CASE kind = "TRANSFER"
  BY <1>1, <1>2, NoticesKept DEF Create
<1>3. CASE kind = "REQUEST"
  <2>1. PICK i : i = Len(items) + 1
    OBVIOUS
  <2>2. Len(items) \in Nat /\ DOMAIN items = 1..Len(items) /\ items \in Seq(ItemRow)
    BY FeedBounds DEF WorldInv
  <2>3. PICK item : items' = Append(items, item) /\ item.kind = "REQUEST" /\ item.to = v
    BY <1>3 DEF Create
  <2>4. /\ i \in Nat /\ i \notin DOMAIN items /\ i \in DOMAIN items'
        /\ items'[i].kind = "REQUEST" /\ items'[i].to = v
    BY <2>1, <2>2, <2>3
  <2>5. Told(v, i, "asked", 1)
    BY <1>3, <2>1 DEF Create
  <2>6. v = Me => Times(i, "asked")' = 1
    BY <2>4 DEF Times, IsTransfer
  <2>7. "asked" \in Tidings /\ 1 \in Nat /\ (v = Me => 1 \in 1..Times(i, "asked")')
    BY <2>6 DEF Tidings
  <2> QED BY <1>1, <2>4, <2>5, <2>7, NoticesTold
<1> QED BY <1>2, <1>3

(* What has just happened is one time more than it had.                     *)
LEMMA MovesNotices ==
  ASSUME WorldInv, NoticesInv, NEW i \in DOMAIN items, Moves(i)
  PROVE  NoticesInv' /\ notices'.rows = notices.rows
<1>1. Grows
  BY MovesWorld
<1>2. /\ items \in Seq(ItemRow) /\ items[i] \in ItemRow /\ i \in Nat /\ i \in DOMAIN items'
      /\ items[i].done \in Nat /\ items[i].done + 1 \in Nat
  BY <1>1, ItemIs, FeedBounds DEF WorldInv, Grows
<1>3. PICK old : old = items[i]
  OBVIOUS
<1>4. PICK new : new = items'[i]
  OBVIOUS
<1>5. Becomes(old, new)
  BY <1>1, <1>3, <1>4 DEF Grows
<1>6. "received" \in Tidings /\ "approved" \in Tidings /\ "closed" \in Tidings
  BY DEF Tidings
<1>7. CASE Complete(i)
  <2>1. /\ old.kind = "TRANSFER" /\ new.done = old.done + 1
        /\ Told(old.to, i, "received", old.done + 1)
    BY <1>2, <1>3, <1>4, <1>7 DEF Complete, IsTransfer, ItemRow
  <2>2. old.to = Me => Times(i, "received")' = old.done + 1
    BY <1>4, <1>5, <2>1 DEF Times, IsTransfer, Becomes
  <2>3. Times(i, "received") <= old.done
    BY <1>2, <1>3 DEF Times
  <2>4. Times(i, "received") \in Nat
    BY <1>1, <1>6, TimesGrow
  <2>5. PICK nth \in Nat : nth = old.done + 1
    BY <1>2, <1>3
  <2>6. /\ Told(old.to, i, "received", nth) /\ nth > Times(i, "received")
        /\ old.to = Me => i \in DOMAIN items' /\ nth \in 1..Times(i, "received")'
    BY <1>2, <1>3, <2>1, <2>2, <2>3, <2>4, <2>5
  <2> QED BY <1>1, <1>2, <1>6, <2>6, NoticesTold
<1>8. CASE Approve(i)
  <2>1. /\ old.kind # "TRANSFER" /\ new.done = old.done + 1
        /\ Told(old.from, i, "approved", old.done + 1)
    BY <1>2, <1>3, <1>4, <1>8 DEF Approve, IsTransfer, ItemRow
  <2>2. old.from = Me => Times(i, "approved")' = old.done + 1
    BY <1>4, <1>5, <2>1 DEF Times, IsTransfer, Becomes
  <2>3. Times(i, "approved") <= old.done
    BY <1>2, <1>3 DEF Times
  <2>4. Times(i, "approved") \in Nat
    BY <1>1, <1>6, TimesGrow
  <2>5. PICK nth \in Nat : nth = old.done + 1
    BY <1>2, <1>3
  <2>6. /\ Told(old.from, i, "approved", nth) /\ nth > Times(i, "approved")
        /\ old.from = Me => i \in DOMAIN items' /\ nth \in 1..Times(i, "approved")'
    BY <1>2, <1>3, <2>1, <2>2, <2>3, <2>4, <2>5
  <2> QED BY <1>1, <1>2, <1>6, <2>6, NoticesTold
<1>9. CASE Close(i)
  <2>1. PICK u \in {old.from, old.to} : Told(u, i, "closed", 1)
    BY <1>3, <1>9 DEF Close
  <2>2. old.kind # "TRANSFER" /\ old.status = "PENDING" /\ new.status = "FAILED"
    BY <1>2, <1>3, <1>4, <1>9 DEF Close, IsTransfer, ItemRow
  <2>3. u = Me => Times(i, "closed")' = 1
    BY <1>4, <1>5, <2>1, <2>2 DEF Times, IsTransfer, Becomes
  <2>4. Times(i, "closed") = 0
    BY <1>3, <2>2 DEF Times
  <2>5. /\ 1 \in Nat /\ 1 > Times(i, "closed")
        /\ u = Me => i \in DOMAIN items' /\ 1 \in 1..Times(i, "closed")'
    BY <1>2, <2>3, <2>4
  <2> QED BY <1>1, <1>2, <1>6, <2>1, <2>5, NoticesTold
<1>10. CASE Fail(i) \/ Deny(i) \/ Confirm(i) \/ Retry(i)
  BY <1>1, <1>10, NoticesKept DEF Fail, Deny, Confirm, Retry, Unpaid
<1> QED BY <1>7, <1>8, <1>9, <1>10 DEF Moves

LEMMA EmitNotices ==
  ASSUME WorldInv, NoticesInv, NEW told \in notices.due, Emit(told)
  PROVE  NoticesInv' /\ Len(notices.rows) <= Len(notices'.rows)
<1>1. items' = items
  BY DEF Emit
<1>2. PICK rows \in {notices.rows, Inserted(told)} :
        notices' = [due |-> notices.due \ {told}, rows |-> rows]
  BY DEF Emit
<1>3. /\ notices.due \in SUBSET Tiding /\ told \in Tiding
      /\ notices.rows \in Seq(Notice) /\ Len(notices.rows) \in Nat
  BY DEF NoticesInv
<1>4. \A t : Right(t)' <=> Right(t)
  BY <1>1 DEF Right, Times, IsTransfer
<1>5. notices'.rows = rows /\ notices'.due = notices.due \ {told}
  BY <1>2
<1>6. \A t \in notices'.due : Right(t)'
  BY <1>4, <1>5 DEF NoticesInv
<1>7. CASE rows = notices.rows
  <2>1. notices' \in [due : SUBSET Tiding, rows : Seq(Notice)]
    BY <1>2, <1>3, <1>7
  <2>2. \A n \in DOMAIN notices'.rows : Right(notices.rows[n])'
    BY <1>4, <1>5, <1>7 DEF NoticesInv, Right
  <2> QED BY <1>3, <1>5, <1>6, <1>7, <2>1, <2>2 DEF NoticesInv
<1>8. CASE rows = Inserted(told)
  <2>1. PICK row : row = [about |-> told.about, what |-> told.what, nth |-> told.nth,
                          read |-> FALSE]
    OBVIOUS
  <2>2. row \in Notice /\ Same(told, row) /\ (Right(row) <=> Right(told))
    BY <1>3, <2>1 DEF Notice, Tiding, Same, Right
  <2>3. PICK old : old = notices.rows
    OBVIOUS
  <2>4. PICK k : k = Len(old) + 1
    OBVIOUS
  <2>5. old \in Seq(Notice) /\ rows = Append(old, row)
    BY <1>3, <1>8, <2>1, <2>3 DEF Inserted
  <2>6. /\ rows \in Seq(Notice) /\ Len(rows) = k /\ rows[k] = row
        /\ DOMAIN rows = DOMAIN old \cup {k} /\ k \notin DOMAIN old
        /\ \A n \in DOMAIN old : rows[n] = old[n]
    BY <2>2, <2>4, <2>5
  <2>7. \A n \in DOMAIN rows : n # k => n \in DOMAIN old /\ rows[n] = old[n]
    BY <2>6
  <2>8. /\ \A n \in DOMAIN old : Right(old[n]) /\ \A t \in notices.due : ~Same(t, old[n])
        /\ \A n, m \in DOMAIN old : Same(old[m], old[n]) => m = n
    BY <2>3 DEF NoticesInv
  <2>9. \A n \in DOMAIN old : ~Same(row, old[n]) /\ ~Same(old[n], row)
    BY <2>2, <2>8 DEF Same
  <2>10. Right(row)
    BY <2>2 DEF NoticesInv
  <2>11. \A n \in DOMAIN rows : Right(rows[n])
    BY <2>6, <2>7, <2>8, <2>10
  <2>12. \A n \in DOMAIN rows : \A t \in notices.due \ {told} : ~Same(t, rows[n])
    <3> SUFFICES ASSUME NEW n \in DOMAIN rows, NEW t \in notices.due \ {told}, Same(t, rows[n])
                 PROVE  FALSE
      OBVIOUS
    <3>1. n = k
      BY <2>7, <2>8
    <3>2. Same(t, row)
      BY <2>6, <3>1
    <3>3. t.about = told.about /\ t.what = told.what /\ t.nth = told.nth
      BY <2>2, <3>2 DEF Same
    <3>4. t = told
      BY <1>3, <3>3 DEF Tiding
    <3> QED BY <3>4
  <2>13. \A n, m \in DOMAIN rows : Same(rows[m], rows[n]) => m = n
    BY <2>6, <2>7, <2>8, <2>9
  <2>14. notices' \in [due : SUBSET Tiding, rows : Seq(Notice)]
    BY <1>2, <1>3, <2>6
  <2>15. Len(notices.rows) <= Len(notices'.rows)
    BY <1>3, <1>5, <2>3, <2>4, <2>6
  <2>16. \A n \in DOMAIN notices'.rows : Right(notices.rows[n])'
    BY <1>4, <1>5, <2>11 DEF Right
  <2> QED BY <1>5, <1>6, <2>12, <2>13, <2>14, <2>15, <2>16 DEF NoticesInv
<1> QED BY <1>7, <1>8

LEMMA MarkNotices ==
  ASSUME WorldInv, NoticesInv, NEW ns, Mark(ns)
  PROVE  NoticesInv' /\ Len(notices'.rows) = Len(notices.rows)
<1>1. items' = items /\ notices' = [notices EXCEPT !.rows = Read(ns)]
  BY DEF Mark
<1>2. notices.rows \in Seq(Notice) /\ notices \in [due : SUBSET Tiding, rows : Seq(Notice)]
  BY DEF NoticesInv
<1>3. /\ DOMAIN Read(ns) = DOMAIN notices.rows
      /\ \A n \in DOMAIN notices.rows :
           Read(ns)[n] \in Notice /\ Same(Read(ns)[n], notices.rows[n])
  <2>1. \A n \in DOMAIN notices.rows : notices.rows[n] \in Notice
    BY <1>2
  <2> QED BY <2>1 DEF Read, Notice, Same
<1>4. Read(ns) \in Seq(Notice) /\ Len(Read(ns)) = Len(notices.rows)
  <2>1. DOMAIN Read(ns) = 1..Len(notices.rows) /\ Len(notices.rows) \in Nat
    BY <1>2, <1>3
  <2>2. Read(ns) = [n \in 1..Len(notices.rows) |-> Read(ns)[n]]
    BY <2>1 DEF Read
  <2>3. \A n \in 1..Len(notices.rows) : Read(ns)[n] \in Notice
    BY <1>3, <2>1
  <2> QED BY <2>1, <2>2, <2>3
<1>5. /\ notices'.rows = Read(ns) /\ notices'.due = notices.due
      /\ notices' \in [due : SUBSET Tiding, rows : Seq(Notice)]
  BY <1>1, <1>2, <1>4
<1>6. \A told : Right(told)' <=> Right(told)
  BY <1>1 DEF Right, Times, IsTransfer
<1>7. \A told \in notices'.due : Right(told)'
  BY <1>5, <1>6 DEF NoticesInv
<1>8. \A n \in DOMAIN notices.rows :
        /\ Right(notices.rows[n])
        /\ \A told \in notices.due : ~Same(told, notices.rows[n])
        /\ \A m \in DOMAIN notices.rows : Same(notices.rows[m], notices.rows[n]) => m = n
  BY DEF NoticesInv
<1>9. PICK rows : rows = notices'.rows
  OBVIOUS
<1>10. \A n \in DOMAIN rows : n \in DOMAIN notices.rows /\ Same(rows[n], notices.rows[n])
  BY <1>3, <1>5, <1>9
<1>11. \A n \in DOMAIN rows :
         /\ Right(rows[n])
         /\ \A told \in notices.due : ~Same(told, rows[n])
         /\ \A m \in DOMAIN rows : Same(rows[m], rows[n]) => m = n
  BY <1>8, <1>10 DEF Same, Right
<1>12. \A n \in DOMAIN notices'.rows : Right(notices.rows[n])'
  BY <1>6, <1>9, <1>11 DEF Right
<1> QED BY <1>4, <1>5, <1>7, <1>9, <1>11, <1>12 DEF NoticesInv

LEMMA NoticesNext ==
  ASSUME WorldInv, NoticesInv, AnyStep
  PROVE  NoticesInv' /\ Len(notices.rows) <= Len(notices'.rows)
<1>1. WorldInv' /\ Grows
  BY WorldNext
<1>2. Len(notices.rows) \in Nat
  BY DEF NoticesInv
<1>3. CASE UNCHANGED notices
  BY <1>1, <1>2, <1>3, NoticesKept
<1>4. CASE \E u \in People : Register(u)
  BY <1>3, <1>4 DEF Register
<1>5. CASE \E kind \in {"TRANSFER", "REQUEST"}, u, v \in DOMAIN wallets : Create(kind, u, v)
  <2>1. NoticesInv' /\ notices'.rows = notices.rows
    BY <1>5, CreateNotices DEF Users
  <2> QED BY <1>2, <2>1
<1>6. CASE \E i \in DOMAIN items : Moves(i)
  <2>1. NoticesInv' /\ notices'.rows = notices.rows
    BY <1>6, MovesNotices
  <2> QED BY <1>2, <2>1
<1>7. CASE BeginCheck \/ (\E q \in Queries : CheckRead(q)) \/ EndCheck
  BY <1>3, <1>7 DEF BeginCheck, CheckRead, EndCheck, worldVars
<1>8. CASE \E told \in notices.due : Emit(told)
  BY <1>8, EmitNotices
<1>9. CASE MarkRead \/ MarkAllRead
  <2>1. PICK ns : Mark(ns)
    BY <1>9 DEF MarkRead, MarkAllRead
  <2>2. NoticesInv' /\ Len(notices'.rows) = Len(notices.rows)
    BY <2>1, MarkNotices
  <2> QED BY <1>2, <2>2
<1>10. CASE \E l \in Loads : Load(l)
  BY <1>3, <1>10 DEF Load, BeginLoad, LoadRead, EndLoad, worldVars
<1>11. CASE OpenHistory \/ LoadTransfers \/ LoadRequests \/ NextPage \/ PrevPage
  BY <1>3, <1>11 DEF OpenHistory, LoadTransfers, LoadRequests, NextPage, PrevPage, Turn, worldVars
<1>12. CASE Quiet
  BY <1>3, <1>12 DEF Quiet, worldVars
<1> QED
  BY <1>4, <1>5, <1>6, <1>7, <1>8, <1>9, <1>10, <1>11, <1>12 DEF AnyStep, ActivityNext, Moves

(* The rows that tell of one thing tell of different times that it happened *)
(* - so there are no more of them than times.                               *)
LEMMA NoticesRight ==
  ASSUME WorldInv, NoticesInv
  PROVE  NoticesAreTrue
<1> SUFFICES ASSUME NEW i \in DOMAIN items, NEW what \in Tidings
             PROVE  Cardinality(Telling(i, what)) <= Times(i, what)
  BY DEF NoticesAreTrue
<1>1. PICK telling : telling = Telling(i, what)
  OBVIOUS
<1>2. PICK times : times = Times(i, what)
  OBVIOUS
<1>3. times \in Nat
  BY <1>2, ItemIs DEF Times, Tidings
<1>4. PICK nth : nth = [n \in telling |-> notices.rows[n].nth]
  OBVIOUS
<1>5. ASSUME NEW n \in telling
      PROVE  /\ n \in DOMAIN notices.rows /\ nth[n] = notices.rows[n].nth
             /\ notices.rows[n].about = i /\ notices.rows[n].what = what
             /\ nth[n] \in 1..times
  <2>1. /\ n \in DOMAIN notices.rows /\ nth[n] = notices.rows[n].nth
        /\ notices.rows[n].about = i /\ notices.rows[n].what = what
    BY <1>1, <1>4 DEF Telling
  <2>2. Right(notices.rows[n])
    BY <2>1 DEF NoticesInv
  <2> QED BY <1>2, <2>1, <2>2 DEF Right
<1>6. nth \in [telling -> 1..times]
  BY <1>4, <1>5
<1>7. ASSUME NEW n \in telling, NEW m \in telling, nth[m] = nth[n]
      PROVE  m = n
  <2>1. n \in DOMAIN notices.rows /\ m \in DOMAIN notices.rows
    BY <1>5
  <2>2. Same(notices.rows[m], notices.rows[n])
    BY <1>5, <1>7 DEF Same
  <2> QED BY <2>1, <2>2 DEF NoticesInv
<1>8. nth \in Injection(telling, 1..times)
  BY <1>6, <1>7 DEF Injection, IsInjective
<1>9. IsFiniteSet(1..times) /\ Cardinality(1..times) = times
  BY <1>3, FS_Interval
<1>10. Cardinality(telling) <= Cardinality(1..times)
  BY <1>8, <1>9, FS_Injection
<1> QED BY <1>1, <1>2, <1>9, <1>10

LEMMA UnreadAtMost ==
  ASSUME NoticesInv
  PROVE  /\ UnreadCount(notices.rows) \in Nat /\ UnreadCount(notices.rows) <= Len(notices.rows)
         /\ notices.rows \in Seq(Notice) /\ Len(notices.rows) \in Nat
<1>1. notices.rows \in Seq(Notice)
  BY DEF NoticesInv
<1>2. Len(notices.rows) \in Nat /\ DOMAIN notices.rows = 1..Len(notices.rows)
  BY <1>1
<1>3. Unread(notices.rows) \in SUBSET (1..Len(notices.rows))
  BY <1>2 DEF Unread
<1>4. /\ Cardinality(Unread(notices.rows)) \in Nat
      /\ Cardinality(Unread(notices.rows)) <= Len(notices.rows)
  BY <1>2, <1>3, FeedFinite
<1> QED BY <1>1, <1>2, <1>4 DEF UnreadCount

LEMMA LoadBell ==
  ASSUME NoticesInv, BellInv, NEW l \in Loads, Load(l)
  PROVE  BellInv'
<1>1. /\ bell \in [list : Seq(Notice), unread : Nat, load : [Loads -> LoadRow]]
      /\ bell.load \in [Loads -> LoadRow] /\ bell.load[l] \in LoadRow
  BY DEF BellInv
<1>2. notices' = notices
  BY DEF Load, BeginLoad, LoadRead, EndLoad, worldVars
<1>3. /\ UnreadCount(notices.rows) \in Nat /\ UnreadCount(notices.rows) <= Len(notices.rows)
      /\ notices.rows \in Seq(Notice) /\ Len(notices.rows) \in Nat
  BY UnreadAtMost
<1>4. ASSUME NEW row \in LoadRow, Len(row.list) <= Len(notices.rows),
             row.count <= Len(notices.rows),
             bell' = [bell EXCEPT !.load[l] = row]
      PROVE  BellInv'
  <2>1. /\ bell'.list = bell.list /\ bell'.unread = bell.unread
        /\ bell'.load = [bell.load EXCEPT ![l] = row]
        /\ bell' \in [list : Seq(Notice), unread : Nat, load : [Loads -> LoadRow]]
    BY <1>1, <1>4
  <2> QED BY <1>1, <1>2, <1>4, <2>1 DEF BellInv
<1>5. <<>> \in Seq(Notice) /\ Len(<<>>) = 0
  OBVIOUS
<1>6. NoLoad \in LoadRow
  BY <1>5 DEF NoLoad, LoadRow
<1>7. CASE BeginLoad(l)
  <2> DEFINE row == [NoLoad EXCEPT !.pc = "reading"]
  <2>1. row \in LoadRow /\ row.list = <<>> /\ row.count = 0
    BY <1>6 DEF NoLoad, LoadRow
  <2>2. Len(row.list) <= Len(notices.rows) /\ row.count <= Len(notices.rows)
    BY <1>3, <1>5, <2>1
  <2>3. bell' = [bell EXCEPT !.load[l] = row]
    BY <1>7 DEF BeginLoad
  <2> QED BY <1>4, <2>1, <2>2, <2>3
<1>8. ASSUME NEW q \in NoLoad.todo, LoadRead(l, q)
      PROVE  BellInv'
  <2> DEFINE old == bell.load[l]
             row == [old EXCEPT
               !.todo = old.todo \ {q},
               !.list = IF q = "list" THEN notices.rows ELSE old.list,
               !.count = IF q = "count" THEN UnreadCount(notices.rows) ELSE old.count]
  <2>1. bell' = [bell EXCEPT !.load[l] = row]
    BY <1>1, <1>8 DEF LoadRead
  <2>2. Len(old.list) <= Len(notices.rows) /\ old.count <= Len(notices.rows)
    BY DEF BellInv
  <2>3. row \in LoadRow
    BY <1>1, <1>3 DEF LoadRow
  <2>4. /\ row.list = IF q = "list" THEN notices.rows ELSE old.list
        /\ row.count = IF q = "count" THEN UnreadCount(notices.rows) ELSE old.count
    BY <1>1 DEF LoadRow
  <2>5. Len(row.list) <= Len(notices.rows) /\ row.count <= Len(notices.rows)
    <3>1. Len(notices.rows) <= Len(notices.rows)
      BY <1>3
    <3> QED BY <1>3, <2>2, <2>4, <3>1
  <2> HIDE DEF row, old
  <2> QED BY <1>4, <2>1, <2>3, <2>5
<1>9. CASE EndLoad(l)
  <2>1. bell' = [list |-> bell.load[l].list, unread |-> bell.load[l].count,
                  load |-> [bell.load EXCEPT ![l] = NoLoad]]
    BY <1>9 DEF EndLoad
  <2>2. bell.load[l].list \in Seq(Notice) /\ bell.load[l].count \in Nat
    BY <1>1 DEF LoadRow
  <2>3. /\ bell'.load \in [Loads -> LoadRow] /\ bell'.load[l] = NoLoad
        /\ \A k \in Loads : k # l => bell'.load[k] = bell.load[k]
        /\ bell'.list = bell.load[l].list /\ bell'.unread = bell.load[l].count
    BY <1>1, <1>6, <2>1
  <2>4. NoLoad.list = <<>> /\ NoLoad.count = 0
    BY DEF NoLoad
  <2>5. /\ Len(bell'.list) <= Len(notices.rows) /\ bell'.unread <= Len(notices.rows)
        /\ \A k \in Loads : Len(bell'.load[k].list) <= Len(notices.rows)
                             /\ bell'.load[k].count <= Len(notices.rows)
    BY <1>3, <1>5, <2>3, <2>4 DEF BellInv
  <2>6. bell' \in [list : Seq(Notice), unread : Nat, load : [Loads -> LoadRow]]
    BY <2>1, <2>2, <2>3
  <2> QED BY <1>2, <2>5, <2>6 DEF BellInv
<1> QED BY <1>7, <1>8, <1>9 DEF Load

LEMMA BellNext ==
  ASSUME WorldInv, NoticesInv, BellInv, AnyStep
  PROVE  BellInv'
<1>1. Len(notices.rows) <= Len(notices'.rows) /\ NoticesInv'
  BY NoticesNext
<1>2. Len(notices.rows) \in Nat /\ Len(notices'.rows) \in Nat
  BY <1>1 DEF NoticesInv
<1>3. CASE UNCHANGED bell
  <2>1. \A l \in Loads : Len(bell.load[l].list) \in Nat /\ bell.load[l].count \in Nat
    BY DEF BellInv, LoadRow
  <2>2. Len(bell.list) \in Nat /\ bell.unread \in Nat
    BY DEF BellInv
  <2> QED BY <1>1, <1>2, <1>3, <2>1, <2>2 DEF BellInv
<1>4. CASE \E l \in Loads : Load(l)
  BY <1>4, LoadBell
<1>5. CASE \E u \in People : Register(u)
  BY <1>3, <1>5 DEF Register
<1>6. CASE \E kind \in {"TRANSFER", "REQUEST"}, u, v \in DOMAIN wallets : Create(kind, u, v)
  BY <1>3, <1>6 DEF Create
<1>7. CASE \E i \in DOMAIN items : Moves(i)
  BY <1>3, <1>7 DEF Moves, Complete, Fail, Deny, Confirm, Retry, Approve, Close, Unpaid
<1>8. CASE BeginCheck \/ (\E q \in Queries : CheckRead(q)) \/ EndCheck
  BY <1>3, <1>8 DEF BeginCheck, CheckRead, EndCheck
<1>9. CASE (\E told \in notices.due : Emit(told)) \/ MarkRead \/ MarkAllRead
  BY <1>3, <1>9 DEF Emit, MarkRead, MarkAllRead, Mark
<1>10. CASE OpenHistory \/ LoadTransfers \/ LoadRequests \/ NextPage \/ PrevPage
  BY <1>3, <1>10 DEF OpenHistory, LoadTransfers, LoadRequests, NextPage, PrevPage, Turn
<1>11. CASE Quiet
  BY <1>3, <1>11 DEF Quiet
<1> QED
  BY <1>4, <1>5, <1>6, <1>7, <1>8, <1>9, <1>10, <1>11 DEF AnyStep, ActivityNext, Moves

-------------------------------------------------------------------------------
(* Activity as a whole *)

LEMMA ActivityStarts ==
  ASSUME ActivityInit
  PROVE  ActivityInv
<1> DEFINE row == [kind : {"TRANSFER", "REQUEST"}, from : scene.registered,
                   to : scene.registered, amount : Nat,
                   status : {"PENDING", "COMPLETED", "FAILED"}, current : BOOLEAN,
                   running : Nat, done : Nat, denied : {FALSE}]
<1>1. /\ scene \in [registered : SUBSET People, items : Seq(row),
                    amounts : SUBSET Nat, kinds : SUBSET {"TRANSFER", "REQUEST"},
                    asks : SUBSET {"investigate", "summary"},
                    history : BOOLEAN, bell : BOOLEAN, party : BOOLEAN,
                    registrations : Nat, creations : Nat, moves : Nat, checks : Nat,
                    marks : Nat, posts : Nat, events : Nat, time : Nat]
      /\ IsFiniteSet(scene.registered)
      /\ \A i \in DOMAIN scene.items :
           /\ scene.items[i].from # scene.items[i].to
           /\ scene.items[i].status = "COMPLETED" => scene.items[i].done > 0
  BY ScenesAssumption DEF ActivityInit
<1>2. scene.registered \subseteq People /\ scene.items \in Seq(row)
  BY <1>1
<1>3. \A i \in DOMAIN scene.items :
        scene.items[i] \in row /\ scene.items[i] \in ItemRow
  <2>1. row \subseteq ItemRow
    BY <1>2 DEF ItemRow
  <2> HIDE DEF row
  <2>2. \A i \in DOMAIN scene.items : scene.items[i] \in row
    BY <1>2
  <2> QED BY <2>1, <2>2
<1>4. scene.items \in Items
  <2>1. /\ scene.items = [i \in 1..Len(scene.items) |-> scene.items[i]]
        /\ Len(scene.items) \in Nat /\ DOMAIN scene.items = 1..Len(scene.items)
    BY <1>2
  <2>2. \A i \in 1..Len(scene.items) : scene.items[i] \in ItemRow
    BY <1>3, <2>1
  <2> HIDE DEF row
  <2> QED BY <2>1, <2>2 DEF Items
<1>5. scene \in SceneRow
  BY <1>1, <1>4 DEF SceneRow
<1>6. /\ Users = scene.registered /\ wallets = [u \in Users |-> Grant] /\ entries = wallets
  BY DEF ActivityInit, Users
<1>7. Total(wallets) = Grant * Cardinality(Users)
  <2>1. Grant \in Nat /\ \A u \in Users : wallets[u] = Grant
    BY <1>6, ActivityAssumption
  <2>2. SumOf(wallets, Users) = Grant * Cardinality(Users)
    BY <1>1, <1>6, <2>1, SumConst
  <2> QED BY <2>2, TotalIs DEF Users
<1>8. WorldInv
  <2>1. wallets \in [Users -> Nat] /\ wallets \in [Users -> Int]
    BY <1>6, ActivityAssumption
  <2>2. \A i \in DOMAIN items :
          /\ items[i].from \in Users /\ items[i].to \in Users /\ items[i].from # items[i].to
          /\ items[i].status = "COMPLETED" => items[i].done > 0
    BY <1>1, <1>3, <1>6 DEF ActivityInit
  <2> QED BY <1>1, <1>2, <1>4, <1>5, <1>6, <1>7, <2>1, <2>2 DEF WorldInv, Items, ActivityInit
<1>9. CheckInv
  BY DEF ActivityInit, CheckInv, CheckRow, NoCheck
<1>10. Len(items) \in Nat
  BY FeedBounds, <1>8
<1>11. ReaderInv
  BY <1>10 DEF ActivityInit, ReaderInv, ReaderRow, NoReader, Unseen
<1>12. <<>> \in Seq(Notice) /\ Len(<<>>) = 0 /\ DOMAIN <<>> = {}
  OBVIOUS
<1>13. NoticesInv
  BY <1>12 DEF ActivityInit, NoticesInv
<1>14. NoLoad \in LoadRow /\ NoLoad.list = <<>> /\ NoLoad.count = 0
  BY <1>12 DEF NoLoad, LoadRow
<1>15. BellInv
  BY <1>12, <1>14 DEF ActivityInit, BellInv
<1> QED BY <1>8, <1>9, <1>11, <1>13, <1>15 DEF ActivityInv

LEMMA ActivityMoves ==
  ASSUME ActivityInv, AnyStep
  PROVE  ActivityInv' /\ Grows
BY WorldNext, CheckNext, ReaderNext, NoticesNext, BellNext DEF ActivityInv

LEMMA ActivityTyped ==
  ASSUME ActivityInv
  PROVE  ActivityTypeOK
<1>1. \A i \in DOMAIN items :
        /\ items[i].kind \in {"TRANSFER", "REQUEST"}
        /\ items[i].status \in {"PENDING", "COMPLETED", "FAILED"}
        /\ items[i].status = "COMPLETED" => items[i].done > 0
  BY ItemIs DEF ActivityInv
<1>2. /\ DOMAIN wallets \subseteq People /\ DOMAIN entries = DOMAIN wallets
      /\ \A u \in DOMAIN wallets : wallets[u] \in Nat
      /\ server \in {"starting", "listening", "exited"}
  BY DEF ActivityInv, WorldInv, Users
<1>3. check.pc \in {"idle", "reading", "done"} /\ check.todo \subseteq Queries
  BY DEF ActivityInv, CheckInv, CheckRow
<1>4. /\ reader.pc \in {"closed", "transfers", "requests", "shown"}
      /\ reader.seen \subseteq DOMAIN items /\ reader.page \in 1..(Len(items) + 1)
  BY FeedBounds DEF ActivityInv, ReaderInv, ReaderRow
<1>5. /\ \A told \in notices.due : told.about \in DOMAIN items
      /\ \A n \in DOMAIN notices.rows : notices.rows[n].about \in DOMAIN items
  BY DEF ActivityInv, NoticesInv, Right
<1>6. bell.unread \in 0..Len(notices.rows) /\ Len(bell.list) <= Len(notices.rows)
  BY UnreadAtMost DEF ActivityInv, BellInv
<1> QED BY <1>1, <1>2, <1>3, <1>4, <1>5, <1>6 DEF ActivityTypeOK

-------------------------------------------------------------------------------
(* The limiter *)

(* A new window opens after resetAt.  The requests of the one before it are *)
(* at most MaxRequests, and what was before them is longer ago than that    *)
(* window is long.                                                          *)
LEMMA AdmitOpens ==
  ASSUME LimiterInv, WindowOver(clock), Admit(clock), clock' = clock
  PROVE  LimiterInv'
<1> DEFINE n == Len(admitted)
<1>1. /\ bucket' = [count |-> 1, resetAt |-> clock + Window]
      /\ admitted' = Append(admitted, clock)
  BY DEF Admit
<1>2. /\ n \in Nat /\ DOMAIN admitted = 1..n /\ admitted \in Seq(Nat) /\ clock \in Nat
      /\ bucket.count \in Nat /\ bucket.resetAt \in Int /\ bucket.count <= n
      /\ bucket.count <= MaxRequests /\ bucket.resetAt < clock
  BY DEF LimiterInv, WindowOver
<1>3. Window \in Nat /\ Window > 0 /\ MaxRequests \in Nat /\ MaxRequests > 0
  BY LimiterAssumption
<1>4. /\ admitted' \in Seq(Nat) /\ Len(admitted') = n + 1 /\ DOMAIN admitted' = 1..(n + 1)
      /\ admitted'[n + 1] = clock /\ \A j \in 1..n : admitted'[j] = admitted[j]
  BY <1>1, <1>2
<1>5. Opened' = clock /\ Before' = n /\ bucket'.count = 1 /\ bucket'.resetAt = clock + Window
  BY <1>1, <1>2, <1>3, <1>4 DEF Opened, Before
<1>6. \A j \in 1..n : /\ admitted[j] \in Nat /\ admitted[j] <= clock
                      /\ admitted[j] < clock
                      /\ j <= n - MaxRequests + 1 => admitted[j] + Window < clock
  <2> TAKE j \in 1..n
  <2>1. /\ admitted[j] \in Nat /\ admitted[j] <= clock /\ admitted[j] <= bucket.resetAt
        /\ j <= Before => admitted[j] < Opened
        /\ j = Before + 1 => admitted[j] = Opened
    BY <1>2 DEF LimiterInv
  <2>2. Before \in Int /\ Before = n - bucket.count /\ Opened = bucket.resetAt - Window
    BY <1>2 DEF Before, Opened
  <2>3. ASSUME j <= n - MaxRequests + 1
        PROVE  admitted[j] + Window < clock
    <3>1. j <= Before + 1
      BY <1>2, <1>3, <2>2, <2>3
    <3>2. admitted[j] <= Opened
      <4>1. Opened \in Int /\ j \in Int /\ (j <= Before \/ j = Before + 1)
        BY <1>2, <1>3, <2>2, <3>1
      <4> QED BY <2>1, <4>1
    <3> QED BY <1>2, <1>3, <2>1, <2>2, <3>2
  <2> QED BY <1>2, <2>1, <2>3
<1> HIDE DEF n
<1>7. BurstsAreBounded'
  <2> SUFFICES ASSUME NEW i \in 1..(n + 1), i + 2 * MaxRequests - 1 \in 1..(n + 1)
               PROVE  admitted'[i + 2 * MaxRequests - 1] - admitted'[i] > Window
    BY <1>4 DEF BurstsAreBounded
  <2> DEFINE k == i + 2 * MaxRequests - 1
  <2>1. i \in 1..n /\ admitted'[i] = admitted[i]
    BY <1>2, <1>3, <1>4
  <2>2. CASE k = n + 1
    <3>1. i <= n - MaxRequests + 1
      BY <1>2, <1>3, <2>2
    <3>2. admitted[i] + Window < clock /\ admitted[i] \in Nat
      BY <1>6, <2>1, <3>1
    <3>3. admitted'[k] = clock
      BY <1>4, <2>2
    <3> QED BY <1>2, <1>3, <2>1, <3>2, <3>3
  <2>3. CASE k # n + 1
    <3>1. k \in 1..n
      BY <1>2, <1>3, <2>3
    <3>2. admitted[k] - admitted[i] > Window
      BY <1>2, <2>1, <3>1 DEF LimiterInv, BurstsAreBounded
    <3>3. admitted'[k] = admitted[k]
      BY <1>4, <3>1
    <3> QED BY <2>1, <3>2, <3>3
  <2> QED BY <2>2, <2>3
<1>8. \A j \in DOMAIN admitted' :
       /\ admitted'[j] <= clock /\ admitted'[j] <= bucket'.resetAt
       /\ j <= Before' => admitted'[j] < Opened'
       /\ j = Before' + 1 => admitted'[j] = Opened'
       /\ j > Before' => Opened' <= admitted'[j]
       /\ j <= Before' - MaxRequests + 1 => admitted'[j] + Window < Opened'
  <2> TAKE j \in DOMAIN admitted'
  <2>1. CASE j = n + 1
    BY <1>2, <1>3, <1>4, <1>5, <2>1
  <2>2. CASE j # n + 1
    <3>1. j \in 1..n /\ admitted'[j] = admitted[j] /\ j <= n /\ j \in Nat
      BY <1>2, <1>4, <2>2
    <3> QED BY <1>2, <1>3, <1>5, <1>6, <3>1
  <2> QED BY <2>1, <2>2
<1>9. /\ bucket' \in [count : Nat, resetAt : Int] /\ bucket' # NoBucket
      /\ bucket'.count <= MaxRequests /\ bucket'.count <= Len(admitted')
      /\ bucket'.count > 0 /\ bucket'.resetAt \in Nat /\ Opened' \in Nat
  BY <1>1, <1>2, <1>3, <1>4, <1>5 DEF NoBucket
<1> QED BY <1>2, <1>4, <1>7, <1>8, <1>9 DEF LimiterInv

(* One more in the window that is open.                                     *)
LEMMA AdmitCounts ==
  ASSUME LimiterInv, ~WindowOver(clock), Admit(clock), clock' = clock
  PROVE  LimiterInv'
<1> DEFINE n == Len(admitted)
<1>1. /\ bucket' = [bucket EXCEPT !.count = bucket.count + 1] /\ bucket.count < MaxRequests
      /\ admitted' = Append(admitted, clock)
  BY LimiterAssumption DEF Admit, Admits, LimiterInv
<1>2. /\ n \in Nat /\ DOMAIN admitted = 1..n /\ admitted \in Seq(Nat) /\ clock \in Nat
      /\ bucket \in [count : Nat, resetAt : Int]
      /\ bucket.count \in Nat /\ bucket.resetAt \in Int /\ bucket.count <= n
      /\ clock <= bucket.resetAt
  BY DEF LimiterInv, WindowOver
<1>3. Window \in Nat /\ Window > 0 /\ MaxRequests \in Nat /\ MaxRequests > 0
  BY LimiterAssumption
<1>4. bucket # NoBucket /\ bucket.count > 0 /\ bucket.resetAt \in Nat /\ Opened \in Nat
  <2>1. bucket # NoBucket
    BY <1>2 DEF NoBucket
  <2> QED BY <2>1 DEF LimiterInv
<1>5. /\ admitted' \in Seq(Nat) /\ Len(admitted') = n + 1 /\ DOMAIN admitted' = 1..(n + 1)
      /\ admitted'[n + 1] = clock /\ \A j \in 1..n : admitted'[j] = admitted[j]
  BY <1>1, <1>2
<1>6. /\ bucket'.count = bucket.count + 1 /\ bucket'.resetAt = bucket.resetAt
      /\ bucket' \in [count : Nat, resetAt : Int]
  BY <1>1, <1>2
<1>7. Opened' = Opened /\ Before' = Before /\ Before = n - bucket.count
  BY <1>2, <1>5, <1>6 DEF Opened, Before
<1>8. \A j \in 1..n : /\ admitted[j] \in Nat
                      /\ admitted[j] <= clock /\ admitted[j] <= bucket.resetAt
                      /\ j <= Before => admitted[j] < Opened
                      /\ j = Before + 1 => admitted[j] = Opened
                      /\ j > Before => Opened <= admitted[j]
                      /\ j <= Before - MaxRequests + 1 => admitted[j] + Window < Opened
  BY <1>2 DEF LimiterInv
<1>9. Opened <= clock
  <2>1. Before + 1 \in 1..n
    BY <1>2, <1>4, <1>7
  <2>2. admitted[Before + 1] = Opened /\ admitted[Before + 1] <= clock
    BY <1>8, <2>1
  <2> QED BY <2>2
<1> HIDE DEF n
<1>10. BurstsAreBounded'
  <2> SUFFICES ASSUME NEW i \in 1..(n + 1), i + 2 * MaxRequests - 1 \in 1..(n + 1)
               PROVE  admitted'[i + 2 * MaxRequests - 1] - admitted'[i] > Window
    BY <1>5 DEF BurstsAreBounded
  <2> DEFINE k == i + 2 * MaxRequests - 1
  <2>1. i \in 1..n /\ admitted'[i] = admitted[i]
    BY <1>2, <1>3, <1>5
  <2>2. CASE k = n + 1
    <3>1. i <= Before - MaxRequests + 1
      BY <1>1, <1>2, <1>3, <1>7, <2>2
    <3>2. admitted[i] + Window < Opened /\ admitted[i] \in Nat
      BY <1>8, <2>1, <3>1
    <3>3. admitted'[k] = clock
      BY <1>5, <2>2
    <3> QED BY <1>2, <1>3, <1>4, <1>9, <2>1, <3>2, <3>3
  <2>3. CASE k # n + 1
    <3>1. k \in 1..n
      BY <1>2, <1>3, <2>3
    <3>2. admitted[k] - admitted[i] > Window
      BY <1>2, <2>1, <3>1 DEF LimiterInv, BurstsAreBounded
    <3>3. admitted'[k] = admitted[k]
      BY <1>5, <3>1
    <3> QED BY <2>1, <3>2, <3>3
  <2> QED BY <2>2, <2>3
<1>11. \A j \in DOMAIN admitted' :
       /\ admitted'[j] <= clock /\ admitted'[j] <= bucket'.resetAt
       /\ j <= Before' => admitted'[j] < Opened'
       /\ j = Before' + 1 => admitted'[j] = Opened'
       /\ j > Before' => Opened' <= admitted'[j]
       /\ j <= Before' - MaxRequests + 1 => admitted'[j] + Window < Opened'
  <2> TAKE j \in DOMAIN admitted'
  <2>1. CASE j = n + 1
    <3>1. j > Before + 1 /\ Before \in Int
      BY <1>2, <1>4, <1>7, <2>1
    <3>2. admitted'[j] = clock /\ clock <= bucket'.resetAt /\ clock <= clock
      BY <1>2, <1>5, <1>6, <2>1
    <3>3. ~(j <= Before) /\ j # Before + 1 /\ ~(j <= Before - MaxRequests + 1)
      BY <1>2, <1>3, <2>1, <3>1
    <3> QED BY <1>7, <1>9, <3>2, <3>3
  <2>2. CASE j # n + 1
    <3>1. j \in 1..n /\ admitted'[j] = admitted[j]
      BY <1>2, <1>5, <2>2
    <3> QED BY <1>6, <1>7, <1>8, <3>1
  <2> QED BY <2>1, <2>2
<1>12. bucket'.count <= MaxRequests /\ bucket'.count <= Len(admitted') /\ bucket'.count > 0
  BY <1>1, <1>2, <1>3, <1>5, <1>6
<1>13. bucket' # NoBucket
  BY <1>12 DEF NoBucket
<1> QED BY <1>2, <1>4, <1>5, <1>6, <1>7, <1>10, <1>11, <1>12, <1>13 DEF LimiterInv

LEMMA LimiterNext ==
  ASSUME LimiterInv, AdviceNext \/ UNCHANGED adviceVars
  PROVE  LimiterInv' /\ clock' \in Nat /\ clock <= clock'
<1>1. clock \in Nat
  BY DEF LimiterInv
<1>2. CASE UNCHANGED <<bucket, admitted>> /\ clock' \in {clock, clock + 1}
  <2>1. Opened' = Opened /\ Before' = Before /\ (BurstsAreBounded' <=> BurstsAreBounded)
    BY <1>2 DEF Opened, Before, BurstsAreBounded
  <2>2. clock' \in Nat /\ clock <= clock'
    BY <1>1, <1>2
  <2>3. \A j \in DOMAIN admitted : admitted[j] <= clock'
    <3>1. \A j \in DOMAIN admitted : admitted[j] \in Nat /\ admitted[j] <= clock
      BY DEF LimiterInv
    <3> QED BY <1>1, <2>2, <3>1
  <2> QED BY <1>2, <2>1, <2>2, <2>3 DEF LimiterInv
<1>3. ASSUME NEW a \in Askers, NEW kind \in Kinds, Post(a, kind)
      PROVE  LimiterInv' /\ clock' \in Nat /\ clock <= clock'
  <2>1. clock' = clock
    BY <1>3 DEF Post
  <2>2. CASE Admit(clock)
    BY <1>1, <2>1, <2>2, AdmitOpens, AdmitCounts
  <2>3. CASE Refuse(clock)
    BY <1>2, <2>1, <2>3 DEF Refuse
  <2> QED BY <1>3, <2>2, <2>3 DEF Post
<1>4. ASSUME NEW a \in Askers, Serve(a) \/ Finish(a)
      PROVE  UNCHANGED <<bucket, admitted>> /\ clock' = clock
  BY <1>4 DEF Serve, Finish, VerifyThrows, Verify, Reload, ReadFigure, Lookup, TryModel, EndModel,
              WriteInsight, Answering
<1>5. CASE Settle \/ Tick
  BY <1>2, <1>5 DEF Settle, Tick, aiVars
<1>6. CASE ActivityNext /\ UNCHANGED <<aiVars, clock>>
  BY <1>2, <1>6 DEF aiVars
<1>7. CASE UNCHANGED adviceVars
  BY <1>2, <1>7 DEF adviceVars, aiVars
<1> QED BY <1>2, <1>3, <1>4, <1>5, <1>6, <1>7 DEF AdviceNext

-------------------------------------------------------------------------------
(* The AI routes *)

LEMMA InputIs ==
  ASSUME NEW a \in Askers
  PROVE  AiInput(query[a]) = InputFrom(query[a].kind, query[a].facts, items)
BY DEF AiInput, InputFrom, Worth, WorthIn

(* What is told to the model depends on the amounts of the rows of the      *)
(* facts alone.                                                             *)
LEMMA InputSame ==
  ASSUME NEW kind, NEW facts, NEW rows, NEW more,
         kind = "investigate" \/ \A f \in {"sent", "previous", "received"} :
                                    \A i \in facts[f] : more[i].amount = rows[i].amount
  PROVE  InputFrom(kind, facts, more) = InputFrom(kind, facts, rows)
<1>1. CASE kind = "investigate"
  BY <1>1 DEF InputFrom
<1>2. ASSUME NEW f \in {"sent", "previous", "received"},
             \A i \in facts[f] : more[i].amount = rows[i].amount
      PROVE  WorthIn(facts[f], more) = WorthIn(facts[f], rows)
  <2>1. [i \in facts[f] |-> more[i].amount] = [i \in facts[f] |-> rows[i].amount]
    BY <1>2
  <2> QED BY <2>1 DEF WorthIn
<1>3. CASE kind # "investigate"
  <2>1. /\ WorthIn(facts.sent, more) = WorthIn(facts.sent, rows)
        /\ WorthIn(facts.previous, more) = WorthIn(facts.previous, rows)
        /\ WorthIn(facts.received, more) = WorthIn(facts.received, rows)
    BY <1>2, <1>3
  <2> QED BY <2>1 DEF InputFrom
<1> QED BY <1>1, <1>3

(* Which rows are concerned does not change.                                *)
LEMMA ConcernedSame ==
  ASSUME WorldInv, Grows, NEW f, NEW to \in Nat, to <= Len(items)
  PROVE  Concerned(f, to)' = Concerned(f, to) /\ Concerned(f, to) \subseteq DOMAIN items
<1>1. 1..to \subseteq DOMAIN items
  BY FeedBounds
<1>2. \A i \in 1..to : /\ items'[i].kind = items[i].kind /\ items'[i].current = items[i].current
                       /\ items'[i].from = items[i].from /\ items'[i].to = items[i].to
  BY <1>1 DEF Grows, Becomes
<1> QED BY <1>1, <1>2 DEF Concerned

LEMMA QueryKept ==
  ASSUME WorldInv, Grows, NEW q, StepInv(q), FiguresInv(q)
  PROVE  StepInv(q)' /\ FiguresInv(q)'
<1>1. CASE q.kind = "summary" /\ q.pc # "idle"
  <2>1. /\ q.to \in Nat /\ q.to <= Len(items)
        /\ DOMAIN q.facts = Figures
        /\ q.todo \subseteq Figures /\ (q.pc # "read" => q.todo = {})
        /\ \A i \in q.before : i \in DOMAIN items /\ StillCounts(i)
    BY <1>1 DEF FiguresInv
  <2>2. \A f \in Figures : Concerned(f, q.to)' = Concerned(f, q.to)
                            /\ Concerned(f, q.to) \subseteq DOMAIN items
    BY <2>1, ConcernedSame
  <2>3. ASSUME NEW f \in Figures
        PROVE  FigureInv(q, f)' /\ q.facts[f] \subseteq DOMAIN items
    <3>1. FigureInv(q, f)
      BY <1>1 DEF FiguresInv
    <3>2. \A i \in q.facts[f] : i \in DOMAIN items /\ items[i].done > 0
      BY <2>2, <3>1 DEF FigureInv
    <3>3. \A i \in q.facts[f] : items'[i].done > 0
      BY <3>2, ItemIs DEF Grows, Becomes
    <3>4. \A i \in q.before \cap Concerned(f, q.to) : items[i].denied => items'[i].denied
      BY <2>2 DEF Grows, Becomes
    <3> QED BY <2>2, <3>1, <3>2, <3>3, <3>4 DEF FigureInv
  <2>4. \A f \in {"sent", "previous", "received"} :
          \A i \in q.facts[f] : items'[i].amount = items[i].amount
    BY <2>3 DEF Figures, Grows, Becomes
  <2>5. InputFrom(q.kind, q.facts, items') = InputFrom(q.kind, q.facts, items)
    BY <2>4, InputSame
  <2>6. Fits(q)' <=> Fits(q)
    BY <2>5 DEF Fits
  <2>7. q.to <= Len(items')
    BY <2>1, FeedBounds DEF Grows, WorldInv
  <2>8. \A i \in q.before : i \in DOMAIN items' /\ StillCounts(i)'
    BY <2>1 DEF Grows, Becomes, StillCounts
  <2> QED BY <2>1, <2>3, <2>6, <2>7, <2>8 DEF StepInv, FiguresInv
<1>2. CASE q.kind # "summary"
  <2>1. q.kind = "investigate"
    BY <1>2 DEF StepInv, Kinds
  <2>2. InputFrom(q.kind, q.facts, items') = InputFrom(q.kind, q.facts, items)
    BY <2>1 DEF InputFrom
  <2>3. Fits(q)' <=> Fits(q)
    BY <2>2 DEF Fits
  <2> QED BY <1>2, <2>3 DEF StepInv, FiguresInv
<1>3. CASE q.pc = "idle"
  BY <1>3 DEF StepInv, FiguresInv
<1> QED BY <1>1, <1>2, <1>3

LEMMA QuerySame ==
  ASSUME WorldInv, Grows, QueryInv, query' = query,
         \A a \in Askers : ask'[a].pc # "idle" <=> ask[a].pc # "idle"
  PROVE  QueryInv'
<1> SUFFICES ASSUME NEW a \in Askers
             PROVE  /\ DOMAIN query'[a] = QueryFields
                    /\ query'[a].pc = "ask" <=> ask'[a].pc # "idle"
                    /\ StepInv(query[a])' /\ FiguresInv(query[a])'
  BY DEF QueryInv, QueryFields
<1>1. PICK q : q = query[a]
  OBVIOUS
<1>2. StepInv(q)' /\ FiguresInv(q)'
  BY <1>1, QueryKept DEF QueryInv
<1>3. StepInv(query[a])' /\ FiguresInv(query[a])'
  BY <1>1, <1>2
<1> QED BY <1>1, <1>3 DEF QueryInv

LEMMA QueryChanged ==
  ASSUME WorldInv, Grows, QueryInv, NEW a \in Askers, NEW r, DOMAIN r = QueryFields,
         StepInv(r), FiguresInv(r), query' = [query EXCEPT ![a] = r],
         r.pc = "ask" <=> ask'[a].pc # "idle",
         \A b \in Askers : b # a => ask'[b] = ask[b]
  PROVE  QueryInv'
<1>1. query'[a] = r /\ DOMAIN query' = Askers /\ \A b \in Askers : b # a => query'[b] = query[b]
  BY DEF QueryInv
<1> SUFFICES ASSUME NEW b \in Askers
             PROVE  /\ DOMAIN query'[b] = QueryFields
                    /\ query'[b].pc = "ask" <=> ask'[b].pc # "idle"
                    /\ StepInv(query[b])' /\ FiguresInv(query[b])'
  BY <1>1 DEF QueryInv, QueryFields
<1>2. CASE b = a
  <2>1. StepInv(r)' /\ FiguresInv(r)'
    BY QueryKept
  <2>2. query'[b] = r
    BY <1>1, <1>2
  <2>3. StepInv(query[b])' /\ FiguresInv(query[b])'
    BY <2>1, <2>2
  <2> QED BY <1>2, <2>2, <2>3
<1>3. CASE b # a
  <2>1. PICK q : q = query[b]
    OBVIOUS
  <2>2. StepInv(q)' /\ FiguresInv(q)'
    BY <2>1, QueryKept DEF QueryInv
  <2>3. query'[b] = q /\ ask'[b] = ask[b]
    BY <1>1, <1>3, <2>1
  <2>4. StepInv(query[b])' /\ FiguresInv(query[b])'
    BY <2>2, <2>3
  <2> QED BY <2>1, <2>3, <2>4 DEF QueryInv
<1> QED BY <1>2, <1>3

(* The request of one asker, before a step of its own.                      *)
LEMMA QueryOf ==
  ASSUME QueryInv, NEW a \in Askers
  PROVE  /\ DOMAIN query[a] = QueryFields /\ DOMAIN query = Askers
         /\ query[a].pc = "ask" <=> ask[a].pc # "idle"
         /\ StepInv(query[a]) /\ FiguresInv(query[a])
BY DEF QueryInv

LEMMA FieldsAre ==
  QueryFields = {"pc", "kind", "facts", "todo", "before", "to", "insight", "age"}
BY DEF QueryFields, NoQuery

(* A request that has not got beyond its facts has no insight to judge.     *)
LEMMA PostQuery ==
  ASSUME WorldInv, Grows, QueryInv, NEW a \in Askers, NEW kind \in Kinds, Post(a, kind)
  PROVE  QueryInv'
<1>1. ask' = ask /\ query[a].pc = "idle"
  BY DEF Post
<1>2. CASE query' = query
  BY <1>1, <1>2, QuerySame
<1>3. CASE query' # query
  <2>1. PICK r : r = [NoQuery EXCEPT
             !.kind = kind,
             !.pc = IF kind = "summary" THEN "read" ELSE "verify",
             !.todo = Figures,
             !.to = Len(items),
             !.before = {i \in DOMAIN items : items[i].status = "COMPLETED"},
             !.facts = [f \in Figures |-> {}]]
    OBVIOUS
  <2>2. query' = [query EXCEPT ![a] = r]
    BY <1>3, <2>1 DEF Post
  <2>3. DOMAIN r = QueryFields
    BY <2>1 DEF QueryFields, NoQuery
  <2>4. /\ r.kind = kind /\ r.pc = (IF kind = "summary" THEN "read" ELSE "verify")
        /\ r.todo = Figures /\ r.to = Len(items) /\ r.facts = [f \in Figures |-> {}]
        /\ r.before = {i \in DOMAIN items : items[i].status = "COMPLETED"}
        /\ r.insight = NoInsight /\ r.age = -1
    BY <2>1 DEF NoQuery
  <2>5. StepInv(r)
    BY <2>4 DEF StepInv, Kinds, NoInsight
  <2>6. Len(items) \in Nat
    BY FeedBounds
  <2>7. FiguresInv(r)
    BY <2>4, <2>6 DEF FiguresInv, FigureInv, StillCounts
  <2>8. r.pc = "ask" <=> ask'[a].pc # "idle"
    BY <1>1, <2>4, QueryOf
  <2> QED BY <1>1, <2>2, <2>3, <2>5, <2>7, <2>8, QueryChanged
<1> QED BY <1>2, <1>3

LEMMA FinishQuery ==
  ASSUME WorldInv, Grows, QueryInv, NEW a \in Askers, Finish(a)
  PROVE  QueryInv'
<1>1. query[a].pc = "over" /\ ask' = ask /\ query' = [query EXCEPT ![a] = NoQuery]
  BY DEF Finish
<1>2. DOMAIN NoQuery = QueryFields /\ NoQuery.pc = "idle" /\ StepInv(NoQuery)
  BY DEF QueryFields, NoQuery, StepInv, Kinds, NoInsight
<1>3. FiguresInv(NoQuery)
  BY DEF FiguresInv, NoQuery
<1>4. NoQuery.pc = "ask" <=> ask'[a].pc # "idle"
  BY <1>1, <1>2, QueryOf
<1>5. PICK r : r = NoQuery
  OBVIOUS
<1> QED BY <1>1, <1>2, <1>3, <1>4, <1>5, QueryChanged

(* Of a transfer, the outcome and the timeline are what the facts are.      *)
LEMMA VerifyQuery ==
  ASSUME WorldInv, Grows, QueryInv, NEW a \in Askers,
         VerifyThrows(a) \/ Verify(a) \/ Reload(a)
  PROVE  QueryInv'
<1>1. PICK q : q = query[a]
  OBVIOUS
<1>2. ask' = ask /\ q.pc \in {"verify", "reload"}
  BY <1>1 DEF VerifyThrows, Verify, Reload
<1>3. /\ DOMAIN q = QueryFields /\ StepInv(q) /\ q.kind = "investigate"
      /\ q.insight = NoInsight /\ q.age = -1 /\ ask'[a].pc = "idle"
  BY <1>1, <1>2, QueryOf DEF StepInv
<1>4. PICK pc \in {"over", "reload", "lookup"} : \E facts :
        query' = [query EXCEPT ![a] = [q EXCEPT !.pc = pc, !.facts = facts]]
  <2>1. CASE VerifyThrows(a)
    <3>1. query' = [query EXCEPT ![a] = [q EXCEPT !.pc = "over"]]
      BY <1>1, <2>1 DEF VerifyThrows, Goes
    <3>2. [q EXCEPT !.pc = "over"] = [q EXCEPT !.pc = "over", !.facts = q.facts]
      BY <1>3, FieldsAre
    <3> QED BY <3>1, <3>2
  <2>2. CASE Verify(a)
    BY <1>1, <2>2 DEF Verify
  <2>3. CASE Reload(a)
    <3>1. query' = [query EXCEPT ![a] = [q EXCEPT
                      !.pc = "lookup", !.facts = [q.facts EXCEPT !.timeline = timeline]]]
      BY <1>1, <1>3, <2>3, FieldsAre DEF Reload
    <3> QED BY <3>1
  <2> QED BY <2>1, <2>2, <2>3
<1>9. PICK facts : query' = [query EXCEPT ![a] = [q EXCEPT !.pc = pc, !.facts = facts]]
  BY <1>4
<1>5. PICK r : r = [q EXCEPT !.pc = pc, !.facts = facts]
  OBVIOUS
<1>6. /\ DOMAIN r = QueryFields /\ r.pc = pc /\ r.kind = "investigate"
      /\ r.insight = NoInsight /\ r.age = -1
  BY <1>3, <1>5, FieldsAre
<1>7. StepInv(r)
  BY <1>6 DEF StepInv, Kinds, NoInsight
<1>8. FiguresInv(r)
  BY <1>6 DEF FiguresInv
<1> QED BY <1>2, <1>3, <1>5, <1>6, <1>7, <1>8, <1>9, QueryChanged

(* A figure is read: it is what is completed by now.                        *)
LEMMA FigureQuery ==
  ASSUME WorldInv, Grows, QueryInv, NEW a \in Askers, NEW f \in Figures, ReadFigure(a, f)
  PROVE  QueryInv'
<1>1. PICK q : q = query[a]
  OBVIOUS
<1>2. /\ ask' = ask /\ q.pc = "read" /\ f \in q.todo
      /\ query' = [query EXCEPT
           ![a].facts[f] = {i \in Concerned(f, q.to) : Counts(items[i].status)},
           ![a].todo = @ \ {f},
           ![a].pc = IF q.todo = {f} THEN "lookup" ELSE @]
  BY <1>1 DEF ReadFigure
<1>3. /\ DOMAIN q = QueryFields /\ StepInv(q) /\ FiguresInv(q) /\ q.kind = "summary"
      /\ q.insight = NoInsight /\ q.age = -1 /\ ask'[a].pc = "idle" /\ DOMAIN query = Askers
  BY <1>1, <1>2, QueryOf DEF StepInv
<1>4. /\ q.to \in Nat /\ q.to <= Len(items)
      /\ DOMAIN q.facts = Figures /\ q.todo \subseteq Figures
      /\ \A i \in q.before : i \in DOMAIN items /\ StillCounts(i)
      /\ \A g \in Figures : FigureInv(q, g)
  BY <1>2, <1>3 DEF FiguresInv
<1>5. PICK found : found = {i \in Concerned(f, q.to) : Counts(items[i].status)}
  OBVIOUS
<1>6. PICK r : r = [q EXCEPT !.facts = [q.facts EXCEPT ![f] = found], !.todo = q.todo \ {f},
                             !.pc = IF q.todo = {f} THEN "lookup" ELSE "read"]
  OBVIOUS
<1>7. query' = [query EXCEPT ![a] = r]
  BY <1>1, <1>2, <1>3, <1>5, <1>6, FieldsAre
<1>8. /\ DOMAIN r = QueryFields /\ r.kind = "summary" /\ r.todo = q.todo \ {f}
      /\ r.pc = (IF q.todo = {f} THEN "lookup" ELSE "read")
      /\ r.insight = NoInsight /\ r.age = -1 /\ r.to = q.to /\ r.before = q.before
      /\ r.facts = [q.facts EXCEPT ![f] = found]
  BY <1>3, <1>6, FieldsAre
<1>9. DOMAIN r.facts = Figures /\ r.facts[f] = found
      /\ \A g \in Figures : g # f => r.facts[g] = q.facts[g]
  BY <1>4, <1>8
<1>10. ASSUME NEW g \in Figures
       PROVE  FigureInv(r, g)
  <2>1. FigureInv(q, g)
    BY <1>4
  <2>2. CASE g = f
    <3>1. Concerned(f, q.to) \subseteq DOMAIN items
      BY <1>4, ConcernedSame
    <3>2. \A i \in found : items[i].done > 0
      BY <1>5, <3>1, ItemIs DEF Counts
    <3>3. \A i \in q.before \cap Concerned(f, q.to) : i \in found \/ items[i].denied
      BY <1>4, <1>5 DEF Counts, StillCounts
    <3> QED BY <1>5, <1>8, <1>9, <2>2, <3>2, <3>3 DEF FigureInv
  <2>3. CASE g # f
    BY <1>8, <1>9, <2>1, <2>3 DEF FigureInv
  <2> QED BY <2>2, <2>3
<1>11. FiguresInv(r)
  BY <1>4, <1>8, <1>9, <1>10 DEF FiguresInv
<1>12. StepInv(r)
  BY <1>8 DEF StepInv, Kinds, NoInsight
<1>13. r.pc = "ask" <=> ask'[a].pc # "idle"
  BY <1>3, <1>8
<1> QED BY <1>2, <1>7, <1>8, <1>11, <1>12, <1>13, QueryChanged

(* What is hashed is what the insight is about, so a hit fits.              *)
LEMMA LookupQuery ==
  ASSUME WorldInv, Grows, LimiterInv, CacheInv, QueryInv, AiTypeOK, NEW a \in Askers, Lookup(a)
  PROVE  QueryInv'
<1>1. PICK q : q = query[a]
  OBVIOUS
<1>2. /\ DOMAIN q = QueryFields /\ DOMAIN query = Askers /\ StepInv(q) /\ FiguresInv(q)
      /\ q.pc = "lookup" /\ q.insight = NoInsight /\ q.age = -1 /\ ask[a].pc = "idle"
      /\ q.kind \in Kinds
  BY <1>1, QueryOf DEF Lookup, StepInv
<1>3. CASE Hit(a, HashInput(a))
  <2>1. PICK key : key = HashInput(a)
    OBVIOUS
  <2>2. /\ key[1] = q.kind /\ key[2] = InputFrom(q.kind, q.facts, items)
        /\ key \in DOMAIN cache /\ cache[key].expires > clock
    BY <1>1, <1>3, <2>1, InputIs DEF HashInput, Hit, Fresh
  <2>3. PICK row : row = cache[key]
    OBVIOUS
  <2>4. /\ row.insight.source \in {"ai", "fallback"} /\ row.insight.about = key[2]
        /\ key[1] = "investigate" => row.insight.status = MoneyStatusFor(key[2].outcome)
        /\ row.made \in Nat /\ row.made <= clock
        /\ row.expires = row.made + Ttl(row.insight.source)
    BY <2>2, <2>3 DEF CacheInv, Cached
  <2>5. PICK age : age = clock - row.made
    OBVIOUS
  <2>6. PICK r : r = [q EXCEPT !.pc = "over", !.insight = row.insight, !.age = age]
    OBVIOUS
  <2>7. query' = [query EXCEPT ![a] = r] /\ ask' = ask
    BY <1>1, <1>2, <1>3, <2>1, <2>3, <2>5, <2>6, FieldsAre DEF Hit
  <2>8. /\ DOMAIN r = QueryFields /\ r.kind = q.kind /\ r.facts = q.facts /\ r.to = q.to
        /\ r.todo = q.todo /\ r.before = q.before
        /\ r.pc = "over" /\ r.insight = row.insight /\ r.age = age
    BY <1>2, <2>6, FieldsAre
  <2>9. Fits(r)
    <3>1. q.kind = "investigate" => key[2] = q.facts
      BY <2>2 DEF InputFrom
    <3> QED BY <2>2, <2>4, <2>8, <3>1 DEF Fits
  <2>10. row.insight.source = "fallback" => age < FallbackTtl
    <3> SUFFICES ASSUME row.insight.source = "fallback" PROVE age < FallbackTtl
      OBVIOUS
    <3>1. row.expires = row.made + FallbackTtl
      BY <2>4 DEF Ttl
    <3>2. row.expires > clock /\ clock \in Nat /\ FallbackTtl \in Nat
      BY <2>2, <2>3, AdviceAssumption DEF LimiterInv
    <3> QED BY <2>4, <2>5, <3>1, <3>2
  <2>11. StepInv(r)
    BY <1>2, <2>4, <2>8, <2>9, <2>10 DEF StepInv
  <2>12. FiguresInv(r)
    BY <1>2, <2>8 DEF FiguresInv, FigureInv
  <2>13. r.pc = "ask" <=> ask'[a].pc # "idle"
    BY <1>2, <2>7, <2>8
  <2> QED BY <2>7, <2>8, <2>11, <2>12, <2>13, QueryChanged
<1>4. CASE Goes(a, "ask") /\ BeginAsk(a)
  <2>1. PICK r : r = [q EXCEPT !.pc = "ask"]
    OBVIOUS
  <2>2. query' = [query EXCEPT ![a] = r]
    BY <1>1, <1>4, <2>1 DEF Goes
  <2>3. ask'[a].pc = "trying" /\ \A b \in Askers : b # a => ask'[b] = ask[b]
    BY <1>4 DEF BeginAsk, NotAsking, AiTypeOK
  <2>4. /\ DOMAIN r = QueryFields /\ r.kind = q.kind /\ r.facts = q.facts /\ r.to = q.to
        /\ r.todo = q.todo /\ r.before = q.before
        /\ r.pc = "ask" /\ r.insight = NoInsight /\ r.age = -1
    BY <1>2, <2>1, FieldsAre
  <2>5. StepInv(r)
    BY <1>2, <2>4 DEF StepInv, NoInsight
  <2>6. FiguresInv(r)
    BY <1>2, <2>4 DEF FiguresInv, FigureInv
  <2> QED BY <2>2, <2>3, <2>4, <2>5, <2>6, QueryChanged
<1> QED BY <1>3, <1>4 DEF Lookup

(* The status is the one of the outcome, whatever the model has claimed.    *)
LEMMA EndModelQuery ==
  ASSUME WorldInv, Grows, QueryInv, AiTypeOK, NEW a \in Askers, EndModel(a)
  PROVE  QueryInv'
<1>1. PICK q : q = query[a]
  OBVIOUS
<1>2. /\ DOMAIN q = QueryFields /\ DOMAIN query = Askers /\ StepInv(q) /\ FiguresInv(q)
      /\ q.pc = "ask" /\ q.age = -1 /\ q.kind \in Kinds
  BY <1>1, QueryOf DEF EndModel, StepInv
<1>3. ask'[a].pc = "idle" /\ \A b \in Askers : b # a => ask'[b] = ask[b]
  BY DEF EndModel, EndAsk, NotAsking, AiTypeOK
<1>4. PICK insight : insight = InsightFor(query[a], ask[a].answer)
  OBVIOUS
<1>5. ask[a].answer.source \in {"ai", "fallback"}
  <2>1. ask[a].answer \in Answer
    BY DEF AiTypeOK
  <2> QED BY <2>1 DEF Answer, Fallback, Model
<1>6. /\ insight.about = InputFrom(q.kind, q.facts, items)
      /\ insight.source \in {"ai", "fallback"}
      /\ q.kind = "investigate" => insight.status = MoneyStatusFor(q.facts.outcome)
  BY <1>1, <1>4, <1>5, InputIs DEF InsightFor, Forced
<1>7. PICK r : r = [q EXCEPT !.pc = "write", !.insight = insight]
  OBVIOUS
<1>8. query' = [query EXCEPT ![a] = r]
  BY <1>1, <1>2, <1>4, <1>7, FieldsAre DEF EndModel
<1>9. /\ DOMAIN r = QueryFields /\ r.kind = q.kind /\ r.facts = q.facts /\ r.to = q.to
      /\ r.todo = q.todo /\ r.before = q.before
      /\ r.pc = "write" /\ r.insight = insight /\ r.age = -1
  BY <1>2, <1>7, FieldsAre
<1>10. Fits(r)
  BY <1>6, <1>9 DEF Fits
<1>11. -1 < FallbackTtl
  BY AdviceAssumption
<1>12. StepInv(r)
  BY <1>2, <1>6, <1>9, <1>10, <1>11 DEF StepInv
<1>13. FiguresInv(r)
  BY <1>2, <1>9 DEF FiguresInv, FigureInv
<1> QED BY <1>3, <1>8, <1>9, <1>12, <1>13, QueryChanged

LEMMA WriteQuery ==
  ASSUME WorldInv, Grows, QueryInv, NEW a \in Askers, WriteInsight(a)
  PROVE  QueryInv'
<1>1. PICK q : q = query[a]
  OBVIOUS
<1>2. /\ DOMAIN q = QueryFields /\ DOMAIN query = Askers /\ StepInv(q) /\ FiguresInv(q)
      /\ q.pc = "write" /\ ask[a].pc = "idle" /\ ask' = ask
  BY <1>1, QueryOf DEF WriteInsight
<1>3. PICK r : r = [q EXCEPT !.pc = "over"]
  OBVIOUS
<1>4. query' = [query EXCEPT ![a] = r]
  BY <1>1, <1>3 DEF WriteInsight, Goes
<1>5. /\ DOMAIN r = QueryFields /\ r.kind = q.kind /\ r.facts = q.facts /\ r.to = q.to
      /\ r.todo = q.todo /\ r.before = q.before
      /\ r.pc = "over" /\ r.insight = q.insight /\ r.age = q.age
  BY <1>2, <1>3, FieldsAre
<1>6. StepInv(r)
  BY <1>2, <1>5 DEF StepInv, Fits
<1>7. FiguresInv(r)
  BY <1>2, <1>5 DEF FiguresInv, FigureInv
<1>8. r.pc = "ask" <=> ask'[a].pc # "idle"
  BY <1>2, <1>5
<1> QED BY <1>2, <1>4, <1>5, <1>6, <1>7, <1>8, QueryChanged

(* The cache: what is written fits its key, and what is there stays.        *)
LEMMA CacheKept ==
  ASSUME CacheInv, clock \in Nat, clock' \in Nat, clock <= clock', UNCHANGED cache
  PROVE  CacheInv'
<1> SUFFICES ASSUME NEW key \in DOMAIN cache
             PROVE  Cached(key)'
  BY DEF CacheInv
<1>1. Cached(key)
  BY DEF CacheInv
<1> QED BY <1>1 DEF Cached, Ttl

LEMMA WriteCache ==
  ASSUME LimiterInv, CacheInv, QueryInv, NEW a \in Askers, WriteInsight(a)
  PROVE  CacheInv'
<1>1. clock \in Nat /\ clock' = clock
  BY DEF LimiterInv, WriteInsight, Answering
<1>2. CASE UNCHANGED cache
  BY <1>1, <1>2, CacheKept
<1>3. CASE cache' = With(cache, HashInput(a), Upserted(HashInput(a), RowFor(query[a].insight)))
  <2>1. PICK q : q = query[a]
    OBVIOUS
  <2>2. StepInv(q) /\ q.pc = "write" /\ q.kind \in Kinds
    BY <2>1, QueryOf DEF WriteInsight, StepInv
  <2>3. /\ q.insight.source \in {"ai", "fallback"}
        /\ q.insight.about = InputFrom(q.kind, q.facts, items)
        /\ q.kind = "investigate" => q.insight.status = MoneyStatusFor(q.facts.outcome)
    BY <2>2 DEF StepInv, Fits
  <2>4. PICK new : new = HashInput(a)
    OBVIOUS
  <2>5. new[1] = q.kind /\ new[2] = InputFrom(q.kind, q.facts, items)
    BY <2>1, <2>4, InputIs DEF HashInput
  <2>6. PICK row : row = RowFor(q.insight)
    OBVIOUS
  <2>7. /\ row.insight = q.insight /\ row.made = clock
        /\ row.expires = row.made + Ttl(row.insight.source)
    BY <2>6 DEF RowFor
  <2>8. cache' = With(cache, new, row)
    BY <1>3, <2>1, <2>4, <2>6 DEF Upserted
  <2>9. /\ DOMAIN cache' = DOMAIN cache \cup {new} /\ cache'[new] = row
        /\ \A key \in DOMAIN cache : key # new => cache'[key] = cache[key]
    BY <2>8 DEF With
  <2> SUFFICES ASSUME NEW key \in DOMAIN cache'
               PROVE  Cached(key)'
    BY DEF CacheInv
  <2>10. CASE key = new
    <3>1. q.kind = "investigate" => new[2] = q.facts
      BY <2>5 DEF InputFrom
    <3>2. /\ row.made \in Nat /\ row.made <= clock
      BY <1>1, <2>7
    <3> QED BY <1>1, <2>2, <2>3, <2>5, <2>7, <2>9, <2>10, <3>1, <3>2 DEF Cached, Ttl
  <2>11. CASE key # new
    <3>1. Cached(key) /\ cache'[key] = cache[key]
      BY <2>9, <2>11 DEF CacheInv
    <3> QED BY <1>1, <3>1 DEF Cached, Ttl
  <2> QED BY <2>10, <2>11
<1> QED BY <1>2, <1>3 DEF WriteInsight

LEMMA AttemptTyped ==
  ASSUME AiTypeOK, NEW a \in Askers, Attempt(a)
  PROVE  AiTypeOK' /\ \A b \in Askers : ask'[b].pc # "idle" <=> ask[b].pc # "idle"
<1> USE AiAssumption
<1>1. Fallback \in Answer /\ \A claim \in Claims : Model(claim) \in Answer
  BY DEF Answer
<1>2. ask[a].attempt \in 0..MaxAttempts /\ ask[a].pc = "trying"
  BY DEF AiTypeOK, Attempt
<1>3. ASSUME NEW answer \in Answer, ask' = Answered(a, answer)
      PROVE  AiTypeOK' /\ \A b \in Askers : ask'[b].pc # "idle" <=> ask[b].pc # "idle"
  BY <1>2, <1>3 DEF AiTypeOK, Answered
<1>4. CASE ask' = [ask EXCEPT ![a].attempt = @ + 1] /\ ask[a].attempt < MaxAttempts
  <2>1. ask[a].attempt + 1 \in 0..MaxAttempts
    BY <1>2, <1>4
  <2> QED BY <1>2, <1>4, <2>1 DEF AiTypeOK
<1> QED BY <1>1, <1>3, <1>4 DEF Attempt, TriedAgain

LEMMA AskTyped ==
  ASSUME AiTypeOK, NEW a \in Askers, BeginAsk(a) \/ EndAsk(a)
  PROVE  AiTypeOK'
<1>1. Fallback \in Answer /\ 0 \in 0..MaxAttempts /\ 1 \in 0..MaxAttempts
  BY AiAssumption DEF Answer
<1>2. [NotAsking EXCEPT !.pc = "trying", !.attempt = 1] \in
        [pc : {"idle", "trying", "answered"}, attempt : 0..MaxAttempts, answer : Answer]
  BY <1>1 DEF NotAsking
<1>3. CASE BeginAsk(a)
  BY <1>1, <1>2, <1>3 DEF AiTypeOK, BeginAsk
<1>4. CASE EndAsk(a)
  BY <1>1, <1>4 DEF AiTypeOK, EndAsk, NotAsking
<1> QED BY <1>3, <1>4

LEMMA TransferTyped ==
  ASSUME TransferInv, NEW event \in {"MOVED", "VERIFIED"}
  PROVE  Append(timeline, event) \in Seq({"MOVED", "VERIFIED"})
BY DEF TransferInv

-------------------------------------------------------------------------------
(* All of it *)

LEMMA AdviceStarts ==
  ASSUME AdviceInit
  PROVE  AdviceInv
<1>1. ActivityInv
  BY ActivityStarts DEF AdviceInit
<1>2. clock = 0 /\ bucket = NoBucket /\ admitted = <<>>
  BY DEF AdviceInit, LimiterInit
<1>3. LimiterInv
  BY <1>2, LimiterAssumption DEF LimiterInv, NoBucket, BurstsAreBounded
<1>4. AiTypeOK
  BY AiAssumption DEF AdviceInit, AiInit, AiTypeOK, NotAsking, Answer
<1>5. TransferInv
  BY DEF AdviceInit, TransferInv
<1>6. CacheInv
  BY DEF AdviceInit, CacheInv
<1>7. QueryInv
  <2>1. query = [a \in Askers |-> NoQuery] /\ ask = [a \in Askers |-> NotAsking]
    BY DEF AdviceInit, AiInit
  <2>2. NoQuery.pc = "idle" /\ NotAsking.pc = "idle"
    BY DEF NoQuery, NotAsking
  <2>3. \A a \in Askers : StepInv(query[a]) /\ FiguresInv(query[a])
    BY <2>1 DEF NoQuery, StepInv, FiguresInv, Kinds, NoInsight
  <2> QED BY <2>1, <2>2, <2>3 DEF QueryInv, QueryFields
<1> QED BY <1>1, <1>3, <1>4, <1>5, <1>6, <1>7 DEF AdviceInv

(* Seen from what is read of the world, a step of the AI routes is quiet.   *)
LEMMA AdviceStep ==
  ASSUME ActivityInv, AdviceNext \/ UNCHANGED adviceVars
  PROVE  AnyStep
<1>1. scene \in SceneRow
  BY DEF ActivityInv, WorldInv
<1>2. CASE UNCHANGED activityVars
  BY <1>1, <1>2 DEF AnyStep, Quiet, activityVars
<1>3. ASSUME NEW a \in Askers, NEW kind \in Kinds, Post(a, kind)
      PROVE  AnyStep
  <2>1. scene' \in SceneRow /\ SameScene
    BY <1>1, <1>3, SceneKept DEF Post, Counters
  <2> QED BY <1>3, <2>1 DEF Post, AnyStep, Quiet, SameScene
<1>4. ASSUME NEW a \in Askers, Serve(a) \/ Finish(a)
      PROVE  AnyStep
  BY <1>2, <1>4 DEF Serve, Finish, VerifyThrows, Verify, Reload, ReadFigure, Lookup, TryModel,
                    EndModel, WriteInsight, Answering
<1>5. CASE Settle
  <2>1. scene' \in SceneRow /\ SameScene
    BY <1>1, <1>5, SceneKept DEF Settle, Counters
  <2> QED BY <1>5, <2>1 DEF Settle, AnyStep, Quiet, SameScene
<1>6. CASE Tick
  BY <1>2, <1>6 DEF Tick
<1>7. CASE ActivityNext
  BY <1>7 DEF AnyStep
<1>8. CASE UNCHANGED adviceVars
  BY <1>2, <1>8 DEF adviceVars
<1> QED BY <1>3, <1>4, <1>5, <1>6, <1>7, <1>8 DEF AdviceNext

LEMMA AdviceMoves ==
  ASSUME AdviceInv, AdviceNext \/ UNCHANGED adviceVars
  PROVE  AdviceInv'
<1>1. ActivityInv /\ WorldInv
  BY DEF AdviceInv, ActivityInv
<1>2. ActivityInv' /\ Grows
  BY <1>1, AdviceStep, ActivityMoves
<1>3. LimiterInv /\ CacheInv /\ QueryInv /\ AiTypeOK /\ TransferInv /\ clock \in Nat
  BY DEF AdviceInv, LimiterInv
<1>4. LimiterInv' /\ clock' \in Nat /\ clock <= clock'
  BY <1>3, LimiterNext
<1>5. UNCHANGED cache => CacheInv'
  BY <1>3, <1>4, CacheKept
<1>6. UNCHANGED ask => AiTypeOK'
  BY <1>3 DEF AiTypeOK
<1>7. UNCHANGED <<truth, timeline>> => TransferInv'
  BY <1>3 DEF TransferInv
<1>8. UNCHANGED <<query, ask>> => QueryInv'
  BY <1>1, <1>2, <1>3, QuerySame
<1> DEFINE Rest == CacheInv' /\ QueryInv' /\ AiTypeOK' /\ TransferInv'
<1>9. ASSUME NEW a \in Askers, NEW kind \in Kinds, Post(a, kind)
      PROVE  Rest
  <2>1. QueryInv'
    BY <1>1, <1>2, <1>3, <1>9, PostQuery
  <2> QED BY <1>5, <1>6, <1>7, <1>9, <2>1 DEF Post
<1>10. ASSUME NEW a \in Askers, Finish(a)
       PROVE  Rest
  <2>1. QueryInv'
    BY <1>1, <1>2, <1>3, <1>10, FinishQuery
  <2> QED BY <1>5, <1>6, <1>7, <1>10, <2>1 DEF Finish
<1>11. ASSUME NEW a \in Askers, VerifyThrows(a) \/ Verify(a) \/ Reload(a)
       PROVE  Rest
  <2>1. QueryInv'
    BY <1>1, <1>2, <1>3, <1>11, VerifyQuery
  <2>2. TransferInv'
    <3>1. timeline' \in {timeline, Append(timeline, "VERIFIED")} /\ truth' = truth
      BY <1>11 DEF VerifyThrows, Verify, Reload
    <3> QED BY <1>3, <3>1, TransferTyped DEF TransferInv
  <2>3. UNCHANGED <<cache, ask>>
    BY <1>11 DEF VerifyThrows, Verify, Reload
  <2> QED BY <1>5, <1>6, <2>1, <2>2, <2>3
<1>12. ASSUME NEW a \in Askers, NEW f \in Figures, ReadFigure(a, f)
       PROVE  Rest
  <2>1. QueryInv'
    BY <1>1, <1>2, <1>3, <1>12, FigureQuery
  <2> QED BY <1>5, <1>6, <1>7, <1>12, <2>1 DEF ReadFigure
<1>13. ASSUME NEW a \in Askers, Lookup(a)
       PROVE  Rest
  <2>1. QueryInv'
    BY <1>1, <1>2, <1>3, <1>13, LookupQuery
  <2>2. AiTypeOK'
    BY <1>3, <1>6, <1>13, AskTyped DEF Lookup, Hit
  <2> QED BY <1>5, <1>7, <1>13, <2>1, <2>2 DEF Lookup
<1>14. ASSUME NEW a \in Askers, TryModel(a)
       PROVE  Rest
  <2>1. AiTypeOK' /\ \A b \in Askers : ask'[b].pc # "idle" <=> ask[b].pc # "idle"
    BY <1>3, <1>14, AttemptTyped DEF TryModel
  <2>2. QueryInv'
    BY <1>1, <1>2, <1>3, <1>14, <2>1, QuerySame DEF TryModel
  <2> QED BY <1>5, <1>7, <1>14, <2>1, <2>2 DEF TryModel
<1>15. ASSUME NEW a \in Askers, EndModel(a)
       PROVE  Rest
  <2>1. QueryInv'
    BY <1>1, <1>2, <1>3, <1>15, EndModelQuery
  <2>2. AiTypeOK'
    BY <1>3, <1>15, AskTyped DEF EndModel
  <2> QED BY <1>5, <1>7, <1>15, <2>1, <2>2 DEF EndModel
<1>16. ASSUME NEW a \in Askers, WriteInsight(a)
       PROVE  Rest
  <2>1. QueryInv'
    BY <1>1, <1>2, <1>3, <1>16, WriteQuery
  <2>2. CacheInv'
    BY <1>3, <1>16, WriteCache
  <2> QED BY <1>6, <1>7, <1>16, <2>1, <2>2 DEF WriteInsight
<1>17. ASSUME NEW a \in Askers, Serve(a)
       PROVE  Rest
  BY <1>11, <1>12, <1>13, <1>14, <1>15, <1>16, <1>17 DEF Serve
<1>18. ASSUME Settle
       PROVE  Rest
  <2>1. TransferInv'
    <3>1. timeline' = Append(timeline, "MOVED") /\ truth' \in {"DELIVERED", "INDETERMINATE"}
      BY <1>18 DEF Settle
    <3> QED BY <1>3, <3>1, TransferTyped DEF TransferInv
  <2> QED BY <1>5, <1>6, <1>8, <1>18, <2>1 DEF Settle
<1>19. ASSUME Tick \/ (ActivityNext /\ UNCHANGED <<aiVars, clock>>) \/ UNCHANGED adviceVars
       PROVE  Rest
  BY <1>5, <1>6, <1>7, <1>8, <1>19 DEF Tick, aiVars, adviceVars
<1>20. Rest
  BY <1>9, <1>10, <1>17, <1>18, <1>19 DEF AdviceNext
<1> QED BY <1>2, <1>4, <1>20 DEF AdviceInv

-------------------------------------------------------------------------------
(* What the invariant is for *)

LEMMA ReportsRight ==
  ASSUME AdviceInv
  PROVE  ReadsAreTrue
<1>1. FiguresAreTrue
  <2> SUFFICES ASSUME NEW a \in Askers, query[a].kind = "summary",
                      query[a].pc \in {"lookup", "ask", "write", "over"}, NEW f \in Figures
               PROVE  /\ \A i \in query[a].before \cap Concerned(f, query[a].to) :
                           i \in query[a].facts[f] \/ items[i].denied
                      /\ \A i \in query[a].facts[f] : items[i].done > 0
    BY DEF FiguresAreTrue
  <2>1. query[a].todo = {} /\ FigureInv(query[a], f)
    BY QueryOf DEF AdviceInv, FiguresInv
  <2> QED BY <2>1 DEF FigureInv
<1> QED
  BY <1>1, ChecksAreRight, PagesMissNothing, NoticesRight DEF AdviceInv, ActivityInv, ReadsAreTrue

LEMMA AdviceRight ==
  ASSUME AdviceInv
  PROVE  AdviceIsSound
<1>1. AdviceTypeOK
  <2>1. LimiterTypeOK
    BY DEF AdviceInv, LimiterInv, LimiterTypeOK, NoBucket
  <2>2. ASSUME NEW key \in DOMAIN cache
        PROVE  /\ key[1] \in Kinds /\ cache[key].insight.source \in {"ai", "fallback"}
               /\ cache[key].made <= clock /\ cache[key].made <= cache[key].expires
    <3>1. Cached(key)
      BY DEF AdviceInv, CacheInv
    <3>2. Ttl(cache[key].insight.source) \in Nat
      BY AdviceAssumption DEF Ttl
    <3> QED BY <3>1, <3>2 DEF Cached
  <2>3. ASSUME NEW a \in Askers
        PROVE  /\ query[a].pc \in
                    {"idle", "verify", "reload", "read", "lookup", "ask", "write", "over"}
               /\ query[a].pc = "ask" <=> ask[a].pc # "idle"
    BY QueryOf DEF AdviceInv, StepInv
  <2> QED BY <2>1, <2>2, <2>3, ActivityTyped DEF AdviceInv, TransferInv, AdviceTypeOK
<1>2. AdviceFitsFacts
  <2> SUFFICES ASSUME NEW a \in Askers, query[a].pc = "over", query[a].insight.source # "none"
               PROVE  /\ query[a].insight.about = AiInput(query[a])
                      /\ query[a].kind = "investigate" =>
                           query[a].insight.status = MoneyStatusFor(query[a].facts.outcome)
    BY DEF AdviceFitsFacts
  <2>1. Fits(query[a])
    BY QueryOf DEF AdviceInv, StepInv
  <2> QED BY <2>1, InputIs DEF Fits
<1>3. FallbackIsShortLived
  BY QueryOf DEF AdviceInv, StepInv, FallbackIsShortLived
<1> QED BY <1>1, <1>2, <1>3 DEF AdviceIsSound

(* The inductive invariant of the reports, the limiter and the AI routes.   *)
THEOREM AdviceInvariant == AdviceSpec => []AdviceInv
<1>1. AdviceInit => AdviceInv
  BY AdviceStarts
<1>2. AdviceInv /\ [AdviceNext]_adviceVars => AdviceInv'
  BY AdviceMoves
<1> QED BY <1>1, <1>2, PTL DEF AdviceSpec

(* Reports say what was so: the check of the ledger raises no alarm without *)
(* a registration, who pages to the end has seen all there was, a summary   *)
(* counts only what has moved and all that was completed and not denied     *)
(* since, and nothing is told more often than it has happened.              *)
THEOREM ReportsAreTrue == AdviceSpec => []ReadsAreTrue
<1>1. AdviceInv => ReadsAreTrue
  BY ReportsRight
<1> QED BY <1>1, AdviceInvariant, PTL

(* Advice is about the facts it is given with, cached or not, and that of a *)
(* fallback is kept for FallbackTtl at most.                                *)
THEOREM AdviceFitsItsFacts == AdviceSpec => []AdviceIsSound
<1>1. AdviceInv => AdviceIsSound
  BY AdviceRight
<1> QED BY <1>1, AdviceInvariant, PTL

(* Within the length of a window the limiter lets through fewer than twice  *)
(* the limit.                                                               *)
THEOREM LimiterBounds == AdviceSpec => []BurstsAreBounded
<1>1. AdviceInv => BurstsAreBounded
  BY DEF AdviceInv, LimiterInv
<1> QED BY <1>1, AdviceInvariant, PTL
===============================================================================
