---------------------------- MODULE SessionsProofs ----------------------------
(***************************************************************************)
(* What holds of the account and of the sessions for any finite number of  *)
(* clients, any slots, limits and scenes.                                  *)
(*                                                                         *)
(* AccountInv bounds the guesses: it counts those already recorded and the *)
(* clients that are let in and not yet counted together.  SessionInv is    *)
(* about the refresh tokens: who leads a refresh and who waits (LeaderInv),*)
(* what a revoked family still has (EndedInv), which token of a family is  *)
(* live unless two handlers found one ACTIVE at once (OneLiveInv), what is *)
(* adrift (SoloInv), and, with one tab, why the user stays signed in       *)
(* (Blameless, Kept).  Every action has a lemma that it keeps them.        *)
(***************************************************************************)
EXTENDS Sessions, FiniteSetTheorems, TLAPS

(* What the variables of Accounts are.                                      *)
Code == [tries : Nat, consumed : BOOLEAN, expired : BOOLEAN]
Handler ==
  [pc : {"idle", "lock", "compare", "firstCode", "judge", "resend", "issue"},
   code : Nat, right : BOOLEAN]

(* An account that does not exist has no codes, and nobody is in one of its *)
(* handlers.                                                                *)
AccountTypes ==
  /\ account \in Statuses
  /\ codes \in Seq(Code) /\ Len(codes) <= MaxCodes
  /\ events \in Seq({"tested", "refused"}) /\ Len(events) <= MaxEvents
  /\ handler \in [Clients -> Handler]
  /\ \A c \in Clients : handler[c].pc = "judge" => handler[c].code \in DOMAIN codes
  /\ account = "none" => (codes = <<>> /\ \A c \in Clients : handler[c].pc = "idle")

(* Wrong passwords that were tested; who is let in to test one; who is let  *)
(* in to try code i.                                                        *)
Tested(log) == {i \in DOMAIN log : log[i] = "tested"}
Testing(h) == {c \in Clients : h[c].pc = "compare"}
Judging(h, i) == {c \in Clients : h[c].pc = "judge" /\ h[c].code = i}

(* The tests done and those still to come together: the lock is read before *)
(* the test and the failure is counted after it.                            *)
TestedInv ==
  Cardinality(Tested(events)) + Cardinality(Testing(handler))
        <= MaxFailures + Cardinality(Clients) - 1
(* The same of every code.                                                  *)
CodesInv ==
  \A i \in DOMAIN codes :
    codes[i].tries + Cardinality(Judging(handler, i)) <= MaxTries + Cardinality(Clients) - 1

(* The inductive invariant of Accounts.                                     *)
AccountInv == AccountTypes /\ TestedInv /\ CodesInv

-------------------------------------------------------------------------------
(* What the variables of Sessions are.                                      *)
Token == [family : Nat, status : {"ACTIVE", "ROTATED", "REVOKED"}]
Request ==
  [pc : {"idle", "sent", "unauthorized", "await"} \cup Refreshing,
   access : Nat \cup {-1}, retried : BOOLEAN, token : Nat, boot : BOOLEAN]
Scene ==
  [account : {"none", "ACTIVE"}, tabs : SUBSET Clients, slots : SUBSET Slots,
   happens : SUBSET Happenings, tokens : Nat, reloads : Int]

Active(id) == tokens[id].status = "ACTIVE"

(* A family is known by its first token; a handler that is adrift answers   *)
(* nobody.                                                                  *)
SessionTypes ==
  /\ tokens \in Seq(Token)
  /\ \A id \in DOMAIN tokens : Family(id) \in DOMAIN tokens /\ Family(Family(id)) = Family(id)
  /\ cookie \in {0} \cup DOMAIN tokens
  /\ clock \in Nat /\ stored \in -1 .. clock /\ changed \in -1 .. clock
  /\ call \in [Requests -> Request]
  /\ \A c \in Requests : call[c].pc \in {"rotate", "reuse", "ok"} => call[c].token \in DOMAIN tokens
  /\ \A c \in Requests : call[c].pc = "read" => call[c].token \in {0} \cup DOMAIN tokens
  /\ \A g \in Gone : call[g].pc \in {"idle"} \cup Serving
  /\ scene \in Scene /\ me \subseteq scene.tabs
  /\ ended \subseteq DOMAIN tokens /\ raced \subseteq ended /\ alarms \subseteq ended
  /\ twins \subseteq DOMAIN tokens

(* One call of a tab at most leads a refresh, and who waits for one waits   *)
(* for one under way.                                                       *)
LeaderInv ==
  /\ \A c \in Calls : call[c].pc # "idle" => Tab(c) \in scene.tabs
  /\ \A c, d \in Calls :
       Tab(c) = Tab(d) /\ call[c].pc \in Refreshing /\ call[d].pc \in Refreshing => c = d
  /\ \A c \in Calls : call[c].pc = "await" =>
       \E d \in Calls : Tab(d) = Tab(c) /\ call[d].pc \in Refreshing

(* A family that ended has no live token, and no token of it is being       *)
(* rotated, unless the rotation was under way when it ended.                *)
EndedInv ==
  /\ \A id \in DOMAIN tokens : Family(id) \in ended \ raced => ~Active(id)
  /\ \A c \in Requests : call[c].pc = "rotate" /\ Family(call[c].token) \in ended =>
       Family(call[c].token) \in raced

(* A family without twins has one live token at most, and that is the one   *)
(* being rotated, if any is; and one handler at most rotates it.            *)
OneLiveInv ==
  /\ \A i, j \in DOMAIN tokens :
       Active(i) /\ Active(j) /\ Family(i) = Family(j) /\ Family(i) \notin twins => i = j
  /\ \A c \in Requests, i \in DOMAIN tokens :
       /\ call[c].pc = "rotate" /\ Active(i) /\ Family(i) = Family(call[c].token)
       /\ Family(i) \notin twins
       => i = call[c].token
  /\ \A c, d \in Requests :
       /\ call[c].pc = "rotate" /\ call[d].pc = "rotate"
       /\ Family(call[c].token) = Family(call[d].token) /\ Family(call[c].token) \notin twins
       => c = d

(* Nothing is adrift before an answer was lost, and one tab has no twins.   *)
SoloInv ==
  "loss" \notin reasons =>
     /\ \A g \in Gone : call[g].pc = "idle"
     /\ OneTab => twins = {}

(* With one tab and before anything happened that may end a session: no     *)
(* call is retried but one just sent with a token, and no password was      *)
(* changed.                                                                 *)
Blameless ==
  /\ changed = -1 /\ change = {} /\ alarms = {}
  /\ account # "SUSPENDED"
  /\ tokens # <<>> => account # "none"
  /\ tokens = <<>> => (me = {} /\ \A c \in Calls : call[c].pc = "idle")
  /\ \A c \in Calls : call[c].pc = "idle" => ~call[c].boot
  /\ \A c \in Calls : call[c].retried => (call[c].pc = "sent" /\ call[c].access # -1)

(* Then the cookie is live or about to be replaced, a token on its way to   *)
(* the server is live, so is one of every family, and the tab is signed in  *)
(* or about to find out.                                                    *)
Kept ==
  /\ tokens # <<>> => cookie # 0 /\ (Active(cookie) \/ \E c \in Calls : call[c].pc = "ok")
  /\ \A c \in Calls : call[c].pc \notin {"reuse", "error"}
  /\ \A c \in Calls : call[c].pc \in {"read", "rotate", "ok"} =>
       call[c].token \in DOMAIN tokens /\ Active(call[c].token)
  /\ \A id \in DOMAIN tokens : \E j \in DOMAIN tokens : Family(j) = Family(id) /\ Active(j)
  /\ tokens # <<>> => \A t \in scene.tabs : t \in me \/ \E c \in Calls : Tab(c) = t /\ call[c].boot

(* The inductive invariant of Sessions.                                     *)
SessionInv ==
  /\ SessionTypes /\ LeaderInv /\ EndedInv /\ OneLiveInv /\ SoloInv
  /\ OneTab /\ reasons = {} => Blameless /\ Kept

-------------------------------------------------------------------------------
(* The tests of a log are finitely many, as many as its entries at most.    *)
LEMMA TestedFinite ==
  ASSUME NEW log \in Seq({"tested", "refused"})
  PROVE  /\ IsFiniteSet(Tested(log)) /\ Cardinality(Tested(log)) \in Nat
         /\ Cardinality(Tested(log)) <= Len(log)
<1>1. Len(log) \in Nat /\ DOMAIN log = 1 .. Len(log)
  OBVIOUS
<1>2. IsFiniteSet(1 .. Len(log)) /\ Cardinality(1 .. Len(log)) = Len(log)
  <2>1. (IF 1 > Len(log) THEN 0 ELSE Len(log) - 1 + 1) = Len(log)
    BY <1>1
  <2> QED  BY <1>1, <2>1, FS_Interval
<1>3. Tested(log) \in SUBSET (1 .. Len(log))
  BY <1>1 DEF Tested
<1> QED  BY <1>2, <1>3, FS_Subset, FS_CardinalityType

(* One more entry is one more test at most, and none when it is a refusal.  *)
LEMMA TestedAppend ==
  ASSUME NEW log \in Seq({"tested", "refused"}), NEW e \in {"tested", "refused"}
  PROVE  /\ Cardinality(Tested(Append(log, e))) <= Cardinality(Tested(log)) + 1
         /\ e = "refused" => Cardinality(Tested(Append(log, e))) = Cardinality(Tested(log))
<1>1. CASE e = "refused"
  <2>1. Tested(Append(log, e)) = Tested(log)
    BY <1>1 DEF Tested
  <2> QED  BY <2>1, TestedFinite
<1>2. CASE e = "tested"
  <2>1. Tested(Append(log, e)) = Tested(log) \cup {Len(log) + 1}
    BY <1>2 DEF Tested
  <2> DEFINE S == Tested(log)
  <2>2. IsFiniteSet(S) /\ Cardinality(S) \in Nat
    BY TestedFinite
  <2>3. Cardinality(Tested(Append(log, e))) = Cardinality(S \cup {Len(log) + 1})
    BY <2>1
  <2> HIDE DEF S
  <2>4. Cardinality(S \cup {Len(log) + 1}) <= Cardinality(S) + 1
    <3>1. Cardinality(S \cup {Len(log) + 1})
            = IF Len(log) + 1 \in S THEN Cardinality(S) ELSE Cardinality(S) + 1
      BY <2>2, FS_AddElement
    <3> QED  BY <2>2, <3>1
  <2> USE DEF S
  <2> QED  BY <1>2, <2>3, <2>4
<1> QED  BY <1>1, <1>2

(* Forgetting the oldest entry adds no test.                                *)
LEMMA TestedTail ==
  ASSUME NEW log \in Seq({"tested", "refused"}), log # <<>>
  PROVE  Cardinality(Tested(Tail(log))) <= Cardinality(Tested(log))
<1> DEFINE f == [i \in Tested(Tail(log)) |-> i + 1]
<1>1. Tail(log) \in Seq({"tested", "refused"}) /\ Len(Tail(log)) = Len(log) - 1 /\ Len(log) \in Nat
  OBVIOUS
<1>2. \A i \in Tested(Tail(log)) : i \in Nat /\ i + 1 \in Tested(log)
  BY <1>1 DEF Tested
<1>3. f \in Injection(Tested(Tail(log)), Tested(log))
  BY <1>2 DEF Injection, IsInjective
<1> QED  BY <1>3, TestedFinite, FS_Injection

(* Not more clients are in a handler than there are.                        *)
LEMMA HandlerFinite ==
  ASSUME NEW h \in [Clients -> Handler]
  PROVE  /\ IsFiniteSet(Testing(h)) /\ Cardinality(Testing(h)) \in Nat
         /\ Cardinality(Testing(h)) <= Cardinality(Clients)
         /\ \A i : /\ IsFiniteSet(Judging(h, i)) /\ Cardinality(Judging(h, i)) \in Nat
                  /\ Cardinality(Judging(h, i)) <= Cardinality(Clients)
         /\ Cardinality(Clients) \in Nat
<1>1. IsFiniteSet(Clients) /\ Cardinality(Clients) \in Nat
  BY AccountsAssumption, FS_CardinalityType
<1>2. \A T \in SUBSET Clients :
        IsFiniteSet(T) /\ Cardinality(T) \in Nat /\ Cardinality(T) <= Cardinality(Clients)
  BY <1>1, FS_Subset, FS_CardinalityType
<1>3. Testing(h) \in SUBSET Clients /\ \A i : Judging(h, i) \in SUBSET Clients
  BY DEF Testing, Judging
<1> QED  BY <1>1, <1>2, <1>3

(* A part of a finite set has fewer elements unless it is all of it.        *)
LEMMA FewerOf ==
  ASSUME NEW S, NEW T, IsFiniteSet(S), T \subseteq S
  PROVE  Cardinality(T) <= Cardinality(S) /\ Cardinality(T) \in Nat
         /\ \A c \in S \ T : Cardinality(T) <= Cardinality(S) - 1
<1>1. IsFiniteSet(T) /\ Cardinality(T) <= Cardinality(S) /\ Cardinality(T) \in Nat
          /\ Cardinality(S) \in Nat
  BY FS_Subset, FS_CardinalityType
<1>2. ASSUME NEW c \in S \ T PROVE Cardinality(T) <= Cardinality(S) - 1
  <2>1. IsFiniteSet(S \ {c}) /\ Cardinality(S \ {c}) = Cardinality(S) - 1
    BY FS_RemoveElement
  <2>2. T \in SUBSET (S \ {c})
    OBVIOUS
  <2> QED  BY <2>1, <2>2, FS_Subset
<1> QED  BY <1>1, <1>2

(* TestedInv stands when neither tests nor testers are added.               *)
LEMMA TestedKept ==
  ASSUME AccountTypes, AccountTypes', TestedInv,
         Cardinality(Tested(events')) <= Cardinality(Tested(events)),
         Testing(handler') \subseteq Testing(handler)
  PROVE  TestedInv'
<1>1. /\ Cardinality(Tested(events)) \in Nat /\ Cardinality(Tested(events')) \in Nat
  BY TestedFinite DEF AccountTypes
<1>2. IsFiniteSet(Testing(handler)) /\ Cardinality(Testing(handler)) \in Nat
          /\ Cardinality(Clients) \in Nat
  BY HandlerFinite DEF AccountTypes
<1>3. Cardinality(Testing(handler')) <= Cardinality(Testing(handler))
          /\ Cardinality(Testing(handler')) \in Nat
  BY <1>2, FewerOf
<1> QED  BY <1>1, <1>2, <1>3, AccountsAssumption DEF TestedInv

(* CodesInv stands when no try is counted and nobody is let in.             *)
LEMMA CodesKept ==
  ASSUME AccountTypes, AccountTypes', CodesInv, DOMAIN codes' = DOMAIN codes,
         \A i \in DOMAIN codes :
           codes'[i].tries = codes[i].tries /\ Judging(handler', i) \subseteq Judging(handler, i)
  PROVE  CodesInv'
<1> SUFFICES ASSUME NEW i \in DOMAIN codes
             PROVE  codes'[i].tries + Cardinality(Judging(handler', i))
                      <= MaxTries + Cardinality(Clients) - 1
  BY DEF CodesInv
<1>1. codes[i].tries \in Nat
  <2>1. codes[i] \in Code
    BY DEF AccountTypes
  <2> QED  BY <2>1 DEF Code
<1>2. /\ IsFiniteSet(Judging(handler, i)) /\ Cardinality(Judging(handler, i)) \in Nat
      /\ Cardinality(Clients) \in Nat
  BY HandlerFinite DEF AccountTypes
<1>3. /\ Cardinality(Judging(handler', i)) <= Cardinality(Judging(handler, i))
      /\ Cardinality(Judging(handler', i)) \in Nat
  BY <1>2, FewerOf
<1>4. codes[i].tries + Cardinality(Judging(handler, i)) <= MaxTries + Cardinality(Clients) - 1
  BY DEF CodesInv
<1> QED  BY <1>1, <1>2, <1>3, <1>4, AccountsAssumption

(* Who tests and who judges after client c has moved on.                    *)
LEMMA HandlerSets ==
  ASSUME handler \in [Clients -> Handler], NEW c \in Clients, NEW n \in Handler,
         handler' = [handler EXCEPT ![c] = n]
  PROVE  /\ handler' \in [Clients -> Handler]
         /\ handler'[c] = n /\ \A d \in Clients \ {c} : handler'[d] = handler[d]
         /\ Testing(handler') \subseteq Testing(handler) \cup {c}
         /\ n.pc # "compare" => Testing(handler') = Testing(handler) \ {c}
         /\ \A i : Judging(handler', i) \subseteq Judging(handler, i) \cup {c}
         /\ n.pc # "judge" => \A i : Judging(handler', i) = Judging(handler, i) \ {c}
<1>1. /\ handler' \in [Clients -> Handler]
      /\ handler'[c] = n /\ \A d \in Clients \ {c} : handler'[d] = handler[d]
  OBVIOUS
<1> QED  BY <1>1 DEF Testing, Judging

(* The handlers a step can lead to.                                         *)
LEMMA HandlerLeaves ==
  ASSUME AccountTypes, NEW c \in Clients
  PROVE  /\ NotIn \in Handler
         /\ handler[c] \in Handler
         /\ \A pc \in {"compare", "issue", "firstCode", "resend"} :
              [handler[c] EXCEPT !.pc = pc] \in Handler /\ [handler[c] EXCEPT !.pc = pc].pc = pc
         /\ \A right \in BOOLEAN : [NotIn EXCEPT !.pc = "lock", !.right = right] \in Handler
         /\ NotIn.pc = "idle"
         /\ \A right \in BOOLEAN : [NotIn EXCEPT !.pc = "lock", !.right = right].pc = "lock"
BY DEF AccountTypes, NotIn, Handler

(* A step of client c that lets nobody in and counts nothing.               *)
LEMMA LeftAlone ==
  ASSUME AccountInv, AccountTypes', UNCHANGED <<codes, events>>,
         NEW c \in Clients, NEW n \in Handler, handler' = [handler EXCEPT ![c] = n],
         n.pc \notin {"compare", "judge"}
  PROVE  AccountInv'
<1>1. /\ Testing(handler') \subseteq Testing(handler)
      /\ \A i : Judging(handler', i) \subseteq Judging(handler, i)
  <2>1. handler \in [Clients -> Handler]
    BY DEF AccountInv, AccountTypes
  <2>2. Testing(handler') = Testing(handler) \ {c}
    BY <2>1, HandlerSets
  <2>3. \A i : Judging(handler', i) = Judging(handler, i) \ {c}
    BY <2>1, HandlerSets
  <2> QED  BY <2>2, <2>3
<1>2. TestedInv'
  <2>1. Cardinality(Tested(events')) <= Cardinality(Tested(events))
    BY TestedFinite DEF AccountInv, AccountTypes
  <2> QED  BY <1>1, <2>1, TestedKept DEF AccountInv
<1>3. CodesInv'
  BY <1>1, CodesKept DEF AccountInv
<1> QED  BY <1>2, <1>3 DEF AccountInv

(* A failure is recorded: one more test, one tester less.                   *)
LEMMA FailedKeeps ==
  ASSUME AccountInv, NEW c \in Clients, NEW how \in {"tested", "refused"}, Failed(c, how),
         how = "tested" => handler[c].pc = "compare", UNCHANGED <<account, codes>>
  PROVE  AccountInv'
<1>1. /\ NotIn \in Handler /\ NotIn.pc = "idle"
      /\ handler \in [Clients -> Handler] /\ events \in Seq({"tested", "refused"})
  BY HandlerLeaves DEF AccountInv, AccountTypes
<1>2. /\ handler' = [handler EXCEPT ![c] = NotIn]
      /\ events' = Append(events, how) /\ Len(events') <= MaxEvents
  BY <1>1, AccountsAssumption DEF Failed, Out
<1>3. AccountTypes'
  BY <1>1, <1>2 DEF AccountInv, AccountTypes
<1>4. Testing(handler') = Testing(handler) \ {c}
  BY <1>1, <1>2, HandlerSets
<1>5. \A i : Judging(handler', i) = Judging(handler, i) \ {c}
  BY <1>1, <1>2, HandlerSets
<1>6. TestedInv'
  <2>1. CASE how = "refused"
    <3>1. Cardinality(Tested(events')) <= Cardinality(Tested(events))
      BY <1>1, <1>2, <2>1, TestedAppend, TestedFinite
    <3> QED  BY <1>3, <1>4, <3>1, TestedKept DEF AccountInv
  <2>2. CASE how = "tested"
    <3>1. c \in Testing(handler) \ Testing(handler')
      BY <1>4, <2>2 DEF Testing
    <3>2. IsFiniteSet(Testing(handler)) /\ Cardinality(Testing(handler)) \in Nat
      BY <1>1, HandlerFinite
    <3>3. /\ Cardinality(Testing(handler')) <= Cardinality(Testing(handler)) - 1
          /\ Cardinality(Testing(handler')) \in Nat
      BY <1>4, <3>1, <3>2, FewerOf
    <3>4. Cardinality(Tested(events')) <= Cardinality(Tested(events)) + 1
      BY <1>1, <1>2, TestedAppend
    <3>5. Cardinality(Tested(events')) \in Nat /\ Cardinality(Tested(events)) \in Nat
      BY <1>1, <1>3, TestedFinite DEF AccountTypes
    <3>6. Cardinality(Clients) \in Nat
      BY <1>1, HandlerFinite
    <3> QED  BY <3>2, <3>3, <3>4, <3>5, <3>6, AccountsAssumption DEF AccountInv, TestedInv
  <2> QED  BY <2>1, <2>2
<1>7. CodesInv'
  BY <1>3, <1>5, CodesKept DEF AccountInv
<1> QED  BY <1>3, <1>6, <1>7 DEF AccountInv

(* A new code has not been tried, and nobody tries it yet.                  *)
LEMMA NewCodeKeeps ==
  ASSUME AccountInv, NewCode, UNCHANGED <<account, events>>, account # "none",
         NEW c \in Clients, NEW n \in Handler, handler' = [handler EXCEPT ![c] = n],
         n.pc \notin {"compare", "judge"}
  PROVE  AccountInv'
<1> DEFINE row == [tries |-> 0, consumed |-> FALSE, expired |-> FALSE]
<1>1. /\ handler \in [Clients -> Handler] /\ codes \in Seq(Code) /\ row \in Code
      /\ codes' = Append(codes, row) /\ Len(codes) < MaxCodes
  BY DEF AccountInv, AccountTypes, NewCode, Code
<1>2. /\ codes' \in Seq(Code) /\ Len(codes') = Len(codes) + 1 /\ Len(codes) \in Nat
      /\ DOMAIN codes' = DOMAIN codes \cup {Len(codes) + 1}
      /\ codes'[Len(codes) + 1] = row /\ \A i \in DOMAIN codes : codes'[i] = codes[i]
  <2> HIDE DEF row
  <2> QED  BY <1>1
<1>3. AccountTypes'
  BY <1>1, <1>2, AccountsAssumption DEF AccountInv, AccountTypes
<1>4. Testing(handler') = Testing(handler) \ {c}
  BY <1>1, HandlerSets
<1>5. \A i : Judging(handler', i) = Judging(handler, i) \ {c}
  BY <1>1, HandlerSets
<1>6. TestedInv'
  <2>1. Cardinality(Tested(events')) <= Cardinality(Tested(events))
    BY TestedFinite DEF AccountInv, AccountTypes
  <2> QED  BY <1>3, <1>4, <2>1, TestedKept DEF AccountInv
<1>7. CodesInv'
  <2> SUFFICES ASSUME NEW i \in DOMAIN codes'
               PROVE  codes'[i].tries + Cardinality(Judging(handler', i))
                        <= MaxTries + Cardinality(Clients) - 1
    BY DEF CodesInv
  <2>1. CASE i = Len(codes) + 1
    <3>1. \A d \in Clients : handler[d].pc = "judge" => handler[d].code # i
      BY <1>1, <2>1 DEF AccountInv, AccountTypes
    <3>2. Judging(handler', i) = {}
      BY <1>5, <3>1 DEF Judging
    <3>3. Cardinality(Judging(handler', i)) = 0
      BY <3>2, FS_EmptySet
    <3> QED  BY <1>2, <2>1, <3>3, <1>1, HandlerFinite, AccountsAssumption
  <2>2. CASE i \in DOMAIN codes
    <3>1. /\ Cardinality(Judging(handler', i)) <= Cardinality(Judging(handler, i))
          /\ Cardinality(Judging(handler', i)) \in Nat /\ Cardinality(Judging(handler, i)) \in Nat
          /\ Cardinality(Clients) \in Nat
      BY <1>1, <1>5, HandlerFinite, FewerOf
    <3>2. codes[i] \in Code
      BY <1>1, <2>2
    <3> QED  BY <1>2, <2>2, <3>1, <3>2, AccountsAssumption DEF AccountInv, CodesInv, Code
  <2> QED  BY <1>2, <2>1, <2>2
<1> QED  BY <1>3, <1>6, <1>7 DEF AccountInv

-------------------------------------------------------------------------------
(* A code that is marked has the tries it had.                              *)
LEMMA CodesMarked ==
  ASSUME AccountInv, AccountTypes', UNCHANGED <<events, handler>>, DOMAIN codes' = DOMAIN codes,
         \A i \in DOMAIN codes : codes'[i].tries = codes[i].tries
  PROVE  AccountInv'
<1>1. TestedInv'
  <2>1. Cardinality(Tested(events')) <= Cardinality(Tested(events))
    BY TestedFinite DEF AccountInv, AccountTypes
  <2> QED  BY <2>1, TestedKept DEF AccountInv
<1>2. CodesInv'
  BY CodesKept DEF AccountInv
<1> QED  BY <1>1, <1>2 DEF AccountInv

(* The end of a handler.                                                    *)
LEMMA HandlerLeavesFor ==
  ASSUME AccountInv, NEW c \in Clients, Abort(c) \/ (Out(c)
             /\ UNCHANGED <<account, codes, cooled, events>>)
  PROVE  AccountInv'
<1>1. NotIn \in Handler /\ NotIn.pc = "idle" /\ handler \in [Clients -> Handler]
  BY HandlerLeaves DEF AccountInv, AccountTypes
<1>2. handler' = [handler EXCEPT ![c] = NotIn] /\ UNCHANGED <<account, codes, events>>
  BY DEF Abort, Out
<1>3. AccountTypes'
  BY <1>1, <1>2 DEF AccountInv, AccountTypes
<1> QED  BY <1>1, <1>2, <1>3, LeftAlone

(* register and the start of resendVerification.                            *)
LEMMA RegisterKeeps ==
  ASSUME AccountInv, NEW c \in Clients, Register(c) \/ AskResend(c)
  PROVE  AccountInv'
<1>1. handler[c] \in Handler /\ handler \in [Clients -> Handler]
  BY HandlerLeaves DEF AccountInv, AccountTypes
<1>2. PICK n \in Handler : handler' = [handler EXCEPT ![c] = n] /\ n.pc \in {"firstCode", "resend"}
  BY <1>1 DEF Register, AskResend, In, Handler
<1>3. UNCHANGED <<codes, events>> /\ account' \in Statuses /\ account' # "none"
  BY DEF Register, AskResend, Statuses
<1>4. AccountTypes'
  BY <1>1, <1>2, <1>3 DEF AccountInv, AccountTypes
<1> QED  BY <1>2, <1>3, <1>4, LeftAlone

(* The code of a registration, and another one.                             *)
LEMMA CodeKeeps ==
  ASSUME AccountInv, NEW c \in Clients, FirstCode(c) \/ Resend(c)
  PROVE  AccountInv'
<1>1. /\ handler[c] \in Handler /\ handler \in [Clients -> Handler]
      /\ NotIn \in Handler /\ NotIn.pc = "idle"
  BY HandlerLeaves DEF AccountInv, AccountTypes
<1>2. PICK n \in Handler : handler' = [handler EXCEPT ![c] = n] /\ n.pc \in {"issue", "idle"}
  BY <1>1 DEF FirstCode, Resend, In, Out, Handler
<1>3. NewCode /\ UNCHANGED <<account, events>> /\ account # "none"
  BY DEF FirstCode, Resend, AccountInv, AccountTypes
<1> QED  BY <1>2, <1>3, NewCodeKeeps

(* verifyEmail reads the newest code: one more client is let in to a code   *)
(* with fewer tries than the limit.                                         *)
LEMMA BeginVerifyKeeps ==
  ASSUME AccountInv, NEW c \in Clients, NEW right \in BOOLEAN, BeginVerify(c, right)
  PROVE  AccountInv'
<1> DEFINE k == Len(codes)
           n == [pc |-> "judge", code |-> k, right |-> right]
<1>1. /\ handler \in [Clients -> Handler] /\ codes \in Seq(Code) /\ codes # <<>>
      /\ k \in Nat \ {0} /\ DOMAIN codes = 1 .. k /\ UNCHANGED <<account, codes, events>>
      /\ n \in Handler /\ n.pc = "judge" /\ n.code = k
      /\ handler' = [handler EXCEPT ![c] = n]
      /\ ~(codes[k].tries >= MaxTries) /\ account # "none"
  BY DEF AccountInv, AccountTypes, BeginVerify, Handler, TriedTooOften, MayLogIn
<1> HIDE DEF n, k
<1>2. AccountTypes'
  BY <1>1 DEF AccountInv, AccountTypes
<1>3. /\ Testing(handler') = Testing(handler) \ {c}
      /\ \A i : Judging(handler', i) \subseteq Judging(handler, i) \cup {c}
  BY <1>1, HandlerSets
<1>4. TestedInv'
  <2>1. Cardinality(Tested(events')) <= Cardinality(Tested(events))
    BY <1>1, TestedFinite DEF AccountInv, AccountTypes
  <2> QED  BY <1>2, <1>3, <2>1, TestedKept DEF AccountInv
<1>5. CodesInv'
  <2> SUFFICES ASSUME NEW i \in DOMAIN codes
               PROVE  codes[i].tries + Cardinality(Judging(handler', i))
                        <= MaxTries + Cardinality(Clients) - 1
    BY <1>1 DEF CodesInv
  <2>1. codes[i].tries \in Nat
    <3>1. codes[i] \in Code
      BY <1>1
    <3> QED  BY <3>1 DEF Code
  <2>2. /\ handler' \in [Clients -> Handler]
        /\ Cardinality(Judging(handler', i)) \in Nat
        /\ Cardinality(Judging(handler', i)) <= Cardinality(Clients)
        /\ Cardinality(Clients) \in Nat
    BY <1>2, HandlerFinite DEF AccountTypes
  <2>3. CASE i = k
    BY <1>1, <2>1, <2>2, <2>3, AccountsAssumption
  <2>4. CASE i # k
    <3>1. Judging(handler', i) \subseteq Judging(handler, i)
      BY <1>1, <2>4 DEF Judging
    <3>2. /\ Cardinality(Judging(handler', i)) <= Cardinality(Judging(handler, i))
          /\ Cardinality(Judging(handler, i)) \in Nat
      BY <1>1, <3>1, HandlerFinite, FewerOf
    <3> QED  BY <2>1, <2>2, <3>2, AccountsAssumption DEF AccountInv, CodesInv
  <2> QED  BY <2>3, <2>4
<1> QED  BY <1>2, <1>4, <1>5 DEF AccountInv

(* A wrong code is counted: one more try, one client in less.               *)
LEMMA JudgeKeeps ==
  ASSUME AccountInv, NEW c \in Clients, Judge(c)
  PROVE  AccountInv'
<1> DEFINE i == handler[c].code
<1>1. /\ handler \in [Clients -> Handler] /\ codes \in Seq(Code) /\ i \in DOMAIN codes
      /\ NotIn \in Handler /\ NotIn.pc = "idle" /\ handler[c].pc = "judge"
      /\ handler' = [handler EXCEPT ![c] = NotIn] /\ UNCHANGED events
      /\ account # "none" /\ account' \in Statuses /\ account' # "none"
  BY HandlerLeaves DEF AccountInv, AccountTypes, Judge, Out, Activated, Statuses
<1>2. PICK row : /\ codes' = [codes EXCEPT ![i] = row] /\ row \in Code
                 /\ row.tries \in {codes[i].tries, codes[i].tries + 1}
  <2>1. codes[i] \in Code
    BY <1>1
  <2>2. CASE handler[c].right
    <3> DEFINE row == [codes[i] EXCEPT !.consumed = TRUE]
    <3>1. codes' = [codes EXCEPT ![i] = row]
      BY <2>2 DEF Judge
    <3>2. row \in Code /\ row.tries = codes[i].tries
      BY <2>1 DEF Code
    <3> HIDE DEF row
    <3> QED  BY <3>1, <3>2
  <2>3. CASE ~handler[c].right
    <3> DEFINE row == [codes[i] EXCEPT !.tries = codes[i].tries + 1]
    <3>1. codes' = [codes EXCEPT ![i] = row]
      BY <2>3 DEF Judge
    <3>2. row \in Code /\ row.tries = codes[i].tries + 1
      BY <2>1 DEF Code
    <3> HIDE DEF row
    <3> QED  BY <3>1, <3>2
  <2> QED  BY <2>2, <2>3
<1> HIDE DEF i
<1>3. /\ codes' \in Seq(Code) /\ DOMAIN codes' = DOMAIN codes /\ Len(codes') = Len(codes)
      /\ codes'[i] = row /\ \A j \in DOMAIN codes \ {i} : codes'[j] = codes[j]
  BY <1>1, <1>2
<1>4. AccountTypes'
  BY <1>1, <1>3 DEF AccountInv, AccountTypes
<1>5. /\ Testing(handler') = Testing(handler) \ {c}
      /\ \A j : Judging(handler', j) = Judging(handler, j) \ {c}
  BY <1>1, HandlerSets
<1>6. TestedInv'
  <2>1. Cardinality(Tested(events')) <= Cardinality(Tested(events))
    BY <1>1, TestedFinite DEF AccountInv, AccountTypes
  <2> QED  BY <1>4, <1>5, <2>1, TestedKept DEF AccountInv
<1>7. CodesInv'
  <2> SUFFICES ASSUME NEW j \in DOMAIN codes
               PROVE  codes'[j].tries + Cardinality(Judging(handler', j))
                        <= MaxTries + Cardinality(Clients) - 1
    BY <1>3 DEF CodesInv
  <2>1. codes[j].tries \in Nat
    <3>1. codes[j] \in Code
      BY <1>1
    <3> QED  BY <3>1 DEF Code
  <2>2. /\ IsFiniteSet(Judging(handler, j)) /\ Cardinality(Judging(handler, j)) \in Nat
        /\ Cardinality(Clients) \in Nat
    BY <1>1, HandlerFinite
  <2>3. /\ Cardinality(Judging(handler', j)) <= Cardinality(Judging(handler, j))
        /\ Cardinality(Judging(handler', j)) \in Nat
    BY <1>5, <2>2, FewerOf
  <2>4. codes[j].tries + Cardinality(Judging(handler, j)) <= MaxTries + Cardinality(Clients) - 1
    BY DEF AccountInv, CodesInv
  <2>5. CASE j # i
    BY <1>3, <2>1, <2>2, <2>3, <2>4, <2>5, AccountsAssumption
  <2>6. CASE j = i
    <3>1. c \in Judging(handler, j) \ Judging(handler', j)
      BY <1>1, <1>5, <2>6 DEF Judging, i
    <3>2. Cardinality(Judging(handler', j)) <= Cardinality(Judging(handler, j)) - 1
      BY <1>5, <2>2, <3>1, FewerOf
    <3> QED  BY <1>2, <1>3, <2>1, <2>2, <2>3, <2>4, <2>6, <3>2, AccountsAssumption
  <2> QED  BY <2>5, <2>6
<1> QED  BY <1>4, <1>6, <1>7 DEF AccountInv

(* login reads the user.                                                    *)
LEMMA BeginLoginKeeps ==
  ASSUME AccountInv, NEW c \in Clients, NEW right \in BOOLEAN, BeginLogin(c, right)
  PROVE  AccountInv'
<1>1. CASE Failed(c, "refused")
  BY <1>1, FailedKeeps DEF BeginLogin
<1>2. CASE ~Failed(c, "refused")
  <2>1. PICK n \in Handler : handler' = [handler EXCEPT ![c] = n] /\ n.pc = "lock"
    BY <1>2, HandlerLeaves DEF BeginLogin, AccountInv
  <2>2. UNCHANGED <<account, codes, events>> /\ account # "none"
    BY <1>2 DEF BeginLogin
  <2>3. AccountTypes'
    BY <2>1, <2>2 DEF AccountInv, AccountTypes
  <2> QED  BY <2>1, <2>2, <2>3, LeftAlone
<1> QED  BY <1>1, <1>2

(* login reads the lock: one more client tests, after fewer failures than   *)
(* the limit.                                                               *)
LEMMA ReadLockKeeps ==
  ASSUME AccountInv, NEW c \in Clients, ReadLock(c)
  PROVE  AccountInv'
<1>1. CASE Locked /\ Failed(c, "refused")
  BY <1>1, FailedKeeps DEF ReadLock
<1>2. CASE ~Locked /\ In(c, "compare") /\ UNCHANGED events
  <2>1. handler \in [Clients -> Handler] /\ handler[c].pc = "lock" /\ handler[c] \in Handler
    BY DEF AccountInv, AccountTypes, ReadLock
  <2>2. PICK n \in Handler : handler' = [handler EXCEPT ![c] = n] /\ n.pc = "compare"
    BY <1>2, HandlerLeaves DEF In, AccountInv
  <2>3. UNCHANGED <<account, codes, events>> /\ Len(events) < MaxFailures
    BY <1>2, AccountsAssumption DEF ReadLock, Locked, AccountInv, AccountTypes
  <2>4. AccountTypes'
    BY <2>1, <2>2, <2>3 DEF AccountInv, AccountTypes
  <2>5. \A i : Judging(handler', i) = Judging(handler, i) \ {c}
    BY <2>1, <2>2, HandlerSets
  <2>6. TestedInv'
    <3>1. /\ handler' \in [Clients -> Handler] /\ events \in Seq({"tested", "refused"})
          /\ events' = events /\ Len(events) \in Nat
      BY <2>3, <2>4 DEF AccountTypes
    <3>2. /\ Cardinality(Tested(events)) \in Nat
          /\ Cardinality(Tested(events)) <= Len(events)
      BY <3>1, TestedFinite
    <3>3. /\ Cardinality(Testing(handler')) \in Nat /\ Cardinality(Clients) \in Nat
          /\ Cardinality(Testing(handler')) <= Cardinality(Clients)
      BY <3>1, HandlerFinite
    <3> QED  BY <2>3, <3>1, <3>2, <3>3, AccountsAssumption DEF TestedInv
  <2>7. CodesInv'
    BY <2>3, <2>4, <2>5, CodesKept DEF AccountInv
  <2> QED  BY <2>4, <2>6, <2>7 DEF AccountInv
<1> QED  BY <1>1, <1>2 DEF ReadLock

(* login compares the password.                                             *)
LEMMA CompareKeeps ==
  ASSUME AccountInv, NEW c \in Clients, Compare(c)
  PROVE  AccountInv'
<1>1. CASE Failed(c, "tested")
  BY <1>1, FailedKeeps DEF Compare
<1>2. CASE In(c, "issue") /\ UNCHANGED events
  <2>1. PICK n \in Handler : handler' = [handler EXCEPT ![c] = n] /\ n.pc = "issue"
    BY <1>2, HandlerLeaves DEF In, AccountInv
  <2>2. UNCHANGED <<account, codes, events>> /\ handler[c].pc = "compare"
    BY <1>2 DEF Compare
  <2>3. AccountTypes'
    BY <2>1, <2>2 DEF AccountInv, AccountTypes
  <2> QED  BY <2>1, <2>2, <2>3, LeftAlone
<1> QED  BY <1>1, <1>2 DEF Compare

(* Time passes, or the account is suspended.                                *)
LEMMA TimeKeeps ==
  ASSUME AccountInv, Forget \/ CoolDown \/ ExpireCode \/ Suspend \/ UNCHANGED accountVars
  PROVE  AccountInv'
<1> USE DEF AccountInv
<1>1. CASE Forget
  <2>1. /\ events \in Seq({"tested", "refused"}) /\ events # <<>> /\ events' = Tail(events)
        /\ UNCHANGED <<account, codes, handler>>
    BY <1>1 DEF Forget, AccountTypes
  <2>2. events' \in Seq({"tested", "refused"}) /\ Len(events') = Len(events) - 1
            /\ Len(events) \in Nat
    BY <2>1
  <2>3. AccountTypes'
    BY <2>1, <2>2, AccountsAssumption DEF AccountTypes
  <2>4. Cardinality(Tested(events')) <= Cardinality(Tested(events))
    BY <2>1, TestedTail
  <2>5. TestedInv' /\ CodesInv'
    BY <2>1, <2>3, <2>4, TestedKept, CodesKept
  <2> QED  BY <2>3, <2>5
<1>2. CASE ExpireCode
  <2>1. PICK i \in DOMAIN codes : codes' = [codes EXCEPT ![i] = [codes[i] EXCEPT !.expired = TRUE]]
    BY <1>2 DEF ExpireCode
  <2>2. codes \in Seq(Code) /\ codes[i] \in Code /\ UNCHANGED <<account, events, handler>>
    BY <1>2 DEF ExpireCode, AccountTypes
  <2> DEFINE row == [codes[i] EXCEPT !.expired = TRUE]
  <2>3. row \in Code /\ row.tries = codes[i].tries
    BY <2>2 DEF Code
  <2>4. codes' = [codes EXCEPT ![i] = row]
    BY <2>1
  <2> HIDE DEF row
  <2>5. /\ codes' \in Seq(Code) /\ DOMAIN codes' = DOMAIN codes /\ Len(codes') = Len(codes)
        /\ codes'[i] = row /\ \A j \in DOMAIN codes \ {i} : codes'[j] = codes[j]
    BY <2>2, <2>3, <2>4
  <2>6. AccountTypes'
    BY <2>2, <2>5 DEF AccountTypes
  <2> QED  BY <2>2, <2>3, <2>5, <2>6, CodesMarked
<1>3. CASE CoolDown \/ Suspend \/ UNCHANGED accountVars
  <2>1. /\ UNCHANGED <<codes, events, handler>>
        /\ (account' = account) \/ (account' = "SUSPENDED" /\ account # "none")
    BY <1>3 DEF CoolDown, Suspend, accountVars, MayLogIn
  <2>2. AccountTypes'
    BY <2>1 DEF AccountTypes, Statuses
  <2> QED  BY <2>1, <2>2, CodesMarked
<1> QED  BY <1>1, <1>2, <1>3

(* Every step keeps AccountInv.                                             *)
LEMMA AccountStep ==
  ASSUME AccountInv, [SessionsNext]_authVars
  PROVE  AccountInv'
<1>1. ASSUME AccountNext PROVE AccountInv'
  BY <1>1, HandlerLeavesFor, RegisterKeeps, CodeKeeps, BeginVerifyKeeps, JudgeKeeps,
         BeginLoginKeeps,
     ReadLockKeeps, CompareKeeps, TimeKeeps DEF AccountNext, Handle
<1>2. ASSUME NEW t \in Clients, SignIn(t) PROVE AccountInv'
  BY <1>2, HandlerLeavesFor DEF SignIn
<1>3. ASSUME SuspendUser PROVE AccountInv'
  BY <1>3, TimeKeeps DEF SuspendUser
<1>4. ASSUME UNCHANGED accountVars PROVE AccountInv'
  BY <1>4, TimeKeeps
<1>5. ASSUME NEW c, RefreshStep(c) PROVE UNCHANGED accountVars
  BY <1>5 DEF RefreshStep, ReadToken, ReuseDetected, Rotate
<1>6. ASSUME NEW c, Answered(c) \/ Unauthorized(c) \/ Refreshed(c) \/ RefreshError(c)
      PROVE  UNCHANGED accountVars
  BY <1>6 DEF Answered, Unauthorized, Refreshed, RefreshError
<1>7. ASSUME NEW c \in Calls,
             Send(c) \/ LoseRefresh(c) \/ LoseWallet(c) \/ RefreshFails(c) \/ RefreshLimited(c)
      PROVE  UNCHANGED accountVars
  BY <1>7 DEF Send, LoseRefresh, LoseWallet, RefreshFails, RefreshLimited
<1>8. ASSUME NEW t \in Clients, Logout(t) \/ Reload(t) \/ ChangePassword(t) \/ RevokeAll(t)
      PROVE  UNCHANGED accountVars
  BY <1>8 DEF Logout, Reload, ChangePassword, RevokeAll
<1>9. ASSUME Tick \/ UNCHANGED authVars PROVE UNCHANGED accountVars
  BY <1>9 DEF Tick, authVars
<1> QED
  BY <1>1, <1>2, <1>3, <1>4, <1>5, <1>6, <1>7, <1>8, <1>9 DEF SessionsNext, CallStep

(* The first state satisfies AccountInv.                                    *)
LEMMA AccountBegins ==
  ASSUME SessionsInit
  PROVE  AccountInv
<1>1. /\ account \in {"none", "ACTIVE"} /\ codes = <<>> /\ events = <<>>
      /\ handler = [c \in Clients |-> NotIn]
  BY DEF SessionsInit, AccountsInit
<1>2. AccountTypes
  BY <1>1, AccountsAssumption DEF AccountTypes, Statuses, NotIn, Handler
<1>3. Testing(handler) = {} /\ Tested(events) = {}
  BY <1>1 DEF Testing, Tested, NotIn
<1>4. TestedInv
  BY <1>2, <1>3, FS_EmptySet, HandlerFinite, AccountsAssumption DEF TestedInv, AccountTypes
<1>5. CodesInv
  BY <1>1 DEF CodesInv
<1> QED  BY <1>2, <1>4, <1>5 DEF AccountInv

(* In no window are more wrong passwords tested, and of no code more wrong  *)
(* guesses judged, than the limit and one more for every further client let *)
(* in at the same time, although the limits are read in one statement and   *)
(* counted in another (login, verifyEmail): for any number of clients and   *)
(* any limits.                                                              *)
THEOREM GuessingBounded == SessionsSpec => []GuessingIsBounded
<1>1. SessionsInit => AccountInv
  BY AccountBegins
<1>2. AccountInv => GuessingIsBounded
  <2> SUFFICES ASSUME AccountInv PROVE GuessingIsBounded
    OBVIOUS
  <2>1. /\ handler \in [Clients -> Handler] /\ codes \in Seq(Code)
        /\ events \in Seq({"tested", "refused"})
    BY DEF AccountInv, AccountTypes
  <2>2. \A i \in DOMAIN codes : codes[i] \in Code
    BY <2>1
  <2>3. /\ Cardinality(Tested(events)) \in Nat /\ Cardinality(Testing(handler)) \in Nat
        /\ Cardinality(Clients) \in Nat /\ \A i : Cardinality(Judging(handler, i)) \in Nat
    BY <2>1, TestedFinite, HandlerFinite
  <2>4. Cardinality(Tested(events)) <= MaxFailures + (Cardinality(Clients) - 1)
    BY <2>3, AccountsAssumption DEF AccountInv, TestedInv
  <2>5. \A i \in DOMAIN codes : codes[i].tries <= MaxTries + (Cardinality(Clients) - 1)
    BY <2>2, <2>3, AccountsAssumption DEF AccountInv, CodesInv, Code
  <2> QED  BY <2>4, <2>5 DEF GuessingIsBounded, Tested
<1> QED  BY <1>1, <1>2, AccountStep, PTL DEF SessionsSpec

-------------------------------------------------------------------------------
(* What the types say, for citing.                                          *)
LEMMA ManyMarked ==
  ASSUME SessionTypes
  PROVE  /\ tokens \in Seq(Token) /\ Len(tokens) \in Nat /\ DOMAIN tokens = 1 .. Len(tokens)
         /\ \A id \in DOMAIN tokens : /\ tokens[id] \in Token /\ id \in Nat \ {0}
                                      /\ Family(id) = tokens[id].family
         /\ \A c \in Requests : call[c] \in Request /\ Tab(c) \in Clients
         /\ NoCall \in Request /\ NoCall.pc = "idle" /\ scene.tabs \subseteq Clients
BY DEF SessionTypes, Family, Request, NoCall, Scene, Requests, Calls, Gone, Tab

(* A request of a page is not adrift.                                       *)
LEMMA Apart ==
  /\ Calls \subseteq Requests /\ Gone \subseteq Requests
  /\ \A c \in Requests : (c \in Calls \/ c \in Gone) /\ ~(c \in Calls /\ c \in Gone)
BY SlotsAssumption DEF Requests, Calls, Gone

(* Nothing is set adrift by a step that loses no answer.                    *)
LEMMA SoloKept ==
  ASSUME SessionInv, reasons \subseteq reasons', scene'.tabs = scene.tabs, twins' = twins,
         "loss" \in reasons' \/ \A g \in Gone : call'[g].pc = call[g].pc
  PROVE  SoloInv'
BY DEF SessionInv, SoloInv, OneTab

(* No token moves, and every request that is being served was so before,    *)
(* perhaps in another slot.                                                 *)
LEMMA CoreKept ==
  ASSUME SessionInv, UNCHANGED <<tokens, ended, raced, twins, alarms, clock, changed>>,
         scene' \in Scene, scene'.tabs = scene.tabs, call' \in [Requests -> Request],
         stored' \in -1 .. clock, me' \subseteq scene.tabs, cookie' \in {0} \cup DOMAIN tokens,
         NEW from \in [Requests -> Requests],
         \A d \in Requests : call'[d].pc \in Serving \cup {"ok"} =>
           call'[d].pc = call[from[d]].pc /\ call'[d].token = call[from[d]].token,
         \A d, e \in Requests :
           call'[d].pc = "rotate" /\ call'[e].pc = "rotate" /\ from[d] = from[e] => d = e,
         \A g \in Gone : call'[g].pc \in {"idle"} \cup Serving
  PROVE  SessionTypes' /\ EndedInv' /\ OneLiveInv'
<1>1. \A i : (Family(i)' = Family(i)) /\ (Active(i)' = Active(i))
  BY DEF Family, Active
<1>2. SessionTypes'
  BY <1>1 DEF SessionInv, SessionTypes, Serving
<1>3. \A d \in Requests : call'[d].pc = "rotate" =>
        from[d] \in Requests /\ call[from[d]].pc = "rotate" /\ call'[d].token = call[from[d]].token
  BY DEF Serving
<1>4. EndedInv'
  BY <1>1, <1>3 DEF SessionInv, EndedInv
<1>5. OneLiveInv'
  <2>1. \A i, j \in DOMAIN tokens' :
          Active(i)' /\ Active(j)' /\ Family(i)' = Family(j)' /\ Family(i)' \notin twins' => i = j
    BY <1>1 DEF SessionInv, OneLiveInv
  <2>2. \A c \in Requests, i \in DOMAIN tokens' :
          /\ call'[c].pc = "rotate" /\ Active(i)' /\ Family(i)' = Family(call[c].token)'
          /\ Family(i)' \notin twins'
          => i = call'[c].token
    BY <1>1, <1>3 DEF SessionInv, OneLiveInv, Family
  <2>3. \A c, d \in Requests :
          /\ call'[c].pc = "rotate" /\ call'[d].pc = "rotate"
          /\ Family(call[c].token)' = Family(call[d].token)' /\ Family(call[c].token)' \notin twins'
          => c = d
    BY <1>1, <1>3 DEF SessionInv, OneLiveInv, Family
  <2> QED  BY <2>1, <2>2, <2>3 DEF OneLiveInv
<1> QED  BY <1>2, <1>4, <1>5

(* Revoking families marks their tokens and leaves the others.              *)
LEMMA RevokedTokens ==
  ASSUME SessionTypes, NEW families, tokens' = Revoked(families)
  PROVE  /\ tokens' \in Seq(Token) /\ DOMAIN tokens' = DOMAIN tokens
         /\ \A id \in DOMAIN tokens : /\ Family(id)' = Family(id)
                                      /\ Active(id)' <=> (Active(id) /\ Family(id) \notin families)
<1>1. tokens \in Seq(Token) /\ \A id \in DOMAIN tokens : tokens[id] \in Token
  BY ManyMarked
<1>2. \A id \in DOMAIN tokens :
        [tokens[id] EXCEPT !.status = "REVOKED"] \in Token
  BY <1>1 DEF Token
<1>3. \A id \in DOMAIN tokens : Revoked(families)[id] \in Token
  BY <1>1, <1>2 DEF Revoked
<1>4. DOMAIN tokens' = 1 .. Len(tokens) /\ Len(tokens) \in Nat
  BY <1>1 DEF Revoked
<1>5. tokens' \in Seq(Token)
  BY <1>3, <1>4 DEF Revoked
<1>6. \A id \in DOMAIN tokens :
        tokens'[id] = IF Family(id) \in families THEN [tokens[id] EXCEPT !.status = "REVOKED"]
                      ELSE tokens[id]
  BY DEF Revoked
<1>7. ASSUME NEW id \in DOMAIN tokens
      PROVE  /\ tokens'[id].family = tokens[id].family
             /\ tokens'[id].status = "ACTIVE" <=> (tokens[id].status = "ACTIVE"
                   /\ Family(id) \notin families)
  BY <1>1, <1>6 DEF Token
<1> QED  BY <1>4, <1>5, <1>7 DEF Family, Active

(* A token is added to a family, or begins one.                             *)
LEMMA AddedToken ==
  ASSUME SessionTypes, NEW base \in Seq(Token), DOMAIN base = DOMAIN tokens,
         NEW f \in {0} \cup DOMAIN tokens, tokens' = Append(base, NewToken(f))
  PROVE  /\ tokens' \in Seq(Token) /\ Len(tokens') = Len(tokens) + 1
         /\ DOMAIN tokens' = DOMAIN tokens \cup {Len(tokens) + 1}
         /\ \A id \in DOMAIN tokens : tokens'[id] = base[id]
         /\ tokens'[Len(tokens) + 1].status = "ACTIVE"
         /\ tokens'[Len(tokens) + 1].family = IF f = 0 THEN Len(tokens) + 1 ELSE f
<1>1. /\ Len(tokens) \in Nat /\ DOMAIN tokens = 1 .. Len(tokens)
  BY ManyMarked
<1>2. Len(base) = Len(tokens)
  BY <1>1
<1>3. NewToken(f) \in Token /\ NewToken(f).status = "ACTIVE"
      /\ NewToken(f).family = IF f = 0 THEN Len(tokens) + 1 ELSE f
  BY <1>1 DEF NewToken, Token
<1>4. PICK n \in Token : n = NewToken(f)
  BY <1>3
<1>5. tokens' = Append(base, n)
  BY <1>4
<1>6. tokens' \in Seq(Token) /\ Len(tokens') = Len(tokens) + 1 /\ tokens'[Len(tokens) + 1] = n
      /\ \A id \in DOMAIN tokens : tokens'[id] = base[id]
  BY <1>1, <1>2, <1>5
<1> QED  BY <1>1, <1>3, <1>4, <1>6

(* A call moves that leads no refresh before or after the step, and nothing *)
(* of the tokens moves.                                                     *)
LEMMA CallMoves ==
  ASSUME SessionInv, NEW c \in Calls, NEW r \in Request, call' = [call EXCEPT ![c] = r],
         UNCHANGED <<tokens, cookie, clock, changed, ended, raced, twins, alarms, scene>>,
         reasons \subseteq reasons', stored' \in -1 .. clock, me' \subseteq scene.tabs,
         call[c].pc \notin Refreshing, r.pc \in {"idle", "sent", "unauthorized"},
         r.pc # "idle" => Tab(c) \in scene.tabs
  PROVE  SessionTypes' /\ LeaderInv' /\ EndedInv' /\ OneLiveInv' /\ SoloInv'
<1>1. /\ call' \in [Requests -> Request] /\ call'[c] = r
      /\ \A d \in Requests \ {c} : call'[d] = call[d]
  BY Apart DEF SessionInv, SessionTypes
<1>2. PICK from \in [Requests -> Requests] : \A d \in Requests : from[d] = d
  <2>1. [d \in Requests |-> d] \in [Requests -> Requests]
    OBVIOUS
  <2> QED  BY <2>1
<1>3. SessionTypes' /\ EndedInv' /\ OneLiveInv'
  <2>1. cookie' \in {0} \cup DOMAIN tokens /\ scene' \in Scene /\ scene'.tabs = scene.tabs
    BY DEF SessionInv, SessionTypes
  <2>2. \A d \in Requests : call'[d].pc \in Serving \cup {"ok"} => d # c
    BY <1>1 DEF Serving
  <2>3. \A g \in Gone : call'[g].pc \in {"idle"} \cup Serving
    BY <1>1, Apart DEF SessionInv, SessionTypes
  <2>4. /\ \A d \in Requests : call'[d].pc \in Serving \cup {"ok"} =>
             call'[d].pc = call[from[d]].pc /\ call'[d].token = call[from[d]].token
        /\ \A d, e \in Requests :
             call'[d].pc = "rotate" /\ call'[e].pc = "rotate" /\ from[d] = from[e] => d = e
    BY <1>1, <1>2, <2>2
  <2> QED  BY <1>1, <2>1, <2>3, <2>4, CoreKept
<1>4. LeaderInv'
  BY <1>1, Apart DEF SessionInv, LeaderInv, Refreshing, Serving
<1>5. SoloInv'
  BY <1>1, Apart, SoloKept
<1> QED  BY <1>3, <1>4, <1>5

(* A tab sends a request.                                                   *)
LEMMA SendKeeps ==
  ASSUME SessionInv, NEW c \in Calls, Send(c)
  PROVE  SessionInv'
<1> DEFINE r == [NoCall EXCEPT !.pc = "sent", !.access = stored]
<1>1. r \in Request /\ r.pc = "sent" /\ ~r.boot /\ ~r.retried
  <2>1. stored \in Nat \cup {-1}
    BY DEF SessionInv, SessionTypes
  <2> QED  BY <2>1 DEF NoCall, Request
<1>2. call' = [call EXCEPT ![c] = r]
  BY DEF Send
<1> HIDE DEF r
<1>3. /\ call' \in [Requests -> Request] /\ call'[c] = r
      /\ \A d \in Requests \ {c} : call'[d] = call[d]
  BY <1>1, <1>2, Apart DEF SessionInv, SessionTypes
<1>4. UNCHANGED <<accountVars, tokens, cookie, stored, me, change, clock, changed, notes>>
      /\ call[c].pc = "idle" /\ Tab(c) \in scene.tabs /\ Tab(c) \in me
  BY DEF Send, Used
<1>5. SessionTypes' /\ LeaderInv' /\ EndedInv' /\ OneLiveInv' /\ SoloInv'
  <2>1. stored' \in -1 .. clock /\ me' \subseteq scene.tabs
    BY <1>4 DEF SessionInv, SessionTypes
  <2>2. call[c].pc \notin Refreshing
    BY <1>4 DEF Refreshing, Serving
  <2> QED  BY <1>1, <1>2, <1>4, <2>1, <2>2, CallMoves DEF notes, accountVars
<1>6. ASSUME OneTab', reasons' = {} PROVE Blameless' /\ Kept'
  <2>1. Blameless /\ Kept /\ UNCHANGED <<alarms, account, tokens, scene>>
    BY <1>4, <1>6 DEF SessionInv, notes, OneTab, accountVars
  <2>2. Blameless'
    BY <1>1, <1>3, <1>4, <2>1, Apart DEF Blameless
  <2>3. \A id : Family(id)' = Family(id) /\ Active(id)' = Active(id)
    BY <2>1 DEF Family, Active
  <2>4. Kept'
    BY <1>1, <1>3, <1>4, <2>1, <2>3, Apart DEF Kept, Blameless
  <2> QED  BY <2>2, <2>4
<1> QED  BY <1>5, <1>6 DEF SessionInv

(* The answer to a request: while nothing happened that may end a session,  *)
(* a request that was retried is not refused.                               *)
LEMMA AnsweredKeeps ==
  ASSUME AccountInv, SessionInv, NEW c \in Calls, Answered(c)
  PROVE  SessionInv'
<1>1. UNCHANGED <<accountVars, tokens, cookie, stored, change, clock, changed, notes>>
      /\ call[c].pc = "sent" /\ call[c].pc \notin Refreshing
  BY DEF Answered, Refreshing, Serving
<1>2. call[c] \in Request /\ NoCall \in Request /\ NoCall.pc = "idle" /\ ~NoCall.boot
          /\ ~NoCall.retried
      /\ call \in [Requests -> Request] /\ Tab(c) \in scene.tabs
  BY <1>1, ManyMarked, Apart DEF SessionInv, SessionTypes, NoCall, LeaderInv
<1>3. PICK r \in Request :
        /\ call' = [call EXCEPT ![c] = r]
        /\ \/ /\ r.pc = "idle" /\ ~r.boot /\ ~r.retried
              /\ me' = IF call[c].boot THEN me \cup {Tab(c)} ELSE me
           \/ /\ r.pc = "unauthorized" /\ r.boot = call[c].boot /\ r.retried = call[c].retried
              /\ UNCHANGED me
              /\ ~Authentic(call[c].access) \/ ~call[c].retried
  <2>1. CASE call' = [call EXCEPT ![c] = NoCall]
                 /\ me' = IF call[c].boot THEN me \cup {Tab(c)} ELSE me
    BY <1>2, <2>1
  <2>2. CASE call' = [call EXCEPT ![c] = [call[c] EXCEPT !.pc = "unauthorized"]] /\ UNCHANGED me
             /\ (~Authentic(call[c].access) \/ ~call[c].retried)
    <3> DEFINE r == [call[c] EXCEPT !.pc = "unauthorized"]
    <3>1. r \in Request /\ r.pc = "unauthorized" /\ r.boot = call[c].boot
              /\ r.retried = call[c].retried
      BY <1>2 DEF Request
    <3> HIDE DEF r
    <3>2. call' = [call EXCEPT ![c] = r]
      BY <2>2 DEF r
    <3> QED  BY <3>1, <3>2, <2>2
  <2> QED  BY <2>1, <2>2 DEF Answered
<1>4. /\ call'[c] = r /\ \A d \in Requests \ {c} : call'[d] = call[d]
  BY <1>2, <1>3, Apart
<1>5. SessionTypes' /\ LeaderInv' /\ EndedInv' /\ OneLiveInv' /\ SoloInv'
  <2>1. stored' \in -1 .. clock /\ me' \subseteq scene.tabs
    BY <1>1, <1>2, <1>3 DEF SessionInv, SessionTypes
  <2> QED  BY <1>1, <1>2, <1>3, <2>1, CallMoves DEF notes, accountVars
<1>6. ASSUME OneTab', reasons' = {} PROVE Blameless' /\ Kept'
  <2>1. Blameless /\ Kept /\ UNCHANGED <<alarms, account, tokens, scene>>
    BY <1>1, <1>6 DEF SessionInv, notes, OneTab, accountVars
  <2>2. r.pc = "unauthorized" => ~call[c].retried
    <3>1. call[c].retried => call[c].access # -1
      BY <2>1 DEF Blameless
    <3>2. tokens # <<>>
      BY <1>1, <2>1 DEF Blameless
    <3>3. account \in MayLogIn /\ changed = -1
      BY <2>1, <3>2 DEF Blameless, MayLogIn, Statuses, AccountInv, AccountTypes
    <3>4. call[c].access \in Nat \cup {-1}
      BY <1>2 DEF Request
    <3> QED  BY <1>3, <3>1, <3>3, <3>4 DEF Authentic
  <2>3. Blameless'
    BY <1>1, <1>3, <1>4, <2>1, <2>2 DEF Blameless
  <2>4. \A id : Family(id)' = Family(id) /\ Active(id)' = Active(id)
    BY <2>1 DEF Family, Active
  <2>5. tokens # <<>> => \A t \in scene.tabs : t \in me' \/ \E d \in Calls : Tab(d) = t
            /\ call'[d].boot
    BY <1>3, <1>4, <2>1 DEF Kept
  <2>6. Kept'
    BY <1>1, <1>3, <1>4, <2>1, <2>4, <2>5 DEF Kept
  <2> QED  BY <2>3, <2>6
<1> QED  BY <1>5, <1>6 DEF SessionInv

(* With one tab there is one tab.                                           *)
LEMMA TheOnlyTab ==
  ASSUME SessionInv, OneTab, NEW t \in scene.tabs, NEW u \in scene.tabs
  PROVE  t = u
<1>1. IsFiniteSet(scene.tabs)
  BY ManyMarked, AccountsAssumption, FS_Subset DEF SessionInv
<1> QED  BY <1>1, FS_Singleton DEF OneTab

(* A 401: the call leads a refresh or waits for the one under way.          *)
LEMMA UnauthorizedKeeps ==
  ASSUME SessionInv, NEW c \in Calls, Unauthorized(c)
  PROVE  SessionInv'
<1>1. UNCHANGED <<accountVars, tokens, cookie, change, clock, changed, notes>>
      /\ call[c].pc = "unauthorized" /\ call[c].pc \notin Refreshing
  BY DEF Unauthorized, Refreshing, Serving
<1>2. call[c] \in Request /\ NoCall \in Request /\ NoCall.pc = "idle"
      /\ call \in [Requests -> Request] /\ Tab(c) \in scene.tabs
  BY <1>1, ManyMarked, Apart DEF SessionInv, SessionTypes, NoCall, LeaderInv
<1>3. \A id : (Family(id)' = Family(id)) /\ (Active(id)' = Active(id))
  BY <1>1 DEF Family, Active
<1>4. CASE GivesUp(c)
  <2>1. call' = [call EXCEPT ![c] = NoCall] /\ stored' = -1 /\ me' = me \ {Tab(c)}
    BY <1>4 DEF Unauthorized
  <2>2. stored' \in -1 .. clock /\ me' \subseteq scene.tabs
    BY <2>1 DEF SessionInv, SessionTypes
  <2>3. SessionTypes' /\ LeaderInv' /\ EndedInv' /\ OneLiveInv' /\ SoloInv'
    BY <1>1, <1>2, <2>1, <2>2, CallMoves DEF notes, accountVars
  <2>4. ~(OneTab' /\ reasons' = {})
    BY <1>1, <1>4 DEF SessionInv, Blameless, GivesUp, OneTab, notes
  <2> QED  BY <2>3, <2>4 DEF SessionInv
<1>5. CASE ~GivesUp(c)
  <2> DEFINE r == [call[c] EXCEPT !.pc = IF Leads(c) THEN "read" ELSE "await",
                                 !.token = IF Leads(c) THEN cookie ELSE 0]
  <2>1. cookie \in {0} \cup DOMAIN tokens /\ cookie \in Nat
    BY ManyMarked DEF SessionInv, SessionTypes
  <2>2. /\ r \in Request /\ r.boot = call[c].boot /\ r.retried = call[c].retried
        /\ Leads(c) => (r.pc = "read" /\ r.token = cookie)
        /\ ~Leads(c) => r.pc = "await"
    BY <1>2, <2>1 DEF Request, Refreshing, Serving
  <2>3. call' = [call EXCEPT ![c] = r] /\ UNCHANGED <<stored, me>>
    BY <1>2, <1>5 DEF Unauthorized, Request
  <2> HIDE DEF r
  <2>4. /\ call' \in [Requests -> Request] /\ call'[c] = r
        /\ \A d \in Requests \ {c} : call'[d] = call[d]
    BY <1>2, <2>2, <2>3, Apart
  <2>5. SessionTypes'
    BY <1>1, <1>3, <2>1, <2>2, <2>3, <2>4, Apart DEF SessionInv, SessionTypes, Serving, notes
  <2>6. LeaderInv'
    <3>1. \A d \in Calls : call'[d].pc # "idle" => Tab(d) \in scene.tabs
      BY <1>2, <2>4, Apart DEF SessionInv, LeaderInv
    <3>2. \A d \in Calls : call'[d].pc \in Refreshing => d = c \/ call[d].pc \in Refreshing
      BY <2>4, Apart
    <3>3. call'[c].pc \in Refreshing => Leads(c)
      BY <2>2, <2>4 DEF Refreshing, Serving
    <3>4. \A d, e \in Calls : Tab(d) = Tab(e) /\ call'[d].pc \in Refreshing
              /\ call'[e].pc \in Refreshing => d = e
      BY <2>4, <3>2, <3>3, Apart DEF SessionInv, LeaderInv, Leads
    <3>5. \A d \in Calls : call[d].pc \in Refreshing => call'[d].pc \in Refreshing
      BY <1>1, <2>4, Apart
    <3>6. call'[c].pc = "await" => \E d \in Calls : Tab(d) = Tab(c) /\ call[d].pc \in Refreshing
      BY <2>2, <2>4 DEF Leads
    <3>7. \A d \in Calls : call'[d].pc = "await" =>
            \E e \in Calls : Tab(e) = Tab(d) /\ call'[e].pc \in Refreshing
      BY <2>4, <3>5, <3>6, Apart DEF SessionInv, LeaderInv
    <3> QED  BY <1>1, <3>1, <3>4, <3>7 DEF LeaderInv, notes
  <2>7. EndedInv'
    BY <1>1, <1>3, <2>2, <2>4 DEF SessionInv, EndedInv, notes
  <2>8. OneLiveInv' /\ SoloInv'
    <3>1. OneLiveInv'
      BY <1>1, <1>3, <2>2, <2>4 DEF SessionInv, OneLiveInv, notes
    <3>2. SoloInv'
      BY <1>1, <2>4, Apart, SoloKept DEF notes
    <3> QED  BY <3>1, <3>2
  <2>9. ASSUME OneTab', reasons' = {} PROVE Blameless' /\ Kept'
    <3>1. Blameless /\ Kept /\ UNCHANGED <<alarms, account, tokens, scene, me, cookie, change,
              changed>>
      BY <1>1, <2>3, <2>9 DEF SessionInv, notes, OneTab, accountVars
    <3>2. tokens # <<>> /\ ~call[c].retried
      BY <1>1, <3>1 DEF Blameless
    <3>3. r.pc \in {"read", "await"}
      BY <2>2
    <3>4. Blameless'
      BY <2>2, <2>4, <3>1, <3>2, <3>3, Apart DEF Blameless
    <3>5. r.pc = "read" => (r.token \in DOMAIN tokens /\ Active(r.token))
      <4>1. ASSUME r.pc = "read" PROVE \A d \in Calls : call[d].pc # "ok"
        <5> SUFFICES ASSUME NEW d \in Calls, call[d].pc = "ok" PROVE FALSE
          OBVIOUS
        <5>1. Leads(c) /\ call[d].pc \in Refreshing
          BY <2>2, <4>1 DEF Refreshing, Serving
        <5>2. Tab(d) \in scene.tabs
          BY DEF SessionInv, LeaderInv
        <5>3. Tab(d) = Tab(c)
          BY <1>2, <2>9, <3>1, <5>2, TheOnlyTab DEF OneTab
        <5> QED  BY <5>1, <5>3 DEF Leads
      <4> QED  BY <2>1, <2>2, <3>1, <3>2, <4>1 DEF Kept
    <3>6. tokens # <<>> => cookie # 0 /\ (Active(cookie) \/ \E d \in Calls : call'[d].pc = "ok")
      BY <1>1, <2>4, <3>1, Apart DEF Kept
    <3>7. \A t \in scene.tabs : t \in me \/ \E d \in Calls : Tab(d) = t /\ call'[d].boot
      BY <2>2, <2>4, <3>1, <3>2, Apart DEF Kept
    <3>8. Kept'
      BY <1>3, <2>2, <2>4, <3>1, <3>3, <3>5, <3>6, <3>7, Apart DEF Kept
    <3> QED  BY <3>4, <3>8
  <2> QED  BY <2>5, <2>6, <2>7, <2>8, <2>9 DEF SessionInv
<1> QED  BY <1>4, <1>5

(* With one tab, one call at most leads a refresh.                          *)
LEMMA TheOnlyLeader ==
  ASSUME SessionInv, OneTab, NEW c \in Calls, call[c].pc \in Refreshing,
         NEW d \in Calls, call[d].pc \in Refreshing
  PROVE  c = d
<1>1. Tab(c) \in scene.tabs /\ Tab(d) \in scene.tabs
  BY DEF SessionInv, LeaderInv, Refreshing, Serving
<1>2. Tab(c) = Tab(d)
  BY <1>1, TheOnlyTab
<1> QED  BY <1>2 DEF SessionInv, LeaderInv

(* The handler of a refresh goes on to its next step, whose answer nobody   *)
(* waits for when it is adrift.                                             *)
LEMMA GoesOn ==
  ASSUME SessionInv, NEW c \in Requests, call[c].pc \in Refreshing, NEW pc \in Refreshing,
         NEW id \in Nat, Goes(c, pc, id), scene' = scene
  PROVE  /\ call' \in [Requests -> Request] /\ LeaderInv'
         /\ \A d \in Requests \ {c} : call'[d] = call[d]
         /\ c \in Calls => /\ call'[c].pc = pc /\ call'[c].token = id
                          /\ call'[c].boot = call[c].boot /\ call'[c].retried = call[c].retried
         /\ c \in Gone => call'[c].pc \in {"idle"} \cup Serving
         /\ call'[c].pc # "idle" => call'[c].pc = pc /\ call'[c].token = id
<1> DEFINE r == IF c \in Gone /\ pc \notin Serving THEN NoCall
                ELSE [call[c] EXCEPT !.pc = pc, !.token = id]
<1>1. /\ call \in [Requests -> Request] /\ call[c] \in Request /\ NoCall \in Request
      /\ NoCall.pc = "idle" /\ "idle" \notin Refreshing
  BY ManyMarked DEF SessionInv, SessionTypes, Refreshing, Serving
<1>2. /\ r \in Request
      /\ c \in Gone => r.pc \in {"idle"} \cup Serving
      /\ c \in Calls => r.pc = pc /\ r.token = id /\ r.boot = call[c].boot
                                /\ r.retried = call[c].retried
      /\ r.pc # "idle" => r.pc = pc /\ r.token = id
  BY <1>1, Apart DEF Request
<1>3. call' = [call EXCEPT ![c] = r]
  BY DEF Goes
<1> HIDE DEF r
<1>4. /\ call' \in [Requests -> Request] /\ call'[c] = r
      /\ \A d \in Requests \ {c} : call'[d] = call[d]
  BY <1>1, <1>2, <1>3
<1>5. LeaderInv'
  <2>1. \A d \in Calls : (call'[d].pc \in Refreshing <=> call[d].pc \in Refreshing)
    BY <1>2, <1>4, Apart
  <2>2. \A d \in Calls : (call'[d].pc = "await" => call[d].pc = "await")
                          /\ (call'[d].pc # "idle" => call[d].pc # "idle")
    BY <1>2, <1>4, Apart DEF Refreshing, Serving
  <2> QED  BY <2>1, <2>2 DEF SessionInv, LeaderInv
<1> QED  BY <1>2, <1>4, <1>5

(* rotate reads the row: a live token is of no family that ended, and one   *)
(* that another handler is rotating makes twins.                            *)
LEMMA ReadTokenKeeps ==
  ASSUME SessionInv, NEW c \in Requests, ReadToken(c)
  PROVE  SessionInv'
<1> DEFINE id == call[c].token
<1>1. UNCHANGED <<accountVars, tokens, cookie, stored, me, change, clock, changed>>
      /\ UNCHANGED <<ended, raced, alarms, reasons, scene>>
      /\ call[c].pc = "read" /\ id \in {0} \cup DOMAIN tokens /\ id \in Nat
      /\ call[c].pc \in Refreshing
  BY ManyMarked DEF ReadToken, SessionInv, SessionTypes, Refreshing, Serving
<1>2. \A i : (Family(i)' = Family(i)) /\ (Active(i)' = Active(i))
  BY <1>1 DEF Family, Active
<1>3. PICK pc \in {"error", "reuse", "rotate"} :
        /\ Goes(c, pc, id)
        /\ pc = "error" => id = 0
        /\ pc = "reuse" => id # 0 /\ ~Active(id)
        /\ pc = "rotate" => id # 0 /\ Active(id) /\ twins' = twins \cup Twinned(id)
        /\ pc # "rotate" => twins' = twins
  <2>1. CASE id = 0 /\ Goes(c, "error", 0) /\ UNCHANGED twins
    BY <2>1
  <2>2. CASE id # 0 /\ ~Presentable(id) /\ Goes(c, "reuse", id) /\ UNCHANGED twins
    BY <2>2 DEF Presentable, Active
  <2>3. CASE id # 0 /\ Presentable(id) /\ Goes(c, "rotate", id) /\ twins' = twins \cup Twinned(id)
    BY <2>3 DEF Presentable, Active
  <2> QED  BY <2>1, <2>2, <2>3 DEF ReadToken
<1>4. pc \in Refreshing
  BY DEF Refreshing, Serving
<1>5. /\ call' \in [Requests -> Request] /\ LeaderInv'
      /\ \A d \in Requests \ {c} : call'[d] = call[d]
      /\ c \in Calls => /\ call'[c].pc = pc /\ call'[c].token = id
                       /\ call'[c].boot = call[c].boot /\ call'[c].retried = call[c].retried
      /\ c \in Gone => call'[c].pc \in {"idle"} \cup Serving
      /\ call'[c].pc # "idle" => call'[c].pc = pc /\ call'[c].token = id
  BY <1>1, <1>3, <1>4, GoesOn
<1>6. twins \subseteq twins' /\ twins' \subseteq twins \cup Twinned(id)
      /\ (pc = "rotate" => id \in DOMAIN tokens) /\ Twinned(id) \subseteq {Family(id)}
  BY <1>1, <1>3 DEF Twinned
<1>7. SessionTypes'
  <2>1. twins' \subseteq DOMAIN tokens
    BY <1>3, <1>6 DEF SessionInv, SessionTypes
  <2>2. \A d \in Requests : call'[d].pc \in {"rotate", "reuse", "ok"} => call'[d].token \in DOMAIN tokens
    BY <1>1, <1>3, <1>5 DEF SessionInv, SessionTypes
  <2>3. \A d \in Requests : call'[d].pc = "read" => call'[d].token \in {0} \cup DOMAIN tokens
    BY <1>1, <1>3, <1>5 DEF SessionInv, SessionTypes
  <2>4. \A g \in Gone : call'[g].pc \in {"idle"} \cup Serving
    BY <1>5, Apart DEF SessionInv, SessionTypes
  <2> QED  BY <1>1, <1>2, <1>5, <2>1, <2>2, <2>3, <2>4 DEF SessionInv, SessionTypes
<1>8. EndedInv'
  <2>1. call'[c].pc = "rotate" => (Family(id) \in ended => Family(id) \in raced)
    BY <1>1, <1>3, <1>5 DEF SessionInv, EndedInv
  <2> QED  BY <1>1, <1>2, <1>5, <2>1 DEF SessionInv, EndedInv
<1>9. OneLiveInv'
  <2>1. ASSUME call'[c].pc = "rotate", Family(id) \notin twins'
        PROVE  /\ id \in DOMAIN tokens /\ Active(id)
               /\ \A i \in DOMAIN tokens : Active(i) /\ Family(i) = Family(id) => i = id
               /\ \A d \in Requests : call[d].pc = "rotate" => Family(call[d].token) # Family(id)
    <3>1. pc = "rotate" /\ id \in DOMAIN tokens /\ Active(id) /\ Family(id) \notin twins
          /\ Family(id) \notin Twinned(id)
      BY <1>3, <1>5, <1>6, <2>1
    <3>2. \A d \in Requests : call[d].pc = "rotate" => call[d].token # id
      BY <3>1 DEF Twinned
    <3>3. \A d \in Requests : call[d].pc = "rotate" /\ Family(call[d].token) = Family(id) =>
            call[d].token = id
      BY <3>1 DEF SessionInv, OneLiveInv
    <3> QED  BY <3>1, <3>2, <3>3 DEF SessionInv, OneLiveInv
  <2>2. \A i, j \in DOMAIN tokens' :
          Active(i)' /\ Active(j)' /\ Family(i)' = Family(j)' /\ Family(i)' \notin twins' => i = j
    BY <1>1, <1>2, <1>6 DEF SessionInv, OneLiveInv
  <2>3. \A d \in Requests, i \in DOMAIN tokens' :
          /\ call'[d].pc = "rotate" /\ Active(i)' /\ Family(i)' = Family(call[d].token)'
          /\ Family(i)' \notin twins'
          => i = call'[d].token
    <3> SUFFICES ASSUME NEW d \in Requests, NEW i \in DOMAIN tokens, call'[d].pc = "rotate",
                        Active(i), Family(i) = Family(call'[d].token), Family(i) \notin twins'
                 PROVE  i = call'[d].token
      BY <1>1, <1>2 DEF Family
    <3>1. CASE d = c
      BY <1>5, <2>1, <3>1
    <3>2. CASE d # c
      BY <1>5, <1>6, <3>2 DEF SessionInv, OneLiveInv
    <3> QED  BY <3>1, <3>2
  <2>4. \A d, e \in Requests :
          /\ call'[d].pc = "rotate" /\ call'[e].pc = "rotate"
          /\ Family(call[d].token)' = Family(call[e].token)' /\ Family(call[d].token)' \notin twins'
          => d = e
    <3> SUFFICES ASSUME NEW d \in Requests, NEW e \in Requests, call'[d].pc = "rotate",
                        call'[e].pc = "rotate", Family(call'[d].token) = Family(call'[e].token),
                        Family(call'[d].token) \notin twins'
                 PROVE  d = e
      BY <1>1, <1>2 DEF Family
    <3>1. CASE d # c /\ e # c
      BY <1>5, <1>6, <3>1 DEF SessionInv, OneLiveInv
    <3>2. CASE d = c /\ e # c
      BY <1>5, <2>1, <3>2
    <3>3. CASE e = c /\ d # c
      BY <1>5, <2>1, <3>3
    <3> QED  BY <3>1, <3>2, <3>3
  <2> QED  BY <2>2, <2>3, <2>4 DEF OneLiveInv
<1>10. SoloInv'
  <2> SUFFICES ASSUME "loss" \notin reasons
               PROVE  (\A g \in Gone : call'[g].pc = "idle") /\ (OneTab => twins' = {})
    BY <1>1 DEF SoloInv, OneTab
  <2>1. (\A g \in Gone : call[g].pc = "idle") /\ (OneTab => twins = {})
    BY DEF SessionInv, SoloInv
  <2>2. c \in Calls /\ \A d \in Requests : call[d].pc = "rotate" => d \in Calls
    BY <1>1, <2>1, Apart
  <2>3. ASSUME OneTab PROVE twins' = {}
    <3>1. \A d \in Requests : call[d].pc # "rotate"
      <4> SUFFICES ASSUME NEW d \in Requests, call[d].pc = "rotate" PROVE FALSE
        OBVIOUS
      <4>1. d \in Calls /\ call[d].pc \in Refreshing /\ d # c
        BY <1>1, <2>2 DEF Refreshing, Serving
      <4> QED  BY <1>1, <2>2, <2>3, <4>1, TheOnlyLeader
    <3> QED  BY <1>6, <2>1, <2>3, <3>1 DEF Twinned
  <2> QED  BY <1>5, <2>1, <2>2, <2>3, Apart
<1>11. ASSUME OneTab', reasons' = {} PROVE Blameless' /\ Kept'
  <2>1. Blameless /\ Kept /\ UNCHANGED <<alarms, account, tokens, scene, me, cookie, change,
            changed>> /\ c \in Calls
    BY <1>1, <1>11, Apart DEF SessionInv, SoloInv, OneTab, accountVars
  <2>2. tokens # <<>> /\ ~call[c].retried
    BY <1>1, <2>1 DEF Blameless
  <2>3. pc = "rotate"
    <3>1. 0 \notin DOMAIN tokens
      BY ManyMarked DEF SessionInv
    <3> QED  BY <1>1, <1>3, <2>1, <3>1 DEF Kept
  <2>4. Blameless'
    BY <1>5, <2>1, <2>2, <2>3, Apart DEF Blameless
  <2>5. tokens # <<>> => cookie # 0 /\ (Active(cookie) \/ \E d \in Calls : call'[d].pc = "ok")
    BY <1>1, <1>5, <2>1, Apart DEF Kept
  <2>6. \A t \in scene.tabs : t \in me \/ \E d \in Calls : Tab(d) = t /\ call'[d].boot
    BY <1>5, <2>1, <2>2, Apart DEF Kept
  <2>7. Kept'
    BY <1>1, <1>2, <1>3, <1>5, <1>6, <2>1, <2>3, <2>5, <2>6, Apart DEF Kept
  <2> QED  BY <2>4, <2>7
<1> QED  BY <1>5, <1>7, <1>8, <1>9, <1>10, <1>11 DEF SessionInv

(* Families end: who is rotating one of their tokens is noted.              *)
LEMMA RevokeKeeps ==
  ASSUME SessionInv, NEW families, NEW alarmed, NEW why, Revoke(families, alarmed, why),
         families \subseteq DOMAIN tokens, alarmed \subseteq families,
         call' \in [Requests -> Request],
         \A c \in Requests : call'[c].pc \in {"read", "rotate", "reuse", "ok"} =>
                           call'[c].pc = call[c].pc /\ call'[c].token = call[c].token,
         \A g \in Gone : call'[g].pc \in {"idle"} \cup Serving,
         clock' = clock, UNCHANGED <<changed>>, stored' \in -1 .. clock,
         me' \subseteq scene.tabs, cookie' \in {0, cookie}
  PROVE  SessionTypes' /\ EndedInv' /\ OneLiveInv'
<1>1. /\ tokens' \in Seq(Token) /\ DOMAIN tokens' = DOMAIN tokens
      /\ \A id \in DOMAIN tokens : /\ Family(id)' = Family(id)
                                   /\ Active(id)' <=> (Active(id) /\ Family(id) \notin families)
  BY RevokedTokens DEF SessionInv, Revoke
<1>2. /\ ended' = ended \cup families /\ raced' = raced \cup Rotating(families)
      /\ alarms' = alarms \cup alarmed /\ scene' = scene /\ twins' = twins
  BY DEF Revoke
<1>3. Rotating(families) \subseteq families
  BY DEF Rotating
<1>4. SessionTypes'
  BY <1>1, <1>2, <1>3 DEF SessionInv, SessionTypes
<1>5. EndedInv'
  <2>1. \A id \in DOMAIN tokens : Family(id) \in ended' \ raced' => ~Active(id)'
    BY <1>1, <1>2 DEF SessionInv, EndedInv
  <2>2. ASSUME NEW c \in Requests, call'[c].pc = "rotate"
        PROVE  /\ call'[c].token = call[c].token /\ call[c].token \in DOMAIN tokens
               /\ Family(call[c].token) \in ended' => Family(call[c].token) \in raced'
    BY <1>2, <2>2 DEF SessionInv, SessionTypes, EndedInv, Rotating
  <2> QED  BY <1>1, <2>1, <2>2 DEF EndedInv
<1>6. OneLiveInv'
  <2>1. \A c \in Requests : call'[c].pc = "rotate" =>
          /\ call[c].pc = "rotate" /\ call'[c].token = call[c].token /\ call[c].token \in DOMAIN tokens
          /\ Family(call[c].token)' = Family(call[c].token)
    BY <1>1 DEF SessionInv, SessionTypes, Family
  <2> QED  BY <1>1, <1>2, <2>1 DEF SessionInv, OneLiveInv
<1> QED  BY <1>4, <1>5, <1>6

(* Reuse is detected.                                                       *)
LEMMA ReuseDetectedKeeps ==
  ASSUME SessionInv, NEW c \in Requests, ReuseDetected(c)
  PROVE  SessionInv'
<1> DEFINE id == call[c].token
           f == Family(id)
<1>1. UNCHANGED <<accountVars, cookie, stored, me, change, clock, changed>>
      /\ call[c].pc = "reuse" /\ id \in DOMAIN tokens /\ id \in Nat /\ Revoke({f}, {f}, {})
      /\ f \in DOMAIN tokens /\ Goes(c, "error", id)
  BY ManyMarked DEF ReuseDetected, SessionInv, SessionTypes
<1>2. call[c].pc \in Refreshing /\ "error" \in Refreshing /\ scene' = scene
  BY <1>1 DEF Refreshing, Serving, Revoke
<1>3. /\ call' \in [Requests -> Request] /\ LeaderInv'
      /\ \A d \in Requests \ {c} : call'[d] = call[d]
      /\ c \in Gone => call'[c].pc \in {"idle"} \cup Serving
      /\ call'[c].pc # "idle" => call'[c].pc = "error"
  BY ONLY SessionInv, c \in Requests, <1>1, <1>2, GoesOn
<1> HIDE DEF f, id
<1>4. SessionTypes' /\ EndedInv' /\ OneLiveInv'
  <2>1. \A d \in Requests : call'[d].pc \in {"read", "rotate", "reuse", "ok"} =>
                           call'[d].pc = call[d].pc /\ call'[d].token = call[d].token
    BY <1>3
  <2>2. stored' \in -1 .. clock /\ me' \subseteq scene.tabs
    BY <1>1 DEF SessionInv, SessionTypes
  <2>3. {f} \subseteq DOMAIN tokens /\ {f} \subseteq {f} /\ clock' = clock /\ UNCHANGED changed
        /\ cookie' \in {0, cookie} /\ call' \in [Requests -> Request]
    BY <1>1, <1>3
  <2>4. \A g \in Gone : call'[g].pc \in {"idle"} \cup Serving
    BY <1>3, Apart DEF SessionInv, SessionTypes
  <2> QED  BY ONLY <1>1, SessionInv, <2>1, <2>2, <2>3, <2>4, RevokeKeeps
<1>5. "loss" \notin reasons => c \in Calls
  BY <1>1, Apart DEF SessionInv, SoloInv
<1>6. SoloInv'
  <2>1. reasons \subseteq reasons' /\ scene' = scene /\ twins' = twins
    BY <1>1 DEF Revoke
  <2>2. "loss" \in reasons' \/ \A g \in Gone : call'[g].pc = call[g].pc
    BY <1>3, <1>5, <2>1, Apart
  <2> QED  BY <2>1, <2>2, SoloKept
<1>7. ~(OneTab' /\ reasons' = {})
  BY <1>1, <1>5 DEF SessionInv, Kept, OneTab, Revoke
<1> QED  BY <1>3, <1>4, <1>6, <1>7 DEF SessionInv

(* A step of a refresh fails.                                               *)
LEMMA RefreshFailsKeeps ==
  ASSUME SessionInv, NEW c \in Calls, RefreshFails(c)
  PROVE  SessionInv'
<1> DEFINE id == call[c].token
<1>1. UNCHANGED <<accountVars, tokens, cookie, stored, me, change, clock, changed>>
      /\ UNCHANGED <<ended, raced, twins, alarms, scene>> /\ reasons' = reasons \cup {"failure"}
      /\ call[c].pc \in Refreshing /\ Goes(c, "error", id) /\ "error" \in Refreshing
  BY DEF RefreshFails, Once, Because, Refreshing, Serving
<1>2. c \in Requests /\ id \in Nat
  BY Apart, ManyMarked DEF SessionInv, Request
<1>3. /\ call' \in [Requests -> Request] /\ LeaderInv'
      /\ \A d \in Requests \ {c} : call'[d] = call[d]
      /\ c \in Gone => call'[c].pc \in {"idle"} \cup Serving
      /\ call'[c].pc # "idle" => call'[c].pc = "error"
  BY ONLY SessionInv, <1>1, <1>2, GoesOn
<1> HIDE DEF id
<1>4. PICK from \in [Requests -> Requests] : \A d \in Requests : from[d] = d
  <2>1. [d \in Requests |-> d] \in [Requests -> Requests]
    OBVIOUS
  <2> QED  BY <2>1
<1>5. SessionTypes' /\ EndedInv' /\ OneLiveInv'
  <2>1. cookie' \in {0} \cup DOMAIN tokens /\ scene' \in Scene /\ scene'.tabs = scene.tabs
        /\ stored' \in -1 .. clock /\ me' \subseteq scene.tabs
    BY <1>1 DEF SessionInv, SessionTypes
  <2>2. \A g \in Gone : call'[g].pc \in {"idle"} \cup Serving
    BY <1>3, Apart DEF SessionInv, SessionTypes
  <2>3. /\ \A d \in Requests : call'[d].pc \in Serving \cup {"ok"} =>
             call'[d].pc = call[from[d]].pc /\ call'[d].token = call[from[d]].token
        /\ \A d, e \in Requests :
             call'[d].pc = "rotate" /\ call'[e].pc = "rotate" /\ from[d] = from[e] => d = e
    BY <1>3, <1>4 DEF Serving
  <2> QED  BY <1>1, <1>3, <2>1, <2>2, <2>3, CoreKept
<1>6. SoloInv'
  BY <1>1, <1>3, Apart, SoloKept
<1> QED  BY <1>1, <1>3, <1>5, <1>6 DEF SessionInv

(* The transaction of rotate: one live token for another.                   *)
LEMMA RotateKeeps ==
  ASSUME SessionInv, NEW c \in Requests, Rotate(c)
  PROVE  SessionInv'
<1> DEFINE id == call[c].token
           new == Len(tokens) + 1
           base == [tokens EXCEPT ![id] = Retired(id)]
<1>1. UNCHANGED <<accountVars, cookie, stored, me, change, clock, changed, notes>>
      /\ call[c].pc = "rotate" /\ id \in DOMAIN tokens /\ call[c] \in Request
      /\ call \in [Requests -> Request] /\ Family(id) \in DOMAIN tokens
  BY ManyMarked DEF Rotate, SessionInv, SessionTypes
<1>2. /\ tokens \in Seq(Token) /\ Len(tokens) \in Nat /\ DOMAIN tokens = 1 .. Len(tokens)
      /\ \A i \in DOMAIN tokens : tokens[i] \in Token
  BY ManyMarked DEF SessionInv
<1>3. Retired(id) \in Token /\ Retired(id).family = tokens[id].family
          /\ Retired(id).status = "ROTATED"
  BY <1>1, <1>2 DEF Retired, Token
<1>4. /\ base \in Seq(Token) /\ DOMAIN base = DOMAIN tokens
      /\ base[id] = Retired(id) /\ \A i \in DOMAIN tokens \ {id} : base[i] = tokens[i]
  BY <1>1, <1>2, <1>3
<1>5. tokens' = Append(base, NewToken(Family(id)))
  BY DEF Rotate
<1> HIDE DEF base
<1>6. /\ tokens' \in Seq(Token) /\ Len(tokens') = new
      /\ DOMAIN tokens' = DOMAIN tokens \cup {new}
      /\ \A i \in DOMAIN tokens : tokens'[i] = base[i]
      /\ tokens'[new].status = "ACTIVE"
      /\ tokens'[new].family = IF Family(id) = 0 THEN new ELSE Family(id)
  BY <1>1, <1>4, <1>5, AddedToken DEF SessionInv
<1>7. /\ \A i \in DOMAIN tokens : Family(i)' = Family(i) /\ (Active(i)' <=> (Active(i) /\ i # id))
      /\ \A i \in DOMAIN tokens : Family(i) \in DOMAIN tokens /\ Family(Family(i)) = Family(i)
      /\ \A i : i = new => Family(i)' = Family(id) /\ Active(i)'
      /\ new \notin DOMAIN tokens /\ new \in Nat /\ 0 \notin DOMAIN tokens
  <2>1. new \notin DOMAIN tokens /\ new \in Nat /\ 0 \notin DOMAIN tokens
    BY <1>2
  <2>2. \A i \in DOMAIN tokens : Family(i) \in DOMAIN tokens /\ Family(Family(i)) = Family(i)
    BY DEF SessionInv, SessionTypes
  <2>3. \A i : i = new => Family(i)' = Family(id) /\ Active(i)'
    BY <1>1, <1>6, <2>1 DEF Family, Active
  <2>4. \A i \in DOMAIN tokens : Family(i)' = Family(i) /\ (Active(i)' <=> (Active(i) /\ i # id))
    BY <1>3, <1>4, <1>6 DEF Family, Active
  <2> QED  BY <2>1, <2>2, <2>3, <2>4
<1>8. new \in Nat /\ call[c].pc \in Refreshing /\ "ok" \in Refreshing /\ Goes(c, "ok", new)
      /\ scene' = scene
  BY <1>1, <1>2 DEF Rotate, Refreshing, Serving, notes
<1> HIDE DEF new
<1>10. /\ call' \in [Requests -> Request] /\ LeaderInv'
       /\ \A d \in Requests \ {c} : call'[d] = call[d]
       /\ c \in Calls => /\ call'[c].pc = "ok" /\ call'[c].token = new
                        /\ call'[c].boot = call[c].boot /\ call'[c].retried = call[c].retried
       /\ c \in Gone => call'[c].pc \in {"idle"} \cup Serving
       /\ call'[c].pc # "idle" => call'[c].pc = "ok" /\ call'[c].token = new
  BY ONLY SessionInv, c \in Requests, <1>8, GoesOn
<1> USE DEF new
<1>11. PICK w : w = new
  OBVIOUS
<1>12. /\ Len(tokens') = w /\ DOMAIN tokens' = DOMAIN tokens \cup {w}
       /\ Family(w)' = Family(id) /\ Active(w)' /\ w \notin DOMAIN tokens /\ w \in Nat
       /\ call'[c].pc # "idle" => call'[c].token = w
  BY <1>6, <1>7, <1>10, <1>11
<1> HIDE DEF new
<1>13. SessionTypes'
  <2>1. \A i \in DOMAIN tokens' : Family(i)' \in DOMAIN tokens' /\ Family(Family(i))' = Family(i)'
    <3>1. \A i \in DOMAIN tokens : Family(i)' \in DOMAIN tokens' /\ Family(Family(i))' = Family(i)'
      BY <1>6, <1>7 DEF Family
    <3>2. \A i : i = w => Family(i)' \in DOMAIN tokens' /\ Family(Family(i))' = Family(i)'
      BY <1>1, <1>6, <1>7, <1>12 DEF Family
    <3> QED  BY <1>12, <3>1, <3>2
  <2>2. \A d \in Requests : call'[d].pc \in {"rotate", "reuse", "ok"}
            => call'[d].token \in DOMAIN tokens'
    BY <1>10, <1>12 DEF SessionInv, SessionTypes
  <2>3. \A d \in Requests : call'[d].pc = "read" => call'[d].token \in {0} \cup DOMAIN tokens'
    BY <1>10, <1>12 DEF SessionInv, SessionTypes
  <2>4. \A g \in Gone : call'[g].pc \in {"idle"} \cup Serving
    BY <1>10, Apart DEF SessionInv, SessionTypes
  <2> QED  BY <1>1, <1>6, <1>10, <1>12, <2>1, <2>2, <2>3, <2>4 DEF SessionInv, SessionTypes, notes
<1>14. EndedInv'
  <2>1. \A i \in DOMAIN tokens : Family(i)' \in ended \ raced => ~Active(i)'
    BY <1>7 DEF SessionInv, EndedInv
  <2>2. Family(w)' \notin ended \ raced
    BY <1>1, <1>12 DEF SessionInv, EndedInv
  <2>3. \A d \in Requests : call'[d].pc = "rotate" =>
          /\ call[d].pc = "rotate" /\ call'[d] = call[d] /\ call[d].token \in DOMAIN tokens
          /\ Family(call[d].token)' = Family(call[d].token)
    BY <1>7, <1>10 DEF SessionInv, SessionTypes
  <2> QED  BY <1>1, <1>12, <2>1, <2>2, <2>3 DEF SessionInv, EndedInv, notes
<1>15. OneLiveInv'
  <2>1. /\ \A i \in DOMAIN tokens : Active(i)' /\ Family(i)' = Family(id) => Family(id) \in twins
        /\ \A d \in Requests \ {c} : call[d].pc = "rotate" /\ Family(call[d].token) = Family(id) =>
             Family(id) \in twins
    BY <1>1, <1>7 DEF SessionInv, OneLiveInv
  <2>2. \A d \in Requests : call'[d].pc = "rotate" =>
          /\ d # c /\ call[d].pc = "rotate" /\ call'[d] = call[d] /\ call[d].token \in DOMAIN tokens
          /\ Family(call[d].token)' = Family(call[d].token)
    BY <1>7, <1>10 DEF SessionInv, SessionTypes
  <2>3. twins' = twins
    BY <1>1 DEF notes
  <2>4. \A i, j \in DOMAIN tokens' :
          Active(i)' /\ Active(j)' /\ Family(i)' = Family(j)' /\ Family(i)' \notin twins => i = j
    <3>1. \A i, j \in DOMAIN tokens :
            Active(i)' /\ Active(j)' /\ Family(i)' = Family(j)' /\ Family(i)' \notin twins => i = j
      BY <1>7 DEF SessionInv, OneLiveInv
    <3> QED  BY <1>7, <1>12, <2>1, <3>1
  <2>5. \A d \in Requests, i \in DOMAIN tokens' :
          /\ call'[d].pc = "rotate" /\ Active(i)' /\ Family(i)' = Family(call[d].token)'
          /\ Family(i)' \notin twins
          => i = call[d].token
    <3>1. \A d \in Requests, i \in DOMAIN tokens :
            /\ call'[d].pc = "rotate" /\ Active(i)' /\ Family(i)' = Family(call[d].token)'
            /\ Family(i)' \notin twins
            => i = call[d].token
      BY <1>7, <2>2 DEF SessionInv, OneLiveInv
    <3> QED  BY <1>12, <2>1, <2>2, <3>1
  <2>6. \A d, e \in Requests :
          /\ call'[d].pc = "rotate" /\ call'[e].pc = "rotate"
          /\ Family(call[d].token)' = Family(call[e].token)' /\ Family(call[d].token)' \notin twins
          => d = e
    BY <2>2 DEF SessionInv, OneLiveInv
  <2> QED  BY <2>2, <2>3, <2>4, <2>5, <2>6 DEF OneLiveInv, Family
<1>17. "loss" \notin reasons => c \in Calls
  BY <1>1, Apart DEF SessionInv, SoloInv
<1>18. SoloInv'
  <2>1. "loss" \in reasons' \/ \A g \in Gone : call'[g].pc = call[g].pc
    BY <1>1, <1>10, <1>17, Apart DEF notes
  <2> QED  BY <1>1, <2>1, SoloKept DEF notes
<1>16. ASSUME OneTab', reasons' = {} PROVE Blameless' /\ Kept'
  <2>1. Blameless /\ Kept /\ UNCHANGED <<alarms, account, scene, me, cookie, change, changed>>
        /\ c \in Calls
    BY <1>1, <1>16, <1>17 DEF SessionInv, notes, OneTab, accountVars
  <2>2. tokens # <<>> /\ ~call[c].retried
    BY <1>1, <2>1 DEF Blameless
  <2>3. tokens' # <<>>
    BY <1>12
  <2>4. Blameless'
    BY <1>1, <1>10, <2>1, <2>2, <2>3, Apart DEF Blameless
  <2>5. cookie # 0 /\ \E d \in Calls : call'[d].pc = "ok"
    BY <1>10, <2>1, <2>2, Apart DEF Kept
  <2>6. \A t \in scene.tabs : t \in me \/ \E d \in Calls : Tab(d) = t /\ call'[d].boot
    BY <1>10, <2>1, <2>2, Apart DEF Kept
  <2>7. \A d \in Calls : call'[d].pc \in {"read", "rotate", "ok"} =>
          call'[d].token \in DOMAIN tokens' /\ Active(call[d].token)'
    <3>1. ASSUME NEW d \in Calls, call'[d].pc \in {"read", "rotate", "ok"} PROVE d = c
      <4>1. d # c => call[d].pc \in Refreshing
        BY <1>10, <3>1, Apart DEF Refreshing, Serving
      <4>2. OneTab
        BY <1>16, <2>1 DEF OneTab
      <4> QED  BY <1>8, <2>1, <4>1, <4>2, TheOnlyLeader
    <3>2. call'[c].token = w
      BY <1>10, <1>12, <2>1
    <3>3. tokens'[w].status = "ACTIVE" /\ w \in DOMAIN tokens'
      BY <1>12 DEF Active
    <3> QED  BY <3>1, <3>2, <3>3 DEF Active
  <2>8. \A i \in DOMAIN tokens' : \E j \in DOMAIN tokens' : Family(j)' = Family(i)' /\ Active(j)'
    <3>1. ASSUME NEW i \in DOMAIN tokens
          PROVE \E j \in DOMAIN tokens' : Family(j)' = Family(i)' /\ Active(j)'
      <4>1. PICK j \in DOMAIN tokens : Family(j) = Family(i) /\ Active(j)
        BY <2>1 DEF Kept
      <4>2. CASE j = id
        BY <1>7, <1>12, <4>1, <4>2
      <4>3. CASE j # id
        BY <1>7, <1>12, <4>1, <4>3
      <4> QED  BY <4>2, <4>3
    <3>2. \A i : i = w => \E j \in DOMAIN tokens' : Family(j)' = Family(i)' /\ Active(j)'
      BY <1>12
    <3> QED  BY <1>12, <3>1, <3>2
  <2>9. \A d \in Calls : call'[d].pc \notin {"reuse", "error"}
    BY <1>10, <2>1, Apart DEF Kept
  <2>10. Kept'
    BY <2>1, <2>5, <2>6, <2>7, <2>8, <2>9 DEF Kept
  <2> QED  BY <2>4, <2>10
<1> QED  BY <1>10, <1>13, <1>14, <1>15, <1>16, <1>18 DEF SessionInv

(* A leader and all that wait for it stop waiting: nobody is left who waits *)
(* for nothing.                                                             *)
LEMMA AllResume ==
  ASSUME SessionInv, NEW c \in Calls, call[c].pc \in Refreshing, scene' = scene,
         call' \in [Requests -> Request],
         \A d \in Calls : IF d \in Resumed(c) THEN call'[d].pc \in {"idle", "sent"}
                          ELSE call'[d] = call[d]
  PROVE  LeaderInv'
<1>1. c \in Resumed(c) /\ \A d \in Resumed(c) : d \in Calls /\ Tab(d) = Tab(c)
          /\ call[d].pc # "idle"
  BY DEF Resumed, Waiting, Refreshing, Serving
<1>2. \A d \in Calls : call'[d].pc # "idle" => Tab(d) \in scene.tabs
  BY <1>1 DEF SessionInv, LeaderInv
<1>3. \A d \in Calls : call'[d].pc \in Refreshing => (d \notin Resumed(c) /\ call'[d] = call[d])
  BY DEF Refreshing, Serving
<1>4. ASSUME NEW d \in Calls, call'[d].pc = "await"
      PROVE  \E e \in Calls : Tab(e) = Tab(d) /\ call'[e].pc \in Refreshing
  <2>1. d \notin Resumed(c) /\ call[d].pc = "await"
    BY <1>4
  <2>2. Tab(d) # Tab(c)
    BY <2>1 DEF Resumed, Waiting
  <2>3. PICK e \in Calls : Tab(e) = Tab(d) /\ call[e].pc \in Refreshing
    BY <2>1 DEF SessionInv, LeaderInv
  <2>4. e \notin Resumed(c)
    BY <1>1, <2>2, <2>3
  <2> QED  BY <2>3, <2>4
<1> QED  BY <1>2, <1>3, <1>4 DEF SessionInv, LeaderInv

(* A refresh succeeds.                                                      *)
LEMMA RefreshedKeeps ==
  ASSUME SessionInv, NEW c \in Calls, Refreshed(c)
  PROVE  SessionInv'
<1>1. UNCHANGED <<accountVars, tokens, me, change, clock, changed, notes>>
      /\ call[c].pc = "ok" /\ call[c].token \in DOMAIN tokens /\ call[c].pc \in Refreshing
      /\ call \in [Requests -> Request] /\ cookie' = call[c].token /\ stored' = clock /\ clock \in Nat
      /\ c \in Requests
  BY Apart DEF Refreshed, SessionInv, SessionTypes, Refreshing, Serving
<1>2. \A d \in Requests : /\ Again(d) \in Request /\ Again(d).pc = "sent" /\ Again(d).retried
                       /\ Again(d).access = clock /\ Again(d).boot = call[d].boot
  BY <1>1 DEF Again, NoCall, Request
<1>3. call' = [d \in Requests |-> IF d \in Resumed(c) THEN Again(d) ELSE call[d]]
  BY DEF Refreshed
<1>4. /\ call' \in [Requests -> Request]
      /\ \A d \in Requests : call'[d] = IF d \in Resumed(c) THEN Again(d) ELSE call[d]
  BY <1>1, <1>2, <1>3
<1>5. /\ \A d \in Requests : d \in Resumed(c) => call'[d].pc = "sent"
      /\ Resumed(c) \subseteq Calls
      /\ \A d \in Requests : call'[d].pc # "sent" => call'[d] = call[d] /\ d # c
  BY <1>2, <1>4 DEF Resumed, Waiting
<1>6. \A i : (Family(i)' = Family(i)) /\ (Active(i)' = Active(i))
  BY <1>1 DEF Family, Active
<1>7. LeaderInv'
  BY <1>1, <1>4, <1>5, Apart, AllResume DEF notes
<1>8. SessionTypes' /\ EndedInv' /\ OneLiveInv'
  <2>1. cookie' \in {0} \cup DOMAIN tokens /\ scene' \in Scene /\ scene'.tabs = scene.tabs
        /\ stored' \in -1 .. clock /\ me' \subseteq scene.tabs
    BY <1>1 DEF SessionInv, SessionTypes, notes
  <2>2. \A g \in Gone : call'[g].pc \in {"idle"} \cup Serving
    BY <1>4, <1>5, Apart DEF SessionInv, SessionTypes
  <2>3. PICK from \in [Requests -> Requests] : \A d \in Requests : from[d] = d
    <3>1. [d \in Requests |-> d] \in [Requests -> Requests]
      OBVIOUS
    <3> QED  BY <3>1
  <2>4. /\ \A d \in Requests : call'[d].pc \in Serving \cup {"ok"} =>
             call'[d].pc = call[from[d]].pc /\ call'[d].token = call[from[d]].token
        /\ \A d, e \in Requests :
             call'[d].pc = "rotate" /\ call'[e].pc = "rotate" /\ from[d] = from[e] => d = e
    BY <1>5, <2>3 DEF Serving
  <2>5. UNCHANGED <<tokens, ended, raced, twins, alarms, clock, changed>>
    BY <1>1 DEF notes
  <2> QED  BY <1>4, <2>1, <2>2, <2>4, <2>5, CoreKept
<1>9. SoloInv'
  <2>1. \A g \in Gone : call'[g].pc = call[g].pc
    BY <1>4, <1>5, Apart
  <2> QED  BY <1>1, <2>1, SoloKept DEF notes
<1>11. ASSUME OneTab', reasons' = {} PROVE Blameless' /\ Kept'
  <2>1. Blameless /\ Kept /\ OneTab
            /\ UNCHANGED <<alarms, account, scene, me, tokens, change, changed>>
    BY <1>1, <1>11 DEF SessionInv, notes, OneTab, accountVars
  <2>2. tokens # <<>> /\ clock # -1
    BY <1>1, <2>1 DEF Blameless
  <2>3. \A d \in Calls : call'[d].boot = call[d].boot
    BY <1>2, <1>4, Apart
  <2>4. \A d \in Calls : call'[d].retried => (call'[d].pc = "sent" /\ call'[d].access # -1)
    BY <1>2, <1>4, <2>1, <2>2, Apart DEF Blameless
  <2>5. Blameless'
    BY <1>5, <2>1, <2>2, <2>3, <2>4, Apart DEF Blameless
  <2>6. cookie' # 0 /\ Active(cookie)'
    <3>1. Active(call[c].token) /\ call[c].token # 0
      BY <1>1, <2>1, ManyMarked DEF Kept, SessionInv
    <3> QED  BY <1>1, <3>1 DEF Active
  <2>7. \A d \in Calls : call'[d].pc \notin {"reuse", "error"}
    BY <1>5, <2>1, Apart DEF Kept
  <2>8. \A d \in Calls : call'[d].pc \in {"read", "rotate", "ok"} =>
          call'[d].token \in DOMAIN tokens /\ Active(call'[d].token)
    BY <1>5, <2>1, Apart DEF Kept
  <2>9. Kept'
    BY <1>6, <2>1, <2>2, <2>3, <2>6, <2>7, <2>8 DEF Kept
  <2> QED  BY <2>5, <2>9
<1> QED  BY <1>7, <1>8, <1>9, <1>11 DEF SessionInv

(* What a handler set adrift leaves behind, and where it goes on.           *)
LEMMA AdriftFrom ==
  ASSUME SessionInv, NEW c \in Calls, call[c].pc \in Refreshing,
         NEW calls \in [Requests -> Request], SetAdrift(c, calls),
         \A d \in Requests : calls[d].pc \in Refreshing => calls[d] = call[d] /\ d # c,
         \A g \in Gone : calls[g] = call[g],
         UNCHANGED <<tokens, ended, raced, twins, alarms, clock, changed>>,
         scene' \in Scene, scene'.tabs = scene.tabs,
         stored' \in -1 .. clock, me' \subseteq scene.tabs, cookie' \in CookieOf(c)
  PROVE  /\ SessionTypes' /\ EndedInv' /\ OneLiveInv'
         /\ call' \in [Requests -> Request] /\ \A d \in Calls : call'[d] = calls[d]
<1> DEFINE h == IF call[c].pc \in Serving
                THEN [NoCall EXCEPT !.pc = call[c].pc, !.token = call[c].token] ELSE NoCall
<1>1. PICK g \in Gone : call[g].pc = "idle" /\ call' = [calls EXCEPT ![g] = h]
  BY DEF SetAdrift
<1>2. /\ h \in Request /\ h.pc \in {"idle"} \cup Serving
      /\ h.pc # "idle" => h.pc = call[c].pc /\ h.token = call[c].token
      /\ c \in Requests /\ g \in Requests /\ c # g
  <2>1. call[c] \in Request /\ NoCall.pc = "idle" /\ c \in Requests /\ g \in Requests /\ c # g
    BY ManyMarked, Apart DEF SessionInv
  <2> QED  BY <2>1 DEF Request, NoCall, Serving, Refreshing
<1> HIDE DEF h
<1>3. /\ call' \in [Requests -> Request] /\ call'[g] = h
      /\ \A d \in Requests \ {g} : call'[d] = calls[d]
  BY <1>1, <1>2
<1>4. PICK from \in [Requests -> Requests] :
        from[g] = c /\ \A d \in Requests \ {g} : from[d] = d
  <2> DEFINE f == [d \in Requests |-> IF d = g THEN c ELSE d]
  <2>1. f \in [Requests -> Requests] /\ f[g] = c /\ \A d \in Requests \ {g} : f[d] = d
    BY <1>2
  <2> QED  BY <2>1
<1>5. \A d \in Requests : call'[d].pc \in Serving \cup {"ok"} =>
        call'[d].pc = call[from[d]].pc /\ call'[d].token = call[from[d]].token /\ d # c
  <2>1. ASSUME NEW d \in Requests \ {g}, call'[d].pc \in Serving \cup {"ok"}
        PROVE  call'[d] = call[d] /\ d # c
    BY <1>3, <2>1 DEF Refreshing
  <2>2. call'[g].pc \in Serving \cup {"ok"} => call'[g].pc = call[c].pc /\ call'[g].token = call[c].token
    BY <1>2, <1>3 DEF Serving
  <2> QED  BY <1>2, <1>4, <2>1, <2>2
<1>6. \A d, e \in Requests :
        call'[d].pc = "rotate" /\ call'[e].pc = "rotate" /\ from[d] = from[e] => d = e
  <2>1. \A d \in Requests : call'[d].pc = "rotate" => d # c
    BY <1>5 DEF Serving
  <2> QED  BY <1>4, <2>1
<1>7. \A e \in Gone : call'[e].pc \in {"idle"} \cup Serving
  BY <1>2, <1>3, Apart DEF SessionInv, SessionTypes
<1>8. cookie' \in {0} \cup DOMAIN tokens
  <2>1. call[c].pc = "ok" => call[c].token \in DOMAIN tokens
    BY <1>2 DEF SessionInv, SessionTypes
  <2> QED  BY <2>1 DEF CookieOf, SessionInv, SessionTypes
<1>9. SessionTypes' /\ EndedInv' /\ OneLiveInv'
  BY <1>3, <1>5, <1>6, <1>7, <1>8, CoreKept
<1> QED  BY <1>3, <1>9, Apart

(* A refresh fails, is limited, or its answer is lost.                      *)
LEMMA AllFailKeeps ==
  ASSUME SessionInv, NEW c \in Calls, RefreshError(c) \/ RefreshLimited(c) \/ LoseRefresh(c)
  PROVE  SessionInv'
<1>1. UNCHANGED <<accountVars, tokens, change, clock, changed, ended, raced, twins, alarms, scene>>
      /\ call[c].pc \in Refreshing /\ stored' = -1 /\ me' = me \ {Tab(c)}
      /\ reasons \subseteq reasons'
  BY DEF RefreshError, RefreshLimited, LoseRefresh, Loses, Once, Because, Refreshing, Serving, notes,
         AllFail
<1>2. NoCall \in Request /\ NoCall.pc = "idle" /\ call \in [Requests -> Request]
  BY DEF NoCall, Request, SessionInv, SessionTypes
<1>3. PICK calls \in [Requests -> Request] : calls = Failing(c)
  BY <1>2 DEF Failing
<1>4. /\ \A d \in Requests : calls[d] = IF d \in Resumed(c) THEN NoCall ELSE call[d]
      /\ Resumed(c) \subseteq Calls /\ c \in Resumed(c)
  BY <1>3 DEF Failing, Resumed, Waiting
<1>5. /\ \A d \in Requests : calls[d].pc \in Refreshing => calls[d] = call[d] /\ d # c
      /\ \A g \in Gone : calls[g] = call[g]
  BY <1>2, <1>4, Apart DEF Refreshing, Serving
<1>6. scene' \in Scene /\ scene'.tabs = scene.tabs /\ stored' \in -1 .. clock
      /\ me' \subseteq scene.tabs
  BY <1>1 DEF SessionInv, SessionTypes
<1>7. SessionTypes' /\ EndedInv' /\ OneLiveInv' /\ SoloInv' /\ call' \in [Requests -> Request]
      /\ \A d \in Calls : call'[d] = calls[d]
  <2>1. CASE LoseRefresh(c)
    <3>1. SetAdrift(c, calls) /\ cookie' \in CookieOf(c) /\ "loss" \in reasons'
      BY <1>3, <2>1 DEF LoseRefresh, Loses, Once, Because
    <3>2. SessionTypes' /\ EndedInv' /\ OneLiveInv' /\ call' \in [Requests -> Request]
          /\ \A d \in Calls : call'[d] = calls[d]
      BY ONLY SessionInv, c \in Calls, calls \in [Requests -> Request], <1>1, <1>5, <1>6, <3>1,
              AdriftFrom
    <3>3. SoloInv'
      BY <3>1 DEF SoloInv
    <3> QED  BY <3>2, <3>3
  <2>2. CASE RefreshError(c) \/ RefreshLimited(c)
    <3>1. call' = calls /\ cookie' \in {0, cookie}
      BY <1>3, <2>2 DEF RefreshError, RefreshLimited
    <3>2. PICK from \in [Requests -> Requests] : \A d \in Requests : from[d] = d
      <4>1. [d \in Requests |-> d] \in [Requests -> Requests]
        OBVIOUS
      <4> QED  BY <4>1
    <3>3. /\ \A d \in Requests : call'[d].pc \in Serving \cup {"ok"} =>
               call'[d].pc = call[from[d]].pc /\ call'[d].token = call[from[d]].token
          /\ \A d, e \in Requests :
               call'[d].pc = "rotate" /\ call'[e].pc = "rotate" /\ from[d] = from[e] => d = e
      BY <1>5, <3>1, <3>2 DEF Refreshing
    <3>4. /\ \A g \in Gone : call'[g].pc \in {"idle"} \cup Serving
          /\ \A g \in Gone : call'[g].pc = call[g].pc
          /\ cookie' \in {0} \cup DOMAIN tokens
      BY <1>5, <3>1 DEF SessionInv, SessionTypes
    <3>5. SessionTypes' /\ EndedInv' /\ OneLiveInv'
      BY <1>1, <1>6, <3>1, <3>3, <3>4, CoreKept
    <3>6. SoloInv'
      BY <1>1, <3>4, SoloKept
    <3> QED  BY <3>1, <3>5, <3>6
  <2> QED  BY <2>1, <2>2
<1>8. LeaderInv'
  <2>1. \A d \in Calls : IF d \in Resumed(c) THEN call'[d].pc \in {"idle", "sent"}
                          ELSE call'[d] = call[d]
    BY <1>2, <1>4, <1>7, Apart
  <2> QED  BY <1>1, <1>7, <2>1, AllResume
<1>9. ~(OneTab' /\ reasons' = {})
  <2>1. CASE RefreshError(c)
    BY <1>1, <2>1 DEF SessionInv, Kept, RefreshError, OneTab, notes
  <2>2. CASE LoseRefresh(c) \/ RefreshLimited(c)
    BY <2>2 DEF LoseRefresh, RefreshLimited, Loses, Once, Because
  <2> QED  BY <2>1, <2>2
<1> QED  BY <1>7, <1>8, <1>9 DEF SessionInv

(* The first answer to a page is lost.                                      *)
LEMMA LoseWalletKeeps ==
  ASSUME SessionInv, NEW c \in Calls, LoseWallet(c)
  PROVE  SessionInv'
<1>1. UNCHANGED <<accountVars, tokens, cookie, stored, me, change, clock, changed>>
      /\ UNCHANGED <<ended, raced, twins, alarms, scene>> /\ reasons' # {}
      /\ reasons \subseteq reasons'
      /\ call[c].pc \notin Refreshing /\ call' = [call EXCEPT ![c] = NoCall]
      /\ NoCall \in Request /\ NoCall.pc = "idle"
      /\ stored' \in -1 .. clock /\ me' \subseteq scene.tabs
  BY DEF LoseWallet, Loses, Once, Because, Refreshing, Serving, NoCall, Request, SessionInv, SessionTypes
<1>2. SessionTypes' /\ LeaderInv' /\ EndedInv' /\ OneLiveInv' /\ SoloInv'
  BY <1>1, CallMoves
<1> QED  BY <1>1, <1>2 DEF SessionInv

(* logout.                                                                  *)
LEMMA LogoutKeeps ==
  ASSUME SessionInv, NEW t \in Clients, Logout(t)
  PROVE  SessionInv'
<1>1. UNCHANGED <<accountVars, call, change, clock, changed>> /\ stored' = -1 /\ me' = me \ {t}
      /\ reasons' # {} /\ UNCHANGED scene /\ cookie' \in {0, cookie}
      /\ call' \in [Requests -> Request]
  BY DEF Logout, Revoke, Because, SessionInv, SessionTypes
<1>2. stored' \in -1 .. clock /\ me' \subseteq scene.tabs
  BY <1>1 DEF SessionInv, SessionTypes
<1>3. SessionTypes' /\ EndedInv' /\ OneLiveInv'
  <2>1. CASE Revoke(IF cookie = 0 THEN {} ELSE {Family(cookie)}, {}, {"logout"})
    <3>1. (IF cookie = 0 THEN {} ELSE {Family(cookie)}) \subseteq DOMAIN tokens
      BY DEF SessionInv, SessionTypes
    <3>2. {} \subseteq (IF cookie = 0 THEN {} ELSE {Family(cookie)})
      OBVIOUS
    <3>3. \A c \in Requests : call'[c].pc \in {"read", "rotate", "reuse", "ok"} =>
                           call'[c].pc = call[c].pc /\ call'[c].token = call[c].token
      BY <1>1
    <3>4. clock' = clock /\ UNCHANGED changed /\ \A g \in Gone : call'[g].pc \in {"idle"} \cup Serving
      BY <1>1 DEF SessionInv, SessionTypes
    <3> QED  BY ONLY SessionInv, <1>1, <1>2, <2>1, <3>1, <3>2, <3>3, <3>4, RevokeKeeps
  <2>2. CASE Because("logout") /\ UNCHANGED <<tokens, cookie>>
    <3>1. UNCHANGED <<ended, raced, twins, alarms, scene>>
      BY <2>2 DEF Because
    <3>2. \A i : (Family(i)' = Family(i)) /\ (Active(i)' = Active(i))
      BY <2>2 DEF Family, Active
    <3>3. SessionTypes'
      BY <1>1, <1>2, <2>2, <3>1, <3>2 DEF SessionInv, SessionTypes
    <3>4. EndedInv'
      BY <1>1, <1>2, <2>2, <3>1, <3>2 DEF SessionInv, EndedInv
    <3>5. OneLiveInv'
      BY <1>1, <1>2, <2>2, <3>1, <3>2 DEF SessionInv, OneLiveInv
    <3> QED  BY <3>3, <3>4, <3>5
  <2> QED  BY <2>1, <2>2 DEF Logout
<1>4. LeaderInv' /\ SoloInv'
  <2>1. LeaderInv'
    BY <1>1 DEF SessionInv, LeaderInv
  <2>2. reasons \subseteq reasons' /\ twins' = twins
    BY DEF Logout, Revoke, Because
  <2> QED  BY <1>1, <2>1, <2>2, SoloKept
<1> QED  BY <1>1, <1>3, <1>4 DEF SessionInv

(* The second statement of changePassword.                                  *)
LEMMA RevokeAllKeeps ==
  ASSUME SessionInv, NEW t \in Clients, RevokeAll(t)
  PROVE  SessionInv'
<1>1. UNCHANGED <<accountVars, cookie, stored, me, call, clock, changed>> /\ t \in change
      /\ UNCHANGED scene /\ cookie' \in {0, cookie} /\ call' \in [Requests -> Request]
      /\ stored' \in -1 .. clock /\ me' \subseteq scene.tabs
  BY DEF RevokeAll, Revoke, Because, SessionInv, SessionTypes
<1>2. SessionTypes' /\ EndedInv' /\ OneLiveInv'
  <2>1. CASE Revoke({Family(id) : id \in DOMAIN tokens}, {}, {})
    <3>1. {Family(id) : id \in DOMAIN tokens} \subseteq DOMAIN tokens
      BY DEF SessionInv, SessionTypes
    <3>2. {} \subseteq {Family(id) : id \in DOMAIN tokens}
      OBVIOUS
    <3>3. \A c \in Requests : call'[c].pc \in {"read", "rotate", "reuse", "ok"} =>
                           call'[c].pc = call[c].pc /\ call'[c].token = call[c].token
      BY <1>1
    <3>4. clock' = clock /\ UNCHANGED changed /\ \A g \in Gone : call'[g].pc \in {"idle"} \cup Serving
      BY <1>1 DEF SessionInv, SessionTypes
    <3> QED  BY ONLY SessionInv, <1>1, <2>1, <3>1, <3>2, <3>3, <3>4, RevokeKeeps
  <2>2. CASE Because("failed revocation") /\ UNCHANGED tokens
    <3>1. UNCHANGED <<ended, raced, twins, alarms, scene>>
      BY <2>2 DEF Because
    <3>2. \A i : (Family(i)' = Family(i)) /\ (Active(i)' = Active(i))
      BY <2>2 DEF Family, Active
    <3>3. SessionTypes'
      BY <1>1, <2>2, <3>1, <3>2 DEF SessionInv, SessionTypes
    <3>4. EndedInv'
      BY <1>1, <2>2, <3>1, <3>2 DEF SessionInv, EndedInv
    <3>5. OneLiveInv'
      BY <1>1, <2>2, <3>1, <3>2 DEF SessionInv, OneLiveInv
    <3> QED  BY <3>3, <3>4, <3>5
  <2> QED  BY <2>1, <2>2 DEF RevokeAll
<1>3. LeaderInv' /\ SoloInv'
  <2>1. LeaderInv'
    BY <1>1 DEF SessionInv, LeaderInv
  <2>2. reasons \subseteq reasons' /\ twins' = twins
    BY DEF RevokeAll, Revoke, Because
  <2> QED  BY <1>1, <2>1, <2>2, SoloKept
<1>4. ~(OneTab' /\ reasons' = {})
  <2>1. reasons' = {} => reasons = {}
    BY DEF RevokeAll, Revoke, Because
  <2> QED  BY <1>1, <2>1 DEF SessionInv, Blameless, OneTab
<1> QED  BY <1>2, <1>3, <1>4 DEF SessionInv

(* A session begins: a new family, whose token is live.                     *)
LEMMA SignInKeeps ==
  ASSUME AccountInv, SessionInv, NEW t \in Clients, SignIn(t)
  PROVE  SessionInv'
<1>1. UNCHANGED <<account, call, change, clock, changed, ended, raced, twins, alarms, scene>>
      /\ stored' \in {stored, clock} /\ me' \in {me, me \cup {t}} /\ t \in scene.tabs
      /\ account # "none" /\ cookie' \in {cookie, Len(tokens) + 1}
      /\ tokens' = Append(tokens, NewToken(0)) /\ reasons \subseteq reasons'
      /\ (reasons' = {} => (reasons = {} /\ me' = me \cup {t} /\ cookie' = Len(tokens) + 1))
  BY DEF SignIn, Loses, Once, Because, notes, AccountInv, AccountTypes
<1>2. /\ tokens \in Seq(Token) /\ Len(tokens) \in Nat /\ DOMAIN tokens = 1 .. Len(tokens)
  BY ManyMarked DEF SessionInv
<1>3. PICK w : w = Len(tokens) + 1
  OBVIOUS
<1>4. /\ tokens' \in Seq(Token) /\ Len(tokens') = w
      /\ DOMAIN tokens' = DOMAIN tokens \cup {w}
      /\ \A i \in DOMAIN tokens : tokens'[i] = tokens[i]
      /\ tokens'[w].status = "ACTIVE" /\ tokens'[w].family = w
  BY <1>1, <1>2, <1>3, AddedToken DEF SessionInv
<1>5. w \notin DOMAIN tokens /\ w \in Nat \ {0} /\ cookie' \in {cookie, w}
  BY <1>1, <1>2, <1>3
<1>6. /\ \A i \in DOMAIN tokens : Family(i)' = Family(i) /\ (Active(i)' <=> Active(i))
                                  /\ Family(i) \in DOMAIN tokens /\ Family(Family(i)) = Family(i)
      /\ Family(w)' = w /\ Active(w)'
  BY <1>4 DEF Family, Active, SessionInv, SessionTypes
<1>7. SessionTypes'
  <2>1. \A i \in DOMAIN tokens' : Family(i)' \in DOMAIN tokens' /\ Family(Family(i))' = Family(i)'
    <3>1. \A i \in DOMAIN tokens : Family(i)' \in DOMAIN tokens' /\ Family(Family(i))' = Family(i)'
      BY <1>4, <1>6 DEF Family
    <3>2. \A i : i = w => Family(i)' \in DOMAIN tokens' /\ Family(Family(i))' = Family(i)'
      BY <1>4 DEF Family
    <3> QED  BY <1>4, <3>1, <3>2
  <2>2. cookie' \in {0} \cup DOMAIN tokens' /\ stored' \in -1 .. clock
    BY <1>1, <1>4, <1>5 DEF SessionInv, SessionTypes
  <2> QED  BY <1>1, <1>4, <2>1, <2>2 DEF SessionInv, SessionTypes
<1>8. LeaderInv' /\ SoloInv'
  <2>1. LeaderInv'
    BY <1>1 DEF SessionInv, LeaderInv
  <2> QED  BY <1>1, <2>1, SoloKept
<1>9. \A d \in Requests : call[d].pc = "rotate" =>
        call[d].token \in DOMAIN tokens /\ Family(call[d].token)' = Family(call[d].token)
  <2>1. call' = call
    BY <1>1
  <2>2. \A d \in Requests : call[d].pc = "rotate" => call[d].token \in DOMAIN tokens
    BY DEF SessionInv, SessionTypes
  <2> QED  BY <1>4, <2>1, <2>2 DEF Family
<1>10. EndedInv'
  <2>1. \A i \in DOMAIN tokens : Family(i)' \in ended \ raced => ~Active(i)'
    BY <1>6 DEF SessionInv, EndedInv
  <2>2. Family(w)' \notin ended
    BY <1>5, <1>6 DEF SessionInv, SessionTypes
  <2> QED  BY <1>1, <1>4, <1>9, <2>1, <2>2 DEF SessionInv, EndedInv
<1>11. OneLiveInv'
  <2>1. \A i \in DOMAIN tokens : Family(i)' # w
    BY <1>5, <1>6
  <2>2. \A i, j \in DOMAIN tokens :
          Active(i)' /\ Active(j)' /\ Family(i)' = Family(j)' /\ Family(i)' \notin twins => i = j
    BY <1>6 DEF SessionInv, OneLiveInv
  <2>3. \A d \in Requests, i \in DOMAIN tokens :
          /\ call[d].pc = "rotate" /\ Active(i)' /\ Family(i)' = Family(call[d].token)'
          /\ Family(i)' \notin twins
          => i = call[d].token
    BY <1>6, <1>9 DEF SessionInv, OneLiveInv
  <2>4. \A d \in Requests : call[d].pc = "rotate" => Family(call[d].token)' # w
    BY <1>5, <1>6, <1>9
  <2>5. \A i, j \in DOMAIN tokens' :
          Active(i)' /\ Active(j)' /\ Family(i)' = Family(j)' /\ Family(i)' \notin twins => i = j
    BY <1>4, <1>6, <2>1, <2>2
  <2>6. \A d \in Requests, i \in DOMAIN tokens' :
          /\ call[d].pc = "rotate" /\ Active(i)' /\ Family(i)' = Family(call[d].token)'
          /\ Family(i)' \notin twins
          => i = call[d].token
    BY <1>4, <1>6, <2>3, <2>4
  <2>7. \A d, e \in Requests :
          /\ call[d].pc = "rotate" /\ call[e].pc = "rotate"
          /\ Family(call[d].token)' = Family(call[e].token)' /\ Family(call[d].token)' \notin twins
          => d = e
    BY <1>9 DEF SessionInv, OneLiveInv
  <2>8. call' = call /\ twins' = twins
    BY <1>1
  <2> QED  BY <2>5, <2>6, <2>7, <2>8 DEF OneLiveInv, Family
<1>12. ASSUME OneTab', reasons' = {} PROVE Blameless' /\ Kept'
  <2>1. Blameless /\ Kept /\ OneTab /\ UNCHANGED <<alarms, account, scene, call, change, changed>>
    BY <1>1, <1>12 DEF SessionInv, OneTab
  <2>2. tokens' # <<>>
    BY <1>4, <1>5
  <2>3. Blameless'
    BY <1>1, <2>1, <2>2 DEF Blameless
  <2>4. \A u \in scene.tabs : u \in me'
    BY <1>1, <1>12, <2>1, TheOnlyTab
  <2>5. cookie' # 0 /\ Active(cookie)'
    BY <1>1, <1>3, <1>4, <1>5, <1>12 DEF Active
  <2>6. \A d \in Calls : call[d].pc \in {"read", "rotate", "ok"} =>
          call[d].token \in DOMAIN tokens' /\ Active(call[d].token)'
    BY <1>4, <1>6, <2>1 DEF Kept
  <2>7. \A i \in DOMAIN tokens' : \E j \in DOMAIN tokens' : Family(j)' = Family(i)' /\ Active(j)'
    <3>1. \A i \in DOMAIN tokens : \E j \in DOMAIN tokens' : Family(j)' = Family(i)' /\ Active(j)'
      BY <1>4, <1>6, <2>1 DEF Kept
    <3> QED  BY <1>4, <1>6, <3>1
  <2>8. Kept'
    <3>1. call' = call
      BY <1>1
    <3>2. \A d \in Calls : call'[d].pc \in {"read", "rotate", "ok"} =>
            call'[d].token \in DOMAIN tokens' /\ tokens'[call'[d].token].status = "ACTIVE"
      BY <2>6, <3>1 DEF Active
    <3>3. \A d \in Calls : call'[d].pc \notin {"reuse", "error"}
      BY <2>1, <3>1 DEF Kept
    <3> QED  BY <1>1, <2>1, <2>4, <2>5, <2>7, <3>1, <3>2, <3>3 DEF Kept, Active
  <2> QED  BY <2>3, <2>8
<1> QED  BY <1>7, <1>8, <1>10, <1>11, <1>12 DEF SessionInv

(* A page is loaded anew: what it waited for is forgotten, with all who     *)
(* waited, and a refresh under way goes on adrift.                          *)
LEMMA ReloadKeeps ==
  ASSUME SessionInv, NEW t \in Clients, Reload(t)
  PROVE  SessionInv'
<1> DEFINE first == [NoCall EXCEPT !.pc = "sent", !.access = stored, !.boot = TRUE]
<1>1. UNCHANGED <<accountVars, tokens, stored, change, clock, changed, ended, raced, twins, alarms>>
      /\ t \in scene.tabs /\ tokens # <<>> /\ me' = me \ {t}
      /\ call \in [Requests -> Request] /\ stored \in Nat \cup {-1}
  BY DEF Reload, SessionInv, SessionTypes
<1>2. /\ first \in Request /\ first.pc = "sent" /\ first.boot /\ ~first.retried
      /\ NoCall \in Request /\ NoCall.pc = "idle" /\ ~NoCall.boot /\ ~NoCall.retried
  BY <1>1 DEF NoCall, Request
<1>3. Renewed(t) = [d \in Requests |->
        CASE d \notin CallsOf(t) -> call[d] [] d \in CallsOf(t) /\ d[2] = 1 -> first [] OTHER -> NoCall]
  BY DEF Renewed
<1> HIDE DEF first
<1>4. PICK calls : calls = Renewed(t)
  OBVIOUS
<1>5. /\ calls \in [Requests -> Request]
      /\ \A d \in Requests : d \notin CallsOf(t) => calls[d] = call[d]
      /\ \A d \in CallsOf(t) : d[2] = 1 => calls[d] = first
      /\ \A d \in CallsOf(t) : d[2] # 1 => calls[d] = NoCall
  <2>1. ASSUME NEW d \in Requests
        PROVE  /\ calls[d] \in Request
               /\ d \notin CallsOf(t) => calls[d] = call[d]
               /\ d \in CallsOf(t) /\ d[2] = 1 => calls[d] = first
               /\ d \in CallsOf(t) /\ d[2] # 1 => calls[d] = NoCall
    <3>1. CASE d \notin CallsOf(t)
      <4>1. calls[d] = call[d]
        BY <1>3, <1>4, <3>1
      <4> QED  BY <1>1, <3>1, <4>1
    <3>2. CASE d \in CallsOf(t) /\ d[2] = 1
      BY <1>2, <1>3, <1>4, <3>2
    <3>3. CASE d \in CallsOf(t) /\ d[2] # 1
      BY <1>2, <1>3, <1>4, <3>3
    <3> QED  BY <3>1, <3>2, <3>3
  <2>2. DOMAIN calls = Requests /\ calls = [d \in Requests |-> calls[d]]
    BY <1>3, <1>4
  <2>3. CallsOf(t) \subseteq Requests
    BY Apart DEF CallsOf
  <2> QED  BY <2>1, <2>2, <2>3
<1>6. /\ \A d \in Requests : calls[d].pc \in Refreshing \cup {"await"} => d \notin CallsOf(t) /\ calls[d] = call[d]
      /\ \A g \in Gone : calls[g] = call[g]
      /\ \A d \in Calls : d \in CallsOf(t) <=> Tab(d) = t
  BY <1>2, <1>5, Apart DEF Refreshing, Serving, CallsOf
<1>7. scene \in Scene /\ scene' \in Scene /\ scene'.tabs = scene.tabs
  BY DEF Reload, SessionInv, SessionTypes, Scene
<1>8. stored' \in -1 .. clock /\ me' \subseteq scene.tabs /\ reasons \subseteq reasons'
  BY <1>1 DEF SessionInv, SessionTypes, Reload
<1>9. /\ SessionTypes' /\ EndedInv' /\ OneLiveInv' /\ SoloInv' /\ \A d \in Calls : call'[d] = calls[d]
      /\ reasons' = {} => cookie' = cookie /\ call' = calls
                          /\ \A d \in CallsOf(t) : call[d].pc \notin Refreshing
  <2>1. CASE /\ \A d \in CallsOf(t) : call[d].pc \notin Refreshing
             /\ call' = Renewed(t)
             /\ UNCHANGED <<cookie, reasons>>
    <3>1. PICK from \in [Requests -> Requests] : \A d \in Requests : from[d] = d
      <4>1. [d \in Requests |-> d] \in [Requests -> Requests]
        OBVIOUS
      <4> QED  BY <4>1
    <3>2. /\ \A d \in Requests : call'[d].pc \in Serving \cup {"ok"} =>
               call'[d].pc = call[from[d]].pc /\ call'[d].token = call[from[d]].token
          /\ \A d, e \in Requests :
               call'[d].pc = "rotate" /\ call'[e].pc = "rotate" /\ from[d] = from[e] => d = e
      BY <1>4, <1>6, <2>1, <3>1 DEF Refreshing
    <3>3. /\ \A g \in Gone : call'[g].pc \in {"idle"} \cup Serving
          /\ \A g \in Gone : call'[g].pc = call[g].pc
          /\ cookie' \in {0} \cup DOMAIN tokens /\ call' \in [Requests -> Request]
      BY <1>4, <1>5, <1>6, <2>1 DEF SessionInv, SessionTypes
    <3>4. SessionTypes' /\ EndedInv' /\ OneLiveInv'
      BY <1>1, <1>7, <1>8, <3>2, <3>3, CoreKept
    <3>5. SoloInv'
      BY <1>1, <1>7, <1>8, <3>3, SoloKept
    <3> QED  BY <1>4, <2>1, <3>4, <3>5
  <2>2. ASSUME NEW c \in CallsOf(t), call[c].pc \in Refreshing, SetAdrift(c, Renewed(t)),
               cookie' \in CookieOf(c), reasons' = reasons \cup {"loss"}
        PROVE  SessionTypes' /\ EndedInv' /\ OneLiveInv' /\ SoloInv' /\ \A d \in Calls : call'[d] = calls[d]
    <3>1. c \in Calls /\ SetAdrift(c, calls) /\ calls \in [Requests -> Request]
      BY <1>4, <1>5, <2>2 DEF CallsOf
    <3>2. /\ \A d \in Requests : calls[d].pc \in Refreshing => calls[d] = call[d] /\ d # c
          /\ \A g \in Gone : calls[g] = call[g]
      BY <1>6
    <3>3. SessionTypes' /\ EndedInv' /\ OneLiveInv' /\ \A d \in Calls : call'[d] = calls[d]
      BY ONLY SessionInv, <1>1, <1>7, <1>8, <2>2, <3>1, <3>2, AdriftFrom
    <3>4. SoloInv'
      BY <2>2 DEF SoloInv
    <3> QED  BY <3>3, <3>4
  <2> QED  BY <2>1, <2>2 DEF Reload
<1>10. LeaderInv'
  <2>1. \A d \in Calls : call'[d].pc # "idle" => Tab(d) \in scene.tabs
    BY <1>1, <1>2, <1>5, <1>6, <1>9, Apart DEF SessionInv, LeaderInv
  <2>2. \A d \in Calls : call'[d].pc \in Refreshing \cup {"await"} =>
          d \notin CallsOf(t) /\ call'[d] = call[d]
    BY <1>6, <1>9, Apart
  <2>3. \A d \in Calls : d \notin CallsOf(t) => call'[d] = call[d]
    BY <1>5, <1>9, Apart
  <2>4. \A d \in Calls : call'[d].pc = "await" =>
          \E e \in Calls : Tab(e) = Tab(d) /\ call'[e].pc \in Refreshing
    BY <1>6, <2>2, <2>3 DEF SessionInv, LeaderInv
  <2> QED  BY <1>7, <2>1, <2>2, <2>4 DEF SessionInv, LeaderInv
<1>11. ASSUME OneTab', reasons' = {} PROVE Blameless' /\ Kept'
  <2>1. OneTab /\ reasons = {}
    BY <1>7, <1>8, <1>11 DEF OneTab
  <2>2. Blameless /\ Kept /\ cookie' = cookie /\ call' = calls
    BY <1>9, <1>11, <2>1 DEF SessionInv
  <2>3. \A d \in Calls : call[d].pc # "idle" => Tab(d) = t
    <3>1. \A d \in Calls : call[d].pc # "idle" => Tab(d) \in scene.tabs
      BY DEF SessionInv, LeaderInv
    <3> QED  BY <1>1, <2>1, <3>1, TheOnlyTab
  <2>4. \A d \in Calls : call[d].pc \notin Refreshing /\ call'[d].pc \notin Refreshing
    BY <1>6, <1>9, <1>11, <2>2, <2>3, Apart DEF Refreshing, Serving
  <2>5. \A d \in Calls : call'[d] \in {call[d], first, NoCall}
    BY <1>5, <2>2, Apart
  <2>6. Blameless'
    <3>1. \A d \in Calls : call'[d].pc = "idle" => ~call'[d].boot
      BY <1>2, <2>2, <2>5 DEF Blameless
    <3>2. \A d \in Calls : call'[d].retried => (call'[d].pc = "sent" /\ call'[d].access # -1)
      BY <1>2, <2>2, <2>5 DEF Blameless
    <3> QED  BY <1>1, <2>2, <3>1, <3>2 DEF Blameless, accountVars
  <2>7. Active(cookie) /\ cookie # 0
    BY <1>1, <2>2, <2>4 DEF Kept, Refreshing, Serving
  <2>8. \A u \in scene.tabs : \E d \in Calls : Tab(d) = u /\ call'[d].boot
    <3> SUFFICES ASSUME NEW u \in scene.tabs PROVE \E d \in Calls : Tab(d) = u /\ call'[d].boot
      OBVIOUS
    <3>1. u = t
      BY <1>1, <2>1, TheOnlyTab
    <3>2. <<t, 1>> \in Calls /\ Tab(<<t, 1>>) = t /\ <<t, 1>>[2] = 1
      BY SlotsAssumption DEF Calls, Tab
    <3>3. call'[<<t, 1>>] = first
      BY <1>5, <1>6, <2>2, <3>2
    <3> QED  BY <1>2, <3>1, <3>2, <3>3
  <2>9. \A i : (Family(i)' = Family(i)) /\ (Active(i)' = Active(i))
    BY <1>1 DEF Family, Active
  <2>10. Kept'
    BY <1>1, <1>7, <2>2, <2>4, <2>7, <2>8, <2>9 DEF Kept, Refreshing, Serving
  <2> QED  BY <2>6, <2>10
<1> QED  BY <1>9, <1>10, <1>11 DEF SessionInv

(* What moves only the account, the clock or the password.                  *)
LEMMA OthersKeep ==
  ASSUME SessionInv, UNCHANGED <<tokens, cookie, stored, me, call, ended, raced, twins, alarms, scene>>,
         clock' \in Nat, clock <= clock', changed' \in -1 .. clock',
         reasons \subseteq reasons',
         (reasons' = {}) => (reasons = {} /\ UNCHANGED <<changed, change>>
                             /\ (account' = account \/ account' \in MayLogIn))
  PROVE  SessionInv'
<1>1. \A i : (Family(i)' = Family(i)) /\ (Active(i)' = Active(i))
  BY DEF Family, Active
<1>2. SessionTypes'
  BY <1>1 DEF SessionInv, SessionTypes
<1>3. LeaderInv' /\ EndedInv' /\ SoloInv'
  <2>1. LeaderInv' /\ EndedInv'
    BY <1>1 DEF SessionInv, LeaderInv, EndedInv
  <2> QED  BY <2>1, SoloKept
<1>4. OneLiveInv'
  BY <1>1 DEF SessionInv, OneLiveInv
<1>5. ASSUME OneTab', reasons' = {} PROVE Blameless' /\ Kept'
  <2>1. Blameless /\ Kept
    BY <1>5 DEF SessionInv, OneTab
  <2> QED  BY <1>1, <1>5, <2>1 DEF Blameless, Kept, MayLogIn
<1> QED  BY <1>2, <1>3, <1>4, <1>5 DEF SessionInv

-------------------------------------------------------------------------------
(* The steps of the account leave its status, or let its owner log in, and  *)
(* never bring back one that was suspended.                                 *)
LEMMA AccountMoves ==
  ASSUME AccountInv, AccountNext
  PROVE  account' = account \/ (account # "SUSPENDED" /\ account' \in MayLogIn)
<1>1. ASSUME NEW c \in Clients, Register(c)
      PROVE  account # "SUSPENDED" /\ account' \in MayLogIn
  BY <1>1 DEF Register, MayLogIn
<1>2. ASSUME NEW c \in Clients, Judge(c)
      PROVE  account' = account \/ (account # "SUSPENDED" /\ account' \in MayLogIn)
  BY <1>2 DEF Judge, Activated, MayLogIn
<1>3. ASSUME NEW c \in Clients, NEW right \in BOOLEAN,
             \/ BeginLogin(c, right) \/ BeginVerify(c, right) \/ AskResend(c) \/ Abort(c)
             \/ FirstCode(c) \/ Resend(c) \/ ReadLock(c) \/ Compare(c)
             \/ Forget \/ CoolDown \/ ExpireCode
      PROVE  account' = account
  BY <1>3 DEF BeginLogin, BeginVerify, AskResend, Abort, FirstCode, Resend, ReadLock, Compare,
              Forget, CoolDown, ExpireCode
<1>4. CASE \E c \in Clients : Handle(c)
  BY <1>2, <1>3, <1>4 DEF Handle
<1>5. CASE \E c \in Clients :
             \/ Register(c) \/ BeginLogin(c, TRUE) \/ BeginLogin(c, FALSE)
             \/ (\E right \in BOOLEAN : BeginVerify(c, right)) \/ AskResend(c) \/ Abort(c)
  BY <1>1, <1>3, <1>5
<1>6. CASE Forget \/ CoolDown \/ ExpireCode
  BY <1>6 DEF Forget, CoolDown, ExpireCode
<1> QED  BY <1>4, <1>5, <1>6 DEF AccountNext

(* Every step keeps SessionInv.                                             *)
LEMMA SessionStep ==
  ASSUME AccountInv, SessionInv, [SessionsNext]_authVars
  PROVE  SessionInv'
<1>1. clock \in Nat /\ clock <= clock /\ changed \in -1 .. clock
  BY DEF SessionInv, SessionTypes
<1>2. CASE AccountNext /\ UNCHANGED <<sessionVars, notes>>
  <2>1. account' = account \/ account' \in MayLogIn
    BY <1>2, AccountMoves
  <2>2. UNCHANGED <<tokens, cookie, stored, me, call, change, clock, changed>>
        /\ UNCHANGED <<ended, raced, twins, alarms, reasons, scene>>
    BY <1>2 DEF sessionVars, notes
  <2> QED  BY <1>1, <2>1, <2>2, OthersKeep
<1>3. CASE SuspendUser
  <2>1. UNCHANGED <<tokens, cookie, stored, me, call, change, clock, changed>>
        /\ UNCHANGED <<ended, raced, twins, alarms, scene>> /\ reasons' # {} /\ reasons \subseteq reasons'
    BY <1>3 DEF SuspendUser, sessionVars, Because
  <2> QED  BY <1>1, <2>1, OthersKeep
<1>9. ASSUME NEW c \in Requests, RefreshStep(c)
      PROVE  SessionInv'
  BY <1>9, ReadTokenKeeps, ReuseDetectedKeeps, RotateKeeps DEF RefreshStep
<1>10. ASSUME NEW g \in Gone, RefreshStep(g)
       PROVE  SessionInv'
  BY <1>9, <1>10, Apart
<1>4. ASSUME NEW c \in Calls,
             \/ Send(c) \/ CallStep(c)
             \/ LoseRefresh(c) \/ LoseWallet(c) \/ RefreshFails(c) \/ RefreshLimited(c)
      PROVE  SessionInv'
  BY <1>4, <1>9, Apart, SendKeeps, AnsweredKeeps, UnauthorizedKeeps, RefreshedKeeps, AllFailKeeps,
     LoseWalletKeeps, RefreshFailsKeeps DEF CallStep
<1>5. ASSUME NEW t \in Clients, ChangePassword(t)
      PROVE  SessionInv'
  <2>1. UNCHANGED <<tokens, cookie, stored, me, call, clock>> /\ changed' = clock
        /\ UNCHANGED <<ended, raced, twins, alarms, scene>> /\ reasons' # {} /\ reasons \subseteq reasons'
    BY <1>5 DEF ChangePassword, Because
  <2>2. changed' \in -1 .. clock' /\ clock' \in Nat /\ clock <= clock'
    BY <1>1, <2>1
  <2> QED  BY <2>1, <2>2, OthersKeep
<1>6. ASSUME NEW t \in Clients, SignIn(t) \/ Logout(t) \/ Reload(t) \/ RevokeAll(t)
      PROVE  SessionInv'
  BY <1>6, SignInKeeps, LogoutKeeps, ReloadKeeps, RevokeAllKeeps
<1>7. CASE Tick
  <2>1. UNCHANGED <<account, tokens, cookie, stored, me, call, change, changed>>
        /\ UNCHANGED <<ended, raced, twins, alarms, reasons, scene>> /\ clock' = clock + 1
    BY <1>7 DEF Tick, accountVars, notes
  <2>2. changed' \in -1 .. clock' /\ clock' \in Nat /\ clock <= clock'
    BY <1>1, <2>1
  <2> QED  BY <2>1, <2>2, OthersKeep
<1>8. CASE UNCHANGED authVars
  <2>1. UNCHANGED <<account, tokens, cookie, stored, me, call, change, clock, changed>>
        /\ UNCHANGED <<ended, raced, twins, alarms, reasons, scene>>
    BY <1>8 DEF authVars, accountVars, sessionVars, notes
  <2> QED  BY <1>1, <2>1, OthersKeep
<1> QED  BY <1>2, <1>3, <1>4, <1>5, <1>6, <1>7, <1>8, <1>10 DEF SessionsNext

(* The first state satisfies SessionInv.                                    *)
LEMMA SessionBegins ==
  ASSUME SessionsInit
  PROVE  SessionInv
<1>1. tokens = <<>> /\ cookie = 0 /\ stored = -1 /\ me = {} /\ change = {}
      /\ call = [c \in Requests |-> NoCall] /\ clock = 0 /\ changed = -1
      /\ ended = {} /\ raced = {} /\ twins = {} /\ alarms = {} /\ account \in {"none", "ACTIVE"}
      /\ scene \in Scenes
  BY DEF SessionsInit, AccountsInit
<1>2. DOMAIN tokens = {} /\ tokens \in Seq(Token)
  BY <1>1
<1>3. scene \in Scene
  BY <1>1, ScenesAssumption DEF Scene
<1>4. NoCall \in Request /\ NoCall.pc = "idle" /\ ~NoCall.boot /\ ~NoCall.retried
  BY DEF NoCall, Request
<1>5. SessionTypes
  BY <1>1, <1>2, <1>3, <1>4, Apart DEF SessionTypes
<1>6. LeaderInv
  BY <1>1, <1>4, Apart DEF LeaderInv, Refreshing, Serving
<1>7. EndedInv /\ OneLiveInv /\ SoloInv
  BY <1>1, <1>2, <1>4, Apart DEF EndedInv, OneLiveInv, SoloInv
<1>8. Blameless /\ Kept
  BY <1>1, <1>2, <1>4, Apart DEF Blameless, Kept
<1> QED  BY <1>5, <1>6, <1>7, <1>8 DEF SessionInv

(* Both invariants hold.                                                    *)
LEMMA SessionsHold == SessionsSpec => [](AccountInv /\ SessionInv)
<1>1. SessionsInit => AccountInv /\ SessionInv
  BY AccountBegins, SessionBegins
<1>2. AccountInv /\ SessionInv /\ [SessionsNext]_authVars => (AccountInv /\ SessionInv)'
  BY AccountStep, SessionStep
<1> QED  BY <1>1, <1>2, PTL DEF SessionsSpec

(* A user with one tab, none of whose answers was lost and none of whose    *)
(* refreshes failed or was limited, who has not changed the password and    *)
(* not logged out, is neither alarmed nor signed out, however many of the   *)
(* requests of the page meet an expired token at once (the interceptor of   *)
(* lib/api.ts and RefreshTokenService.rotate).                              *)
THEOREM SignedOutWithReason == SessionsSpec => []SignedOutForAReason
<1>1. SessionInv => SignedOutForAReason
  <2> SUFFICES ASSUME SessionInv, OneTab, reasons = {}
               PROVE  /\ alarms = {}
                      /\ tokens # <<>> =>
                           /\ me \cup {Tab(c) : c \in {d \in Calls : call[d].boot}} = scene.tabs
                           /\ Live(Family(Len(tokens))) # {}
    BY DEF SignedOutForAReason
  <2>1. Blameless /\ Kept
    BY DEF SessionInv
  <2>2. ASSUME tokens # <<>>
        PROVE  me \cup {Tab(c) : c \in {d \in Calls : call[d].boot}} = scene.tabs
    <3>1. \A c \in Calls : call[c].boot => Tab(c) \in scene.tabs
      BY <2>1 DEF SessionInv, LeaderInv, Blameless
    <3>2. me \subseteq scene.tabs
      BY DEF SessionInv, SessionTypes
    <3>3. \A t \in scene.tabs : t \in me \/ \E c \in Calls : Tab(c) = t /\ call[c].boot
      BY <2>1, <2>2 DEF Kept
    <3> QED  BY <3>1, <3>2, <3>3
  <2>3. ASSUME tokens # <<>> PROVE Live(Family(Len(tokens))) # {}
    <3>1. Len(tokens) \in DOMAIN tokens
      BY <2>3, ManyMarked DEF SessionInv
    <3>2. PICK j \in DOMAIN tokens : Family(j) = Family(Len(tokens)) /\ Active(j)
      BY <2>1, <3>1 DEF Kept
    <3> QED  BY <3>2 DEF Live, Active
  <2> QED  BY <2>1, <2>2, <2>3 DEF Blameless
<1> QED  BY <1>1, SessionsHold, PTL

(* A family has one live token at most unless two handlers found the same   *)
(* token ACTIVE at once, which one tab that lost no answer never makes      *)
(* happen (rotate, and the single flight of lib/api.ts); a family that was  *)
(* revoked has no live token unless one was just being rotated; nobody      *)
(* waits for a refresh that is not under way; and an account that was       *)
(* suspended stays so: for any number of tabs, reloads and handlers adrift. *)
THEOREM SessionsHoldUp == SessionsSpec => SessionsAreSound
<1>1. AccountInv /\ SessionInv => SessionsTypeOK
  <2> SUFFICES ASSUME AccountInv, SessionInv PROVE SessionsTypeOK
    OBVIOUS
  <2>1. AccountsTypeOK
    <3>1. \A c \in Clients : handler[c] \in Handler
      BY DEF AccountInv, AccountTypes
    <3> QED  BY <3>1 DEF AccountInv, AccountTypes, AccountsTypeOK, Handler
  <2>2. \A id \in DOMAIN tokens : tokens[id].status \in {"ACTIVE", "ROTATED", "REVOKED"}
                                  /\ tokens[Family(id)].family = Family(id)
    <3>1. \A id \in DOMAIN tokens : tokens[id] \in Token
      BY ManyMarked DEF SessionInv
    <3>2. \A id \in DOMAIN tokens : tokens[Family(id)].family = Family(id)
      BY DEF SessionInv, SessionTypes, Family
    <3> QED  BY <3>1, <3>2 DEF Token
  <2>3. \A c \in Calls : call[c].pc \in {"idle", "sent", "unauthorized", "await"} \cup Refreshing
    <3>1. \A c \in Calls : call[c] \in Request
      BY ManyMarked, Apart DEF SessionInv
    <3> QED  BY <3>1 DEF Request
  <2> QED  BY <2>1, <2>2, <2>3 DEF SessionsTypeOK, SessionInv, SessionTypes, LeaderInv
<1>2. SessionInv => OneLiveToken
  <2> SUFFICES ASSUME SessionInv, NEW id \in DOMAIN tokens, Family(id) \notin twins
               PROVE  Cardinality(Live(Family(id))) <= 1
    BY DEF OneLiveToken, SessionInv, SoloInv
  <2>1. \A i, j \in Live(Family(id)) : i = j
    BY DEF SessionInv, OneLiveInv, Live, Active
  <2>2. CASE Live(Family(id)) = {}
    BY <2>2, FS_EmptySet
  <2>3. CASE Live(Family(id)) # {}
    <3>1. PICK i : i \in Live(Family(id))
      BY <2>3
    <3>2. Live(Family(id)) = {i}
      BY <2>1, <3>1
    <3>3. Cardinality({i}) = 1
      BY FS_Singleton
    <3> QED  BY <3>2, <3>3
  <2> QED  BY <2>2, <2>3
<1>3. SessionInv => EndedIsOver
  BY DEF SessionInv, EndedInv, EndedIsOver, Live, Active
<1>4. AccountInv /\ [SessionsNext]_authVars =>
        [account = "SUSPENDED" => account' = "SUSPENDED"]_accountVars
  <2> SUFFICES ASSUME AccountInv, [SessionsNext]_authVars, account = "SUSPENDED"
               PROVE  account' = "SUSPENDED" \/ UNCHANGED accountVars
    OBVIOUS
  <2>1. CASE AccountNext
    BY <2>1, AccountMoves
  <2>2. CASE SuspendUser
    BY <2>2 DEF SuspendUser, Suspend
  <2>6. ASSUME NEW c, RefreshStep(c)
        PROVE  UNCHANGED accountVars
    BY <2>6 DEF RefreshStep, ReadToken, ReuseDetected, Rotate
  <2>3. ASSUME NEW c \in Calls,
               \/ Send(c) \/ CallStep(c)
               \/ LoseRefresh(c) \/ LoseWallet(c) \/ RefreshFails(c) \/ RefreshLimited(c)
        PROVE  UNCHANGED accountVars
    BY <2>3, <2>6 DEF Send, CallStep, Answered, Unauthorized, Refreshed, RefreshError, LoseRefresh,
                LoseWallet, RefreshFails, RefreshLimited
  <2>4. ASSUME NEW t \in Clients,
               SignIn(t) \/ Logout(t) \/ Reload(t) \/ ChangePassword(t) \/ RevokeAll(t)
        PROVE  account' = account
    BY <2>4 DEF SignIn, Logout, Reload, ChangePassword, RevokeAll, accountVars
  <2>5. CASE Tick \/ UNCHANGED authVars
    BY <2>5 DEF Tick, authVars
  <2> QED  BY <2>1, <2>2, <2>3, <2>4, <2>5, <2>6 DEF SessionsNext
<1> QED  BY <1>1, <1>2, <1>3, <1>4, SessionsHold, PTL
                DEF SessionsSpec, SessionsAreSound, SuspensionStands
===============================================================================
