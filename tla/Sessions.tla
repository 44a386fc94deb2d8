------------------------------ MODULE Sessions -------------------------------
(***************************************************************************)
(* RefreshTokenService, requireAuth and changePassword on the server; the  *)
(* refresh cookie, the access token in localStorage, the interceptors of   *)
(* lib/api.ts and AuthContext in one browser, whose tabs share both.       *)
(*                                                                         *)
(* The clients of Accounts that are tabs sign in here.  A call <<t, i>> is *)
(* one API request of tab t; a refresh token is known by its number.  The  *)
(* handler of a refresh goes on when its page is gone or its answer lost:  *)
(* it then runs in a slot of its own, adrift, and nobody hears of it.      *)
(*                                                                         *)
(* The definitions commented "slip" are plausible mistakes in the code.    *)
(***************************************************************************)
EXTENDS Accounts

CONSTANTS
  Slots,      \* a tab has one API request per slot under way
  Adrift,     \* bound: the slots of handlers whose page is gone, for each tab
  MaxClock,   \* bound: seconds, as far as an access token's age is compared
  Scenes      \* bound: [account, tabs, slots, happens, tokens, reloads]: the
              \* account at first, what is used of the browser, what happens
              \* besides API requests, how many refresh tokens there may be,
              \* and how often a page is loaded anew

Happenings == {"loss", "failure", "logout", "change", "suspend", "guesses", "codes", "crash"}

(* AuthProvider asks for the wallet in the first slot.                      *)
ASSUME SlotsAssumption == 1 \in Slots /\ Slots \cap Adrift = {}

ASSUME ScenesAssumption ==
  Scenes \subseteq [account : {"none", "ACTIVE"}, tabs : SUBSET Clients, slots : SUBSET Slots,
                   happens : SUBSET Happenings, tokens : Nat, reloads : Nat]

VARIABLES
  tokens,   \* the refresh_tokens rows in order of creation
  cookie,   \* the refresh token in the cookie jar, 0 if none
  stored,   \* when the access token in localStorage was issued, -1 if none
  me,       \* the tabs that show a signed-in user
  call,     \* the API request of each slot, and its tab's refresh if it leads it;
            \* the handlers that are adrift
  change,   \* the tabs between the two statements of changePassword
  clock,    \* seconds
  changed,  \* users.password_changed_at, -1 if never
  ended,    \* families revoked as a whole (for the properties)
  raced,    \* families revoked while one of their tokens was being rotated
  twins,    \* families a token of which two handlers have found ACTIVE at once
  alarms,   \* families whose reuse was detected
  reasons,  \* what happened that may end a session
  scene

sessionVars == <<tokens, cookie, stored, me, call, change, clock, changed>>
notes == <<ended, raced, twins, alarms, reasons, scene>>
authVars == <<accountVars, sessionVars, notes>>

Calls == Clients \X Slots
Gone == Clients \X Adrift
Requests == Calls \cup Gone
Tab(c) == c[1]
NoCall == [pc |-> "idle", access |-> -1, retried |-> FALSE, token |-> 0, boot |-> FALSE]
Serving == {"read", "rotate", "reuse"}
Refreshing == Serving \cup {"ok", "error"}

Family(id) == tokens[id].family
Live(f) == {id \in DOMAIN tokens : Family(id) = f /\ tokens[id].status = "ACTIVE"}

(* The type invariant; who waits for a refresh waits for one under way.     *)
SessionsTypeOK ==
  /\ AccountsTypeOK
  /\ cookie \in {0} \cup DOMAIN tokens
  /\ stored \in -1 .. clock /\ changed \in -1 .. clock
  /\ \A id \in DOMAIN tokens : tokens[id].status \in {"ACTIVE", "ROTATED", "REVOKED"}
                               /\ tokens[Family(id)].family = Family(id)
  /\ \A c \in Calls :
       /\ call[c].pc \in {"idle", "sent", "unauthorized", "await"} \cup Refreshing
       /\ call[c].pc = "await" =>
            \E d \in Calls : Tab(d) = Tab(c) /\ call[d].pc \in Refreshing
  /\ \A g \in Gone : call[g].pc \in {"idle"} \cup Serving
  /\ raced \subseteq ended /\ alarms \subseteq ended

SessionsInit ==
  /\ AccountsInit
  /\ tokens = <<>> /\ cookie = 0 /\ stored = -1
  /\ me = {} /\ change = {}
  /\ call = [c \in Requests |-> NoCall]
  /\ clock = 0 /\ changed = -1
  /\ ended = {} /\ raced = {} /\ twins = {} /\ alarms = {} /\ reasons = {}
  /\ scene \in Scenes
  /\ account = scene.account

Used(c) == Tab(c) \in scene.tabs /\ c[2] \in scene.slots
Happens(what) == what \in scene.happens
Because(reason) ==
  /\ reasons' = reasons \cup {reason}
  /\ UNCHANGED <<ended, raced, twins, alarms, scene>>

(* An answer is lost, or a refresh fails, once at most (a bound).           *)
Once(what) == Happens(what) /\ what \notin reasons /\ Because(what)
Loses == Once("loss")

-------------------------------------------------------------------------------
(* RefreshTokenService *)

(* The bound on tokens: every request under way may need one.               *)
Room == Len(tokens) + Cardinality({c \in Requests : call[c].pc # "idle"}) < scene.tokens

NewToken(family) ==
  [family |-> IF family = 0 THEN Len(tokens) + 1 ELSE family, status |-> "ACTIVE"]

(* revokeFamily, revokeAllForUser: one UPDATE.                              *)
Revoked(families) ==
  [id \in DOMAIN tokens |->
     IF Family(id) \in families THEN [tokens[id] EXCEPT !.status = "REVOKED"] ELSE tokens[id]]
Rotating(families) ==
  {f \in families : \E c \in Requests : call[c].pc = "rotate" /\ Family(call[c].token) = f}
Revoke(families, alarmed, why) ==
  /\ tokens' = Revoked(families)
  /\ ended' = ended \cup families
  /\ raced' = raced \cup Rotating(families)
  /\ alarms' = alarms \cup alarmed
  /\ reasons' = reasons \cup why
  /\ UNCHANGED <<twins, scene>>

(* Login and register end with a new family; the response sets the cookie   *)
(* and the page stores the access token, unless the response is lost.       *)
SignIn(t) ==
  /\ handler[t].pc = "issue"
  /\ t \in scene.tabs
  /\ Room
  /\ tokens' = Append(tokens, NewToken(0))
  /\ \/ /\ cookie' = Len(tokens) + 1
        /\ stored' = clock
        /\ me' = me \cup {t}
        /\ UNCHANGED notes
     \/ /\ Loses
        /\ cookie' \in {cookie, Len(tokens) + 1}
        /\ UNCHANGED <<stored, me>>
  /\ Out(t)
  /\ UNCHANGED <<account, codes, cooled, events, call, change, clock, changed>>

(* logout asks the server to revoke the cookie's family and to clear the    *)
(* cookie; should that fail, only the tab forgets.                          *)
Logout(t) ==
  /\ Happens("logout")
  /\ t \in me
  /\ \/ /\ Revoke(IF cookie = 0 THEN {} ELSE {Family(cookie)}, {}, {"logout"})
        /\ cookie' = 0
     \/ Because("logout") /\ UNCHANGED <<tokens, cookie>>
  /\ stored' = -1
  /\ me' = me \ {t}
  /\ UNCHANGED <<accountVars, call, change, clock, changed>>

-------------------------------------------------------------------------------
(* requireAuth: a token from a second before the last change of the         *)
(* password is dead.  (Calls of a page that an unverified user sees are     *)
(* served to PENDING_VERIFICATION accounts.)                                *)
Authentic(access) ==
  access # -1 /\ account \in MayLogIn /\ ~(changed > access)

(* A tab sends a request with the token that is stored.                     *)
Send(c) ==
  /\ Used(c) /\ Room
  /\ call[c].pc = "idle"
  /\ Tab(c) \in me
  /\ call' = [call EXCEPT ![c] = [NoCall EXCEPT !.pc = "sent", !.access = stored]]
  /\ UNCHANGED <<accountVars, tokens, cookie, stored, me, change, clock, changed, notes>>

(* The token of a first attempt may have reached its 15 minutes.            *)
Answered(c) ==
  /\ call[c].pc = "sent"
  /\ \/ /\ Authentic(call[c].access)
        /\ call' = [call EXCEPT ![c] = NoCall]
        /\ me' = IF call[c].boot THEN me \cup {Tab(c)} ELSE me
     \/ /\ ~Authentic(call[c].access) \/ ~call[c].retried
        /\ call' = [call EXCEPT ![c].pc = "unauthorized"]
        /\ UNCHANGED me
  /\ UNCHANGED <<accountVars, tokens, cookie, stored, change, clock, changed, notes>>

(* A 401 of a request already retried signs the tab out; another one waits  *)
(* for the refresh of this tab, which it starts if there is none.           *)
RefreshOwn(c) == TRUE  \* slip: every 401 starts a refresh of its own
Leads(c) == ~\E d \in Calls : Tab(d) = Tab(c) /\ call[d].pc \in Refreshing

GivesUp(c) == call[c].retried

Unauthorized(c) ==
  /\ call[c].pc = "unauthorized"
  /\ \/ /\ GivesUp(c)
        /\ call' = [call EXCEPT ![c] = NoCall]
        /\ stored' = -1
        /\ me' = me \ {Tab(c)}
     \/ /\ ~GivesUp(c)
        /\ call' = [call EXCEPT ![c].pc = IF Leads(c) THEN "read" ELSE "await",
                                ![c].token = IF Leads(c) THEN cookie ELSE 0]
        /\ UNCHANGED <<stored, me>>
  /\ UNCHANGED <<accountVars, tokens, cookie, change, clock, changed, notes>>

-------------------------------------------------------------------------------
(* POST /auth/refresh: rotate reads the row of the cookie's token, in a     *)
(* handler that goes on whatever has become of its page.  One that is       *)
(* adrift has nobody to answer to.                                          *)
Presentable(id) == tokens[id].status = "ACTIVE"

Goes(c, pc, id) ==
  call' = [call EXCEPT ![c] = IF c \in Gone /\ pc \notin Serving THEN NoCall
                              ELSE [call[c] EXCEPT !.pc = pc, !.token = id]]

(* A token that another handler has found ACTIVE and not yet rotated.       *)
Twinned(id) == {Family(id) : d \in {d \in Requests : call[d].pc = "rotate" /\ call[d].token = id}}

ReadToken(c) ==
  LET id == call[c].token IN
  /\ call[c].pc = "read"
  /\ \/ id = 0 /\ Goes(c, "error", 0) /\ UNCHANGED twins
     \/ id # 0 /\ ~Presentable(id) /\ Goes(c, "reuse", id) /\ UNCHANGED twins
     \/ id # 0 /\ Presentable(id) /\ Goes(c, "rotate", id) /\ twins' = twins \cup Twinned(id)
  /\ UNCHANGED <<accountVars, tokens, cookie, stored, me, change, clock, changed>>
  /\ UNCHANGED <<ended, raced, alarms, reasons, scene>>

(* Reuse: the family is revoked, the event logged, the user alarmed.        *)
ReuseDetected(c) ==
  LET id == call[c].token IN
  /\ call[c].pc = "reuse"
  /\ Revoke({Family(id)}, {Family(id)}, {})
  /\ Goes(c, "error", id)
  /\ UNCHANGED <<accountVars, cookie, stored, me, change, clock, changed>>

(* The transaction: the next token of the family and the end of this one,   *)
(* whatever has become of this one since it was read.                       *)
Retired(id) == [tokens[id] EXCEPT !.status = "ROTATED"]

Rotate(c) ==
  LET id == call[c].token IN
  /\ call[c].pc = "rotate"
  /\ tokens' = Append([tokens EXCEPT ![id] = Retired(id)], NewToken(Family(id)))
  /\ Goes(c, "ok", Len(tokens) + 1)
  /\ UNCHANGED <<accountVars, cookie, stored, me, change, clock, changed, notes>>

(* Any of its statements may fail - no connection in time, the transaction  *)
(* rolled back once too often, or its COMMIT unanswered when the rotation   *)
(* stands - and a token that is still ACTIVE may have expired.              *)
RefreshFails(c) ==
  /\ call[c].pc \in Serving \cup {"ok"}
  /\ Once("failure")
  /\ Goes(c, "error", call[c].token)
  /\ UNCHANGED <<accountVars, tokens, cookie, stored, me, change, clock, changed>>

(* The end of the refresh: the calls that wait for it are sent once more    *)
(* with the new token, or all fail.                                         *)
Waiting(c) == {d \in Calls : Tab(d) = Tab(c) /\ call[d].pc = "await"}
LeaderOnly(c) == {c}  \* slip: the others are not told
Resumed(c) == {c} \cup Waiting(c)

Again(d) ==
  [NoCall EXCEPT !.pc = "sent", !.access = clock, !.retried = TRUE, !.boot = call[d].boot]

Refreshed(c) ==
  /\ call[c].pc = "ok"
  /\ cookie' = call[c].token
  /\ stored' = clock
  /\ call' = [d \in Requests |-> IF d \in Resumed(c) THEN Again(d) ELSE call[d]]
  /\ UNCHANGED <<accountVars, tokens, me, change, clock, changed, notes>>

AllFail(c) ==
  /\ stored' = -1
  /\ me' = me \ {Tab(c)}
Failing(c) == [d \in Requests |-> IF d \in Resumed(c) THEN NoCall ELSE call[d]]

(* An error clears the cookie, also one that another tab has renewed; but   *)
(* who came without one is refused before that.                             *)
RefreshError(c) ==
  /\ call[c].pc = "error"
  /\ AllFail(c)
  /\ call' = Failing(c)
  /\ cookie' = IF call[c].token = 0 THEN cookie ELSE 0
  /\ UNCHANGED <<accountVars, tokens, change, clock, changed, notes>>

(* The limiter before the route answers 429; the cookie stays.              *)
RefreshLimited(c) ==
  /\ call[c].pc = "read"
  /\ Once("failure")
  /\ AllFail(c)
  /\ call' = Failing(c)
  /\ UNCHANGED <<accountVars, tokens, cookie, change, clock, changed>>

(* The handler of c goes on in a slot of its own; of an answer that is on   *)
(* its way the browser may have taken the cookie.                           *)
SetAdrift(c, calls) ==
  \E g \in Gone :
    /\ Tab(g) = Tab(c) /\ call[g].pc = "idle"
    /\ call' = [calls EXCEPT ![g] =
         IF call[c].pc \in Serving THEN [NoCall EXCEPT !.pc = call[c].pc, !.token = call[c].token]
         ELSE NoCall]
CookieOf(c) ==
  {cookie} \cup (IF call[c].pc = "ok" THEN {call[c].token} ELSE {})
           \cup (IF call[c].pc = "error" THEN {0} ELSE {})

(* The response to a refresh is lost; the request is not.                   *)
LoseRefresh(c) ==
  /\ call[c].pc \in Refreshing
  /\ Loses
  /\ AllFail(c)
  /\ SetAdrift(c, Failing(c))
  /\ cookie' \in CookieOf(c)
  /\ UNCHANGED <<accountVars, tokens, change, clock, changed>>

(* A tab is opened, or loaded anew: it forgets what it was waiting for, and *)
(* AuthProvider asks for the wallet, with the stored token or with none.    *)
(* The answer to a refresh that is interrupted is lost.  (That of a login   *)
(* is lost by SignIn.)                                                      *)
CallsOf(t) == {d \in Calls : Tab(d) = t}
Renewed(t) ==
  [d \in Requests |->
     CASE d \notin CallsOf(t) -> call[d]
       [] d \in CallsOf(t) /\ d[2] = 1 -> [NoCall EXCEPT !.pc = "sent", !.access = stored, !.boot = TRUE]
       [] OTHER -> NoCall]

Reload(t) ==
  /\ scene.reloads > 0
  /\ t \in scene.tabs /\ tokens # <<>> /\ Room
  /\ handler[t].pc = "idle"
  /\ \/ /\ \A d \in CallsOf(t) : call[d].pc \notin Refreshing
        /\ call' = Renewed(t)
        /\ UNCHANGED <<cookie, reasons>>
     \/ \E c \in CallsOf(t) :
          /\ call[c].pc \in Refreshing
          /\ SetAdrift(c, Renewed(t))
          /\ cookie' \in CookieOf(c)
          /\ reasons' = reasons \cup {"loss"}
  /\ me' = me \ {t}
  /\ scene' = [scene EXCEPT !.reloads = @ - 1]
  /\ UNCHANGED <<accountVars, tokens, stored, change, clock, changed, ended, raced, twins, alarms>>

(* Whatever error the first request meets, the user is taken for signed out.*)
LoseWallet(c) ==
  /\ call[c].boot /\ call[c].pc = "sent"
  /\ Loses
  /\ call' = [call EXCEPT ![c] = NoCall]
  /\ UNCHANGED <<accountVars, tokens, cookie, stored, me, change, clock, changed>>

-------------------------------------------------------------------------------
(* changePassword: the hash and password_changed_at, then every refresh     *)
(* token, whose UPDATE may fail and is not repeated.                        *)
ChangePassword(t) ==
  /\ Happens("change")
  /\ "change" \notin reasons
  /\ t \in me
  /\ Authentic(stored) /\ account = "ACTIVE"
  /\ changed' = clock
  /\ change' = change \cup {t}
  /\ Because("change")
  /\ UNCHANGED <<accountVars, tokens, cookie, stored, me, call, clock>>

RevokeAll(t) ==
  /\ t \in change
  /\ change' = change \ {t}
  /\ \/ Revoke({Family(id) : id \in DOMAIN tokens}, {}, {})
     \/ Because("failed revocation") /\ UNCHANGED tokens
  /\ UNCHANGED <<accountVars, cookie, stored, me, call, clock, changed>>

Tick ==
  /\ clock < MaxClock
  /\ clock' = clock + 1
  /\ UNCHANGED <<accountVars, tokens, cookie, stored, me, call, change, changed, notes>>

-------------------------------------------------------------------------------
AccountNext ==
  \/ \E c \in Clients :
       \/ c \in scene.tabs /\ (Register(c) \/ BeginLogin(c, TRUE)) /\ c \notin me
       \/ Happens("guesses") /\ BeginLogin(c, FALSE)
       \/ Happens("codes") /\ ((\E right \in BOOLEAN : BeginVerify(c, right)) \/ AskResend(c))
       \/ Happens("crash") /\ Abort(c)
       \/ Handle(c)
  \/ Happens("guesses") /\ Forget
  \/ Happens("codes") /\ (CoolDown \/ ExpireCode)

SuspendUser ==
  /\ Happens("suspend")
  /\ Suspend
  /\ Because("suspended")
  /\ UNCHANGED sessionVars

RefreshStep(c) == ReadToken(c) \/ ReuseDetected(c) \/ Rotate(c)

CallStep(c) ==
  \/ Answered(c) \/ Unauthorized(c) \/ RefreshStep(c)
  \/ Refreshed(c) \/ RefreshError(c)

SessionsNext ==
  \/ AccountNext /\ UNCHANGED <<sessionVars, notes>>
  \/ SuspendUser
  \/ \E c \in Calls :
       \/ Send(c) \/ CallStep(c)
       \/ LoseRefresh(c) \/ LoseWallet(c) \/ RefreshFails(c) \/ RefreshLimited(c)
  \/ \E g \in Gone : RefreshStep(g)
  \/ \E t \in Clients : SignIn(t) \/ Logout(t) \/ Reload(t) \/ ChangePassword(t) \/ RevokeAll(t)
  \/ Tick

SessionsSpec == SessionsInit /\ [][SessionsNext]_authVars

(* The server answers, and a page goes on when it has an answer.            *)
SessionsFairSpec ==
  SessionsSpec /\ \A c \in Calls : WF_authVars(CallStep(c))

-------------------------------------------------------------------------------
(* Safety *)

OneTab == Cardinality(scene.tabs) = 1

(* Each family has one live token at most, unless two handlers of           *)
(* /auth/refresh found the same token ACTIVE at once: the rotation itself   *)
(* looks at nothing.  Two tabs, or a page loaded anew while its refresh is  *)
(* under way, can make them ("the old token can never be used again",       *)
(* comment on RefreshTokenService, is not so for them); one tab that lost   *)
(* no answer never does, however many of its requests meet an expired token *)
(* at once.                                                                 *)
OneLiveToken ==
  /\ \A id \in DOMAIN tokens : Family(id) \notin twins => Cardinality(Live(Family(id))) <= 1
  /\ OneTab /\ "loss" \notin reasons => twins = {}

(* "the entire family is revoked": a family that was revoked - for reuse,   *)
(* a logout or a new password - has no live token ever after, unless one of *)
(* its tokens was just being rotated.                                       *)
EndedIsOver == \A f \in ended \ raced : Live(f) = {}

(* "concurrent 401s all await the same in-flight call instead of each       *)
(* racing their own /auth/refresh (which would trip reuse detection against *)
(* each other)" (comment in lib/api.ts): a user with one tab, none of whose *)
(* answers was lost and none of whose refreshes failed or was limited, who  *)
(* has not changed the password and not logged out, is neither alarmed nor  *)
(* signed out.                                                              *)
SignedOutForAReason ==
  OneTab /\ reasons = {} =>
    /\ alarms = {}
    /\ tokens # <<>> => /\ me \cup {Tab(c) : c \in {d \in Calls : call[d].boot}} = scene.tabs
                        /\ Live(Family(Len(tokens))) # {}

(* Liveness *)

(* Every request of a page comes to an end: no loop of refreshing and       *)
(* retrying, nobody left waiting for another's refresh.                     *)
EveryCallEnds == \A c \in Calls : call[c].pc # "idle" ~> call[c].pc = "idle"

-------------------------------------------------------------------------------
(* The properties by what they are about; their parts are above.            *)

(* What ends is over: a rotated or revoked token, and an account that was   *)
(* suspended, whatever was under way.                                       *)
SessionsAreSound ==
  [](SessionsTypeOK /\ OneLiveToken /\ EndedIsOver) /\ SuspensionStands
===============================================================================
