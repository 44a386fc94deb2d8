------------------------------ MODULE RiskConsole ----------------------------
(***************************************************************************)
(* pages/SecurityDashboardPage.tsx in front of RiskDesk: an administrator  *)
(* opens the dashboard, takes a flagged transfer into the drawer and       *)
(* releases it or keeps it blocked, while other administrators review the  *)
(* same row through the API.                                               *)
(*                                                                         *)
(* A drawer may be closed while its review is under way and the row opened *)
(* again, so one page can have several reviews, and several loads of the   *)
(* dashboard, in flight; answers arrive in any order, or not at all.       *)
(***************************************************************************)
EXTENDS RiskDesk

CONSTANT Page  \* bound: the reviews made on this page, one after another

ASSUME ConsoleAssumption == Page \subseteq Admins

VARIABLE console  \* the page of one administrator

consoleVars == <<deskVars, console>>

(* What GET /security/dashboard says of the row, and the number of the     *)
(* load; "unread" while its query has not run.                             *)
Unread == [nr |-> 0, flagged |-> "unread", blocked |-> "unread"]
Closed == [open |-> FALSE, decision |-> "none", acting |-> {}]

ConsoleTypeOK ==
  /\ console.dash \in [nr : Nat, flagged : Decisions \cup {"unread"}, blocked : {"unread", "none", "one"}]
  /\ \A l \in console.loads : l.nr \in 1..console.asked
  /\ console.drawer.decision \in Decisions
  /\ console.loading \in BOOLEAN /\ console.error \in BOOLEAN

(* `sent` are the reviews sent and their kind, `accepted` those the server  *)
(* has accepted, `told` whether the page has been told of a release.        *)
ConsoleInit ==
  /\ DeskInit
  /\ console = [asked |-> 0, loads |-> {}, dash |-> Unread, loading |-> TRUE, error |-> FALSE,
                drawer |-> Closed, sent |-> [a \in Page |-> "no"], accepted |-> {}, told |-> FALSE]

-------------------------------------------------------------------------------
(* load: nothing cancels the loads already under way.                       *)
Loading(c) ==
  [c EXCEPT !.asked = @ + 1, !.loads = @ \cup {[Unread EXCEPT !.nr = c.asked + 1]},
            !.loading = TRUE, !.error = FALSE]

Mount == console.asked = 0 /\ console' = Loading(console) /\ UNCHANGED deskVars

(* The queries of dashboard() run side by side; the rows of LOW band are    *)
(* left out of the flagged ones.                                            *)
Flagged == IF row.band \in {"MEDIUM", "HIGH"} THEN row.decision ELSE "none"

Blocked == IF row.decision = "BLOCKED" THEN "one" ELSE "none"

ReadDashboard(l) ==
  /\ \/ l.flagged = "unread"
        /\ console' = [console EXCEPT !.loads = (@ \ {l}) \cup {[l EXCEPT !.flagged = Flagged]}]
     \/ l.blocked = "unread"
        /\ console' = [console EXCEPT !.loads = (@ \ {l}) \cup {[l EXCEPT !.blocked = Blocked]}]
  /\ UNCHANGED deskVars

Loaded(l) ==
  /\ l.flagged # "unread" /\ l.blocked # "unread"
  /\ console' = [console EXCEPT !.loads = @ \ {l}, !.dash = l, !.loading = FALSE]
  /\ UNCHANGED deskVars

LoadFails(l) ==
  /\ console' = [console EXCEPT !.loads = @ \ {l}, !.error = TRUE, !.loading = FALSE]
  /\ UNCHANGED deskVars

-------------------------------------------------------------------------------
(* The drawer: its row is read when it opens and shown until it closes.     *)
TableShown == ~console.error /\ ~console.loading /\ console.dash.nr > 0

OpenDrawer ==
  /\ TableShown /\ console.dash.flagged # "none" /\ ~console.drawer.open
  /\ console' = [console EXCEPT !.drawer = [Closed EXCEPT !.open = TRUE, !.decision = row.decision]]
  /\ UNCHANGED deskVars

CloseDrawer ==
  /\ console.drawer.open
  /\ console' = [console EXCEPT !.drawer = Closed]
  /\ UNCHANGED deskVars

(* act: the buttons are there for a row shown BLOCKED, and go grey until    *)
(* the answer comes.                                                        *)
Act(a, kind) ==
  /\ console.drawer.open /\ console.drawer.decision = "BLOCKED" /\ console.drawer.acting = {}
  /\ console.sent[a] = "no"
  /\ console' = [console EXCEPT !.drawer.acting = {a}, !.sent[a] = kind]
  /\ UNCHANGED deskVars

(* The server's part of a review, sent from the page or by another.         *)
Review(a) ==
  \/ (a \in Page => console.sent[a] \in {"release", "reject"}) /\ Open(a) /\ UNCHANGED console
  \/ /\ a \in Page => console.sent[a] = "release"
     /\ Release(a)
     /\ console' = [console EXCEPT !.accepted = IF a \in Page /\ Releasable(review[a].decision)
                                                THEN @ \cup {a} ELSE @]
  \/ /\ a \in Page => console.sent[a] = "reject"
     /\ Reject(a)
     /\ console' = [console EXCEPT !.accepted = IF a \in Page THEN @ \cup {a} ELSE @]

(* onReviewed: whatever drawer is open by now is closed, and the page       *)
(* loads again.                                                             *)
Accepted(a) ==
  Loading([console EXCEPT !.sent[a] = "answered", !.drawer = Closed,
                          !.told = @ \/ console.sent[a] = "release"])

(* The review was refused, or its answer is lost on the way.                *)
Failed(a) ==
  [console EXCEPT !.sent[a] = "answered", !.drawer.acting = @ \ {a}]

Reply(a) ==
  /\ console.sent[a] \in {"release", "reject"} /\ review[a].pc = "over"
  /\ \/ a \in console.accepted /\ console' = Accepted(a)
     \/ console' = Failed(a)
  /\ UNCHANGED deskVars

-------------------------------------------------------------------------------
AroundThePage ==
  /\ \/ \E f \in DOMAIN scene.values : \E v \in scene.values[f] : SignalChanges(f, v)
     \/ \E patch \in scene.patches : UpdateConfig(patch)
     \/ \E q \in Requests : Look(q) \/ Gather(q) \/ Insert(q)
     \/ MarkVerified
     \/ \E j \in Askers : StartAnalysis(j) \/ TryAnalysis(j) \/ StoreAnalysis(j)
  /\ UNCHANGED console

ConsoleNext ==
  \/ AroundThePage
  \/ \E a \in scene.reviews : Review(a)
  \/ scene.reviews \cap Page # {} /\ Mount
  \/ \E l \in console.loads : ReadDashboard(l) \/ Loaded(l) \/ LoadFails(l)
  \/ OpenDrawer \/ CloseDrawer
  \/ \E a \in scene.reviews \cap Page : Act(a, "release") \/ Act(a, "reject") \/ Reply(a)

ConsoleSpec == ConsoleInit /\ [][ConsoleNext]_consoleVars

-------------------------------------------------------------------------------
(* What the administrator sees.  A permission on the screen is in force,    *)
(* however old the table and the drawer are.  Once the page has been told   *)
(* that its release succeeded, the load that began last shows the transfer  *)
(* released and nothing blocked; an older load arriving later may not.      *)
Permissions == {"VERIFIED", "RELEASED"}

ScreenIsTrue ==
  /\ \A seen \in {console.dash.flagged, console.drawer.decision} \cap Permissions :
       row.decision = seen
  /\ console.told /\ console.dash.nr = console.asked =>
       console.dash.flagged = "RELEASED" /\ console.dash.blocked = "none"

(* An assessment and what is done about it: the decision fits the band, a   *)
(* permission once given stands, and the administrator's page tells so.     *)
ReviewsAreSound ==
  [](DeskTypeOK /\ ConsoleTypeOK /\ DecisionMatchesBand /\ ScreenIsTrue) /\ PermissionStands
===============================================================================
