------------------------------ MODULE MCRiskDesk ------------------------------
(***************************************************************************)
(* Grid: every combination of the signals around the default thresholds   *)
(* (amounts in thousands of taka), while the thresholds change, also to    *)
(* values that make no sense.  Desk: a key of each band is assessed twice, *)
(* reviewed by two administrators and analysed twice.  Screen: the         *)
(* dashboard page over an assessed row, two reviews on the page and one by *)
(* another administrator.                                                  *)
(***************************************************************************)
EXTENDS RiskConsole, TLC

CONSTANTS q1, q2, adm, oth, mod1, mod2, j1, j2

Default == [medium |-> 20, high |-> 55, large |-> 50, cap |-> 500, velocity |-> 5,
            failures |-> 3, newDays |-> 7, loginMax |-> 5]
Calm == [amount |-> 10, recent |-> 0, failed |-> 0, recipients |-> 0, known |-> TRUE,
         age |-> 30, usual |-> 30, sent |-> 3, logins |-> 0, newSession |-> FALSE]

Values ==
  [amount |-> {10, 50, 90, 150, 500}, recent |-> {0, 5}, failed |-> {0, 3}, recipients |-> {0, 5},
   known |-> BOOLEAN, age |-> {7, 30}, logins |-> {0, 3, 5}, newSession |-> BOOLEAN]
Patches == {[medium |-> 40], [high |-> 15], [loginMax |-> 1], [newDays |-> 0, medium |-> 20],
            [medium |-> 50, high |-> -1]}

Scene(first, now) == [signals |-> first, config |-> Default, row |-> now, values |-> <<>>,
                      patches |-> {}, assess |-> FALSE, reviews |-> {}, analyses |-> 0]

Grid == {[Scene([Calm EXCEPT !.sent = n], NoRow) EXCEPT !.values = Values, !.patches = Patches] :
         n \in {0, 3}}
Desk == {[Scene([Calm EXCEPT !.amount = n, !.failed = 3], NoRow) EXCEPT
           !.patches = {[high |-> 30], [high |-> 55]}, !.assess = TRUE, !.reviews = {adm, oth},
           !.analyses = 1] : n \in {10, 500}}
Screen == {[Scene([Calm EXCEPT !.amount = 500], [NoRow EXCEPT !.decision = d[1], !.band = d[2]]) EXCEPT
             !.reviews = {adm, mod1, mod2}, !.analyses = 1] :
           d \in {<<"BLOCKED", "HIGH">>, <<"PENDING_VERIFICATION", "MEDIUM">>}}
AllScenes == Grid \cup Desk \cup Screen
==============================================================================
