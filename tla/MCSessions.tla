------------------------------ MODULE MCSessions -----------------------------
(***************************************************************************)
(* One account.  Quiet: one tab, two requests at a time, and only lost     *)
(* answers and logouts.  Failures: refreshes fail or are limited as well.  *)
(* Reloads: the tab is loaded anew, lost answers.                          *)
(* Change and Suspended: the password is changed, or the account           *)
(* suspended, meanwhile.  TwoTabs: they share the cookie and renew it at   *)
(* the same time.  Guesses, Codes: two clients try passwords, or register, *)
(* ask for codes and try them.                                             *)
(***************************************************************************)
EXTENDS Sessions, TLC

CONSTANTS t1, t2

Browser(tabs, slots, happens) ==
  [account |-> "ACTIVE", tabs |-> tabs, slots |-> slots, happens |-> happens, tokens |-> 4, reloads |-> 0]

Quiet == Browser({t1}, {1, 2}, {"loss", "logout"})
Failures == Browser({t1}, {1, 2}, {"loss", "failure"})
Reloads == [Browser({t1}, {1, 2}, {"loss"}) EXCEPT !.reloads = 1]
Change == Browser({t1}, {1, 2}, {"loss", "change"})
Suspended == Browser({t1}, {1, 2}, {"suspend"})
TwoTabs == [Browser({t1, t2}, {1}, {"change", "logout"}) EXCEPT !.tokens = 3]
Guesses == [Browser({t1}, {}, {"guesses", "suspend", "crash"}) EXCEPT !.tokens = 1]
Codes == [Browser({t1}, {}, {"codes", "suspend", "crash"}) EXCEPT
            !.account = "none", !.tokens = 1]
AllScenes == {Quiet, Failures, Reloads, Change, Suspended, TwoTabs, Guesses, Codes}
===============================================================================
