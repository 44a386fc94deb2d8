------------------------------- MODULE MCAdvice -------------------------------
(***************************************************************************)
(* Alarms: two register during two checks while a transfer goes on.       *)
(* Pages: a feed of three with pages of two, read while two are added.    *)
(* Totals: a summary while the transfers of both periods go on, are paid, *)
(* fail and are denied.                                                   *)
(* Money: three investigations of a transfer that moves twice.            *)
(* Later: three while insights of both kinds expire.                      *)
(* Bell: notices of a transfer and a request, marked twice.               *)
(* Twice: notices of a transfer that is denied, retried and paid twice.   *)
(* Answers: notices of a request approved by several calls and closed.    *)
(* Bursts: eight requests that fail at once, over three windows.          *)
(***************************************************************************)
EXTENDS Advice

CONSTANTS me, you, new, a1, a2

Item(kind, from, to, status, current) ==
  [kind |-> kind, from |-> from, to |-> to, amount |-> 1, status |-> status, current |-> current,
   running |-> IF kind = "TRANSFER" /\ status = "PENDING" THEN 1 ELSE 0,
   done |-> IF status = "COMPLETED" THEN 1 ELSE 0, denied |-> FALSE]

Nothing ==
  [registered |-> {me, you}, items |-> <<>>, registrations |-> 0, creations |-> 0, checks |-> 1,
   history |-> FALSE, kinds |-> {"TRANSFER", "REQUEST"}, asks |-> {}, posts |-> 0, party |-> TRUE,
   events |-> 4, moves |-> 0, time |-> 0,
   amounts |-> {1}, bell |-> FALSE, marks |-> 0]

Alarms == [Nothing EXCEPT !.registered = {me}, !.registrations = 2, !.creations = 1, !.checks = 2, !.moves = 3,
   !.amounts = {1, 3}]
Pages == {[Nothing EXCEPT
   !.items = <<Item("TRANSFER", me, you, "COMPLETED", TRUE), Item("REQUEST", you, me, "PENDING", TRUE),
               Item("TRANSFER", you, me, "FAILED", TRUE)>>,
   !.creations = 2, !.history = TRUE, !.kinds = kinds] :
     kinds \in {{"TRANSFER", "REQUEST"}, {"TRANSFER"}}}
Totals == [Nothing EXCEPT
   !.items = <<Item("TRANSFER", me, you, "PENDING", FALSE), Item("TRANSFER", me, you, "COMPLETED", TRUE),
               Item("TRANSFER", me, you, "PENDING", TRUE), Item("TRANSFER", you, me, "PENDING", TRUE)>>,
   !.asks = {"summary"}, !.posts = 1, !.moves = 2]
Money == [Nothing EXCEPT !.asks = {"investigate"}, !.posts = 3, !.moves = 2]
Later == [Nothing EXCEPT !.asks = {"investigate"}, !.posts = 3, !.time = 3]
Bursts == [Nothing EXCEPT !.asks = {"investigate"}, !.posts = 8, !.time = 6, !.party = FALSE]
Bell == [Nothing EXCEPT
   !.items = <<Item("TRANSFER", you, me, "PENDING", TRUE)>>,
   !.bell = TRUE, !.creations = 1, !.moves = 1, !.marks = 2]
Twice == [Nothing EXCEPT
   !.items = <<Item("TRANSFER", you, me, "PENDING", TRUE)>>, !.bell = TRUE, !.moves = 4]
Answers == [Nothing EXCEPT
   !.items = <<Item("REQUEST", me, you, "PENDING", TRUE)>>, !.bell = TRUE, !.moves = 3]

AllScenes == {Alarms, Bell, Twice, Answers, Totals, Money, Later, Bursts} \cup Pages
===============================================================================
