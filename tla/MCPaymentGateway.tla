-------------------------- MODULE MCPaymentGateway ---------------------------
(***************************************************************************)
(* Two requests at a time, of one key.  The page has a second key to go on *)
(* with, under which nothing more is sent.                                 *)
(***************************************************************************)
EXTENDS PaymentGateway, TLC

CONSTANTS c1, c2, k1, k2

Page == [is |-> "page", keys |-> {k1}, faults |-> 2]
Client == [is |-> "client", keys |-> {k1}, faults |-> 1]
AllUsers == {Page, Client}
OnlyPage == {Page}
===============================================================================
