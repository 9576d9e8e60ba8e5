-------------------------- MODULE MCSubscriptionBook --------------------------
(***************************************************************************)
(* Instances of SubscriptionBook for TLC.                                  *)
(***************************************************************************)
EXTENDS SubscriptionBook

CONSTANTS r1, r2, a, b, btc, eth

TwoRequests == {r1, r2}
TwoPersons  == {a, b}
TwoTickers  == {btc, eth}
==============================================================================
