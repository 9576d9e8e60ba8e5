---------------------------- MODULE MCPriceRounds ----------------------------
(***************************************************************************)
(* Instances of PriceRounds for TLC.                                       *)
(***************************************************************************)
EXTENDS PriceRounds

CONSTANTS p1, p2, k1, k2, ann, bob, btc, eth, sol

TwoProcesses == {p1, p2}
TwoKeys      == {k1, k2}
TwoPersons   == k1 :> ann @@ k2 :> bob
TwoOwners    == {ann, bob}
ThreeTickers == {btc, eth, sol}

Entry(t, to) == [ticker |-> t, to |-> to]

\* Nothing; a ticker that the feed does not support, between two others and
\* behind a list of two.
ThreeCopies ==
  {<<>>,
   <<Entry(btc, <<bob>>), Entry(sol, <<bob>>), Entry(eth, <<ann>>)>>,
   <<Entry(btc, <<ann, bob>>), Entry(sol, <<bob>>)>>}
=============================================================================
