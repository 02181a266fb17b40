---------------------------- MODULE MCPlaceOrders ----------------------------
(* PlaceOrders for two stocks and a cash-like holding, at three prices. *)
EXTENDS PlaceOrders, TLC

MCSymbols == {1, 2, 3}
MCMark == (1 :> 2) @@ (2 :> 3) @@ (3 :> 2)
MCCashEquivalents == {3}
MCPricedSets == {{1, 2, 3}, {1, 2}}

Weights(f) == [mode |-> "target", intents |-> [s \in DOMAIN f |-> [kind |-> "weight", value |-> f[s]]]]
Dollars(f) == [mode |-> "incremental", intents |-> [s \in DOMAIN f |-> [kind |-> "notional", value |-> f[s]]]]

\* All in, halves, a short leg, the cash-like one kept, one reviewed by an agent; purchases of a
\* monthly plan, one with a sale.
MCPlans ==
    { Weights(1 :> 100), Weights((1 :> 50) @@ (2 :> 50)), Weights((1 :> -40) @@ (2 :> 90)),
      Weights((2 :> 60) @@ (3 :> 20)), Weights((1 :> 60) @@ (2 :> 30) @@ (3 :> 10)),
      [mode |-> "target", intents |-> 2 :> [kind |-> "shares", value |-> 2]],
      Dollars((1 :> 5) @@ (2 :> 7)), Dollars((1 :> -4) @@ (2 :> 6)) }

MCAccounts == {h \in [MCSymbols -> -1..3] : h[2] >= 0 /\ h[3] >= 0}

=============================================================================
