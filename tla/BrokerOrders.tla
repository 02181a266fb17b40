------------------------------ MODULE BrokerOrders ------------------------------
(***************************************************************************)
(* How an order request is spelled for a venue, how the venue's listing of *)
(* working orders is read back, and whether a listed order still is the    *)
(* one that is wanted (schwab/brokerage.py, alpaca/client.py,              *)
(* alpaca/brokerage.py, reconcile.py).  Prices are in cents, which is what *)
(* the plan rounds them to; 0 is a price that is not set.                  *)
(***************************************************************************)
EXTENDS Integers, FiniteSets, Sequences

CONSTANT Tolerance    \* replace_tolerance of a limit order, in percent
ASSUME ToleranceAssumption == Tolerance \in Nat

Venues == {"alpaca", "schwab"}

\* supports_oco of the class, read without a session.  Mutant: every venue does.
SupportsOcoEverywhere(venue) == venue \in Venues
SupportsOco(venue) == venue = "schwab"

-----------------------------------------------------------------------------
(* Requests (OrderRequest of a DesiredOrder) *)

Single(contract, action, type, quantity, limit, stop) ==
    [contract |-> contract, action |-> action, type |-> type, quantity |-> quantity,
     limit |-> limit, stop |-> stop, tolerance |-> IF type = "limit" THEN Tolerance ELSE 0,
     strategy |-> "single", children |-> <<>>]
Bid(contract, quantity, price) == Single(contract, "buy", "limit", quantity, price, 0)
Ask(contract, quantity, price) == Single(contract, "sell", "limit", quantity, price, 0)
StopLoss(contract, quantity, price) == Single(contract, "sell", "stop", quantity, 0, price)
Bracket(contract, quantity, price, stop) ==
    [Ask(contract, quantity, price) EXCEPT
        !.strategy = "oco",
        !.children = <<Ask(contract, quantity, price), StopLoss(contract, quantity, stop)>>]

-----------------------------------------------------------------------------
(* What the venue is sent *)

\* Only an order of a type that has the trigger carries its price.
LimitOf(r) == IF r.type \in {"limit", "stop_limit"} THEN r.limit ELSE 0
StopOf(r) == IF r.type \in {"stop", "stop_limit"} THEN r.stop ELSE 0

\* Long premium: a buy opens and a sell closes.  Mutant: one verb for both.
InstructionUnsided(r) == "BUY_TO_OPEN"
Instruction(r) == IF r.action = "buy" THEN "BUY_TO_OPEN" ELSE "SELL_TO_CLOSE"

Leg(r) == [contract |-> r.contract, instruction |-> Instruction(r), type |-> r.type,
           quantity |-> r.quantity, limit |-> LimitOf(r), stop |-> StopOf(r)]

\* Schwab's tree: an OCO wrapper has no leg of its own, only the pair it governs.
SchwabNode(r) == [legs |-> <<Leg(r)>>,
                  children |-> [j \in DOMAIN r.children |-> <<Leg(r.children[j])>>]]
OcoNode(r) == [SchwabNode(r) EXCEPT !.legs = <<>>]
SchwabOrder(r) == IF r.strategy = "oco" THEN OcoNode(r) ELSE SchwabNode(r)

\* A replacement carries no children, except the pair of an OCO.
SchwabReplacement(r) == IF r.strategy = "oco" THEN OcoNode(r)
                        ELSE SchwabNode([r EXCEPT !.children = <<>>])

\* Alpaca refuses anything but single orders for a positive quantity.
AlpacaOrder(r) == [legs |-> <<Leg(r)>>, children |-> <<>>]
AlpacaTakes(r) == r.strategy = "single" /\ r.quantity > 0

\* Alpaca changes quantity and prices in place: the contract, the side and the type stay.
AlpacaReplacement(old, r) ==
    [old EXCEPT !.legs = <<[old.legs[1] EXCEPT !.quantity = r.quantity, !.limit = LimitOf(r),
                                               !.stop = StopOf(r)]>>]

Takes(venue, r) == venue = "schwab" \/ AlpacaTakes(r)
Sent(venue, r) == IF venue = "schwab" THEN SchwabOrder(r) ELSE AlpacaOrder(r)
SentInstead(venue, old, r) ==
    IF venue = "schwab" THEN SchwabReplacement(r) ELSE AlpacaReplacement(old, r)

\* The contract an order trades, which all its legs are for.
ContractOf(order) == IF order.legs # <<>> THEN order.legs[1].contract
                     ELSE order.children[1][1].contract

-----------------------------------------------------------------------------
(* What the listing says of an order *)

Direction(instruction) ==
    IF instruction \in {"BUY", "BUY_TO_OPEN", "BUY_TO_CLOSE", "BUY_TO_COVER"} THEN "buy" ELSE "sell"
Row(leg) == [contract |-> leg.contract, action |-> Direction(leg.instruction),
             quantity |-> leg.quantity, type |-> leg.type, limit |-> leg.limit, stop |-> leg.stop]

\* The row under the order's own id: none for an OCO wrapper, whose children are listed under theirs.
HasRow(order) == order.legs # <<>>
RowOf(order) == Row(order.legs[1])

-----------------------------------------------------------------------------
(* Is the listed order still the wanted one *)

Distance(a, b) == IF a > b THEN a - b ELSE b - a
Higher(a, b) == IF a > b THEN a ELSE b

\* More than the tolerance away, and more than half a cent.
Moved(wanted, current, tolerance) ==
    wanted # 0 /\ (current <= 0 \/ 100 * Distance(wanted, current) > Higher(wanted * tolerance, 50))

\* _needs_replacement, which does not look at the contract.  Mutant: nor at the prices.
DiffersInQuantity(row, r) == row.quantity # r.quantity
Differs(row, r) ==
    \/ row.action # r.action
    \/ row.quantity # r.quantity
    \/ row.type # r.type
    \/ Moved(r.limit, row.limit, r.tolerance)
    \/ Moved(r.stop, row.stop, r.tolerance)

=============================================================================
