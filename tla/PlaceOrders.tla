----------------------------- MODULE PlaceOrders -----------------------------
(***************************************************************************)
(* Sizing, funding and submitting one batch of orders (core/orders.py,     *)
(* core/pipeline.py): intents become share counts, the batch is fitted to  *)
(* the money there will be, cash-like holdings are sold for what is        *)
(* missing, and the legs go to the broker one at a time.                   *)
(*                                                                         *)
(* Shares are whole and amounts are whole dollars, so that FUNDING_EPSILON *)
(* is nothing.  A symbol is its place in the alphabet, the order in which  *)
(* the code goes through them.                                             *)
(***************************************************************************)
EXTENDS Integers, FiniteSets, Functions

CONSTANTS
    Symbols,
    Plans,            \* [mode, intents]: intents maps some symbols to [kind, value]
    PricedSets,       \* the sets of symbols a plan may come with prices for
    Mark,             \* symbol -> the price at which the broker trades it
    CashEquivalents,  \* symbols the account's configuration calls cash-like
    MinTrade, Threshold, Buffer,  \* min_trade_dollars; rebalance_threshold, cash_buffer in percent
    EquityCap,        \* algorithm_equity_cap, 0 for none
    Cash, Holdings,   \* the accounts to start from
    MaxMoney, MaxRuns \* model bounds

ASSUME SymbolsAssumption ==
    /\ Symbols \subseteq Nat /\ IsFiniteSet(Symbols) /\ CashEquivalents \subseteq Symbols
    /\ PricedSets \subseteq SUBSET Symbols
    /\ Mark \in [Symbols -> Nat \ {0}]
ASSUME PlansAssumption ==
    \A p \in Plans :
        /\ p.mode \in {"target", "incremental"}
        /\ DOMAIN p.intents \subseteq Symbols
        /\ \A s \in DOMAIN p.intents :
              p.intents[s].kind \in {"shares", "weight", "notional"} /\ p.intents[s].value \in Int
ASSUME MoneyAssumption ==
    /\ MinTrade \in Nat /\ Threshold \in Nat /\ Buffer \in 0..100 /\ EquityCap \in Nat
    /\ Cash \subseteq Nat /\ Holdings \subseteq [Symbols -> Int]
    /\ MaxMoney \in Nat /\ MaxRuns \in Nat

VARIABLES
    cash, held, equity,  \* the account at the broker
    phase,               \* where place_orders is
    plan, prices,        \* its arguments
    snap,                \* the PortfolioSnapshot it read
    delta,               \* symbol -> planned change in shares
    requested, budget,   \* what the buys cost; what there will be to pay for them
    needed,              \* what is still to be freed, in thousandths
    freed,               \* cash-like symbol -> shares to sell
    funded, remaining,   \* symbol -> shares to buy; what is left of the budget
    todo,                \* symbols or legs the loop has not come to
    sent, lost, skipped, \* legs the broker took, legs it refused, short sales it cannot borrow for
    status,              \* what place_orders answers
    runs,
    refused, disturbed   \* history: the broker refused a leg it need not; somebody else traded

account == <<cash, held, equity>>
arguments == <<plan, prices, snap>>
sizing == <<delta, requested, budget>>
liquidation == <<needed, freed>>
fitting == <<funded, remaining>>
submission == <<sent, lost, skipped, status>>
history == <<runs, refused, disturbed>>
vars == <<account, phase, arguments, sizing, liquidation, fitting, todo, submission, history>>

Money == 0..MaxMoney
Legs == {"free", "sell", "buy"} \X Symbols

AtLeast(a, b) == IF a >= b THEN a ELSE b
AtMost(a, b) == IF a <= b THEN a ELSE b
Abs(n) == IF n >= 0 THEN n ELSE -n
Least(S) == CHOOSE s \in S : \A t \in S : s <= t
CeilDiv(n, d) == (n + d - 1) \div d

\* round_shares: toward zero.
RoundShares(n, d) == IF n >= 0 THEN n \div d ELSE -((-n) \div d)

Nothing == [s \in Symbols |-> 0]
NoPlan == [mode |-> "target", intents |-> <<>>]

Worth(c, h) == c + SumFunction([s \in Symbols |-> h[s] * Mark[s]])

\* The broker keeps what short positions are worth.
BuyingPower == cash - SumFunction([s \in Symbols |-> AtLeast(-held[s], 0) * Mark[s]])

\* Accounts the broker calls for more money are left out.
Init ==
    /\ cash \in Cash /\ held \in Holdings /\ BuyingPower >= 0
    /\ equity \in {e \in Money : e = Worth(cash, held)}
    /\ phase = "idle"
    /\ plan = NoPlan /\ prices = Nothing
    /\ snap = [power |-> 0, held |-> Nothing, equity |-> 0]
    /\ delta = Nothing /\ requested = 0 /\ budget = 0
    /\ needed = 0 /\ freed = Nothing
    /\ funded = Nothing /\ remaining = 0
    /\ todo = {} /\ sent = {} /\ lost = {} /\ skipped = {} /\ status = "none"
    /\ runs = 0 /\ refused = FALSE /\ disturbed = FALSE

-----------------------------------------------------------------------------
(* Sizing: resolve_target_shares and plan_share_orders *)

\* sizing_equity
SizingEquity == IF EquityCap > 0 THEN AtMost(equity, EquityCap) ELSE equity

\* The broker is read and the run begins; history is that of this run.
Read(p, priced) ==
    /\ phase = "idle" /\ runs < MaxRuns
    /\ plan' = p
    /\ prices' = [s \in Symbols |-> IF s \in priced THEN Mark[s] ELSE 0]
    /\ \E power \in {m \in Money : m = BuyingPower} :
         snap' = [power |-> power, held |-> held, equity |-> SizingEquity]
    /\ runs' = runs + 1
    /\ sent' = {} /\ lost' = {} /\ skipped' = {} /\ status' = "none"
    /\ refused' = FALSE /\ disturbed' = FALSE
    /\ phase' = "size"
    /\ UNCHANGED <<account, sizing, liquidation, fitting, todo>>

IntentShares(i, price, worth) ==
    IF i.kind = "shares" THEN i.value
    ELSE IF i.kind = "weight" THEN RoundShares(worth * i.value, 100 * price)
    ELSE RoundShares(i.value, price)

\* In target mode a holding that is not listed has the target zero.
Target(p, h, price, worth, s) ==
    IF s \in DOMAIN p.intents
    THEN (IF p.mode = "incremental" THEN h[s] ELSE 0) + IntentShares(p.intents[s], price[s], worth)
    ELSE IF p.mode = "incremental" THEN h[s] ELSE 0

\* What a trade has to be worth, in hundredths: closing a position is not a rebalance.  Mutant: it is.
FloorForAll(target, worth) == AtLeast(MinTrade * 100, worth * Threshold)
Floor(target, worth) ==
    IF target = 0 THEN MinTrade * 100 ELSE AtLeast(MinTrade * 100, worth * Threshold)

\* The change a plan asks for, 0 for a symbol without a price or below the floor.
Planned(p, h, price, worth, s) ==
    LET target == Target(p, h, price, worth, s)
        change == target - h[s]
    IN IF price[s] = 0 \/ Abs(change) * price[s] * 100 < Floor(target, worth) THEN 0 ELSE change

Unpriced == {s \in DOMAIN plan.intents : plan.intents[s].kind # "shares" /\ prices[s] = 0}

\* An intent without a price raises before anything is sent.
Size ==
    /\ phase = "size"
    /\ delta' = IF Unpriced # {} THEN Nothing
                ELSE [s \in Symbols |-> Planned(plan, snap.held, prices, snap.equity, s)]
    /\ freed' = Nothing /\ funded' = Nothing /\ todo' = {}
    /\ phase' = IF delta' = Nothing THEN "done" ELSE "fund"
    /\ status' = IF Unpriced # {} THEN "error" ELSE IF delta' = Nothing THEN "no_orders" ELSE "none"
    /\ UNCHANGED <<account, arguments, requested, budget, needed, remaining, sent, lost, skipped, history>>

-----------------------------------------------------------------------------
(* Funding: fund_planned_orders *)

Sells == {s \in Symbols : delta[s] < 0}
Buys == {s \in Symbols : delta[s] > 0}
OpensShort(s) == delta[s] < 0 /\ snap.held[s] + delta[s] < 0

Cost(s, quantity) == quantity * prices[s]
CostOfBuys == SumFunction([s \in Buys |-> Cost(s, delta[s])])

\* A short sale brings no money to spend.
Proceeds == SumFunction([s \in {t \in Sells : ~OpensShort(t)} |-> Cost(s, -delta[s])])

\* Mutant: no reserve.
NoReserve == 0
Reserve == CeilDiv(snap.equity * Buffer, 100)

\* What may be spent of what there is.
Spendable == AtLeast(snap.power - Reserve, 0)

\* The sums are taken of what MaxMoney can hold.  Symbols the batch trades are not liquidated.
Liquidable == CashEquivalents \ (Sells \cup Buys)

Fund ==
    /\ phase = "fund"
    /\ \E proceeds \in {m \in Money : m = Proceeds}, cost \in {m \in Money : m = CostOfBuys} :
         /\ requested' = cost
         /\ budget' = Spendable + proceeds
         /\ needed' = AtLeast(cost - budget', 0) * 1005
    /\ todo' = Liquidable
    /\ phase' = "liquidate"
    /\ UNCHANGED <<account, arguments, delta, freed, fitting, submission, history>>

\* LIQUIDATION_PAD is the 5 of 1005; shares are rounded up.
Freeing(s) == AtMost(held[s], CeilDiv(needed, 1000 * Mark[s]))

\* get_cash_equivalents has read the broker anew, and has its own price.
LiquidateOne ==
    /\ phase = "liquidate" /\ needed > 0 /\ todo # {}
    /\ LET s == Least(todo)
           quantity == IF held[s] > 0 THEN Freeing(s) ELSE 0
       IN /\ freed' = [freed EXCEPT ![s] = quantity]
          /\ needed' = needed - quantity * Mark[s] * 1000
          /\ budget' = budget + quantity * Mark[s]
          /\ todo' = todo \ {s}
    /\ UNCHANGED <<account, phase, arguments, delta, requested, fitting, submission, history>>

AllLegs(f, b) ==
    {<<"free", s>> : s \in {t \in Symbols : f[t] > 0}}
        \cup {<<"sell", s>> : s \in Sells} \cup {<<"buy", s>> : s \in {t \in Symbols : b[t] > 0}}

\* The batch fits as it is, or is to be cut.
Afford ==
    /\ phase = "liquidate" /\ (needed <= 0 \/ todo = {})
    /\ IF requested <= budget
       THEN /\ funded' = [s \in Symbols |-> AtLeast(delta[s], 0)]
            /\ remaining' = budget - requested
            /\ todo' = AllLegs(freed, funded')
            /\ phase' = "submit"
       ELSE /\ remaining' = budget
            /\ todo' = Buys
            /\ phase' = "fit"
            /\ UNCHANGED funded
    /\ UNCHANGED <<account, arguments, sizing, liquidation, submission, history>>

-----------------------------------------------------------------------------
(* _fit_buys_to_budget *)

\* Greedy takes the largest first, pro rata goes by name.
NextBuy ==
    IF plan.mode = "incremental"
    THEN Least({s \in todo : \A t \in todo : Cost(t, delta[t]) <= Cost(s, delta[s])})
    ELSE Least(todo)

Wished(s) == IF plan.mode = "incremental" THEN delta[s] ELSE (delta[s] * budget) \div requested

\* What is wished for if the rest of the budget pays for it, and else what that pays for.
Fitted(s) ==
    IF Cost(s, Wished(s)) > remaining THEN remaining \div prices[s] ELSE Wished(s)

FitOne ==
    /\ phase = "fit" /\ todo # {}
    /\ LET s == NextBuy
           quantity == IF Cost(s, Fitted(s)) < MinTrade THEN 0 ELSE Fitted(s)
       IN /\ funded' = [funded EXCEPT ![s] = quantity]
          /\ remaining' = remaining - Cost(s, quantity)
          /\ todo' = todo \ {s}
    /\ UNCHANGED <<account, phase, arguments, sizing, liquidation, submission, history>>

FitDone ==
    /\ phase = "fit" /\ todo = {}
    /\ todo' = AllLegs(freed, funded)
    /\ phase' = "submit"
    /\ UNCHANGED <<account, arguments, sizing, liquidation, fitting, submission, history>>

-----------------------------------------------------------------------------
(* submit_planned_orders *)

Signed(leg) ==
    IF leg[1] = "free" THEN -freed[leg[2]]
    ELSE IF leg[1] = "sell" THEN delta[leg[2]] ELSE funded[leg[2]]

\* Liquidation first, then the sells, then the buys; within each kind in any order.
\* Mutant: buys and sells as they come.
NextLegsMixed(leg) == \A l \in todo : l[1] = "free" => leg[1] = "free"
NextLegs(leg) ==
    /\ leg[1] = "sell" => \A l \in todo : l[1] # "free"
    /\ leg[1] = "buy" => \A l \in todo : l[1] = "buy"

\* The money a short sale needs of the account at Alpaca: what the whole short position is worth, if
\* there is buying power at all.
MayShort(s) ==
    BuyingPower <= 0 \/ -(snap.held[s] + delta[s]) * prices[s] <= BuyingPower

\* The broker fills at its mark; it refuses what its buying power does not pay for, and may refuse
\* anything.  It is asked first whether a short sale is feasible, which may be no for the asset's sake.
Submit(leg) ==
    LET s == leg[2]
        q == Signed(leg)
    IN
    /\ phase = "submit" /\ leg \in todo /\ NextLegs(leg)
    /\ todo' = todo \ {leg}
    /\ \/ /\ q < 0 \/ q * Mark[s] <= BuyingPower
          /\ leg[1] = "sell" /\ OpensShort(s) => MayShort(s)
          /\ cash' = cash - q * Mark[s]
          /\ held' = [held EXCEPT ![s] = @ + q]
          /\ sent' = sent \cup {leg}
          /\ UNCHANGED <<lost, skipped, refused>>
       \/ /\ leg[1] = "sell" /\ OpensShort(s) => MayShort(s)
          /\ lost' = lost \cup {leg}
          /\ refused' = (refused \/ q < 0 \/ q * Mark[s] <= BuyingPower)
          /\ UNCHANGED <<cash, held, sent, skipped>>
       \/ /\ leg[1] = "sell" /\ OpensShort(s)
          /\ skipped' = skipped \cup {leg}
          /\ refused' = TRUE
          /\ UNCHANGED <<cash, held, sent, lost>>
    /\ UNCHANGED <<status, equity, phase, arguments, sizing, liquidation, fitting, runs, disturbed>>

Cut == {s \in Buys : funded[s] < delta[s]}

\* _batch_status: a refusal outweighs a cut.  Mutant: the cut is looked at first.
StatusCutFirst ==
    IF Cut # {} THEN IF sent # {} THEN "submitted_reduced" ELSE "unfunded"
    ELSE IF lost # {} THEN IF sent # {} THEN "partial" ELSE "rejected"
    ELSE "submitted"
Status ==
    IF lost # {} THEN IF sent # {} THEN "partial" ELSE "rejected"
    ELSE IF Cut # {} THEN IF sent # {} THEN "submitted_reduced" ELSE "unfunded"
    ELSE "submitted"

SubmitDone ==
    /\ phase = "submit" /\ todo = {}
    /\ status' = Status
    /\ phase' = "done"
    /\ UNCHANGED <<account, arguments, sizing, liquidation, fitting, todo, sent, lost, skipped, history>>

\* place_orders returns.
Return ==
    /\ phase = "done"
    /\ phase' = "idle"
    /\ UNCHANGED <<account, arguments, sizing, liquidation, fitting, todo, submission, history>>

\* Another binding, or the owner, trades a share on the account while the batch is under way.
\* From the time the cash-like holdings are read to the first leg nothing looks at the account.
Outside(s, q) ==
    /\ phase \in {"size", "submit"} /\ ~disturbed
    /\ q * Mark[s] <= BuyingPower /\ held[s] + q >= 0
    /\ cash' = cash - q * Mark[s]
    /\ held' = [held EXCEPT ![s] = @ + q]
    /\ disturbed' = TRUE
    /\ UNCHANGED <<equity, phase, arguments, sizing, liquidation, fitting, todo, submission, runs,
                   refused>>

Step == Size \/ Fund \/ LiquidateOne \/ Afford \/ FitOne \/ FitDone \/ SubmitDone \/ Return

Next ==
    \/ \E p \in Plans, priced \in PricedSets : Read(p, priced)
    \/ Step
    \/ \E leg \in Legs : Submit(leg)
    \/ \E s \in Symbols, q \in {1, -1} : Outside(s, q)

Spec == Init /\ [][Next]_vars

-----------------------------------------------------------------------------

Quiet == ~disturbed /\ ~refused

\* "Without it the tail legs of a batch are submitted at their full target and refused one at a
\* time by the broker, leaving the book half-rebalanced" (core/orders.py:370-372): with the account
\* to itself and a broker that refuses nothing it need not, no leg is refused.
BatchClears == Quiet => lost = {}

\* cash_buffer is "holding cash back to *fund* a batch" (algorithms/base.py:288): a batch all of
\* whose sells went through leaves the reserve, or what there was of it.
ReserveKept ==
    phase = "done" /\ Quiet => BuyingPower >= AtMost(snap.power, CeilDiv(snap.equity * Buffer, 100))

\* Closing is exempt from the threshold because a small holding "would be held forever"
\* (core/orders.py:177-179), and a rebalance that went through is done: planned again from the
\* account it leaves, a target batch that was not cut and needed no liquidation trades nothing, and
\* no priced holding outside the plan is left above the minimum.
Settled ==
    phase = "done" /\ Quiet /\ plan.mode = "target" /\ Unpriced = {}
        /\ freed = Nothing /\ funded = [s \in Symbols |-> AtLeast(delta[s], 0)]
        => \A s \in Symbols :
              /\ Planned(plan, held, prices, SizingEquity, s) = 0
              /\ s \notin DOMAIN plan.intents /\ held[s] * prices[s] > 0 => held[s] * prices[s] < MinTrade

\* "A success, not a failure: an agent that reads this as a rejection and retries would be
\* re-submitting orders that were trimmed on purpose" (core/pipeline.py:229-231): what is answered
\* as a success had no refusal, an uncut one adds up to the plan but for the short sales that
\* cannot be borrowed for, and an answer that says nothing was done is true of the account.
StatusTells ==
    /\ status \in {"submitted", "submitted_reduced"} => lost = {}
    /\ status = "submitted" /\ ~disturbed => \A s \in Symbols :
          <<"sell", s>> \notin skipped => held[s] = snap.held[s] + delta[s] - freed[s]
    /\ status \in {"error", "no_orders", "rejected", "unfunded"} /\ ~disturbed => held = snap.held

=============================================================================
