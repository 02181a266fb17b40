------------------------------ MODULE BurstyDca ------------------------------
(***************************************************************************)
(* The accrued budget of one symbol of Bursty DCA                          *)
(* (algorithms/bursty_dca/algorithm.py), from the plan through the orders  *)
(* to the state that is saved, for a scheduler or an agent who may send a  *)
(* plan late or twice, and a process that may die before it saves.         *)
(*                                                                         *)
(* Amounts are whole dollars, shares are whole.  Times are kept as the     *)
(* ticks since then, of which the code looks at no more than a month's     *)
(* (MAX_CATCHUP_MONTHS), and months as whether this is another one.        *)
(***************************************************************************)
EXTENDS Integers

CONSTANTS
    Rate, Month,      \* dollars earned per tick; ticks in a month
    Prices, Dearest,  \* what a share may cost, and the most it does
    Convictions,      \* what conviction() may return; 0 also stands for a symbol without history
    MaxConviction,    \* what MAX_SIGMA makes of scaling_factor
    Willingness,      \* what willingness() may return, in percent
    Relax, Multiple,  \* relax_months, max_monthly_multiple
    Slots,            \* plans that may be in somebody's hands at once
    MaxAccrued, MaxHeld, MaxFaults  \* model bounds

ASSUME RateAssumption == Rate \in Nat \ {0} /\ Month \in Nat \ {0}
ASSUME PricesAssumption ==
    Prices \subseteq Nat \ {0} /\ Dearest \in Nat /\ \A p \in Prices : p <= Dearest
ASSUME FactorsAssumption ==
    /\ Convictions \subseteq Nat /\ MaxConviction \in Nat /\ \A c \in Convictions : c <= MaxConviction
    /\ Willingness \subseteq Nat
ASSUME SlotsAssumption == Slots \subseteq Nat \ {0}
ASSUME SettingsAssumption == Relax \in Nat /\ Multiple \in Nat
ASSUME BoundsAssumption ==
    MaxAccrued \in Nat /\ MaxHeld \in Nat /\ MaxFaults \in Nat

Budget == Rate * Month

\* The most one run may deploy, and the most a symbol may owe.
Largest == Budget * Multiple + Dearest
Overdraft == Budget * Relax * MaxConviction

VARIABLES
    buying,   \* the sign of the budget
    day,      \* how far the calendar month is
    held,     \* shares of a symbol that is to be sold
    saved,    \* the state store
    plans,    \* slot -> a plan somebody has
    running,  \* the slot whose plan is being executed, or None
    placed,   \* shares the broker took of its order, or NotYet
    outcome,  \* how the last execution ended
    ledger,   \* history: earned until the state was saved, less what was ever spent
    crashes, replays, raced, \* history: saves that never happened; plans sent too late or again;
                             \* sales by somebody else while a plan was in hand
    spent,    \* history: what the broker really took this month
    strays    \* history: how often the state lost count of it this month

ofTheMonth == <<spent, strays>>
vars == <<buying, day, held, saved, plans, running, placed, outcome, ledger, crashes, replays, raced,
          spent, strays>>

None == 0
NotYet == -1
Outcomes == {"none", "traded", "refused", "unwanted", "small"}

AtMost(a, b) == IF a <= b THEN a ELSE b
AtLeast(a, b) == IF a >= b THEN a ELSE b
Once(b) == IF b THEN 1 ELSE 0

\* SymbolState: seeded once last_run_at is set; since then; whether month is another one now.
NewState == [seeded |-> FALSE, accrued |-> 0, since |-> 0, old |-> FALSE, deployed |-> 0]
NoPlan == [state |-> NewState, size |-> 0, price |-> 1, wanted |-> FALSE, earned |-> 0,
           made |-> FALSE, fresh |-> FALSE]

Init ==
    /\ buying \in BOOLEAN /\ day = 0
    /\ held = 0
    /\ saved = NewState
    /\ plans = [s \in Slots |-> NoPlan]
    /\ running = None /\ placed = NotYet
    /\ outcome = "none"
    /\ ledger = 0 /\ crashes = 0 /\ replays = 0 /\ raced = FALSE
    /\ spent = 0 /\ strays = 0

-----------------------------------------------------------------------------
(* Sizing *)

\* accrue
Accrue(s) ==
    [seeded |-> TRUE, since |-> 0, old |-> FALSE,
     accrued |-> IF s.seeded THEN s.accrued + Rate * s.since ELSE s.accrued,
     deployed |-> IF s.old THEN 0 ELSE s.deployed]

\* monthly_cap less what the month has seen.
Room(s) == AtLeast(Budget * Multiple - AtLeast(s.deployed, 0), 0)

\* spending_allowance.  Mutant: no bound.
AllowanceUnbounded(s, c) == MaxAccrued + Budget * Multiple
Allowance(s, c) == AtLeast(s.accrued + Budget * Relax * c, 0)

\* willingness is at least one when there is money banked, and at most one when there is debt.
Willing(s) == {w \in Willingness : (s.accrued > 0 => w >= 100) /\ (s.accrued < 0 => w <= 100)}

Sized(s, c, w) == AtMost(AtMost((Budget * c * w) \div 100, Room(s)), Allowance(s, c))

\* planned_order_size: one share, when that has been banked.  Mutant: no lift.
SizeUnlifted(s, c, w, price) == Sized(s, c, w)
PlannedOrderSize(s, c, w, price) ==
    IF 0 < Sized(s, c, w) /\ Sized(s, c, w) < price /\ price <= s.accrued
    THEN price ELSE Sized(s, c, w)

\* A sale is for no more than is held.
Clamped(size, price) == IF buying THEN size ELSE AtMost(size, held * price)

-----------------------------------------------------------------------------
(* A plan is made: by the scheduler before a run, by an agent, or to be looked at *)

Propose(slot, c, w, price) ==
    LET s == Accrue(saved)
        size == Clamped(PlannedOrderSize(s, c, w, price), price)
    IN
    /\ running = None
    /\ w \in Willing(s)
    /\ plans' = [plans EXCEPT ![slot] =
          [state |-> s, size |-> IF size >= price THEN size ELSE 0, price |-> price,
           wanted |-> c > 0 /\ (buying \/ held > 0), earned |-> Rate * saved.since,
           made |-> TRUE, fresh |-> TRUE]]
    /\ UNCHANGED <<buying, day, held, saved, running, placed, outcome, ledger, crashes, replays, raced,
                   ofTheMonth>>

\* execute: a plan made from the saved state as it is, or one that is sent late or again.  The state
\* will lose count of the month when the plan does not know what was saved since, and when it is one
\* of an earlier month.
Execute(slot) ==
    /\ running = None /\ plans[slot].made
    /\ plans[slot].fresh \/ crashes + replays < MaxFaults
    /\ running' = slot
    /\ replays' = IF plans[slot].fresh THEN replays ELSE replays + 1
    /\ ledger' = IF plans[slot].fresh THEN ledger ELSE 0
    /\ strays' = strays + Once(~plans[slot].fresh) + Once(plans[slot].state.old)
    /\ UNCHANGED <<buying, day, held, saved, plans, placed, outcome, crashes, raced, spent>>

Shares(p) == p.size \div p.price

\* place_orders: the broker takes all of it, the part there is money for, or nothing.
PlaceOrders(q) ==
    LET p == plans[running]
    IN
    /\ running # None /\ placed = NotYet
    /\ q \in 0..Shares(p)
    /\ placed' = q
    /\ held' = IF buying THEN held ELSE held - q
    /\ ledger' = IF replays > 0 THEN 0 ELSE ledger - q * p.price
    /\ spent' = spent + q * p.price
    /\ outcome' = IF q > 0 THEN "traded"
                  ELSE IF Shares(p) > 0 THEN "refused"
                  ELSE IF p.wanted THEN "small" ELSE "unwanted"
    /\ UNCHANGED <<buying, day, saved, plans, running, crashes, replays, raced, strays>>

\* state_after.  Mutants: what was asked for is drawn down; the month is not.
DrawnDownByIntent(p, q) ==
    [p.state EXCEPT !.accrued = @ - p.size, !.deployed = @ + p.size]
DrawnDownUncounted(p, q) == [p.state EXCEPT !.accrued = @ - q * p.price]
DrawnDown(p, q) ==
    [p.state EXCEPT !.accrued = @ - q * p.price, !.deployed = @ + q * p.price]

\* save_state: every plan in hand is one of an earlier state now, this one included; nobody keeps
\* one that the bound lets nobody send again.
Save ==
    /\ running # None /\ placed # NotYet
    /\ saved' = DrawnDown(plans[running], placed)
    /\ plans' = [s \in Slots |->
          IF crashes + replays < MaxFaults THEN [plans[s] EXCEPT !.fresh = FALSE] ELSE NoPlan]
    /\ running' = None /\ placed' = NotYet
    /\ ledger' = IF replays > 0 THEN 0 ELSE ledger + plans[running].earned
    /\ UNCHANGED <<buying, day, held, outcome, crashes, replays, raced, ofTheMonth>>

\* The process dies, or the caller gives up, with the orders out and nothing saved.
Crash ==
    /\ running # None /\ placed # NotYet /\ crashes + replays < MaxFaults
    /\ crashes' = crashes + 1 /\ strays' = strays + 1
    /\ running' = None /\ placed' = NotYet
    /\ UNCHANGED <<buying, day, held, saved, plans, outcome, ledger, replays, raced, spent>>

-----------------------------------------------------------------------------
(* Around it *)

\* No gap earns more than a month's budget.  From MaxAccrued on nothing is earned.
Older(s, monthEnds) ==
    [s EXCEPT !.since = IF s.seeded /\ @ < Month /\ s.accrued + Rate * (@ + 1) <= MaxAccrued
                        THEN @ + 1 ELSE @,
              !.old = @ \/ (s.seeded /\ monthEnds)]

\* A run is short against a tick.
Tick ==
    /\ running = None
    /\ day' = (day + 1) % Month
    /\ saved' = Older(saved, day' = 0)
    /\ plans' = [s \in Slots |-> [plans[s] EXCEPT !.state = Older(@, day' = 0)]]
    /\ IF day' = 0 THEN spent' = 0 /\ strays' = 0 ELSE UNCHANGED ofTheMonth
    /\ UNCHANGED <<buying, held, running, placed, outcome, ledger, crashes, replays, raced>>

\* The owner, or another algorithm, trades the symbol.
Owner(q) ==
    /\ ~buying /\ held + q \in 0..MaxHeld
    /\ held' = held + q
    /\ raced' = (raced \/ (q < 0 /\ \E s \in Slots : plans[s].made))
    /\ UNCHANGED <<buying, day, saved, plans, running, placed, outcome, ledger, crashes, replays, ofTheMonth>>

Next ==
    \/ \E slot \in Slots, c \in Convictions, w \in Willingness, price \in Prices :
          Propose(slot, c, w, price)
    \/ \E slot \in Slots : Execute(slot)
    \/ \E q \in 0..Largest : PlaceOrders(q)
    \/ Save
    \/ Crash
    \/ Tick
    \/ \E q \in {1, -1} : Owner(q)

Spec == Init /\ [][Next]_vars

\* Time passes, and the cron fires: a plan is made when none can be executed, a plan that can be
\* is, and an execution that began ends.
Fairness ==
    /\ SF_vars(Tick)
    /\ WF_vars(\E slot \in Slots, c \in Convictions, w \in Willingness, price \in Prices :
                  (\A s \in Slots : ~plans[s].fresh) /\ Propose(slot, c, w, price))
    /\ WF_vars(\E slot \in Slots : plans[slot].fresh /\ Execute(slot))
    /\ WF_vars(\E q \in 0..Largest : PlaceOrders(q))
    /\ WF_vars(Save)

LiveSpec == Spec /\ Fairness

-----------------------------------------------------------------------------
States == [seeded : BOOLEAN, accrued : Int, since : 0..Month, old : BOOLEAN, deployed : Nat]

TypeOK ==
    /\ buying \in BOOLEAN /\ day \in 0..Month - 1
    /\ held \in Int
    /\ saved \in States
    /\ plans \in [Slots -> [state : States, size : Nat, price : Nat \ {0}, wanted : BOOLEAN, earned : Nat,
                            made : BOOLEAN, fresh : BOOLEAN]]
    /\ running \in Slots \cup {None} /\ placed \in Nat \cup {NotYet}
    /\ outcome \in Outcomes
    /\ ledger \in Int /\ crashes \in Nat /\ replays \in Nat /\ raced \in BOOLEAN
    /\ spent \in Nat /\ strays \in Nat

\* "running this twice in quick succession accrues the same total as running it once", and what
\* rounds away stays "accrued for the next run instead of silently vanishing"
\* (algorithm.py:417, 528): whatever the cadence, previews, trims and refusals, the balance is what
\* was earned less what was spent, and a run that never saved hides one run's orders.
AccrualExact ==
    running = None /\ replays = 0 =>
        saved.accrued \in ledger .. ledger + crashes * Largest

\* "over any long horizon a symbol cannot spend faster than it earns, whatever the cadence"
\* (algorithm.py:266): the real spending is never ahead of the real earnings by more than the
\* overdraft, but for runs that never saved.
NeverFasterThanEarned ==
    running = None /\ replays = 0 => ledger + Rate * saved.since >= -Overdraft - crashes * Largest

\* monthly_cap is the "Most this symbol may deploy this month" (algorithm.py:285), and the lift, which
\* comes "after the monthly cap, and therefore able to exceed it" (328), passes it by less than a share:
\* over all the runs of a month what really reached the broker stays below that.  Every run that was
\* never saved, every plan sent again and every plan of another month makes the state forget what was
\* deployed, and lets the month deploy as much once more, but no more than once.
MonthlyCap == spent > 0 => spent < (1 + strays) * Largest

\* A sell budget "trims a position and never opens a short" (algorithm.py:479): unless somebody
\* else sold, or a plan was sent again.
NeverShorts ==
    ~raced /\ replays = 0 /\ crashes = 0 => held >= 0

\* "send exactly one rather than accruing forever" (algorithm.py:325): a symbol that is wanted and
\* not refused does not stay too small to trade.
EventuallyTrades == []<>(outcome # "small")

-----------------------------------------------------------------------------
(* What makes them inductive *)

\* What the order that is out and not yet booked came to.
Out == IF placed = NotYet THEN 0 ELSE placed * plans[running].price

RunInv ==
    /\ placed # NotYet => running # None /\ placed <= Shares(plans[running])
    /\ running # None => plans[running].made
    /\ replays = 0 /\ running # None => plans[running].fresh
    /\ \A s \in Slots : plans[s].fresh => plans[s].made

\* A plan is sized to what was banked and to the room in its month, whatever became of it since.
SizeInv ==
    /\ saved.accrued >= -Overdraft
    /\ \A s \in Slots :
          /\ plans[s].size <= Largest
          /\ plans[s].state.accrued - plans[s].size >= -Overdraft
          /\ plans[s].size > 0 => plans[s].state.deployed + plans[s].size < Largest

LedgerInv ==
    /\ ~saved.seeded => saved.since = 0
    /\ \A s \in Slots : ~plans[s].state.seeded => plans[s].state.since = 0
    /\ \A s \in Slots : plans[s].fresh => plans[s].state.accrued = saved.accrued + plans[s].earned
    /\ replays = 0 => saved.accrued - Out \in ledger .. ledger + crashes * Largest

\* What the state counts for this month.
Counted(s) == IF s.old THEN 0 ELSE s.deployed

\* What was deployed is what is counted or was lost count of, a month's worth each time.  A plan
\* that is neither sent again nor of another month knows all that is counted; one that is saves a
\* count that leaves out the others.
MonthInv ==
    /\ ~saved.seeded => saved.deployed = 0
    /\ Counted(saved) > 0 => Counted(saved) < Largest
    /\ \A s \in Slots :
          /\ plans[s].made => plans[s].state.seeded
          /\ Counted(plans[s].state) > 0 => Counted(plans[s].state) < Largest
          /\ plans[s].fresh => Counted(plans[s].state) = Counted(saved)
    /\ spent <= Counted(saved) + Out + strays * Largest
    /\ running # None /\ (~plans[running].fresh \/ plans[running].state.old) =>
          spent <= Out + (strays - Once(plans[running].state.old)) * Largest

ShortInv ==
    ~raced /\ replays = 0 /\ crashes = 0 =>
        /\ held >= 0
        /\ ~buying /\ placed = NotYet =>
              \A s \in Slots : plans[s].fresh => plans[s].size <= held * plans[s].price

DcaInv == TypeOK /\ RunInv /\ SizeInv /\ LedgerInv /\ MonthInv /\ ShortInv

=============================================================================
