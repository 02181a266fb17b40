------------------------------ MODULE OptionsFlip ------------------------------
(***************************************************************************)
(* One symbol of the Options Flip algorithm over several sessions: the     *)
(* gates and the levels that arm a bid, the contract it is for, the bid    *)
(* that is re-priced through the day, and the ask that is lowered from     *)
(* session to session until the position is out                            *)
(* (algorithms/options_flip/).  A run plans from the positions it reads    *)
(* and is carried out later; in between, and between runs, the resting     *)
(* order may fill.  Calls to the broker do not fail here and the stop is   *)
(* off, which is the default: OrderReconcile has the faults and brackets.  *)
(*                                                                         *)
(* Prices are in cents, deltas in hundredths, shares of anything in        *)
(* percent.                                                                *)
(***************************************************************************)
EXTENDS Integers, Sequences, FiniteSets, FiniteSetsExt, TLC

CONSTANTS
    Markets,         \* what a run may read: see MCOptionsFlip for the fields
    Names,           \* the contracts of the symbol
    Fractions,       \* session_fraction_remaining at each step of the day
    GivenUp,         \* share of the way to the mark a bid has come, at each step
    Conceded,        \* share of the gain an ask has conceded, after each session held
    Config,          \* the tuning of the algorithm, by the names of config.py
    Days,            \* the bound on the sessions
    MaxTrades,       \* and on the bids that fill
    NoOrder, NoContract

Steps == DOMAIN Fractions

\* What a provider says of a contract, and what a session of the history amounts to.
Contracts == [name : Names, right : STRING, expiry : Int, delta : Int, model : Int, gamma : Int,
              vega : Int, theta : Int, bid : Int, ask : Int, mark : Int, interest : Int,
              volume : Int, age : Int]
Sessions == [open : Int, high : Int, after : [Steps -> [at : Int, low : Int, high : Int]]]

ASSUME StepsAssumption == /\ Fractions \in Seq(0..100) /\ GivenUp \in [Steps -> 0..100]
                          /\ Conceded \in [0..Config.maxHold -> 0..100]
                          /\ Days \in Nat \ {0} /\ MaxTrades \in Nat /\ Config.maxHold \in Nat \ {0}

\* What is quoted is whole cents, and an order is never taken for none.
ASSUME MarketsAssumption ==
    /\ NoOrder \notin [role : {"entry", "target"}, contract : Names, quantity : Int, limit : Int, slack : Int]
    /\ \A m \in Markets : /\ m.price \in Int /\ m.marks \in [Names -> Int]
                          /\ m.chain \subseteq Contracts /\ m.sessions \in Seq(Sessions)
    /\ LET quoted == UNION {m.chain : m \in Markets} IN IsFiniteSet(quoted) /\ quoted # {}

\* Shares are shares, and at some step of the day a bid may still be placed.
ASSUME ConfigAssumption ==
    /\ Config.entryReach \in 0..100 /\ Config.targetReach \in 0..100
    /\ Config.minBucket \in Nat \ {0} /\ Config.deltaBucket \in Nat \ {0}
    /\ Config.lookback \in Nat /\ Config.gainShare \in 0..100
    /\ Config.targetDelta \in Int /\ Config.maxSpread \in Int
    /\ Config.contracts \in Nat /\ Config.maxNotional \in Int
    /\ \E k \in Steps : Fractions[k] >= Config.cutoff

VARIABLES
    day, step,    \* the session and how far it has come
    memory,       \* what the algorithm remembers of the symbol
    resting,      \* the order working at the broker
    position,     \* contracts held, by name
    pc,           \* "idle" or "planned": a plan is about to be carried out
    plan,         \* the last plan, and what it was made from
    paid,         \* history: what each contract was bought at
    since,        \* history: the session whose run first saw each position
    trades,       \* history: how many bids have filled
    raced         \* history: one has filled between a plan and its execution

vars == <<day, step, memory, resting, position, pc, plan, paid, since, trades, raced>>

Higher(a, b) == IF a > b THEN a ELSE b
Lower(a, b) == IF a < b THEN a ELSE b
Distance(a, b) == Higher(a, b) - Lower(a, b)
Least(S) == CHOOSE x \in S : \A y \in S : x <= y
Greatest(S) == CHOOSE x \in S : \A y \in S : y <= x

\* Flat, with nothing remembered: every field is falsy.
NoMemory == [state |-> "flat", contract |-> NoContract, contracts |-> 0, bid |-> 0,
             delta |-> 0, fill |-> 0, filled |-> 0, mark |-> 0]

NoPlan == [wanted |-> NoOrder, memory |-> NoMemory, mark |-> 0, day |-> 0, left |-> 100]

Init ==
    /\ day = 1 /\ step = 1
    /\ memory = NoMemory
    /\ resting = NoOrder
    /\ position = [n \in Names |-> 0]
    /\ pc = "idle"
    /\ plan = NoPlan
    /\ paid = [n \in Names |-> 0] /\ since = [n \in Names |-> 0]
    /\ trades = 0 /\ raced = FALSE

-----------------------------------------------------------------------------
(* What the bars say (indicators.py, candidates.py) *)

\* 0, which callers take for unknown, where the history is shorter than the window.
MovingAverage(daily, w) ==
    LET Close(i) == daily[i].close IN
    IF Len(daily) < w THEN 0
    ELSE MapThenSumSet(Close, Len(daily) - w + 1 .. Len(daily)) \div w

\* True range, averaged: a gap is part of the move.  The first bar has none before it.
AverageTrueRange(daily, w) ==
    LET Moves(i) == {daily[i].high - daily[i].low} \cup
                    (IF i = 1 THEN {}
                     ELSE {Distance(daily[i].high, daily[i - 1].close),
                           Distance(daily[i].low, daily[i - 1].close)})
        TrueRange(i) == Greatest(Moves(i))
        ids == Higher(1, Len(daily) - w + 1) .. Len(daily)
    IN  IF Len(daily) < 2 THEN 0 ELSE MapThenSumSet(TrueRange, ids) \div Cardinality(ids)

\* The average price of the day, or the last without volumes.
SessionVwap(today) ==
    LET Traded(i) == ((today[i].high + today[i].low + today[i].close) \div 3) * today[i].volume
        Volume(i) == today[i].volume
        total == MapThenSumSet(Volume, DOMAIN today)
    IN  CASE today = <<>> -> 0
          [] today # <<>> /\ total <= 0 -> today[Len(today)].close
          [] OTHER -> MapThenSumSet(Traded, DOMAIN today) \div total

OpeningLow(today) ==
    IF today = <<>> THEN 0
    ELSE Least({today[i].low : i \in {j \in DOMAIN today :
                   today[j].minute < today[1].minute + Higher(Config.openingRange, 5)}})

\* The price itself before the first bar of the day (_session_open).
SessionOpen(m) == IF m.today = <<>> THEN m.price ELSE m.today[1].open

\* The moves over each horizon in standard deviations of it, weighted; in hundredths.
TrendStrength(m) ==
    LET n == Len(m.daily)
        ladder == Config.ladder
        longest == CHOOSE d \in {h.days : h \in ladder} : \A h \in ladder : h.days <= d
        Basis(h) == (10000 * (m.daily[n].close - m.daily[n - h.days].close))
                       \div m.daily[n - h.days].close
        Term(h) == h.weight * ((1000 * Basis(h)) \div (m.sigma * h.root))
        Weight(h) == h.weight
    IN  IF n <= longest + 1 \/ m.sigma <= 0 THEN 0
        ELSE MapThenSumSet(Term, ladder) \div MapThenSumSet(Weight, ladder)

Atr(m) == AverageTrueRange(m.daily, Config.atrDays)

-----------------------------------------------------------------------------
(* Gate 1: is the bull thesis intact today (regime.py) *)

AboveTrend(m) ==
    LET fast == MovingAverage(m.daily, Config.fastDays) IN m.price > fast /\ fast > 0

\* Against the last close but one of the daily bars, the last being today's.
CalmOpen(m) ==
    LET prior == IF Len(m.daily) >= 2 THEN m.daily[Len(m.daily) - 1].close ELSE 0
    IN  Atr(m) > 0 /\ prior > 0 =>
            100 * (SessionOpen(m) - prior) >= -(Config.maxGapDown * Atr(m))

\* Above the average price of the day, or under it and off the low of the opening range.
HoldsVwap(m) ==
    LET vwap == SessionVwap(m.today) IN
    /\ vwap > 0
    /\ m.price > vwap \/ (m.price > OpeningLow(m.today) /\ OpeningLow(m.today) > 0)

Eligible(m) == m.daily # <<>> /\ AboveTrend(m) /\ CalmOpen(m) /\ HoldsVwap(m)
Trending(m) == TrendStrength(m) >= Config.minTrend
CalmEnough(m) == m.vol <= Config.maxVol

-----------------------------------------------------------------------------
(* Gate 2: the levels (levels.py) *)

InTime(k) == Fractions[k] >= Config.cutoff

\* The minute the samples are drawn at: never past the entry cutoff.
DecisionStep(k) ==
    LET last == CHOOSE j \in Steps : InTime(j) /\ \A i \in Steps : InTime(i) => i <= j
    IN  Lower(k, last)

\* The highest high from session i on, over the sessions a position may be held.
RunHigh(recent, i, k) ==
    LET highs == {recent[i].after[k].high}
                   \cup {recent[j].high : j \in i + 1 .. i + Config.maxHold - 1}
    IN  CHOOSE h \in highs : \A g \in highs : g <= h

\* Of each session, how far it dipped for the rest of the day and how far it ran over the hold.
\* One without bars on both sides of the minute, or whose hold runs off the history, is left out.
Samples(sessions, k) ==
    LET from == IF Config.lookback > 0 THEN Higher(Len(sessions) - Config.lookback, 0) ELSE 0
        recent == SubSeq(sessions, from + 1, Len(sessions))
        complete == {i \in DOMAIN recent :
                        recent[i].after[k].at > 0 /\ i + Config.maxHold - 1 <= Len(recent)}
        Sample(i) == LET cut == recent[i].after[k] IN
            [day |-> i, dip |-> cut.at - cut.low, run |-> RunHigh(recent, i, k) - cut.at,
             at |-> cut.at, open |-> recent[i].open]
    IN  {Sample(i) : i \in complete}

\* The value of a field that comes at a place in order, from 0.
InOrder(samples, field, place) ==
    CHOOSE v \in {x[field] : x \in samples} :
        /\ Cardinality({x \in samples : x[field] < v}) <= place
        /\ Cardinality({x \in samples : x[field] <= v}) > place

\* numpy's quantile, which interpolates, in hundredths of the unit of the field.
Quantile(samples, field, q) ==
    LET last == Cardinality(samples) - 1
        lo == InOrder(samples, field, (last * q) \div 100)
        hi == InOrder(samples, field, Lower((last * q) \div 100 + 1, last))
    IN  100 * lo + ((last * q) % 100) * (hi - lo)

NoLevels == [entry |-> 0, target |-> 0]

\* conditional_levels: comparable sessions where there are enough of them, all where not.
Levels(m, k) ==
    LET all == Samples(m.sessions, DecisionStep(k))
        open == SessionOpen(m)
        nearby == {x \in all : 100 * Distance(x.at * open, m.price * x.open) <= x.open * open}
        pool == IF Cardinality(nearby) >= Config.minBucket THEN nearby ELSE all
        kEntry == Quantile(pool, "dip", 100 - Config.entryReach)
        dipped == {x \in pool : 100 * x.dip >= kEntry}
        ran == IF Cardinality(dipped) >= Config.minBucket THEN dipped ELSE pool
        kTarget == Quantile(ran, "run", 100 - Config.targetReach)
    IN  IF Atr(m) <= 0 \/ m.price <= 0 \/ all = {} THEN NoLevels
        ELSE [entry |-> (100 * m.price - kEntry) \div 100,
              target |-> (100 * m.price - kEntry + kTarget) \div 100]

\* The levels of every market at every step of the day, and the markets whose gates are open:
\* of a run's input alone, so worked out once.
LevelsOf == [m \in Markets |-> [k \in Steps |-> Levels(m, k)]]

Open == {m \in Markets : Eligible(m) /\ Trending(m) /\ CalmEnough(m)}

-----------------------------------------------------------------------------
(* The contract (contracts.py, core/options.py) *)

Mid(c) ==
    IF c.bid > 0 /\ c.ask > 0 THEN (c.bid + c.ask) \div 2
    ELSE IF c.bid > 0 THEN c.bid ELSE IF c.ask > 0 THEN c.ask ELSE c.mark

\* Deltas are computed only where the provider gave none at all.
Priced(m) ==
    IF (\E c \in m.chain : c.delta # 0) \/ m.price <= 0 \/ m.vol <= 0 THEN m.chain
    ELSE {[c EXCEPT !.delta = c.model] : c \in m.chain}

Off(c) == Distance(c.delta, Config.targetDelta)

Tradable(c, d) ==
    /\ c.right = "call" /\ c.expiry - d >= Config.minDte
    /\ Off(c) <= Config.deltaTolerance
    /\ c.interest >= Config.minInterest
    /\ \/ Config.maxSpread <= 0
       \/ /\ c.bid > 0 /\ c.ask > c.bid
          /\ 100 * (c.ask - c.bid) <= Config.maxSpread * Mid(c)

\* _rank: delta in buckets, then volume, then open interest.
Better(a, b) ==
    LET Bucket(c) == (2 * Off(c) + Config.deltaBucket) \div (2 * Config.deltaBucket) IN
    \/ Bucket(a) < Bucket(b)
    \/ Bucket(a) = Bucket(b) /\ a.volume > b.volume
    \/ Bucket(a) = Bucket(b) /\ a.volume = b.volume /\ a.interest >= b.interest

\* select_contract: the best of the nearest expiry that has a tradable one.
Chosen(m, d) ==
    LET tradable == {c \in Priced(m) : Tradable(c, d)}
        nearest == {c \in tradable : c.expiry = Least({x.expiry : x \in tradable})}
    IN  IF tradable = {} THEN NoContract
        ELSE CHOOSE c \in nearest : \A x \in nearest : Better(c, x)

\* A mutant of Affordable: priced at the bid.
AffordableAtBid(c) ==
    IF Config.maxNotional <= 0 THEN Config.contracts
    ELSE Lower(Config.contracts, Config.maxNotional \div (100 * Higher(c.bid, 1)))

Affordable(c) ==
    LET cost == 100 * (IF c.ask > 0 THEN c.ask ELSE Mid(c)) IN
    CASE cost <= 0 -> 0
      [] cost > 0 /\ Config.maxNotional <= 0 -> Config.contracts
      [] OTHER -> Lower(Config.contracts, Config.maxNotional \div cost)

-----------------------------------------------------------------------------
(* Gate 3: does the base case pay (pricing.py) *)

BaseGain(c, levels) ==
    LET move == levels.target - levels.entry IN
    (c.delta * move) \div 100 + (c.gamma * move * move) \div 20000
        + c.vega * Config.ivBase + c.theta * Config.maxHold

WorthIt(c, levels) == 100 * BaseGain(c, levels) >= Config.minProfit

\* How many contracts a run bids for.
Armed(m, k, c, levels) ==
    IF /\ m \in Open
       /\ levels.entry > 0 /\ InTime(k)
       /\ c # NoContract
       /\ Atr(m) > 0 /\ WorthIt(c, levels)
       /\ c.age <= Config.maxAge                     \* -1: the provider did not say
    THEN Affordable(c) ELSE 0

-----------------------------------------------------------------------------
(* The bid and the ask (lifecycle.py, excursion.py) *)

\* option_price_for: through delta, and never below a cent.
PriceFor(target, now, mark, delta) ==
    IF now <= 0 \/ mark <= 0 THEN 0
    ELSE Higher(mark + (delta * (target - now)) \div 100, 1)

\* The pullback level in premium, giving ground toward the mark as the session runs out.
Limit(m, k, c, levels) ==
    LET floor == PriceFor(levels.entry, m.price, Mid(c), c.delta)
    IN  Lower(floor + ((Mid(c) - floor) * GivenUp[k]) \div 100, Mid(c))

\* By how much a wanted price may differ before the order is placed again, in hundredths of a
\* cent: a fraction of the price or, for a bid, of the spread.
Slack(price, spread) == Higher(Higher(2 * price, 25 * spread), 50)

Bid(m, k, c, n, levels) ==
    [role |-> "entry", contract |-> c.name, quantity |-> n, limit |-> Limit(m, k, c, levels),
     slack |-> Slack(Limit(m, k, c, levels), Higher(c.ask - c.bid, 0))]

Bidding(bid, c) ==
    [NoMemory EXCEPT !.state = "bidding", !.contract = c.name, !.contracts = bid.quantity,
                     !.bid = bid.limit, !.delta = c.delta]

\* A mutant of Refreshed: the fill's day is that of the run.
RefreshedToday(held, m) ==
    [memory EXCEPT !.state = "held", !.contract = held,
                   !.mark = IF m.marks[held] > 0 THEN m.marks[held] ELSE @,
                   !.fill = IF @ = 0 THEN m.marks[held] ELSE @,
                   !.filled = day]

\* _refresh_held: the mark, and a fill nobody recorded is anchored to it.
Refreshed(held, m) ==
    [memory EXCEPT !.state = "held", !.contract = held,
                   !.contracts = IF @ = 0 THEN 1 ELSE @,
                   !.mark = IF m.marks[held] > 0 THEN m.marks[held] ELSE @,
                   !.fill = IF @ = 0 THEN m.marks[held] ELSE @,
                   !.filled = IF @ = 0 THEN day ELSE @]

SessionsHeld(mem) == day - mem.filled

\* A mutant of EntryPrice: the gain is counted from the mark.
EntryPriceAtMark(mem) == mem.mark

EntryPrice(mem) == IF mem.bid > 0 THEN mem.bid ELSE IF mem.fill > 0 THEN mem.fill ELSE mem.mark

\* The ask: part of the modelled gain, less from session to session, and in the last one from
\* there to the mark by the close.
Ask(mem, m, k, exit) ==
    LET modelled == IF exit <= 0 THEN 0 ELSE PriceFor(exit, m.price, mem.mark, mem.delta)
        gain == Higher(modelled - EntryPrice(mem), 0)
        held == Lower(SessionsHeld(mem), Config.maxHold)
        asked == (Config.gainShare * (100 - Conceded[held])) \div 100
        target == Higher(EntryPrice(mem) + (asked * gain) \div 100, 1)
    IN  IF SessionsHeld(mem) < Config.maxHold THEN target
        ELSE Higher(mem.mark + ((target - mem.mark) * Fractions[k]) \div 100, 1)

Exit(mem, m, k, exit) ==
    IF mem.mark <= 0 /\ mem.fill <= 0 THEN NoOrder                     \* unpriced this run
    ELSE LET ask == Ask(mem, m, k, exit) IN
         [role |-> "target", contract |-> mem.contract, quantity |-> mem.contracts,
          limit |-> ask, slack |-> Slack(ask, 0)]

-----------------------------------------------------------------------------
(* A run *)

Held == {n \in Names : position[n] > 0}

Plan(wanted, mem, mark) ==
    /\ pc = "idle" /\ pc' = "planned"
    /\ plan' = [wanted |-> wanted, memory |-> mem, mark |-> mark, day |-> day,
                left |-> Fractions[step]]
    /\ UNCHANGED <<day, step, memory, resting, position, paid, trades, raced>>

\* One contract per underlying is looked at: of two, the one listed last (_held_contracts).
PlanHeld(m) ==
    \E held \in Held, levels \in {LevelsOf[m][step]} :
        LET mem == Refreshed(held, m) IN
        /\ Plan(Exit(mem, m, step, levels.target), mem, m.marks[held])
        /\ since' = [since EXCEPT ![held] = IF @ = 0 THEN day ELSE @]

PlanFlat(m) ==
    /\ Held = {}
    /\ \E levels \in {LevelsOf[m][step]}, c \in {Chosen(m, day)} :
         \E n \in {Armed(m, step, c, levels)} :
           IF n > 0
           THEN \E bid \in {Bid(m, step, c, n, levels)} : Plan(bid, Bidding(bid, c), Mid(c))
           ELSE Plan(NoOrder, NoMemory, 0)
    /\ UNCHANGED since

\* _needs_replacement, which does not look at the contract.
Differs(order, wanted) ==
    \/ order.role # wanted.role
    \/ order.quantity # wanted.quantity
    \/ 100 * Distance(order.limit, wanted.limit) > wanted.slack

\* reconcile_orders, and the memory is saved whatever came of it.  The venue refuses to sell what
\* is not held.
Execute ==
    /\ pc = "planned" /\ pc' = "idle"
    /\ LET w == plan.wanted IN
       resting' = CASE w = NoOrder -> NoOrder
                    [] w # NoOrder /\ resting # NoOrder /\ ~Differs(resting, w) -> resting
                    [] OTHER -> IF w.role = "target" /\ w.quantity > position[w.contract]
                                THEN NoOrder ELSE w
    /\ memory' = plan.memory
    /\ plan' = [plan EXCEPT !.wanted = NoOrder, !.memory = NoMemory]
    /\ UNCHANGED <<day, step, position, paid, since, trades, raced>>

-----------------------------------------------------------------------------
(* The venue and the clock *)

\* Nothing is bought after a bid that filled under a run: the second bid of BoundedPosition in
\* OrderReconcile rests, and is cancelled by the next run, but is not followed when it fills.
Bought ==
    /\ resting # NoOrder /\ resting.role = "entry"
    /\ ~raced /\ trades < MaxTrades /\ trades' = trades + 1
    /\ position' = [position EXCEPT ![resting.contract] = @ + resting.quantity]
    /\ paid' = [paid EXCEPT ![resting.contract] = resting.limit]
    /\ resting' = NoOrder
    /\ raced' = (raced \/ pc = "planned")
    /\ UNCHANGED <<day, step, memory, pc, plan, since>>

Sold ==
    /\ resting # NoOrder /\ resting.role = "target"
    /\ position' = [position EXCEPT ![resting.contract] = @ - resting.quantity]
    /\ since' = [since EXCEPT ![resting.contract] = 0]
    /\ paid' = [paid EXCEPT ![resting.contract] = 0]
    /\ resting' = NoOrder
    /\ UNCHANGED <<day, step, memory, pc, plan, trades, raced>>

\* A run takes seconds and a step of the clock a good part of the session: none straddles one.
Later ==
    /\ pc = "idle" /\ step < Len(Fractions)
    /\ step' = step + 1
    /\ UNCHANGED <<day, memory, resting, position, pc, plan, paid, since, trades, raced>>

\* A bid is for the day; an ask rests until cancelled.
NextDay ==
    /\ pc = "idle" /\ step = Len(Fractions) /\ day < Days
    /\ day' = day + 1 /\ step' = 1
    /\ resting' = IF resting # NoOrder /\ resting.role = "entry" THEN NoOrder ELSE resting
    /\ UNCHANGED <<memory, position, pc, plan, paid, since, trades, raced>>

Next ==
    \/ \E m \in Markets : PlanHeld(m) \/ PlanFlat(m)
    \/ Execute \/ Bought \/ Sold \/ Later \/ NextDay

Spec == Init /\ [][Next]_vars

-----------------------------------------------------------------------------
(* Properties *)

\* The widest spread of any contract.
Widest == LET spreads == {Higher(c.ask - c.bid, 0) : c \in UNION {m.chain : m \in Markets}}
          IN  CHOOSE s \in spreads : \A t \in spreads : t <= s

\* "The cap is the money you refuse to exceed" (contracts.py:194) and "it never goes above the
\* mark" (lifecycle.py:143): however often it was re-priced, kept or re-aimed at another contract,
\* a bid costs no more than the cap and, unless it was left standing for another contract than
\* the run chose, is no further above the mark than a price may differ without being replaced.
BidWithinLimits ==
    pc = "idle" /\ resting # NoOrder /\ resting.role = "entry" =>
        /\ Config.maxNotional > 0 => 100 * resting.quantity * resting.limit <= Config.maxNotional
        /\ resting.contract = memory.contract =>
              100 * (resting.limit - plan.mark) <= Slack(plan.mark, Widest)

\* "The schedule gives up profit, never principal" (lifecycle.py:251): until its deadline a position
\* is offered at no less than was paid, but for the two differences too small to replace an order
\* for, unless the bid filled while a run was re-pricing it.
PrincipalKept ==
    /\ pc = "idle" /\ ~raced
    /\ resting # NoOrder /\ resting.role = "target"
    /\ plan.day - memory.filled < Config.maxHold
    => 100 * (paid[resting.contract] - resting.limit)
         <= 2 * Slack(paid[resting.contract], Widest)

\* "Be flat within max_hold_sessions" (algorithm.py:12): the run at the close of the last session
\* of a hold, and of any after it, leaves the whole position offered at its mark, whatever the runs
\* between made of the levels and the quotes.
OutByDeadline ==
    \A n \in Held :
        /\ pc = "idle" /\ ~raced /\ plan.left = 0
        /\ since[n] > 0 /\ plan.day - since[n] >= Config.maxHold
        /\ plan.mark > 0
        => /\ resting # NoOrder /\ resting.role = "target" /\ resting.contract = n
           /\ resting.quantity = position[n]
           /\ 100 * Distance(resting.limit, plan.mark) <= Slack(plan.mark, 0)

=============================================================================
