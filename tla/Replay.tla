------------------------------- MODULE Replay -------------------------------
(***************************************************************************)
(* A backtest: the algorithm's own plan and execute, stepped over the      *)
(* dates its bars have in common, with a paper book in place of a broker.  *)
(* A decision reads the context of the step before it and trades at the    *)
(* closes of its own step.  Dividends come from a ledger made out of what  *)
(* the providers report; they belong to whoever held the shares before     *)
(* they went ex and are paid later, in cash.                               *)
(* Time is in units of two hours: a day is twelve, a session's daily bar   *)
(* is stamped at its close, twenty hours in, which is also how far past    *)
(* the moment asked about the window of a bar history reaches.  Bars count *)
(* one unit of history each.  What the algorithm decides is any short list *)
(* of orders, since a backtest runs whatever it is given.                  *)
(***************************************************************************)
EXTENDS Integers, Sequences, FiniteSets, Functions

CONSTANTS
  Loaded,       \* what the backtest loads bars of
  Dailies,       \* the daily histories it may find: per symbol, the days that have a bar
  Intradays,     \* the intraday histories it may find: per symbol, the stamps that have one
  Sources,       \* where bars may have come from
  Stored,        \* per symbol and source, the stamps the bar store holds
  Providers,     \* history_providers, in their order
  Feeds,         \* what may have been reported of dividends
  FirstDay,      \* the first day of the period asked for
  RowCount,      \* how many rows stand for the period when it holds too few
  RunDays,       \* the days the schedule matches
  BarsPerDay,    \* how many bars of history a day holds
  Lookback,      \* intraday_lookback_minutes, in bars; 0 for none
  WindowSpan,    \* calendar_days_for(Lookback), in units of time
  OpenIn,        \* the symbol the balance is parked in, or None
  Spread,        \* what crossing costs a share
  Prices,        \* closes
  Balance,       \* the starting equity
  Orders         \* the lists of orders an algorithm may decide on

Day   == 12
Close == 10
Reach == 10
None  == "none"
NoDate == -1

DailyStamp(d) == Day * d + Close
Midnight(d)   == Day * d
DayOf(t)      == t \div Day

BarStamps(history) == history \in [Loaded -> SUBSET Nat] /\ \A s \in Loaded : IsFiniteSet(history[s])

Report(r) == r.symbol \in Loaded /\ r.ex \in Nat /\ r.amount \in Int /\ r.id \in Nat
             /\ r.payable \in Nat \cup {NoDate}

\* No bar is stamped at midnight: it closes while a market is open.
ASSUME ReplayAssumption ==
  /\ Lookback \in Nat /\ Spread \in Nat /\ Balance \in Nat /\ Prices \subseteq Nat \ {0}
  /\ OpenIn \in Loaded \cup {None} /\ IsFiniteSet(Loaded) /\ BarsPerDay \in Nat /\ WindowSpan \in Nat
  /\ \A history \in Dailies \cup Intradays : BarStamps(history)
  /\ \A history \in Intradays, s \in Loaded : \A t \in history[s] : t % Day # 0
  /\ \A s \in Loaded : \A p \in DOMAIN Stored[s] : Stored[s][p] \in SUBSET Nat /\ IsFiniteSet(Stored[s][p])
  /\ Providers \in Seq(Sources) /\ IsFiniteSet(Sources) /\ \A s \in Loaded : DOMAIN Stored[s] = Sources
  /\ \A reports \in Feeds : IsFiniteSet(reports) /\ \A r \in reports : Report(r)
  /\ \A orders \in Orders : Len(orders) \in Nat /\ \A i \in 1..Len(orders) : orders[i].shares \in Nat

VARIABLES
  daily, fine,   \* the histories fetched for this backtest
  feed,          \* the dividends reported to the ledger
  dates,         \* trade_dates
  schedule,      \* dividend_schedule: what goes ex, by trade date
  frames,        \* the bars of the history cache, by symbol and provider
  step,          \* steps made
  book,          \* the paper book: cash, and shares and marks by symbol
  pending,       \* dividends earned and not yet paid: [due, symbol, value]
  income,        \* dividend_income
  coverage,      \* history asked for and supplied, and the symbols that had none
  seen,          \* for the properties: the bars the last decision read, and when it traded
  nights,        \* for the properties: what was held after each step
  thin           \* for the properties: a decision had less history than it asked for

inputs == <<daily, fine, feed, dates, schedule, frames>>
replayVars   == <<inputs, step, book, pending, income, coverage, seen, nights, thin>>

-----------------------------------------------------------------------------
(* The dates of a backtest.                                                *)

\* What is no later, in count, is the place.
InOrder(stamps) ==
  [i \in 1..Cardinality(stamps) |-> CHOOSE t \in stamps : Cardinality({u \in stamps : u <= t}) = i]

DailyStamps(s) == {DailyStamp(d) : d \in daily[s]}

CommonDates == {t \in UNION {DailyStamps(s) : s \in Loaded} : \A s \in Loaded : t \in DailyStamps(s)}

InPeriod == {t \in CommonDates : t >= Midnight(FirstDay)}

\* The period, or the last rows there are when it holds fewer than two.
DailyDates ==
  IF Cardinality(InPeriod) >= 2 THEN InPeriod
  ELSE {t \in CommonDates : Cardinality({u \in CommonDates : u > t}) < RowCount}

FineStamps == UNION {fine[s] : s \in Loaded}

\* With intraday bars the replay steps on every one of them, whatever the period.
UseIntraday == Lookback > 0 /\ FineStamps # {}

TradeDates == InOrder(IF UseIntraday THEN FineStamps ELSE DailyDates)

First == dates[1]
Final == dates[Len(dates)]

\* The first trade date at or after t.
Landing(t) == CHOOSE u \in Range(dates) : u >= t /\ \A v \in Range(dates) : v >= t => v >= u

\* The symbols a step has a close of.  The fallback of an intraday replay looks a daily bar up
\* at midnight.
Closing(t) ==
  IF UseIntraday THEN {s \in Loaded : t \in fine[s] \/ Midnight(DayOf(t)) \in DailyStamps(s)}
  ELSE {s \in Loaded : t \in DailyStamps(s)}

-----------------------------------------------------------------------------
(* The dividend ledger.                                                    *)

Keys == {<<r.symbol, r.ex>> : r \in feed}

ReportsOf(key) == {r \in feed : <<r.symbol, r.ex>> = key /\ r.amount > 0}

Amounts(key) == {r.amount : r \in ReportsOf(key)}

\* The last report of the amount that was reported first.
FirstReport(key) ==
  LET first == CHOOSE r \in ReportsOf(key) : \A q \in ReportsOf(key) : r.id <= q.id
      same  == {r \in ReportsOf(key) : r.amount = first.amount}
  IN  CHOOSE r \in same : \A q \in same : r.id >= q.id

\* Equal amounts are one payment reported twice, different ones are different payments.
Total(key) == SumFunction([amount \in Amounts(key) |-> amount])

\* A row per symbol and ex-date.
Row(key) ==
  [symbol |-> key[1], ex |-> key[2], amount |-> Total(key),
   payable |-> IF FirstReport(key).payable = NoDate THEN key[2] ELSE FirstReport(key).payable]

Ledger == {Row(key) : key \in {k \in Keys : ReportsOf(k) # {}}}

\* What went ex before the first trade date was earned by nobody here.
DividendSchedule(t) ==
  {row \in Ledger : /\ Midnight(row.ex) >= First /\ Midnight(row.ex) <= Final
                    /\ Landing(Midnight(row.ex)) = t}

\* A mutant of PayableOn: a payment past the end keeps its date.
PayableAfter(t, row) == IF Midnight(row.payable) > t THEN Midnight(row.payable) ELSE t

\* The date the cash lands on; past the end it is the final one.
PayableOn(t, row) ==
  LET due == IF Midnight(row.payable) <= Final THEN Landing(Midnight(row.payable)) ELSE Final
  IN  IF due > t THEN due ELSE t

Entry(t, positions, row) ==
  [due |-> PayableOn(t, row), symbol |-> row.symbol, ex |-> row.ex, value |-> positions[row.symbol] * row.amount]

Earned(t, positions) == {Entry(t, positions, row) : row \in {r \in schedule[t] : positions[r.symbol] # 0}}

-----------------------------------------------------------------------------
(* The bar history, read once for the whole replay and sliced per date.    *)

Tries == [i \in 1..(Len(Providers) + 1) |-> i]

Provider(i) == IF i <= Len(Providers) THEN Providers[i] ELSE None

\* None reads across every provider.
StoredBy(s, p) == IF p = None THEN UNION {Stored[s][q] : q \in DOMAIN Stored[s]} ELSE Stored[s][p]

\* The end of the one read: the dates of an intraday replay are its days.
CacheEnd == (IF UseIntraday THEN Midnight(DayOf(Final)) ELSE Final) + Reach

SpanBars == (DayOf(Final) - DayOf(First) + WindowSpan \div Day + 1) * BarsPerDay

Rows(s, i) == {t \in StoredBy(s, Provider(i)) : First - WindowSpan <= t /\ t <= CacheEnd}

\* Providers after one that reaches the whole replay are not read.
Frame(s, i) ==
  IF \E j \in 1..(i - 1) : Cardinality(Rows(s, j)) >= SpanBars THEN {} ELSE Rows(s, i)

Window(s, i, asOf) == {t \in frames[s][i] : asOf + Reach - WindowSpan <= t /\ t <= asOf + Reach}

\* Depth beyond what was asked for counts for nothing.
Capped(bars) == IF Cardinality(bars) < Lookback THEN Cardinality(bars) ELSE Lookback

Depth(s, i, asOf) == Capped(Window(s, i, asOf))

\* The deepest window wins, and the first that is deep enough.
Deepest(s, asOf) ==
  CHOOSE i \in DOMAIN Tries : \A j \in DOMAIN Tries :
    IF j < i THEN Depth(s, j, asOf) < Depth(s, i, asOf) ELSE Depth(s, j, asOf) <= Depth(s, i, asOf)

BarsAsOf(s, asOf) == Window(s, Deepest(s, asOf), asOf)

\* A mutant of Supplied: everything in the window.
SuppliedInAll(s, asOf) == Cardinality(BarsAsOf(s, asOf))

Supplied(s, asOf) == Capped(BarsAsOf(s, asOf))

Covered(asOf) ==
  [requested |-> coverage.requested + SumFunction([s \in Loaded |-> Lookback]),
   supplied  |-> coverage.supplied + SumFunction([s \in Loaded |-> Supplied(s, asOf)]),
   missing   |-> coverage.missing \cup {s \in Loaded : BarsAsOf(s, asOf) = {}}]

Complete == coverage.missing = {} /\ coverage.supplied >= coverage.requested

\* The stamps of everything a context as of a moment holds: prices, daily and intraday bars.
Reads(asOf) ==
  {asOf} \cup {t \in UNION {DailyStamps(s) : s \in Loaded} : t <= asOf}
         \cup (IF Lookback > 0 THEN UNION {BarsAsOf(s, asOf) : s \in Loaded} ELSE {})

-----------------------------------------------------------------------------
(* The paper book: it fills whole shares at once, across the spread.       *)

FillPrice(o, px) == IF o.side = "buy" THEN px[o.symbol] + Spread ELSE px[o.symbol] - Spread

\* A buy the cash does not cover is refused; sizing never sells what is not held.
Refused(b, px, o) ==
  IF o.side = "buy" THEN o.shares * FillPrice(o, px) > b.cash ELSE o.shares > b.held[o.symbol]

\* The mark is the clean price and not what the order paid.
Fill(b, px, o) ==
  IF o.symbol \notin DOMAIN px \/ Refused(b, px, o) THEN b
  ELSE LET signed == IF o.side = "buy" THEN o.shares ELSE -o.shares
       IN  [cash |-> b.cash - signed * FillPrice(o, px),
            held |-> [b.held EXCEPT ![o.symbol] = @ + signed],
            mark |-> [b.mark EXCEPT ![o.symbol] = px[o.symbol]]]

\* An order after another.
Traded(b, px, orders) ==
  LET After[i \in 0..Len(orders)] == IF i = 0 THEN b ELSE Fill(After[i - 1], px, orders[i])
  IN  After[Len(orders)]

MarkPrices(b, px) == [b EXCEPT !.mark = [s \in Loaded |-> IF s \in DOMAIN px THEN px[s] ELSE @[s]]]

\* Whole shares the balance covers with the spread.
OpeningShares(b, px) == b.cash \div (px[OpenIn] + Spread)

Opened(b, px) ==
  IF OpenIn \notin DOMAIN px \/ OpeningShares(b, px) = 0 THEN b
  ELSE Fill(b, px, [symbol |-> OpenIn, side |-> "buy", shares |-> OpeningShares(b, px)])

-----------------------------------------------------------------------------
(* One step.                                                               *)

Runs(t) == step > 0 /\ DayOf(t) \in RunDays

\* A mutant of SignalDate: the date it trades on.
SignalToday == dates[step + 1]

SignalDate == dates[step]

Decide(t) ==
  IF Runs(t)
  THEN /\ coverage' = IF Lookback > 0 THEN Covered(SignalDate) ELSE coverage
       /\ seen' = [read |-> Reads(SignalDate), at |-> t]
       /\ thin' = (thin \/ (Lookback > 0 /\ \E s \in Loaded : Cardinality(BarsAsOf(s, SignalDate)) < Lookback))
  ELSE UNCHANGED <<coverage, seen, thin>>

ReplayStep ==
  /\ step < Len(dates)
  /\ LET t == dates[step + 1]
     IN  \E px \in [Closing(t) -> Prices], orders \in IF Runs(t) THEN Orders ELSE {<<>>} :
           LET opened == IF step = 0 /\ OpenIn # None THEN Opened(book, px) ELSE book
               earned == pending \cup Earned(t, opened.held)
               due    == {p \in earned : p.due <= t}
               paid   == SumFunction([p \in due |-> p.value])
               marked == MarkPrices([opened EXCEPT !.cash = @ + paid], px)
               traded == Traded(marked, px, orders)
           IN  /\ pending' = earned \ due
               /\ income' = income + paid
               /\ book' = MarkPrices(traded, px)
               /\ nights' = Append(nights, traded.held)
               /\ Decide(t)
  /\ step' = step + 1
  /\ UNCHANGED inputs

ReplayInit ==
  /\ daily \in Dailies /\ fine \in Intradays /\ feed \in Feeds
  /\ Cardinality(DailyDates) >= 2
  /\ dates = TradeDates
  /\ schedule = [t \in Range(dates) |-> DividendSchedule(t)]
  /\ frames = [s \in Loaded |-> [i \in DOMAIN Tries |-> Frame(s, i)]]
  /\ step = 0
  /\ book = [cash |-> Balance, held |-> [s \in Loaded |-> 0], mark |-> [s \in Loaded |-> 0]]
  /\ pending = {} /\ income = 0
  /\ coverage = [requested |-> 0, supplied |-> 0, missing |-> {}]
  /\ seen = [read |-> {}, at |-> 0]
  /\ nights = <<>> /\ thin = FALSE

ReplayNext == ReplayStep
ReplaySpec == ReplayInit /\ [][ReplayNext]_replayVars

-----------------------------------------------------------------------------
(* Properties.                                                             *)

\* A decision of a daily replay reads nothing stamped at or after the close it trades at
\* (replay.py: signals from bars up to the previous date, executed at this date's close).
NoForesight == UseIntraday \/ \A t \in seen.read : t < seen.at

\* Held over the night before a day: after the last step before its midnight.
HeldInto(d, s) ==
  LET before == {i \in 1..step : dates[i] < Midnight(d)}
  IN  IF before = {} THEN 0 ELSE nights[CHOOSE i \in before : \A j \in before : j <= i][s]

\* What was really paid: one payment per symbol, ex-date and amount.
Payments == {<<r.symbol, r.ex, r.amount>> : r \in {x \in feed : x.amount > 0}}

\* When a replay ends its book has received every dividend of the shares it held into the day
\* they went ex, each once, and nothing is left owing (dividend_schedule, _payable_on and the
\* pending list of replay; _collapse of the ledger).
DividendsSettled ==
  step = Len(dates) =>
    /\ pending = {}
    /\ income = SumFunction([p \in {x \in Payments : Midnight(x[2]) <= Final} |-> HeldInto(p[2], p[1]) * p[3]])

\* Coverage reported as complete means that no decision had less history of a symbol than the
\* algorithm asked for: the depth of one symbol never makes up for another
\* (Coverage.as_dict, HistoryCache.bars_as_of).
CoverageHonest == Complete => ~thin
=============================================================================
