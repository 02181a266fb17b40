------------------------------ MODULE TotalReturn ------------------------------
(***************************************************************************)
(* The series that signals are measured on (data/bars.py): closes with the *)
(* dividends of a window put back, compounded bar by bar and scaled to end *)
(* at the last close.  Stamps and closes are sequences, a dividend is      *)
(* [ex, amount], and values are fractions <<up, down>>.                    *)
(***************************************************************************)
EXTENDS Integers, Sequences, FiniteSets, FiniteSetsExt

Nothing == -1        \* a close that is not a number
NoValue == <<0, 0>>

\* A dividend belongs to the first bar at or after the day it goes ex, and to none past the last.
PaidAt(stamps, dividends, i) ==
    LET From(d) == {j \in DOMAIN stamps : stamps[j] >= d.ex}
    IN  MapThenSumSet(LAMBDA d : d.amount, {d \in dividends : From(d) # {} /\ Min(From(d)) = i})

\* From one bar to the next; 1 where either has no close.
Growth(stamps, closes, dividends, i) ==
    IF i = 1 \/ closes[i] = Nothing \/ closes[i - 1] <= 0 THEN <<1, 1>>
    ELSE <<closes[i] + PaidAt(stamps, dividends, i), closes[i - 1]>>

Times(a, b) == <<a[1] * b[1], a[2] * b[2]>>
Over(a, b) == <<a[1] * b[2], a[2] * b[1]>>
Same(a, b) == a[1] * b[2] = b[1] * a[2]

Price(close) == IF close = Nothing THEN NoValue ELSE <<close, 1>>

\* total_return_index.
TotalReturnIndex(stamps, closes, dividends) ==
    LET n == Len(closes)
        Index[i \in 0..n] ==
            IF i = 0 THEN <<1, 1>> ELSE Times(Index[i - 1], Growth(stamps, closes, dividends, i))
    IN  [i \in 1..n |-> IF Index[n][1] <= 0 THEN Price(closes[i])
                        ELSE IF closes[n] = Nothing THEN NoValue
                        ELSE Times(Over(Index[i], Index[n]), Price(closes[n]))]

\* attach_total_return: without a ledger as if nothing had been paid.
AttachTotalReturn(bars, ledger) ==
    [column \in DOMAIN bars \cup {"total_return"} |->
        IF column = "total_return"
        THEN TotalReturnIndex(bars.timestamp, bars.close, ledger)
        ELSE bars[column]]

\* signal_price: the first of the derived series and the feed's own that has a value, its gaps
\* filled with closes.
SignalPrice(bars) ==
    LET Valued(column) == column \in DOMAIN bars /\ \E i \in DOMAIN bars[column] : bars[column][i] # NoValue
        closes == [i \in DOMAIN bars.close |-> Price(bars.close[i])]
        series == IF Valued("total_return") THEN bars.total_return
                  ELSE IF Valued("adjusted_close") THEN bars.adjusted_close ELSE closes
    IN  [i \in DOMAIN closes |-> IF series[i] = NoValue THEN closes[i] ELSE series[i]]
===============================================================================
