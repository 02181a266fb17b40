------------------------------ MODULE MCReplay ------------------------------
(* Histories for a backtest: a holiday in the middle, a symbol without a bar *)
(* on it, a provider that holds a sliver and one that holds everything.      *)
EXTENDS Replay

Bars(days) == {Day * d + 7 : d \in days} \cup {Day * d + 8 : d \in days}

\* The second has too few days in the period.
MCDailies == {[a |-> {0, 1, 2, 4, 5}, b |-> 0..5], [a |-> {0, 1}, b |-> 0..2]}

MCIntradays == {[a |-> {}, b |-> {}], [a |-> Bars({1, 2, 4}), b |-> Bars({2, 4})]}

MCStored ==
  [a |-> [near |-> Bars({2, 4}), far |-> Bars(0..5)],
   b |-> [near |-> Bars({4}), far |-> Bars({2, 4}) \cup {Day + 7}]]

Paid(i, s, ex, amount, payable) ==
  [id |-> i, symbol |-> s, ex |-> ex, amount |-> amount, payable |-> payable]

\* A payment reported twice, two payments of one day, one paid after the end, one of a holiday
\* and one that went ex before the start.
MCFeeds ==
  {{},
   {Paid(1, "a", 2, 1, NoDate), Paid(2, "a", 2, 1, 4), Paid(3, "a", 2, 2, 4)},
   {Paid(1, "a", 3, 1, 9), Paid(2, "b", 0, 1, 2), Paid(3, "a", 4, 2, 4)}}

Buy(s, n)  == [symbol |-> s, side |-> "buy", shares |-> n]
Sell(s, n) == [symbol |-> s, side |-> "sell", shares |-> n]

MCProviders == <<"near", "far">>

MCOrders == {<<>>, <<Buy("b", 1)>>, <<Sell("a", 1), Buy("b", 2)>>, <<Sell("b", 1), Buy("a", 1)>>}

\* The total-return series, over short histories with gaps and a dividend on any day.
Returns == INSTANCE TotalReturn

Stamps == <<1, 3, 4>>
MCCloses == [1..3 -> {Returns!Nothing, 0, 2, 3}]
Paying(ex, amount) == [ex |-> ex, amount |-> amount]
MCLedgers == {{Paying(e, 1)} : e \in 0..5} \cup {{Paying(2, 1), Paying(3, 2)}, {Paying(3, 1), Paying(4, 1)}, {}}

\* The shares one becomes when every dividend buys more at the close of the bar it is paid at.
Reinvested(closes, ledger) ==
    LET Shares[i \in 1..3] ==
            IF i = 1 THEN <<1, 1>>
            ELSE Returns!Times(Shares[i - 1], <<closes[i] + Returns!PaidAt(Stamps, ledger, i), closes[i]>>)
    IN  Shares

\* Where every bar has a close the series is what a holder who reinvests has, seen from the last
\* bar: it ends at the last close, falls below the closes going back, and is the closes where
\* nothing was paid inside the window (total_return_index says so of itself).
ASSUME TotalReturnReinvests ==
    \A closes \in [1..3 -> 1..3], ledger \in MCLedgers : \A i \in 1..3 :
        LET index == Returns!TotalReturnIndex(Stamps, closes, ledger)
            held == Reinvested(closes, ledger)
        IN  /\ Returns!Same(index[i], Returns!Over(Returns!Times(<<closes[i], 1>>, held[i]), held[3]))
            /\ Returns!Same(index[3], <<closes[3], 1>>)
            /\ index[i][1] <= closes[i] * index[i][2]
            /\ (\A d \in ledger : d.ex <= Stamps[1] \/ d.ex > Stamps[3]) => Returns!Same(index[i], <<closes[i], 1>>)

Adjusted == <<Returns!NoValue, <<2, 1>>, Returns!NoValue>>

\* Where the derived series has a value, it is what signals are measured on; where it has none the
\* close is, so a price is missing only where the close is.
ASSUME SignalPriceFilled ==
    \A closes \in MCCloses, ledger \in MCLedgers : \A i \in 1..3 :
        LET bars == Returns!AttachTotalReturn(
                        [timestamp |-> Stamps, close |-> closes, adjusted_close |-> Adjusted], ledger)
            price == Returns!SignalPrice(bars)
        IN  /\ bars.total_return[i] # Returns!NoValue => price[i] = bars.total_return[i]
            /\ price[i] = Returns!NoValue => closes[i] = Returns!Nothing
=============================================================================
