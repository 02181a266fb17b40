----------------------------- MODULE MCMarketData -----------------------------
(* Values for the market data: a metered provider on a coarse resolution and   *)
(* one that is not metered on the finest, and every kind of request.           *)
EXTENDS MarketData, TLC

Threads == Permutations(Callers)

MCRequests ==
  {[kind |-> "quotes", want |-> {"a", "b"}, force |-> FALSE],
   [kind |-> "quotes", want |-> {"a"}, force |-> TRUE],
   [kind |-> "daily", want |-> {"a"}, force |-> FALSE],
   [kind |-> "window", want |-> {"a"}, force |-> FALSE],
   [kind |-> "news", want |-> {"a"}, force |-> FALSE],
   [kind |-> "warm", want |-> {"a"}, force |-> TRUE]}

MCQuoteOrder == <<"vantage", "finnhub", "alpaca">>
MCNewsOrder  == <<"finnhub", "alpaca">>
MCBarOrder   == <<"yfinance", "finnhub", "alpaca">>
MCGrids      == [p \in {"yfinance", "finnhub", "alpaca"} |-> IF p = "alpaca" THEN {1} ELSE {2}]
=============================================================================
