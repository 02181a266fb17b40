----------------------------- MODULE MCOptionsFlip -----------------------------
(* A market that arms a bid, and variations that close one gate each, thin the *)
(* chain, move the price or lose the quote of a contract held.                 *)
EXTENDS OptionsFlip

CONSTANTS near, close

MCConfig ==
  [fastDays |-> 3, atrDays |-> 2, openingRange |-> 30,
   ladder |-> {[days |-> 1, weight |-> 1, root |-> 63], [days |-> 3, weight |-> 2, root |-> 109]},
   maxGapDown |-> 50, minTrend |-> 50, maxVol |-> 80, cutoff |-> 25,
   lookback |-> 6, maxHold |-> 2, minBucket |-> 3, entryReach |-> 55, targetReach |-> 42,
   minDte |-> 2, targetDelta |-> 62, deltaTolerance |-> 8, deltaBucket |-> 5,
   minInterest |-> 100, maxSpread |-> 6, contracts |-> 2, maxNotional |-> 61700,
   maxAge |-> 300, ivBase |-> -1, minProfit |-> 1500, gainShare |-> 70]

Quote(n, expiry, delta, bid, ask) ==
  [name |-> n, right |-> "call", expiry |-> expiry, delta |-> delta, model |-> delta,
   gamma |-> 5, vega |-> 3, theta |-> -4, bid |-> bid, ask |-> ask, mark |-> 0,
   interest |-> 200, volume |-> 10, age |-> 30]

Near == Quote(near, 4, 60, 292, 308)
Close == [Quote(close, 9, 63, 294, 308) EXCEPT !.volume = 40]
Put == [Quote(close, 4, 62, 300, 310) EXCEPT !.right = "put"]

Day(open, at, low, high) ==
  [open |-> open, high |-> high,
   after |-> [k \in 1..3 |-> [at |-> IF k = 3 THEN 0 ELSE at, low |-> low, high |-> high]]]

Quiet == <<Day(9990, 10000, 9950, 10060), Day(9800, 10000, 9900, 10200),
           Day(10010, 10020, 9960, 10120), Day(10000, 9990, 9890, 10100),
           Day(9995, 10005, 9985, 10080), Day(10000, 10010, 9920, 10150)>>
Rising == [i \in 1..4 |-> Day(10000, 10000, 10000, 10100 + 20 * i)]

Bar(c) == [high |-> c + 75, low |-> c - 75, close |-> c]
Closes(a, b) == <<Bar(9600), Bar(9700), Bar(a), Bar(b), Bar(10000)>>

Minute(k, o, h, l, c) ==
  [minute |-> k, open |-> o, high |-> h, low |-> l, close |-> c, volume |-> 100]
Above == <<Minute(570, 9990, 10010, 9960, 9980), Minute(605, 9980, 10000, 9950, 9990)>>
Below == <<Minute(570, 10050, 10080, 10020, 10060), Minute(605, 10060, 10070, 10000, 10010)>>
Recovering == <<Minute(570, 9990, 10100, 9960, 10080)>>

Good ==
  [price |-> 10000, daily |-> Closes(9750, 9950), today |-> Above, sigma |-> 30, vol |-> 30,
   sessions |-> Quiet, chain |-> {Near, Close, Put},
   marks |-> [n \in Names |-> IF n = near THEN 300 ELSE 301]]

Marked(a, b) == [n \in Names |-> IF n = near THEN a ELSE b]

G == Good

MCMarkets ==
  {G,
   [G EXCEPT !.daily = <<>>, !.sigma = 0, !.vol = 0, !.today = <<>>],
   [G EXCEPT !.daily = Closes(10500, 9950)],
   [G EXCEPT !.daily = Closes(9750, 10200)],
   [G EXCEPT !.today = Below],
   [G EXCEPT !.today = Recovering, !.chain = {[Near EXCEPT !.interest = 5], Close}],
   [G EXCEPT !.sigma = 60],
   [G EXCEPT !.vol = 95],
   [G EXCEPT !.sessions = Rising, !.chain = {[Close EXCEPT !.bid = 300, !.ask = 318]}],
   [G EXCEPT !.chain = {[Near EXCEPT !.age = 900]}],
   [G EXCEPT !.chain = {[Near EXCEPT !.delta = 0]}],
   [G EXCEPT !.price = 10100, !.marks = Marked(360, 361), !.chain = {}],
   [G EXCEPT !.sessions = <<Quiet[1]>>, !.marks = Marked(210, 211)],
   [G EXCEPT !.marks = Marked(0, 0), !.daily = <<>>]}

MCFractions == <<100, 25, 0>>
MCGivenUp == <<0, 90, 100>>
MCConceded == [s \in 0..2 |-> CASE s = 0 -> 0 [] s = 1 -> 60 [] s = 2 -> 100]
=============================================================================
