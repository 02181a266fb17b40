------------------------------ MODULE MarketData ------------------------------
(***************************************************************************)
(* Market data.  Callers ask for quotes, for daily bars, or for a window   *)
(* of recent bars; a request walks the providers in the configured order,  *)
(* each provider answering from its own cache what it can and asking its   *)
(* vendor for the rest.  Quotes are cached as payloads that expire; bars   *)
(* are kept for good, by provider, symbol and resolution, and a window the *)
(* fine bars do not reach is completed from what is stored, coarser and    *)
(* coarser.  A vendor that answers "too many requests" is left alone by    *)
(* the quote walk until its limit runs out.  Callers are threads: between  *)
(* the question to a vendor and its answer the others go on.               *)
(*                                                                         *)
(* Time is market time, in bars of the finest resolution; a daily bar is   *)
(* one session.  What is quoted or printed is left out: a quote is when it *)
(* was fetched, a bar is its resolution, the time of its close, and what   *)
(* its frame says its resolution is (interval_minutes), if anything.       *)
(***************************************************************************)
EXTENDS Integers, Sequences, FiniteSets, FiniteSetsExt, SequencesExt

CONSTANTS
  Callers,
  Symbols,
  Requests,     \* what a caller may ask for: [kind, want, force]
  QuoteOrder,   \* market_data_provider_order
  BarOrder,     \* eod_ and intraday_market_data_provider_order
  NewsOrder,    \* news_sentiment_provider_order
  Usable,       \* providers that are enabled for quotes and news
  BarsOff,      \* providers with enabled: false for bars
  Metered,      \* providers asked over HTTP, which record limits and successes
  Quoting,      \* providers with a quote endpoint
  Grids,        \* by provider, the resolutions below a session it serves
  SessionBars,      \* bars of the finest resolution in a session
  QuoteTTL,     \* market_data_cache_ttl_seconds
  NewsTTL,      \* news_sentiment_cache_ttl_seconds
  LimitFor,     \* retry_after_seconds
  FreshBars,    \* INTRADAY_CACHE_TTL_SECONDS
  FreshDays,    \* EOD_BAR_FRESH_FOR_DAYS
  Lookback,     \* of a window, in market time, and of daily bars, in sessions
  Reach,        \* calendar_days_for(Lookback), in market time
  Depths,       \* how many bars a vendor may have
  Times,        \* bound: the times at which something happens
  MaxRequests   \* bound: requests

Providers == ToSet(QuoteOrder) \cup ToSet(BarOrder) \cup ToSet(NewsOrder)

ASSUME MarketDataAssumption ==
  /\ \A order \in {QuoteOrder, BarOrder, NewsOrder} : order \in Seq(Providers)
  /\ SessionBars \in Nat \ {0} /\ QuoteTTL \in Nat /\ LimitFor \in Nat \ {0}
  /\ Lookback \in Nat \ {0} /\ Reach \in Nat /\ Reach >= Lookback /\ Times \subseteq Nat
  /\ Requests \subseteq [kind : {"quotes", "daily", "window", "warm", "news"}, want : SUBSET Symbols, force : BOOLEAN]
  /\ \A p \in ToSet(BarOrder) : Grids[p] \subseteq 1..SessionBars

VARIABLES
  now,
  open,      \* is the market open
  cache,     \* api_cache: by provider and symbol, when the quote was fetched
  limited,   \* api_provider_state: by provider, until when it is limited
  news,      \* news: by provider, when its payload was cached and when its records were stored
  store,     \* market_bars
  call,      \* the request of each caller
  made       \* bound: requests so far

marketVars == <<now, open, cache, limited, news, store, call, made>>

None == -1
Idle == [pc |-> "idle"]

\* f, and g where f has nothing.
Filled(f, g) == [x \in DOMAIN f \cup DOMAIN g |-> IF x \in DOMAIN f THEN f[x] ELSE g[x]]

\* Those of an order that are in a set, in that order.
Kept(order, set) ==
  LET places == {i \in DOMAIN order : order[i] \in set}
  IN [n \in 1..Cardinality(places) |-> order[CHOOSE i \in places : Cardinality({j \in places : j <= i}) = n]]

\* The providers a request walks, in order: those the configuration has switched off are left out.
Order(k) == IF k.kind = "quotes" THEN Kept(QuoteOrder, Usable)
            ELSE IF k.kind = "news" THEN Kept(NewsOrder, Usable)
            ELSE Kept(IF k.kind = "warm" THEN <<k.only>> ELSE BarOrder, Providers \ BarsOff)
Turn(c)  == Order(call[c])[call[c].i]

Missing(k) == k.want \ DOMAIN k.got

\* What the walk does after the provider with the given place.
After(k, i) ==
  IF i < Len(Order(k)) THEN [k EXCEPT !.i = i + 1, !.pc = "turn", !.held = <<>>, !.ask = {}]
  ELSE [k EXCEPT !.i = Len(Order(k)) + 1, !.held = <<>>, !.ask = {},
                 !.pc = CASE k.kind = "quotes" -> "store" [] k.kind = "window" -> "extend" [] OTHER -> "done"]
Next1(k) == After(k, k.i)
Over(k)  == After(k, Len(Order(k)))

\* With nobody to ask the walk is over before it begins.
Started(k) == IF Len(Order(k)) = 0 THEN Over(k) ELSE k

MarketInit ==
  /\ now = Min(Times)
  /\ open \in BOOLEAN
  /\ cache = [p \in Providers |-> [s \in Symbols |-> None]]
  /\ limited = [p \in Providers |-> 0]
  /\ news = [p \in Providers |-> [cached |-> None, stored |-> None]]
  /\ store = {}
  /\ call = [c \in Callers |-> Idle]
  /\ made = 0

-----------------------------------------------------------------------------
(* What is read of the caches                                                *)

IsLimited(p) == limited[p] > now

\* load_cached_payload: a quote that has expired is not there.
Cached(p, s) == cache[p][s] # None /\ cache[p][s] + QuoteTTL > now

\* resolve_bar_minutes: the finest resolution at or below the one wanted.
ResolveGrid(p, wanted) ==
  IF wanted >= SessionBars THEN SessionBars
  ELSE LET eligible == {g \in Grids[p] : g <= wanted}
       IN IF eligible # {} THEN Max(eligible) ELSE Min(Grids[p])

\* bars_for_minutes
BarsFor(minutes, g) == (minutes + g - 1) \div g + 1

Recent(bars, n) == {b \in bars : Cardinality({a \in bars : a.t > b.t}) < n}

SameDay(t, u) == (t - 1) \div SessionBars = (u - 1) \div SessionBars

\* read_bars for one provider
Stored(p, s, g) == {[g |-> b.g, t |-> b.t, says |-> b.g] : b \in {x \in store : x.p = p /\ x.s = s /\ x.g = g}}

\* _fresh_cached_bars: all of them, when the newest is recent enough.
StillFresh(p, s, g, n) ==
  LET bars == Recent(Stored(p, s, g), n)
      last == Max({b.t : b \in bars})
      ok   == IF g >= SessionBars THEN now - last <= FreshDays * SessionBars
              ELSE SameDay(last, now) \/ now - last <= Max({FreshBars, 3 * g})
  IN IF bars # {} /\ ok THEN bars ELSE {}

\* A bar advances the clock by the gap before it, and by no more than a bar of its frame stands for.
Gap(bars, b, most) ==
  LET before == {a.t : a \in {x \in bars : x.t < b.t}}
  IN IF before = {} THEN 0 ELSE Min({b.t - Max(before), most})

\* coverage_minutes: the market time a frame spans, by what it says of its bars, and where it says
\* nothing by their spacing, which is their resolution.
Coverage(bars) == MapThenSumSet(LAMBDA b : Gap(bars, b, IF b.says = None THEN b.g ELSE b.says), bars)

\* The bars of one resolution in a stretch of time, as read_bars gives them.
Tier(s, g, from, upto) ==
  {[g |-> b.g, t |-> b.t, says |-> b.g] :
     b \in {x \in store : x.s = s /\ x.g = g /\ x.t >= from /\ x.t <= upto}}

\* A mutant of ReadHistory: the finest tier that has anything is the answer.
ReadFinest(s) ==
  LET floor == now - Reach
      grids == {b.g : b \in {x \in store : x.s = s /\ x.t >= floor}}
  IN IF grids = {} THEN {} ELSE Tier(s, Min(grids), floor, now)

\* read_history: the finest tier first, each coarser one before the oldest bar found so far,
\* until the window is covered.
ReadHistory(s) ==
  LET floor == now - Reach
      grids == SetToSortSeq({b.g : b \in {x \in store : x.s = s}}, LAMBDA x, y : x < y)
      fill(acc, g) ==
        LET bars == Tier(s, g, floor, acc.end)
        IN IF acc.end <= floor \/ acc.covered >= Lookback \/ bars = {} THEN acc
           ELSE [bars |-> acc.bars \cup bars, covered |-> acc.covered + Coverage(bars),
                 end |-> Min({b.t : b \in bars}) - 1]
  IN FoldLeft(fill, [bars |-> {}, covered |-> 0, end |-> now], grids).bars

\* clear_market_bars
Cleared(p, want, g) == {b \in store : ~(b.p = p /\ b.s \in want /\ b.g = g)}

\* read_sentiment_records: records do not expire.
Records(p) == news[p].stored

\* prices_from_store: the newest bar of the finest tier.  The newest row is taken before rows of
\* several providers for one bar are reduced to one, so that of two such rows the one taken may
\* be the one dropped, and the next tier is read.
Newest(s, g) == {b \in store : b.s = s /\ b.g = g /\ \A a \in store : a.s = s /\ a.g = g => a.t <= b.t}
StorePrices(s) ==
  LET grids == {b.g : b \in {x \in store : x.s = s}}
      passed(g) == \A h \in grids : h < g => Cardinality(Newest(s, h)) > 1
  IN UNION {{b.t : b \in Newest(s, g)} : g \in {h \in grids : passed(h)}}
     \cup (IF \A h \in grids : Cardinality(Newest(s, h)) > 1 THEN {None} ELSE {})

-----------------------------------------------------------------------------
(* Time and requests                                                         *)

Tick ==
  /\ now' \in {t \in Times : t > now}
  /\ open' \in BOOLEAN
  /\ UNCHANGED <<cache, limited, news, store, call, made>>

\* A request for bars has a resolution, and a warm-up one provider.
NewCall(r, grid, only) ==
  [pc |-> "turn", kind |-> r.kind, want |-> r.want, force |-> r.force, grid |-> grid, only |-> only,
   i |-> 1, got |-> <<>>, held |-> <<>>, ask |-> {}, asked |-> {}, skipped |-> {}, unread |-> {}]

\* load_latest_prices: off hours the providers are not asked, unless the clock cannot be read.
AskQuotes(c) ==
  \E r \in {x \in Requests : x.kind = "quotes"} :
    LET k == NewCall(r, None, None)
    IN \/ call' = [call EXCEPT ![c] = Started(k)]
       \/ ~r.force /\ ~open /\ call' = [call EXCEPT ![c] = [k EXCEPT !.pc = "store"]]

\* fetch_eod_market_bars and fetch_market_history
AskBars(c) ==
  \E r \in {x \in Requests : x.kind \in {"daily", "window"}} :
    call' = [call EXCEPT ![c] = Started(NewCall(r, IF r.kind = "daily" THEN SessionBars ELSE 1, None))]

\* fetch_latest_news_sentiment
AskNews(c) ==
  \E r \in {x \in Requests : x.kind = "news"} : call' = [call EXCEPT ![c] = Started(NewCall(r, None, None))]

Begin(c) ==
  /\ call[c].pc \in {"idle", "done"} /\ made < MaxRequests
  /\ made' = made + 1
  /\ AskQuotes(c) \/ AskBars(c) \/ AskNews(c)
  /\ UNCHANGED <<now, open, cache, limited, news, store>>

\* warm_market_data_cache with --clear: the bars of the one provider are deleted, then asked for.
BeginWarm(c) ==
  /\ call[c].pc \in {"idle", "done"} /\ made < MaxRequests
  /\ made' = made + 1
  /\ \E r \in {x \in Requests : x.kind = "warm"}, p \in ToSet(BarOrder), clear \in BOOLEAN :
       \E wanted \in {1, SessionBars} :
         LET g == ResolveGrid(p, wanted)
         IN /\ call' = [call EXCEPT ![c] = Started(NewCall([r EXCEPT !.force = TRUE], wanted, p))]
            /\ store' = IF clear THEN Cleared(p, r.want, g) ELSE store
  /\ UNCHANGED <<now, open, cache, limited, news>>

\* cache_prune: rows of the one provider that is kept, at a fine and a daily resolution
Prune ==
  \E p \in ToSet(BarOrder), g \in 1..SessionBars :
    /\ g \in Grids[p]
    /\ store' = {b \in store : b.p = p /\ b.g \in {g, SessionBars}}
    /\ UNCHANGED <<now, open, cache, limited, news, call, made>>

-----------------------------------------------------------------------------
(* Quotes: load_current_prices                                               *)

AtQuotes(c) == call[c].pc = "turn" /\ call[c].kind = "quotes"
AtNews(c) == call[c].pc = "turn" /\ call[c].kind = "news"
InCall(c) == call[c].pc = "call"

\* A mutant of SkipQuotes: a provider that is limited ends the walk.
StopAtLimit(c) ==
  /\ AtQuotes(c) \/ AtNews(c)
  /\ IsLimited(Turn(c))
  /\ call' = [call EXCEPT ![c] = Over(@)]
  /\ UNCHANGED <<now, open, cache, limited, news, store, made>>

\* A provider whose limit has not run out is passed over.
SkipQuotes(c) ==
  /\ AtQuotes(c) \/ AtNews(c)
  /\ IsLimited(Turn(c))
  /\ call' = [call EXCEPT ![c] = [Next1(call[c]) EXCEPT !.skipped = @ \cup {Turn(c)}]]
  /\ UNCHANGED <<now, open, cache, limited, news, store, made>>

\* MarketDataProvider.price: from the provider's cache what it holds, from the vendor the rest.
\* With every symbol priced the walk is over.
ReadQuotes(c) ==
  /\ AtQuotes(c)
  /\ ~IsLimited(Turn(c))
  /\ LET k    == call[c]
         p    == Turn(c)
         hits == {s \in Missing(k) : ~k.force /\ Cached(p, s)}
         read == [s \in hits |-> [via |-> p, at |-> cache[p][s], live |-> TRUE]]
         ask  == Missing(k) \ hits
     IN call' = [call EXCEPT ![c] =
          IF Missing(k) = {} THEN Over(k)
          ELSE IF ask = {} THEN [Next1(k) EXCEPT !.got = Filled(@, read)]
          ELSE [k EXCEPT !.pc = "call", !.held = read, !.ask = ask,
                         !.asked = @ \cup ({p} \X Missing(k))]]
  /\ UNCHANGED <<now, open, cache, limited, news, store, made>>

\* fetch_price: a symbol the vendor has no price for is left out of the answer; two vendors have
\* no quotes at all.
Quoted(p, ask) == IF p \in Quoting THEN SUBSET ask ELSE {{}}

\* _request_json: too many requests, or an outage.  A vendor that is asked symbol by symbol may
\* have recorded a success before.
Refused(c) ==
  LET p == Turn(c)
  IN \/ p \in Metered /\ limited' = [limited EXCEPT ![p] = now + LimitFor]
     \/ limited' = limited
     \/ p \in Metered /\ Cardinality(call[c].ask) > 1 /\ limited' = [limited EXCEPT ![p] = 0]

\* record_provider_success
Answered(p) == limited' = IF p \in Metered THEN [limited EXCEPT ![p] = 0] ELSE limited

\* The vendor answers, for some of the symbols: each is cached as it is returned.
QuotesAnswered(c) ==
  /\ InCall(c) /\ call[c].kind = "quotes"
  /\ LET k == call[c] p == Turn(c)
     IN \E some \in Quoted(p, k.ask) :
          /\ cache' = [cache EXCEPT ![p] = [s \in Symbols |-> IF s \in some THEN now ELSE @[s]]]
          /\ call' = [call EXCEPT ![c] = [Next1(k) EXCEPT !.got =
               Filled(@, Filled(k.held, [s \in some |-> [via |-> p, at |-> now, live |-> TRUE]]))]]
          /\ Answered(p)
  /\ UNCHANGED <<now, open, news, store, made>>

\* The vendor refuses: the quotes read from its cache are dropped with the batch.
QuotesRefused(c) ==
  /\ InCall(c) /\ call[c].kind = "quotes"
  /\ Turn(c) \in Quoting
  /\ Refused(c)
  /\ call' = [call EXCEPT ![c] = Next1(@)]
  /\ UNCHANGED <<now, open, cache, news, store, made>>

\* What no provider priced is priced from the store, and marked as not current.
FromStore(c) ==
  /\ call[c].pc = "store"
  /\ \E price \in [Missing(call[c]) -> Int \cap UNION {StorePrices(s) : s \in Missing(call[c])}] :
       /\ \A s \in Missing(call[c]) : price[s] \in StorePrices(s)
       /\ call' = [call EXCEPT ![c].pc = "done", ![c].got = Filled(@,
            [s \in {x \in DOMAIN price : price[x] # None} |-> [via |-> "store", at |-> price[s], live |-> FALSE]])]
  /\ UNCHANGED <<now, open, cache, limited, news, store, made>>

-----------------------------------------------------------------------------
(* Bars: MarketDataProvider.bars under _run_provider_fallback                 *)

AtBars(c) == call[c].pc = "turn" /\ call[c].kind \in {"daily", "window", "warm"}
GridOf(c) == ResolveGrid(Turn(c), call[c].grid)
Limit(c)  == IF GridOf(c) >= SessionBars THEN Lookback ELSE BarsFor(Lookback, GridOf(c))

\* Every provider is asked for the whole list; what it adds is kept per symbol, and the walk
\* ends when no symbol is missing.
Supply(k, p, frames) ==
  LET new == {s \in DOMAIN frames \ DOMAIN k.got : frames[s] # {}}
      got == Filled(k.got, [s \in new |-> [via |-> p, bars |-> frames[s]]])
  IN [(IF k.want \subseteq DOMAIN got THEN Over(k) ELSE Next1(k)) EXCEPT !.got = got]

ReadBars(c) ==
  /\ AtBars(c)
  /\ LET k    == call[c]
         p    == Turn(c)
         bars == [s \in k.want |-> IF k.force THEN {} ELSE StillFresh(p, s, GridOf(c), Limit(c))]
         hits == {s \in k.want : bars[s] # {}}
         held == [s \in hits |-> bars[s]]
     IN call' = [call EXCEPT ![c] =
          IF hits = k.want THEN Supply(k, p, held)
          ELSE [k EXCEPT !.pc = "call", !.held = held, !.ask = k.want \ hits,
                         !.asked = @ \cup ({p} \X k.want)]]
  /\ UNCHANGED <<now, open, cache, limited, news, store, made>>

\* What a vendor may have: nothing, or its last bars, which end with the last one closed or with
\* the one in progress.
Upto(g) == (now \div g) * g
VendorFrames(g, n) ==
  {{}} \cup {{[g |-> g, t |-> e - g * j, says |-> None] : j \in {x \in 0..(Min({k, n}) - 1) : e - g * x >= g}} :
               e \in {Upto(g), Upto(g) + g}, k \in Depths}

\* _drop_unclosed_bars: only bars that have ended are stored.
Closed(bars) == {b \in bars : b.t <= now}

\* write_market_bars, for every frame the vendor gave
BarsAnswered(c) ==
  /\ InCall(c) /\ call[c].kind \in {"daily", "window", "warm"}
  /\ LET k == call[c] p == Turn(c) g == GridOf(c)
     IN \E f \in [k.ask -> VendorFrames(g, Limit(c))] :
          /\ store' = store \cup UNION {{[p |-> p, s |-> s, g |-> b.g, t |-> b.t] : b \in Closed(f[s])} : s \in k.ask}
          /\ call' = [call EXCEPT ![c] = Supply(k, p, Filled(k.held, f))]
          /\ Answered(p)
  /\ UNCHANGED <<now, open, cache, news, made>>

BarsRefused(c) ==
  /\ InCall(c) /\ call[c].kind \in {"daily", "window", "warm"}
  /\ Refused(c)
  /\ call' = [call EXCEPT ![c] = Next1(@)]
  /\ UNCHANGED <<now, open, cache, news, store, made>>

\* _extend_with_cached_history: a frame that is too short is merged with what is stored, unless
\* the store has nothing or cannot be read.  What a vendor has just given says nothing of its
\* resolution, and is labelled with the one asked for, whatever the vendor serves.
FrameOf(k, s) == IF s \in DOMAIN k.got THEN k.got[s].bars ELSE {}
Labelled(bars, minutes) == {[b EXCEPT !.says = IF @ = None THEN minutes ELSE @] : b \in bars}
Merged(old, new) == new \cup {b \in old : \A a \in new : a.t # b.t}
Extended(k, s) ==
  IF (FrameOf(k, s) # {} /\ Coverage(FrameOf(k, s)) >= Lookback) \/ ReadHistory(s) = {} THEN FrameOf(k, s)
  ELSE Merged(ReadHistory(s), Labelled(FrameOf(k, s), k.grid))
Extend(c) ==
  /\ call[c].pc = "extend"
  /\ \E bad \in {{}, call[c].want} :
       LET k == call[c]
           whole == [s \in k.want |-> IF s \in bad THEN FrameOf(k, s) ELSE Extended(k, s)]
       IN call' = [call EXCEPT ![c].pc = "done", ![c].unread = bad, ![c].got =
            [s \in k.want |-> [via |-> IF s \in DOMAIN k.got THEN k.got[s].via ELSE "store",
                               bars |-> whole[s]]]]
  /\ UNCHANGED <<now, open, cache, limited, news, store, made>>

-----------------------------------------------------------------------------
(* News: every provider that has some adds to the answer                     *)

\* From the payload cache while it lasts, else from the records stored, else from the vendor.
ReadNews(c) ==
  /\ AtNews(c) /\ ~IsLimited(Turn(c))
  /\ LET k == call[c]
         p == Turn(c)
         held == IF k.force THEN None
                 ELSE IF news[p].cached # None /\ news[p].cached + NewsTTL > now THEN news[p].cached
                 ELSE Records(p)
     IN call' = [call EXCEPT ![c] =
          IF held # None THEN [Next1(k) EXCEPT !.got = Filled(@, [q \in {p} |-> [via |-> p, at |-> held]])]
          ELSE [k EXCEPT !.pc = "call", !.asked = @ \cup ({p} \X k.want)]]
  /\ UNCHANGED <<now, open, cache, limited, news, store, made>>

\* Records are cached and stored; an answer without any is not.
NewsAnswered(c) ==
  /\ InCall(c) /\ call[c].kind = "news"
  /\ LET k == call[c] p == Turn(c)
     IN /\ \E some \in BOOLEAN :
             /\ news' = IF some THEN [news EXCEPT ![p] = [cached |-> now, stored |-> now]] ELSE news
             /\ call' = [call EXCEPT ![c] =
                  IF some THEN [Next1(k) EXCEPT !.got = Filled(@, [q \in {p} |-> [via |-> p, at |-> now]])] ELSE Next1(k)]
        /\ Answered(p)
  /\ UNCHANGED <<now, open, cache, store, made>>

NewsRefused(c) ==
  /\ InCall(c) /\ call[c].kind = "news"
  /\ Refused(c)
  /\ call' = [call EXCEPT ![c] = Next1(@)]
  /\ UNCHANGED <<now, open, cache, news, store, made>>

-----------------------------------------------------------------------------
Step(c) ==
  \/ Begin(c) \/ BeginWarm(c)
  \/ SkipQuotes(c) \/ ReadQuotes(c) \/ QuotesAnswered(c) \/ QuotesRefused(c) \/ FromStore(c)
  \/ ReadBars(c) \/ BarsAnswered(c) \/ BarsRefused(c) \/ Extend(c)
  \/ ReadNews(c) \/ NewsAnswered(c) \/ NewsRefused(c)

MarketNext == Tick \/ Prune \/ \E c \in Callers : Step(c)

MarketSpec == MarketInit /\ [][MarketNext]_marketVars

-----------------------------------------------------------------------------
(* Properties                                                                *)

\* A provider has had its turn at a symbol: one up to it answered, or it was passed over as limited,
\* or asked for that very symbol.  News is of all of them, and one may have had it cached.
InTurn(k, s, i) ==
  \/ s \in DOMAIN k.got /\ \E j \in 1..i : Order(k)[j] = k.got[s].via
  \/ Order(k)[i] \in k.skipped \/ <<Order(k)[i], s>> \in k.asked
  \/ k.kind = "news" /\ Order(k)[i] \in DOMAIN k.got

\* A symbol is answered by the first provider that has it, and by none only after all of them had
\* their turn: load_current_prices, _run_provider_fallback and fetch_latest_news_sentiment.
EveryProviderInTurn ==
  \A c \in Callers :
    call[c] # Idle /\ call[c].pc \in {"extend", "done"} /\ call[c].i > 1 =>
      \A s \in call[c].want, i \in 1..Len(Order(call[c])) : InTurn(call[c], s, i)

\* What a frame really spans, whatever it says of its bars.
Span(bars) == MapThenSumSet(LAMBDA b : Gap(bars, b, b.g), bars)

\* "a lookback longer than the fine bars reach is completed ... rather than coming back short"
\* (service.py:150): the bars of a window that was completed really span what was asked, or reach
\* back as far as anything stored: read_history and _extend_with_cached_history.  What a reader of
\* interval_minutes makes of a frame labelled with a finer resolution than it has is less.
WindowCompleted ==
  [][\A c \in Callers : Extend(c) =>
       \A s \in call[c].want \ call'[c].unread :
         LET bars == call'[c].got[s].bars
         IN Span(bars) < Lookback =>
              \A b \in store : b.s = s /\ b.t >= now - Reach => \E a \in bars : a.t <= b.t]_marketVars

=============================================================================
