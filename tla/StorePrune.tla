------------------------------ MODULE StorePrune ------------------------------
(***************************************************************************)
(* What the operator's tool leaves of a database of before the refactoring *)
(* (tools/prune_state_store.py): rows of app_state that moved are carried  *)
(* to the key that is read now, or dropped; accruals are rewritten to the  *)
(* fields there are; what no configuration can produce again is deleted.   *)
(* Every statement is a transaction of its own, and decides on what it     *)
(* finds.                                                                  *)
(*                                                                         *)
(* A database is [state, bars, payloads, sentiment, dividends]: the rows   *)
(* of app_state by key, the symbols with bars and dividends, the providers *)
(* with payloads, and whether there are records of sentiment.  An accrual  *)
(* is a balance and the fields it has, by symbol; a configuration is       *)
(* [universe, plan, live, sentiment, algorithms].                          *)
(***************************************************************************)
EXTENDS Sequences, FiniteSets, SequencesExt, TLC

\* The accounts an accrual was ever kept for, in the order of their keys.
Accounts == <<"local_paper", "paper", "schwab_individual">>

\* LEGACY_STATE_KEYS, in order: the algorithm and the account whose state a key held.
LegacyKeys ==
    << <<"bursty_dca", "paper">>, <<"bursty_dca", "schwab_individual">>, <<"bursty_dca", "local_paper">>,
       <<"dca", "paper">>, <<"dca", "local_paper">>, <<"rally_rotation", "paper">> >>
DeadKeys == << <<"dead", "risk">>, <<"dead", "watchlist">> >>

Legacy(k) == <<"legacy", k[1], k[2]>>
Current(k) == <<"algorithm_state", k[1], k[2]>>
BacktestCache == <<"backtest_cache">>

Without(state, key) == [k \in DOMAIN state \ {key} |-> state[k]]

\* Only an accrual is worth keeping, and of it the symbols the plan still names.
CarryOver(k, value, config) ==
    IF k[1] \notin config.algorithms \/ k[1] # "bursty_dca" THEN <<>>
    ELSE [s \in DOMAIN value \cap config.plan |-> value[s]]

\* The state of a symbol through SymbolState and back.
FieldsOfState == {"accrued", "last_run_at", "deployed_this_month", "month"}
Normalised(accrual) == [s \in DOMAIN accrual |-> [accrual[s] EXCEPT !.fields = FieldsOfState]]

Statements ==
    [i \in 1..2 * Len(LegacyKeys) |->
        <<IF i % 2 = 1 THEN "carry" ELSE "drop legacy", LegacyKeys[(i + 1) \div 2]>>]
    \o [i \in DOMAIN DeadKeys |-> <<"drop", DeadKeys[i]>>]
    \o [i \in DOMAIN Accounts |-> <<"normalise", <<"bursty_dca", Accounts[i]>> >>]
    \o << <<"clear", BacktestCache>> >>
    \o [i \in 1..4 |-> <<"delete", <<"bars", "payloads", "sentiment", "dividends">>[i]>>]

\* Rows of symbols and of providers nobody asks about any more.
Kept(table, database, config) ==
    CASE table = "bars"      -> database.bars \cap config.universe
      [] table = "payloads"  -> database.payloads \cap config.live
      [] table = "sentiment" -> database.sentiment /\ config.sentiment
      [] table = "dividends" -> database.dividends \cap config.universe

StateAfter(statement, state, config) ==
    LET k == statement[2] IN
    CASE statement[1] = "carry" ->
            LET carried == IF Legacy(k) \in DOMAIN state THEN CarryOver(k, state[Legacy(k)], config) ELSE <<>>
            IN  IF carried = <<>> THEN state ELSE Current(k) :> carried @@ state
      [] statement[1] = "drop legacy" -> Without(state, Legacy(k))
      [] statement[1] = "drop"        -> Without(state, k)
      [] statement[1] = "normalise"   ->
            IF Current(k) \in DOMAIN state THEN [state EXCEPT ![Current(k)] = Normalised(@)] ELSE state
      [] statement[1] = "clear"       -> IF k \in DOMAIN state THEN [state EXCEPT ![k] = {}] ELSE state

Executed(statement, database, config) ==
    IF statement[1] = "delete"
    THEN [database EXCEPT ![statement[2]] = Kept(statement[2], database, config)]
    ELSE [database EXCEPT !.state = StateAfter(statement, @, config)]

\* A prune that dies after n statements, and one that comes to its end.
PrunedUpTo(n, database, config) ==
    FoldLeft(LAMBDA d, statement : Executed(statement, d, config), database, SubSeq(Statements, 1, n))
Pruned(database, config) == PrunedUpTo(Len(Statements), database, config)
===============================================================================
