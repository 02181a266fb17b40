----------------------------- MODULE MCAppState -----------------------------
(* Two bindings of one paper account, and requests of either kind.           *)
EXTENDS AppState, TLC

CONSTANTS t1, t2

MCThreads   == {t1, t2}
MCAccountOf == [b \in {"x", "y"} |-> "p"]

Asked(kind, account) == [kind |-> kind, strategy |-> "x", account |-> account]

MCRequests == {Asked("backtest", "p"), Asked("backtest", "q"), Asked("signals", "p")}

Symmetry == Permutations(MCThreads)

\* The prune of a database of before the refactoring, over a few of what its rows may be.
Prune == INSTANCE StorePrune

Configured == [universe |-> {"a", "b"}, plan |-> {"a"}, live |-> {"x"}, sentiment |-> FALSE,
               algorithms |-> {"bursty_dca", "rally_rotation"}]

Accrual(symbols, balance) ==
    [s \in symbols |-> [accrued |-> balance, fields |-> Prune!FieldsOfState \cup {"path_started_at"}]]

OldKeys == {Prune!LegacyKeys[i] : i \in {1, 4, 6}}
MCStates ==
    {[key \in {Prune!Legacy(k) : k \in old} |-> Accrual(symbols, 1)] @@
     [key \in {Prune!Current(k) : k \in new} |-> Accrual({"a", "c"}, 2)] @@
     [key \in rest |-> IF key = Prune!BacktestCache THEN {"result"} ELSE <<>>] :
        old \in SUBSET OldKeys, symbols \in {{"a"}, {"a", "c"}, {"c"}},
        new \in {{}, {Prune!LegacyKeys[1]}, {Prune!LegacyKeys[2]}},
        rest \in {{}, {Prune!BacktestCache, Prune!Legacy(Prune!DeadKeys[2])}}}

MCDatabases ==
    {[state |-> state, bars |-> bars, payloads |-> {"x", "y"}, sentiment |-> sentiment, dividends |-> bars] :
        state \in MCStates, bars \in {{"a"}, {"b", "c"}}, sentiment \in BOOLEAN}

\* Running it twice is running it once, and so is running it after it died between any two of its
\* statements (prune_state_store.py says so of its steps).
ASSUME PruneIdempotent ==
    \A database \in MCDatabases : \A n \in 0..Len(Prune!Statements) :
        Prune!Pruned(Prune!PrunedUpTo(n, database, Configured), Configured) = Prune!Pruned(database, Configured)

\* What was banked under an old key for a symbol of the plan is found under the key that is read
\* now, with the fields there are, and an old key is gone.
ASSUME PruneCarriesOver ==
    \A database \in MCDatabases : LET after == Prune!Pruned(database, Configured).state IN
        /\ \A k \in OldKeys : Prune!Legacy(k) \notin DOMAIN after
        /\ \A k \in OldKeys : \A s \in Configured.plan :
              k[1] = "bursty_dca" /\ Prune!Legacy(k) \in DOMAIN database.state
                  /\ s \in DOMAIN database.state[Prune!Legacy(k)]
                  => after[Prune!Current(k)][s] = [accrued |-> 1, fields |-> Prune!FieldsOfState]
=============================================================================
