----------------------------- MODULE MCDuckPool -----------------------------
(* DuckPool with threads as model values: three on a file that is up to date, *)
(* two on the oldest there is.                                                *)
EXTENDS DuckPool, TLC

CONSTANTS t1, t2, t3, h1, h2, h3

ThreeThreads == {t1, t2, t3}
ThreeHandles == {h1, h2, h3}

\* Threads differ in nothing but their names.
Symmetry == Permutations(ThreeThreads)

\* One session that two stamps were filed for, and two fine bars in a row.
Daily(t) == [g |-> 4, t |-> t, bar |-> "session"]
Fine(t, bar) == [g |-> 1, t |-> t, bar |-> bar]
OldRows == {Daily(0), Daily(1), Fine(1, "first"), Fine(2, "second")}
NewRows == {Restamped(r) : r \in OldRows}

File(old, rows, version) ==
    [table |-> [n \in Tables |-> IF n = "market_bars" THEN [old |-> old, rows |-> rows] ELSE NoTable],
     version |-> version]

MCInstances ==
    {[disk |-> File(FALSE, NewRows, TRUE), threads |-> ThreeThreads, strangers |-> TRUE]} \cup
    {[disk |-> File(TRUE, OldRows, FALSE), threads |-> ThreeThreads \ {t}, strangers |-> FALSE] : t \in ThreeThreads}

=============================================================================
