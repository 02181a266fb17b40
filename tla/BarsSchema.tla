------------------------------ MODULE BarsSchema ------------------------------
(***************************************************************************)
(* The table of bars in the database file, and the statements by which     *)
(* initialize_schema brings an old one up to date (data/duckdb_store.py):  *)
(* it is set aside under another name, created anew, filled from what was  *)
(* set aside, and that is dropped; once for the columns, and once to move  *)
(* the stamp of a bar from its start to its end, which is recorded in      *)
(* app_state.  Every statement is a transaction of its own.                *)
(*                                                                         *)
(* A row is the resolution, the stamp and the bar it holds; time is in     *)
(* bars of the finest resolution, and a resolution of Session is daily.    *)
(***************************************************************************)
EXTENDS Integers, Sequences, FiniteSets

CONSTANTS
    Session,     \* bars of the finest resolution in a session
    NoTable
ASSUME SessionAssumption == Session \in Nat \ {0}

Tables == {"market_bars", "market_bars_legacy", "market_bars_restamp"}

\* The statements, in order.  Mutant: what was set aside is dropped before it is copied.
MigrationDropsFirst(old) ==
    << <<"rename", old>>, <<"create", old>>, <<"drop", old>>, <<"copy", old>> >>
Migration(old) == << <<"rename", old>>, <<"create", old>>, <<"copy", old>>, <<"drop", old>> >>
Statements ==
    LET columns == Migration("market_bars_legacy")
        stamps  == Migration("market_bars_restamp")
    IN  << <<"create", "market_bars">>,
           <<"columns", "market_bars_legacy">>, columns[1], columns[2], columns[3], columns[4],
           <<"version", "market_bars_restamp">>, stamps[1], stamps[2], stamps[3], stamps[4],
           <<"record", "market_bars">> >>
LastStatement == Len(Statements)

\* A bar's stamp by its end: a daily one at the close of its session.
Restamped(row) ==
    [row EXCEPT !.t = IF row.g < Session THEN @ + row.g ELSE (@ \div Session) * Session + Session - 1]

\* INSERT OR REPLACE: one row stays for a key, of two the new one.
SameKey(a, b) == a.g = b.g /\ a.t = b.t
Inserted(rows, new) ==
    {r \in rows : \A n \in new : ~SameKey(r, n)} \cup {CHOOSE n \in new : SameKey(n, m) : m \in new}

\* Nothing to do: every statement leaves the file as it is.
UpToDate(disk) ==
    /\ disk.table["market_bars"] # NoTable /\ ~disk.table["market_bars"].old
    /\ disk.version

\* A rename wants the one name taken and the other free, the rest their tables.
Raises(statement, disk) ==
    LET bars == disk.table["market_bars"]
        aside == disk.table[statement[2]]
    IN  CASE statement[1] = "rename" -> bars = NoTable \/ aside # NoTable
          [] statement[1] = "copy" -> bars = NoTable \/ aside = NoTable
          [] statement[1] = "drop" -> aside = NoTable
          [] OTHER -> FALSE

\* _create_market_bars, if there is none, and the four steps of a migration.
Executed(statement, disk) ==
    LET old == statement[2]
        bars == disk.table["market_bars"]
        moved == IF old = "market_bars_restamp"
                 THEN {Restamped(r) : r \in disk.table[old].rows} ELSE disk.table[old].rows
    IN  CASE statement[1] = "create" /\ bars = NoTable ->
               [disk EXCEPT !.table["market_bars"] = [old |-> FALSE, rows |-> {}]]
          [] statement[1] = "rename" ->
               [disk EXCEPT !.table[old] = bars, !.table["market_bars"] = NoTable]
          [] statement[1] = "copy" ->
               [disk EXCEPT !.table["market_bars"].rows = Inserted(@, moved)]
          [] statement[1] = "drop" -> [disk EXCEPT !.table[old] = NoTable]
          [] statement[1] = "record" -> [disk EXCEPT !.version = TRUE]
          [] OTHER -> disk

\* The statement after the n-th: a migration that is not needed is skipped.
Following(n, disk) ==
    LET bars == disk.table["market_bars"] IN
    CASE Statements[n][1] = "columns" /\ (bars = NoTable \/ ~bars.old) -> n + 5
      [] Statements[n][1] = "version" /\ disk.version -> LastStatement + 1
      [] OTHER -> n + 1

\* The rows and the bars of a table, and the bars the file has, under whatever name.
RowsIn(disk, n) == IF disk.table[n] = NoTable THEN {} ELSE disk.table[n].rows
BarsIn(disk, n) == {r.bar : r \in RowsIn(disk, n)}
BarsOf(disk) == UNION {BarsIn(disk, n) : n \in Tables}

\* What is filed under one key is one bar, and so is what is filed in one session, "three rows for
\* one fact" (bar_end_timestamps): collapsing them loses nothing.
SameSession(a, b) == a.g = b.g /\ a.g >= Session /\ a.t \div Session = b.t \div Session
OneBarEach(disk) ==
    \A m, n \in Tables : \A r \in RowsIn(disk, m), s \in RowsIn(disk, n) :
        (m = n /\ SameKey(r, s)) \/ SameSession(r, s) => r.bar = s.bar

\* Files whose tables hold some of these bars.
TablesOf(bars) == [old : BOOLEAN, rows : SUBSET [g : Int, t : Int, bar : bars]]
FilesOf(bars) == [table : [Tables -> TablesOf(bars) \cup {NoTable}], version : BOOLEAN]

=============================================================================
