------------------------------- MODULE DuckPool -------------------------------
(***************************************************************************)
(* The connections of one process to one DuckDB file                       *)
(* (data/duckdb_store.py): batch jobs hold a shared handle through         *)
(* pooled_connections(read_only=True), every other call takes a cursor     *)
(* onto it or, when there is none, a connection of its own, and a write on *)
(* a read-only handle swaps the handle's connection.                       *)
(*                                                                         *)
(* DuckDB refuses a connection whose mode differs from that of a           *)
(* connection the process has open, or that another process's lock         *)
(* excludes.  Waiting for a lock or for cursors to drain is bounded by     *)
(* deadlines; here a deadline may pass at any time.                        *)
(*                                                                         *)
(* Whoever opens the file for writing brings its tables up to date first   *)
(* (BarsSchema), one statement after the other; the process may die        *)
(* between any two of them and start again on what is on disk.             *)
(***************************************************************************)
EXTENDS BarsSchema

CONSTANTS
    Threads,
    Instances,   \* what to start from: the file, the threads that use it, and whether another
                 \* process may: [disk, threads, strangers]
    Handles,     \* _Handle objects (one that nobody refers to is recycled)
    MaxMishaps,  \* model bound on mishaps in initialize_schema
    MaxCount,    \* model bound on a cursor count that failed calls keep raising
    NoHandle, Nobody

ASSUME NamesAssumption == NoHandle \notin Handles /\ Nobody \notin Threads
ASSUME CountAssumption == IsFiniteSet(Threads) /\ MaxCount \in Nat /\ MaxMishaps \in Nat
\* The bounds leave room: for a count of every thread, and for a handle beside those in use.
ASSUME RoomAssumption ==
    /\ MaxCount >= Cardinality(Threads)
    /\ IsFiniteSet(Handles) /\ Cardinality(Handles) >= Cardinality(Threads)
OldBars == UNION {BarsOf(i.disk) : i \in Instances}
\* A table is whole, or one that was created and not yet filled.
ASSUME InstancesAssumption ==
    /\ NoTable \notin TablesOf(OldBars)
    /\ \A i \in Instances :
         /\ i.threads \subseteq Threads
         /\ i.disk \in FilesOf(OldBars) /\ BarsOf(i.disk) = OldBars /\ OneBarEach(i.disk)
         /\ \A n \in Tables : BarsIn(i.disk, n) \in {{}, OldBars}

VARIABLES
    registered,  \* _HANDLES[path]
    conn,        \* handle -> mode of its connection: "ro", "rw" or "closed"
    readOnly,    \* handle -> handle.read_only
    scopes,      \* handle -> handle.scopes
    cursors,     \* handle -> handle.cursors
    lock,        \* the thread that holds _IDLE between two steps
    pc,          \* thread -> where it is in its call
    scope,       \* thread -> the handle of the pooled_connections block it is in
    cursor,      \* thread -> the handle its cursor belongs to
    live,        \* thread -> whether that cursor is still open
    own,         \* thread -> mode of its own connection, outside the pool
    disk,        \* the file: its tables, and whether app_state has the schema's version
    at,          \* thread -> the statement of initialize_schema it is at
    mishaps,     \* how often the process has died, or two threads have collided, in initialize_schema
    users,       \* the threads of this instance
    strangers,   \* whether there is another process
    other,       \* the mode in which another process holds the file
    broken,      \* history: a swap has closed a connection and could not make the next ready
    hurried      \* history: a swap has not waited for the cursors to drain

handleVars == <<registered, conn, readOnly, scopes, cursors>>
threadVars == <<pc, scope, cursor, live, own>>
file == <<disk, at>>
history == <<broken, hurried>>
vars == <<handleVars, lock, threadVars, file, mishaps, users, strangers, other, history>>

Holders(h) == {t \in Threads : cursor[t] = h}
Scoped(h) == {t \in Threads : scope[t] = h}
Unused == {h \in Handles : h # registered /\ Holders(h) \cup Scoped(h) = {}}
NewHandle == CHOOSE h \in Unused : TRUE

\* The modes of the connections this process has open.
Modes == ({conn[h] : h \in Handles} \cup {own[t] : t \in Threads}) \ {"closed"}

Fresh ==
    /\ registered = NoHandle
    /\ conn = [h \in Handles |-> "closed"]
    /\ readOnly = [h \in Handles |-> FALSE]
    /\ scopes = [h \in Handles |-> 0]
    /\ cursors = [h \in Handles |-> 0]
    /\ lock = Nobody
    /\ pc = [t \in Threads |-> "idle"]
    /\ scope = [t \in Threads |-> NoHandle]
    /\ cursor = [t \in Threads |-> NoHandle]
    /\ live = [t \in Threads |-> FALSE]
    /\ own = [t \in Threads |-> "closed"]
    /\ at = [t \in Threads |-> 0]
    /\ broken = FALSE /\ hurried = FALSE

Init ==
    /\ Fresh
    /\ \E i \in Instances : disk = i.disk /\ users = i.threads /\ strangers = i.strangers
    /\ other = "none" /\ mishaps = 0

-----------------------------------------------------------------------------
(* duckdb.connect, given the connections the process has open *)

Opens(mode, modes) ==
    /\ modes \subseteq {mode}
    /\ other \in (IF mode = "ro" THEN {"none", "ro"} ELSE {"none"})

\* The cursors of a connection are closed with it.
DropCursors(h) == live' = [t \in Threads |-> live[t] /\ cursor[t] # h]

-----------------------------------------------------------------------------
(* initialize_schema, on a connection just opened for writing *)

\* The first statement; while it runs the connection is the thread's own.
Prepare(t, then) ==
    /\ pc' = [pc EXCEPT ![t] = then]
    /\ at' = [at EXCEPT ![t] = 1]
    /\ UNCHANGED disk

InSchema(t) == at[t] \in 1..LastStatement

\* The next statement is done, or it raises: on a table another thread or a process that died
\* has left behind, or because another thread is at the same.
Statement(t) ==
    /\ InSchema(t)
    /\ ~Raises(Statements[at[t]], disk)
    /\ disk' = Executed(Statements[at[t]], disk)
    /\ at' = [at EXCEPT ![t] = Following(@, disk)]
    /\ UNCHANGED <<handleVars, lock, threadVars, other, history>>

Mishap == mishaps < MaxMishaps /\ mishaps' = mishaps + 1
StatementRaises(t) ==
    /\ InSchema(t)
    /\ IF Raises(Statements[at[t]], disk) THEN UNCHANGED mishaps
       ELSE Mishap /\ \E u \in Threads \ {t} : InSchema(u)
    /\ at' = [at EXCEPT ![t] = 0]
    /\ pc' = [pc EXCEPT ![t] = IF @ = "swapped" THEN "using" ELSE "idle"]
    /\ own' = [own EXCEPT ![t] = "closed"]
    /\ lock' = IF lock = t THEN Nobody ELSE lock
    /\ broken' = (broken \/ pc[t] = "swapped")
    /\ UNCHANGED <<handleVars, scope, cursor, live, disk, other, hurried>>

\* The process dies, and starts again.  Elsewhere this leaves the file as it is, and nothing open.
Crash ==
    /\ \E t \in Threads : InSchema(t)
    /\ Mishap
    /\ registered' = NoHandle /\ lock' = Nobody
    /\ conn' = [h \in Handles |-> "closed"] /\ readOnly' = [h \in Handles |-> FALSE]
    /\ scopes' = [h \in Handles |-> 0] /\ cursors' = [h \in Handles |-> 0]
    /\ pc' = [t \in Threads |-> "idle"] /\ scope' = [t \in Threads |-> NoHandle]
    /\ cursor' = [t \in Threads |-> NoHandle] /\ live' = [t \in Threads |-> FALSE]
    /\ own' = [t \in Threads |-> "closed"] /\ at' = [t \in Threads |-> 0]
    /\ broken' = FALSE /\ hurried' = FALSE
    /\ UNCHANGED <<disk, other>>

-----------------------------------------------------------------------------
(* with pooled_connections(read_only=True): *)

Register(t, h, mode) ==
    /\ registered' = h
    /\ conn' = [conn EXCEPT ![h] = mode]
    /\ readOnly' = [readOnly EXCEPT ![h] = (mode = "ro")]
    /\ scopes' = [scopes EXCEPT ![h] = 1]
    /\ cursors' = [cursors EXCEPT ![h] = 0]
    /\ scope' = [scope EXCEPT ![t] = h]

\* Joins the handle there is, or opens one; if DuckDB will not have it read-only, goes on to wait
\* for a read-write connection with _IDLE held.
EnterScope(t) ==
    /\ pc[t] = "idle" /\ scope[t] = NoHandle /\ lock = Nobody
    /\ \/ /\ registered # NoHandle
          /\ scopes' = [scopes EXCEPT ![registered] = @ + 1]
          /\ scope' = [scope EXCEPT ![t] = registered]
          /\ UNCHANGED <<registered, conn, readOnly, cursors, lock, pc>>
       \/ /\ registered = NoHandle /\ Opens("ro", Modes)
          /\ Register(t, NewHandle, "ro")
          /\ UNCHANGED <<lock, pc>>
       \/ /\ registered = NoHandle /\ ~Opens("ro", Modes)
          /\ lock' = t
          /\ pc' = [pc EXCEPT ![t] = "opening"]
          /\ UNCHANGED <<handleVars, scope>>
    /\ UNCHANGED <<cursor, live, own, file, other, history>>

\* _open_with_retry ends, with a connection or with an exception.
OpenScope(t) ==
    /\ pc[t] = "opening"
    /\ \/ /\ Opens("rw", Modes) /\ ~UpToDate(disk)
          /\ own' = [own EXCEPT ![t] = "rw"]
          /\ Prepare(t, "opened")
          /\ UNCHANGED <<handleVars, scope, lock>>
       \/ /\ IF Opens("rw", Modes)
             THEN UpToDate(disk) /\ Register(t, NewHandle, "rw")
             ELSE UNCHANGED <<handleVars, scope>>
          /\ lock' = Nobody
          /\ pc' = [pc EXCEPT ![t] = "idle"]
          /\ UNCHANGED <<own, file>>
    /\ UNCHANGED <<cursor, live, other, history>>

\* The handle is registered once the schema is there.
ScopeReady(t) ==
    /\ pc[t] = "opened" /\ at[t] > LastStatement
    /\ Register(t, NewHandle, "rw")
    /\ own' = [own EXCEPT ![t] = "closed"]
    /\ at' = [at EXCEPT ![t] = 0]
    /\ lock' = Nobody
    /\ pc' = [pc EXCEPT ![t] = "idle"]
    /\ UNCHANGED <<cursor, live, disk, other, history>>

\* The last scope out closes the connection, whoever has a cursor on it.  Mutants: the first one
\* out does; nobody does.
ClosesAnyway(h) == TRUE
ClosesNever(h) == FALSE
ClosesLast(h) == scopes[h] = 1

ExitScope(t) ==
    LET h == scope[t] IN
    /\ pc[t] = "idle" /\ h # NoHandle /\ lock = Nobody
    /\ scopes' = [scopes EXCEPT ![h] = @ - 1]
    /\ IF ClosesLast(h)
       THEN /\ registered' = NoHandle
            /\ conn' = [conn EXCEPT ![h] = "closed"]
            /\ DropCursors(h)
       ELSE UNCHANGED <<registered, conn, live>>
    /\ scope' = [scope EXCEPT ![t] = NoHandle]
    /\ UNCHANGED <<readOnly, cursors, lock, pc, cursor, own, file, other, history>>

-----------------------------------------------------------------------------
(* with _connect(path) as connection: *)

\* A cursor onto the shared connection; if that is closed, cursor() raises after the count went up.
ConnectShared(t) ==
    /\ pc[t] = "idle" /\ lock = Nobody /\ registered # NoHandle
    /\ cursors' = [cursors EXCEPT ![registered] = IF @ = MaxCount THEN @ ELSE @ + 1]
    /\ IF conn[registered] = "closed"
       THEN UNCHANGED <<pc, cursor, live>>
       ELSE /\ pc' = [pc EXCEPT ![t] = "using"]
            /\ cursor' = [cursor EXCEPT ![t] = registered]
            /\ live' = [live EXCEPT ![t] = TRUE]
    /\ UNCHANGED <<registered, conn, readOnly, scopes, lock, scope, own, file, other, history>>

\* No handle: the call opens a connection of its own, outside the lock.
ConnectAlone(t) ==
    /\ pc[t] = "idle" /\ lock = Nobody /\ registered = NoHandle
    /\ pc' = [pc EXCEPT ![t] = "direct"]
    /\ UNCHANGED <<handleVars, lock, scope, cursor, live, own, file, other, history>>

\* When the wait for the file has been in vain the call makes do with a read-only connection.
OpenAlone(t) ==
    /\ pc[t] = "direct"
    /\ IF Opens("rw", Modes)
       THEN /\ own' = [own EXCEPT ![t] = "rw"]
            /\ IF UpToDate(disk)
               THEN pc' = [pc EXCEPT ![t] = "using"] /\ UNCHANGED file
               ELSE Prepare(t, "alone")
       ELSE /\ pc' = [pc EXCEPT ![t] = "fallback"]
            /\ UNCHANGED <<own, file>>
    /\ UNCHANGED <<handleVars, lock, scope, cursor, live, other, history>>

AloneReady(t) ==
    /\ pc[t] = "alone" /\ at[t] > LastStatement
    /\ pc' = [pc EXCEPT ![t] = "using"]
    /\ at' = [at EXCEPT ![t] = 0]
    /\ UNCHANGED <<handleVars, lock, scope, cursor, live, own, disk, other, history>>

OpenFallback(t) ==
    /\ pc[t] = "fallback"
    /\ IF Opens("ro", Modes)
       THEN /\ own' = [own EXCEPT ![t] = "ro"]
            /\ pc' = [pc EXCEPT ![t] = "using"]
       ELSE /\ pc' = [pc EXCEPT ![t] = "idle"]
            /\ UNCHANGED own
    /\ UNCHANGED <<handleVars, lock, scope, cursor, live, file, other, history>>

\* Statements the connection runs, or refuses with an exception, leave no trace.  A write on a
\* live read-only cursor goes on to _upgrade.
Write(t) ==
    /\ pc[t] = "using" /\ cursor[t] # NoHandle /\ live[t]
    /\ readOnly[cursor[t]] /\ conn[cursor[t]] = "ro"
    /\ pc' = [pc EXCEPT ![t] = "upgrade"]
    /\ UNCHANGED <<handleVars, lock, scope, cursor, live, own, file, other, history>>

\* A cursor of the connection there is now, or an exception if it is closed.
NewCursor(t, cs) ==
    /\ pc' = [pc EXCEPT ![t] = IF conn'[cursor[t]] = "closed" THEN "using" ELSE "again"]
    /\ live' = [cs EXCEPT ![t] = (conn'[cursor[t]] # "closed")]

\* The old connection goes first, whoever has replaced it meanwhile; the new one is opened without
\* a retry, and _IDLE is held while the schema is seen to.
Swap(t) ==
    LET h == cursor[t]
        reopened == Opens("rw", (({conn[g] : g \in Handles \ {h}} \cup {own[u] : u \in Threads})
                                  \ {"closed"}))
        others == [u \in Threads |-> live[u] /\ cursor[u] # h]
    IN
    /\ conn' = [conn EXCEPT ![h] = IF reopened THEN "rw" ELSE "closed"]
    /\ readOnly' = [readOnly EXCEPT ![h] = @ /\ ~reopened]
    /\ broken' = (broken \/ ~reopened)
    /\ IF reopened /\ ~UpToDate(disk)
       THEN live' = others /\ lock' = t /\ Prepare(t, "swapped")
       ELSE NewCursor(t, others) /\ UNCHANGED <<lock, file>>

SwapReady(t) ==
    /\ pc[t] = "swapped" /\ at[t] > LastStatement
    /\ UNCHANGED conn /\ NewCursor(t, live)
    /\ at' = [at EXCEPT ![t] = 0]
    /\ lock' = Nobody
    /\ UNCHANGED <<registered, readOnly, scopes, cursors, scope, cursor, own, disk, other, history>>

\* The swap waits for the other cursors until they are gone or its deadline passes.  Mutant: it
\* does not wait.
WaitsForNobody(h, late) == TRUE
Drained(h, late) == cursors[h] <= 1 \/ late

\* _upgrade has _IDLE: it swaps, waits, or finds that somebody else has swapped.
Upgrade(t) ==
    LET h == cursor[t] IN
    /\ pc[t] = "upgrade" /\ lock = Nobody
    /\ \/ readOnly[h] /\ Drained(h, FALSE) /\ Swap(t) /\ UNCHANGED hurried
       \/ /\ readOnly[h] /\ ~Drained(h, FALSE)
          /\ pc' = [pc EXCEPT ![t] = "drain"]
          /\ UNCHANGED <<conn, readOnly, live, lock, file, history>>
       \/ ~readOnly[h] /\ UNCHANGED <<conn, readOnly, lock, file, history>> /\ NewCursor(t, live)
    /\ UNCHANGED <<registered, scopes, cursors, scope, cursor, own, other>>

\* The wait is over.  read_only is not looked at again.
EndDrain(t) ==
    LET h == cursor[t] IN
    /\ pc[t] = "drain" /\ lock = Nobody
    /\ \E late \in BOOLEAN :
         /\ Drained(h, late)
         /\ hurried' = (hurried \/ (late /\ cursors[h] > 1))
    /\ Swap(t)
    /\ UNCHANGED <<registered, scopes, cursors, scope, cursor, own, other>>

\* The statement a second time, on the new cursor.
Again(t) ==
    /\ pc[t] = "again"
    /\ pc' = [pc EXCEPT ![t] = "using"]
    /\ UNCHANGED <<handleVars, lock, scope, cursor, live, own, file, other, history>>

\* close() of a cursor
Released(h) == [cursors EXCEPT ![h] = @ - 1]

\* The end of the with block.  A connection nobody refers to any more is closed with its handle.
Close(t) ==
    LET h == cursor[t] IN
    /\ pc[t] = "using"
    /\ \/ /\ h # NoHandle /\ lock = Nobody
          /\ cursors' = Released(h)
          /\ conn' = IF h # registered /\ Scoped(h) = {} /\ Holders(h) = {t}
                     THEN [conn EXCEPT ![h] = "closed"] ELSE conn
          /\ cursor' = [cursor EXCEPT ![t] = NoHandle]
          /\ live' = [live EXCEPT ![t] = FALSE]
          /\ UNCHANGED own
       \/ /\ h = NoHandle
          /\ own' = [own EXCEPT ![t] = "closed"]
          /\ UNCHANGED <<cursors, conn, cursor, live>>
    /\ pc' = [pc EXCEPT ![t] = "idle"]
    /\ UNCHANGED <<registered, readOnly, scopes, lock, scope, file, other, history>>

-----------------------------------------------------------------------------
\* Another process opens the file when its lock allows, and lets go of it.
Stranger ==
    /\ strangers
    /\ \/ other = "none" /\ "rw" \notin Modes /\ other' = "ro"
       \/ other = "none" /\ Modes = {} /\ other' = "rw"
       \/ other # "none" /\ other' = "none"
    /\ UNCHANGED <<handleVars, lock, threadVars, file, history>>

Batch(t) == EnterScope(t) \/ OpenScope(t) \/ ScopeReady(t) \/ ExitScope(t)

Call(t) ==
    \/ ConnectShared(t) \/ ConnectAlone(t) \/ OpenAlone(t) \/ AloneReady(t) \/ OpenFallback(t)
    \/ Write(t) \/ Upgrade(t) \/ EndDrain(t) \/ SwapReady(t) \/ Again(t) \/ Close(t)

Next ==
    /\ \/ /\ Stranger \/ \E t \in users : Batch(t) \/ Call(t) \/ Statement(t)
          /\ UNCHANGED mishaps
       \/ Crash \/ \E t \in users : StatementRaises(t)
    /\ UNCHANGED <<users, strangers>>

Spec == Init /\ [][Next]_vars

-----------------------------------------------------------------------------
(* Properties *)

\* "both join the existing handle and only the last scope out closes it"
\* (data/duckdb_store.py:360-361): while a batch job runs, its handle is the one every other call
\* finds and its connection is open, however scopes of several threads overlap, unless a swap
\* could not reopen it.
BatchKeepsConnection ==
    \A t \in Threads : scope[t] # NoHandle =>
        scope[t] = registered /\ (broken \/ conn[registered] # "closed")

\* A call made within a batch keeps its cursor until its with block ends: a swap asked for by
\* another thread waits for it, unless the deadline has passed (lines 293-297).
CursorsStayLive ==
    \A t \in Threads :
        cursor[t] # NoHandle /\ scope[t] = cursor[t] /\ pc[t] # "swapped" /\ ~hurried /\ ~broken =>
            live[t]

\* "DuckDB permits a single read-write process at a time" (lines 348-351): with no batch and no
\* call under way nothing is left open, even if a call has outlived the batch whose handle it used.
NothingLeftOpen ==
    (\A t \in Threads : pc[t] = "idle" /\ scope[t] = NoHandle) => Modes = {} /\ registered = NoHandle

\* "The migration is row-preserving" (line 442): no bar of an old file is lost on the way to the
\* new tables, whatever process dies in the middle of it and whichever threads are at it at once;
\* until it is through, or if it never is, a bar is in a table that was set aside.
BarsKept == OldBars \subseteq BarsOf(disk)

=============================================================================
