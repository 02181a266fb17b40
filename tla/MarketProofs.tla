----------------------------- MODULE MarketProofs -----------------------------
(***************************************************************************)
(* Proofs about market data: the pool of handles to its store (DuckPool)   *)
(* and the walk of a request over its providers (MarketData).              *)
(*                                                                         *)
(* DuckPool, for every number of threads and handles, every file to start  *)
(* from and whatever another process does: the inductive invariant ties    *)
(* the numbers kept in a handle (its scopes, its cursors) to the threads   *)
(* they stand for, and the lock to the threads that are still at a step    *)
(* taken under it.                                                         *)
(*                                                                         *)
(* Of the file it says that each of its tables has all the bars or none,   *)
(* that a table which was set aside is one thread's to copy and to drop,   *)
(* and that it is not dropped while it is all there is.                    *)
(*                                                                         *)
(* MarketData, for every set of callers, symbols and providers, every      *)
(* order of the providers and every answer of theirs: the inductive        *)
(* invariant says of a request on its way that the providers behind it     *)
(* have had their turn at everything wanted, that what it has is of one    *)
(* of them, and that the vendor it waits for was asked for the rest.       *)
(***************************************************************************)
EXTENDS DuckPool, MarketData, FiniteSetTheorems, TLAPS

-----------------------------------------------------------------------------
(* The invariant *)

\* Where a thread is: within its with block, and with _IDLE held.
WithCursor == {"upgrade", "drain", "swapped", "again"}
WithLock == {"opening", "opened", "swapped"}
Points == {"idle", "direct", "alone", "fallback", "using"} \cup WithCursor \cup WithLock
ConnModes == {"ro", "rw", "closed"}

TypeInv ==
    /\ registered \in Handles \cup {NoHandle}
    /\ conn \in [Handles -> ConnModes] /\ own \in [Threads -> ConnModes]
    /\ DOMAIN scopes = Handles /\ cursors \in [Handles -> Nat]
    /\ pc \in [Threads -> Points]
    /\ scope \in [Threads -> Handles \cup {NoHandle}]
    /\ cursor \in [Threads -> Handles \cup {NoHandle}]
    /\ DOMAIN live = Threads /\ DOMAIN at = Threads
    /\ users \subseteq Threads

\* Whoever is at a step taken under _IDLE holds it, and opens a handle only when there is none.
LockInv ==
    /\ \A t \in Threads : pc[t] \in WithLock <=> lock = t
    /\ \A t \in Threads : pc[t] \in {"opening", "opened"} => registered = NoHandle

\* What a thread has in hand at each point of its call.
ThreadInv ==
    \A t \in Threads :
        /\ cursor[t] # NoHandle => pc[t] \in WithCursor \cup {"using"}
        /\ pc[t] \in WithCursor => cursor[t] # NoHandle
        /\ own[t] # "closed" => pc[t] \in {"opened", "alone"} \/ (pc[t] = "using" /\ cursor[t] = NoHandle)
        /\ InSchema(t) => pc[t] \in {"opened", "alone", "swapped"}

\* The handle's count of scopes is that of the threads in a batch, all of them on the handle there is.
ScopeInv ==
    /\ \A t \in Threads : scope[t] # NoHandle => scope[t] = registered
    /\ registered # NoHandle =>
        /\ Scoped(registered) # {} /\ scopes[registered] = Cardinality(Scoped(registered))
        /\ broken \/ conn[registered] # "closed"

\* A failed call may leave a handle's count of cursors too high, never too low.
CursorInv == \A h \in Handles : Cardinality(Holders(h)) <= cursors[h]

\* A connection of a handle that was replaced is open only for those who still have a cursor on it.
OpenInv == \A h \in Handles : conn[h] # "closed" => h = registered \/ Holders(h) # {}

StateInv == TypeInv /\ LockInv /\ ThreadInv
PoolInv == ScopeInv /\ CursorInv /\ OpenInv /\ CursorsStayLive

-----------------------------------------------------------------------------
(* Counting *)

LEMMA Counts ==
    ASSUME NEW h
    PROVE  /\ IsFiniteSet(Holders(h)) /\ Cardinality(Holders(h)) \in Nat
           /\ IsFiniteSet(Scoped(h)) /\ Cardinality(Scoped(h)) \in Nat
           /\ Cardinality(Holders(h)) <= Cardinality(Threads) /\ Cardinality(Threads) \in Nat
<1>1. Holders(h) \subseteq Threads /\ Scoped(h) \subseteq Threads
  BY DEF Holders, Scoped
<1> QED
  BY <1>1, CountAssumption, FS_Subset, FS_CardinalityType

\* When a scope is entered there is a handle that nobody uses.
LEMMA SomeUnused ==
    ASSUME TypeInv, ScopeInv, NEW t \in Threads, cursor[t] = NoHandle, registered = NoHandle
    PROVE  /\ NewHandle \in Handles /\ Holders(NewHandle) = {} /\ Scoped(NewHandle) = {}
           /\ \A u \in Threads : cursor[u] # NewHandle
<1> DEFINE rest == Threads \ {t}
           held == {cursor[u] : u \in rest}
           f == [u \in rest |-> cursor[u]]
<1>1. IsFiniteSet(rest) /\ Cardinality(rest) = Cardinality(Threads) - 1 /\ Cardinality(Threads) \in Nat
  BY CountAssumption, FS_RemoveElement, FS_CardinalityType
<1>2. f \in Surjection(rest, held)
  BY DEF Surjection
<1>3. IsFiniteSet(held) /\ Cardinality(held) <= Cardinality(rest)
  BY <1>1, <1>2, FS_Surjection
<1>4. \E h \in Handles : h \notin held
  <2> SUFFICES ASSUME Handles \subseteq held
               PROVE  FALSE
    OBVIOUS
  <2>1. Cardinality(Handles) <= Cardinality(held) /\ Cardinality(held) \in Nat /\ Cardinality(Handles) \in Nat
    BY <1>3, FS_Subset, FS_CardinalityType
  <2> QED
    BY <1>1, <1>3, <2>1, RoomAssumption
<1>5. PICK h \in Handles : h \notin held
  BY <1>4
<1>6. h \in Unused
  <2>1. \A u \in Threads : cursor[u] # h
    BY <1>5, NamesAssumption
  <2>2. \A u \in Threads : scope[u] # h
    BY NamesAssumption DEF ScopeInv
  <2> QED
    BY <2>1, <2>2, NamesAssumption DEF Unused, Holders, Scoped
<1>7. NewHandle \in Unused
  BY <1>6 DEF NewHandle
<1> QED
  BY <1>7 DEF Unused, Holders, Scoped

-----------------------------------------------------------------------------
(* A swap *)

\* What a swap comes to, for its own thread and for the handle.
LEMMA Swapping ==
    ASSUME TypeInv, NEW t \in Threads, cursor[t] # NoHandle, Swap(t)
    PROVE  /\ conn' \in [Handles -> ConnModes]
           /\ \A h \in Handles : h # cursor[t] => conn'[h] = conn[h]
           /\ conn'[cursor[t]] = "closed" => broken'
           /\ broken => broken'
           /\ DOMAIN live' = Threads
           /\ \A u \in Threads \ {t} : cursor[u] # cursor[t] => (live'[u] <=> live[u])
           /\ DOMAIN at' = Threads
           /\ \/ /\ lock' = lock /\ at' = at
                 /\ pc' = [pc EXCEPT ![t] = IF conn'[cursor[t]] = "closed" THEN "using" ELSE "again"]
                 /\ live'[t] <=> conn'[cursor[t]] # "closed"
              \/ lock' = t /\ pc' = [pc EXCEPT ![t] = "swapped"] /\ at' = [at EXCEPT ![t] = 1]
<1> DEFINE h == cursor[t]
           reopened == Opens("rw", (({conn[g] : g \in Handles \ {h}} \cup {own[u] : u \in Threads})
                                     \ {"closed"}))
           others == [u \in Threads |-> live[u] /\ cursor[u] # h]
<1>1. h \in Handles
  BY DEF TypeInv
<1>2. /\ conn' = [conn EXCEPT ![h] = IF reopened THEN "rw" ELSE "closed"]
      /\ broken' = (broken \/ ~reopened)
      /\ IF reopened /\ ~UpToDate(disk)
         THEN live' = others /\ lock' = t /\ Prepare(t, "swapped")
         ELSE NewCursor(t, others) /\ UNCHANGED <<lock, file>>
  BY DEF Swap
<1> HIDE DEF h, reopened
<1>3. /\ conn' \in [Handles -> ConnModes]
      /\ \A g \in Handles : g # h => conn'[g] = conn[g]
      /\ conn'[h] = "closed" => broken'
      /\ broken => broken'
  BY <1>1, <1>2 DEF TypeInv, ConnModes
<1>4. CASE reopened /\ ~UpToDate(disk)
  <2>1. live' = others /\ lock' = t /\ Prepare(t, "swapped")
    BY <1>2, <1>4
  <2>2. DOMAIN live' = Threads /\ \A u \in Threads \ {t} : cursor[u] # h => (live'[u] <=> live[u])
    BY <2>1 DEF h
  <2> QED
    BY <1>3, <2>1, <2>2 DEF Prepare, TypeInv, h
<1>5. CASE ~(reopened /\ ~UpToDate(disk))
  <2>1. NewCursor(t, others) /\ lock' = lock /\ at' = at
    BY <1>2, <1>5 DEF file
  <2>2. /\ DOMAIN live' = Threads /\ (live'[t] <=> conn'[h] # "closed")
        /\ \A u \in Threads \ {t} : cursor[u] # h => (live'[u] <=> live[u])
    BY <2>1 DEF NewCursor, h
  <2> QED
    BY <1>3, <2>1, <2>2 DEF NewCursor, TypeInv, h
<1> QED
  BY <1>4, <1>5

\* Whoever holds a cursor is counted.
LEMMA Counted ==
    ASSUME TypeInv, CursorInv, NEW t \in Threads, cursor[t] # NoHandle
    PROVE  Cardinality(Holders(cursor[t])) >= 1 /\ cursors[cursor[t]] >= 1
<1>1. Holders(cursor[t]) # {} /\ cursor[t] \in Handles
  BY DEF Holders, TypeInv
<1>2. Cardinality(Holders(cursor[t])) # 0
  BY <1>1, Counts, FS_EmptySet
<1>3. Cardinality(Holders(cursor[t])) \in Nat /\ Cardinality(Holders(cursor[t])) <= cursors[cursor[t]]
  BY <1>1, Counts DEF CursorInv
<1> QED
  BY <1>1, <1>2, <1>3 DEF TypeInv

-----------------------------------------------------------------------------
(* Where the threads are *)

LEMMA StateInit == Init => StateInv
<1> SUFFICES ASSUME Init
             PROVE  StateInv
  OBVIOUS
<1>1. users \subseteq Threads
  BY InstancesAssumption DEF Init
<1>2. Fresh
  BY DEF Init
<1>3. TypeInv
  BY <1>1, <1>2 DEF Fresh, TypeInv, ConnModes, Points
<1>4. LockInv /\ ThreadInv
  BY <1>2, NamesAssumption DEF Fresh, LockInv, ThreadInv, WithLock, WithCursor, InSchema
<1> QED
  BY <1>3, <1>4 DEF StateInv

\* The steps of a batch.
LEMMA StateBatch ==
    ASSUME StateInv, ScopeInv, NEW t \in Threads, Batch(t), UNCHANGED users
    PROVE  StateInv'
<1> USE DEF StateInv
<1>1. cursor[t] = NoHandle
  BY DEF Batch, EnterScope, OpenScope, ScopeReady, ExitScope, ThreadInv, WithCursor
<1>2. ASSUME registered = NoHandle, NEW mode \in {"ro", "rw"}, Register(t, NewHandle, mode)
      PROVE  /\ registered' \in Handles /\ conn' \in [Handles -> ConnModes] /\ DOMAIN scopes' = Handles
             /\ cursors' \in [Handles -> Nat] /\ scope' \in [Threads -> Handles \cup {NoHandle}]
  <2>1. NewHandle \in Handles
    BY <1>1, <1>2, SomeUnused
  <2> QED
    BY <1>2, <2>1 DEF Register, TypeInv, ConnModes
<1>3. CASE EnterScope(t)
  <2>1. /\ pc[t] = "idle" /\ lock = Nobody /\ UNCHANGED <<cursor, live, own, at>>
        /\ \/ pc' = pc /\ lock' = lock
           \/ registered = NoHandle /\ registered' = registered /\ pc' = [pc EXCEPT ![t] = "opening"] /\ lock' = t
    BY <1>3 DEF EnterScope, handleVars, file
  <2>2. TypeInv'
    <3>1. \/ UNCHANGED <<registered, conn, cursors>> /\ DOMAIN scopes' = Handles
             /\ scope' \in [Threads -> Handles \cup {NoHandle}]
          \/ registered = NoHandle /\ Register(t, NewHandle, "ro")
      BY <1>3 DEF EnterScope, TypeInv, handleVars
    <3> QED
      BY <1>2, <2>1, <3>1 DEF TypeInv, Points, WithLock
  <2>3. LockInv'
    BY <2>1, NamesAssumption DEF LockInv, TypeInv, WithLock
  <2>4. ThreadInv'
    BY <1>1, <2>1 DEF ThreadInv, TypeInv, WithCursor, InSchema
  <2> QED
    BY <2>2, <2>3, <2>4
<1>4. CASE OpenScope(t)
  <2>1. /\ pc[t] = "opening" /\ lock = t /\ registered = NoHandle /\ UNCHANGED <<cursor, live>>
    BY <1>4 DEF OpenScope, LockInv, WithLock
  <2>2. CASE /\ own' = [own EXCEPT ![t] = "rw"] /\ Prepare(t, "opened")
             /\ UNCHANGED <<handleVars, scope, lock>>
    <3>1. /\ pc' = [pc EXCEPT ![t] = "opened"] /\ at' = [at EXCEPT ![t] = 1]
          /\ UNCHANGED <<registered, conn, scopes, cursors, scope, lock>>
      BY <2>2 DEF Prepare, handleVars
    <3>2. TypeInv'
      BY <1>4, <2>1, <2>2, <3>1 DEF TypeInv, Points, WithLock, ConnModes
    <3>3. LockInv'
      BY <2>1, <3>1 DEF LockInv, TypeInv, WithLock
    <3>4. ThreadInv'
      BY <1>1, <2>1, <2>2, <3>1 DEF ThreadInv, TypeInv, WithCursor, InSchema
    <3> QED
      BY <3>2, <3>3, <3>4
  <2>3. CASE /\ IF Opens("rw", Modes)
                THEN UpToDate(disk) /\ Register(t, NewHandle, "rw")
                ELSE UNCHANGED <<handleVars, scope>>
             /\ lock' = Nobody /\ pc' = [pc EXCEPT ![t] = "idle"] /\ UNCHANGED <<own, file>>
    <3>1. at' = at /\ own' = own /\ lock' = Nobody /\ pc' = [pc EXCEPT ![t] = "idle"]
      BY <2>3 DEF file
    <3>2. TypeInv'
      <4>1. UNCHANGED <<registered, conn, scopes, cursors, scope>> \/ Register(t, NewHandle, "rw")
        BY <2>3 DEF handleVars
      <4> QED
        BY <1>2, <2>1, <3>1, <4>1, <1>4 DEF TypeInv, Points
    <3>3. LockInv'
      BY <2>1, <3>1, NamesAssumption DEF LockInv, TypeInv, WithLock
    <3>4. ThreadInv'
      BY <1>1, <2>1, <3>1 DEF ThreadInv, TypeInv, WithCursor, InSchema
    <3> QED
      BY <3>2, <3>3, <3>4
  <2> QED
    BY <1>4, <2>2, <2>3 DEF OpenScope
<1>5. CASE ScopeReady(t)
  <2>1. /\ pc[t] = "opened" /\ lock = t /\ registered = NoHandle /\ UNCHANGED <<cursor, live>>
        /\ Register(t, NewHandle, "rw") /\ own' = [own EXCEPT ![t] = "closed"]
        /\ at' = [at EXCEPT ![t] = 0] /\ lock' = Nobody /\ pc' = [pc EXCEPT ![t] = "idle"]
    BY <1>5 DEF ScopeReady, LockInv, WithLock
  <2>2. TypeInv'
    BY <1>2, <2>1 DEF TypeInv, Points, ConnModes
  <2>3. LockInv'
    BY <2>1, NamesAssumption DEF LockInv, TypeInv, WithLock
  <2>4. ThreadInv'
    BY <1>1, <2>1 DEF ThreadInv, TypeInv, WithCursor, InSchema
  <2> QED
    BY <2>2, <2>3, <2>4
<1>6. CASE ExitScope(t)
  <2>1. /\ lock = Nobody /\ scope[t] \in Handles /\ UNCHANGED <<cursors, lock, pc, cursor, own, at>>
        /\ scope' = [scope EXCEPT ![t] = NoHandle] /\ DOMAIN scopes' = Handles
        /\ \/ registered' = registered /\ conn' = conn /\ live' = live
           \/ /\ registered' = NoHandle /\ conn' = [conn EXCEPT ![scope[t]] = "closed"]
              /\ DOMAIN live' = Threads
    BY <1>6 DEF ExitScope, TypeInv, file, DropCursors
  <2>2. TypeInv'
    BY <2>1 DEF TypeInv, ConnModes
  <2>3. LockInv'
    BY <2>1, NamesAssumption DEF LockInv, WithLock
  <2>4. ThreadInv'
    BY <2>1 DEF ThreadInv, InSchema
  <2> QED
    BY <2>2, <2>3, <2>4
<1> QED
  BY <1>3, <1>4, <1>5, <1>6 DEF Batch

\* The steps of a call that leave the handles as they are: one thread goes on, with or without the lock.
Moves(t, point, mode) ==
    /\ UNCHANGED <<registered, conn, scopes, cursors, scope, cursor, live, users>>
    /\ pc' = [pc EXCEPT ![t] = point]
    /\ at' \in {at, [at EXCEPT ![t] = 0], [at EXCEPT ![t] = 1]}
    /\ own' = [own EXCEPT ![t] = mode]
    /\ lock' = IF lock = t THEN Nobody ELSE lock
    /\ point \in Points \ WithLock /\ mode \in ConnModes
    /\ cursor[t] # NoHandle => point \in WithCursor \cup {"using"}
    /\ point \in WithCursor => cursor[t] # NoHandle
    /\ mode # "closed" => point = "alone" \/ (point = "using" /\ cursor[t] = NoHandle)
    /\ InSchema(t)' => point = "alone"

LEMMA StateMoves ==
    ASSUME StateInv, NEW t \in Threads, NEW point, NEW mode, Moves(t, point, mode)
    PROVE  StateInv'
<1> USE DEF StateInv, Moves
<1>1. TypeInv'
  BY DEF TypeInv
<1>2. LockInv'
  BY NamesAssumption DEF LockInv, TypeInv, WithLock
<1>3. ThreadInv'
  BY DEF ThreadInv, TypeInv, InSchema
<1> QED
  BY <1>1, <1>2, <1>3

\* The swap itself, and the steps that come back from one.
LEMMA StateSwap ==
    ASSUME StateInv, NEW t \in Threads, pc[t] \in {"upgrade", "drain"}, lock = Nobody, Swap(t),
           UNCHANGED <<registered, scopes, cursors, scope, cursor, own, users>>
    PROVE  StateInv'
<1> USE DEF StateInv
<1>1. cursor[t] # NoHandle /\ own[t] = "closed" /\ ~InSchema(t)
  BY DEF ThreadInv, WithCursor, TypeInv
<1>2. /\ conn' \in [Handles -> ConnModes] /\ DOMAIN live' = Threads /\ DOMAIN at' = Threads
      /\ \/ lock' = lock /\ at' = at /\ \E p \in {"using", "again"} : pc' = [pc EXCEPT ![t] = p]
         \/ lock' = t /\ pc' = [pc EXCEPT ![t] = "swapped"] /\ at' = [at EXCEPT ![t] = 1]
  BY <1>1, Swapping
<1>3. TypeInv'
  BY <1>2 DEF TypeInv, Points, WithCursor
<1>4. LockInv'
  BY <1>2, NamesAssumption DEF LockInv, TypeInv, WithLock
<1>5. ThreadInv'
  BY <1>1, <1>2 DEF ThreadInv, TypeInv, WithCursor, InSchema
<1> QED
  BY <1>3, <1>4, <1>5

LEMMA StateCursor ==
    ASSUME StateInv, NEW t \in Threads, pc[t] \in {"upgrade", "swapped"}, NewCursor(t, live),
           UNCHANGED <<registered, conn, scopes, cursors, scope, cursor, own, users>>,
           lock' = IF lock = t THEN Nobody ELSE lock,
           \/ pc[t] = "upgrade" /\ at' = at
           \/ at' = [at EXCEPT ![t] = 0]
    PROVE  StateInv'
<1> USE DEF StateInv
<1>1. cursor[t] # NoHandle /\ own[t] = "closed"
  BY DEF ThreadInv, WithCursor
<1>2. /\ DOMAIN live' = Threads
      /\ \E p \in {"using", "again"} : pc' = [pc EXCEPT ![t] = p]
  BY DEF NewCursor, TypeInv
<1>3. TypeInv'
  BY <1>2 DEF TypeInv, Points, WithCursor
<1>4. LockInv'
  BY <1>2, NamesAssumption DEF LockInv, TypeInv, WithLock
<1>5. ThreadInv'
  BY <1>1, <1>2 DEF ThreadInv, TypeInv, WithCursor, InSchema
<1> QED
  BY <1>3, <1>4, <1>5

\* The steps of a call.
LEMMA StateCall ==
    ASSUME StateInv, CursorInv, NEW t \in Threads, Call(t), UNCHANGED users
    PROVE  StateInv'
<1> USE DEF StateInv
<1>1. CASE ConnectShared(t)
  <2>1. /\ pc[t] = "idle" /\ cursor[t] = NoHandle /\ own[t] = "closed" /\ ~InSchema(t)
        /\ registered \in Handles /\ UNCHANGED <<registered, conn, scopes, scope, lock, own, at>>
        /\ cursors' \in [Handles -> Nat]
    BY <1>1, CountAssumption DEF ConnectShared, ThreadInv, TypeInv, WithCursor, file
  <2>2. \/ UNCHANGED <<pc, cursor, live>>
        \/ /\ pc' = [pc EXCEPT ![t] = "using"] /\ cursor' = [cursor EXCEPT ![t] = registered]
           /\ DOMAIN live' = Threads
    BY <1>1 DEF ConnectShared, TypeInv
  <2>3. TypeInv'
    BY <2>1, <2>2 DEF TypeInv, Points
  <2>4. LockInv'
    BY <2>1, <2>2 DEF LockInv, TypeInv, WithLock
  <2>5. ThreadInv'
    BY <2>1, <2>2 DEF ThreadInv, TypeInv, WithCursor, InSchema
  <2> QED
    BY <2>3, <2>4, <2>5
<1>2. CASE ConnectAlone(t) \/ OpenAlone(t) \/ AloneReady(t) \/ OpenFallback(t)
  <2>1. /\ pc[t] \in {"idle", "direct", "alone", "fallback"} /\ cursor[t] = NoHandle
        /\ lock # t
        /\ UNCHANGED <<registered, conn, scopes, cursors, scope, cursor, live, lock>>
    BY <1>2 DEF ConnectAlone, OpenAlone, AloneReady, OpenFallback, ThreadInv, LockInv, WithCursor, WithLock,
                handleVars
  <2>2. CASE ConnectAlone(t)
    <3>1. /\ pc' = [pc EXCEPT ![t] = "direct"] /\ at' = at /\ own' = [own EXCEPT ![t] = "closed"]
          /\ ~InSchema(t)'
      BY <2>2 DEF ConnectAlone, ThreadInv, TypeInv, file, InSchema
    <3>2. Moves(t, "direct", "closed")
      BY <2>1, <3>1 DEF Moves, Points, WithLock, WithCursor, ConnModes
    <3> QED
      BY <3>2, StateMoves
  <2>3. CASE OpenAlone(t)
    <3>1. pc[t] = "direct" /\ own[t] = "closed" /\ ~InSchema(t)
      BY <2>3 DEF OpenAlone, ThreadInv
    <3>2. \/ /\ pc' = [pc EXCEPT ![t] = "using"] /\ at' = at /\ own' = [own EXCEPT ![t] = "rw"]
          \/ /\ pc' = [pc EXCEPT ![t] = "alone"] /\ at' = [at EXCEPT ![t] = 1] /\ own' = [own EXCEPT ![t] = "rw"]
          \/ /\ pc' = [pc EXCEPT ![t] = "fallback"] /\ at' = at /\ own' = [own EXCEPT ![t] = "closed"]
      BY <2>3, <3>1 DEF OpenAlone, Prepare, file, TypeInv
    <3>3. at' = at => ~InSchema(t)'
      BY <3>1 DEF InSchema
    <3>4. Moves(t, "using", "rw") \/ Moves(t, "alone", "rw") \/ Moves(t, "fallback", "closed")
      BY <2>1, <3>2, <3>3 DEF Moves, Points, WithLock, WithCursor, ConnModes
    <3> QED
      BY <3>4, StateMoves
  <2>4. CASE AloneReady(t)
    <3>1. /\ pc' = [pc EXCEPT ![t] = "using"] /\ at' = [at EXCEPT ![t] = 0]
          /\ own' = [own EXCEPT ![t] = own[t]] /\ own[t] \in ConnModes
          /\ ~InSchema(t)'
      BY <2>4 DEF AloneReady, TypeInv, InSchema
    <3>2. Moves(t, "using", own[t])
      BY <2>1, <3>1 DEF Moves, Points, WithLock, WithCursor, ConnModes
    <3> QED
      BY <3>2, StateMoves
  <2>5. CASE OpenFallback(t)
    <3>1. pc[t] = "fallback" /\ own[t] = "closed" /\ ~InSchema(t)
      BY <2>5 DEF OpenFallback, ThreadInv
    <3>2. /\ at' = at
          /\ \/ pc' = [pc EXCEPT ![t] = "using"] /\ own' = [own EXCEPT ![t] = "ro"]
             \/ pc' = [pc EXCEPT ![t] = "idle"] /\ own' = [own EXCEPT ![t] = "closed"]
      BY <2>5, <3>1 DEF OpenFallback, file, TypeInv
    <3>3. ~InSchema(t)'
      BY <3>1, <3>2 DEF InSchema
    <3>4. Moves(t, "using", "ro") \/ Moves(t, "idle", "closed")
      BY <2>1, <3>2, <3>3 DEF Moves, Points, WithLock, WithCursor, ConnModes
    <3> QED
      BY <3>4, StateMoves
  <2> QED
    BY <1>2, <2>2, <2>3, <2>4, <2>5
<1>3. CASE Write(t) \/ Again(t)
  <2>1. /\ cursor[t] # NoHandle /\ own[t] = "closed" /\ ~InSchema(t) /\ lock # t
        /\ UNCHANGED <<registered, conn, scopes, cursors, scope, cursor, live, lock, own, at>>
    BY <1>3 DEF Write, Again, ThreadInv, LockInv, WithCursor, WithLock, handleVars, file
  <2>2. \/ pc' = [pc EXCEPT ![t] = "upgrade"]
        \/ pc' = [pc EXCEPT ![t] = "using"]
    BY <1>3 DEF Write, Again
  <2>3. own' = [own EXCEPT ![t] = "closed"] /\ ~InSchema(t)'
    BY <2>1 DEF TypeInv, InSchema
  <2>4. Moves(t, "upgrade", "closed") \/ Moves(t, "using", "closed")
    BY <2>1, <2>2, <2>3 DEF Moves, Points, WithLock, WithCursor, ConnModes
  <2> QED
    BY <2>4, StateMoves
<1>4. CASE Upgrade(t)
  <2>1. /\ pc[t] = "upgrade" /\ lock = Nobody /\ UNCHANGED <<registered, scopes, cursors, scope, cursor, own>>
        /\ cursor[t] # NoHandle /\ own[t] = "closed" /\ ~InSchema(t) /\ lock # t
    BY <1>4, NamesAssumption DEF Upgrade, ThreadInv, WithCursor
  <2>2. CASE Swap(t)
    BY <2>1, <2>2, StateSwap
  <2>3. CASE pc' = [pc EXCEPT ![t] = "drain"] /\ UNCHANGED <<conn, readOnly, live, lock, file, history>>
    <3>1. at' = at /\ own' = [own EXCEPT ![t] = "closed"] /\ ~InSchema(t)'
      BY <2>1, <2>3 DEF TypeInv, InSchema, file
    <3>2. Moves(t, "drain", "closed")
      BY <2>1, <2>3, <3>1 DEF Moves, Points, WithLock, WithCursor, ConnModes
    <3> QED
      BY <3>2, StateMoves
  <2>4. CASE UNCHANGED <<conn, readOnly, lock, file, history>> /\ NewCursor(t, live)
    <3>1. at' = at
      BY <2>4 DEF file
    <3> QED
      BY <2>1, <2>4, <3>1, StateCursor
  <2> QED
    BY <1>4, <2>2, <2>3, <2>4 DEF Upgrade
<1>5. CASE EndDrain(t)
  BY <1>5, StateSwap DEF EndDrain
<1>6. CASE SwapReady(t)
  <2>1. lock = t
    BY <1>6 DEF SwapReady, LockInv, WithLock
  <2> QED
    BY <1>6, <2>1, StateCursor DEF SwapReady
<1>7. CASE Close(t)
  <2>1. /\ pc[t] = "using" /\ lock # t /\ ~InSchema(t) /\ pc' = [pc EXCEPT ![t] = "idle"]
        /\ UNCHANGED <<registered, scopes, lock, scope, at>>
    BY <1>7 DEF Close, ThreadInv, LockInv, WithLock, file
  <2>2. CASE cursor[t] # NoHandle
    <3>1. /\ cursor[t] \in Handles /\ cursors' = Released(cursor[t]) /\ own' = own
          /\ conn' \in [Handles -> ConnModes] /\ cursor' = [cursor EXCEPT ![t] = NoHandle]
          /\ DOMAIN live' = Threads /\ own[t] = "closed"
      BY <1>7, <2>1, <2>2 DEF Close, TypeInv, ConnModes, ThreadInv
    <3>2. cursors' \in [Handles -> Nat]
      BY <2>2, <3>1, Counted DEF Released, TypeInv
    <3>3. TypeInv'
      BY <2>1, <3>1, <3>2 DEF TypeInv, Points
    <3>4. LockInv'
      BY <2>1 DEF LockInv, TypeInv, WithLock
    <3>5. ThreadInv'
      BY <2>1, <3>1 DEF ThreadInv, TypeInv, WithCursor, InSchema
    <3> QED
      BY <3>3, <3>4, <3>5
  <2>3. CASE cursor[t] = NoHandle
    <3>1. UNCHANGED <<cursors, conn, cursor, live>> /\ own' = [own EXCEPT ![t] = "closed"]
      BY <1>7, <2>3 DEF Close
    <3>2. ~InSchema(t)'
      BY <2>1 DEF InSchema
    <3>3. Moves(t, "idle", "closed")
      BY <2>1, <2>3, <3>1, <3>2 DEF Moves, Points, WithLock, WithCursor, ConnModes
    <3> QED
      BY <3>3, StateMoves
  <2> QED
    BY <2>2, <2>3
<1> QED
  BY <1>1, <1>2, <1>3, <1>4, <1>5, <1>6, <1>7 DEF Call

\* The steps of initialize_schema, its end in an exception or a crash, and what other processes do.
LEMMA StateSchema ==
    ASSUME StateInv, UNCHANGED users,
           \/ Stranger \/ Crash \/ UNCHANGED vars
           \/ \E t \in Threads : Statement(t) \/ StatementRaises(t)
    PROVE  StateInv'
<1> USE DEF StateInv
<1>1. CASE Stranger \/ (\E t \in Threads : Statement(t)) \/ UNCHANGED vars
  <2>1. /\ UNCHANGED <<handleVars, lock, threadVars>>
        /\ at' = at \/ \E t \in Threads : InSchema(t) /\ \E n : at' = [at EXCEPT ![t] = n]
    BY <1>1 DEF Stranger, Statement, vars, file
  <2>2. TypeInv'
    BY <2>1 DEF TypeInv, handleVars, threadVars
  <2>3. LockInv'
    BY <2>1 DEF LockInv, handleVars, threadVars
  <2>4. ThreadInv'
    BY <2>1 DEF ThreadInv, TypeInv, InSchema, threadVars
  <2> QED
    BY <2>2, <2>3, <2>4
<1>2. CASE Crash
  <2>1. TypeInv'
    BY <1>2 DEF Crash, TypeInv, ConnModes, Points
  <2>2. LockInv' /\ ThreadInv'
    BY <1>2, NamesAssumption DEF Crash, LockInv, ThreadInv, WithLock, WithCursor, InSchema
  <2> QED
    BY <2>1, <2>2
<1>3. ASSUME NEW t \in Threads, StatementRaises(t)
      PROVE  StateInv'
  <2>1. /\ pc[t] \in {"opened", "alone", "swapped"}
        /\ UNCHANGED <<registered, conn, scopes, cursors, scope, cursor, live>>
        /\ at' = [at EXCEPT ![t] = 0] /\ own' = [own EXCEPT ![t] = "closed"]
        /\ lock' = IF lock = t THEN Nobody ELSE lock
        /\ pc' = [pc EXCEPT ![t] = IF pc[t] = "swapped" THEN "using" ELSE "idle"]
    BY <1>3 DEF StatementRaises, ThreadInv, handleVars
  <2>2. (cursor[t] # NoHandle => pc[t] = "swapped") /\ ~InSchema(t)'
    BY <2>1 DEF ThreadInv, WithCursor, TypeInv, InSchema
  <2>3. Moves(t, IF pc[t] = "swapped" THEN "using" ELSE "idle", "closed")
    BY <2>1, <2>2 DEF Moves, Points, WithLock, WithCursor, ConnModes
  <2> QED
    BY <2>3, StateMoves
<1> QED
  BY <1>1, <1>2, <1>3

-----------------------------------------------------------------------------
(* What the handles count, and who may use their connections *)

LEMMA PoolInit == Init => PoolInv
<1> SUFFICES ASSUME Init
             PROVE  PoolInv
  OBVIOUS
<1>1. Fresh
  BY DEF Init
<1>2. \A h \in Handles : Holders(h) = {}
  BY <1>1, NamesAssumption DEF Fresh, Holders
<1>3. ScopeInv /\ OpenInv /\ CursorsStayLive
  BY <1>1 DEF Fresh, ScopeInv, OpenInv, CursorsStayLive
<1>4. CursorInv
  <2>1. \A h \in Handles : Cardinality(Holders(h)) = 0
    BY <1>2, FS_EmptySet, Zenon
  <2>2. \A h \in Handles : cursors[h] = 0
    BY <1>1 DEF Fresh
  <2> QED
    BY <2>1, <2>2 DEF CursorInv
<1> QED
  BY <1>3, <1>4 DEF PoolInv

\* A step that leaves handles, scopes and cursors alone.
Bystands ==
    /\ UNCHANGED <<registered, conn, scopes, cursors, scope, cursor, live, hurried>>
    /\ broken => broken'
    /\ \A u \in Threads : pc[u] = "swapped" => pc'[u] = "swapped" \/ broken'

LEMMA PoolBystands == StateInv /\ PoolInv /\ Bystands => PoolInv'
<1> SUFFICES ASSUME StateInv, PoolInv, Bystands
             PROVE  PoolInv'
  OBVIOUS
<1> USE DEF PoolInv, Bystands
<1>1. ScopeInv'
  BY DEF ScopeInv, Scoped
<1>2. CursorInv' /\ OpenInv'
  BY DEF CursorInv, OpenInv, Holders
<1>3. CursorsStayLive'
  BY DEF CursorsStayLive
<1> QED
  BY <1>1, <1>2, <1>3

\* A scope that finds no handle opens one.
Opening(t, mode) ==
    /\ registered = NoHandle /\ cursor[t] = NoHandle
    /\ Register(t, NewHandle, mode)
    /\ UNCHANGED <<cursor, live, broken, hurried>>

LEMMA PoolOpening ==
    ASSUME StateInv, PoolInv, NEW t \in Threads, NEW mode \in {"ro", "rw"}, Opening(t, mode)
    PROVE  PoolInv'
<1> USE DEF StateInv, PoolInv, Opening
<1> PICK h : h = NewHandle
  OBVIOUS
<1>1. h \in Handles /\ Holders(h) = {} /\ Scoped(h) = {}
  BY SomeUnused
<1>2. /\ registered' = h /\ conn'[h] = mode /\ scopes'[h] = 1 /\ cursors'[h] = 0
      /\ \A g \in Handles \ {h} : conn'[g] = conn[g] /\ cursors'[g] = cursors[g]
      /\ scope' = [scope EXCEPT ![t] = h]
  BY <1>1 DEF Register, TypeInv
<1>3. \A u \in Threads : u # t => scope'[u] = NoHandle
  BY <1>2, NamesAssumption DEF ScopeInv, TypeInv
<1>4. ScopeInv'
  <2>1. Scoped(h)' = {t}
    BY <1>1, <1>2, <1>3, NamesAssumption DEF Scoped, TypeInv
  <2>2. scopes'[h] = Cardinality({t})
    BY <1>2, FS_Singleton
  <2> QED
    BY <1>2, <1>3, <2>1, <2>2 DEF ScopeInv, TypeInv
<1>5. CursorInv'
  <2>1. \A g \in Handles : Holders(g)' = Holders(g)
    BY DEF Holders
  <2>2. Cardinality(Holders(h)) = 0
    BY <1>1, FS_EmptySet
  <2> QED
    BY <1>1, <1>2, <2>1, <2>2 DEF CursorInv
<1>6. OpenInv'
  BY <1>2 DEF OpenInv, Holders
<1>7. CursorsStayLive'
  BY <1>3 DEF CursorsStayLive
<1> QED
  BY <1>4, <1>5, <1>6, <1>7

\* Two threads are counted as two.
LEMMA PairCount ==
    ASSUME NEW a, NEW b, a # b
    PROVE  Cardinality({a, b}) = 2
<1>1. IsFiniteSet({a}) /\ Cardinality({a}) = 1 /\ b \notin {a}
  BY FS_Singleton
<1>2. Cardinality({a} \cup {b}) = Cardinality({a}) + 1
  BY <1>1, FS_AddElement
<1>3. {a} \cup {b} = {a, b}
  OBVIOUS
<1> QED
  BY <1>1, <1>2, <1>3

\* A scope that joins the handle there is.
LEMMA PoolJoining ==
    ASSUME StateInv, PoolInv, NEW t \in Threads, registered # NoHandle, scope[t] = NoHandle, cursor[t] = NoHandle,
           scopes' = [scopes EXCEPT ![registered] = @ + 1], scope' = [scope EXCEPT ![t] = registered],
           UNCHANGED <<registered, conn, cursors, pc, cursor, live, broken, hurried>>
    PROVE  PoolInv'
<1> USE DEF StateInv, PoolInv
<1>1. Scoped(registered)' = Scoped(registered) \cup {t} /\ t \notin Scoped(registered)
  BY DEF Scoped, TypeInv
<1>2. Cardinality(Scoped(registered) \cup {t}) = Cardinality(Scoped(registered)) + 1
  BY <1>1, Counts, FS_AddElement
<1>3. scopes'[registered] = Cardinality(Scoped(registered)) + 1
  BY DEF ScopeInv, TypeInv
<1>4. ScopeInv'
  BY <1>1, <1>2, <1>3 DEF ScopeInv, TypeInv
<1>5. CursorInv' /\ OpenInv'
  BY DEF CursorInv, OpenInv, Holders
<1>6. CursorsStayLive'
  BY DEF CursorsStayLive, TypeInv
<1> QED
  BY <1>4, <1>5, <1>6

\* The last scope out closes the handle; nobody else is in a batch then.
LEMMA PoolLeaving ==
    ASSUME StateInv, PoolInv, NEW t \in Threads, ExitScope(t)
    PROVE  PoolInv'
<1> USE DEF StateInv, PoolInv
<1> PICK h : h = scope[t]
  OBVIOUS
<1>1. h \in Handles /\ h = registered /\ h # NoHandle /\ cursor[t] = NoHandle
  BY DEF ExitScope, ScopeInv, TypeInv, ThreadInv, WithCursor
<1>2. /\ UNCHANGED <<cursors, pc, cursor, broken, hurried>>
      /\ scope' = [scope EXCEPT ![t] = NoHandle] /\ scopes'[h] = scopes[h] - 1
  BY <1>1 DEF ExitScope, history, TypeInv
<1>3. Scoped(h)' = Scoped(h) \ {t} /\ t \in Scoped(h)
  BY <1>1, <1>2 DEF Scoped, TypeInv
<1>4. Cardinality(Scoped(h) \ {t}) = Cardinality(Scoped(h)) - 1 /\ scopes[h] = Cardinality(Scoped(h))
  BY <1>1, <1>3, Counts, FS_RemoveElement DEF ScopeInv
<1>5. CursorInv'
  BY <1>2 DEF CursorInv, Holders
<1>6. CASE scopes[h] = 1
  <2>1. registered' = NoHandle /\ conn' = [conn EXCEPT ![h] = "closed"]
    BY <1>6 DEF ExitScope, ClosesLast
  <2>2. Scoped(h)' = {}
    <3>1. IsFiniteSet(Scoped(h) \ {t}) /\ Cardinality(Scoped(h) \ {t}) = 0
      BY <1>4, <1>6, Counts, FS_RemoveElement
    <3> QED
      BY <1>3, <3>1, FS_EmptySet
  <2>3. \A u \in Threads : scope'[u] = NoHandle
    <3>1. \A u \in Threads : u # t /\ scope[u] # NoHandle => u \in Scoped(h)'
      BY <1>1, <1>2 DEF ScopeInv, Scoped, TypeInv
    <3> QED
      BY <1>2, <2>2, <3>1 DEF TypeInv
  <2>4. ScopeInv'
    BY <2>1, <2>3 DEF ScopeInv
  <2>5. OpenInv'
    BY <1>1, <1>2, <2>1 DEF OpenInv, Holders, TypeInv
  <2>6. CursorsStayLive'
    BY <2>3 DEF CursorsStayLive
  <2> QED
    BY <1>5, <2>4, <2>5, <2>6
<1>7. CASE scopes[h] # 1
  <2>1. UNCHANGED <<registered, conn, live>>
    BY <1>7 DEF ExitScope, ClosesLast
  <2>2. Scoped(h)' # {}
    <3>1. Cardinality(Scoped(h) \ {t}) # 0
      BY <1>4, <1>7, Counts
    <3> QED
      BY <1>3, <3>1, FS_EmptySet
  <2>3. \A u \in Threads : scope'[u] # NoHandle => scope'[u] = scope[u]
    BY <1>2 DEF TypeInv
  <2>4. scopes'[registered'] = Cardinality(Scoped(registered)') /\ Scoped(registered)' # {}
    BY <1>1, <1>2, <1>3, <1>4, <2>1, <2>2
  <2>5. ScopeInv'
    BY <1>1, <1>2, <2>1, <2>3, <2>4 DEF ScopeInv
  <2>6. OpenInv'
    BY <1>2, <2>1 DEF OpenInv, Holders
  <2>7. CursorsStayLive'
    BY <1>2, <2>1, <2>3 DEF CursorsStayLive
  <2> QED
    BY <1>5, <2>5, <2>6, <2>7
<1> QED
  BY <1>6, <1>7

\* A call takes a cursor onto the handle there is, or fails for its connection is closed.
LEMMA PoolConnect ==
    ASSUME StateInv, PoolInv, NEW t \in Threads, ConnectShared(t)
    PROVE  PoolInv'
<1> USE DEF StateInv, PoolInv
<1> PICK h : h = registered
  OBVIOUS
<1>1. /\ h \in Handles /\ cursor[t] = NoHandle /\ cursors[h] \in Nat
      /\ UNCHANGED <<registered, conn, scopes, scope, broken, hurried>>
      /\ cursors' = [cursors EXCEPT ![h] = IF cursors[h] = MaxCount THEN cursors[h] ELSE cursors[h] + 1]
  BY DEF ConnectShared, TypeInv, ThreadInv, WithCursor, history
<1>2. ScopeInv'
  BY <1>1 DEF ScopeInv, Scoped
<1>3. CASE conn[h] = "closed"
  <2>1. UNCHANGED <<pc, cursor, live>>
    BY <1>3 DEF ConnectShared
  <2>2. CursorInv'
    <3>1. \A g \in Handles : cursors'[g] >= cursors[g] /\ cursors[g] \in Nat
      BY <1>1 DEF TypeInv
    <3>2. \A g \in Handles : Cardinality(Holders(g)) \in Nat
      BY Counts
    <3>3. \A g \in Handles : Holders(g)' = Holders(g) /\ cursors'[g] \in Nat
      BY <1>1, <2>1, CountAssumption DEF Holders, TypeInv
    <3>4. \A g \in Handles : Cardinality(Holders(g)') = Cardinality(Holders(g))
      BY <3>3, Zenon
    <3> QED
      BY <3>1, <3>2, <3>3, <3>4 DEF CursorInv
  <2>3. OpenInv' /\ CursorsStayLive'
    BY <1>1, <2>1 DEF OpenInv, CursorsStayLive, Holders
  <2> QED
    BY <1>2, <2>2, <2>3
<1>4. CASE conn[h] # "closed"
  <2>1. /\ cursor' = [cursor EXCEPT ![t] = h] /\ live' = [live EXCEPT ![t] = TRUE]
        /\ pc' = [pc EXCEPT ![t] = "using"]
    BY <1>4 DEF ConnectShared
  <2>2. /\ Holders(h)' = Holders(h) \cup {t} /\ t \notin Holders(h)
        /\ \A g \in Handles : g # h => Holders(g)' = Holders(g)
    BY <1>1, <2>1, NamesAssumption DEF Holders, TypeInv
  <2>3. CursorInv'
    <3> SUFFICES ASSUME NEW g \in Handles
                 PROVE  Cardinality(Holders(g)') <= cursors'[g]
      BY DEF CursorInv
    <3>1. CASE g # h
      BY <1>1, <2>2, <3>1 DEF CursorInv, TypeInv
    <3>2. CASE g = h
      <4>1. Cardinality(Holders(h) \cup {t}) = Cardinality(Holders(h)) + 1
        BY <2>2, Counts, FS_AddElement
      <4>2. Cardinality(Holders(h) \cup {t}) <= Cardinality(Threads)
        <5>1. Holders(h) \cup {t} \subseteq Threads
          BY DEF Holders
        <5> QED
          BY <5>1, CountAssumption, FS_Subset
      <4>3. Cardinality(Holders(h)) <= cursors[h] /\ Cardinality(Holders(h)) \in Nat /\ Cardinality(Threads) \in Nat
        BY <1>1, Counts DEF CursorInv
      <4>4. cursors'[h] = IF cursors[h] = MaxCount THEN MaxCount ELSE cursors[h] + 1
        BY <1>1 DEF TypeInv
      <4> QED
        BY <1>1, <2>2, <3>2, <4>1, <4>2, <4>3, <4>4, CountAssumption, RoomAssumption
    <3> QED
      BY <3>1, <3>2
  <2>4. OpenInv'
    BY <1>1, <2>2 DEF OpenInv
  <2>5. CursorsStayLive'
    <3> SUFFICES ASSUME NEW u \in Threads, cursor'[u] # NoHandle, scope'[u] = cursor'[u],
                        pc'[u] # "swapped", ~hurried', ~broken'
                 PROVE  live'[u]
      BY DEF CursorsStayLive
    <3>1. CASE u = t
      BY <2>1, <3>1 DEF TypeInv
    <3>2. CASE u # t
      <4>1. cursor'[u] = cursor[u] /\ pc'[u] = pc[u] /\ (live'[u] <=> live[u])
        BY <2>1, <3>2 DEF TypeInv
      <4> QED
        BY <1>1, <4>1 DEF CursorsStayLive
    <3> QED
      BY <3>1, <3>2
  <2> QED
    BY <1>2, <2>3, <2>4, <2>5
<1> QED
  BY <1>3, <1>4

\* The connection of a handle is swapped: the cursors of others onto it were waited for.
LEMMA PoolSwap ==
    ASSUME StateInv, PoolInv, NEW t \in Threads, cursor[t] # NoHandle, Swap(t),
           UNCHANGED <<registered, scopes, cursors, scope, cursor>>,
           cursors[cursor[t]] <= 1 \/ hurried', hurried => hurried'
    PROVE  PoolInv'
<1> USE DEF StateInv, PoolInv
<1> PICK h : h = cursor[t]
  OBVIOUS
<1>1. h \in Handles
  BY DEF TypeInv
<1>2. /\ \A g \in Handles : g # h => conn'[g] = conn[g]
      /\ conn'[h] = "closed" => broken'
      /\ broken => broken'
      /\ \A u \in Threads \ {t} : cursor[u] # h => (live'[u] <=> live[u])
      /\ \/ /\ pc' = [pc EXCEPT ![t] = IF conn'[h] = "closed" THEN "using" ELSE "again"]
            /\ live'[t] <=> conn'[h] # "closed"
         \/ pc' = [pc EXCEPT ![t] = "swapped"]
  BY Swapping
<1>3. ScopeInv'
  BY <1>1, <1>2 DEF ScopeInv, Scoped, TypeInv
<1>4. CursorInv'
  BY DEF CursorInv, Holders
<1>5. OpenInv'
  <2>1. t \in Holders(h)'
    BY DEF Holders
  <2> QED
    BY <1>2, <2>1 DEF OpenInv, Holders
<1>6. CursorsStayLive'
  <2> SUFFICES ASSUME NEW u \in Threads, cursor[u] # NoHandle, scope[u] = cursor[u],
                      pc'[u] # "swapped", ~hurried', ~broken'
               PROVE  live'[u]
    BY DEF CursorsStayLive
  <2>1. CASE u = t
    BY <1>2, <2>1 DEF TypeInv
  <2>2. CASE u # t /\ cursor[u] # h
    <3>1. pc'[u] = pc[u]
      BY <1>2, <2>2 DEF TypeInv
    <3>2. live[u]
      BY <1>2, <3>1 DEF CursorsStayLive
    <3> QED
      BY <1>2, <2>2, <3>2
  <2>3. CASE u # t /\ cursor[u] = h
    <3>1. {t, u} \subseteq Holders(h)
      BY <2>3 DEF Holders
    <3>2. Cardinality({t, u}) = 2
      BY <2>3, PairCount
    <3>3. Cardinality(Holders(h)) >= 2
      BY <3>1, <3>2, Counts, FS_Subset
    <3>4. cursors[h] \in Nat /\ Cardinality(Holders(h)) \in Nat /\ Cardinality(Holders(h)) <= cursors[h]
      BY <1>1, Counts DEF CursorInv, TypeInv
    <3> QED
      BY <3>3, <3>4
  <2> QED
    BY <2>1, <2>2, <2>3
<1> QED
  BY <1>3, <1>4, <1>5, <1>6

\* A new cursor after a swap, one's own or another thread's.
LEMMA PoolCursor ==
    ASSUME StateInv, PoolInv, NEW t \in Threads, cursor[t] # NoHandle, NewCursor(t, live),
           UNCHANGED <<registered, conn, scopes, cursors, scope, cursor, broken, hurried>>
    PROVE  PoolInv'
<1> USE DEF StateInv, PoolInv
<1>1. ScopeInv'
  BY DEF ScopeInv, Scoped
<1>2. CursorInv' /\ OpenInv'
  BY DEF CursorInv, OpenInv, Holders
<1>3. CursorsStayLive'
  <2> SUFFICES ASSUME NEW u \in Threads, cursor[u] # NoHandle, scope[u] = cursor[u],
                      pc'[u] # "swapped", ~hurried, ~broken
               PROVE  live'[u]
    BY DEF CursorsStayLive
  <2>1. live' = [live EXCEPT ![t] = (conn[cursor[t]] # "closed")]
    BY DEF NewCursor
  <2>2. CASE u = t
    <3>1. conn[cursor[t]] # "closed"
      BY <2>2 DEF ScopeInv
    <3> QED
      BY <2>1, <2>2, <3>1 DEF TypeInv
  <2>3. CASE u # t
    <3>1. pc'[u] = pc[u] /\ (live'[u] <=> live[u])
      BY <2>1, <2>3 DEF NewCursor, TypeInv
    <3> QED
      BY <3>1 DEF CursorsStayLive
  <2> QED
    BY <2>2, <2>3
<1> QED
  BY <1>1, <1>2, <1>3

\* A cursor is given back; with the last one of a handle that was replaced its connection goes too.
LEMMA PoolClose ==
    ASSUME StateInv, PoolInv, NEW t \in Threads, Close(t)
    PROVE  PoolInv'
<1> USE DEF StateInv, PoolInv
<1>1. CASE cursor[t] = NoHandle
  <2>1. Bystands
    BY <1>1 DEF Close, Bystands, history, TypeInv
  <2> QED
    BY <2>1, PoolBystands
<1>2. CASE cursor[t] # NoHandle
  <2> PICK h : h = cursor[t]
    OBVIOUS
  <2>1. /\ h \in Handles /\ UNCHANGED <<registered, scopes, scope, broken, hurried>>
        /\ cursors' = [cursors EXCEPT ![h] = cursors[h] - 1] /\ cursor' = [cursor EXCEPT ![t] = NoHandle]
        /\ live' = [live EXCEPT ![t] = FALSE] /\ pc' = [pc EXCEPT ![t] = "idle"]
        /\ conn' = IF h # registered /\ Scoped(h) = {} /\ Holders(h) = {t}
                   THEN [conn EXCEPT ![h] = "closed"] ELSE conn
    BY <1>2 DEF Close, Released, history, TypeInv
  <2>2. /\ Holders(h)' = Holders(h) \ {t} /\ t \in Holders(h)
        /\ \A g \in Handles : g # h => Holders(g)' = Holders(g)
    BY <1>2, <2>1, NamesAssumption DEF Holders, TypeInv
  <2>3. ScopeInv'
    BY <2>1 DEF ScopeInv, Scoped, TypeInv
  <2>4. CursorInv'
    <3> SUFFICES ASSUME NEW g \in Handles
                 PROVE  Cardinality(Holders(g)') <= cursors'[g]
      BY DEF CursorInv
    <3>1. CASE g # h
      BY <2>1, <2>2, <3>1 DEF CursorInv, TypeInv
    <3>2. CASE g = h
      <4>1. Cardinality(Holders(h) \ {t}) = Cardinality(Holders(h)) - 1
        BY <2>2, Counts, FS_RemoveElement
      <4>2. Cardinality(Holders(h)) <= cursors[h] /\ Cardinality(Holders(h)) \in Nat /\ cursors[h] \in Nat
        BY <2>1, Counts DEF CursorInv, TypeInv
      <4>3. cursors'[h] = cursors[h] - 1
        BY <2>1 DEF TypeInv
      <4> QED
        BY <2>2, <3>2, <4>1, <4>2, <4>3
    <3> QED
      BY <3>1, <3>2
  <2>5. OpenInv'
    <3>1. h # registered => Scoped(h) = {}
      BY <2>1, NamesAssumption DEF Scoped, ScopeInv
    <3>2. Holders(h) # {t} => Holders(h)' # {}
      BY <2>2
    <3> QED
      BY <2>1, <2>2, <3>1, <3>2 DEF OpenInv, TypeInv
  <2>6. CursorsStayLive'
    <3>1. cursor'[t] = NoHandle
      BY <2>1 DEF TypeInv
    <3>2. \A u \in Threads \ {t} : cursor'[u] = cursor[u] /\ pc'[u] = pc[u] /\ (live'[u] <=> live[u])
      BY <2>1 DEF TypeInv
    <3> QED
      BY <2>1, <3>1, <3>2 DEF CursorsStayLive
  <2> QED
    BY <2>3, <2>4, <2>5, <2>6
<1> QED
  BY <1>1, <1>2

LEMMA PoolBatch ==
    ASSUME StateInv, PoolInv, NEW t \in Threads, Batch(t)
    PROVE  PoolInv'
<1>1. cursor[t] = NoHandle
  BY DEF Batch, EnterScope, OpenScope, ScopeReady, ExitScope, StateInv, ThreadInv, WithCursor
<1>2. CASE EnterScope(t)
  <2>1. UNCHANGED <<cursor, live, broken, hurried>> /\ pc[t] = "idle" /\ scope[t] = NoHandle
    BY <1>2 DEF EnterScope, history
  <2>2. CASE registered # NoHandle
    BY <1>1, <1>2, <2>1, <2>2, PoolJoining DEF EnterScope
  <2>3. CASE registered = NoHandle /\ Register(t, NewHandle, "ro")
    BY <1>1, <2>1, <2>3, PoolOpening DEF Opening
  <2>4. CASE UNCHANGED <<handleVars, scope>> /\ pc' = [pc EXCEPT ![t] = "opening"]
    <3>1. Bystands
      BY <2>1, <2>4 DEF Bystands, handleVars, StateInv, TypeInv
    <3> QED
      BY <3>1, PoolBystands
  <2> QED
    BY <1>2, <2>2, <2>3, <2>4 DEF EnterScope
<1>3. CASE OpenScope(t)
  <2>1. /\ UNCHANGED <<cursor, live, broken, hurried>> /\ pc[t] = "opening" /\ registered = NoHandle
        /\ \E point : pc' = [pc EXCEPT ![t] = point]
        /\ UNCHANGED <<handleVars, scope>> \/ Register(t, NewHandle, "rw")
    BY <1>3 DEF OpenScope, Prepare, history, StateInv, LockInv
  <2>2. CASE Register(t, NewHandle, "rw")
    BY <1>1, <2>1, <2>2, PoolOpening DEF Opening
  <2>3. CASE UNCHANGED <<handleVars, scope>>
    <3>1. Bystands
      BY <2>1, <2>3 DEF Bystands, handleVars, StateInv, TypeInv
    <3> QED
      BY <3>1, PoolBystands
  <2> QED
    BY <2>1, <2>2, <2>3
<1>4. CASE ScopeReady(t)
  <2>1. Opening(t, "rw")
    BY <1>1, <1>4 DEF ScopeReady, Opening, history, StateInv, LockInv
  <2> QED
    BY <2>1, PoolOpening
<1>5. CASE ExitScope(t)
  BY <1>5, PoolLeaving
<1> QED
  BY <1>2, <1>3, <1>4, <1>5 DEF Batch

LEMMA PoolCall ==
    ASSUME StateInv, PoolInv, NEW t \in Threads, Call(t)
    PROVE  PoolInv'
<1>1. CASE ConnectAlone(t) \/ OpenAlone(t) \/ AloneReady(t) \/ OpenFallback(t) \/ Write(t) \/ Again(t)
  <2>1. /\ UNCHANGED <<handleVars, scope, cursor, live, history>>
        /\ pc[t] # "swapped" /\ \E point : pc' = [pc EXCEPT ![t] = point]
    BY <1>1 DEF ConnectAlone, OpenAlone, AloneReady, OpenFallback, Write, Again, Prepare
  <2>2. Bystands
    BY <2>1 DEF Bystands, handleVars, history, StateInv, TypeInv
  <2> QED
    BY <2>2, PoolBystands
<1>2. CASE ConnectShared(t)
  BY <1>2, PoolConnect
<1>3. CASE Upgrade(t)
  <2>1. /\ pc[t] = "upgrade" /\ cursor[t] # NoHandle
        /\ UNCHANGED <<registered, scopes, cursors, scope, cursor, own, other>>
    BY <1>3 DEF Upgrade, StateInv, ThreadInv, WithCursor
  <2>2. CASE Drained(cursor[t], FALSE) /\ Swap(t) /\ UNCHANGED hurried
    BY <2>1, <2>2, PoolSwap DEF Drained
  <2>3. CASE pc' = [pc EXCEPT ![t] = "drain"] /\ UNCHANGED <<conn, readOnly, live, lock, file, history>>
    <3>1. Bystands
      BY <2>1, <2>3 DEF Bystands, history, StateInv, TypeInv
    <3> QED
      BY <3>1, PoolBystands
  <2>4. CASE UNCHANGED <<conn, readOnly, lock, file, history>> /\ NewCursor(t, live)
    BY <2>1, <2>4, PoolCursor DEF history
  <2> QED
    BY <1>3, <2>2, <2>3, <2>4 DEF Upgrade
<1>4. CASE EndDrain(t)
  <2>1. /\ pc[t] = "drain" /\ cursor[t] # NoHandle /\ Swap(t)
        /\ UNCHANGED <<registered, scopes, cursors, scope, cursor, own, other>>
    BY <1>4 DEF EndDrain, StateInv, ThreadInv, WithCursor
  <2>2. PICK late \in BOOLEAN : /\ Drained(cursor[t], late)
                                /\ hurried' = (hurried \/ (late /\ cursors[cursor[t]] > 1))
    BY <1>4 DEF EndDrain
  <2>3. cursors[cursor[t]] \in Nat
    BY <2>1 DEF StateInv, TypeInv
  <2>4. (cursors[cursor[t]] <= 1 \/ hurried') /\ (hurried => hurried')
    <3>1. CASE cursors[cursor[t]] <= 1
      BY <2>2, <3>1
    <3>2. CASE cursors[cursor[t]] > 1
      BY <2>2, <2>3, <3>2 DEF Drained
    <3> QED
      BY <2>3, <3>1, <3>2
  <2> QED
    BY <2>1, <2>4, PoolSwap
<1>5. CASE SwapReady(t)
  <2>1. cursor[t] # NoHandle
    BY <1>5 DEF SwapReady, StateInv, ThreadInv, WithCursor
  <2> QED
    BY <1>5, <2>1, PoolCursor DEF SwapReady, history
<1>6. CASE Close(t)
  BY <1>6, PoolClose
<1> QED
  BY <1>1, <1>2, <1>3, <1>4, <1>5, <1>6 DEF Call

LEMMA PoolSchema ==
    ASSUME StateInv, PoolInv,
           \/ Stranger \/ Crash \/ UNCHANGED vars
           \/ \E t \in Threads : Statement(t) \/ StatementRaises(t)
    PROVE  PoolInv'
<1>1. CASE Stranger \/ (\E t \in Threads : Statement(t)) \/ UNCHANGED vars
  <2>1. Bystands
    BY <1>1 DEF Stranger, Statement, vars, Bystands, handleVars, threadVars, history
  <2> QED
    BY <2>1, PoolBystands
<1>2. ASSUME NEW t \in Threads, StatementRaises(t)
      PROVE  PoolInv'
  <2>1. /\ UNCHANGED <<handleVars, scope, cursor, live, hurried>>
        /\ pc' = [pc EXCEPT ![t] = IF pc[t] = "swapped" THEN "using" ELSE "idle"]
    BY <1>2 DEF StatementRaises
  <2>3. (broken => broken') /\ (pc[t] = "swapped" => broken')
    BY <1>2 DEF StatementRaises
  <2>2. Bystands
    BY <2>1, <2>3 DEF Bystands, handleVars, StateInv, TypeInv
  <2> QED
    BY <2>2, PoolBystands
<1>3. CASE Crash
  <2>1. \A h \in Handles : Holders(h)' = {} /\ cursors'[h] = 0
    BY <1>3, NamesAssumption DEF Crash, Holders
  <2>2. ScopeInv' /\ OpenInv' /\ CursorsStayLive'
    BY <1>3 DEF Crash, ScopeInv, OpenInv, CursorsStayLive
  <2>3. CursorInv'
    <3>1. \A h \in Handles : Cardinality(Holders(h)') = 0
      BY <2>1, FS_EmptySet, Zenon
    <3> QED
      BY <2>1, <3>1 DEF CursorInv
  <2> QED
    BY <2>2, <2>3 DEF PoolInv
<1> QED
  BY <1>1, <1>2, <1>3

LEMMA Pooled == Spec => [](StateInv /\ PoolInv)
<1>1. Init => StateInv /\ PoolInv
  BY StateInit, PoolInit
<1>2. StateInv /\ PoolInv /\ [Next]_vars => StateInv' /\ PoolInv'
  <2> SUFFICES ASSUME StateInv, PoolInv, [Next]_vars
               PROVE  StateInv' /\ PoolInv'
    OBVIOUS
  <2>1. ScopeInv /\ CursorInv
    BY DEF PoolInv
  <2>2. users \subseteq Threads
    BY DEF StateInv, TypeInv
  <2>3. ASSUME NEW t \in users, Batch(t) \/ Call(t), UNCHANGED users
        PROVE  StateInv' /\ PoolInv'
    BY <2>1, <2>2, <2>3, StateBatch, StateCall, PoolBatch, PoolCall
  <2>4. UNCHANGED vars => UNCHANGED users
    BY DEF vars
  <2> QED
    BY <2>1, <2>2, <2>3, <2>4, StateSchema, PoolSchema DEF Next
<1> QED
  BY <1>1, <1>2, PTL DEF Spec

-----------------------------------------------------------------------------
(* The bars of the file, however its migration is interleaved and cut short *)

Asides == {"market_bars_legacy", "market_bars_restamp"}
Other(old) == IF old = "market_bars_legacy" THEN "market_bars_restamp" ELSE "market_bars_legacy"

\* The statement that sets the bars aside under a name; after it come the creation, the copy and the drop.
SetAside(old)     == IF old = "market_bars_legacy" THEN 3 ELSE 8
Moving(t, old)    == at[t] \in (SetAside(old) + 1)..(SetAside(old) + 3)
Dropping(t, old)  == at[t] = SetAside(old) + 3

Whole(n) == BarsIn(disk, n) = OldBars

\* A table is whole or empty, and one is whole.
FileOk(f) ==
    /\ f \in FilesOf(OldBars) /\ OneBarEach(f)
    /\ \A n \in Tables : BarsIn(f, n) \in {{}, OldBars}
FileInv == FileOk(disk) /\ \E n \in Tables : Whole(n)

\* What is aside is one thread's to copy and to drop, and it is not dropped while it is all there is.
MoveInv ==
    \A old \in Asides :
        /\ \A t, u \in Threads : Moving(t, old) => disk.table[old] # NoTable /\ (Moving(u, old) => u = t)
        /\ \A t \in Threads : Dropping(t, old) /\ Whole(old) =>
             Whole("market_bars") \/ (Whole(Other(old)) /\ \A u \in Threads : ~Dropping(u, Other(old)))

LEMMA StatementsAre ==
    /\ LastStatement = 12
    /\ Statements[1] = <<"create", "market_bars">> /\ Statements[2] = <<"columns", "market_bars_legacy">>
    /\ Statements[7] = <<"version", "market_bars_restamp">> /\ Statements[12] = <<"record", "market_bars">>
    /\ \A old \in Asides :
         /\ Statements[SetAside(old)] = <<"rename", old>> /\ Statements[SetAside(old) + 1] = <<"create", old>>
         /\ Statements[SetAside(old) + 2] = <<"copy", old>> /\ Statements[SetAside(old) + 3] = <<"drop", old>>
<1>1. \A old : LET m == Migration(old)
               IN  m[1] = <<"rename", old>> /\ m[2] = <<"create", old>> /\ m[3] = <<"copy", old>> /\ m[4] = <<"drop", old>>
  BY DEF Migration
<1>2. LastStatement = 12
  BY DEF LastStatement, Statements
<1>3. /\ Statements[1] = <<"create", "market_bars">> /\ Statements[2] = <<"columns", "market_bars_legacy">>
      /\ Statements[7] = <<"version", "market_bars_restamp">> /\ Statements[12] = <<"record", "market_bars">>
  BY DEF Statements
<1>4. LET m == Migration("market_bars_legacy")
      IN  Statements[3] = m[1] /\ Statements[4] = m[2] /\ Statements[5] = m[3] /\ Statements[6] = m[4]
  BY DEF Statements
<1>5. LET m == Migration("market_bars_restamp")
      IN  Statements[8] = m[1] /\ Statements[9] = m[2] /\ Statements[10] = m[3] /\ Statements[11] = m[4]
  BY DEF Statements
<1>6. ASSUME NEW old \in Asides
      PROVE  /\ Statements[SetAside(old)] = <<"rename", old>> /\ Statements[SetAside(old) + 1] = <<"create", old>>
             /\ Statements[SetAside(old) + 2] = <<"copy", old>> /\ Statements[SetAside(old) + 3] = <<"drop", old>>
  <2>1. CASE old = "market_bars_legacy"
    <3>1. SetAside(old) = 3 /\ SetAside(old) + 1 = 4 /\ SetAside(old) + 2 = 5 /\ SetAside(old) + 3 = 6
      BY <2>1 DEF SetAside
    <3> QED
      BY <1>1, <1>4, <2>1, <3>1
  <2>2. CASE old = "market_bars_restamp"
    <3>1. SetAside(old) = 8 /\ SetAside(old) + 1 = 9 /\ SetAside(old) + 2 = 10 /\ SetAside(old) + 3 = 11
      BY <2>2 DEF SetAside
    <3> QED
      BY <1>1, <1>5, <2>2, <3>1
  <2> QED
    BY <1>6, <2>1, <2>2 DEF Asides
<1> QED
  BY <1>2, <1>3, <1>6

Rows == [g : Int, t : Int, bar : OldBars]

\* A stamp moved to the end of its session is of that session.
LEMMA Division ==
    ASSUME NEW q \in Int
    PROVE  (q * Session + Session - 1) \div Session = q
<1> DEFINE n == q * Session + Session - 1
           d == n \div Session
<1>1. Session \in Nat /\ Session > 0
  BY SessionAssumption
<1>2. q * Session \in Int
  BY <1>1
<1>3. n \in Int
  BY <1>1, <1>2
<1>4. d \in Int /\ n = Session * d + (n % Session) /\ n % Session \in 0..(Session - 1)
  BY <1>1, <1>3
<1>5. q * Session = Session * q /\ Session * d \in Int
  BY <1>1, <1>4
<1>6. CASE d <= q - 1
  <2>1. Session * d <= Session * (q - 1) /\ Session * (q - 1) = Session * q - Session
    BY <1>1, <1>4, <1>6
  <2> QED
    BY <1>1, <1>2, <1>4, <1>5, <2>1
<1>7. CASE d >= q + 1
  <2>1. Session * d >= Session * (q + 1) /\ Session * (q + 1) = Session * q + Session
    BY <1>1, <1>4, <1>7
  <2> QED
    BY <1>1, <1>2, <1>4, <1>5, <2>1
<1> QED
  BY <1>4, <1>6, <1>7

LEMMA RestampedIs ==
    ASSUME NEW r \in Rows
    PROVE  /\ Restamped(r) \in Rows /\ Restamped(r).g = r.g /\ Restamped(r).bar = r.bar
           /\ IF r.g < Session THEN Restamped(r).t = r.t + r.g
              ELSE Restamped(r).t \div Session = r.t \div Session
<1>1. Session \in Nat /\ Session > 0 /\ r.t \in Int /\ r.g \in Int
  BY SessionAssumption DEF Rows
<1>2. CASE r.g < Session
  <2>1. Restamped(r) = [r EXCEPT !.t = r.t + r.g]
    BY <1>2 DEF Restamped
  <2> QED
    BY <1>1, <1>2, <2>1 DEF Rows
<1>3. CASE ~(r.g < Session)
  <2> DEFINE q == r.t \div Session
             e == q * Session + Session - 1
  <2>1. Restamped(r) = [r EXCEPT !.t = e]
    BY <1>3 DEF Restamped
  <2>2. q \in Int
    BY <1>1
  <2> HIDE DEF q
  <2>3. e \in Int /\ e \div Session = q
    <3>1. q * Session \in Int
      BY <1>1, <2>2
    <3> QED
      BY <1>1, <2>2, <3>1, Division
  <2> HIDE DEF e
  <2>4. Restamped(r) \in Rows /\ Restamped(r).g = r.g /\ Restamped(r).bar = r.bar /\ Restamped(r).t = e
    BY <2>1, <2>3 DEF Rows
  <2> QED
    BY <1>3, <2>3, <2>4 DEF q
<1> QED
  BY <1>2, <1>3

\* INSERT OR REPLACE keeps a row of every bar that is inserted, and one bar under a key.
OneBarAKey(rows) == \A r, s \in rows : SameKey(r, s) => r.bar = s.bar

LEMMA InsertedIs ==
    ASSUME NEW rows, NEW new, OneBarAKey(new)
    PROVE  /\ Inserted(rows, new) \subseteq rows \cup new
           /\ \A n \in new : \E r \in Inserted(rows, new) : r.bar = n.bar
           /\ new = {} => Inserted(rows, new) = rows
           /\ OneBarAKey(rows) => OneBarAKey(Inserted(rows, new))
<1> DEFINE chosen(m) == CHOOSE n \in new : SameKey(n, m)
           left == {r \in rows : \A n \in new : ~SameKey(r, n)}
<1>1. \A m \in new : chosen(m) \in new /\ SameKey(chosen(m), m) /\ chosen(m).bar = m.bar
  <2>1. TAKE m \in new
  <2>2. \E n \in new : SameKey(n, m)
    BY DEF SameKey
  <2>3. chosen(m) \in new /\ SameKey(chosen(m), m)
    BY <2>2
  <2> QED
    BY <2>3 DEF OneBarAKey
<1>2. Inserted(rows, new) = left \cup {chosen(m) : m \in new}
  BY DEF Inserted
<1> HIDE DEF chosen
<1>3. \A r \in {chosen(m) : m \in new} : r \in new
  BY <1>1
<1>4. OneBarAKey(rows) => OneBarAKey(Inserted(rows, new))
  <2> SUFFICES ASSUME OneBarAKey(rows), NEW r \in Inserted(rows, new), NEW s \in Inserted(rows, new), SameKey(r, s)
               PROVE  r.bar = s.bar
    BY DEF OneBarAKey
  <2>1. SameKey(s, r)
    BY DEF SameKey
  <2>2. CASE r \in left /\ s \in left
    BY <2>2 DEF OneBarAKey
  <2>3. CASE r \in new /\ s \in new
    BY <2>3 DEF OneBarAKey
  <2>4. r \in left => s \notin new
    OBVIOUS
  <2>5. s \in left => r \notin new
    BY <2>1
  <2> QED
    BY <1>2, <1>3, <2>2, <2>3, <2>4, <2>5
<1> QED
  BY <1>1, <1>2, <1>3, <1>4

-----------------------------------------------------------------------------
(* What the statements do to a file *)

LEMMA FilesAre ==
    ASSUME NEW f \in FilesOf(OldBars)
    PROVE  /\ DOMAIN f = {"table", "version"} /\ DOMAIN f.table = Tables /\ f.version \in BOOLEAN
           /\ f.table \in [Tables -> TablesOf(OldBars) \cup {NoTable}]
           /\ \A n \in Tables : f.table[n] # NoTable => f.table[n] \in TablesOf(OldBars) /\ f.table[n].rows \subseteq Rows
           /\ \A n \in Tables : RowsIn(f, n) \subseteq Rows
<1>1. /\ DOMAIN f = {"table", "version"} /\ f.version \in BOOLEAN
      /\ f.table \in [Tables -> TablesOf(OldBars) \cup {NoTable}]
  BY DEF FilesOf
<1>2. \A n \in Tables : f.table[n] # NoTable => f.table[n] \in TablesOf(OldBars)
  BY <1>1
<1>3. \A x \in TablesOf(OldBars) : x.rows \subseteq Rows
  BY DEF TablesOf, Rows
<1> QED
  BY <1>1, <1>2, <1>3 DEF RowsIn

\* The same rows in every table.
LEMMA SameRows ==
    ASSUME NEW f, FileOk(f), NEW e \in FilesOf(OldBars), \A n \in Tables : RowsIn(e, n) = RowsIn(f, n)
    PROVE  FileOk(e) /\ \A n \in Tables : BarsIn(e, n) = BarsIn(f, n)
<1>1. \A n \in Tables : BarsIn(e, n) = BarsIn(f, n)
  BY DEF BarsIn
<1>2. OneBarEach(e)
  BY DEF OneBarEach, FileOk
<1> QED
  BY <1>1, <1>2 DEF FileOk

LEMMA ExecutedCreate ==
    ASSUME NEW f, FileOk(f), NEW n, NEW e, e = Executed(<<"create", n>>, f)
    PROVE  /\ FileOk(e) /\ \A m \in Tables : BarsIn(e, m) = BarsIn(f, m)
           /\ \A m \in Asides : e.table[m] = f.table[m]
<1> DEFINE empty == [old |-> FALSE, rows |-> {}]
           bars == "market_bars"
<1>1. e = IF f.table[bars] = NoTable THEN [f EXCEPT !.table[bars] = empty] ELSE f
  BY DEF Executed
<1>2. empty \in TablesOf(OldBars) /\ empty.rows = {} /\ bars \in Tables /\ bars \notin Asides /\ Asides \subseteq Tables
  BY DEF TablesOf, Tables, Asides
<1>3. /\ DOMAIN f = {"table", "version"} /\ DOMAIN f.table = Tables /\ f.version \in BOOLEAN
      /\ f.table \in [Tables -> TablesOf(OldBars) \cup {NoTable}]
  BY FilesAre DEF FileOk
<1> HIDE DEF empty, bars
<1>4. CASE f.table[bars] = NoTable
  <2>1. e = [f EXCEPT !.table[bars] = empty]
    BY <1>1, <1>4
  <2>2. /\ e \in FilesOf(OldBars) /\ e.table = [f.table EXCEPT ![bars] = empty]
    BY <1>2, <1>3, <2>1 DEF FilesOf, FileOk
  <2>3. e.table[bars] = empty /\ \A m \in Tables \ {bars} : e.table[m] = f.table[m]
    BY <1>2, <1>3, <2>2
  <2>4. \A m \in Tables : RowsIn(e, m) = RowsIn(f, m)
    BY <1>2, <1>4, <2>3 DEF RowsIn
  <2> QED
    BY <1>2, <2>2, <2>3, <2>4, SameRows
<1>5. CASE f.table[bars] # NoTable
  BY <1>1, <1>5
<1> QED
  BY <1>4, <1>5

LEMMA ExecutedElse ==
    ASSUME NEW f, FileOk(f), NEW what \in {"columns", "version", "record"}, NEW n, NEW e, e = Executed(<<what, n>>, f)
    PROVE  FileOk(e) /\ e.table = f.table /\ \A m \in Tables : BarsIn(e, m) = BarsIn(f, m)
<1>1. /\ DOMAIN f = {"table", "version"} /\ f.version \in BOOLEAN
      /\ f.table \in [Tables -> TablesOf(OldBars) \cup {NoTable}]
  BY FilesAre DEF FileOk
<1>2. e = IF what = "record" THEN [f EXCEPT !.version = TRUE] ELSE f
  BY DEF Executed
<1>3. e \in FilesOf(OldBars) /\ e.table = f.table
  BY <1>1, <1>2 DEF FilesOf, FileOk
<1>4. \A m \in Tables : RowsIn(e, m) = RowsIn(f, m)
  BY <1>3 DEF RowsIn
<1> QED
  BY <1>3, <1>4, SameRows

LEMMA ExecutedAside ==
    ASSUME NEW f, FileOk(f), NEW old \in Asides, ~Raises(<<"rename", old>>, f),
           NEW e, e = Executed(<<"rename", old>>, f)
    PROVE  /\ FileOk(e) /\ f.table[old] = NoTable /\ e.table[old] # NoTable
           /\ BarsIn(e, old) = BarsIn(f, "market_bars") /\ BarsIn(f, old) = {}
           /\ e.table[Other(old)] = f.table[Other(old)] /\ BarsIn(e, Other(old)) = BarsIn(f, Other(old))
<1> DEFINE bars == "market_bars"
           spare == Other(old)
<1>1. e = [f EXCEPT !.table[old] = f.table[bars], !.table[bars] = NoTable]
  BY DEF Executed
<1>2. f.table[old] = NoTable /\ f.table[bars] # NoTable
  BY DEF Raises
<1>3. Tables = {old, spare, bars} /\ old # bars /\ old # spare /\ spare # bars
  BY DEF Asides, Other, Tables
<1>4. /\ DOMAIN f = {"table", "version"} /\ DOMAIN f.table = Tables /\ f.version \in BOOLEAN
      /\ f.table \in [Tables -> TablesOf(OldBars) \cup {NoTable}]
  BY FilesAre DEF FileOk
<1> HIDE DEF bars, spare
<1>5. /\ e \in FilesOf(OldBars)
      /\ e.table[old] = f.table[bars] /\ e.table[bars] = NoTable /\ e.table[spare] = f.table[spare]
  <2>1. e.version = f.version /\ DOMAIN e = DOMAIN f /\ e.table = [[f.table EXCEPT ![old] = f.table[bars]] EXCEPT ![bars] = NoTable]
    BY <1>1, <1>4
  <2>2. e.table \in [Tables -> TablesOf(OldBars) \cup {NoTable}]
    BY <1>3, <1>4, <2>1
  <2>3. e = [table |-> e.table, version |-> e.version]
    BY <1>1, <1>4
  <2>4. e \in FilesOf(OldBars)
    BY <1>4, <2>1, <2>2, <2>3 DEF FilesOf
  <2> QED
    BY <1>3, <1>4, <2>1, <2>4
<1>6. /\ RowsIn(e, old) = RowsIn(f, bars) /\ RowsIn(f, old) = {} /\ RowsIn(e, bars) = {}
      /\ RowsIn(e, spare) = RowsIn(f, spare)
  BY <1>2, <1>5 DEF RowsIn
<1>7. /\ BarsIn(e, old) = BarsIn(f, bars) /\ BarsIn(f, old) = {} /\ BarsIn(e, bars) = {}
      /\ BarsIn(e, spare) = BarsIn(f, spare)
  BY <1>6 DEF BarsIn
<1>8. OneBarEach(e)
  <2> DEFINE from(n) == IF n = old THEN bars ELSE spare
  <2>1. \A n \in Tables : \A r \in RowsIn(e, n) : from(n) \in Tables /\ r \in RowsIn(f, from(n)) /\ n # bars
    BY <1>3, <1>6
  <2>2. \A m, n \in Tables : m # bars /\ n # bars => (m = n <=> from(m) = from(n))
    BY <1>3
  <2>3. ASSUME NEW m \in Tables, NEW n \in Tables, NEW r \in RowsIn(e, m), NEW s \in RowsIn(e, n),
               (m = n /\ SameKey(r, s)) \/ SameSession(r, s)
        PROVE  r.bar = s.bar
    <3> HIDE DEF from
    <3>1. from(m) \in Tables /\ from(n) \in Tables /\ r \in RowsIn(f, from(m)) /\ s \in RowsIn(f, from(n))
          /\ (m = n => from(m) = from(n))
      BY <2>1
    <3>2. OneBarEach(f)
      BY DEF FileOk
    <3> QED
      BY <2>3, <3>1, <3>2 DEF OneBarEach, SameKey, SameSession
  <2> QED
    BY <2>3 DEF OneBarEach
<1>9. \A n \in Tables : BarsIn(e, n) \in {{}, OldBars}
  BY <1>3, <1>7 DEF FileOk
<1> QED
  BY <1>2, <1>5, <1>7, <1>8, <1>9 DEF FileOk, bars, spare

LEMMA ExecutedDrop ==
    ASSUME NEW f, FileOk(f), NEW old \in Asides, NEW e, e = Executed(<<"drop", old>>, f)
    PROVE  /\ FileOk(e) /\ \A n \in Tables \ {old} : e.table[n] = f.table[n] /\ BarsIn(e, n) = BarsIn(f, n)
<1>1. e = [f EXCEPT !.table[old] = NoTable]
  BY DEF Executed
<1>2. /\ DOMAIN f = {"table", "version"} /\ DOMAIN f.table = Tables /\ f.version \in BOOLEAN
      /\ f.table \in [Tables -> TablesOf(OldBars) \cup {NoTable}] /\ old \in Tables
  BY FilesAre DEF FileOk, Asides, Tables
<1>3. /\ e \in FilesOf(OldBars) /\ e.table[old] = NoTable /\ \A n \in Tables \ {old} : e.table[n] = f.table[n]
  BY <1>1, <1>2 DEF FilesOf
<1>4. RowsIn(e, old) = {} /\ \A n \in Tables \ {old} : RowsIn(e, n) = RowsIn(f, n)
  BY <1>3 DEF RowsIn
<1>5. BarsIn(e, old) = {} /\ \A n \in Tables \ {old} : BarsIn(e, n) = BarsIn(f, n)
  BY <1>4 DEF BarsIn
<1>6. \A n \in Tables : RowsIn(e, n) \subseteq RowsIn(f, n)
  BY <1>4
<1>7. OneBarEach(e)
  BY <1>6 DEF OneBarEach, FileOk
<1> QED
  BY <1>3, <1>5, <1>7 DEF FileOk

\* What is copied: the rows set aside, as they are or restamped.
Copied(f, old) ==
    IF old = "market_bars_restamp" THEN {Restamped(r) : r \in f.table[old].rows} ELSE f.table[old].rows

LEMMA CopiedIs ==
    ASSUME NEW f, FileOk(f), NEW old \in Asides, f.table[old] # NoTable
    PROVE  /\ Copied(f, old) \subseteq Rows /\ OneBarAKey(Copied(f, old))
           /\ \A r \in RowsIn(f, old) : \E x \in Copied(f, old) : x.bar = r.bar
           /\ \A x \in Copied(f, old) : \E r \in RowsIn(f, old) :
                r.bar = x.bar /\ r.g = x.g /\ (~(x.g < Session) => r.t \div Session = x.t \div Session)
<1> DEFINE rows == RowsIn(f, old)
<1>1. rows = f.table[old].rows /\ old \in Tables
  BY DEF RowsIn, Asides, Tables
<1>2. rows \subseteq Rows
  BY <1>1, FilesAre DEF FileOk
<1>3. \A r, s \in rows : SameKey(r, s) \/ SameSession(r, s) => r.bar = s.bar
  BY <1>1 DEF OneBarEach, FileOk
<1> HIDE DEF rows
<1>4. CASE old = "market_bars_restamp"
  <2>1. Copied(f, old) = {Restamped(r) : r \in rows}
    BY <1>1, <1>4 DEF Copied
  <2>2. ASSUME NEW r \in rows, NEW s \in rows, SameKey(Restamped(r), Restamped(s))
        PROVE  r.bar = s.bar
    <3>1. /\ Restamped(r).g = r.g /\ Restamped(s).g = s.g /\ r.g \in Int /\ r.t \in Int /\ s.t \in Int
          /\ IF r.g < Session THEN Restamped(r).t = r.t + r.g ELSE Restamped(r).t \div Session = r.t \div Session
          /\ IF s.g < Session THEN Restamped(s).t = s.t + s.g ELSE Restamped(s).t \div Session = s.t \div Session
      BY <1>2, RestampedIs DEF Rows
    <3>2. r.g = s.g /\ Restamped(r).t = Restamped(s).t
      BY <2>2, <3>1 DEF SameKey
    <3>3. CASE r.g < Session
      <4>1. r.t + r.g = s.t + r.g
        BY <3>1, <3>2, <3>3
      <4>2. \A a, b, c \in Int : a + c = b + c => a = b
        OBVIOUS
      <4>3. r.g \in Int /\ r.t \in Int /\ s.t \in Int
        BY <3>1
      <4>4. r.t = s.t
        BY <4>1, <4>2, <4>3
      <4> QED
        BY <1>3, <3>2, <4>4 DEF SameKey
    <3>4. CASE ~(r.g < Session)
      <4>1. r.g >= Session
        BY <3>1, <3>4, SessionAssumption
      <4>2. SameSession(r, s)
        BY <3>1, <3>2, <3>4, <4>1 DEF SameSession
      <4> QED
        BY <1>3, <4>2
    <3> QED
      BY <3>3, <3>4
  <2>3. \A r \in rows : Restamped(r) \in Rows /\ Restamped(r).bar = r.bar /\ Restamped(r).g = r.g
    BY <1>2, RestampedIs
  <2>4. \A r \in rows : ~(r.g < Session) => r.t \div Session = Restamped(r).t \div Session
    BY <1>2, RestampedIs
  <2>5. OneBarAKey(Copied(f, old))
    <3> SUFFICES ASSUME NEW r \in rows, NEW s \in rows, SameKey(Restamped(r), Restamped(s))
                 PROVE  Restamped(r).bar = Restamped(s).bar
      BY <2>1 DEF OneBarAKey
    <3>1. r.bar = s.bar
      BY <2>2
    <3> QED
      BY <2>3, <3>1
  <2>6. \A r \in RowsIn(f, old) : \E x \in Copied(f, old) : x.bar = r.bar
    BY <2>1, <2>3 DEF rows
  <2>7. ASSUME NEW x \in Copied(f, old)
        PROVE  x \in Rows /\ \E r \in RowsIn(f, old) :
                 r.bar = x.bar /\ r.g = x.g /\ (~(x.g < Session) => r.t \div Session = x.t \div Session)
    <3>1. PICK r \in rows : x = Restamped(r)
      BY <2>1
    <3>2. r.bar = x.bar /\ r.g = x.g /\ x \in Rows
      BY <2>3, <3>1
    <3>3. ~(x.g < Session) => r.t \div Session = x.t \div Session
      BY <2>4, <3>1, <3>2
    <3> QED
      BY <3>2, <3>3 DEF rows
  <2> QED
    BY <2>5, <2>6, <2>7
<1>5. CASE old # "market_bars_restamp"
  <2>1. Copied(f, old) = rows
    BY <1>1, <1>5 DEF Copied
  <2>2. OneBarAKey(rows)
    BY <1>3 DEF OneBarAKey
  <2> QED
    BY <1>2, <2>1, <2>2 DEF rows
<1> QED
  BY <1>4, <1>5

LEMMA ExecutedCopy ==
    ASSUME NEW f, FileOk(f), NEW old \in Asides, ~Raises(<<"copy", old>>, f), NEW e, e = Executed(<<"copy", old>>, f)
    PROVE  /\ FileOk(e) /\ \A o \in Asides : e.table[o] = f.table[o] /\ BarsIn(e, o) = BarsIn(f, o)
           /\ BarsIn(f, old) = OldBars \/ BarsIn(f, "market_bars") = OldBars => BarsIn(e, "market_bars") = OldBars
<1> DEFINE bars == "market_bars"
           rows == f.table[bars].rows
           new  == Copied(f, old)
           all  == Inserted(rows, new)
<1>1. e = [f EXCEPT !.table[bars].rows = all]
  BY DEF Executed, Copied
<1>2. f.table[old] # NoTable /\ f.table[bars] # NoTable
  BY DEF Raises
<1>3. bars \in Tables /\ bars \notin Asides /\ Asides \subseteq Tables /\ Tables = Asides \cup {bars} /\ old \in Tables
  BY DEF Asides, Tables
<1>4. /\ DOMAIN f = {"table", "version"} /\ DOMAIN f.table = Tables /\ f.version \in BOOLEAN
      /\ f.table \in [Tables -> TablesOf(OldBars) \cup {NoTable}]
      /\ f.table[bars] \in TablesOf(OldBars) /\ rows \subseteq Rows
  BY <1>2, <1>3, FilesAre DEF FileOk
<1>5. /\ new \subseteq Rows /\ OneBarAKey(new)
      /\ \A r \in RowsIn(f, old) : \E x \in new : x.bar = r.bar
      /\ \A x \in new : \E r \in RowsIn(f, old) :
           r.bar = x.bar /\ r.g = x.g /\ (~(x.g < Session) => r.t \div Session = x.t \div Session)
  BY <1>2, CopiedIs
<1>6. rows = RowsIn(f, bars)
  BY <1>2 DEF RowsIn
<1>7. OneBarAKey(rows)
  BY <1>3, <1>6 DEF OneBarAKey, OneBarEach, FileOk
<1> HIDE DEF bars, rows, new
<1>8. /\ all \subseteq rows \cup new /\ (\A n \in new : \E r \in all : r.bar = n.bar)
      /\ (new = {} => all = rows) /\ OneBarAKey(all)
  BY <1>5, <1>7, InsertedIs
<1> HIDE DEF all
<1>9. /\ e \in FilesOf(OldBars) /\ e.table[bars] # NoTable /\ e.table[bars].rows = all
      /\ \A o \in Asides : e.table[o] = f.table[o]
  <2> DEFINE table == [f.table[bars] EXCEPT !.rows = all]
  <2>1. table \in TablesOf(OldBars) /\ table.rows = all
    <3>1. all \subseteq Rows
      BY <1>4, <1>5, <1>8
    <3> QED
      BY <1>4, <3>1 DEF TablesOf, Rows
  <2> HIDE DEF table
  <2>2. e = [f EXCEPT !.table = [f.table EXCEPT ![bars] = table]]
    BY <1>1 DEF table
  <2>3. e \in FilesOf(OldBars) /\ e.table = [f.table EXCEPT ![bars] = table]
    BY <1>3, <1>4, <2>1, <2>2 DEF FilesOf, FileOk
  <2>4. table # NoTable
    BY <2>1, InstancesAssumption
  <2> QED
    BY <1>3, <1>4, <2>1, <2>3, <2>4
<1>10. RowsIn(e, bars) = all /\ \A o \in Asides : RowsIn(e, o) = RowsIn(f, o)
  BY <1>9 DEF RowsIn
<1>11. \A o \in Asides : BarsIn(e, o) = BarsIn(f, o)
  BY <1>10 DEF BarsIn
<1>12. BarsIn(e, bars) = {r.bar : r \in all} /\ BarsIn(f, bars) = {r.bar : r \in rows} /\ BarsIn(e, bars) \subseteq OldBars
  <2>1. \A r \in all : r.bar \in OldBars
    BY <1>4, <1>5, <1>8 DEF Rows
  <2> QED
    BY <1>6, <1>10, <2>1 DEF BarsIn
<1>13. BarsIn(f, old) = OldBars => BarsIn(e, bars) = OldBars
  <2> SUFFICES ASSUME BarsIn(f, old) = OldBars, NEW b \in OldBars
               PROVE  b \in BarsIn(e, bars)
    BY <1>12
  <2>1. PICK r \in RowsIn(f, old) : r.bar = b
    BY DEF BarsIn
  <2>2. PICK x \in new : x.bar = b
    BY <1>5, <2>1
  <2>3. PICK y \in all : y.bar = b
    BY <1>8, <2>2
  <2> QED
    BY <1>12, <2>3
<1>14. BarsIn(f, old) = {} => BarsIn(e, bars) = BarsIn(f, bars)
  <2> SUFFICES ASSUME BarsIn(f, old) = {}
               PROVE  BarsIn(e, bars) = BarsIn(f, bars)
    OBVIOUS
  <2>1. RowsIn(f, old) = {}
    BY DEF BarsIn
  <2>2. new = {}
    BY <1>5, <2>1
  <2> QED
    BY <1>8, <1>12, <2>2
<1>15. OneBarEach(e)
  <2>1. OneBarEach(f)
    BY DEF FileOk
  <2>2. ASSUME NEW m \in Tables, NEW r \in RowsIn(e, m), NEW s \in RowsIn(e, m), SameKey(r, s)
        PROVE  r.bar = s.bar
    <3>1. CASE m = bars
      BY <1>8, <1>10, <2>2, <3>1 DEF OneBarAKey
    <3>2. CASE m # bars
      <4>1. r \in RowsIn(f, m) /\ s \in RowsIn(f, m)
        BY <1>3, <1>10, <3>2
      <4> QED
        BY <2>1, <2>2, <4>1 DEF OneBarEach
    <3> QED
      BY <3>1, <3>2
  <2>3. ASSUME NEW o \in Tables, NEW x \in RowsIn(e, o), ~(x.g < Session)
        PROVE  \E p \in Tables : \E y \in RowsIn(f, p) : y.bar = x.bar /\ y.g = x.g /\ y.t \div Session = x.t \div Session
    <3>1. CASE o # bars
      <4>1. x \in RowsIn(f, o)
        BY <1>3, <1>10, <3>1
      <4> QED
        BY <4>1
    <3>2. CASE o = bars /\ x \in rows
      BY <1>3, <1>6, <3>2
    <3>3. CASE o = bars /\ x \in new
      <4>1. PICK y \in RowsIn(f, old) : y.bar = x.bar /\ y.g = x.g /\ (~(x.g < Session) => y.t \div Session = x.t \div Session)
        BY <1>5, <3>3
      <4> QED
        BY <1>3, <2>3, <4>1
    <3> QED
      BY <1>8, <1>10, <3>1, <3>2, <3>3
  <2>4. ASSUME NEW m \in Tables, NEW n \in Tables, NEW r \in RowsIn(e, m), NEW s \in RowsIn(e, n), SameSession(r, s)
        PROVE  r.bar = s.bar
    <3>1. r.g = s.g /\ r.g >= Session /\ r.t \div Session = s.t \div Session /\ r.g \in Int
      <4>1. r \in Rows
        BY <1>9, FilesAre
      <4> QED
        BY <2>4, <4>1 DEF SameSession, Rows
    <3>2. ~(r.g < Session) /\ ~(s.g < Session)
      BY <3>1, SessionAssumption
    <3>3. PICK p \in Tables : \E y \in RowsIn(f, p) : y.bar = r.bar /\ y.g = r.g /\ y.t \div Session = r.t \div Session
      BY <2>3, <3>2
    <3>4. PICK y \in RowsIn(f, p) : y.bar = r.bar /\ y.g = r.g /\ y.t \div Session = r.t \div Session
      BY <3>3
    <3>5. PICK q \in Tables : \E z \in RowsIn(f, q) : z.bar = s.bar /\ z.g = s.g /\ z.t \div Session = s.t \div Session
      BY <2>3, <3>2
    <3>6. PICK z \in RowsIn(f, q) : z.bar = s.bar /\ z.g = s.g /\ z.t \div Session = s.t \div Session
      BY <3>5
    <3>7. SameSession(y, z)
      BY <3>1, <3>4, <3>6 DEF SameSession
    <3> QED
      BY <2>1, <3>4, <3>6, <3>7 DEF OneBarEach
  <2> QED
    BY <2>2, <2>4 DEF OneBarEach
<1>16. BarsIn(f, bars) \in {{}, OldBars} /\ BarsIn(f, old) \in {{}, OldBars}
       /\ \A o \in Asides : BarsIn(f, o) \in {{}, OldBars}
  BY <1>3 DEF FileOk
<1>17. \A n \in Tables : BarsIn(e, n) \in {{}, OldBars}
  BY <1>3, <1>11, <1>13, <1>14, <1>16
<1> QED
  BY <1>9, <1>11, <1>13, <1>14, <1>15, <1>16, <1>17 DEF FileOk, bars

-----------------------------------------------------------------------------
(* The steps of initialize_schema, and those that leave the file alone *)

LEMMA Places ==
    ASSUME NEW old \in Asides
    PROVE  /\ SetAside(old) \in {3, 8} /\ SetAside(Other(old)) \in {3, 8} \ {SetAside(old)}
           /\ Other(old) \in Asides \ {old} /\ Asides = {old, Other(old)} /\ Other(Other(old)) = old
           /\ Tables = {old, Other(old), "market_bars"} /\ "market_bars" \notin Asides
  BY DEF Asides, Other, SetAside, Tables

\* Which statement follows.
LEMMA FollowingIs ==
    ASSUME NEW n \in Int, NEW f
    PROVE  /\ n \in {1, 2, 7, 12} => Following(n, f) \in {2, 3, 7, 8, 13}
           /\ \A old \in Asides : \A k \in 0..3 : n = SetAside(old) + k => Following(n, f) = SetAside(old) + k + 1
<1> DEFINE What(m) == Statements[m][1]
<1>1. What(1) = "create" /\ What(2) = "columns" /\ What(7) = "version" /\ What(12) = "record" /\ LastStatement = 12
  <2>1. /\ Statements[1] = <<"create", "market_bars">> /\ Statements[2] = <<"columns", "market_bars_legacy">>
        /\ Statements[7] = <<"version", "market_bars_restamp">> /\ Statements[12] = <<"record", "market_bars">>
        /\ LastStatement = 12
    BY StatementsAre
  <2> QED
    BY <2>1
<1>2. ASSUME NEW old \in Asides
      PROVE  /\ What(SetAside(old)) = "rename" /\ What(SetAside(old) + 1) = "create"
             /\ What(SetAside(old) + 2) = "copy" /\ What(SetAside(old) + 3) = "drop"
  <2>1. /\ Statements[SetAside(old)] = <<"rename", old>> /\ Statements[SetAside(old) + 1] = <<"create", old>>
        /\ Statements[SetAside(old) + 2] = <<"copy", old>> /\ Statements[SetAside(old) + 3] = <<"drop", old>>
    BY <1>2, StatementsAre
  <2>2. \A x, s : s = <<x, old>> => s[1] = x
    OBVIOUS
  <2>3. What(SetAside(old)) = "rename" /\ What(SetAside(old) + 1) = "create"
    BY <2>1, <2>2
  <2>4. What(SetAside(old) + 2) = "copy" /\ What(SetAside(old) + 3) = "drop"
    BY <2>1, <2>2
  <2> QED
    BY <2>3, <2>4
<1>3. /\ What(n) \notin {"columns", "version"} => Following(n, f) = n + 1
      /\ What(n) = "columns" => Following(n, f) \in {n + 1, n + 5}
      /\ What(n) = "version" => Following(n, f) \in {n + 1, 13}
  <2>1. LastStatement + 1 = 13
    BY <1>1
  <2>2. What(n) \notin {"columns", "version"} => Following(n, f) = n + 1
    BY DEF Following
  <2>3. What(n) = "columns" => Following(n, f) \in {n + 1, n + 5}
    BY DEF Following
  <2>4. What(n) = "version" => Following(n, f) \in {n + 1, 13}
    BY <2>1 DEF Following
  <2> QED
    BY <2>2, <2>3, <2>4
<1> HIDE DEF What
<1>4. ASSUME n = 1 \/ n = 12
      PROVE  Following(n, f) \in {2, 13}
  BY <1>1, <1>3, <1>4
<1>5. ASSUME n = 2
      PROVE  Following(n, f) \in {3, 7}
  BY <1>1, <1>3, <1>5
<1>6. ASSUME n = 7
      PROVE  Following(n, f) \in {8, 13}
  BY <1>1, <1>3, <1>6
<1>7. ASSUME NEW old \in Asides, NEW k \in 0..3, n = SetAside(old) + k
      PROVE  Following(n, f) = SetAside(old) + k + 1
  <2>1. SetAside(old) \in {3, 8}
    BY <1>7, Places
  <2>2. What(n) \notin {"columns", "version"}
    <3>1. k = 0 \/ k = 1 \/ k = 2 \/ k = 3
      BY <1>7
    <3>2. CASE k = 0
      <4>1. n = SetAside(old)
        BY <1>7, <2>1, <3>2
      <4> QED
        BY <1>2, <4>1
    <3>3. CASE k # 0
      BY <1>2, <1>7, <3>1, <3>3
    <3> QED
      BY <3>2, <3>3
  <2> QED
    BY <1>3, <1>7, <2>2
<1> QED
  BY <1>4, <1>5, <1>6, <1>7

\* Nobody goes on to a copy, and no table changes what it holds.
LEMMA MoveStays ==
    ASSUME MoveInv,
           \A o \in Asides : disk.table[o] # NoTable => disk'.table[o] # NoTable,
           \A n \in Tables : BarsIn(disk', n) = BarsIn(disk, n),
           \A t \in Threads : \A o \in Asides : (Moving(t, o)' => Moving(t, o)) /\ (Dropping(t, o)' => Dropping(t, o))
    PROVE  MoveInv'
<1> SUFFICES ASSUME NEW old \in Asides
             PROVE  /\ \A t, u \in Threads : Moving(t, old)' => disk'.table[old] # NoTable /\ (Moving(u, old)' => u = t)
                    /\ \A t \in Threads : Dropping(t, old)' /\ Whole(old)' =>
                         Whole("market_bars")' \/ (Whole(Other(old))' /\ \A u \in Threads : ~Dropping(u, Other(old))')
  BY DEF MoveInv
<1>1. \A t, u \in Threads : Moving(t, old)' => disk'.table[old] # NoTable /\ (Moving(u, old)' => u = t)
  BY DEF MoveInv
<1>2. old \in Tables /\ Other(old) \in Tables /\ "market_bars" \in Tables /\ Other(old) \in Asides
  BY Places
<1>3. \A n \in Tables : Whole(n)' = Whole(n)
  BY DEF Whole
<1>4. ASSUME NEW t \in Threads, Dropping(t, old)', Whole(old)'
      PROVE  Whole("market_bars")' \/ (Whole(Other(old))' /\ \A u \in Threads : ~Dropping(u, Other(old))')
  <2>1. Dropping(t, old) /\ Whole(old)
    BY <1>2, <1>3, <1>4
  <2>2. Whole("market_bars") \/ (Whole(Other(old)) /\ \A u \in Threads : ~Dropping(u, Other(old)))
    BY <2>1 DEF MoveInv
  <2> QED
    BY <1>2, <1>3, <2>2
<1> QED
  BY <1>1, <1>4

Quiet == disk' = disk /\ \A t \in Threads : at'[t] = at[t] \/ at'[t] \in {0, 1}

LEMMA QuietKeeps == FileInv /\ MoveInv /\ Quiet => FileInv' /\ MoveInv'
<1> SUFFICES ASSUME FileInv, MoveInv, Quiet
             PROVE  FileInv' /\ MoveInv'
  OBVIOUS
<1>1. disk' = disk
  BY DEF Quiet
<1>2. FileInv'
  BY <1>1 DEF FileInv, FileOk, Whole
<1>3. ASSUME NEW t \in Threads, NEW o \in Asides
      PROVE  (Moving(t, o)' => Moving(t, o)) /\ (Dropping(t, o)' => Dropping(t, o))
  BY <1>3, Places DEF Quiet, Moving, Dropping
<1> QED
  BY <1>1, <1>2, <1>3, MoveStays

LEMMA QuietSteps ==
    ASSUME StateInv,
           \/ Stranger \/ Crash \/ UNCHANGED vars
           \/ \E t \in Threads : Batch(t) \/ Call(t) \/ StatementRaises(t)
    PROVE  Quiet
<1>1. DOMAIN at = Threads
  BY DEF StateInv, TypeInv
<1>2. CASE Stranger \/ UNCHANGED vars
  BY <1>2 DEF Stranger, vars, file, Quiet
<1>3. CASE Crash
  BY <1>3 DEF Crash, Quiet
<1>4. ASSUME NEW t \in Threads, StatementRaises(t)
      PROVE  Quiet
  BY <1>1, <1>4 DEF StatementRaises, Quiet
<1>5. ASSUME NEW t \in Threads, Batch(t)
      PROVE  Quiet
  BY <1>1, <1>5 DEF Batch, EnterScope, OpenScope, ScopeReady, ExitScope, Prepare, file, Quiet
<1>6. ASSUME NEW t \in Threads, Swap(t)
      PROVE  Quiet
  BY <1>1, <1>6 DEF Swap, Prepare, file, Quiet
<1>7. ASSUME NEW t \in Threads, Upgrade(t) \/ EndDrain(t) \/ SwapReady(t)
      PROVE  Quiet
  BY <1>1, <1>6, <1>7 DEF Upgrade, EndDrain, SwapReady, file, Quiet
<1>8. ASSUME NEW t \in Threads, Call(t)
      PROVE  Quiet
  BY <1>1, <1>7, <1>8 DEF Call, ConnectShared, ConnectAlone, OpenAlone, AloneReady, OpenFallback, Write, Again, Close,
     Prepare, file, Quiet
<1> QED
  BY <1>2, <1>3, <1>4, <1>5, <1>8

\* A thread has done the k-th statement after a rename, and gone on to the next.
OneOn(t, old, k) ==
    /\ at[t] = SetAside(old) + k /\ at'[t] = SetAside(old) + k + 1
    /\ \A u \in Threads \ {t} : at'[u] = at[u]

LEMMA OneOnIs ==
    ASSUME NEW t \in Threads, NEW old \in Asides, NEW k \in 0..3, OneOn(t, old, k)
    PROVE  /\ \A u \in Threads \ {t} : \A o \in Asides : (Moving(u, o)' <=> Moving(u, o)) /\ (Dropping(u, o)' <=> Dropping(u, o))
           /\ ~Moving(t, Other(old))' /\ ~Dropping(t, Other(old))'
           /\ (Moving(t, old)' <=> k # 3) /\ (Dropping(t, old)' <=> k = 2)
           /\ (Moving(t, old) <=> k # 0) /\ (Dropping(t, old) <=> k = 3)
<1>1. SetAside(old) \in {3, 8} /\ SetAside(Other(old)) \in {3, 8} \ {SetAside(old)}
  BY Places
<1>2. \A u \in Threads \ {t} : \A o \in Asides : (Moving(u, o)' <=> Moving(u, o)) /\ (Dropping(u, o)' <=> Dropping(u, o))
  BY DEF OneOn, Moving, Dropping
<1>3. at[t] = SetAside(old) + k /\ at'[t] = SetAside(old) + k + 1
  BY DEF OneOn
<1>4. ~Moving(t, Other(old))' /\ ~Dropping(t, Other(old))'
  BY <1>1, <1>3 DEF Moving, Dropping
<1>5. (Moving(t, old)' <=> k # 3) /\ (Dropping(t, old)' <=> k = 2)
  BY <1>1, <1>3 DEF Moving, Dropping
<1>6. (Moving(t, old) <=> k # 0) /\ (Dropping(t, old) <=> k = 3)
  BY <1>1, <1>3 DEF Moving, Dropping
<1> QED
  BY <1>2, <1>4, <1>5, <1>6

\* The rename: nobody moves what is not there, and what the bars were is now aside.
LEMMA AsideKeeps ==
    ASSUME FileInv, MoveInv, NEW t \in Threads, NEW old \in Asides, OneOn(t, old, 0),
           ~Raises(<<"rename", old>>, disk), disk' = Executed(<<"rename", old>>, disk)
    PROVE  FileInv' /\ MoveInv'
<1> DEFINE spare == Other(old)
           bars  == "market_bars"
<1>1. FileOk(disk)
  BY DEF FileInv
<1>2. /\ FileOk(disk') /\ disk.table[old] = NoTable /\ disk'.table[old] # NoTable
      /\ BarsIn(disk', old) = BarsIn(disk, bars) /\ BarsIn(disk, old) = {}
      /\ disk'.table[spare] = disk.table[spare] /\ BarsIn(disk', spare) = BarsIn(disk, spare)
  BY <1>1, ExecutedAside
<1>3. spare \in Asides \ {old} /\ Asides = {old, spare} /\ Other(spare) = old /\ Tables = {old, spare, bars}
  BY Places
<1>4. /\ \A u \in Threads \ {t} : \A o \in Asides : (Moving(u, o)' <=> Moving(u, o)) /\ (Dropping(u, o)' <=> Dropping(u, o))
      /\ ~Moving(t, spare)' /\ ~Dropping(t, spare)' /\ ~Dropping(t, old)'
  BY OneOnIs
<1> HIDE DEF spare, bars
<1>5. \A u \in Threads : ~Moving(u, old)
  BY <1>2 DEF MoveInv
<1>6. \A u \in Threads : ~Dropping(u, old)'
  <2>1. SetAside(old) \in {3, 8}
    BY Places
  <2>2. \A u \in Threads : Dropping(u, old) => Moving(u, old)
    BY <2>1 DEF Moving, Dropping
  <2> QED
    BY <1>4, <1>5, <2>2
<1>7. \A u \in Threads : Moving(u, old)' => u = t
  BY <1>4, <1>5
<1>8. \A u, v \in Threads : Moving(u, spare)' => disk'.table[spare] # NoTable /\ (Moving(v, spare)' => v = u)
  BY <1>2, <1>3, <1>4 DEF MoveInv
<1>9. (Whole(bars) \/ Whole(old) => Whole(old)') /\ (Whole(spare) <=> Whole(spare)')
  <2>1. BarsIn(disk, bars) \in {{}, OldBars}
    BY <1>1, <1>3 DEF FileOk
  <2> QED
    BY <1>2, <2>1 DEF Whole
<1>10. FileInv'
  <2>1. \E n \in Tables : Whole(n)'
    BY <1>3, <1>9 DEF FileInv
  <2> QED
    BY <1>2, <2>1 DEF FileInv
<1>11. ASSUME NEW u \in Threads, Dropping(u, spare)', Whole(spare)'
       PROVE  Whole(old)'
  <2>1. u # t /\ Dropping(u, spare) /\ Whole(spare)
    BY <1>3, <1>4, <1>9, <1>11
  <2>2. Whole(bars) \/ Whole(old)
    BY <1>3, <2>1 DEF MoveInv, bars
  <2> QED
    BY <1>9, <2>2
<1>12. MoveInv'
  BY <1>2, <1>3, <1>6, <1>7, <1>8, <1>11 DEF MoveInv
<1> QED
  BY <1>10, <1>12

\* The copy: what was whole aside is whole where it belongs.
LEMMA CopyKeeps ==
    ASSUME FileInv, MoveInv, NEW t \in Threads, NEW old \in Asides, OneOn(t, old, 2),
           ~Raises(<<"copy", old>>, disk), disk' = Executed(<<"copy", old>>, disk)
    PROVE  FileInv' /\ MoveInv'
<1> DEFINE bars == "market_bars"
<1>1. FileOk(disk)
  BY DEF FileInv
<1>2. /\ FileOk(disk') /\ \A o \in Asides : disk'.table[o] = disk.table[o] /\ BarsIn(disk', o) = BarsIn(disk, o)
      /\ BarsIn(disk, old) = OldBars \/ BarsIn(disk, bars) = OldBars => BarsIn(disk', bars) = OldBars
  BY <1>1, ExecutedCopy
<1>3. Other(old) \in Asides \ {old} /\ Asides = {old, Other(old)} /\ Other(Other(old)) = old /\ Tables = Asides \cup {bars}
  BY Places
<1>4. /\ \A u \in Threads \ {t} : \A o \in Asides : (Moving(u, o)' <=> Moving(u, o)) /\ (Dropping(u, o)' <=> Dropping(u, o))
      /\ ~Moving(t, Other(old))' /\ ~Dropping(t, Other(old))' /\ Moving(t, old)
  BY OneOnIs
<1> HIDE DEF bars
<1>5. (\A o \in Asides : Whole(o) <=> Whole(o)') /\ (Whole(old) \/ Whole(bars) => Whole(bars)')
  BY <1>2 DEF Whole
<1>6. FileInv'
  <2>1. \E n \in Tables : Whole(n)'
    BY <1>3, <1>5 DEF FileInv
  <2> QED
    BY <1>2, <2>1 DEF FileInv
<1>7. \A o \in Asides : \A u \in Threads : Moving(u, o)' => Moving(u, o)
  BY <1>3, <1>4
<1>8. \A o \in Asides : \A u, v \in Threads : Moving(u, o)' => disk'.table[o] # NoTable /\ (Moving(v, o)' => v = u)
  BY <1>2, <1>7 DEF MoveInv
<1>9. \A u \in Threads : Whole(old)' => Whole(bars)'
  BY <1>5
<1>10. ASSUME NEW u \in Threads, Dropping(u, Other(old))', Whole(Other(old))'
       PROVE  Whole(bars)'
  <2>1. Dropping(u, Other(old)) /\ Whole(Other(old))
    BY <1>3, <1>4, <1>5, <1>10
  <2>2. Whole(bars) \/ Whole(old)
    BY <1>3, <2>1 DEF MoveInv, bars
  <2> QED
    BY <1>5, <2>2
<1>11. MoveInv'
  BY <1>3, <1>8, <1>9, <1>10 DEF MoveInv, bars
<1> QED
  BY <1>6, <1>11

\* The drop: what is dropped is whole somewhere else, and will not be dropped there.
LEMMA DropKeeps ==
    ASSUME FileInv, MoveInv, NEW t \in Threads, NEW old \in Asides, OneOn(t, old, 3),
           disk' = Executed(<<"drop", old>>, disk)
    PROVE  FileInv' /\ MoveInv'
<1> DEFINE spare == Other(old)
           bars  == "market_bars"
<1>1. FileOk(disk)
  BY DEF FileInv
<1>2. /\ FileOk(disk')
      /\ \A n \in Tables \ {old} : disk'.table[n] = disk.table[n] /\ BarsIn(disk', n) = BarsIn(disk, n)
  BY <1>1, ExecutedDrop
<1>3. spare \in Asides \ {old} /\ Asides = {old, spare} /\ Other(spare) = old /\ Tables = {old, spare, bars} /\ bars # old
  BY Places
<1>4. /\ \A u \in Threads \ {t} : \A o \in Asides : (Moving(u, o)' <=> Moving(u, o)) /\ (Dropping(u, o)' <=> Dropping(u, o))
      /\ ~Moving(t, spare)' /\ ~Dropping(t, spare)' /\ ~Moving(t, old)' /\ Moving(t, old) /\ Dropping(t, old)
  BY OneOnIs
<1> HIDE DEF spare, bars
<1>5. \A u \in Threads : ~Moving(u, old)'
  BY <1>4 DEF MoveInv
<1>6. \A u \in Threads : ~Dropping(u, old)'
  <2>1. \A u \in Threads : Dropping(u, old)' => Moving(u, old)'
    BY Places DEF Moving, Dropping
  <2> QED
    BY <1>5, <2>1
<1>7. \A u, v \in Threads : Moving(u, spare)' => disk'.table[spare] # NoTable /\ (Moving(v, spare)' => v = u)
  BY <1>2, <1>3, <1>4 DEF MoveInv
<1>8. (Whole(bars) <=> Whole(bars)') /\ (Whole(spare) <=> Whole(spare)')
  BY <1>2, <1>3 DEF Whole
<1>9. Whole(bars) \/ (Whole(spare) /\ \A u \in Threads : ~Dropping(u, spare))
      \/ (~Whole(old) /\ Whole(spare))
  <2>1. CASE Whole(old)
    BY <1>4, <2>1 DEF MoveInv, spare, bars
  <2>2. CASE ~Whole(old)
    BY <1>3, <2>2 DEF FileInv
  <2> QED
    BY <2>1, <2>2
<1>10. FileInv'
  <2>1. \E n \in Tables : Whole(n)'
    BY <1>3, <1>8, <1>9
  <2> QED
    BY <1>2, <2>1 DEF FileInv
<1>11. ASSUME NEW u \in Threads, Dropping(u, spare)', Whole(spare)'
       PROVE  Whole(bars)'
  <2>1. Dropping(u, spare) /\ Whole(spare)
    BY <1>3, <1>4, <1>8, <1>11
  <2>2. Whole(bars) \/ (\A v \in Threads : ~Dropping(v, old))
    BY <1>3, <2>1 DEF MoveInv, bars
  <2> QED
    BY <1>4, <1>8, <2>2
<1>12. MoveInv'
  BY <1>3, <1>5, <1>6, <1>7, <1>11 DEF MoveInv, bars
<1> QED
  BY <1>10, <1>12

\* The statements that move nothing.
LEMMA PlainKeeps ==
    ASSUME FileInv, MoveInv, FileOk(disk'),
           \A n \in Tables : BarsIn(disk', n) = BarsIn(disk, n),
           \A o \in Asides : disk'.table[o] = disk.table[o],
           \A t \in Threads : \A o \in Asides : (Moving(t, o)' => Moving(t, o)) /\ (Dropping(t, o)' => Dropping(t, o))
    PROVE  FileInv' /\ MoveInv'
<1>1. \A o \in Asides : disk.table[o] # NoTable => disk'.table[o] # NoTable
  OBVIOUS
<1>2. MoveInv'
  BY <1>1, MoveStays
<1>3. \E n \in Tables : Whole(n)'
  BY DEF FileInv, Whole
<1> QED
  BY <1>2, <1>3 DEF FileInv

LEMMA StatementKeeps ==
    ASSUME StateInv, FileInv, MoveInv, NEW t \in Threads, Statement(t)
    PROVE  FileInv' /\ MoveInv'
<1> DEFINE n == at[t]
<1>1. n \in 1..12
  BY StatementsAre DEF Statement, InSchema
<1>2. /\ at'[t] = Following(n, disk) /\ \A u \in Threads \ {t} : at'[u] = at[u]
      /\ ~Raises(Statements[n], disk) /\ disk' = Executed(Statements[n], disk)
  BY DEF Statement, StateInv, TypeInv
<1>3. FileOk(disk)
  BY DEF FileInv
<1> HIDE DEF n
<1>4. CASE n \in {1, 2, 7, 12}
  <2>1. at'[t] \in {2, 3, 7, 8, 13}
    BY <1>1, <1>2, <1>4, FollowingIs
  <2>2. ASSUME NEW u \in Threads, NEW o \in Asides
        PROVE  (Moving(u, o)' => Moving(u, o)) /\ (Dropping(u, o)' => Dropping(u, o))
    <3>1. SetAside(o) \in {3, 8}
      BY <2>2, Places
    <3>2. CASE u = t
      BY <2>1, <3>1, <3>2 DEF Moving, Dropping
    <3>3. CASE u # t
      BY <1>2, <3>3 DEF Moving, Dropping
    <3> QED
      BY <3>2, <3>3
  <2>3. /\ FileOk(disk') /\ \A m \in Tables : BarsIn(disk', m) = BarsIn(disk, m)
        /\ \A m \in Asides : disk'.table[m] = disk.table[m]
    <3>1. CASE n = 1
      <4>1. disk' = Executed(<<"create", "market_bars">>, disk)
        BY <1>2, <3>1, StatementsAre
      <4> QED
        BY <1>3, <4>1, ExecutedCreate
    <3>2. CASE n # 1
      <4>1. PICK what \in {"columns", "version", "record"} : \E name : disk' = Executed(<<what, name>>, disk)
        BY <1>2, <1>4, <3>2, StatementsAre
      <4>2. PICK name : disk' = Executed(<<what, name>>, disk)
        BY <4>1
      <4>3. FileOk(disk') /\ disk'.table = disk.table /\ \A m \in Tables : BarsIn(disk', m) = BarsIn(disk, m)
        BY <1>3, <4>2, ExecutedElse
      <4> QED
        BY <4>3
    <3> QED
      BY <3>1, <3>2
  <2> QED
    BY <2>2, <2>3, PlainKeeps
<1>5. ASSUME NEW old \in Asides, NEW k \in 0..3, n = SetAside(old) + k
      PROVE  FileInv' /\ MoveInv'
  <2>1. OneOn(t, old, k)
    <3>1. Following(n, disk) = SetAside(old) + k + 1
      BY <1>1, <1>5, FollowingIs
    <3> QED
      BY <1>2, <1>5, <3>1 DEF OneOn, n
  <2>2. SetAside(old) \in {3, 8} /\ (k = 0 \/ k = 1 \/ k = 2 \/ k = 3)
    BY <1>5, Places
  <2>3. CASE k = 0
    <3>1. Statements[n] = <<"rename", old>>
      <4>1. n = SetAside(old)
        BY <1>5, <2>2, <2>3
      <4> QED
        BY <4>1, StatementsAre
    <3> QED
      BY <1>2, <2>1, <2>3, <3>1, AsideKeeps
  <2>4. CASE k = 1
    <3>1. Statements[n] = <<"create", old>>
      BY <1>5, <2>4, StatementsAre
    <3>2. /\ FileOk(disk') /\ \A m \in Tables : BarsIn(disk', m) = BarsIn(disk, m)
          /\ \A m \in Asides : disk'.table[m] = disk.table[m]
      BY <1>2, <1>3, <3>1, ExecutedCreate
    <3>3. ASSUME NEW u \in Threads, NEW o \in Asides
          PROVE  (Moving(u, o)' => Moving(u, o)) /\ (Dropping(u, o)' => Dropping(u, o))
      <4>1. /\ \A v \in Threads \ {t} : (Moving(v, o)' <=> Moving(v, o)) /\ (Dropping(v, o)' <=> Dropping(v, o))
            /\ ~Moving(t, Other(old))' /\ ~Dropping(t, Other(old))' /\ ~Dropping(t, old)' /\ Moving(t, old)
        BY <2>1, <2>4, <3>3, OneOnIs
      <4>2. o = old \/ o = Other(old)
        BY <3>3, Places
      <4> QED
        BY <4>1, <4>2
    <3> QED
      BY <3>2, <3>3, PlainKeeps
  <2>5. CASE k = 2
    <3>1. Statements[n] = <<"copy", old>>
      BY <1>5, <2>5, StatementsAre
    <3> QED
      BY <1>2, <2>1, <2>5, <3>1, CopyKeeps
  <2>6. CASE k = 3
    <3>1. Statements[n] = <<"drop", old>>
      BY <1>5, <2>6, StatementsAre
    <3> QED
      BY <1>2, <2>1, <2>6, <3>1, DropKeeps
  <2> QED
    BY <2>2, <2>3, <2>4, <2>5, <2>6
<1>6. n \in {1, 2, 7, 12} \/ \E old \in Asides : \E k \in 0..3 : n = SetAside(old) + k
  <2>1. CASE n \in 3..6
    <3>1. PICK k \in 0..3 : n = 3 + k
      <4>1. n - 3 \in 0..3 /\ n = 3 + (n - 3)
        BY <1>1, <2>1
      <4> QED
        BY <4>1
    <3> QED
      BY <3>1 DEF SetAside, Asides
  <2>2. CASE n \in 8..11
    <3>1. PICK k \in 0..3 : n = 8 + k
      <4>1. n - 8 \in 0..3 /\ n = 8 + (n - 8)
        BY <1>1, <2>2
      <4> QED
        BY <4>1
    <3> QED
      BY <3>1 DEF SetAside, Asides
  <2> QED
    BY <1>1, <2>1, <2>2
<1> QED
  BY <1>4, <1>5, <1>6

LEMMA FileInit == Init => FileInv /\ MoveInv
<1> SUFFICES ASSUME Init
             PROVE  FileInv /\ MoveInv
  OBVIOUS
<1>1. PICK i \in Instances : disk = i.disk
  BY DEF Init
<1>2. FileOk(disk) /\ BarsOf(disk) = OldBars
  BY <1>1, InstancesAssumption DEF FileOk
<1>3. \E n \in Tables : Whole(n)
  <2>1. CASE OldBars = {}
    <3>1. "market_bars" \in Tables
      BY DEF Tables
    <3> QED
      BY <1>2, <2>1, <3>1 DEF FileOk, Whole
  <2>2. CASE OldBars # {}
    <3>1. PICK b : b \in BarsOf(disk)
      BY <1>2, <2>2
    <3>2. PICK n \in Tables : b \in BarsIn(disk, n)
      BY <3>1 DEF BarsOf
    <3>3. BarsIn(disk, n) # {}
      BY <3>2
    <3>4. BarsIn(disk, n) \in {{}, OldBars}
      BY <1>2 DEF FileOk
    <3> QED
      BY <3>3, <3>4 DEF Whole
  <2> QED
    BY <2>1, <2>2
<1>4. \A t \in Threads : \A o \in Asides : ~Moving(t, o) /\ ~Dropping(t, o)
  <2>1. \A t \in Threads : at[t] = 0
    BY DEF Init, Fresh
  <2> QED
    BY <2>1, Places DEF Moving, Dropping
<1> QED
  BY <1>2, <1>3, <1>4 DEF FileInv, MoveInv

LEMMA Filed == Spec => [](FileInv /\ MoveInv)
<1>1. StateInv /\ FileInv /\ MoveInv /\ [Next]_vars => FileInv' /\ MoveInv'
  <2> SUFFICES ASSUME StateInv, FileInv, MoveInv, [Next]_vars
               PROVE  FileInv' /\ MoveInv'
    OBVIOUS
  <2>1. users \subseteq Threads
    BY DEF StateInv, TypeInv
  <2>2. CASE \E t \in Threads : Statement(t)
    BY <2>2, StatementKeeps
  <2>3. CASE ~\E t \in Threads : Statement(t)
    <3>1. \/ Stranger \/ Crash \/ UNCHANGED vars
          \/ \E t \in Threads : Batch(t) \/ Call(t) \/ StatementRaises(t)
      BY <2>1, <2>3 DEF Next
    <3> QED
      BY <3>1, QuietSteps, QuietKeeps
  <2> QED
    BY <2>2, <2>3
<1> QED
  BY <1>1, FileInit, Pooled, PTL DEF Spec

-----------------------------------------------------------------------------
(* Theorems *)

\* For any number of threads whose batch jobs overlap in any way: the handle of a job that runs is the one
\* every other call finds, and its connection is open unless a swap failed (duckdb_store.py,
\* pooled_connections).
THEOREM BatchesKeepTheirConnection == Spec => []BatchKeepsConnection
<1>1. PoolInv => BatchKeepsConnection
  BY DEF PoolInv, ScopeInv, BatchKeepsConnection
<1> QED
  BY <1>1, Pooled, PTL

\* A cursor taken within a batch lives until it is given back: no other thread's swap closes the connection
\* under it, unless its deadline has passed or it failed (duckdb_store.py, _upgrade).
THEOREM CursorsLive == Spec => []CursorsStayLive
<1>1. PoolInv => CursorsStayLive
  BY DEF PoolInv
<1> QED
  BY <1>1, Pooled, PTL

\* With no call and no batch under way the process has the file closed, whatever happened before
\* (duckdb_store.py, pooled_connections and _connect).
THEOREM FileIsLetGo == Spec => []NothingLeftOpen
<1>1. StateInv /\ PoolInv => NothingLeftOpen
  <2> SUFFICES ASSUME StateInv, PoolInv, \A t \in Threads : pc[t] = "idle" /\ scope[t] = NoHandle
               PROVE  Modes = {} /\ registered = NoHandle
    BY DEF NothingLeftOpen
  <2>1. registered = NoHandle
    <3>1. registered # NoHandle => Scoped(registered) = {}
      BY DEF Scoped
    <3> QED
      BY <3>1 DEF PoolInv, ScopeInv
  <2>2. \A t \in Threads : cursor[t] = NoHandle /\ own[t] = "closed"
    BY DEF StateInv, ThreadInv, WithCursor
  <2>3. \A h \in Handles : conn[h] = "closed"
    BY <2>1, <2>2, NamesAssumption DEF PoolInv, OpenInv, Holders
  <2> QED
    BY <2>1, <2>2, <2>3 DEF Modes
<1> QED
  BY <1>1, Pooled, PTL

\* From every old file each table of which is whole, or created and not yet filled, and in which what has
\* one key or is of one session is one bar: however many threads are at initialize_schema, and wherever the
\* process dies and starts again, every bar stays in one of the tables (duckdb_store.py,
\* _migrate_market_bars and _migrate_bar_timestamps).
THEOREM MigrationsKeepBars == Spec => []BarsKept
<1>1. FileInv => BarsKept
  BY DEF FileInv, Whole, BarsKept, BarsOf
<1> QED
  BY <1>1, Filed, PTL

-----------------------------------------------------------------------------
(* The walk over the providers *)

Fields == {"pc", "kind", "want", "force", "grid", "only", "i", "got", "held", "ask", "asked", "skipped", "unread"}
Kinds  == {"quotes", "daily", "window", "warm", "news"}

Walking(k) == k.pc \in {"turn", "call"}
Walked(k)  == k.pc \in {"store", "extend", "done"}

\* Whom the vendor is asked for: quotes are asked for one by one, the rest for all that is wanted.
For(k) == IF k.kind = "quotes" THEN Missing(k) ELSE k.want

\* The providers before the place of a walk have had their turn at everything wanted, and what is there is of
\* one of them.
WalkInv(k) ==
    /\ DOMAIN k = Fields /\ k.kind \in Kinds
    /\ Walking(k) \/ Walked(k)
    /\ k.i \in 1..(Len(Order(k)) + 1)
    /\ Walking(k) => k.i <= Len(Order(k))
    /\ Walked(k) => k.i = Len(Order(k)) + 1 \/ k.i = 1
    /\ k.pc = "extend" => k.kind = "window"
    /\ \A s \in k.want, j \in 1..(k.i - 1) : InTurn(k, s, j)
    /\ k.kind # "news" /\ Walking(k) => \A s \in DOMAIN k.got : \E j \in 1..(k.i - 1) : Order(k)[j] = k.got[s].via
    /\ k.pc = "call" => \A s \in For(k) : <<Order(k)[k.i], s>> \in k.asked
    /\ k.pc = "call" /\ k.kind = "quotes" => \A s \in DOMAIN k.held : k.held[s].via = Order(k)[k.i]

CallsInv == DOMAIN call = Callers /\ \A c \in Callers : call[c] = Idle \/ WalkInv(call[c])

\* There are so many providers to walk.
LEMMA OrderIs ==
    ASSUME NEW k
    PROVE  Len(Order(k)) \in Nat
<1>1. ASSUME NEW order, NEW X, order \in Seq(X), NEW set
      PROVE  Len(Kept(order, set)) \in Nat
  <2> DEFINE places == {i \in DOMAIN order : order[i] \in set}
             n == Cardinality(places)
  <2>1. IsFiniteSet(places)
    <3>1. Len(order) \in Nat /\ DOMAIN order = 1..Len(order)
      BY <1>1
    <3>2. IsFiniteSet(1..Len(order)) /\ places \in SUBSET (1..Len(order))
      BY <3>1, FS_Interval
    <3> QED
      BY <3>2, FS_Subset
  <2>2. n \in Nat
    BY <2>1, FS_CardinalityType
  <2>3. Kept(order, set) = [m \in 1..n |-> order[CHOOSE i \in places : Cardinality({j \in places : j <= i}) = m]]
    BY DEF Kept
  <2> HIDE DEF n, places
  <2> QED
    BY <2>2, <2>3
<1>2. QuoteOrder \in Seq(Providers) /\ BarOrder \in Seq(Providers) /\ NewsOrder \in Seq(Providers)
  BY MarketDataAssumption
<1>3. <<k.only>> \in Seq({k.only})
  OBVIOUS
<1>4. CASE k.kind = "quotes"
  BY <1>1, <1>2, <1>4 DEF Order
<1>5. CASE k.kind = "news"
  BY <1>1, <1>2, <1>5 DEF Order
<1>6. CASE k.kind \notin {"quotes", "news"} /\ k.kind = "warm"
  BY <1>1, <1>3, <1>6 DEF Order
<1>7. CASE k.kind \notin {"quotes", "news"} /\ k.kind # "warm"
  BY <1>1, <1>2, <1>7 DEF Order
<1> QED
  BY <1>4, <1>5, <1>6, <1>7

\* The same request, with no less than it had.
Later(k, l) ==
    /\ DOMAIN l = Fields /\ l.kind = k.kind /\ l.want = k.want /\ l.only = k.only
    /\ k.asked \subseteq l.asked /\ k.skipped \subseteq l.skipped
    /\ \A s \in k.want \cap DOMAIN k.got : s \in DOMAIN l.got /\ l.got[s].via = k.got[s].via
    /\ k.kind = "news" => DOMAIN k.got \subseteq DOMAIN l.got

\* It has the same providers to walk, and those that had their turn have had it.
LEMMA TurnsStay ==
    ASSUME NEW k, NEW l, Later(k, l)
    PROVE  Order(l) = Order(k) /\ \A s \in k.want : \A j : InTurn(k, s, j) => InTurn(l, s, j)
<1>1. Order(l) = Order(k)
  BY DEF Later, Order
<1>2. ASSUME NEW s \in k.want, NEW j, InTurn(k, s, j)
      PROVE  InTurn(l, s, j)
  <2>1. CASE s \in DOMAIN k.got /\ \E m \in 1..j : Order(k)[m] = k.got[s].via
    BY <1>1, <2>1 DEF Later, InTurn
  <2>2. CASE Order(k)[j] \in k.skipped \/ <<Order(k)[j], s>> \in k.asked
    BY <1>1, <2>2 DEF Later, InTurn
  <2>3. CASE k.kind = "news" /\ Order(k)[j] \in DOMAIN k.got
    BY <1>1, <2>3 DEF Later, InTurn
  <2> QED
    BY <1>2, <2>1, <2>2, <2>3 DEF InTurn
<1> QED
  BY <1>1, <1>2

\* Where the walk goes after the provider with a place.
Goes(k, i, l) ==
    /\ IF i < Len(Order(k)) THEN l.i = i + 1 /\ l.pc = "turn" ELSE l.i = Len(Order(k)) + 1 /\ Walked(l)
    /\ l.pc = "extend" => l.kind = "window"

LEMMA AfterGoes ==
    ASSUME NEW k, DOMAIN k = Fields, k.kind \in Kinds, NEW i
    PROVE  /\ Goes(k, i, After(k, i)) /\ DOMAIN After(k, i) = Fields
           /\ After(k, i).kind = k.kind /\ After(k, i).want = k.want /\ After(k, i).only = k.only
           /\ After(k, i).got = k.got /\ After(k, i).asked = k.asked /\ After(k, i).skipped = k.skipped
<1>1. CASE i < Len(Order(k))
  BY <1>1 DEF After, Goes, Fields
<1>2. CASE ~(i < Len(Order(k)))
  <2> DEFINE end == CASE k.kind = "quotes" -> "store" [] k.kind = "window" -> "extend" [] OTHER -> "done"
  <2>1. end \in {"store", "extend", "done"} /\ (end = "extend" => k.kind = "window")
    BY DEF Kinds
  <2>2. After(k, i) = [k EXCEPT !.i = Len(Order(k)) + 1, !.held = <<>>, !.ask = {}, !.pc = end]
    BY <1>2 DEF After
  <2> HIDE DEF end
  <2> QED
    BY <1>2, <2>1, <2>2 DEF Goes, Fields, Walked
<1> QED
  BY <1>1, <1>2

\* A step to the next provider: the one whose turn it was has had it.
LEMMA NextKeeps ==
    ASSUME NEW k, WalkInv(k), Walking(k), NEW l, Later(k, l), Goes(k, k.i, l),
           \A s \in k.want : InTurn(l, s, k.i),
           k.kind # "news" => \A s \in DOMAIN l.got :
             l.got[s].via = Order(k)[k.i] \/ (s \in DOMAIN k.got /\ l.got[s].via = k.got[s].via)
    PROVE  WalkInv(l)
<1> DEFINE n == Len(Order(k))
<1>1. n \in Nat /\ Order(l) = Order(k) /\ \A s \in k.want : \A j : InTurn(k, s, j) => InTurn(l, s, j)
  BY OrderIs, TurnsStay
<1>2. k.i \in 1..n /\ l.i = k.i + 1 /\ ((l.pc = "turn" /\ k.i < n) \/ (Walked(l) /\ k.i = n))
      /\ (l.pc = "extend" => l.kind = "window")
  BY <1>1 DEF WalkInv, Goes
<1>3. \A s \in l.want, j \in 1..(l.i - 1) : InTurn(l, s, j)
  <2>1. TAKE s \in l.want, j \in 1..(l.i - 1)
  <2>2. s \in k.want
    BY DEF Later
  <2>3. j = k.i \/ j \in 1..(k.i - 1)
    BY <1>1, <1>2
  <2> QED
    BY <1>1, <2>2, <2>3 DEF WalkInv
<1>4. l.kind # "news" /\ Walking(l) => \A s \in DOMAIN l.got : \E j \in 1..(l.i - 1) : Order(l)[j] = l.got[s].via
  <2> SUFFICES ASSUME l.kind # "news", NEW s \in DOMAIN l.got
               PROVE  \E j \in 1..(l.i - 1) : Order(l)[j] = l.got[s].via
    OBVIOUS
  <2>1. k.kind # "news" /\ k.i \in 1..(l.i - 1) /\ \A j \in 1..(k.i - 1) : j \in 1..(l.i - 1)
    BY <1>1, <1>2 DEF Later
  <2>2. CASE l.got[s].via = Order(k)[k.i]
    BY <1>1, <2>1, <2>2
  <2>3. CASE s \in DOMAIN k.got /\ l.got[s].via = k.got[s].via
    <3>1. PICK j \in 1..(k.i - 1) : Order(k)[j] = k.got[s].via
      BY <2>1, <2>3 DEF WalkInv
    <3> QED
      BY <1>1, <2>1, <2>3, <3>1
  <2> QED
    BY <2>1, <2>2, <2>3
<1>5. l.i \in 1..(n + 1) /\ (Walking(l) => l.i <= n) /\ (Walked(l) => l.i = n + 1) /\ l.pc # "call"
      /\ (Walking(l) \/ Walked(l))
  BY <1>1, <1>2 DEF Walking, Walked
<1> QED
  BY <1>1, <1>2, <1>3, <1>4, <1>5 DEF WalkInv, Later

\* The walk is over early when all that is wanted is there.
LEMMA OverKeeps ==
    ASSUME NEW k, WalkInv(k), Walking(k), k.kind # "news", NEW l, Later(k, l), Goes(k, Len(Order(k)), l),
           k.want \subseteq DOMAIN l.got,
           \A s \in DOMAIN l.got :
             l.got[s].via = Order(k)[k.i] \/ (s \in DOMAIN k.got /\ l.got[s].via = k.got[s].via)
    PROVE  WalkInv(l)
<1> DEFINE n == Len(Order(k))
<1>1. n \in Nat /\ Order(l) = Order(k) /\ \A s \in k.want : \A j : InTurn(k, s, j) => InTurn(l, s, j)
  BY OrderIs, TurnsStay
<1>2. k.i \in 1..n /\ l.i = n + 1 /\ Walked(l) /\ (l.pc = "extend" => l.kind = "window")
  BY <1>1 DEF WalkInv, Goes
<1>3. \A s \in DOMAIN l.got : \E j \in 1..k.i : Order(k)[j] = l.got[s].via
  <2>1. TAKE s \in DOMAIN l.got
  <2>2. k.i \in 1..k.i /\ \A j \in 1..(k.i - 1) : j \in 1..k.i
    BY <1>1, <1>2
  <2>3. CASE l.got[s].via = Order(k)[k.i]
    BY <2>2, <2>3
  <2>4. CASE s \in DOMAIN k.got /\ l.got[s].via = k.got[s].via
    <3>1. PICK j \in 1..(k.i - 1) : Order(k)[j] = k.got[s].via
      BY <2>4 DEF WalkInv
    <3> QED
      BY <2>2, <2>4, <3>1
  <2> QED
    BY <2>3, <2>4
<1>4. \A s \in l.want, j \in 1..(l.i - 1) : InTurn(l, s, j)
  <2>1. TAKE s \in l.want, j \in 1..(l.i - 1)
  <2>2. s \in k.want /\ s \in DOMAIN l.got
    BY DEF Later
  <2>3. CASE j < k.i
    <3>1. j \in 1..(k.i - 1)
      BY <1>1, <1>2, <2>3
    <3> QED
      BY <1>1, <2>2, <3>1 DEF WalkInv
  <2>4. CASE ~(j < k.i)
    <3>1. PICK m \in 1..k.i : Order(k)[m] = l.got[s].via
      BY <1>3, <2>2
    <3>2. m \in 1..j
      BY <1>1, <1>2, <2>4, <3>1
    <3> QED
      BY <1>1, <2>2, <3>1, <3>2 DEF InTurn
  <2> QED
    BY <2>3, <2>4
<1>5. l.i \in 1..(n + 1) /\ ~Walking(l) /\ l.pc # "call"
  BY <1>1, <1>2 DEF Walking, Walked
<1> QED
  BY <1>1, <1>2, <1>4, <1>5 DEF WalkInv, Later

\* A provider whose vendor is asked stays where it is.
LEMMA AskKeeps ==
    ASSUME NEW k, WalkInv(k), Walking(k), NEW l, Later(k, l), l.i = k.i, l.pc = "call", l.got = k.got,
           \A s \in For(k) : <<Order(k)[k.i], s>> \in l.asked,
           k.kind = "quotes" => \A s \in DOMAIN l.held : l.held[s].via = Order(k)[k.i]
    PROVE  WalkInv(l)
<1>1. Order(l) = Order(k) /\ \A s \in k.want : \A j : InTurn(k, s, j) => InTurn(l, s, j)
  BY TurnsStay
<1>2. l.kind = k.kind /\ l.want = k.want /\ For(l) = For(k)
  BY DEF Later, For, Missing
<1>3. Walking(l) /\ ~Walked(l)
  BY DEF Walking, Walked
<1>4. k.i \in 1..(Len(Order(k)) + 1) /\ k.i <= Len(Order(k)) /\ k.kind \in Kinds
      /\ (\A s \in k.want, j \in 1..(k.i - 1) : InTurn(k, s, j))
      /\ (k.kind # "news" => \A s \in DOMAIN k.got : \E j \in 1..(k.i - 1) : Order(k)[j] = k.got[s].via)
  BY DEF WalkInv
<1> QED
  BY <1>1, <1>2, <1>3, <1>4 DEF WalkInv, Later

\* What has been asked has had its turn, and what was there before the asking too.
LEMMA CallTurn ==
    ASSUME NEW k, WalkInv(k), k.pc = "call"
    PROVE  \A s \in k.want : InTurn(k, s, k.i)
<1>1. TAKE s \in k.want
<1>2. CASE s \in For(k)
  BY <1>2 DEF WalkInv, InTurn
<1>3. CASE s \notin For(k)
  <2>1. k.kind = "quotes" /\ s \in DOMAIN k.got
    BY <1>3 DEF For, Missing
  <2>2. PICK j \in 1..(k.i - 1) : Order(k)[j] = k.got[s].via
    BY <2>1 DEF WalkInv, Walking
  <2>3. j \in 1..k.i
    BY <2>2, OrderIs DEF WalkInv
  <2> QED
    BY <2>1, <2>2, <2>3 DEF InTurn
<1> QED
  BY <1>2, <1>3

LEMMA OneCall ==
    ASSUME CallsInv, NEW c \in Callers, NEW l, call' = [call EXCEPT ![c] = l], WalkInv(l)
    PROVE  CallsInv'
<1>1. DOMAIN call' = Callers
  BY DEF CallsInv
<1>2. ASSUME NEW d \in Callers
      PROVE  call'[d] = Idle \/ WalkInv(call'[d])
  BY <1>2 DEF CallsInv
<1> QED
  BY <1>1, <1>2 DEF CallsInv

\* Whoever is on his way is walking.
LEMMA OnTheWay ==
    ASSUME CallsInv, NEW c \in Callers, call[c].pc # "idle"
    PROVE  WalkInv(call[c])
BY DEF CallsInv, Idle

-----------------------------------------------------------------------------
(* The steps of a walk *)

\* A request that has been made is at its first provider, or with nobody to ask at its end.
LEMMA StartedWalks ==
    ASSUME NEW r, r.kind \in Kinds, NEW grid, NEW only
    PROVE  /\ WalkInv(Started(NewCall(r, grid, only)))
           /\ WalkInv([NewCall(r, grid, only) EXCEPT !.pc = "store"])
<1> DEFINE k == NewCall(r, grid, only)
           l == [k EXCEPT !.pc = "store"]
<1>1. /\ DOMAIN k = Fields /\ k.kind = r.kind /\ k.want = r.want /\ k.pc = "turn" /\ k.i = 1
      /\ k.got = <<>> /\ k.only = only
  BY DEF NewCall, Fields
<1>2. /\ DOMAIN l = Fields /\ l.kind = r.kind /\ l.want = r.want /\ l.pc = "store" /\ l.i = 1
  BY <1>1 DEF Fields
<1>3. DOMAIN k.got = {}
  BY <1>1
<1>4. Started(k) = IF Len(Order(k)) = 0 THEN Over(k) ELSE k
  BY DEF Started
<1> HIDE DEF k
<1>5. Len(Order(k)) \in Nat /\ Len(Order(l)) \in Nat
  BY OrderIs
<1>6. WalkInv(l)
  <2> HIDE DEF l
  <2> QED
    BY <1>2, <1>5 DEF WalkInv, Walking, Walked
<1>7. ASSUME Len(Order(k)) = 0
      PROVE  WalkInv(Started(k))
  <2> DEFINE m == After(k, Len(Order(k)))
  <2>1. Goes(k, Len(Order(k)), m) /\ DOMAIN m = Fields /\ m.kind = k.kind /\ m.want = k.want /\ m.only = k.only
    BY <1>1, AfterGoes
  <2>2. Started(k) = m
    BY <1>4, <1>7 DEF Over
  <2> HIDE DEF m
  <2>3. Order(m) = Order(k)
    BY <2>1 DEF Order
  <2>4. m.i = 1 /\ Walked(m) /\ (m.pc = "extend" => m.kind = "window")
    BY <1>7, <2>1 DEF Goes
  <2>5. ~Walking(m) /\ m.pc # "call"
    BY <2>4 DEF Walking, Walked
  <2> QED
    BY <1>1, <1>5, <1>7, <2>1, <2>2, <2>3, <2>4, <2>5 DEF WalkInv
<1>8. ASSUME Len(Order(k)) # 0
      PROVE  WalkInv(Started(k))
  <2>1. Started(k) = k /\ 1 <= Len(Order(k)) /\ Walking(k) /\ ~Walked(k)
    BY <1>1, <1>4, <1>5, <1>8 DEF Walking, Walked
  <2>2. WalkInv(k)
    BY <1>1, <1>3, <1>5, <2>1 DEF WalkInv
  <2> QED
    BY <2>1, <2>2
<1> QED
  BY <1>6, <1>7, <1>8 DEF k

LEMMA BeginKeeps ==
    ASSUME CallsInv, NEW c \in Callers, Begin(c) \/ BeginWarm(c)
    PROVE  CallsInv'
<1>0. \A r \in Requests : r.kind \in Kinds /\ [r EXCEPT !.force = TRUE].kind = r.kind
  BY MarketDataAssumption DEF Kinds
<1>1. CASE AskQuotes(c)
  <2>1. PICK r \in Requests : LET k == NewCall(r, None, None)
                             IN \/ call' = [call EXCEPT ![c] = Started(k)]
                                \/ call' = [call EXCEPT ![c] = [k EXCEPT !.pc = "store"]]
    BY <1>1 DEF AskQuotes
  <2> QED
    BY <1>0, <2>1, StartedWalks, OneCall
<1>2. CASE AskBars(c)
  <2>1. PICK r \in Requests :
          call' = [call EXCEPT ![c] = Started(NewCall(r, IF r.kind = "daily" THEN SessionBars ELSE 1, None))]
    BY <1>2 DEF AskBars
  <2> QED
    BY <1>0, <2>1, StartedWalks, OneCall
<1>3. CASE AskNews(c)
  <2>1. PICK r \in Requests : call' = [call EXCEPT ![c] = Started(NewCall(r, None, None))]
    BY <1>3 DEF AskNews
  <2> QED
    BY <1>0, <2>1, StartedWalks, OneCall
<1>4. CASE BeginWarm(c)
  <2>1. PICK r \in Requests, p \in ToSet(BarOrder), wanted \in {1, SessionBars} :
          call' = [call EXCEPT ![c] = Started(NewCall([r EXCEPT !.force = TRUE], wanted, p))]
    BY <1>4 DEF BeginWarm
  <2>2. [r EXCEPT !.force = TRUE].kind \in Kinds
    BY <1>0
  <2> QED
    BY <2>1, <2>2, StartedWalks, OneCall
<1> QED
  BY <1>1, <1>2, <1>3, <1>4 DEF Begin

\* What becomes of a request whose provider has had its turn, and what may be added to it.
LEMMA MovedOn ==
    ASSUME NEW k, WalkInv(k)
    PROVE  LET m == Next1(k) IN
           /\ Goes(k, k.i, m) /\ DOMAIN m = Fields /\ m.kind = k.kind /\ m.want = k.want /\ m.only = k.only
           /\ m.got = k.got /\ m.asked = k.asked /\ m.skipped = k.skipped
BY AfterGoes DEF WalkInv, Next1

LEMMA MovedOnWithMore ==
    ASSUME NEW k, WalkInv(k), NEW m, NEW i, NEW g, Goes(k, i, m),
           DOMAIN m = Fields, m.kind = k.kind, m.want = k.want, m.only = k.only, m.got = k.got,
           m.asked = k.asked, m.skipped = k.skipped
    PROVE  LET l == [m EXCEPT !.got = Filled(k.got, g)] IN
           /\ Goes(k, i, l) /\ Later(k, l) /\ l.want = k.want /\ l.kind = k.kind
           /\ l.got = Filled(k.got, g)
<1> DEFINE l == [m EXCEPT !.got = Filled(k.got, g)]
<1>1. /\ DOMAIN l = Fields /\ l.got = Filled(k.got, g) /\ l.kind = m.kind /\ l.want = m.want /\ l.only = m.only
      /\ l.asked = m.asked /\ l.skipped = m.skipped /\ l.i = m.i /\ l.pc = m.pc
  BY DEF Fields
<1> HIDE DEF l
<1>2. Goes(k, i, l)
  BY <1>1 DEF Goes, Walked
<1>0. /\ DOMAIN Filled(k.got, g) = DOMAIN k.got \cup DOMAIN g
      /\ \A x \in DOMAIN k.got : Filled(k.got, g)[x] = k.got[x]
      /\ \A x \in DOMAIN g \ DOMAIN k.got : Filled(k.got, g)[x] = g[x]
  BY DEF Filled
<1>3. Later(k, l)
  BY <1>0, <1>1 DEF Later
<1> QED
  BY <1>1, <1>2, <1>3 DEF l

\* What the provider whose turn it is adds: with it, it has had its turn.
Adds(k, g) ==
    /\ k.kind # "news" => \A s \in DOMAIN g : g[s].via = Order(k)[k.i]
    /\ \A s \in k.want : \/ k.kind # "news" /\ s \in DOMAIN k.got \cup DOMAIN g
                         \/ k.kind = "news" /\ Order(k)[k.i] \in DOMAIN g
                         \/ InTurn(k, s, k.i)

\* The next provider, with what the one before it added.
LEMMA MoreKeeps ==
    ASSUME NEW k, WalkInv(k), Walking(k), NEW g, Adds(k, g)
    PROVE  WalkInv([Next1(k) EXCEPT !.got = Filled(k.got, g)])
<1> DEFINE m == Next1(k)
           l == [m EXCEPT !.got = Filled(k.got, g)]
<1>1. /\ Goes(k, k.i, m) /\ DOMAIN m = Fields /\ m.kind = k.kind /\ m.want = k.want /\ m.only = k.only
      /\ m.got = k.got /\ m.asked = k.asked /\ m.skipped = k.skipped
  BY MovedOn
<1> HIDE DEF m
<1>2. Goes(k, k.i, l) /\ Later(k, l) /\ l.want = k.want /\ l.kind = k.kind /\ l.got = Filled(k.got, g)
  BY <1>1, MovedOnWithMore
<1> HIDE DEF l
<1>0. /\ DOMAIN Filled(k.got, g) = DOMAIN k.got \cup DOMAIN g
      /\ \A x \in DOMAIN k.got : Filled(k.got, g)[x] = k.got[x]
      /\ \A x \in DOMAIN g \ DOMAIN k.got : Filled(k.got, g)[x] = g[x]
  BY DEF Filled
<1>3. DOMAIN l.got = DOMAIN k.got \cup DOMAIN g
  BY <1>0, <1>2
<1>4. k.kind # "news" => \A s \in DOMAIN l.got :
        l.got[s].via = Order(k)[k.i] \/ (s \in DOMAIN k.got /\ l.got[s].via = k.got[s].via)
  <2> SUFFICES ASSUME k.kind # "news", NEW s \in DOMAIN l.got
               PROVE  l.got[s].via = Order(k)[k.i] \/ (s \in DOMAIN k.got /\ l.got[s].via = k.got[s].via)
    OBVIOUS
  <2> QED
    BY <1>0, <1>2, <1>3 DEF Adds
<1>5. \A s \in k.want : InTurn(l, s, k.i)
  <2>1. TAKE s \in k.want
  <2>2. Order(l) = Order(k) /\ \A j : InTurn(k, s, j) => InTurn(l, s, j)
    BY <1>2, TurnsStay
  <2>3. CASE k.kind # "news" /\ s \in DOMAIN k.got \cup DOMAIN g
    <3>1. s \in DOMAIN l.got
      BY <1>3, <2>3
    <3>2. k.i \in 1..k.i /\ \A j \in 1..(k.i - 1) : j \in 1..k.i
      BY OrderIs DEF WalkInv
    <3>3. \E j \in 1..k.i : Order(k)[j] = l.got[s].via
      BY <1>4, <2>3, <3>1, <3>2 DEF WalkInv
    <3> QED
      BY <2>2, <3>1, <3>3 DEF InTurn
  <2>4. CASE k.kind = "news" /\ Order(k)[k.i] \in DOMAIN g
    BY <1>2, <1>3, <2>2, <2>4 DEF InTurn
  <2>5. CASE InTurn(k, s, k.i)
    BY <2>2, <2>5
  <2> QED
    BY <2>3, <2>4, <2>5 DEF Adds
<1>6. WalkInv(l)
  BY <1>2, <1>4, <1>5, NextKeeps
<1> QED
  BY <1>6 DEF l, m

\* The end of the walk, with what the last one asked added.
LEMMA MoreIsAll ==
    ASSUME NEW k, WalkInv(k), Walking(k), k.kind # "news", NEW g, \A s \in DOMAIN g : g[s].via = Order(k)[k.i],
           k.want \subseteq DOMAIN k.got \cup DOMAIN g
    PROVE  WalkInv([Over(k) EXCEPT !.got = Filled(k.got, g)])
<1> DEFINE m == Over(k)
           l == [m EXCEPT !.got = Filled(k.got, g)]
<1>1. /\ Goes(k, Len(Order(k)), m) /\ DOMAIN m = Fields /\ m.kind = k.kind /\ m.want = k.want /\ m.only = k.only
      /\ m.got = k.got /\ m.asked = k.asked /\ m.skipped = k.skipped
  BY AfterGoes DEF WalkInv, Over
<1> HIDE DEF m
<1>2. Goes(k, Len(Order(k)), l) /\ Later(k, l) /\ l.want = k.want /\ l.kind = k.kind /\ l.got = Filled(k.got, g)
  BY <1>1, MovedOnWithMore
<1> HIDE DEF l
<1>0. /\ DOMAIN Filled(k.got, g) = DOMAIN k.got \cup DOMAIN g
      /\ \A x \in DOMAIN k.got : Filled(k.got, g)[x] = k.got[x]
      /\ \A x \in DOMAIN g \ DOMAIN k.got : Filled(k.got, g)[x] = g[x]
  BY DEF Filled
<1>3. DOMAIN l.got = DOMAIN k.got \cup DOMAIN g
  BY <1>0, <1>2
<1>4. \A s \in DOMAIN l.got :
        l.got[s].via = Order(k)[k.i] \/ (s \in DOMAIN k.got /\ l.got[s].via = k.got[s].via)
  BY <1>0, <1>2, <1>3
<1>5. WalkInv(l)
  BY <1>2, <1>3, <1>4, OverKeeps
<1> QED
  BY <1>5 DEF l, m

\* A vendor that has been asked and had nothing: the next one.
LEMMA RefusedKeeps ==
    ASSUME NEW k, WalkInv(k), k.pc = "call"
    PROVE  WalkInv(Next1(k))
<1> DEFINE m == Next1(k)
<1>1. /\ Goes(k, k.i, m) /\ DOMAIN m = Fields /\ m.kind = k.kind /\ m.want = k.want /\ m.only = k.only
      /\ m.got = k.got /\ m.asked = k.asked /\ m.skipped = k.skipped
  BY MovedOn
<1> HIDE DEF m
<1>2. Later(k, m)
  BY <1>1 DEF Later
<1>3. \A s \in k.want : InTurn(m, s, k.i)
  BY <1>2, CallTurn, TurnsStay
<1>4. Walking(k)
  BY DEF Walking
<1>5. WalkInv(m)
  BY <1>1, <1>2, <1>3, <1>4, NextKeeps
<1> QED
  BY <1>5 DEF m

LEMMA SkipQuotesKeeps ==
    ASSUME CallsInv, NEW c \in Callers, SkipQuotes(c)
    PROVE  CallsInv'
<1> DEFINE k == call[c]
           m == Next1(k)
           l == [m EXCEPT !.skipped = @ \cup {Order(k)[k.i]}]
<1>1. k.pc = "turn" /\ WalkInv(k) /\ Walking(k) /\ call' = [call EXCEPT ![c] = l]
  BY OnTheWay DEF SkipQuotes, AtQuotes, AtNews, Walking, Turn
<1>2. /\ Goes(k, k.i, m) /\ DOMAIN m = Fields /\ m.kind = k.kind /\ m.want = k.want /\ m.only = k.only
      /\ m.got = k.got /\ m.asked = k.asked /\ m.skipped = k.skipped
  BY <1>1, MovedOn
<1> HIDE DEF k, m
<1>3. /\ DOMAIN l = Fields /\ l.got = m.got /\ l.kind = m.kind /\ l.want = m.want /\ l.only = m.only
      /\ l.asked = m.asked /\ l.skipped = m.skipped \cup {Order(k)[k.i]} /\ l.i = m.i /\ l.pc = m.pc
  BY <1>2 DEF Fields
<1> HIDE DEF l
<1>4. Later(k, l) /\ Goes(k, k.i, l)
  BY <1>2, <1>3 DEF Later, Goes, Walked
<1>5. \A s \in k.want : InTurn(l, s, k.i)
  BY <1>2, <1>3, <1>4, TurnsStay DEF InTurn
<1>6. WalkInv(l)
  BY <1>1, <1>2, <1>3, <1>4, <1>5, NextKeeps
<1> QED
  BY <1>1, <1>6, OneCall

LEMMA ReadQuotesKeeps ==
    ASSUME CallsInv, NEW c \in Callers, ReadQuotes(c)
    PROVE  CallsInv'
<1> DEFINE k    == call[c]
           p    == Turn(c)
           hits == {s \in Missing(k) : ~k.force /\ Cached(p, s)}
           read == [s \in hits |-> [via |-> p, at |-> cache[p][s], live |-> TRUE]]
           ask  == Missing(k) \ hits
           more == [Next1(k) EXCEPT !.got = Filled(@, read)]
           out  == [k EXCEPT !.pc = "call", !.held = read, !.ask = ask, !.asked = @ \cup ({p} \X Missing(k))]
<1>1. k.pc = "turn" /\ k.kind = "quotes" /\ WalkInv(k) /\ Walking(k) /\ p = Order(k)[k.i]
  BY OnTheWay DEF ReadQuotes, AtQuotes, Walking, Turn
<1>2. call' = [call EXCEPT ![c] = IF Missing(k) = {} THEN Over(k) ELSE IF ask = {} THEN more ELSE out]
  BY DEF ReadQuotes
<1>3. DOMAIN read = hits /\ hits \subseteq Missing(k) /\ \A s \in hits : read[s].via = p
  OBVIOUS
<1>4. DOMAIN k = Fields /\ Missing(k) = k.want \ DOMAIN k.got
  BY <1>1 DEF WalkInv, Missing
<1> HIDE DEF k, p, hits, read
<1>5. CASE Missing(k) = {}
  <2> DEFINE m == Over(k)
  <2>1. /\ Goes(k, Len(Order(k)), m) /\ DOMAIN m = Fields /\ m.kind = k.kind /\ m.want = k.want /\ m.only = k.only
        /\ m.got = k.got /\ m.asked = k.asked /\ m.skipped = k.skipped
    BY <1>1, AfterGoes DEF Over, WalkInv
  <2> HIDE DEF m
  <2>2. Later(k, m) /\ k.want \subseteq DOMAIN m.got
    BY <1>4, <1>5, <2>1 DEF Later
  <2>3. WalkInv(m)
    BY <1>1, <2>1, <2>2, OverKeeps
  <2> QED
    BY <1>2, <1>5, <2>3, OneCall DEF m
<1>6. CASE Missing(k) # {} /\ ask = {}
  <2>1. Next1(k).got = k.got
    BY <1>1, MovedOn
  <2>2. more = [Next1(k) EXCEPT !.got = Filled(k.got, read)]
    BY <2>1
  <2> HIDE DEF more
  <2>3. \A s \in k.want : k.kind # "news" /\ s \in DOMAIN k.got \cup DOMAIN read
    BY <1>1, <1>3, <1>4, <1>6
  <2>4. \A s \in DOMAIN read : read[s].via = Order(k)[k.i]
    BY <1>1, <1>3
  <2>5. WalkInv([Next1(k) EXCEPT !.got = Filled(k.got, read)])
    <3>1. Adds(k, read)
      BY <2>3, <2>4 DEF Adds
    <3> QED
      BY <1>1, <3>1, MoreKeeps
  <2> QED
    BY <1>2, <1>6, <2>2, <2>5, OneCall
<1>7. CASE Missing(k) # {} /\ ask # {}
  <2>1. /\ DOMAIN out = Fields /\ out.kind = k.kind /\ out.want = k.want /\ out.only = k.only /\ out.i = k.i
        /\ out.pc = "call" /\ out.got = k.got /\ out.held = read /\ out.skipped = k.skipped
        /\ out.asked = k.asked \cup ({p} \X Missing(k))
    BY <1>4 DEF Fields
  <2> HIDE DEF out
  <2>2. Later(k, out)
    BY <2>1 DEF Later
  <2>3. \A s \in For(k) : <<Order(k)[k.i], s>> \in out.asked
    BY <1>1, <2>1 DEF For
  <2>4. WalkInv(out)
    BY <1>1, <1>3, <2>1, <2>2, <2>3, AskKeeps
  <2> QED
    BY <1>2, <1>7, <2>4, OneCall
<1> QED
  BY <1>5, <1>6, <1>7

LEMMA QuotesAnsweredKeeps ==
    ASSUME CallsInv, NEW c \in Callers, QuotesAnswered(c)
    PROVE  CallsInv'
<1> DEFINE k == call[c]
           p == Turn(c)
<1>1. PICK some \in Quoted(p, k.ask) : call' = [call EXCEPT ![c] = [Next1(k) EXCEPT !.got =
               Filled(@, Filled(k.held, [s \in some |-> [via |-> p, at |-> now, live |-> TRUE]]))]]
  BY DEF QuotesAnswered
<1> DEFINE new == [s \in some |-> [via |-> p, at |-> now, live |-> TRUE]]
           g   == Filled(k.held, new)
           l   == [Next1(k) EXCEPT !.got = Filled(k.got, g)]
<1>2. k.pc = "call" /\ k.kind = "quotes" /\ WalkInv(k) /\ Walking(k) /\ p = Order(k)[k.i]
  BY OnTheWay DEF QuotesAnswered, InCall, Walking, Turn
<1>3. \A s \in DOMAIN new : new[s].via = p
  OBVIOUS
<1> HIDE DEF k, p, new
<1>4. \A s \in DOMAIN k.held : k.held[s].via = p
  BY <1>2 DEF WalkInv
<1>0. /\ DOMAIN Filled(k.held, new) = DOMAIN k.held \cup DOMAIN new
      /\ \A x \in DOMAIN k.held : Filled(k.held, new)[x] = k.held[x]
      /\ \A x \in DOMAIN new \ DOMAIN k.held : Filled(k.held, new)[x] = new[x]
  BY DEF Filled
<1>5. \A s \in DOMAIN g : g[s].via = p
  BY <1>0, <1>3, <1>4
<1>6. call' = [call EXCEPT ![c] = l]
  BY <1>1, <1>2, MovedOn DEF new
<1> HIDE DEF g
<1>7. Adds(k, g)
  BY <1>2, <1>5, CallTurn DEF Adds
<1>8. WalkInv(l)
  BY <1>2, <1>7, MoreKeeps
<1> QED
  BY <1>6, <1>8, OneCall

LEMMA AllRefusedKeep ==
    ASSUME CallsInv, NEW c \in Callers, QuotesRefused(c) \/ BarsRefused(c) \/ NewsRefused(c)
    PROVE  CallsInv'
<1>1. call[c].pc = "call" /\ call' = [call EXCEPT ![c] = Next1(call[c])]
  BY DEF QuotesRefused, BarsRefused, NewsRefused, InCall
<1>2. WalkInv(call[c])
  BY <1>1, OnTheWay
<1> QED
  BY <1>1, <1>2, RefusedKeeps, OneCall

\* A walk that is over stays so, whatever is added.
LEMMA DoneKeeps ==
    ASSUME NEW k, WalkInv(k), Walked(k), NEW l, Later(k, l), l.pc = "done", l.i = k.i
    PROVE  WalkInv(l)
<1>1. Order(l) = Order(k) /\ \A s \in k.want : \A j : InTurn(k, s, j) => InTurn(l, s, j)
  BY TurnsStay
<1>2. Walked(l) /\ ~Walking(l)
  BY DEF Walked, Walking
<1>3. /\ k.i \in 1..(Len(Order(k)) + 1) /\ k.kind \in Kinds /\ (k.i = Len(Order(k)) + 1 \/ k.i = 1)
      /\ \A s \in k.want, j \in 1..(k.i - 1) : InTurn(k, s, j)
  BY DEF WalkInv
<1> QED
  BY <1>1, <1>2, <1>3 DEF WalkInv, Later

LEMMA FromStoreKeeps ==
    ASSUME CallsInv, NEW c \in Callers, FromStore(c)
    PROVE  CallsInv'
<1> DEFINE k == call[c]
<1>1. PICK price : call' = [call EXCEPT ![c].pc = "done", ![c].got = Filled(@,
            [s \in {x \in DOMAIN price : price[x] # None} |-> [via |-> "store", at |-> price[s], live |-> FALSE]])]
  BY DEF FromStore
<1> DEFINE g == [s \in {x \in DOMAIN price : price[x] # None} |-> [via |-> "store", at |-> price[s], live |-> FALSE]]
           l == [k EXCEPT !.pc = "done", !.got = Filled(k.got, g)]
<1>2. k.pc = "store" /\ WalkInv(k) /\ Walked(k)
  BY OnTheWay DEF FromStore, Walked
<1> HIDE DEF g
<1>3. call' = [call EXCEPT ![c] = l]
  BY <1>1, <1>2 DEF CallsInv, WalkInv, Fields, g
<1> HIDE DEF k
<1>4. /\ DOMAIN l = Fields /\ l.kind = k.kind /\ l.want = k.want /\ l.only = k.only /\ l.i = k.i /\ l.pc = "done"
      /\ l.asked = k.asked /\ l.skipped = k.skipped /\ l.got = Filled(k.got, g)
  BY <1>2 DEF WalkInv, Fields
<1> HIDE DEF l
<1>0. /\ DOMAIN Filled(k.got, g) = DOMAIN k.got \cup DOMAIN g
      /\ \A x \in DOMAIN k.got : Filled(k.got, g)[x] = k.got[x]
      /\ \A x \in DOMAIN g \ DOMAIN k.got : Filled(k.got, g)[x] = g[x]
  BY DEF Filled
<1>5. DOMAIN k.got \subseteq DOMAIN l.got /\ \A s \in DOMAIN k.got : l.got[s] = k.got[s]
  BY <1>0, <1>4
<1>6. Later(k, l)
  BY <1>4, <1>5 DEF Later
<1>7. WalkInv(l)
  BY <1>2, <1>4, <1>6, DoneKeeps
<1> QED
  BY <1>3, <1>7, OneCall

LEMMA ExtendKeeps ==
    ASSUME CallsInv, NEW c \in Callers, Extend(c)
    PROVE  CallsInv'
<1> DEFINE k == call[c]
<1>1. PICK bad \in {{}, k.want} : LET whole == [s \in k.want |-> IF s \in bad THEN FrameOf(k, s) ELSE Extended(k, s)] IN call' = [call EXCEPT ![c].pc = "done", ![c].unread = bad, ![c].got =
            [s \in k.want |-> [via |-> IF s \in DOMAIN k.got THEN k.got[s].via ELSE "store", bars |-> whole[s]]]]
  BY DEF Extend
<1> DEFINE whole == [s \in k.want |-> IF s \in bad THEN FrameOf(k, s) ELSE Extended(k, s)]
           g == [s \in k.want |-> [via |-> IF s \in DOMAIN k.got THEN k.got[s].via ELSE "store", bars |-> whole[s]]]
           l == [k EXCEPT !.pc = "done", !.unread = bad, !.got = g]
<1>2. k.pc = "extend" /\ WalkInv(k) /\ Walked(k)
  BY OnTheWay DEF Extend, Walked
<1>3. DOMAIN g = k.want /\ \A s \in k.want \cap DOMAIN k.got : g[s].via = k.got[s].via
  OBVIOUS
<1>4. call' = [call EXCEPT ![c] = l]
  <2> HIDE DEF g
  <2> QED
    BY <1>1, <1>2 DEF CallsInv, WalkInv, Fields, g
<1> HIDE DEF k, g
<1>5. /\ DOMAIN l = Fields /\ l.kind = k.kind /\ l.want = k.want /\ l.only = k.only /\ l.i = k.i /\ l.pc = "done"
      /\ l.asked = k.asked /\ l.skipped = k.skipped /\ l.got = g
  BY <1>2 DEF WalkInv, Fields
<1> HIDE DEF l
<1>6. Later(k, l)
  BY <1>2, <1>3, <1>5 DEF Later, WalkInv
<1>7. WalkInv(l)
  BY <1>2, <1>5, <1>6, DoneKeeps
<1> QED
  BY <1>4, <1>7, OneCall

\* What a provider supplies ends the walk when it is all, and else it goes on.
LEMMA SupplyKeeps ==
    ASSUME NEW k, WalkInv(k), Walking(k), k.kind # "news", NEW frames,
           \A s \in k.want : <<Order(k)[k.i], s>> \in k.asked \/ (s \in DOMAIN frames /\ frames[s] # {})
    PROVE  WalkInv(Supply(k, Order(k)[k.i], frames))
<1> DEFINE p   == Order(k)[k.i]
           new == {s \in DOMAIN frames \ DOMAIN k.got : frames[s] # {}}
           g   == [s \in new |-> [via |-> p, bars |-> frames[s]]]
           got == Filled(k.got, g)
<1>1. Supply(k, p, frames) = [(IF k.want \subseteq DOMAIN got THEN Over(k) ELSE Next1(k)) EXCEPT !.got = got]
  BY DEF Supply
<1>2. DOMAIN g = new /\ \A s \in new : g[s].via = p
  OBVIOUS
<1>3. DOMAIN got = DOMAIN k.got \cup new
  BY DEF Filled
<1>4. \A s \in k.want : <<p, s>> \in k.asked \/ s \in DOMAIN k.got \cup new
  OBVIOUS
<1> HIDE DEF g, new
<1>5. CASE k.want \subseteq DOMAIN got
  <2>1. Supply(k, p, frames) = [Over(k) EXCEPT !.got = Filled(k.got, g)]
    BY <1>1, <1>5
  <2>2. k.want \subseteq DOMAIN k.got \cup DOMAIN g /\ \A s \in DOMAIN g : g[s].via = Order(k)[k.i]
    BY <1>2, <1>3, <1>5
  <2> QED
    BY <2>1, <2>2, MoreIsAll
<1>6. CASE ~(k.want \subseteq DOMAIN got)
  <2>1. Supply(k, p, frames) = [Next1(k) EXCEPT !.got = Filled(k.got, g)]
    BY <1>1, <1>6
  <2>2. Adds(k, g)
    BY <1>2, <1>4 DEF Adds, InTurn
  <2> QED
    BY <2>1, <2>2, MoreKeeps
<1> QED
  BY <1>5, <1>6

LEMMA ReadBarsKeeps ==
    ASSUME CallsInv, NEW c \in Callers, ReadBars(c)
    PROVE  CallsInv'
<1> DEFINE k    == call[c]
           p    == Turn(c)
           bars == [s \in k.want |-> IF k.force THEN {} ELSE StillFresh(p, s, GridOf(c), Limit(c))]
           hits == {s \in k.want : bars[s] # {}}
           held == [s \in hits |-> bars[s]]
           out  == [k EXCEPT !.pc = "call", !.held = held, !.ask = k.want \ hits, !.asked = @ \cup ({p} \X k.want)]
<1>1. /\ k.pc = "turn" /\ k.kind \in {"daily", "window", "warm"} /\ WalkInv(k) /\ Walking(k)
      /\ p = Order(k)[k.i]
  BY OnTheWay DEF ReadBars, AtBars, Walking, Turn
<1>2. call' = [call EXCEPT ![c] = IF hits = k.want THEN Supply(k, p, held) ELSE out]
  BY DEF ReadBars
<1>3. DOMAIN held = hits /\ \A s \in hits : held[s] # {}
  OBVIOUS
<1>4. DOMAIN k = Fields
  BY <1>1 DEF WalkInv
<1> HIDE DEF k, p, hits, held
<1>5. CASE hits = k.want
  <2>1. \A s \in k.want : <<Order(k)[k.i], s>> \in k.asked \/ (s \in DOMAIN held /\ held[s] # {})
    BY <1>3, <1>5
  <2>2. WalkInv(Supply(k, p, held))
    BY <1>1, <2>1, SupplyKeeps
  <2> QED
    BY <1>2, <1>5, <2>2, OneCall
<1>6. CASE hits # k.want
  <2>1. /\ DOMAIN out = Fields /\ out.kind = k.kind /\ out.want = k.want /\ out.only = k.only /\ out.i = k.i
        /\ out.pc = "call" /\ out.got = k.got /\ out.skipped = k.skipped
        /\ out.asked = k.asked \cup ({p} \X k.want)
    BY <1>4 DEF Fields
  <2> HIDE DEF out
  <2>2. Later(k, out)
    BY <2>1 DEF Later
  <2>3. \A s \in For(k) : <<Order(k)[k.i], s>> \in out.asked
    BY <1>1, <2>1 DEF For
  <2>4. WalkInv(out)
    BY <1>1, <2>1, <2>2, <2>3, AskKeeps
  <2> QED
    BY <1>2, <1>6, <2>4, OneCall
<1> QED
  BY <1>5, <1>6

LEMMA BarsAnsweredKeeps ==
    ASSUME CallsInv, NEW c \in Callers, BarsAnswered(c)
    PROVE  CallsInv'
<1> DEFINE k == call[c]
           p == Turn(c)
<1>1. PICK f : call' = [call EXCEPT ![c] = Supply(k, p, Filled(k.held, f))]
  BY DEF BarsAnswered
<1>2. /\ k.pc = "call" /\ k.kind \in {"daily", "window", "warm"} /\ WalkInv(k) /\ Walking(k)
      /\ p = Order(k)[k.i]
  BY OnTheWay DEF BarsAnswered, InCall, Walking, Turn
<1> HIDE DEF k, p
<1>3. \A s \in k.want : <<Order(k)[k.i], s>> \in k.asked
  BY <1>2 DEF WalkInv, For
<1>4. WalkInv(Supply(k, Order(k)[k.i], Filled(k.held, f)))
  BY <1>2, <1>3, SupplyKeeps
<1> QED
  BY <1>1, <1>2, <1>4, OneCall

LEMMA ReadNewsKeeps ==
    ASSUME CallsInv, NEW c \in Callers, ReadNews(c)
    PROVE  CallsInv'
<1> DEFINE k   == call[c]
           p   == Turn(c)
           out == [k EXCEPT !.pc = "call", !.asked = @ \cup ({p} \X k.want)]
<1>1. k.pc = "turn" /\ k.kind = "news" /\ WalkInv(k) /\ Walking(k) /\ p = Order(k)[k.i]
  BY OnTheWay DEF ReadNews, AtNews, Walking, Turn
<1>2. PICK held : call' = [call EXCEPT ![c] =
          IF held # None THEN [Next1(k) EXCEPT !.got = Filled(@, [q \in {p} |-> [via |-> p, at |-> held]])] ELSE out]
  BY DEF ReadNews
<1> DEFINE g == [q \in {p} |-> [via |-> p, at |-> held]]
<1>3. DOMAIN g = {p} /\ DOMAIN k = Fields
  BY <1>1 DEF WalkInv
<1> HIDE DEF k, p
<1>4. CASE held # None
  <2>1. call' = [call EXCEPT ![c] = [Next1(k) EXCEPT !.got = Filled(k.got, g)]]
    BY <1>1, <1>2, <1>4, MovedOn
  <2> HIDE DEF g
  <2>2. Adds(k, g)
    BY <1>1, <1>3 DEF Adds
  <2>3. WalkInv([Next1(k) EXCEPT !.got = Filled(k.got, g)])
    BY <1>1, <2>2, MoreKeeps
  <2> QED
    BY <2>1, <2>3, OneCall
<1>5. CASE held = None
  <2>1. /\ DOMAIN out = Fields /\ out.kind = k.kind /\ out.want = k.want /\ out.only = k.only /\ out.i = k.i
        /\ out.pc = "call" /\ out.got = k.got /\ out.skipped = k.skipped
        /\ out.asked = k.asked \cup ({p} \X k.want)
    BY <1>3 DEF Fields
  <2> HIDE DEF out
  <2>2. Later(k, out)
    BY <2>1 DEF Later
  <2>3. \A s \in For(k) : <<Order(k)[k.i], s>> \in out.asked
    BY <1>1, <2>1 DEF For
  <2>4. WalkInv(out)
    BY <1>1, <2>1, <2>2, <2>3, AskKeeps
  <2> QED
    BY <1>2, <1>5, <2>4, OneCall
<1> QED
  BY <1>4, <1>5

LEMMA NewsAnsweredKeeps ==
    ASSUME CallsInv, NEW c \in Callers, NewsAnswered(c)
    PROVE  CallsInv'
<1> DEFINE k == call[c]
           p == Turn(c)
<1>1. PICK some \in BOOLEAN : call' = [call EXCEPT ![c] =
        IF some THEN [Next1(k) EXCEPT !.got = Filled(@, [q \in {p} |-> [via |-> p, at |-> now]])] ELSE Next1(k)]
  BY DEF NewsAnswered
<1> DEFINE g == [q \in {p} |-> [via |-> p, at |-> now]]
           m == Next1(k)
<1>2. k.pc = "call" /\ k.kind = "news" /\ WalkInv(k) /\ Walking(k)
  BY OnTheWay DEF NewsAnswered, InCall, Walking
<1>3. m.got = k.got /\ DOMAIN m = Fields
  BY <1>2, MovedOn
<1> HIDE DEF k, g, m
<1>4. CASE some
  <2>1. call' = [call EXCEPT ![c] = [m EXCEPT !.got = Filled(k.got, g)]]
    BY <1>1, <1>3, <1>4 DEF m, g
  <2>2. Adds(k, g)
    BY <1>2, CallTurn DEF Adds
  <2>3. WalkInv([m EXCEPT !.got = Filled(k.got, g)])
    BY <1>2, <2>2, MoreKeeps DEF m
  <2> QED
    BY <2>1, <2>3, OneCall
<1>5. CASE ~some
  <2>1. WalkInv(m)
    BY <1>2, RefusedKeeps DEF m
  <2> QED
    BY <1>1, <1>5, <2>1, OneCall DEF m
<1> QED
  BY <1>4, <1>5

-----------------------------------------------------------------------------
LEMMA StepKeeps ==
    ASSUME CallsInv, [MarketNext]_marketVars
    PROVE  CallsInv'
<1>1. CASE UNCHANGED call
  BY <1>1 DEF CallsInv
<1>2. ASSUME NEW c \in Callers, Step(c)
      PROVE  CallsInv'
  BY <1>2, BeginKeeps, SkipQuotesKeeps, ReadQuotesKeeps, QuotesAnsweredKeeps, AllRefusedKeep, FromStoreKeeps,
     ReadBarsKeeps, BarsAnsweredKeeps, ExtendKeeps, ReadNewsKeeps, NewsAnsweredKeeps DEF Step
<1> QED
  BY <1>1, <1>2 DEF MarketNext, Tick, Prune, marketVars

\* Of every request that has been made the providers passed so far have had their turn, whatever the providers,
\* their order and their answers: load_current_prices, _run_provider_fallback, fetch_latest_news_sentiment.
THEOREM WalksAreInOrder == MarketSpec => []CallsInv
<1>1. MarketInit => CallsInv
  BY DEF MarketInit, CallsInv
<1>2. CallsInv /\ [MarketNext]_marketVars => CallsInv'
  BY StepKeeps
<1> QED
  BY <1>1, <1>2, PTL DEF MarketSpec

\* Nothing is left unanswered, and nothing answered by a later provider, before the earlier ones had their turn:
\* load_current_prices, _run_provider_fallback and fetch_latest_news_sentiment, for every order of providers.
THEOREM ProvidersHaveTheirTurn == MarketSpec => []EveryProviderInTurn
<1>1. CallsInv => EveryProviderInTurn
  <2> SUFFICES ASSUME CallsInv, NEW c \in Callers, call[c] # Idle, call[c].pc \in {"extend", "done"},
                      call[c].i > 1, NEW s \in call[c].want, NEW i \in 1..Len(Order(call[c]))
               PROVE  InTurn(call[c], s, i)
    BY DEF EveryProviderInTurn
  <2> DEFINE k == call[c]
  <2>1. WalkInv(k)
    BY DEF CallsInv
  <2>2. k.i = Len(Order(k)) + 1
    BY <2>1 DEF WalkInv, Walked
  <2>3. i \in 1..(k.i - 1)
    BY <2>2, OrderIs
  <2> QED
    BY <2>1, <2>3 DEF WalkInv
<1> QED
  BY <1>1, WalksAreInOrder, PTL

=============================================================================
