---------------------------- MODULE StoresProofs ----------------------------
(***************************************************************************)
(* Proofs about the two stores that whoever changes a part reads and       *)
(* writes whole: the documents of AppState and the file of ConfigStore.    *)
(*                                                                         *)
(* AppState, for every set of threads, bindings and requests, every bound  *)
(* and every number of restarts: a document that was never saved while     *)
(* another operation had it loaded is what turns would have made of it,    *)
(* an answer from a cache is about what was asked, and the next session    *)
(* starts from a token that works.  The inductive invariant says of each   *)
(* thread which documents it has open, that its copies of them are still   *)
(* what the store holds, and what it will file an answer under.            *)
(*                                                                         *)
(* ConfigStore, for every number of request threads, every account, body,  *)
(* image and older file: the file is the abstract document of              *)
(* ConfigDocument, an order goes to the account its binding names, and     *)
(* what was saved is what is read.                                         *)
(* The first rests on the lock: what a thread has written to the temporary *)
(* name is still there when it renames it, because only the thread that    *)
(* holds the lock writes it, and a start writes it before there are        *)
(* threads.  The last rests on what reading does to what saving has done:  *)
(* controls are sanitized twice, and the second time changes nothing.      *)
(***************************************************************************)
EXTENDS AppState, ConfigStore, FiniteSetTheorems, TLAPS

-----------------------------------------------------------------------------
(* The inductive invariant                                                 *)

RunFields  == {"pc", "run", "binding", "book", "memory", "fills"}
ViewFields == {"pc", "request", "refresh", "key", "ask", "cache", "payload"}

\* The fields of what a thread is doing.
Shaped(w) ==
  /\ w.pc \in {"opened", "planned", "marked", "committed"} => DOMAIN w = RunFields /\ w.binding \in Bindings
  /\ w.pc \in {"keyed", "computing", "replaying", "replayed", "computed"} =>
       DOMAIN w = ViewFields /\ w.request \in Requests

\* The documents a thread has open.
Opened(w, ds) ==
  /\ w.pc \in {"idle", "committed", "keyed", "session", "consented"} => ds = {}
  /\ w.pc = "opened" => ds = {Book(AccountOf[w.binding])}
  /\ w.pc = "planned" => ds = {Book(AccountOf[w.binding]), Memory(w.binding)}
  /\ w.pc = "marked" => ds = {Memory(w.binding)}
  /\ w.pc = "journalling" => ds = {Journal}
  /\ w.pc \in {"computing", "replaying", "replayed", "computed"} => ds = {Cache(w.request.kind)}
  /\ w.pc \in {"rotated", "stamped"} => ds = {Token}
  /\ w.pc = "returned" => ds = {Pending}

Pcs == {"idle", "opened", "planned", "marked", "committed", "journalling", "keyed", "computing",
        "replaying", "replayed", "computed", "session", "rotated", "stamped", "returned", "consented"}

\* Its copies are what the store holds.
Copies(w) ==
  /\ w.pc \in {"opened", "planned"} =>
       Book(AccountOf[w.binding]) \in mixed \/ w.book = store[Book(AccountOf[w.binding])]
  /\ w.pc \in {"planned", "marked"} => Memory(w.binding) \in mixed \/ w.memory = store[Memory(w.binding)]
  /\ w.pc = "journalling" => Journal \in mixed \/ w.journal = store[Journal]
  /\ w.pc \in {"computing", "replaying", "replayed", "computed"} =>
       Cache(w.request.kind) \in mixed \/ w.cache = store[Cache(w.request.kind)]

\* A payload is for a key when the key names it, or was another by the time it was computed.
For(payload, key) == payload.raced \/ Named(payload.of) = key
Filed(cache) == \A key \in DOMAIN cache : For(cache[key], key)

Asked(w) ==
  /\ w.pc \in {"keyed", "computing", "replaying", "replayed", "computed"} => w.key = Named(w.ask)
  /\ w.pc \in {"computing", "replaying", "replayed", "computed"} => Filed(w.cache)
  /\ w.pc \in {"replaying", "replayed", "computed"} => For(w.payload, w.key)

ThreadInv(t) ==
  /\ work[t].pc \in Pcs /\ Shaped(work[t])
  /\ Opened(work[t], open[t]) /\ Copies(work[t]) /\ Asked(work[t])

TypeOK ==
  /\ DOMAIN store = Documents /\ truth = [d \in Documents |-> truth[d]]
  /\ DOMAIN work = Threads /\ DOMAIN open = Threads

SerialInv ==
  /\ TypeOK
  /\ \A t \in Threads : ThreadInv(t)
  /\ \A k \in Kinds : Filed(store[Cache(k)])
  /\ SerialState
  /\ CacheAnswersItsKey

-----------------------------------------------------------------------------
(* What a step leaves to the threads that do not take it                   *)

\* t has saved d, or nothing.
Saves(t, d) ==
  /\ \A e \in Documents \ {d} : store'[e] = store[e]
  /\ mixed' = MixedBy(t, d)

LEMMA Others ==
    ASSUME SerialInv, NEW t \in Threads, NEW u \in Threads, u # t,
           work'[u] = work[u], open'[u] = open[u],
           UNCHANGED <<store, mixed>> \/ \E d \in Documents : Saves(t, d)
    PROVE  ThreadInv(u)'
<1>1. ThreadInv(u)
  BY DEF SerialInv
<1>2. (work[u].pc \in Pcs)' /\ Shaped(work[u])' /\ Opened(work[u], open[u])' /\ Asked(work[u])'
  <2>1. (work[u].pc \in Pcs)' /\ Shaped(work[u])'
    BY <1>1 DEF ThreadInv, Shaped, Pcs
  <2>2. Opened(work[u], open[u])'
    BY <1>1 DEF ThreadInv, Opened, Book, Memory, Cache, Journal, Token, Pending
  <2>3. Asked(work[u])'
    BY <1>1 DEF ThreadInv, Asked, Filed, For
  <2> QED
    BY <2>1, <2>2, <2>3
<1>3. Copies(work[u])'
  <2>1. CASE UNCHANGED <<store, mixed>>
    BY <1>1, <2>1 DEF ThreadInv, Copies, Book, Memory, Cache, Journal
  <2>2. CASE \E d \in Documents : Saves(t, d)
    <3>1. PICK d \in Documents : Saves(t, d)
      BY <2>2
    <3>2. \A e \in open[u] \cap Documents : e \in mixed' \/ (e \notin mixed /\ store'[e] = store[e])
      BY <3>1 DEF Saves, MixedBy
    <3>3. open[u] \subseteq Documents
      BY <1>1 DEF ThreadInv, Opened, Shaped, Pcs, Documents, Accounts, Kinds
    <3> QED
      BY <1>1, <3>2, <3>3 DEF ThreadInv, Copies, Opened
  <2> QED
    BY <2>1, <2>2
<1> QED
  BY <1>2, <1>3 DEF ThreadInv

\* A step of one thread: it goes on, and may save one document, as turns would have it or mixed.
Moves(t) ==
  /\ DOMAIN work' = Threads /\ DOMAIN open' = Threads
  /\ \A u \in Threads \ {t} : work'[u] = work[u] /\ open'[u] = open[u]
Files(t, d, v) ==
  /\ store' = [store EXCEPT ![d] = v] /\ mixed' = MixedBy(t, d)
  /\ \E turns : truth' = [truth EXCEPT ![d] = turns] /\ (d \in mixed' \/ v = turns)
  /\ (\E k \in Kinds : d = Cache(k)) => Filed(v)

LEMMA ThreadStep ==
    ASSUME SerialInv, NEW t \in Threads, Moves(t),
           UNCHANGED <<store, truth, mixed>> \/ \E d \in Documents : \E v : Files(t, d, v),
           ThreadInv(t)', CacheAnswersItsKey'
    PROVE  SerialInv'
<1>1. TypeOK'
  BY DEF SerialInv, TypeOK, Moves, Files, Documents, Kinds, Accounts, Book, Memory, Cache, Journal, Token, Pending
<1>2. ASSUME NEW u \in Threads
      PROVE  ThreadInv(u)'
  <2>1. UNCHANGED <<store, mixed>> \/ \E d \in Documents : Saves(t, d)
    BY DEF Files, Saves, SerialInv, TypeOK
  <2>2. CASE u # t
    <3>1. work'[u] = work[u] /\ open'[u] = open[u]
      BY <2>2 DEF Moves, SerialInv, TypeOK
    <3> QED
      BY <2>1, <2>2, <3>1, Others
  <2> QED
    BY <2>2
<1>3. ASSUME NEW k \in Kinds
      PROVE  Filed(store[Cache(k)])'
  <2>1. Cache(k) \in Documents /\ Filed(store[Cache(k)])
    BY DEF SerialInv, Documents
  <2>2. CASE UNCHANGED <<store, truth, mixed>>
    BY <2>1, <2>2 DEF Filed, For, Cache
  <2>3. ASSUME NEW d \in Documents, NEW v, Files(t, d, v)
        PROVE  Filed(store[Cache(k)])'
    <3>1. store'[Cache(k)] = IF d = Cache(k) THEN v ELSE store[Cache(k)]
      BY <2>1, <2>3 DEF Files, SerialInv, TypeOK
    <3>2. Filed(store'[Cache(k)])
      BY <2>1, <2>3, <3>1 DEF Files
    <3> QED
      BY <3>2 DEF Filed, For, Cache
  <2> QED
    BY <2>2, <2>3
<1>4. SerialState'
  <2>1. CASE UNCHANGED <<store, truth, mixed>>
    BY <1>1, <2>1 DEF SerialInv, SerialState, TypeOK
  <2>2. ASSUME NEW d \in Documents, NEW v, Files(t, d, v)
        PROVE  SerialState'
    <3>1. Documents' = Documents
      BY DEF Documents, Accounts, Kinds, Book, Memory, Cache, Journal, Token, Pending
    <3> QED
      BY <2>2, <3>1 DEF SerialInv, SerialState, TypeOK, Files, MixedBy
  <2> QED
    BY <2>1, <2>2
<1> QED
  BY <1>1, <1>2, <1>3, <1>4 DEF SerialInv, Kinds

-----------------------------------------------------------------------------
(* The steps of a run, of a view and of a session                          *)

\* A thread's new work is what ThreadInv says of the new record and the new set of open documents.
LEMMA RunSteps ==
    ASSUME SerialInv, NEW t \in Threads, Runs(t)
    PROVE  SerialInv'
<1> DEFINE w == work[t]
           book == Book(AccountOf[w.binding])
<1> USE DEF Goes, Loads, Lets, Begins, Idle
<1>1. /\ ThreadInv(t) /\ TypeOK
      /\ CacheAnswersItsKey /\ SerialState
  BY DEF SerialInv
<1>2. /\ Documents' = Documents /\ Pcs' = Pcs
      /\ \A b \in Bindings : Book(AccountOf[b]) \in Documents /\ Memory(b) \in Documents
      /\ Journal \in Documents
      /\ \A b, c, k : Book(b) # Memory(c) /\ Book(b) # Cache(k) /\ Memory(b) # Cache(k)
      /\ \A k : Journal # Cache(k)
  BY DEF Documents, Accounts, Kinds, Book, Memory, Cache, Journal, Token, Pending
<1>3. ASSUME NEW b \in Bindings, OpenBrokerage(t, b)
      PROVE  SerialInv'
  <2>1. Moves(t)
    BY <1>1, <1>3 DEF OpenBrokerage, Moves, TypeOK
  <2>2. ThreadInv(t)'
    BY <1>1, <1>2, <1>3 DEF OpenBrokerage, ThreadInv, TypeOK, Pcs, Shaped, Opened, Copies, Asked, RunFields
  <2> QED
    BY <1>1, <1>3, <2>1, <2>2, ThreadStep DEF OpenBrokerage, CacheAnswersItsKey
<1>4. ASSUME LoadMemory(t)
      PROVE  SerialInv'
  <2>1. Moves(t)
    BY <1>1, <1>4 DEF LoadMemory, Moves, TypeOK
  <2>2. ThreadInv(t)'
    BY <1>1, <1>2, <1>4 DEF LoadMemory, ThreadInv, TypeOK, Pcs, Shaped, Opened, Copies, Asked, RunFields
  <2> QED
    BY <1>1, <1>4, <2>1, <2>2, ThreadStep DEF LoadMemory, CacheAnswersItsKey
<1>5. ASSUME PlanNothing(t)
      PROVE  SerialInv'
  <2>1. Moves(t)
    BY <1>1, <1>5 DEF PlanNothing, Moves, TypeOK
  <2>2. ThreadInv(t)'
    BY <1>1, <1>2, <1>5 DEF PlanNothing, ThreadInv, TypeOK, Pcs, Shaped, Opened, Copies, Asked, RunFields
  <2> QED
    BY <1>1, <1>5, <2>1, <2>2, ThreadStep DEF PlanNothing, CacheAnswersItsKey
<1>6. ASSUME FillOrder(t)
      PROVE  SerialInv'
  <2>1. Moves(t)
    BY <1>1, <1>6 DEF FillOrder, Moves, TypeOK
  <2> DEFINE fill == <<w.run, Len(w.fills) + 1>>
  <2>0. w.pc = "planned" /\ book \in Documents /\ w.binding \in Bindings /\ DOMAIN w = RunFields
    BY <1>1, <1>2, <1>6 DEF FillOrder, ThreadInv, Shaped
  <2>2. Files(t, book, w.book \cup {fill})
    <3>1. store' = [store EXCEPT ![book] = w.book \cup {fill}] /\ mixed' = MixedBy(t, book)
      BY <1>6, <2>0 DEF FillOrder, Saved, Redirected
    <3>2. truth' = [truth EXCEPT ![book] = truth[book] \cup {fill}]
      BY <1>6 DEF FillOrder
    <3>3. book \in mixed' \/ w.book = truth[book]
      BY <1>1, <2>0, <3>1 DEF MixedBy, ThreadInv, Copies, SerialState
    <3>4. \A k \in Kinds : book # Cache(k)
      BY <1>2
    <3> HIDE DEF fill, book
    <3> QED
      BY <3>1, <3>2, <3>3, <3>4 DEF Files
  <2>3. ThreadInv(t)'
    <3> DEFINE v == work'[t]
    <3>1. /\ v.pc = "planned" /\ v.binding = w.binding /\ v.book = w.book \cup {fill}
          /\ v.memory = w.memory /\ DOMAIN v = RunFields
      <4> DEFINE fills == Append(w.fills, fill)
      <4>1. v = [w EXCEPT !.book = w.book \cup {fill}, !.fills = fills]
        BY <1>1, <1>6 DEF FillOrder, TypeOK
      <4> HIDE DEF fill, v, fills
      <4> QED
        BY <2>0, <4>1 DEF RunFields
    <3>2. open'[t] = open[t]
      BY <1>6 DEF FillOrder
    <3>3. store' = [store EXCEPT ![book] = w.book \cup {fill}] /\ mixed \subseteq mixed'
      BY <2>2 DEF Files, MixedBy
    <3>4. store'[book] = w.book \cup {fill} /\ store'[Memory(w.binding)] = store[Memory(w.binding)]
      <4> HIDE DEF fill
      <4> QED
        BY <1>1, <1>2, <2>0, <3>3 DEF TypeOK
    <3> HIDE DEF fill
    <3>5. v.pc \in Pcs /\ Shaped(v)
      BY <2>0, <3>1 DEF Pcs, Shaped
    <3>6. Opened(v, open'[t])
      BY <1>1, <2>0, <3>1, <3>2 DEF ThreadInv, Opened
    <3>7. Copies(work[t])'
      BY <1>1, <2>0, <3>1, <3>3, <3>4 DEF ThreadInv, Copies, Book, Memory
    <3>8. Asked(v)
      BY <3>1 DEF Asked
    <3> QED
      BY <3>5, <3>6, <3>7, <3>8 DEF ThreadInv, Pcs, Shaped, Opened, Asked, Filed, For, Book, Memory, Cache, Journal, Token, Pending
  <2>4. book \in Documents
    BY <1>1, <1>2, <1>6 DEF FillOrder, ThreadInv, Shaped
  <2> QED
    BY <1>1, <1>6, <2>1, <2>2, <2>3, <2>4, ThreadStep DEF FillOrder, CacheAnswersItsKey
<1>7. ASSUME MarkPrices(t)
      PROVE  SerialInv'
  <2>1. Moves(t)
    BY <1>1, <1>7 DEF MarkPrices, Moves, TypeOK
  <2>2. Files(t, book, w.book)
    <3>1. truth' = [truth EXCEPT ![book] = truth[book]]
      BY <1>1, <1>7 DEF MarkPrices, TypeOK
    <3>2. w.pc = "planned" /\ w.binding \in Bindings
      BY <1>1, <1>7 DEF MarkPrices, ThreadInv, Shaped
    <3>3. store' = [store EXCEPT ![book] = w.book] /\ mixed' = MixedBy(t, book)
      BY <1>7, <3>2 DEF MarkPrices, Saved, Redirected
    <3>4. mixed \subseteq mixed' /\ (book \in mixed \/ w.book = truth[book])
      BY <1>1, <1>2, <3>2, <3>3 DEF MixedBy, ThreadInv, Copies, SerialState
    <3>5. \A k \in Kinds : book # Cache(k)
      BY <1>2
    <3> QED
      BY <3>1, <3>3, <3>4, <3>5 DEF Files
  <2>3. ThreadInv(t)'
    BY <1>1, <1>2, <1>7, <2>2
       DEF MarkPrices, Files, MixedBy, ThreadInv, TypeOK, Pcs, Shaped, Opened, Copies, Asked, RunFields
  <2>4. book \in Documents
    BY <1>1, <1>2, <1>7 DEF MarkPrices, ThreadInv, Shaped
  <2> QED
    BY <1>1, <1>7, <2>1, <2>2, <2>3, <2>4, ThreadStep DEF MarkPrices, CacheAnswersItsKey
<1>8. ASSUME Commit(t)
      PROVE  SerialInv'
  <2>1. Moves(t)
    BY <1>1, <1>8 DEF Commit, Moves, TypeOK
  <2>2. Files(t, Memory(w.binding), w.memory \cup {w.run})
    BY <1>1, <1>2, <1>8 DEF Commit, Files, Saved, Redirected, MixedBy, ThreadInv, TypeOK, Shaped, Copies, SerialState
  <2>3. ThreadInv(t)'
    BY <1>1, <1>2, <1>8, <2>2
       DEF Commit, Files, MixedBy, ThreadInv, TypeOK, Pcs, Shaped, Opened, Copies, Asked, RunFields
  <2>4. Memory(w.binding) \in Documents
    BY <1>1, <1>2, <1>8 DEF Commit, ThreadInv, Shaped
  <2> QED
    BY <1>1, <1>8, <2>1, <2>2, <2>3, <2>4, ThreadStep DEF Commit, CacheAnswersItsKey
<1>9. ASSUME LoadJournal(t)
      PROVE  SerialInv'
  <2>1. Moves(t)
    BY <1>1, <1>9 DEF LoadJournal, Moves, TypeOK
  <2>2. ThreadInv(t)'
    BY <1>1, <1>2, <1>9 DEF LoadJournal, ThreadInv, TypeOK, Pcs, Shaped, Opened, Copies, Asked, RunFields
  <2> QED
    BY <1>1, <1>9, <2>1, <2>2, ThreadStep DEF LoadJournal, CacheAnswersItsKey
<1>10. ASSUME SaveJournal(t)
       PROVE  SerialInv'
  <2>1. Moves(t)
    BY <1>1, <1>10 DEF SaveJournal, Moves, TypeOK
  <2>2. Files(t, Journal, Newest(w.journal \o w.fills))
    BY <1>1, <1>2, <1>10 DEF SaveJournal, Files, Saved, Redirected, MixedBy, ThreadInv, TypeOK, Copies, SerialState
  <2>3. ThreadInv(t)'
    BY <1>1, <1>2, <1>10, <2>2
       DEF SaveJournal, Files, MixedBy, ThreadInv, TypeOK, Pcs, Shaped, Opened, Copies, Asked
  <2> QED
    BY <1>1, <1>2, <1>10, <2>1, <2>2, <2>3, ThreadStep DEF SaveJournal, CacheAnswersItsKey
<1> QED
  BY <1>3, <1>4, <1>5, <1>6, <1>7, <1>8, <1>9, <1>10 DEF Runs

LEMMA ViewSteps ==
    ASSUME SerialInv, NEW t \in Threads, Views(t)
    PROVE  SerialInv'
<1> DEFINE w == work[t]
           doc == Cache(w.request.kind)
<1> USE DEF Goes, Loads, Lets, Begins, Idle
<1>1. /\ ThreadInv(t) /\ TypeOK
      /\ CacheAnswersItsKey /\ SerialState
  BY DEF SerialInv
<1>2. /\ Documents' = Documents /\ Pcs' = Pcs
      /\ \A r \in Requests : Cache(r.kind) \in Documents /\ Filed(store[Cache(r.kind)])
  BY DEF SerialInv, Documents, Accounts, Kinds, Book, Memory, Cache, Journal, Token, Pending
<1>3. ASSUME NEW r \in Requests, NEW refresh \in BOOLEAN, Ask(t, r, refresh)
      PROVE  SerialInv'
  <2>1. Moves(t)
    BY <1>1, <1>3 DEF Ask, Moves, TypeOK
  <2>2. ThreadInv(t)'
    BY <1>1, <1>3 DEF Ask, Key, ThreadInv, TypeOK, Pcs, Shaped, Opened, Copies, Asked, ViewFields
  <2> QED
    BY <1>1, <1>3, <2>1, <2>2, ThreadStep DEF Ask, CacheAnswersItsKey
<1>4. ASSUME LoadCache(t)
      PROVE  SerialInv'
  <2>0. /\ w.pc = "keyed" /\ w.request \in Requests /\ DOMAIN w = ViewFields /\ w.key = Named(w.ask)
        /\ Filed(store[doc])
    BY <1>1, <1>2, <1>4 DEF LoadCache, ThreadInv, Shaped, Asked
  <2>1. Moves(t)
    BY <1>1, <1>4 DEF LoadCache, Moves, TypeOK
  <2>2. CASE w.refresh
    <3>1. /\ work'[t] = [w EXCEPT !.pc = "computing", !.cache = store[doc]]
          /\ open'[t] = open[t] \cup {doc} /\ UNCHANGED <<answered, store, truth, mixed>>
      BY <1>1, <1>4, <2>2 DEF LoadCache, TypeOK
    <3>2. /\ work'[t].pc = "computing" /\ DOMAIN work'[t] = ViewFields
          /\ work'[t].request = w.request /\ work'[t].key = w.key /\ work'[t].ask = w.ask
          /\ work'[t].cache = store[doc]
      BY <2>0, <3>1 DEF ViewFields
    <3>3. ThreadInv(t)'
      BY <1>1, <2>0, <3>1, <3>2
         DEF ThreadInv, Pcs, Shaped, Opened, Copies, Asked, ViewFields, Filed, For, Cache
    <3> QED
      BY <1>1, <2>1, <3>1, <3>3, ThreadStep DEF CacheAnswersItsKey
  <2>3. CASE ~w.refresh
    <3>1. ThreadInv(t)'
      BY <1>1, <1>4, <2>3 DEF LoadCache, ThreadInv, TypeOK, Pcs, Shaped, Opened, Copies, Asked
    <3>2. CacheAnswersItsKey'
      BY <1>1, <1>4, <2>0, <2>3 DEF LoadCache, CacheAnswersItsKey, Filed, For
    <3> QED
      BY <1>4, <2>1, <3>1, <3>2, ThreadStep DEF LoadCache
  <2> QED
    BY <2>2, <2>3
<1>5. ASSUME Compute(t)
      PROVE  SerialInv'
  <2>0. /\ w.pc = "computing" /\ w.request \in Requests /\ DOMAIN w = ViewFields
        /\ w.key = Named(w.ask) /\ Filed(w.cache)
    BY <1>1, <1>5 DEF Compute, ThreadInv, Shaped, Asked
  <2>1. Moves(t)
    BY <1>1, <1>5 DEF Compute, Moves, TypeOK
  <2> DEFINE payload == [of |-> Basis(w.request), raced |-> Key(w.request) # w.key]
             next == IF w.request.kind = "backtest" THEN "replaying" ELSE "computed"
  <2>2. /\ work'[t] = [w EXCEPT !.pc = next, !.payload = payload]
        /\ open'[t] = open[t] /\ UNCHANGED <<answered, store, truth, mixed>>
    BY <1>1, <1>5 DEF Compute, TypeOK
  <2>3. For(payload, w.key)
    BY DEF For, Key
  <2>4. /\ work'[t].pc = next /\ DOMAIN work'[t] = ViewFields
        /\ work'[t].request = w.request /\ work'[t].key = w.key /\ work'[t].ask = w.ask
        /\ work'[t].cache = w.cache /\ work'[t].payload = payload
    <3> HIDE DEF payload, next
    <3> QED
      BY <2>0, <2>2 DEF ViewFields
  <2>5. next \in {"replaying", "computed"}
    OBVIOUS
  <2>6. ThreadInv(t)'
    <3> HIDE DEF payload, next
    <3> QED
      BY <1>1, <2>0, <2>2, <2>3, <2>4, <2>5
         DEF ThreadInv, Pcs, Shaped, Opened, Copies, Asked, ViewFields, Filed, For, Cache
  <2> QED
    BY <1>1, <2>1, <2>2, <2>6, ThreadStep DEF CacheAnswersItsKey
<1>6. ASSUME ReplayRun(t) \/ ReplayEnds(t)
      PROVE  SerialInv'
  <2> DEFINE next == IF w.pc = "replaying" THEN "replayed" ELSE "computed"
  <2>0. /\ w.pc \in {"replaying", "replayed"} /\ w.request \in Requests
        /\ DOMAIN w = ViewFields
        /\ w.key = Named(w.ask) /\ Filed(w.cache) /\ For(w.payload, w.key)
    BY <1>1, <1>6 DEF ReplayRun, ReplayEnds, ThreadInv, Shaped, Asked
  <2>1. Moves(t)
    BY <1>1, <1>6 DEF ReplayRun, ReplayEnds, Moves, TypeOK
  <2>2. /\ work'[t] = [w EXCEPT !.pc = next]
        /\ open'[t] = open[t] /\ UNCHANGED <<answered, store, truth, mixed>>
    BY <1>1, <1>6, <2>0 DEF ReplayRun, ReplayEnds, Redirected, TypeOK
  <2>3. next \in {"replayed", "computed"}
    OBVIOUS
  <2>4. /\ work'[t].pc = next /\ DOMAIN work'[t] = ViewFields
        /\ work'[t].request = w.request /\ work'[t].key = w.key /\ work'[t].ask = w.ask
        /\ work'[t].cache = w.cache /\ work'[t].payload = w.payload
    <3> HIDE DEF next
    <3> QED
      BY <2>0, <2>2 DEF ViewFields
  <2>5. ThreadInv(t)'
    <3> HIDE DEF next
    <3> QED
      BY <1>1, <2>0, <2>2, <2>3, <2>4
         DEF ThreadInv, Pcs, Shaped, Opened, Copies, Asked, ViewFields, Filed, For, Cache
  <2> QED
    BY <1>1, <2>1, <2>2, <2>5, ThreadStep DEF CacheAnswersItsKey
<1>7. ASSUME SaveCache(t)
      PROVE  SerialInv'
  <2> DEFINE filed == Filing(w.cache, w.key, w.payload)
  <2>0. /\ w.pc = "computed" /\ w.request \in Requests /\ doc \in Documents
        /\ Filed(w.cache) /\ For(w.payload, w.key)
        /\ doc \in mixed \/ w.cache = store[doc]
    BY <1>1, <1>2, <1>7 DEF SaveCache, ThreadInv, Shaped, Asked, Copies
  <2>1. Moves(t)
    BY <1>1, <1>7 DEF SaveCache, Moves, TypeOK
  <2>2. Files(t, doc, filed)
    <3>1. store' = [store EXCEPT ![doc] = filed] /\ mixed' = MixedBy(t, doc)
      BY <1>7, <2>0 DEF SaveCache, Saved, Redirected
    <3>2. truth' = [truth EXCEPT ![doc] = Filing(truth[doc], w.key, w.payload)]
      BY <1>7 DEF SaveCache
    <3>3. doc \in mixed' \/ w.cache = truth[doc]
      BY <1>1, <2>0, <3>1 DEF MixedBy, SerialState
    <3>4. Filed(filed)
      BY <2>0 DEF Filed, For, Filing
    <3> HIDE DEF doc
    <3> QED
      BY <3>1, <3>2, <3>3, <3>4 DEF Files
  <2>3. ThreadInv(t)'
    BY <1>1, <1>7 DEF SaveCache, ThreadInv, TypeOK, Pcs, Shaped, Opened, Copies, Asked
  <2> HIDE DEF doc, filed
  <2> QED
    BY <1>1, <1>7, <2>0, <2>1, <2>2, <2>3, ThreadStep DEF SaveCache, CacheAnswersItsKey
<1> QED
  BY <1>3, <1>4, <1>5, <1>6, <1>7 DEF Views

LEMMA TokenSteps ==
    ASSUME SerialInv, NEW t \in Threads, Tokens(t)
    PROVE  SerialInv'
<1> DEFINE w == work[t]
<1> USE DEF Goes, Loads, Lets, Begins, Idle
<1>1. /\ ThreadInv(t) /\ TypeOK /\ CacheAnswersItsKey
  BY DEF SerialInv
<1>2. /\ Documents' = Documents /\ Token \in Documents /\ Pending \in Documents
      /\ \A k : Token # Cache(k) /\ Pending # Cache(k)
  BY DEF Documents, Accounts, Kinds, Book, Memory, Cache, Journal, Token, Pending
<1>3. ASSUME \/ OpenSession(t) \/ RefreshRefused(t) \/ RefreshKeeps(t) \/ RefreshRotates(t)
             \/ LoadIssued(t) \/ CallBack(t) \/ Exchange(t)
      PROVE  SerialInv'
  <2> USE DEF OpenSession, RefreshRefused, RefreshKeeps, RefreshRotates, LoadIssued, CallBack, Exchange
  <2>1. Moves(t)
    BY <1>1, <1>3 DEF Moves, TypeOK
  <2>2. ThreadInv(t)'
    BY <1>1, <1>3 DEF ThreadInv, TypeOK, Pcs, Shaped, Opened, Copies, Asked
  <2>3. UNCHANGED <<store, truth, mixed, answered>>
    BY <1>3
  <2> QED
    BY <1>1, <2>1, <2>2, <2>3, ThreadStep DEF CacheAnswersItsKey
<1>4. ASSUME SaveToken(t)
      PROVE  SerialInv'
  <2>1. Moves(t)
    BY <1>1, <1>4 DEF SaveToken, Moves, TypeOK
  <2>2. Files(t, Token, Persisted(t))
    BY <1>2, <1>4 DEF SaveToken, Files, Saved, Redirected
  <2>3. ThreadInv(t)'
    BY <1>1, <1>4 DEF SaveToken, ThreadInv, TypeOK, Pcs, Shaped, Opened, Copies, Asked
  <2> QED
    BY <1>1, <1>2, <1>4, <2>1, <2>2, <2>3, ThreadStep DEF SaveToken, CacheAnswersItsKey
<1>5. ASSUME BeginConsent(t)
      PROVE  SerialInv'
  <2>1. Moves(t)
    BY <1>1, <1>5 DEF BeginConsent, Moves, TypeOK
  <2>2. Files(t, Pending, ops + 1)
    BY <1>2, <1>5 DEF BeginConsent, Files
  <2>3. ThreadInv(t)'
    BY <1>1, <1>5 DEF BeginConsent, ThreadInv, TypeOK, Pcs, Shaped, Opened, Copies, Asked
  <2> QED
    BY <1>1, <1>2, <1>5, <2>1, <2>2, <2>3, ThreadStep DEF BeginConsent, CacheAnswersItsKey
<1>6. ASSUME ConsumeNonce(t)
      PROVE  SerialInv'
  <2>1. Moves(t)
    BY <1>1, <1>6 DEF ConsumeNonce, Moves, TypeOK
  <2>2. Files(t, Pending, NoNonce)
    BY <1>2, <1>6 DEF ConsumeNonce, Files
  <2>3. ThreadInv(t)'
    BY <1>1, <1>6 DEF ConsumeNonce, ThreadInv, TypeOK, Pcs, Shaped, Opened, Copies, Asked
  <2> QED
    BY <1>1, <1>2, <1>6, <2>1, <2>2, <2>3, ThreadStep DEF ConsumeNonce, CacheAnswersItsKey
<1> QED
  BY <1>3, <1>4, <1>5, <1>6 DEF Tokens

-----------------------------------------------------------------------------
(* The first two theorems                                                  *)

LEMMA SerialInit == Init => SerialInv
<1> SUFFICES ASSUME Init
             PROVE  SerialInv
  OBVIOUS
<1>1. PICK token \in {Missing, 1} : store = NewStore(token) /\ truth = store
  BY DEF Init
<1>2. TypeOK
  BY <1>1 DEF Init, TypeOK, NewStore
<1>3. \A t \in Threads : ThreadInv(t)
  BY DEF Init, Idle, ThreadInv, Pcs, Shaped, Opened, Copies, Asked
<1>4. \A k \in Kinds : Filed(store[Cache(k)])
  <2> SUFFICES ASSUME NEW k \in Kinds
               PROVE  Filed(store[Cache(k)])
    OBVIOUS
  <2>1. /\ Cache(k) \in Documents /\ Cache(k) # Journal /\ Cache(k) # Token /\ Cache(k) # Pending
        /\ \E l \in Kinds : Cache(k) = Cache(l)
    BY DEF Documents, Journal, Token, Pending, Cache
  <2>2. store[Cache(k)] = <<>>
    BY <1>1, <2>1 DEF NewStore
  <2> QED
    BY <2>2 DEF Filed
<1> QED
  BY <1>1, <1>2, <1>3, <1>4 DEF SerialInv, SerialState, CacheAnswersItsKey, Init

LEMMA SerialStep == SerialInv /\ [Next]_vars => SerialInv'
<1> SUFFICES ASSUME SerialInv, [Next]_vars
             PROVE  SerialInv'
  OBVIOUS
<1> USE DEF Book, Memory, Cache, Journal, Token, Pending, Documents, Accounts, Kinds
<1>1. ASSUME NEW t \in Threads, Runs(t) \/ Views(t) \/ Tokens(t)
      PROVE  SerialInv'
  BY <1>1, RunSteps, ViewSteps, TokenSteps
<1>2. ASSUME \/ \E a \in Accounts, part \in Parts : SaveConfig(a, part)
             \/ UNCHANGED vars
      PROVE  SerialInv'
  <2>1. UNCHANGED <<store, work, truth, open, mixed, answered>>
    BY <1>2 DEF SaveConfig, vars
  <2>2. ASSUME NEW t \in Threads
        PROVE  ThreadInv(t)'
    BY <2>1 DEF SerialInv, ThreadInv, Pcs, Shaped, Opened, Copies, Asked, Filed, For
  <2>3. \A k \in Kinds : Filed(store[Cache(k)])'
    BY <2>1 DEF SerialInv, Filed, For
  <2> QED
    BY <2>1, <2>2, <2>3 DEF SerialInv, TypeOK, SerialState, CacheAnswersItsKey
<1>3. ASSUME Restart
      PROVE  SerialInv'
  <2>1. /\ UNCHANGED <<store, truth, mixed, answered>>
        /\ work' = [t \in Threads |-> Idle] /\ open' = [t \in Threads |-> {}]
    BY <1>3 DEF Restart
  <2>2. \A t \in Threads : ThreadInv(t)'
    BY <2>1 DEF Idle, ThreadInv, Pcs, Shaped, Opened, Copies, Asked
  <2> QED
    BY <2>1, <2>2 DEF SerialInv, TypeOK, Filed, For, SerialState, CacheAnswersItsKey
<1> QED
  BY <1>1, <1>2, <1>3 DEF Next

LEMMA SerialInvariant == Spec => []SerialInv
BY SerialInit, SerialStep, PTL DEF Spec

\* Whatever interleaves with whatever, and wherever the process dies: a paper book has every fill it
\* answered for, a memory every run that committed to it and the journal its newest entries in order,
\* unless it was saved while another operation had it loaded (load_state and save_state,
\* ephemeral_state).
THEOREM StoreIsSerial == Spec => []SerialState
BY SerialInvariant, PTL DEF SerialInv

\* Whatever interleaves with whatever, a cache answers with what was computed for the strategy and the
\* account that were asked about, and under the part of the configuration that the key names, unless
\* that part was saved while it was being computed; of the rest it promises nothing
\* (_cache_key, _signals_cache_key).
THEOREM CacheIsKeyed == Spec => []CacheAnswersItsKey
BY SerialInvariant, PTL DEF SerialInv

-----------------------------------------------------------------------------
(* The token                                                               *)

OnlyHolder(t) == Token \in open[t] /\ \A u \in Threads \ {t} : Token \notin open[u]

\* What is about to be saved, by the one thread that has anything to save, is what the server takes.
CarriesLive(t) ==
  /\ work[t].token = server.live
  /\ work[t].pc = "rotated" => store[Token].issued = server.issued
  /\ work[t].pc = "stamped" => work[t].issued = server.issued

TokenInv ==
  /\ DOMAIN server = {"live", "issued", "minted"}
  /\ \/ orphaned \/ Token \in mixed
     \/ /\ ~Loaded(Token) => store[Token].refresh = server.live /\ store[Token].issued = server.issued
        /\ \A t \in Threads : OnlyHolder(t) => CarriesLive(t)

LEMMA OtherNames ==
    /\ \A a : Book(a) # Token
    /\ \A b : Memory(b) # Token
    /\ \A k : Cache(k) # Token
    /\ Journal # Token /\ Pending # Token
BY DEF Book, Memory, Cache, Journal, Pending, Token

\* Who has the token open is about to save it.
LEMMA Holders ==
    ASSUME NEW w, NEW ds, w.pc \in Pcs, Opened(w, ds)
    PROVE  Token \in ds <=> w.pc \in {"rotated", "stamped"}
<1>1. CASE w.pc \in {"rotated", "stamped"}
  BY <1>1 DEF Opened
<1>2. CASE w.pc \notin {"rotated", "stamped"}
  BY <1>2, OtherNames DEF Opened, Pcs
<1> QED
  BY <1>1, <1>2

\* The steps that have nothing to do with the token.
LEMMA Elsewhere ==
    ASSUME TokenInv, UNCHANGED <<server, orphaned>>, store'[Token] = store[Token], mixed \subseteq mixed',
           \A u \in Threads : \/ Token \notin open[u] /\ Token \notin open'[u]
                              \/ work'[u] = work[u] /\ open'[u] = open[u]
    PROVE  TokenInv'
BY DEF TokenInv, Loaded, OnlyHolder, CarriesLive, Token

LEMMA TokenInit == ConfigToken = Missing /\ Init => TokenInv
<1> SUFFICES ASSUME ConfigToken = Missing, Init
             PROVE  TokenInv
  OBVIOUS
<1>1. PICK token \in {Missing, 1} :
        /\ store = NewStore(token)
        /\ LET live == IF token = Missing THEN ConfigToken ELSE token
           IN  server = [live |-> live, issued |-> token, minted |-> live]
  BY DEF Init
<1>2. Token \in Documents /\ Token # Journal
  BY DEF Documents, Token, Journal
<1>3. store[Token] = [refresh |-> token, issued |-> token]
  BY <1>1, <1>2 DEF NewStore
<1>4. server.live = token /\ server.issued = token /\ DOMAIN server = {"live", "issued", "minted"}
  BY <1>1
<1>5. \A t \in Threads : open[t] = {}
  BY DEF Init
<1> QED
  BY <1>3, <1>4, <1>5 DEF TokenInv, OnlyHolder

LEMMA TokenStep == SerialInv /\ SerialInv' /\ TokenInv /\ [Next]_vars => TokenInv'
<1> SUFFICES ASSUME SerialInv, SerialInv', TokenInv, [Next]_vars
             PROVE  TokenInv'
  OBVIOUS
<1> USE DEF Goes, Loads, Lets, Begins, Idle
<1>1. TypeOK /\ Token \in Documents
  BY DEF SerialInv, Documents, Token
<1>2. \A t \in Threads : Token \in open[t] <=> work[t].pc \in {"rotated", "stamped"}
  BY Holders DEF SerialInv, ThreadInv
<1>3. \A t \in Threads : Token \in open'[t] <=> work'[t].pc \in {"rotated", "stamped"}
  <2> SUFFICES ASSUME NEW t \in Threads
               PROVE  Token \in open'[t] <=> work'[t].pc \in {"rotated", "stamped"}
    OBVIOUS
  <2>1. work'[t].pc \in Pcs /\ Opened(work'[t], open'[t])
    BY DEF SerialInv, ThreadInv
  <2> QED
    BY <2>1, Holders
<1>4. ASSUME NEW t \in Threads, Runs(t) \/ Views(t)
      PROVE  TokenInv'
  <2>1. /\ UNCHANGED <<server, orphaned>> /\ mixed \subseteq mixed'
        /\ \A u \in Threads \ {t} : work'[u] = work[u] /\ open'[u] = open[u]
    BY <1>1, <1>4 DEF TypeOK, MixedBy, Runs, OpenBrokerage, LoadMemory, PlanNothing, FillOrder, MarkPrices,
                      Commit, LoadJournal, SaveJournal, Views, Ask, LoadCache, Compute, ReplayRun,
                      ReplayEnds, SaveCache
  <2>2. store'[Token] = store[Token]
    <3>1. CASE Runs(t)
      BY <1>1, <3>1, OtherNames DEF TypeOK, Saved, Redirected, Runs, OpenBrokerage, LoadMemory, PlanNothing,
                                    FillOrder, MarkPrices, Commit, LoadJournal, SaveJournal
    <3>2. CASE Views(t)
      BY <1>1, <3>2, OtherNames DEF TypeOK, Saved, Redirected, Views, Ask, LoadCache, Compute, ReplayRun,
                                    ReplayEnds, SaveCache
    <3> QED
      BY <1>4, <3>1, <3>2
  <2>3. work[t].pc \notin {"rotated", "stamped"}
    BY <1>4 DEF Runs, OpenBrokerage, LoadMemory, PlanNothing, FillOrder, MarkPrices,
                Commit, LoadJournal, SaveJournal, Views, Ask, LoadCache, Compute, ReplayRun,
                ReplayEnds, SaveCache
  <2>4. Token \notin open'[t]
    <3>1. CASE Runs(t)
      BY <1>1, <1>2, <2>3, <3>1, OtherNames DEF TypeOK, Runs, OpenBrokerage, LoadMemory, PlanNothing, FillOrder,
                                                MarkPrices, Commit, LoadJournal, SaveJournal
    <3>2. CASE Views(t)
      BY <1>1, <1>2, <2>3, <3>2, OtherNames DEF TypeOK, Views, Ask, LoadCache, Compute, ReplayRun, ReplayEnds,
                                                SaveCache
    <3> QED
      BY <1>4, <3>1, <3>2
  <2> QED
    BY <1>2, <2>1, <2>2, <2>3, <2>4, Elsewhere
<1>5. ASSUME NEW t \in Threads,
             \/ OpenSession(t) \/ RefreshRefused(t) \/ RefreshKeeps(t)
             \/ BeginConsent(t) \/ CallBack(t) \/ ConsumeNonce(t)
      PROVE  TokenInv'
  <2>1. /\ UNCHANGED <<server, orphaned>> /\ mixed \subseteq mixed'
        /\ \A u \in Threads \ {t} : work'[u] = work[u] /\ open'[u] = open[u]
    BY <1>1, <1>5 DEF TypeOK, MixedBy, OpenSession, RefreshRefused, RefreshKeeps, BeginConsent, CallBack,
                      ConsumeNonce
  <2>2. store'[Token] = store[Token]
    BY <1>1, <1>5, OtherNames DEF TypeOK, OpenSession, RefreshRefused, RefreshKeeps, BeginConsent, CallBack,
                                  ConsumeNonce
  <2>3. work[t].pc \notin {"rotated", "stamped"}
    BY <1>5 DEF OpenSession, RefreshRefused, RefreshKeeps, BeginConsent, CallBack, ConsumeNonce
  <2>4. Token \notin open'[t]
    BY <1>1, <1>2, <1>5, <2>3, OtherNames DEF TypeOK, OpenSession, RefreshRefused, RefreshKeeps, BeginConsent,
                                              CallBack, ConsumeNonce
  <2> QED
    BY <1>2, <2>1, <2>2, <2>3, <2>4, Elsewhere
<1>6. ASSUME NEW t \in Threads,
             \/ RefreshRotates(t)
             \/ Exchange(t) /\ work'[t].pc = "stamped"
      PROVE  TokenInv'
  <2>1. /\ UNCHANGED <<store, mixed, orphaned>>
        /\ \A u \in Threads \ {t} : open'[u] = open[u]
        /\ Token \notin open[t] /\ Token \in open'[t]
    BY <1>1, <1>2, <1>3, <1>6 DEF TypeOK, RefreshRotates, Exchange
  <2>2. DOMAIN server' = {"live", "issued", "minted"}
    BY <1>6 DEF RefreshRotates, Exchange, TokenInv
  <2>3. ASSUME ~(orphaned \/ Token \in mixed), ~Loaded(Token)
        PROVE  CarriesLive(t)'
    <3>1. store[Token].issued = server.issued
      BY <2>3 DEF TokenInv
    <3>2. CASE RefreshRotates(t)
      BY <1>1, <2>1, <3>1, <3>2 DEF TypeOK, TokenInv, RefreshRotates, CarriesLive
    <3>3. CASE Exchange(t) /\ work'[t].pc = "stamped"
      BY <1>1, <3>3 DEF TypeOK, Exchange, CarriesLive
    <3> QED
      BY <1>6, <3>2, <3>3
  <2>4. Loaded(Token)' /\ \A u \in Threads : OnlyHolder(u)' => u = t /\ ~Loaded(Token)
    BY <2>1 DEF Loaded, OnlyHolder
  <2> QED
    BY <2>1, <2>2, <2>3, <2>4 DEF TokenInv
<1>7. ASSUME NEW t \in Threads, LoadIssued(t)
      PROVE  TokenInv'
  <2>1. UNCHANGED <<store, server, open, mixed, orphaned>>
    BY <1>7 DEF LoadIssued
  <2>2. ASSUME NEW u \in Threads, CarriesLive(u)
        PROVE  CarriesLive(u)'
    BY <1>1, <1>7, <2>1, <2>2 DEF TypeOK, LoadIssued, CarriesLive
  <2> QED
    BY <2>1, <2>2 DEF TokenInv, Loaded, OnlyHolder
<1>8. ASSUME NEW t \in Threads, SaveToken(t)
      PROVE  TokenInv'
  <2>1. /\ UNCHANGED <<server, orphaned>> /\ mixed' = MixedBy(t, Token)
        /\ Token \in open[t] /\ Token \notin open'[t]
        /\ \A u \in Threads \ {t} : open'[u] = open[u]
    BY <1>1, <1>2, <1>8 DEF TypeOK, SaveToken
  <2>2. store'[Token] = [refresh |-> work[t].token, issued |-> work[t].issued]
    BY <1>1, <1>8 DEF TypeOK, SaveToken, Saved, Redirected, Persisted
  <2>3. CASE \E u \in Threads \ {t} : Token \in open[u]
    BY <2>1, <2>3 DEF MixedBy, TokenInv
  <2>4. CASE \A u \in Threads \ {t} : Token \notin open[u]
    <3>1. OnlyHolder(t) /\ work[t].pc = "stamped"
      BY <1>8, <2>1, <2>4 DEF OnlyHolder, SaveToken
    <3>2. \A u \in Threads : ~OnlyHolder(u)'
      BY <2>1, <2>4 DEF OnlyHolder
    <3>3. mixed \subseteq mixed'
      BY <2>1 DEF MixedBy
    <3> QED
      BY <2>1, <2>2, <3>1, <3>2, <3>3 DEF TokenInv, CarriesLive
  <2> QED
    BY <2>3, <2>4
<1>9. ASSUME NEW t \in Threads, Exchange(t), work'[t].pc # "stamped"
      PROVE  TokenInv'
  <2>1. /\ UNCHANGED <<store, server, open, mixed, orphaned>>
        /\ \A u \in Threads \ {t} : work'[u] = work[u]
        /\ work[t].pc = "consented"
    BY <1>1, <1>9 DEF TypeOK, Exchange
  <2> QED
    BY <1>2, <2>1, Elsewhere
<1>10. ASSUME \/ \E a \in Accounts, part \in Parts : SaveConfig(a, part)
              \/ UNCHANGED vars
       PROVE  TokenInv'
  <2>1. UNCHANGED <<store, work, server, open, mixed, orphaned>>
    BY <1>10 DEF SaveConfig, vars
  <2> QED
    BY <2>1, Elsewhere
<1>11. ASSUME Restart
       PROVE  TokenInv'
  <2>1. /\ UNCHANGED <<store, server, mixed>>
        /\ orphaned' = (orphaned \/ \E t \in Threads : work[t].pc \in {"rotated", "stamped"})
        /\ \A t \in Threads : open'[t] = {}
    BY <1>11 DEF Restart
  <2>2. CASE orphaned'
    BY <2>1, <2>2 DEF TokenInv
  <2>3. CASE ~orphaned'
    <3>1. ~orphaned /\ ~Loaded(Token)
      BY <1>2, <2>1, <2>3 DEF Loaded
    <3> QED
      BY <2>1, <3>1 DEF TokenInv, OnlyHolder
  <2> QED
    BY <2>2, <2>3
<1> QED
  BY <1>4, <1>5, <1>6, <1>7, <1>8, <1>9, <1>10, <1>11 DEF Next, Tokens

\* When no token is configured: with no rotation or consent under way, none that died with the process
\* and none overtaken by another, the store has the token the broker takes, dated by its consent
\* (SchwabSession, complete_authorization).  A configured token comes before the store, and what it
\* was rotated into is then forgotten.
THEOREM NextSessionStarts ==
    ASSUME ConfigToken = Missing
    PROVE  Spec => []NextSessionWorks
<1>1. Init => TokenInv
  BY TokenInit
<1>2. TokenInv => NextSessionWorks
  BY DEF TokenInv, NextSessionWorks, StartToken
<1> QED
  BY <1>1, <1>2, SerialInvariant, TokenStep, PTL DEF Spec

-----------------------------------------------------------------------------
(* The inductive invariant                                                 *)

Fields == {"broker", "default", "controls", "tuning", "universe"}

\* A document that loads, or one of the other two things a file can be.
File(f) == f \in {NoFile, Unreadable} \/ DOMAIN f = Fields

Busy(r) == req[r].pc # "idle"

\* What a request has read is a document, and what it writes is under the lock.
RequestInv(r) ==
  /\ Busy(r) => /\ DOMAIN req[r] = {"pc", "kind", "body", "base"}
                /\ req[r].pc \in {"check", "ready", "locked", "written"}
                /\ req[r].kind \in Endpoints /\ DOMAIN req[r].base = Fields
  /\ req[r].pc \in {"locked", "written"} => lock = r
  /\ req[r].pc = "written" => tmp = Changed(req[r].kind, req[r].base, req[r].body)

\* A start works alone, on a file that is not there or that it began to copy.
StartInv ==
  /\ proc # "up" => \A r \in Savers : ~Busy(r)
  /\ proc = "merging" => file = NoFile /\ legacy \in Legacies
  /\ proc = "copying" => file \in {EmptyDocument, Unreadable} /\ seed \in Seeds

ConfigInv ==
  /\ DOMAIN req = Savers
  /\ seed \in Seeds \cup {NoFile} /\ legacy \in Legacies \cup {NoFile}
  /\ File(file)
  /\ \A r \in Savers : RequestInv(r)
  /\ StartInv

-----------------------------------------------------------------------------
(* Documents                                                               *)

LEMMA EmptyFields == DOMAIN EmptyDocument = Fields
BY DEF EmptyDocument, Fields

\* A document is neither a missing file nor an unreadable one.
LEMMA Whole ==
    ASSUME NEW d, DOMAIN d = Fields
    PROVE  IsDocument(d)
BY DEF Fields, IsDocument, NoFile, Unreadable

LEMMA FileLoads ==
    ASSUME NEW f, File(f), f # Unreadable
    PROVE  DOMAIN Document(f) = Fields
BY EmptyFields DEF File, Document

\* A save puts its own section on the document it was given.
LEMMA ChangedOneSection ==
    ASSUME NEW kind \in Endpoints, NEW base, NEW body, DOMAIN base = Fields
    PROVE  /\ DOMAIN Changed(kind, base, body) = Fields
           /\ OneSection(base, Changed(kind, base, body))
<1> DEFINE new == Changed(kind, base, body)
<1>1. DOMAIN new = Fields /\ \E s \in Sections : Differ(base, new) \subseteq s
  <2>1. CASE kind = "controls"
    <3>1. new = WithControls(base, body)
      BY <2>1 DEF Changed
    <3>2. DOMAIN new = Fields /\ Differ(base, new) \subseteq {"controls"}
      BY <3>1, EmptyFields DEF WithControls, Differ, Fields
    <3> QED
      BY <3>2 DEF Sections
  <2>2. CASE kind = "account"
    <3>1. new = WithAccount(base, body)
      BY <2>2 DEF Changed
    <3>2. DOMAIN new = Fields /\ Differ(base, new) \subseteq {"broker", "default"}
      BY <3>1, EmptyFields DEF WithAccount, Differ, Fields
    <3> QED
      BY <3>2 DEF Sections
  <2>3. CASE kind = "delete"
    <3>1. new = WithoutAccount(base, body)
      BY <2>3 DEF Changed
    <3>2. DOMAIN new = Fields /\ Differ(base, new) \subseteq {"broker", "default"}
      BY <3>1, EmptyFields DEF WithoutAccount, Differ, Fields
    <3> QED
      BY <3>2 DEF Sections
  <2>4. CASE kind = "tuning"
    <3>1. new = WithTuning(base, body)
      BY <2>4 DEF Changed
    <3>2. DOMAIN new = Fields /\ Differ(base, new) \subseteq {"tuning"}
      BY <3>1, EmptyFields DEF WithTuning, Differ, Fields
    <3> QED
      BY <3>2 DEF Sections
  <2>5. CASE kind = "universe"
    <3>1. new = WithUniverse(base, body)
      BY <2>5 DEF Changed
    <3>2. DOMAIN new = Fields /\ Differ(base, new) \subseteq {"universe"}
      BY <3>1, EmptyFields DEF WithUniverse, Differ, Fields
    <3> QED
      BY <3>2 DEF Sections
  <2> QED
    BY <2>1, <2>2, <2>3, <2>4, <2>5 DEF Endpoints
<1> QED
  BY <1>1, Whole DEF OneSection

-----------------------------------------------------------------------------
(* The invariant holds                                                     *)

LEMMA ConfigBegins == ConfigInit => ConfigInv
BY DEF ConfigInit, ConfigInv, File, RequestInv, StartInv, Busy, NoSave

\* A request that is not the one that moves is left as it was.
LEMMA OtherRequests ==
    ASSUME NEW r \in Savers, RequestInv(r), req'[r] = req[r],
           req[r].pc \in {"locked", "written"} => lock' = lock,
           req[r].pc = "written" => tmp' = tmp
    PROVE  RequestInv(r)'
BY DEF RequestInv, Busy

LEMMA ConfigStep == ConfigInv /\ [ConfigNext]_configVars => ConfigInv'
<1> SUFFICES ASSUME ConfigInv, [ConfigNext]_configVars
             PROVE  ConfigInv'
  OBVIOUS
<1> USE DEF ConfigInv
<1>1. ASSUME NEW r \in Savers, Serve(r), proc = "up"
      PROVE  ConfigInv'
  <2>1. /\ UNCHANGED <<legacy, seed, proc>>
        /\ DOMAIN req' = Savers
        /\ \A q \in Savers \ {r} : req'[q] = req[q]
    BY <1>1 DEF Serve, Load, Check, Acquire, WriteTmp, Replace
  <2>2. StartInv'
    BY <1>1, <2>1 DEF StartInv
  <2>3. CASE Load(r)
    <3>1. /\ UNCHANGED <<file, tmp, lock>>
          /\ \/ req'[r] = NoSave
             \/ \E kind \in Endpoints : \E body \in BodiesOf(kind) :
                  /\ file # Unreadable
                  /\ req'[r] = [pc |-> IF kind = "delete" THEN "check" ELSE "ready",
                                kind |-> kind, body |-> body, base |-> Document(file)]
      BY <2>3 DEF Load
    <3>2. RequestInv(r)'
      <4>1. CASE req'[r] = NoSave
        BY <4>1 DEF RequestInv, Busy, NoSave
      <4>2. ASSUME NEW kind \in Endpoints, NEW body, file # Unreadable,
                   req'[r] = [pc |-> IF kind = "delete" THEN "check" ELSE "ready",
                              kind |-> kind, body |-> body, base |-> Document(file)]
            PROVE  RequestInv(r)'
        <5>1. DOMAIN Document(file) = Fields
          BY <4>2, FileLoads
        <5> QED
          BY <4>2, <5>1 DEF RequestInv, Busy
      <4> QED
        BY <3>1, <4>1, <4>2
    <3> QED
      BY <2>1, <2>2, <3>1, <3>2, OtherRequests
  <2>4. CASE Check(r)
    <3>1. UNCHANGED <<file, tmp, lock>>
      BY <2>4 DEF Check
    <3>2. RequestInv(r)'
      <4>1. req[r].pc = "check" /\ (req'[r] = NoSave \/ req'[r] = [req[r] EXCEPT !.pc = "ready"])
        BY <2>4 DEF Check
      <4> QED
        BY <4>1 DEF RequestInv, Busy, NoSave
    <3> QED
      BY <2>1, <2>2, <3>1, <3>2, OtherRequests
  <2>5. CASE Acquire(r)
    <3>1. UNCHANGED <<file, tmp>> /\ lock = None /\ lock' = r
      BY <2>5 DEF Acquire, MayLock
    <3>2. \A q \in Savers : req[q].pc \notin {"locked", "written"}
      BY <3>1, RequestAssumption DEF RequestInv
    <3>3. RequestInv(r)'
      <4>1. req[r].pc = "ready" /\ req'[r] = [req[r] EXCEPT !.pc = "locked"]
        BY <2>5 DEF Acquire
      <4> QED
        BY <3>1, <4>1 DEF RequestInv, Busy
    <3> QED
      BY <2>1, <2>2, <3>1, <3>2, <3>3, OtherRequests
  <2>6. CASE WriteTmp(r)
    <3>1. UNCHANGED <<file, lock>> /\ req[r].pc = "locked"
      BY <2>6 DEF WriteTmp
    <3>2. \A q \in Savers \ {r} : req[q].pc # "written"
      BY <3>1 DEF RequestInv
    <3>3. RequestInv(r)'
      <4>1. \/ req'[r] = req[r]
            \/ /\ req'[r] = [req[r] EXCEPT !.pc = "written"]
               /\ tmp' = Changed(req[r].kind, req[r].base, req[r].body)
        BY <2>6 DEF WriteTmp
      <4> QED
        BY <3>1, <4>1 DEF RequestInv, Busy
    <3> QED
      BY <2>1, <2>2, <3>1, <3>2, <3>3, OtherRequests
  <2>7. CASE Replace(r)
    <3>1. /\ req[r].pc = "written" /\ req'[r] = NoSave
          /\ file' = Changed(req[r].kind, req[r].base, req[r].body)
      BY <2>7 DEF Replace, RequestInv
    <3>2. \A q \in Savers \ {r} : req[q].pc \notin {"locked", "written"}
      BY <3>1 DEF RequestInv
    <3>3. File(file')
      BY <3>1, ChangedOneSection DEF RequestInv, Busy, File
    <3>4. RequestInv(r)'
      BY <3>1 DEF RequestInv, Busy, NoSave
    <3> QED
      BY <2>1, <2>2, <3>2, <3>3, <3>4, OtherRequests
  <2> QED
    BY <1>1, <2>3, <2>4, <2>5, <2>6, <2>7 DEF Serve
<1>2. ASSUME NEW r \in Savers, Serve(r), proc # "up"
      PROVE  FALSE
  BY <1>2 DEF Serve, Load, Check, Acquire, WriteTmp, Replace, StartInv, Busy
<1>3. ASSUME Boot \/ WriteMerged \/ InstallMerged \/ CopySeed
      PROVE  ConfigInv'
  <2>1. proc # "up" /\ UNCHANGED <<legacy, seed, lock, req>>
    BY <1>3 DEF Boot, WriteMerged, InstallMerged, CopySeed
  <2>2. \A r \in Savers : RequestInv(r)' /\ ~Busy(r)'
    BY <2>1 DEF StartInv, RequestInv, Busy
  <2>3. File(file')
    <3>1. file' \in {file, EmptyDocument, Unreadable} \cup Seeds \cup Legacies
      BY <1>3 DEF Boot, WriteMerged, InstallMerged, CopySeed, StartInv
    <3> QED
      BY <3>1, EmptyFields, DocumentAssumption DEF File
  <2>4. StartInv'
    <3>1. CASE Boot
      <4>1. proc' = "copying" => file' = EmptyDocument /\ seed # NoFile
        BY <3>1 DEF Boot
      <4>2. proc' = "merging" => file' = file /\ file = NoFile /\ legacy # NoFile
        BY <3>1 DEF Boot
      <4> QED
        BY <2>1, <2>2, <4>1, <4>2 DEF StartInv
    <3>2. CASE WriteMerged \/ InstallMerged \/ CopySeed
      BY <2>1, <2>2, <3>2 DEF WriteMerged, InstallMerged, CopySeed, StartInv
    <3> QED
      BY <1>3, <3>1, <3>2
  <2> QED
    BY <2>1, <2>2, <2>3, <2>4
<1>4. ASSUME Crash
      PROVE  ConfigInv'
  BY <1>4 DEF Crash, RequestInv, StartInv, Busy, NoSave
<1>5. ASSUME \/ RunStart \/ RunAccount \/ RunConfig \/ RunBroker \/ RunEnd
             \/ UNCHANGED configVars
      PROVE  ConfigInv'
  <2>1. UNCHANGED <<file, tmp, legacy, seed, proc, lock, req>>
    BY <1>5 DEF RunStart, RunAccount, RunConfig, RunBroker, RunEnd, configVars
  <2>2. \A r \in Savers : RequestInv(r)'
    BY <2>1 DEF RequestInv, Busy
  <2> QED
    BY <2>1, <2>2 DEF StartInv, Busy
<1> QED
  BY <1>1, <1>2, <1>3, <1>4, <1>5 DEF ConfigNext

LEMMA ConfigInvariant == ConfigSpec => []ConfigInv
BY ConfigBegins, ConfigStep, PTL DEF ConfigSpec

-----------------------------------------------------------------------------
(* The file implements the abstract document                               *)

Held == {req[r].base : r \in {q \in Savers : req[q].pc # "idle"}}

LEMMA AbstractStart == ConfigInit => Abstract!Init
BY DEF ConfigInit, Abstract!Init, NoSave

\* One request that moves can only be done with what it has read.
LEMMA HeldShrinks ==
    ASSUME NEW r \in Savers, \A q \in Savers \ {r} : req'[q] = req[q],
           req'[r].pc # "idle" => req[r].pc # "idle" /\ req'[r].base = req[r].base
    PROVE  Held' \subseteq Held
BY DEF Held

LEMMA AbstractStep == ConfigInv /\ ConfigInv' /\ [ConfigNext]_configVars => [Abstract!Next]_(Abstract!vars)
<1> SUFFICES ASSUME ConfigInv, ConfigInv', [ConfigNext]_configVars
             PROVE  \/ Abstract!Start \/ Abstract!Read \/ Abstract!Save \/ Abstract!Forget
                    \/ file' = file /\ Held' = Held
  BY DEF Abstract!Next, Abstract!vars, Held
<1> USE DEF ConfigInv
<1>1. ASSUME NEW r \in Savers, Load(r)
      PROVE  Abstract!Read \/ Abstract!Forget
  <2>1. /\ file' = file /\ req[r].pc = "idle"
        /\ \A q \in Savers \ {r} : req'[q] = req[q]
    BY <1>1 DEF Load
  <2>2. CASE req'[r] = NoSave
    <3>1. Held' \subseteq Held
      BY <2>1, <2>2, HeldShrinks DEF NoSave
    <3> QED
      BY <2>1, <3>1 DEF Abstract!Forget, Held
  <2>3. CASE file # Unreadable /\ req'[r].pc # "idle" /\ req'[r].base = Document(file)
    <3>1. Held' = Held \cup {Document(file)}
      BY <2>1, <2>3 DEF Held
    <3> QED
      BY <2>1, <2>3, <3>1 DEF Abstract!Read, Held, Document
  <2>4. \/ req'[r] = NoSave
        \/ \E kind \in Endpoints : \E body \in BodiesOf(kind) :
             /\ file # Unreadable
             /\ req'[r] = [pc |-> IF kind = "delete" THEN "check" ELSE "ready",
                           kind |-> kind, body |-> body, base |-> Document(file)]
    BY <1>1 DEF Load
  <2> QED
    BY <2>2, <2>3, <2>4
<1>2. ASSUME NEW r \in Savers, Check(r) \/ Acquire(r) \/ WriteTmp(r)
      PROVE  Abstract!Forget
  <2>1. /\ file' = file /\ Busy(r)
        /\ \A q \in Savers \ {r} : req'[q] = req[q]
    BY <1>2 DEF Check, Acquire, WriteTmp, Busy
  <2>2. DOMAIN req[r] = {"pc", "kind", "body", "base"}
    BY <2>1 DEF RequestInv
  <2>3. req'[r].pc # "idle" => req'[r].base = req[r].base
    BY <1>2, <2>2 DEF Check, Acquire, WriteTmp, NoSave
  <2>4. Held' \subseteq Held
    BY <2>1, <2>3, HeldShrinks DEF Busy
  <2> QED
    BY <2>1, <2>4 DEF Abstract!Forget, Held
<1>3. ASSUME NEW r \in Savers, Replace(r)
      PROVE  Abstract!Save
  <2>1. /\ req[r].pc = "written" /\ req'[r] = NoSave
        /\ file' = Changed(req[r].kind, req[r].base, req[r].body)
        /\ \A q \in Savers \ {r} : req'[q] = req[q]
    BY <1>3 DEF Replace, RequestInv
  <2>2. OneSection(req[r].base, file') /\ req[r].base \in Held
    BY <2>1, ChangedOneSection DEF RequestInv, Busy, Held
  <2>3. Held' \subseteq Held
    BY <2>1, HeldShrinks DEF NoSave
  <2> QED
    BY <2>2, <2>3 DEF Abstract!Save, Held
<1>4. ASSUME Boot \/ WriteMerged \/ InstallMerged \/ CopySeed
      PROVE  Abstract!Start \/ (file' = file /\ Held' = Held)
  <2>1. proc # "up" /\ req' = req
    BY <1>4 DEF Boot, WriteMerged, InstallMerged, CopySeed
  <2>2. Held = {} /\ Held' = {}
    BY <2>1 DEF StartInv, Busy, Held
  <2>3. \/ file' = file
        \/ /\ file \in {EmptyDocument, Unreadable, NoFile}
           /\ file' \in {EmptyDocument, Unreadable} \cup Seeds \cup Legacies
    BY <1>4 DEF Boot, WriteMerged, InstallMerged, CopySeed, StartInv
  <2> QED
    BY <2>2, <2>3 DEF Abstract!Start, Abstract!Unstarted, Held
<1>5. ASSUME Crash
      PROVE  Abstract!Forget
  <2>1. file' = file /\ Held' = {}
    BY <1>5 DEF Crash, NoSave, Held
  <2> QED
    BY <2>1 DEF Abstract!Forget, Held
<1>6. ASSUME \/ RunStart \/ RunAccount \/ RunConfig \/ RunBroker \/ RunEnd
             \/ UNCHANGED configVars
      PROVE  file' = file /\ Held' = Held
  BY <1>6 DEF RunStart, RunAccount, RunConfig, RunBroker, RunEnd, configVars, Held
<1> QED
  BY <1>1, <1>2, <1>3, <1>4, <1>5, <1>6 DEF ConfigNext, Serve

\* For every number of threads, every account, body, image and older file, and wherever the process
\* dies: nobody reads a half-written file, each save puts the section of its request on a whole
\* document that request has read, and no start puts defaults over what was saved
\* (yaml_io.py, _save_yaml_config; container_entrypoint.py, prepare_config).
THEOREM FileIsWhole == ConfigSpec => OneWholeDocument
<1>1. ConfigInit => Abstract!Init
  BY AbstractStart
<1>2. ConfigInv /\ ConfigInv' /\ [ConfigNext]_configVars => [Abstract!Next]_(Abstract!vars)
  BY AbstractStep
<1> QED
  BY <1>1, <1>2, ConfigInvariant, PTL DEF ConfigSpec, OneWholeDocument, Abstract!Spec

-----------------------------------------------------------------------------
(* An order goes where its binding says                                    *)

\* The keys a run for an account may sign with.
Keys(account) == {Credential(Credentials[account], "key", "keyEnv", "BROKER_KEY"), Given(Env, "BROKER_KEY")}

\* From the reading of the account on, the run is for the one that was named.
RouteInv ==
  run.pc # "idle" /\ run.named # None =>
    /\ run.pc = "account" => /\ run.account = run.named
                             /\ run.section \in {Credentials[run.named], <<>>}
    /\ run.pc \in {"configured", "placed"} => /\ run.settings.account = run.named
                                              /\ run.settings.key \in Keys(run.named)

\* A named account is resolved to itself or to nothing.
LEMMA ResolveNamed ==
    ASSUME NEW d, NEW named, named # None
    PROVE  Resolve(d, named) \in {named, None}
BY DEF Resolve

\* Without a section of its own an account has the key of the environment.
LEMMA NoSection == Credential(<<>>, "key", "keyEnv", "BROKER_KEY") = Given(Env, "BROKER_KEY")
<1>1. Given(<<>>, "key") = None /\ Given(<<>>, "keyEnv") = None
  BY DEF Given
<1> QED
  BY <1>1 DEF Credential

LEMMA SettledKey ==
    ASSUME NEW account, NEW section, NEW tuning, NEW listed, NEW sources
    PROVE  /\ Settled(account, section, tuning, listed, sources).account = account
           /\ Settled(account, section, tuning, listed, sources).key
                = Credential(section, "key", "keyEnv", "BROKER_KEY")
BY DEF Settled

LEMMA RouteStep == RouteInv /\ [ConfigNext]_configVars => RouteInv'
<1> SUFFICES ASSUME RouteInv, [ConfigNext]_configVars
             PROVE  RouteInv'
  OBVIOUS
<1>1. CASE RunStart
  BY <1>1 DEF RunStart, RouteInv
<1>2. CASE RunAccount
  <2> DEFINE account == Resolve(Document(file), run.named)
             section == IF account \in DOMAIN Document(file).broker THEN Credentials[account] ELSE <<>>
  <2>1. run.pc = "bound" /\ run.named # None => account \in {run.named, None}
    BY ResolveNamed
  <2>2. /\ run.pc = "bound"
        /\ \/ run' = NoRun
           \/ /\ account # None
              /\ run' = [pc |-> "account", named |-> run.named, account |-> account, section |-> section]
    BY <1>2 DEF RunAccount
  <2>3. section \in {Credentials[account], <<>>}
    OBVIOUS
  <2> HIDE DEF account, section
  <2> QED
    BY <2>1, <2>2, <2>3 DEF RouteInv, NoRun
<1>3. CASE RunConfig
  <2> DEFINE tuning == TuningSection(Document(file).tuning, Ids)
             settings == Settled(run.account, run.section, tuning, Document(file).universe, Sources)
             knobs == LoadTuning(tuning)
  <2>1. /\ run.pc = "account"
        /\ \/ run' = NoRun
           \/ run' = [pc |-> "configured", named |-> run.named, settings |-> settings, knobs |-> knobs]
    BY <1>3 DEF RunConfig
  <2>2. /\ settings.account = run.account
        /\ settings.key = Credential(run.section, "key", "keyEnv", "BROKER_KEY")
    BY SettledKey
  <2> HIDE DEF settings, knobs
  <2>3. run.named # None => settings.account = run.named /\ settings.key \in Keys(run.named)
    BY <2>1, <2>2, NoSection DEF RouteInv, Keys
  <2> QED
    BY <2>1, <2>3 DEF RouteInv, NoRun
<1>4. CASE RunBroker
  <2>1. /\ run.pc = "configured"
        /\ \/ run' = NoRun
           \/ \E broker : run' = [pc |-> "placed", named |-> run.named, settings |-> run.settings,
                                  broker |-> broker]
    BY <1>4 DEF RunBroker
  <2> QED
    BY <2>1 DEF RouteInv, NoRun
<1>5. CASE RunEnd \/ Crash
  BY <1>5 DEF RunEnd, Crash, RouteInv, NoRun
<1>6. CASE \/ Boot \/ WriteMerged \/ InstallMerged \/ CopySeed
           \/ \E r \in Savers : Serve(r)
           \/ UNCHANGED configVars
  <2>1. run' = run
    BY <1>6 DEF Boot, WriteMerged, InstallMerged, CopySeed, Serve, Load, Check, Acquire, WriteTmp, Replace, configVars
  <2> QED
    BY <2>1 DEF RouteInv
<1> QED
  BY <1>1, <1>2, <1>3, <1>4, <1>5, <1>6 DEF ConfigNext

\* For every configuration, environment and interleaving of saves with the reads of a run: the order
\* of a binding that names an account goes to that account or nowhere, under that account's own
\* credentials or the key of the environment (schema.py, get_config; accounts.py,
\* get_account_broker_type).
THEOREM OrdersGoAsBound == ConfigSpec => []RoutedAsBound
<1>1. ConfigInit => RouteInv
  BY DEF ConfigInit, RouteInv, NoRun
<1>2. RouteInv => RoutedAsBound
  BY DEF RouteInv, RoutedAsBound, Keys
<1> QED
  BY <1>1, <1>2, RouteStep, PTL DEF ConfigSpec

-----------------------------------------------------------------------------
(* Controls are read as they were saved                                    *)

\* A set of naturals has a least one.
LEMMA LeastNatural ==
    ASSUME NEW T \in SUBSET Nat, T # {}
    PROVE  \E n \in T : \A m \in T : n <= m
<1>1. PICK n \in T : \A m \in T : ~(<<m, n>> \in OpToRel(<, Nat))
  BY NatLessThanWellFounded, WFMin
<1>2. ASSUME NEW m \in T, ~(n <= m)
      PROVE  FALSE
  <2>1. m \in Nat /\ n \in Nat /\ m < n
    BY <1>2
  <2>2. <<m, n>> \in OpToRel(<, Nat)
    BY <2>1 DEF OpToRel
  <2> QED
    BY <1>1, <2>2
<1> QED
  BY <1>2

\* An id is free and is one: a preferred id that is free stays.
LEMMA IdIsFree ==
    ASSUME NEW taken, IsFiniteSet(taken), NEW preferred
    PROVE  /\ BindingId(taken, preferred) \notin taken /\ BindingId(taken, preferred) # None
           /\ preferred # None /\ preferred \notin taken => BindingId(taken, preferred) = preferred
<1> DEFINE c == Cardinality(taken)
           Free == {i \in 1..(c + 1) : i \notin taken}
<1>1. c \in Nat
  BY FS_CardinalityType
<1> HIDE DEF c
<1>2. Free # {}
  <2>1. SUFFICES ASSUME 1..(c + 1) \subseteq taken
                 PROVE  FALSE
    OBVIOUS
  <2>2. Cardinality(1..(c + 1)) = c + 1
    BY <1>1, FS_Interval
  <2>3. Cardinality(1..(c + 1)) <= c
    BY <2>1, FS_Subset DEF c
  <2> QED
    BY <1>1, <2>2, <2>3
<1>3. PICK n \in Free : \A m \in Free : n <= m
  <2>1. Free \in SUBSET Nat
    BY <1>1
  <2> HIDE DEF Free
  <2> QED
    BY <1>2, <2>1, LeastNatural
<1>4. n \in 1..(c + 1) /\ n \notin taken /\ \A j \in 1..(n - 1) : j \in taken
  <2>1. ASSUME NEW j \in 1..(n - 1), j \notin taken
        PROVE  FALSE
    <3>1. j \in Free /\ j < n
      BY <1>1, <2>1
    <3> QED
      BY <1>1, <1>3, <3>1
  <2> QED
    BY <1>3, <2>1
<1>5. CASE preferred # None /\ preferred \notin taken
  BY <1>5 DEF BindingId
<1>6. CASE ~(preferred # None /\ preferred \notin taken)
  <2>1. BindingId(taken, preferred) \in 1..(c + 1) /\ BindingId(taken, preferred) \notin taken
    BY <1>4, <1>6 DEF BindingId, c
  <2> QED
    BY <1>1, <1>6, <2>1, SettingsAssumption
<1> QED
  BY <1>5, <1>6

\* The ids of the bindings before one.
IdsBefore(done, i) == {done[j].id : j \in 1..(i - 1)}

\* What SanitizeBindings makes of a list, binding by binding.
Sanitized(raws, n, fallback, done) ==
  done = [i \in 1..n |-> SanitizeBinding(raws[i], IdsBefore(done, i), fallback)]

LEMMA IdsBeforeAreFinite ==
    ASSUME NEW done, NEW i \in Nat
    PROVE  IsFiniteSet(IdsBefore(done, i))
<1> DEFINE f == [j \in 1..(i - 1) |-> done[j].id]
<1>1. f \in Surjection(1..(i - 1), IdsBefore(done, i))
  BY DEF Surjection, IdsBefore
<1>2. IsFiniteSet(1..(i - 1))
  BY FS_Interval
<1> QED
  BY <1>1, <1>2, FS_Surjection

\* There is such a list: it is put together from those of the shorter ones.
LEMMA SanitizedExists ==
    ASSUME NEW raws, NEW n \in Nat, NEW fallback
    PROVE  \E done : Sanitized(raws, n, fallback, done)
<1> DEFINE Lacking == {m \in Nat : ~\E done : Sanitized(raws, m, fallback, done)}
<1>1. SUFFICES ASSUME Lacking # {}
               PROVE  FALSE
  OBVIOUS
<1>2. PICK m \in Lacking : \A k \in Lacking : m <= k
  <2>1. Lacking \in SUBSET Nat
    OBVIOUS
  <2> HIDE DEF Lacking
  <2> QED
    BY <1>1, <2>1, LeastNatural
<1>3. CASE m = 0
  <2>1. Sanitized(raws, 0, fallback, [i \in 1..0 |-> 0])
    BY DEF Sanitized
  <2> QED
    BY <1>2, <1>3, <2>1
<1>4. CASE m # 0
  <2>1. m - 1 \in Nat /\ m - 1 \notin Lacking
    BY <1>2, <1>4
  <2>2. PICK old : Sanitized(raws, m - 1, fallback, old)
    BY <2>1
  <2> DEFINE last == SanitizeBinding(raws[m], IdsBefore(old, m), fallback)
             done == [i \in 1..m |-> IF i = m THEN last ELSE old[i]]
  <2>3. \A i \in 1..m : IdsBefore(done, i) = IdsBefore(old, i)
    <3> SUFFICES ASSUME NEW i \in 1..m
                 PROVE  IdsBefore(done, i) = IdsBefore(old, i)
      OBVIOUS
    <3>1. \A j \in 1..(i - 1) : j \in 1..m /\ j # m
      BY <1>2
    <3>2. \A j \in 1..(i - 1) : done[j] = old[j]
      BY <3>1
    <3> HIDE DEF done
    <3> QED
      BY <3>2 DEF IdsBefore
  <2>4. \A i \in 1..m : done[i] = SanitizeBinding(raws[i], IdsBefore(done, i), fallback)
    <3> SUFFICES ASSUME NEW i \in 1..m
                 PROVE  done[i] = SanitizeBinding(raws[i], IdsBefore(done, i), fallback)
      OBVIOUS
    <3>1. CASE i = m
      <4>1. done[i] = last
        BY <3>1
      <4> HIDE DEF done
      <4> QED
        BY <2>3, <3>1, <4>1
    <3>2. CASE i # m
      <4>1. i \in 1..(m - 1) /\ done[i] = old[i]
        BY <1>2, <3>2
      <4> HIDE DEF done
      <4> QED
        BY <2>2, <2>3, <4>1 DEF Sanitized
    <3> QED
      BY <3>1, <3>2
  <2>5. Sanitized(raws, m, fallback, done)
    <3>1. done = [i \in 1..m |-> done[i]]
      OBVIOUS
    <3> HIDE DEF done
    <3> QED
      BY <2>4, <3>1 DEF Sanitized
  <2> QED
    BY <1>2, <2>5
<1> QED
  BY <1>3, <1>4

LEMMA SanitizeBindingsIs ==
    ASSUME NEW raws, NEW n \in Nat, DOMAIN raws = 1..n, NEW fallback
    PROVE  Sanitized(raws, n, fallback, SanitizeBindings(raws, fallback))
<1>1. SanitizeBindings(raws, fallback) = CHOOSE done : Sanitized(raws, n, fallback, done)
  BY DEF SanitizeBindings, Sanitized, IdsBefore
<1> QED
  BY <1>1, SanitizedExists

\* The fields of a binding.
LEMMA SanitizedFields ==
    ASSUME NEW raw, NEW taken, NEW fallback
    PROVE  LET b == SanitizeBinding(raw, taken, fallback) IN
           /\ DOMAIN b = DOMAIN NoBinding
           /\ b.id = BindingId(taken, raw.id)
           /\ b.account = IF raw.account # None THEN raw.account ELSE fallback
           /\ b.enabled \in BOOLEAN
           /\ raw.enabled \in BOOLEAN /\ raw.strategy # "none" => b.enabled = raw.enabled
           /\ b.strategy = IF raw.strategy = "none" THEN "dca" ELSE raw.strategy
           /\ b.cron = BindingCron(raw) /\ b.frequency = "absent"
<1> DEFINE on == raw.enabled /\ raw.strategy # "none"
           clock == BindingCron(raw)
           own == BindingId(taken, raw.id)
           account == IF raw.account # None THEN raw.account ELSE fallback
           strategy == IF raw.strategy = "none" THEN "dca" ELSE raw.strategy
           b == SanitizeBinding(raw, taken, fallback)
<1>1. b = [id |-> own, account |-> account, enabled |-> on, strategy |-> strategy,
           cron |-> clock, frequency |-> "absent"]
  BY Zenon DEF SanitizeBinding
<1>2. on \in BOOLEAN
  OBVIOUS
<1> HIDE DEF on, clock, own, account, strategy, b
<1>3. /\ DOMAIN b = DOMAIN NoBinding
      /\ b.id = own /\ b.account = account /\ b.enabled = on /\ b.strategy = strategy
      /\ b.cron = clock /\ b.frequency = "absent"
  BY <1>1 DEF NoBinding
<1>4. b.enabled \in BOOLEAN
  BY <1>2, <1>3
<1>5. raw.enabled \in BOOLEAN /\ raw.strategy # "none" => on = raw.enabled
  BY DEF on
<1>6. raw.enabled \in BOOLEAN /\ raw.strategy # "none" => b.enabled = raw.enabled
  BY <1>3, <1>5
<1> QED
  BY <1>3, <1>4, <1>6, Zenon DEF clock, own, account, strategy, b

\* A clock is read once: what comes out has one, and is what it was read from.
LEMMA CronSettles ==
    ASSUME NEW raw
    PROVE  /\ BindingCron(raw) \notin {"absent", "mcp", "unusable"}
           /\ raw.cron \notin {"absent", "mcp", "unusable"} => BindingCron(raw) = raw.cron
BY DEF BindingCron

\* Each binding has an id and shares it with none before it.
OwnIds(list, n) ==
  \A i \in 1..n : list[i].id # None /\ \A j \in 1..(i - 1) : list[j].id # list[i].id

\* Every binding gets an id of its own.
LEMMA SanitizedIds ==
    ASSUME NEW raws, NEW n \in Nat, NEW fallback, NEW done, Sanitized(raws, n, fallback, done)
    PROVE  /\ DOMAIN done = 1..n
           /\ OwnIds(done, n)
           /\ \A i \in 1..n : /\ done[i] = SanitizeBinding(raws[i], IdsBefore(done, i), fallback)
                             /\ done[i].id = BindingId(IdsBefore(done, i), raws[i].id)
<1>1. DOMAIN done = 1..n
  BY DEF Sanitized
<1>2. \A i \in 1..n : done[i] = SanitizeBinding(raws[i], IdsBefore(done, i), fallback)
  BY DEF Sanitized
<1>3. ASSUME NEW i \in 1..n
      PROVE  /\ done[i].id = BindingId(IdsBefore(done, i), raws[i].id)
             /\ done[i].id # None /\ \A j \in 1..(i - 1) : done[j].id # done[i].id
  <2>1. done[i].id = BindingId(IdsBefore(done, i), raws[i].id)
    BY <1>2, SanitizedFields
  <2>2. IsFiniteSet(IdsBefore(done, i))
    BY IdsBeforeAreFinite
  <2>3. done[i].id # None /\ done[i].id \notin IdsBefore(done, i)
    BY <2>1, <2>2, IdIsFree
  <2> QED
    BY <2>1, <2>3 DEF IdsBefore
<1> QED
  BY <1>1, <1>2, <1>3 DEF OwnIds

LEMMA ListLength ==
    ASSUME NEW s
    PROVE  IsList(s) <=> \E n \in Nat : s = [i \in 1..n |-> s[i]]
<1>1. ASSUME NEW n \in Nat, s = [i \in 1..n |-> s[i]]
      PROVE  IsList(s)
  <2>1. DOMAIN s = 1..n
    BY <1>1
  <2>2. Cardinality(DOMAIN s) = n
    BY <2>1, FS_Interval
  <2> QED
    BY <1>1, <2>2 DEF IsList
<1> QED
  BY <1>1 DEF IsList

\* What a save makes of the controls that were posted.
LEMMA SavedAreStored ==
    ASSUME NEW body, IsList(body.bindings)
    PROVE  Stored(SanitizeControls(body))
<1> DEFINE fallback == body.trading
           given == SanitizeBindings(body.bindings, fallback)
           none == SanitizeBindings(<<NoBinding>>, fallback)
           list == IF given = <<>> THEN none ELSE given
           made == SanitizeControls(body)
<1>1. PICK n \in Nat : DOMAIN body.bindings = 1..n
  <2>1. PICK n \in Nat : body.bindings = [i \in 1..n |-> body.bindings[i]]
    BY ListLength
  <2> QED
    BY <2>1
<1>2. \E raws : \E m \in Nat : m # 0 /\ Sanitized(raws, m, fallback, list)
  <2>1. CASE given = <<>>
    <3>1. DOMAIN <<NoBinding>> = 1..1
      OBVIOUS
    <3>2. Sanitized(<<NoBinding>>, 1, fallback, none)
      BY <3>1, SanitizeBindingsIs
    <3> QED
      BY <2>1, <3>2
  <2>2. CASE given # <<>>
    <3>1. Sanitized(body.bindings, n, fallback, given)
      BY <1>1, SanitizeBindingsIs
    <3>2. n # 0
      <4>1. SUFFICES ASSUME n = 0
                     PROVE  given = <<>>
        BY <2>2
      <4>2. given = [i \in 1..0 |-> SanitizeBinding(body.bindings[i], IdsBefore(given, i), fallback)]
        BY <3>1, <4>1 DEF Sanitized
      <4> HIDE DEF given
      <4> QED
        BY <4>2
    <3> QED
      BY <2>2, <3>1, <3>2
  <2> QED
    BY <2>1, <2>2
<1>3. PICK raws : \E m \in Nat : m # 0 /\ Sanitized(raws, m, fallback, list)
  BY <1>2
<1>4. PICK m \in Nat : m # 0 /\ Sanitized(raws, m, fallback, list)
  BY <1>3
<1>5. made.bindings = list
      /\ made.trading = IF fallback # None THEN fallback ELSE list[1].account
  BY DEF SanitizeControls
<1> HIDE DEF list, made, fallback
<1>6. /\ DOMAIN list = 1..m
      /\ \A i \in 1..m : /\ list[i] = SanitizeBinding(raws[i], IdsBefore(list, i), fallback)
                        /\ list[i].id # None /\ \A j \in 1..(i - 1) : list[j].id # list[i].id
  <2>1. Sanitized(raws, m, fallback, list)
    BY <1>4
  <2>2. DOMAIN list = 1..m
    BY <2>1 DEF Sanitized
  <2>3. \A i \in 1..m : list[i] = SanitizeBinding(raws[i], IdsBefore(list, i), fallback)
    BY <2>1, SanitizedIds
  <2>4. OwnIds(list, m)
    BY <2>1, SanitizedIds
  <2> QED
    BY <2>2, <2>3, <2>4 DEF OwnIds
<1>7. ASSUME NEW i \in 1..m
      PROVE  /\ DOMAIN list[i] = DOMAIN NoBinding
             /\ list[i].enabled \in BOOLEAN /\ list[i].strategy # "none"
             /\ list[i].cron \notin {"absent", "mcp", "unusable"} /\ list[i].frequency = "absent"
  <2>1. list[i] = SanitizeBinding(raws[i], IdsBefore(list, i), fallback)
    BY <1>6
  <2>2. list[i].strategy = IF raws[i].strategy = "none" THEN "dca" ELSE raws[i].strategy
    BY <2>1, SanitizedFields
  <2>3. list[i].strategy # "none"
    BY <2>2
  <2>4. list[i].cron = BindingCron(raws[i])
    BY <2>1, SanitizedFields
  <2>5. list[i].cron \notin {"absent", "mcp", "unusable"}
    BY <2>4, CronSettles
  <2>6. /\ DOMAIN list[i] = DOMAIN NoBinding
        /\ list[i].enabled \in BOOLEAN /\ list[i].frequency = "absent"
    BY <2>1, SanitizedFields
  <2> QED
    BY <2>3, <2>5, <2>6
<1>8. made.trading = None => list[1].account = None
  <2>1. CASE fallback # None
    BY <1>5, <2>1
  <2>2. CASE fallback = None
    BY <1>5, <2>2
  <2> QED
    BY <2>1, <2>2
<1>9. IsList(list)
  <2>1. list = [i \in 1..m |-> list[i]]
    BY <1>4 DEF Sanitized
  <2> QED
    BY <2>1, ListLength
<1>10. Stored(made)
  BY <1>5, <1>6, <1>7, <1>8, <1>9 DEF Stored
<1> QED
  BY <1>10 DEF made

\* Reading controls that a save left gives them their ids back, in their order.
LEMMA StoredIds ==
    ASSUME NEW saved, NEW n \in Nat, NEW fallback, NEW done, Sanitized(saved, n, fallback, done),
           OwnIds(saved, n)
    PROVE  \A i \in 1..n : done[i].id = saved[i].id
<1> DEFINE Changing == {i \in 1..n : done[i].id # saved[i].id}
<1>1. SUFFICES ASSUME Changing # {}
               PROVE  FALSE
  OBVIOUS
<1>2. PICK i \in Changing : \A j \in Changing : i <= j
  <2>1. Changing \in SUBSET Nat
    OBVIOUS
  <2> HIDE DEF Changing
  <2> QED
    BY <1>1, <2>1, LeastNatural
<1>3. \A j \in 1..(i - 1) : done[j].id = saved[j].id
  <2> SUFFICES ASSUME NEW j \in 1..(i - 1), done[j].id # saved[j].id
               PROVE  FALSE
    OBVIOUS
  <2>1. j \in Changing /\ j < i
    BY <1>2
  <2> QED
    BY <1>2, <2>1
<1>4. i \in 1..n
  OBVIOUS
<1>5. saved[i].id \notin IdsBefore(done, i)
  BY <1>3, <1>4 DEF IdsBefore, OwnIds
<1>6. IsFiniteSet(IdsBefore(done, i))
  BY <1>4, IdsBeforeAreFinite
<1>7. done[i].id = BindingId(IdsBefore(done, i), saved[i].id)
  BY <1>4, SanitizedIds
<1>8. done[i].id = saved[i].id
  BY <1>4, <1>5, <1>6, <1>7, IdIsFree DEF OwnIds
<1> QED
  BY <1>2, <1>8

\* Two bindings that differ in their accounts at most.
LEMMA SameButAccount ==
    ASSUME NEW b, NEW c, DOMAIN b = DOMAIN NoBinding, DOMAIN c = DOMAIN NoBinding,
           b.id = c.id, b.enabled = c.enabled, b.strategy = c.strategy,
           b.cron = c.cron, b.frequency = c.frequency
    PROVE  [b EXCEPT !.account = None] = [c EXCEPT !.account = None]
<1>1. DOMAIN NoBinding = {"id", "account", "enabled", "strategy", "cron", "frequency"}
  BY DEF NoBinding
<1>2. \A f \in DOMAIN NoBinding : f # "account" => b[f] = c[f]
  BY <1>1
<1> QED
  BY <1>2

\* Controls as a save leaves them are read as they were saved.
LEMMA StoredAreRead ==
    ASSUME Stored(file.controls), IsDocument(file)
    PROVE  ControlsRead
<1> DEFINE saved == file.controls
           fallback == saved.trading
           list == saved.bindings
           back == SanitizeBindings(list, fallback)
           read == LoadControls(file)
<1>1. SUFFICES ASSUME list # <<>>
               PROVE  ControlsRead
  BY DEF ControlsRead
<1>2. PICK n \in Nat : list = [i \in 1..n |-> list[i]]
  BY ListLength DEF Stored
<1>3. DOMAIN list = 1..n
  BY <1>2
<1>4. n # 0
  <2>1. SUFFICES ASSUME n = 0
                 PROVE  list = <<>>
    BY <1>1
  <2> HIDE DEF list
  <2> QED
    BY <1>2, <2>1
<1>5. ASSUME NEW i \in 1..n
      PROVE  /\ DOMAIN list[i] = DOMAIN NoBinding
             /\ list[i].id # None /\ \A j \in 1..(i - 1) : list[j].id # list[i].id
             /\ list[i].enabled \in BOOLEAN /\ list[i].strategy # "none"
             /\ list[i].cron \notin {"absent", "mcp", "unusable"} /\ list[i].frequency = "absent"
  BY <1>3 DEF Stored
<1>6. fallback = None => list[1].account = None
  BY DEF Stored
<1>7. Sanitized(list, n, fallback, back)
  BY <1>3, SanitizeBindingsIs
<1>8. /\ DOMAIN back = 1..n
      /\ \A i \in 1..n : back[i] = SanitizeBinding(list[i], IdsBefore(back, i), fallback)
  <2> HIDE DEF list, back
  <2> QED
    BY <1>7, SanitizedIds
<1>9. back # <<>>
  BY <1>4, <1>8
<1>10. /\ read.bindings = back
       /\ read.trading = IF fallback # None THEN fallback ELSE back[1].account
  <2>1. read = SanitizeControls(saved)
    BY DEF IsDocument, LoadControls, Document
  <2> HIDE DEF read, saved
  <2> QED
    BY <1>9, <2>1 DEF SanitizeControls
<1> HIDE DEF list, back, read, saved, fallback
<1>11. ASSUME NEW i \in 1..n
       PROVE  /\ back[i].id = list[i].id
              /\ [back[i] EXCEPT !.account = None] = [list[i] EXCEPT !.account = None]
              /\ back[i].account = IF list[i].account # None THEN list[i].account ELSE fallback
  <2>1. \A k \in 1..n : back[k].id = list[k].id
    <3>1. OwnIds(list, n)
      BY <1>5 DEF OwnIds
    <3> QED
      BY <1>7, <3>1, StoredIds
  <2>2. back[i] = SanitizeBinding(list[i], IdsBefore(back, i), fallback)
    BY <1>8
  <2>3. /\ DOMAIN back[i] = DOMAIN NoBinding
        /\ back[i].cron = BindingCron(list[i]) /\ back[i].frequency = "absent"
        /\ back[i].account = IF list[i].account # None THEN list[i].account ELSE fallback
        /\ back[i].strategy = IF list[i].strategy = "none" THEN "dca" ELSE list[i].strategy
    BY <2>2, SanitizedFields
  <2>4. list[i].enabled \in BOOLEAN /\ list[i].strategy # "none" => back[i].enabled = list[i].enabled
    BY <2>2, SanitizedFields
  <2>5. back[i].enabled = list[i].enabled
    BY <1>5, <2>4
  <2>6. back[i].strategy = list[i].strategy
    BY <1>5, <2>3
  <2>7. back[i].cron = list[i].cron
    BY <1>5, <2>3, CronSettles
  <2>8. back[i].id = list[i].id
    BY <2>1
  <2>9. DOMAIN list[i] = DOMAIN NoBinding /\ back[i].frequency = list[i].frequency
    BY <1>5, <2>3
  <2>10. [back[i] EXCEPT !.account = None] = [list[i] EXCEPT !.account = None]
    BY <2>3, <2>5, <2>6, <2>7, <2>8, <2>9, SameButAccount
  <2> QED
    BY <2>3, <2>8, <2>10
<1>12. read.trading = saved.trading
  <2>1. 1 \in 1..n
    BY <1>4
  <2> QED
    BY <1>6, <1>10, <1>11, <2>1 DEF fallback
<1>13. ASSUME NEW i \in DOMAIN read.bindings
       PROVE  /\ \A j \in 1..(i - 1) : read.bindings[j].id # read.bindings[i].id
              /\ [read.bindings[i] EXCEPT !.account = None] = [saved.bindings[i] EXCEPT !.account = None]
              /\ \/ read.bindings[i].account = saved.bindings[i].account
                 \/ saved.bindings[i].account = None /\ read.bindings[i].account = fallback
  <2>1. i \in 1..n /\ read.bindings = back /\ saved.bindings = list
    BY <1>8, <1>10 DEF list
  <2>2. ASSUME NEW j \in 1..(i - 1)
        PROVE  back[j].id # back[i].id
    <3>1. j \in 1..n
      BY <2>1
    <3>2. back[j].id = list[j].id /\ back[i].id = list[i].id
      BY <1>11, <2>1, <3>1
    <3> QED
      BY <1>5, <2>1, <3>2
  <2>3. [back[i] EXCEPT !.account = None] = [list[i] EXCEPT !.account = None]
    BY <1>11, <2>1
  <2>4. back[i].account = IF list[i].account # None THEN list[i].account ELSE fallback
    BY <1>11, <2>1
  <2>5. back[i].account = list[i].account \/ (list[i].account = None /\ back[i].account = fallback)
    BY <2>4
  <2> QED
    BY <2>1, <2>2, <2>3, <2>5
<1>14. DOMAIN read.bindings = DOMAIN saved.bindings
  BY <1>3, <1>8, <1>10 DEF list
<1> QED
  BY <1>12, <1>13, <1>14 DEF ControlsRead, read, saved, fallback

-----------------------------------------------------------------------------
(* Tuning is read as it was written                                        *)

\* Rounding is off by half at most.
LEMMA RoundedIsNear ==
    ASSUME NEW n \in Int, NEW d \in Nat \ {0}
    PROVE  /\ Rounded(n, d) \in Int
           /\ 2 * (Rounded(n, d) * d - n) \in -d..d
           /\ Rounded(n, d) < 1 => n < d
<1> DEFINE q == n \div d
           m == n % d
           r == Rounded(n, d)
<1>1. q \in Int /\ m \in 0..(d - 1) /\ n = q * d + m
  OBVIOUS
<1>2. r \in {q, q + 1} /\ (r = q => 2 * m <= d) /\ (r = q + 1 => 2 * m >= d)
  BY <1>1 DEF Rounded
<1> HIDE DEF q, m, r
<1>3. r \in Int
  BY <1>1, <1>2
<1>4. CASE r = q
  <2>1. r * d - n = -m
    BY <1>1, <1>4
  <2>2. 2 * (r * d - n) \in -d..d
    BY <1>1, <1>2, <1>4, <2>1
  <2>3. r < 1 => n < d
    <3>1. SUFFICES ASSUME q <= 0
                   PROVE  n < d
      BY <1>1, <1>4
    <3>2. q * d <= 0
      BY <1>1, <3>1
    <3>3. q * d \in Int
      BY <1>1
    <3> QED
      BY <1>1, <3>2, <3>3
  <2> QED
    BY <1>3, <2>2, <2>3 DEF r
<1>5. CASE r = q + 1
  <2>1. r * d = q * d + d
    BY <1>1, <1>5
  <2>2. q * d \in Int /\ r * d - n = d - m
    BY <1>1, <2>1
  <2>3. 2 * (r * d - n) \in -d..d
    BY <1>1, <1>2, <1>5, <2>2
  <2>4. r < 1 => n < d
    <3>1. SUFFICES ASSUME q <= -1
                   PROVE  n < d
      BY <1>1, <1>5
    <3>2. q * d <= 0
      BY <1>1, <3>1
    <3> QED
      BY <1>1, <2>2, <3>2
  <2> QED
    BY <1>3, <2>3, <2>4 DEF r
<1> QED
  BY <1>2, <1>4, <1>5

\* A horizon is read to the nearest day, whatever it was written in.
LEMMA HorizonIsRead ==
    ASSUME NEW section, HasHorizon(section), NEW default, NEW days, days = DaysKnob(section, default)
    PROVE  \/ 2 * (days * SessionMinutes - Written(section)) \in -SessionMinutes..SessionMinutes
           \/ days = 1 /\ Written(section) < SessionMinutes
<1> DEFINE m == MinutesKnob(section, default * SessionMinutes)
           d == Rounded(m, SessionMinutes)
<1>1. SessionMinutes \in Nat \ {0} /\ LegacyGrid \in Nat \ {0} /\ None \notin Int /\ Bad \notin Int
  BY SettingsAssumption
<1>2. CASE "days" \in DOMAIN section
  <2>1. section.days \in Int
    BY <1>2 DEF HasHorizon, Given
  <2>2. days = section.days
    BY <1>1, <1>2, <2>1 DEF DaysKnob, Number
  <2>3. Written(section) = section.days * SessionMinutes
    BY <1>2 DEF Written
  <2> QED
    BY <1>1, <2>1, <2>2, <2>3
<1>3. CASE "days" \notin DOMAIN section /\ "horizonDays" \in DOMAIN section
  <2>1. section.horizonDays \in Int
    BY <1>3 DEF HasHorizon, Given
  <2>2. days = section.horizonDays
    BY <1>1, <1>3, <2>1 DEF DaysKnob, Number
  <2>3. Written(section) = section.horizonDays * SessionMinutes
    BY <1>3 DEF Written
  <2> QED
    BY <1>1, <2>1, <2>2, <2>3
<1>4. CASE "days" \notin DOMAIN section /\ "horizonDays" \notin DOMAIN section
  <2>1. m \in Int /\ m = Written(section) /\ DOMAIN section \cap {"days", "horizonDays", "minutes", "bars"} # {}
    <3>1. CASE "minutes" \in DOMAIN section
      <4>1. section.minutes \in Int
        BY <1>4, <3>1 DEF HasHorizon, Given
      <4> QED
        BY <1>1, <1>4, <3>1, <4>1 DEF MinutesKnob, Number, Written
    <3>2. CASE "minutes" \notin DOMAIN section
      <4>1. "bars" \in DOMAIN section /\ section.bars \in Int
        BY <1>1, <1>4, <3>2 DEF HasHorizon, Given
      <4> DEFINE grid == Number(Given(section, "grid"), LegacyGrid)
      <4>2. grid \in Int \ {0}
        BY <1>1 DEF HasHorizon, Number
      <4>3. Written(section) = section.bars * grid
        BY <1>4, <3>2 DEF Written
      <4>4. Number(Given(section, "bars"), None) # None
        BY <1>1, <4>1 DEF Number, Given
      <4>5. m = section.bars * grid
        BY <3>2, <4>2, <4>4 DEF MinutesKnob
      <4> HIDE DEF grid
      <4> QED
        BY <4>1, <4>2, <4>3, <4>5
    <3> QED
      BY <3>1, <3>2
  <2> HIDE DEF m
  <2>2. days = IF d < 1 THEN 1 ELSE d
    BY <1>4, <2>1 DEF DaysKnob, m
  <2>3. /\ d \in Int
        /\ 2 * (d * SessionMinutes - m) \in -SessionMinutes..SessionMinutes
        /\ d < 1 => m < SessionMinutes
    BY <1>1, <2>1, RoundedIsNear
  <2> HIDE DEF d
  <2>4. CASE d < 1
    BY <2>1, <2>2, <2>3, <2>4
  <2>5. CASE ~(d < 1)
    BY <2>1, <2>2, <2>3, <2>5
  <2> QED
    BY <2>4, <2>5
<1> QED
  BY <1>2, <1>3, <1>4

\* The only section there is is found under either id.
LEMMA OnlySection ==
    ASSUME NEW tuning, NEW id \in DOMAIN tuning, DOMAIN tuning[id] # {},
           NEW key \in {"canonical", "retired"}, DOMAIN tuning \subseteq {key}
    PROVE  TuningSection(tuning, Ids) = tuning[id]
<1> DEFINE kept == {i \in DOMAIN Ids : Ids[i] \in DOMAIN tuning /\ DOMAIN tuning[Ids[i]] # {}}
<1>1. id = key
  OBVIOUS
<1>2. \E i \in {1, 2} : kept = {i} /\ Ids[i] = id
  <2>1. CASE key = "canonical"
    <3>1. kept = {1} /\ Ids[1] = id
      BY <1>1, <2>1 DEF Ids
    <3> QED
      BY <3>1
  <2>2. CASE key = "retired"
    <3>1. kept = {2} /\ Ids[2] = id
      BY <1>1, <2>2 DEF Ids
    <3> QED
      BY <3>1
  <2> QED
    BY <2>1, <2>2
<1>3. PICK i \in {1, 2} : kept = {i} /\ Ids[i] = id
  BY <1>2
<1>4. TuningSection(tuning, Ids) = tuning[Ids[CHOOSE k \in kept : \A j \in kept : k <= j]]
  BY <1>3 DEF TuningSection
<1> HIDE DEF kept
<1>5. (CHOOSE k \in kept : \A j \in kept : k <= j) = i
  BY <1>3
<1> QED
  BY <1>3, <1>4, <1>5

\* What is tuned under one id is read as it was written.
LEMMA OneIdIsRead ==
    ASSUME NEW key \in {"canonical", "retired"}, DOMAIN file.tuning \subseteq {key}
    PROVE  TuningRead
<1> SUFFICES ASSUME NEW id \in DOMAIN file.tuning, DOMAIN file.tuning[id] # {}
             PROVE  LET section == file.tuning[id]
                        read == LoadTuning(TuningSection(file.tuning, Ids))
                    IN  /\ read = LoadTuning(section)
                        /\ HasHorizon(section) =>
                           \/ 2 * (read.horizon * SessionMinutes - Written(section)) \in -SessionMinutes..SessionMinutes
                           \/ read.horizon = 1 /\ Written(section) < SessionMinutes
  BY DEF TuningRead
<1> DEFINE section == file.tuning[id]
           read == LoadTuning(section)
<1>1. TuningSection(file.tuning, Ids) = section
  BY OnlySection
<1>2. read.horizon = DaysKnob(section, Knobs["horizon"].default)
  BY KnobsAssumption DEF LoadTuning, Coerced
<1>3. HasHorizon(section) =>
        \/ 2 * (read.horizon * SessionMinutes - Written(section)) \in -SessionMinutes..SessionMinutes
        \/ read.horizon = 1 /\ Written(section) < SessionMinutes
  <2> HIDE DEF read, section
  <2> QED
    BY <1>2, HorizonIsRead
<1> QED
  BY <1>1, <1>3

-----------------------------------------------------------------------------
(* What is in the file was saved                                           *)

\* The file and every document a request builds on are as saves leave them.
SavedInv ==
  /\ IsDocument(file) => AsSaved(file)
  /\ \A r \in Savers : Busy(r) => /\ AsSaved(req[r].base)
                                  /\ req[r].kind = "controls" => req[r].body \in Bodies

LEMMA EmptyIsSaved == AsSaved(EmptyDocument)
BY DEF AsSaved, EmptyDocument, NoControls

\* A save leaves the controls as saves do, and the tuning under the id it was under.
LEMMA ChangedIsSaved ==
    ASSUME NEW kind \in Endpoints, NEW base, NEW body, DOMAIN base = Fields, AsSaved(base),
           kind = "controls" => body \in Bodies
    PROVE  AsSaved(Changed(kind, base, body))
<1> DEFINE new == Changed(kind, base, body)
<1>1. CASE kind = "controls"
  <2>1. new.controls = SanitizeControls(body) /\ new.tuning = base.tuning
    BY <1>1 DEF Changed, WithControls, Fields
  <2>2. Stored(SanitizeControls(body))
    BY <1>1, BodiesAssumption, SavedAreStored
  <2> QED
    BY <2>1, <2>2 DEF AsSaved
<1>2. CASE kind = "tuning"
  <2>1. new = WithTuning(base, body)
    BY <1>2 DEF Changed
  <2>2. new.controls = base.controls
    BY <2>1 DEF WithTuning, Fields
  <2>3. PICK id \in {"canonical", "retired"} : DOMAIN base.tuning \subseteq {id}
    BY DEF AsSaved
  <2>4. \E key \in {"canonical", "retired"} : DOMAIN new.tuning \subseteq {key}
    <3>1. CASE DOMAIN base.tuning = {"retired"}
      <4>1. DOMAIN new.tuning = {"retired"}
        BY <2>1, <3>1 DEF WithTuning, Fields
      <4> QED
        BY <4>1
    <3>2. CASE DOMAIN base.tuning # {"retired"}
      <4>1. "retired" \notin DOMAIN base.tuning /\ DOMAIN base.tuning \subseteq {"canonical"}
        BY <2>3, <3>2
      <4>2. DOMAIN new.tuning = {"canonical"}
        BY <2>1, <4>1 DEF WithTuning, Fields
      <4> QED
        BY <4>2
    <3> QED
      BY <3>1, <3>2
  <2> QED
    BY <2>2, <2>4 DEF AsSaved
<1>3. CASE kind \in {"account", "delete", "universe"}
  <2>1. new.controls = base.controls /\ new.tuning = base.tuning
    BY <1>3 DEF Changed, WithAccount, WithoutAccount, WithUniverse, Fields
  <2> QED
    BY <2>1 DEF AsSaved
<1> QED
  BY <1>1, <1>2, <1>3 DEF Endpoints

LEMMA SavedStep == ConfigInv /\ SavedInv /\ [ConfigNext]_configVars => SavedInv'
<1> SUFFICES ASSUME ConfigInv, SavedInv, [ConfigNext]_configVars
             PROVE  SavedInv'
  OBVIOUS
<1> USE DEF ConfigInv
<1>1. ASSUME NEW r \in Savers, Load(r)
      PROVE  SavedInv'
  <2>1. file' = file /\ \A q \in Savers \ {r} : req'[q] = req[q]
    BY <1>1 DEF Load
  <2>2. \/ req'[r] = NoSave
        \/ \E kind \in Endpoints : \E body \in BodiesOf(kind) :
             /\ file # Unreadable
             /\ req'[r] = [pc |-> IF kind = "delete" THEN "check" ELSE "ready",
                           kind |-> kind, body |-> body, base |-> Document(file)]
    BY <1>1 DEF Load
  <2>3. file # Unreadable => AsSaved(Document(file))
    BY EmptyIsSaved DEF SavedInv, IsDocument, Document
  <2>4. Busy(r)' => AsSaved(req'[r].base) /\ (req'[r].kind = "controls" => req'[r].body \in Bodies)
    <3>1. CASE req'[r] = NoSave
      BY <3>1 DEF Busy, NoSave
    <3>2. ASSUME NEW kind \in Endpoints, NEW body \in BodiesOf(kind), file # Unreadable,
                 req'[r] = [pc |-> IF kind = "delete" THEN "check" ELSE "ready",
                            kind |-> kind, body |-> body, base |-> Document(file)]
          PROVE  AsSaved(req'[r].base) /\ (req'[r].kind = "controls" => req'[r].body \in Bodies)
      <4>1. req'[r].base = Document(file) /\ req'[r].kind = kind /\ req'[r].body = body
        BY <3>2
      <4>2. kind = "controls" => body \in Bodies
        BY DEF BodiesOf
      <4> QED
        BY <2>3, <3>2, <4>1, <4>2
    <3> QED
      BY <2>2, <3>1, <3>2
  <2> QED
    BY <2>1, <2>4 DEF SavedInv, Busy
<1>2. ASSUME NEW r \in Savers, Check(r) \/ Acquire(r) \/ WriteTmp(r)
      PROVE  SavedInv'
  <2>1. /\ file' = file /\ Busy(r)
        /\ \A q \in Savers \ {r} : req'[q] = req[q]
    BY <1>2 DEF Check, Acquire, WriteTmp, Busy
  <2>2. DOMAIN req[r] = {"pc", "kind", "body", "base"}
    BY <2>1 DEF RequestInv
  <2>3. Busy(r)' => /\ req'[r].base = req[r].base /\ req'[r].kind = req[r].kind
                    /\ req'[r].body = req[r].body
    BY <1>2, <2>2 DEF Check, Acquire, WriteTmp, NoSave, Busy
  <2> QED
    BY <2>1, <2>3 DEF SavedInv, Busy
<1>3. ASSUME NEW r \in Savers, Replace(r)
      PROVE  SavedInv'
  <2>1. /\ req[r].pc = "written" /\ req'[r] = NoSave
        /\ file' = Changed(req[r].kind, req[r].base, req[r].body)
        /\ \A q \in Savers \ {r} : req'[q] = req[q]
    BY <1>3 DEF Replace, RequestInv
  <2>2. AsSaved(file')
    BY <2>1, ChangedIsSaved DEF RequestInv, Busy, SavedInv
  <2>3. ~Busy(r)'
    BY <2>1 DEF Busy, NoSave
  <2> QED
    BY <2>1, <2>2, <2>3 DEF SavedInv, Busy
<1>4. ASSUME Boot \/ WriteMerged \/ InstallMerged \/ CopySeed
      PROVE  SavedInv'
  <2>1. proc # "up" /\ req' = req
    BY <1>4 DEF Boot, WriteMerged, InstallMerged, CopySeed
  <2>2. \A r \in Savers : ~Busy(r)'
    BY <2>1 DEF StartInv, Busy
  <2>3. file' \in {file, EmptyDocument, Unreadable} \cup Seeds \cup Legacies
    BY <1>4 DEF Boot, WriteMerged, InstallMerged, CopySeed, StartInv
  <2>4. IsDocument(file)' => AsSaved(file)'
    BY <2>3, EmptyIsSaved, DocumentAssumption DEF SavedInv, IsDocument
  <2> QED
    BY <2>2, <2>4 DEF SavedInv
<1>5. ASSUME Crash
      PROVE  SavedInv'
  BY <1>5 DEF Crash, SavedInv, Busy, NoSave
<1>6. ASSUME \/ RunStart \/ RunAccount \/ RunConfig \/ RunBroker \/ RunEnd
             \/ UNCHANGED configVars
      PROVE  SavedInv'
  <2>1. UNCHANGED <<file, req>>
    BY <1>6 DEF RunStart, RunAccount, RunConfig, RunBroker, RunEnd, configVars
  <2> QED
    BY <2>1 DEF SavedInv, Busy
<1> QED
  BY <1>1, <1>2, <1>3, <1>4, <1>5, <1>6 DEF ConfigNext, Serve

\* For every number of threads and every body, knob, image and older file: what the file holds is
\* read as it was saved, bindings with ids and clocks of their own and horizons to the nearest day,
\* whichever threads save in whichever order and wherever the process dies
\* (controls.py, sanitize_controls; config_utils.py, days_knob).
THEOREM SavedIsReadBack == ConfigSpec => []SavedReadsBack
<1>1. ConfigInit => SavedInv
  BY DEF ConfigInit, SavedInv, IsDocument, Busy, NoSave
<1>2. ConfigInv /\ SavedInv /\ [ConfigNext]_configVars => SavedInv'
  BY SavedStep
<1>3. SavedInv => SavedReadsBack
  <2> SUFFICES ASSUME SavedInv, IsDocument(file)
               PROVE  ControlsRead /\ TuningRead
    BY DEF SavedReadsBack
  <2>1. AsSaved(file)
    BY DEF SavedInv
  <2>2. ControlsRead
    <3>1. file.controls.bindings = <<>> \/ Stored(file.controls)
      BY <2>1 DEF AsSaved
    <3> QED
      BY <3>1, StoredAreRead DEF ControlsRead
  <2>3. TuningRead
    BY <2>1, OneIdIsRead DEF AsSaved
  <2> QED
    BY <2>2, <2>3
<1> QED
  BY <1>1, <1>2, <1>3, ConfigInvariant, PTL DEF ConfigSpec
=============================================================================
