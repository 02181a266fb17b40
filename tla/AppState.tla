------------------------------ MODULE AppState ------------------------------
(***************************************************************************)
(* The documents of the state store and the operations that keep them:     *)
(* each is loaded whole, changed in memory and saved whole, with nothing   *)
(* between the load and the save to keep another writer out.  Runs, by the *)
(* scheduler or by an agent, trade on a paper book, commit a memory and    *)
(* append to the order journal; the dashboard asks for backtests and       *)
(* signal views, which are computed once and cached by what they depend    *)
(* on; broker sessions rotate a refresh token that a consent once minted.  *)
(* A backtest runs the same algorithms over the same store, redirected to  *)
(* a throwaway dict of its thread.  The process may die between any two    *)
(* steps.  A book is the set of its fills, a memory the set of the runs    *)
(* that committed to it.                                                   *)
(***************************************************************************)
EXTENDS Integers, Sequences, FiniteSets

CONSTANTS
  Threads,       \* threads of the process
  Bindings,      \* bindings the runs are for
  AccountOf,     \* the paper account of a binding
  Requests,      \* what the dashboard asks for: [kind, strategy, account]
  JournalLimit,  \* JOURNAL_LIMIT
  ConfigToken,   \* schwab_refresh_token of the configuration, 0 for none
  MaxFills,      \* bound: orders of a run
  MaxOps,        \* bound: operations begun
  MaxConfigs,    \* bound: parts of the configuration that were saved
  MaxTokens      \* bound: tokens the server mints

Accounts == {AccountOf[b] : b \in Bindings} \cup {r.account : r \in Requests}
Kinds    == {r.kind : r \in Requests}
Parts    == {"named", "rest"}

NoNonce == 0
Missing == 0

\* The documents, by name.
Book(a)   == <<"paper_brokerage", a>>
Memory(b) == <<"algorithm_state", b>>
Cache(k)  == <<"cache", k>>
Journal   == <<"algorithm_order_journal", "">>
Token     == <<"schwab_oauth_token", "">>
Pending   == <<"schwab_oauth_pending", "">>

Documents == {Book(a) : a \in Accounts} \cup {Memory(b) : b \in Bindings} \cup {Cache(k) : k \in Kinds}
               \cup {Journal, Token, Pending}

ASSUME AppStateAssumption ==
  JournalLimit \in Nat \ {0} /\ ConfigToken \in Nat

VARIABLES
  store,     \* app_state: what each document holds
  work,      \* what each thread is doing
  config,    \* of each account, the part of its configuration that keys name, and the rest
  server,    \* the broker's side: the token that is live, when its consent was given, tokens minted
  ops,       \* operations begun, and so the name of the newest
  truth,     \* for the properties: what each document would hold if operations had taken turns
  open,      \* for the properties: the documents a thread has loaded and may still save
  mixed,     \* for the properties: the documents saved while another thread had them loaded
  orphaned,  \* for the properties: a rotated token died with the process
  answered   \* for the properties: what the last answer was about

world == <<config, server>>
vars  == <<store, work, config, server, ops, truth, open, mixed, orphaned, answered>>

Idle == [pc |-> "idle"]

NewStore(token) ==
  [d \in Documents |->
     IF d = Journal THEN <<>>
     ELSE IF d = Token THEN [refresh |-> token, issued |-> token]
     ELSE IF d = Pending THEN NoNonce
     ELSE IF \E k \in Kinds : d = Cache(k) THEN <<>>
     ELSE {}]

\* A consent may have been given before.
Init ==
  /\ \E token \in {Missing, 1} :
       /\ store = NewStore(token) /\ truth = store
       /\ LET live == IF token = Missing THEN ConfigToken ELSE token
          IN  server = [live |-> live, issued |-> token, minted |-> live]
  /\ work = [t \in Threads |-> Idle]
  /\ config = [a \in Accounts |-> [named |-> 0, rest |-> 0]]
  /\ ops = 0
  /\ open = [t \in Threads |-> {}] /\ mixed = {} /\ orphaned = FALSE
  /\ answered = [hit |-> FALSE]

-----------------------------------------------------------------------------
(* Loading and saving.                                                     *)

\* A mutant of Redirected: one flag for the process.
RedirectedForAll(t) == \E u \in Threads : work[u].pc \in {"replaying", "replayed"}

\* Inside ephemeral_state, which is a matter of the thread's own context.
Redirected(t) == work[t].pc \in {"replaying", "replayed"}

Saved(t, d, v) == IF Redirected(t) THEN store ELSE [store EXCEPT ![d] = v]

\* Others that have d loaded are about to overwrite what t saves, or t what they saved.
MixedBy(t, d) == IF \E u \in Threads \ {t} : d \in open[u] THEN mixed \cup {d} ELSE mixed

Loads(t, ds)     == open' = [open EXCEPT ![t] = @ \cup ds]
Lets(t, ds)      == open' = [open EXCEPT ![t] = @ \ ds]
Goes(t, what)    == work' = [work EXCEPT ![t] = what]
Begins(t)        == work[t].pc = "idle" /\ ops < MaxOps /\ ops' = ops + 1

-----------------------------------------------------------------------------
(* A run on a paper account, by the scheduler or by an agent.              *)

\* The book is loaded when the brokerage is made, and kept by it.
OpenBrokerage(t, b) ==
  /\ Begins(t)
  /\ Goes(t, [pc |-> "opened", run |-> ops + 1, binding |-> b, book |-> store[Book(AccountOf[b])],
              memory |-> {}, fills |-> <<>>])
  /\ Loads(t, {Book(AccountOf[b])})
  /\ UNCHANGED <<store, config, server, truth, mixed, orphaned, answered>>

\* The context holds the memory of the runs before.
LoadMemory(t) ==
  LET w == work[t] IN
  /\ w.pc = "opened"
  /\ Goes(t, [w EXCEPT !.pc = "planned", !.memory = store[Memory(w.binding)]])
  /\ Loads(t, {Memory(w.binding)})
  /\ UNCHANGED <<store, config, server, ops, truth, mixed, orphaned, answered>>

\* Nothing is to be done: no memory to commit, no order to record.
PlanNothing(t) ==
  /\ work[t].pc = "planned" /\ work[t].fills = <<>>
  /\ Goes(t, Idle)
  /\ Lets(t, Documents)
  /\ UNCHANGED <<store, config, server, ops, truth, mixed, orphaned, answered>>

\* A fill is in the store before submit_order returns.
FillOrder(t) ==
  LET w    == work[t]
      doc  == Book(AccountOf[w.binding])
      fill == <<w.run, Len(w.fills) + 1>>
  IN
  /\ w.pc = "planned" /\ Len(w.fills) < MaxFills
  /\ Goes(t, [w EXCEPT !.book = @ \cup {fill}, !.fills = Append(@, fill)])
  /\ store' = Saved(t, doc, w.book \cup {fill})
  /\ truth' = [truth EXCEPT ![doc] = @ \cup {fill}]
  /\ mixed' = MixedBy(t, doc)
  /\ UNCHANGED <<config, server, ops, open, orphaned, answered>>

\* The marks are saved with the book, whether or not anything filled.
MarkPrices(t) ==
  LET w == work[t]  doc == Book(AccountOf[w.binding]) IN
  /\ w.pc = "planned"
  /\ Goes(t, [w EXCEPT !.pc = "marked"])
  /\ store' = Saved(t, doc, w.book)
  /\ mixed' = MixedBy(t, doc)
  /\ Lets(t, {doc})
  /\ UNCHANGED <<config, server, ops, truth, orphaned, answered>>

\* What the plan and the fills make of the memory the plan was given.
Commit(t) ==
  LET w == work[t]  doc == Memory(w.binding) IN
  /\ w.pc = "marked"
  /\ Goes(t, [w EXCEPT !.pc = IF w.fills = <<>> THEN "idle" ELSE "committed"])
  /\ store' = Saved(t, doc, w.memory \cup {w.run})
  /\ truth' = [truth EXCEPT ![doc] = @ \cup {w.run}]
  /\ mixed' = MixedBy(t, doc)
  /\ Lets(t, {doc})
  /\ UNCHANGED <<config, server, ops, orphaned, answered>>

LoadJournal(t) ==
  LET w == work[t] IN
  /\ w.pc = "committed"
  /\ Goes(t, [pc |-> "journalling", fills |-> w.fills, journal |-> store[Journal]])
  /\ Loads(t, {Journal})
  /\ UNCHANGED <<store, config, server, ops, truth, mixed, orphaned, answered>>

Newest(journal) ==
  SubSeq(journal, IF Len(journal) > JournalLimit THEN Len(journal) - JournalLimit + 1 ELSE 1, Len(journal))

SaveJournal(t) ==
  LET w == work[t] IN
  /\ w.pc = "journalling"
  /\ Goes(t, Idle)
  /\ store' = Saved(t, Journal, Newest(w.journal \o w.fills))
  /\ truth' = [truth EXCEPT ![Journal] = Newest(@ \o w.fills)]
  /\ mixed' = MixedBy(t, Journal)
  /\ Lets(t, {Journal})
  /\ UNCHANGED <<config, server, ops, orphaned, answered>>

-----------------------------------------------------------------------------
(* Backtests and signal views, computed once and cached whole.             *)

\* What an answer depends on: the whole of the account's configuration.
Basis(r) == [strategy |-> r.strategy, account |-> r.account, config |-> config[r.account]]

\* What of it a key names: the strategy, the account, its data feed, the shared knobs and the
\* fingerprint of the algorithm.  The account's broker and cash equivalents and the order of the
\* providers are of the rest, which no key names.
Named(basis) == <<basis.strategy, basis.account, basis.config.named>>

\* A mutant of Key: the account left out.
KeyOfStrategy(r) == <<r.strategy, "", config[r.account].named>>

\* A mutant of Key: the fingerprint and the knobs left out.
KeyOfDeployment(r) == <<r.strategy, r.account, "">>

Key(r) == Named(Basis(r))

Ask(t, r, refresh) ==
  /\ Begins(t)
  /\ Goes(t, [pc |-> "keyed", request |-> r, refresh |-> refresh, key |-> Key(r), ask |-> Basis(r),
              cache |-> <<>>, payload |-> <<>>])
  /\ UNCHANGED <<store, config, server, truth, open, mixed, orphaned, answered>>

\* A hit is answered from the cache, and a miss is only paid for when asked to.
LoadCache(t) ==
  LET w == work[t]  cache == store[Cache(w.request.kind)] IN
  /\ w.pc = "keyed"
  /\ IF w.refresh
     THEN /\ Goes(t, [w EXCEPT !.pc = "computing", !.cache = cache])
          /\ Loads(t, {Cache(w.request.kind)})
          /\ UNCHANGED answered
     ELSE /\ Goes(t, Idle)
          /\ answered' = IF w.key \in DOMAIN cache
                         THEN [hit |-> TRUE, ask |-> w.ask, of |-> cache[w.key].of, raced |-> cache[w.key].raced]
                         ELSE [hit |-> FALSE]
          /\ UNCHANGED open
  /\ UNCHANGED <<store, config, server, ops, truth, mixed, orphaned>>

\* The configuration is read again for the computation, and what the key named may be another by
\* then.  A signal view only plans.
Compute(t) ==
  LET w == work[t] IN
  /\ w.pc = "computing"
  /\ Goes(t, [w EXCEPT !.pc = IF w.request.kind = "backtest" THEN "replaying" ELSE "computed",
                       !.payload = [of |-> Basis(w.request), raced |-> Key(w.request) # w.key]])
  /\ UNCHANGED <<store, config, server, ops, truth, open, mixed, orphaned, answered>>

\* A replayed run fills orders and commits a memory under the names a live one would.
ReplayRun(t) ==
  /\ work[t].pc = "replaying"
  /\ \E b \in Bindings :
       store' = IF Redirected(t) THEN store
                ELSE [store EXCEPT ![Book(AccountOf[b])] = {}, ![Memory(b)] = {}]
  /\ Goes(t, [work[t] EXCEPT !.pc = "replayed"])
  /\ UNCHANGED <<config, server, ops, truth, open, mixed, orphaned, answered>>

ReplayEnds(t) ==
  /\ work[t].pc = "replayed"
  /\ Goes(t, [work[t] EXCEPT !.pc = "computed"])
  /\ UNCHANGED <<store, config, server, ops, truth, open, mixed, orphaned, answered>>

Filing(cache, key, payload) ==
  [k \in DOMAIN cache \cup {key} |-> IF k = key THEN payload ELSE cache[k]]

\* The whole cache as it was before the computation, and the new answer.
SaveCache(t) ==
  LET w == work[t]  doc == Cache(w.request.kind) IN
  /\ w.pc = "computed"
  /\ Goes(t, Idle)
  /\ store' = Saved(t, doc, Filing(w.cache, w.key, w.payload))
  /\ truth' = [truth EXCEPT ![doc] = Filing(@, w.key, w.payload)]
  /\ mixed' = MixedBy(t, doc)
  /\ Lets(t, {doc})
  /\ UNCHANGED <<config, server, ops, orphaned, answered>>

SaveConfig(a, part) ==
  /\ config[a][part] = 0   \* bound: once
  /\ config' = [config EXCEPT ![a][part] = 1]
  /\ Cardinality({other \in Accounts \X Parts : config'[other[1]][other[2]] # 0}) <= MaxConfigs
  /\ UNCHANGED <<store, work, server, ops, truth, open, mixed, orphaned, answered>>

-----------------------------------------------------------------------------
(* The broker's tokens.                                                    *)

\* What a session starts from: the configuration comes before the store.
StartToken == IF ConfigToken # Missing THEN ConfigToken ELSE store[Token].refresh

OpenSession(t) ==
  /\ Begins(t)
  /\ Goes(t, IF StartToken = Missing THEN Idle ELSE [pc |-> "session", token |-> StartToken])
  /\ UNCHANGED <<store, config, server, truth, open, mixed, orphaned, answered>>

\* The server refuses a token that is not the live one.
RefreshRefused(t) ==
  /\ work[t].pc = "session" /\ work[t].token # server.live
  /\ Goes(t, Idle)
  /\ UNCHANGED <<store, config, server, ops, truth, open, mixed, orphaned, answered>>

\* An access token is handed out, and the refresh token kept ...
RefreshKeeps(t) ==
  /\ work[t].pc = "session" /\ work[t].token = server.live
  /\ Goes(t, Idle)
  /\ UNCHANGED <<store, config, server, ops, truth, open, mixed, orphaned, answered>>

\* ... or replaced, which ends the old one.
RefreshRotates(t) ==
  /\ work[t].pc = "session" /\ work[t].token = server.live /\ server.minted < MaxTokens
  /\ server' = [server EXCEPT !.live = server.minted + 1, !.minted = @ + 1]
  /\ Goes(t, [pc |-> "rotated", token |-> server.minted + 1])
  /\ Loads(t, {Token})
  /\ UNCHANGED <<store, config, ops, truth, mixed, orphaned, answered>>

\* The days a token lasts run from the consent.
LoadIssued(t) ==
  /\ work[t].pc = "rotated"
  /\ Goes(t, [pc |-> "stamped", token |-> work[t].token, issued |-> store[Token].issued])
  /\ UNCHANGED <<store, config, server, ops, truth, open, mixed, orphaned, answered>>

\* A mutant of Persisted: the session keeps the rotated token to itself.
PersistedNot(t) == store[Token]

Persisted(t) == [refresh |-> work[t].token, issued |-> work[t].issued]

SaveToken(t) ==
  /\ work[t].pc = "stamped"
  /\ Goes(t, Idle)
  /\ store' = Saved(t, Token, Persisted(t))
  /\ truth' = [truth EXCEPT ![Token] = Persisted(t)]
  /\ mixed' = MixedBy(t, Token)
  /\ Lets(t, {Token})
  /\ UNCHANGED <<config, server, ops, orphaned, answered>>

\* The nonce of a consent is in the store before the browser is sent away.
BeginConsent(t) ==
  /\ Begins(t)
  /\ store' = [store EXCEPT ![Pending] = ops + 1]
  /\ truth' = [truth EXCEPT ![Pending] = ops + 1]
  /\ mixed' = MixedBy(t, Pending)
  /\ UNCHANGED <<work, config, server, open, orphaned, answered>>

\* The browser comes back with the nonce of some consent begun.
CallBack(t) ==
  /\ Begins(t)
  /\ \E nonce \in 1..ops :
       Goes(t, [pc |-> "returned", nonce |-> nonce, expected |-> store[Pending]])
  /\ Loads(t, {Pending})
  /\ UNCHANGED <<store, config, server, truth, mixed, orphaned, answered>>

\* Cleared first, whether or not it matches; a consent may also have taken too long.
ConsumeNonce(t) ==
  LET w == work[t] IN
  /\ w.pc = "returned"
  /\ store' = [store EXCEPT ![Pending] = NoNonce]
  /\ truth' = [truth EXCEPT ![Pending] = NoNonce]
  /\ mixed' = MixedBy(t, Pending)
  /\ Lets(t, {Pending})
  /\ \/ Goes(t, Idle)
     \/ w.expected # NoNonce /\ w.expected = w.nonce /\ Goes(t, [pc |-> "consented"])
  /\ UNCHANGED <<config, server, ops, orphaned, answered>>

\* The exchange of the code fails, or mints a token, which ends the ones before.
Exchange(t) ==
  /\ work[t].pc = "consented"
  /\ \/ Goes(t, Idle) /\ UNCHANGED <<server, open>>
     \/ /\ server.minted < MaxTokens
        /\ server' = [live |-> server.minted + 1, issued |-> server.minted + 1, minted |-> server.minted + 1]
        /\ Goes(t, [pc |-> "stamped", token |-> server.minted + 1, issued |-> server.minted + 1])
        /\ Loads(t, {Token})
  /\ UNCHANGED <<store, config, ops, truth, mixed, orphaned, answered>>

-----------------------------------------------------------------------------
(* The process.                                                            *)

\* What was loaded is gone, what was saved stays.
Restart ==
  /\ \E t \in Threads : work[t] # Idle
  /\ work' = [t \in Threads |-> Idle]
  /\ open' = [t \in Threads |-> {}]
  /\ orphaned' = (orphaned \/ \E t \in Threads : work[t].pc \in {"rotated", "stamped"})
  /\ UNCHANGED <<store, config, server, ops, truth, mixed, answered>>

Runs(t) ==
  \/ \E b \in Bindings : OpenBrokerage(t, b)
  \/ LoadMemory(t) \/ PlanNothing(t) \/ FillOrder(t) \/ MarkPrices(t) \/ Commit(t)
  \/ LoadJournal(t) \/ SaveJournal(t)

Views(t) ==
  \/ \E r \in Requests, refresh \in BOOLEAN : Ask(t, r, refresh)
  \/ LoadCache(t) \/ Compute(t) \/ ReplayRun(t) \/ ReplayEnds(t) \/ SaveCache(t)

Tokens(t) ==
  \/ OpenSession(t) \/ RefreshRefused(t) \/ RefreshKeeps(t) \/ RefreshRotates(t)
  \/ LoadIssued(t) \/ SaveToken(t) \/ BeginConsent(t) \/ CallBack(t) \/ ConsumeNonce(t) \/ Exchange(t)

Next ==
  \/ \E t \in Threads : Runs(t) \/ Views(t) \/ Tokens(t)
  \/ \E a \in Accounts, part \in Parts : SaveConfig(a, part)
  \/ Restart

Spec == Init /\ [][Next]_vars

-----------------------------------------------------------------------------
(* Properties.                                                             *)

Loaded(d) == \E t \in Threads : d \in open[t]

\* Unless two operations had a document loaded at once, it holds what operations taking turns
\* made of it: every fill a paper book answered for, every memory committed, the newest entries
\* of the journal in order.  Replays leave it alone and a restart loses nothing of it
\* (load_state and save_state, ephemeral_state, PaperBrokerage, record_orders, execute).
SerialState == \A d \in Documents : d \in mixed \/ store[d] = truth[d]

\* An answer from a cache was computed for the strategy, for the account and under the part of the
\* configuration its key names that were asked about, unless that part was saved while it was being
\* computed.  The rest of the configuration may be another: what no key names goes stale in a hit
\* until somebody asks for a refresh (_cache_key, _signals_cache_key).
CacheAnswersItsKey == answered.hit => answered.raced \/ Named(answered.of) = Named(answered.ask)

\* When no rotation or consent is under way, and none died with the process or was overtaken
\* by another, the next session starts from the token the broker still takes, and the store
\* dates it by its consent (SchwabSession, complete_authorization).
NextSessionWorks ==
  Loaded(Token) \/ orphaned \/ Token \in mixed
    \/ (StartToken = server.live /\ store[Token].issued = server.issued)
=============================================================================
