------------------------------ MODULE Scheduler ------------------------------
(***************************************************************************)
(* The live scheduler of roboTrade: BotRuntime keeps one _RuntimeLoop per  *)
(* algorithm binding, and every loop polls the saved controls and starts a *)
(* run when its cron has fired within the grace window                     *)
(* (core/bot_runtime.py, core/cron.py, api/controls.py).                   *)
(*                                                                         *)
(* Actors: the web threads of the API (each saves the controls or polls    *)
(* the status, and both end in BotRuntime.snapshot(), hence reconcile()),  *)
(* the main thread (lifespan start and stop), one thread per loop, the     *)
(* agent that places orders over MCP, and the clock.  A step is the code   *)
(* between two points where another thread can be seen: a read of the      *)
(* controls file, a critical section, the start or the end of a run.       *)
(***************************************************************************)
EXTENDS Integers, FiniteSets

CONSTANTS
    Bindings,         \* binding ids
    Loops,            \* _RuntimeLoop objects (a pool; an unused one is recycled)
    Web,              \* threads serving dashboard requests
    Main,             \* the thread that runs the lifespan
    Settings,         \* what a binding may be saved as
    Crons,            \* schedules, NoCron excluded
    Fires,            \* [Crons -> SUBSET (Nat \ {0})], the minutes a cron names
    DefaultStrategy,  \* DEFAULT_STRATEGY_ID
    FirstId, DefaultBinding,  \* the binding an empty list is replaced by: off, id "b1"
    InitialControls,  \* the controls saved before the first boot
    Grace,            \* GRACE_MINUTES
    Poll,             \* _check_seconds, in minutes
    MaxRun,           \* the longest a run takes, in minutes
    MaxClock, MaxEdits, MaxBreaks, MaxBoots   \* bounds of the model

CONSTANTS Absent, NoCron, NoLoop, Nobody      \* model values

NoKey == 0
Threads == Web \cup {Main}
Documents == [Bindings -> Settings \cup {Absent}]

ASSUME SettingsAssumption ==
    \A s \in Settings : /\ s.enabled \in BOOLEAN
                        /\ s.cron \in Crons \cup {NoCron}
ASSUME NamesAssumption ==
    /\ Absent \notin Settings /\ NoCron \notin Crons
    /\ NoLoop \notin Loops /\ Nobody \notin Threads \cup Bindings
    /\ Main \notin Web
ASSUME FiresAssumption ==
    /\ Fires \in [Crons -> SUBSET (Nat \ {0})]
    /\ InitialControls \in Documents
    /\ FirstId \in Bindings /\ DefaultBinding \in Settings
ASSUME TimingAssumption ==
    /\ Grace \in Nat /\ Poll \in Nat \ {0} /\ MaxRun \in Nat

Strategies == {s.strategy : s \in Settings} \cup {DefaultStrategy}
Accounts == {s.account : s \in Settings}

VARIABLES
    clock,      \* minutes of market time
    controls,   \* the bindings section of the config document
    readable,   \* FALSE while a hand edit leaves the document unparseable
    registry,   \* BotRuntime._algorithm_loops
    started,    \* BotRuntime._started
    holder,     \* the thread inside BotRuntime._lock
    tpc,        \* where each web thread and the main thread is
    wanted,     \* the ids each of them read before taking the lock
    owner,      \* loop -> the binding it was made for
    lpc,        \* loop -> where its thread is ("new": no thread yet)
    stop,       \* loop -> _stop.is_set()
    lastKey,    \* loop -> _state.last_run_key
    account,    \* loop -> the account read at the top of the tick
    strategy,   \* loop -> the strategy the current run resolved
    due,        \* loop -> when its wait or its run ends at the latest
    agent,      \* the binding an MCP place_orders call is trading, or Nobody
    ran,        \* history: fires run since the boot
    again,      \* history: fires run more than once since the boot
    touched,    \* history: how each binding was edited since the boot
    bootedAt, edits, breaks, boots

configVars == <<controls, readable, edits, breaks>>
runtimeVars == <<registry, started, holder>>
threadVars == <<tpc, wanted>>
runVars == <<account, strategy, due>>
loopVars == <<owner, lpc, stop, lastKey, account, strategy, due>>
history == <<ran, again, touched, bootedAt>>
vars == <<clock, configVars, runtimeVars, threadVars, loopVars, agent, history, boots>>

-----------------------------------------------------------------------------
(* The controls, as the loops and the agent read them *)

Ids == {b \in Bindings : controls[b] # Absent}

CronOf(b) == IF controls[b] = Absent THEN NoCron ELSE controls[b].cron

Driver(b) == IF CronOf(b) \in Crons THEN "schedule" ELSE "mcp"

\* Mutant: no grace window.
FireKeyOnTheMinute(c, now) == IF now \in Fires[c] THEN now ELSE NoKey

\* binding_refusal: nobody may trade a binding that is missing, off, or the other origin's
MayTrade(b, origin) ==
    /\ controls[b] # Absent
    /\ controls[b].enabled
    /\ Driver(b) = origin

\* cron_fire_key: the latest scheduled minute within the grace window
FireKey(c, now) ==
    LET near == {f \in Fires[c] : f <= now /\ now <= f + Grace}
    IN  IF near = {} THEN NoKey
        ELSE CHOOSE f \in near : \A g \in near : g <= f

RunKey(b) == IF CronOf(b) \in Crons THEN FireKey(CronOf(b), clock) ELSE NoKey

\* _binding_strategy: a binding that is gone has the default one
StrategyOf(b) == IF controls[b] = Absent THEN DefaultStrategy ELSE controls[b].strategy

-----------------------------------------------------------------------------
Alive(l) == lpc[l] \notin {"new", "dead"}
Registered(l) == \E b \in Bindings : registry[b] = l
Running(l) == lpc[l] = "trade"

\* An object nobody refers to and no thread runs: the next _make_loop may be it.
Unused == {l \in Loops : ~Alive(l) /\ ~Registered(l)}
NewLoop == CHOOSE l \in Unused : TRUE

Up == tpc[Main] # "down"
Serving == tpc[Main] = "serving"

Init ==
    /\ clock = 1
    /\ controls = InitialControls
    /\ readable = TRUE
    /\ registry = [b \in Bindings |-> NoLoop]
    /\ started = FALSE
    /\ holder = Nobody
    /\ tpc = [t \in Threads |-> IF t = Main THEN "down" ELSE "idle"]
    /\ wanted = [t \in Threads |-> {}]
    /\ owner = [l \in Loops |-> Nobody]
    /\ lpc = [l \in Loops |-> "new"]
    /\ stop = [l \in Loops |-> FALSE]
    /\ lastKey = [l \in Loops |-> NoKey]
    /\ account = [l \in Loops |-> Nobody]
    /\ strategy = [l \in Loops |-> DefaultStrategy]
    /\ due = [l \in Loops |-> 0]
    /\ agent = Nobody
    /\ ran = [b \in Bindings |-> {}]
    /\ again = [b \in Bindings |-> {}]
    /\ touched = [b \in Bindings |-> {}]
    /\ bootedAt = 0
    /\ edits = 0 /\ breaks = 0 /\ boots = 0

-----------------------------------------------------------------------------
(* Requests: save_controls_payload and the payloads that only read the     *)
(* status.  Both go through snapshot(), whose reconcile() reads the        *)
(* controls first and takes the lock afterwards.                           *)

\* What a save changes about a binding, for the history variable.
Changes(old, new) ==
    IF old = new THEN {}
    ELSE IF old = Absent THEN {"added"}
    ELSE IF new = Absent \/ new.cron # old.cron THEN {"rescheduled"} ELSE {"other"}

\* sanitize_controls never leaves the bindings list empty.
Sanitize(doc) ==
    IF \A b \in Bindings : doc[b] = Absent THEN [doc EXCEPT ![FirstId] = DefaultBinding] ELSE doc

\* The dashboard saves the document with one panel edited, added or removed.
Save(t) ==
    /\ Serving /\ tpc[t] = "idle" /\ readable
    /\ edits < MaxEdits
    /\ \E b \in Bindings, s \in Settings \cup {Absent} :
         controls' = Sanitize([controls EXCEPT ![b] = s])
    /\ controls' # controls
    /\ touched' = [b \in Bindings |-> touched[b] \cup Changes(controls[b], controls'[b])]
    /\ edits' = edits + 1
    /\ tpc' = [tpc EXCEPT ![t] = "read"]
    /\ UNCHANGED <<clock, readable, breaks, runtimeVars, wanted, loopVars, agent,
                   ran, again, bootedAt, boots>>

\* A page load: status, controls or accounts.
Status(t) ==
    /\ Serving /\ tpc[t] = "idle"
    /\ tpc' = [tpc EXCEPT ![t] = "read"]
    /\ UNCHANGED <<clock, configVars, runtimeVars, wanted, loopVars, agent, history, boots>>

\* Somebody edits the file by hand and leaves it unparseable, or mends it.
HandEdit ==
    /\ breaks < MaxBreaks
    /\ readable' = ~readable
    /\ breaks' = breaks + 1
    /\ UNCHANGED <<clock, controls, edits, runtimeVars, threadVars, loopVars, agent, history, boots>>

\* Where a thread goes when its reconcile() returns.
AfterReconcile(t) == IF t = Main THEN "list" ELSE "idle"

\* reconcile(), before the lock: the ids to keep.  A bad config leaves the loops as they are.
ReadWanted(t) ==
    /\ tpc[t] = "read"
    /\ IF readable
       THEN /\ wanted' = [wanted EXCEPT ![t] = Ids]
            /\ tpc' = [tpc EXCEPT ![t] = "lock"]
       ELSE /\ tpc' = [tpc EXCEPT ![t] = AfterReconcile(t)]
            /\ UNCHANGED wanted
    /\ UNCHANGED <<clock, configVars, runtimeVars, loopVars, agent, history, boots>>

\* The loops a thread's reconcile() pops from the registry and stops.
NoneDropped(t) == {}    \* mutant: popped and left running
Dropped(t) == {registry[b] : b \in Bindings \ wanted[t]}

\* Takes the lock; pops and stops every loop whose binding was not wanted.
DropLoops(t) ==
    /\ tpc[t] = "lock" /\ holder = Nobody
    /\ holder' = t
    /\ registry' = [b \in Bindings |-> IF b \in wanted[t] THEN registry[b] ELSE NoLoop]
    /\ stop' = [l \in Loops |-> stop[l] \/ l \in Dropped(t)]
    /\ tpc' = [tpc EXCEPT ![t] = "add"]
    /\ UNCHANGED <<clock, configVars, started, wanted, owner, lpc, lastKey, runVars, agent,
                   history, boots>>

\* Whether the thread of a new loop starts at once.
NeverStarted == "new"   \* mutant: a loop is made and not started
Created == IF started THEN "check" ELSE "new"

\* Under the lock: makes one missing loop, and starts it if the runtime is started.
AddLoop(t, b) ==
    LET l == NewLoop IN
    /\ tpc[t] = "add"
    /\ b \in wanted[t] /\ registry[b] = NoLoop
    /\ Unused # {}
    /\ registry' = [registry EXCEPT ![b] = l]
    /\ owner' = [owner EXCEPT ![l] = b]
    /\ stop' = [stop EXCEPT ![l] = FALSE]
    /\ lastKey' = [lastKey EXCEPT ![l] = NoKey]
    /\ lpc' = [lpc EXCEPT ![l] = Created]
    /\ account' = [account EXCEPT ![l] = Nobody]
    /\ strategy' = [strategy EXCEPT ![l] = DefaultStrategy]
    /\ due' = [due EXCEPT ![l] = 0]
    /\ UNCHANGED <<clock, configVars, started, holder, threadVars, agent, history, boots>>

Unlock(t) ==
    /\ tpc[t] = "add"
    /\ \A b \in wanted[t] : registry[b] # NoLoop
    /\ holder' = Nobody
    /\ wanted' = [wanted EXCEPT ![t] = {}]
    /\ tpc' = [tpc EXCEPT ![t] = AfterReconcile(t)]
    /\ UNCHANGED <<clock, configVars, registry, started, loopVars, agent, history, boots>>

-----------------------------------------------------------------------------
(* The lifespan: BotRuntime.start() and stop(), and the end of the process *)

Boot ==
    /\ ~Up /\ boots < MaxBoots
    /\ started' = TRUE
    /\ tpc' = [tpc EXCEPT ![Main] = "read"]
    /\ ran' = [b \in Bindings |-> {}]
    /\ again' = [b \in Bindings |-> {}]
    /\ touched' = [b \in Bindings |-> {}]
    /\ bootedAt' = clock
    /\ boots' = boots + 1
    /\ UNCHANGED <<clock, configVars, registry, holder, wanted, loopVars, agent>>

\* start() after its reconcile(): start every loop.  _RuntimeLoop.start() returns at once when
\* the thread is alive and does not clear _stop then.
StartLoops ==
    /\ tpc[Main] = "list" /\ holder = Nobody
    /\ LET idle == {l \in Loops : Registered(l) /\ ~Alive(l)}
       IN  /\ lpc' = [l \in Loops |-> IF l \in idle THEN "check" ELSE lpc[l]]
           /\ stop' = [l \in Loops |-> l \notin idle /\ stop[l]]
    /\ tpc' = [tpc EXCEPT ![Main] = "serving"]
    /\ UNCHANGED <<clock, configVars, runtimeVars, wanted, owner, lastKey, runVars, agent,
                   history, boots>>

\* Mutant: stop() stops the loops it lists and leaves the runtime started.
StopLoopsOnly ==
    /\ Serving
    /\ tpc' = [tpc EXCEPT ![Main] = "stopping"]
    /\ UNCHANGED <<clock, configVars, runtimeVars, wanted, loopVars, agent, history, boots>>

\* stop(): the flag is cleared without the lock, so a request in flight may see either value.
StopRuntime ==
    /\ Serving
    /\ started' = FALSE
    /\ tpc' = [tpc EXCEPT ![Main] = "stopping"]
    /\ UNCHANGED <<clock, configVars, registry, holder, wanted, loopVars, agent, history, boots>>

StopLoops ==
    /\ tpc[Main] = "stopping" /\ holder = Nobody
    /\ stop' = [l \in Loops |-> stop[l] \/ Registered(l)]
    /\ tpc' = [tpc EXCEPT ![Main] = "stopped"]
    /\ UNCHANGED <<clock, configVars, runtimeVars, wanted, owner, lpc, lastKey, runVars, agent,
                   history, boots>>

\* The process exits, or is killed: everything but the config document is lost.  Loop threads
\* are daemons, so a run in progress dies with it.
Exit ==
    /\ Up
    /\ registry' = [b \in Bindings |-> NoLoop]
    /\ started' = FALSE
    /\ holder' = Nobody
    /\ tpc' = [t \in Threads |-> IF t = Main THEN "down" ELSE "idle"]
    /\ wanted' = [t \in Threads |-> {}]
    /\ owner' = [l \in Loops |-> Nobody]
    /\ lpc' = [l \in Loops |-> "new"]
    /\ stop' = [l \in Loops |-> FALSE]
    /\ lastKey' = [l \in Loops |-> NoKey]
    /\ account' = [l \in Loops |-> Nobody]
    /\ strategy' = [l \in Loops |-> DefaultStrategy]
    /\ due' = [l \in Loops |-> 0]
    /\ agent' = Nobody
    /\ UNCHANGED <<clock, configVars, history, boots>>

-----------------------------------------------------------------------------
(* One loop's thread (_RuntimeLoop._loop), at the scheduler's five points *)

\* Where a tick that starts no run, or a finished run, goes: _wake.wait(_check_seconds()).
Sleep(l) ==
    /\ lpc' = [lpc EXCEPT ![l] = "wait"]
    /\ due' = [due EXCEPT ![l] = clock + Poll]

\* An unreadable config raises out of _loop, and the thread ends.
LoopDies(l) ==
    /\ lpc' = [lpc EXCEPT ![l] = "dead"]
    /\ UNCHANGED <<lastKey, runVars, ran, again>>

\* Whether the thread ends at the top of the loop, and whether a key has not been run.
EndsOnBadConfig(l) == ~readable      \* mutant: the stop flag is not looked at
EndsHere(l) == stop[l] \/ ~readable
AnyKey(l, k) == k # NoKey            \* mutant: the last key is not looked at
FreshKey(l, k) == k # NoKey /\ k # lastKey[l]

\* The top of the loop: the stop flag, then the controls: the account, and whether the
\* scheduler may trade the binding.
Check(l) ==
    /\ lpc[l] = "check"
    /\ \/ EndsHere(l) /\ LoopDies(l)
       \/ /\ ~EndsHere(l)
          /\ IF MayTrade(owner[l], "schedule")
             THEN /\ account' = [account EXCEPT ![l] = controls[owner[l]].account]
                  /\ lpc' = [lpc EXCEPT ![l] = "fire"]
                  /\ UNCHANGED due
             ELSE Sleep(l) /\ UNCHANGED account
          /\ UNCHANGED <<lastKey, strategy, ran, again>>
    /\ UNCHANGED <<clock, configVars, runtimeVars, threadVars, owner, stop, agent,
                   touched, bootedAt, boots>>

\* _next_run_key and the opening of _run_guarded: the cron is read again, and the key is
\* remembered before the run that uses it.
Fire(l) ==
    LET b == owner[l]
        k == RunKey(b)
    IN
    /\ lpc[l] = "fire"
    /\ \/ ~readable /\ LoopDies(l)
       \/ /\ readable /\ ~FreshKey(l, k)
          /\ Sleep(l)
          /\ UNCHANGED <<lastKey, account, strategy, ran, again>>
       \/ /\ readable /\ FreshKey(l, k)
          /\ lastKey' = [lastKey EXCEPT ![l] = k]
          /\ lpc' = [lpc EXCEPT ![l] = "resolve"]
          /\ ran' = [ran EXCEPT ![b] = @ \cup {k}]
          /\ again' = [again EXCEPT ![b] = @ \cup (ran[b] \cap {k})]
          /\ UNCHANGED runVars
    /\ UNCHANGED <<clock, configVars, runtimeVars, threadVars, owner, stop, agent,
                   touched, bootedAt, boots>>

\* The binding's run function: the strategy is read a third time, and a binding that is gone by
\* now has the default one.  What raises in here ends the run and not the loop.
Resolve(l) ==
    /\ lpc[l] = "resolve"
    /\ IF readable
       THEN /\ strategy' = [strategy EXCEPT ![l] = StrategyOf(owner[l])]
            /\ lpc' = [lpc EXCEPT ![l] = "trade"]
            /\ due' = [due EXCEPT ![l] = clock + MaxRun]
       ELSE Sleep(l) /\ UNCHANGED strategy
    /\ UNCHANGED <<clock, configVars, runtimeVars, threadVars, owner, stop, lastKey, account,
                   agent, history, boots>>

\* run_once returns or raises: last_error differs, the loop does not.
FinishRun(l) ==
    /\ Running(l)
    /\ Sleep(l)
    /\ UNCHANGED <<clock, configVars, runtimeVars, threadVars, owner, stop, lastKey, account,
                   strategy, agent, history, boots>>

\* The wait ends when it times out, or when stop() sets the wake event.
Wake(l) ==
    /\ lpc[l] = "wait"
    /\ clock >= due[l] \/ stop[l]
    /\ lpc' = [lpc EXCEPT ![l] = "check"]
    /\ UNCHANGED <<clock, configVars, runtimeVars, threadVars, owner, stop, lastKey, runVars,
                   agent, history, boots>>

-----------------------------------------------------------------------------
(* The agent's place_orders: the binding is resolved from the config, then traded *)

AgentPlaces(b) ==
    /\ Serving /\ readable /\ agent = Nobody
    /\ MayTrade(b, "mcp")
    /\ agent' = b
    /\ UNCHANGED <<clock, configVars, runtimeVars, threadVars, loopVars, history, boots>>

AgentDone ==
    /\ agent # Nobody
    /\ agent' = Nobody
    /\ UNCHANGED <<clock, configVars, runtimeVars, threadVars, loopVars, history, boots>>

-----------------------------------------------------------------------------
\* A minute passes.  The steps of a loop other than its run take no time to speak of, nor does
\* the boot; a run lasts MaxRun at most; requests and agents may take any time.
Tick ==
    /\ clock < MaxClock
    /\ tpc[Main] \in {"down", "serving", "stopping", "stopped"}
    /\ \A l \in Loops : /\ lpc[l] \in {"new", "dead", "wait", "trade"}
                        /\ lpc[l] \in {"wait", "trade"} => clock < due[l]
                        /\ lpc[l] = "wait" => ~stop[l]
    /\ clock' = clock + 1
    /\ UNCHANGED <<configVars, runtimeVars, threadVars, loopVars, agent, history, boots>>

LoopStep(l) == Check(l) \/ Fire(l) \/ Resolve(l) \/ FinishRun(l) \/ Wake(l)

ReconcileStep(t) ==
    \/ ReadWanted(t) \/ DropLoops(t) \/ Unlock(t)
    \/ \E b \in Bindings : AddLoop(t, b)

Lifespan == Boot \/ StartLoops \/ StopRuntime \/ StopLoops \/ Exit

Next ==
    \/ \E t \in Web : Save(t) \/ Status(t)
    \/ \E t \in Threads : ReconcileStep(t)
    \/ \E l \in Loops : LoopStep(l)
    \/ \E b \in Bindings : AgentPlaces(b)
    \/ AgentDone \/ Lifespan \/ HandEdit \/ Tick

Spec == Init /\ [][Next]_vars

\* Threads that have begun something go on; nobody need ever save, load a page, or exit.
Fairness ==
    /\ \A t \in Threads : WF_vars(ReconcileStep(t))
    /\ \A l \in Loops : WF_vars(LoopStep(l))
    /\ WF_vars(StartLoops) /\ WF_vars(StopLoops) /\ WF_vars(Tick)

FairSpec == Spec /\ Fairness

-----------------------------------------------------------------------------
(* Properties *)

\* The types of all variables (bot_runtime.py:24-48, 217-220).
TypeOK ==
    /\ clock \in Nat /\ bootedAt \in Nat /\ edits \in Nat /\ breaks \in Nat /\ boots \in Nat
    /\ controls \in Documents /\ readable \in BOOLEAN
    /\ registry \in [Bindings -> Loops \cup {NoLoop}]
    /\ started \in BOOLEAN
    /\ holder \in Threads \cup {Nobody}
    /\ tpc \in [Threads -> {"idle", "down", "read", "lock", "add", "list", "serving",
                            "stopping", "stopped"}]
    /\ wanted \in [Threads -> SUBSET Bindings]
    /\ owner \in [Loops -> Bindings \cup {Nobody}]
    /\ lpc \in [Loops -> {"new", "dead", "check", "fire", "resolve", "trade", "wait"}]
    /\ stop \in [Loops -> BOOLEAN]
    /\ lastKey \in [Loops -> Nat]
    /\ account \in [Loops -> Accounts \cup {Nobody}]
    /\ strategy \in [Loops -> Strategies]
    /\ due \in [Loops -> Nat]
    /\ agent \in Bindings \cup {Nobody}
    /\ ran \in [Bindings -> SUBSET Nat] /\ again \in [Bindings -> SUBSET Nat]
    /\ touched \in [Bindings -> SUBSET {"added", "rescheduled", "other"}]

\* "One scheduler loop per algorithm binding" (bot_runtime.py:210), whatever requests reconcile
\* at the same time: a loop that runs and was not stopped is the one its binding's registry
\* entry names, so no two loops poll for one binding for ever and none is out of reach of stop().
OneActiveLoop ==
    \A l \in Loops : Alive(l) /\ ~stop[l] => owner[l] # Nobody /\ registry[owner[l]] = l

\* stop() leaves no loop polling, though a request in flight may still add loops under the lock
\* after stop() has listed them (bot_runtime.py:247, 258-263).
QuietAfterStop ==
    tpc[Main] = "stopped" => \A l \in Loops : Alive(l) => stop[l]

\* "the loop runs it exactly once" (bot_runtime.py:173), at most, for bindings that existed
\* at the boot and were neither removed nor rescheduled since.
OncePerFire ==
    \A b \in Bindings : touched[b] \subseteq {"other"} => again[b] = {}

\* GRACE_MINUTES covers the time between two looks at the clock, and no second fire of a schedule
\* falls into it: cron_fire_key knows the latest one only.
GraceCovers ==
    /\ Poll + MaxRun <= Grace + 1
    /\ \A c \in Crons : \A f, g \in Fires[c] : f < g => f + Poll + MaxRun <= g

\* "GRACE_MINUTES is the slack that keeps a slow tick from missing its own fire time entirely"
\* (bot_runtime.py:202): a binding left alone since the boot, and on, has run every fire of its
\* schedule whose grace window is over, provided the config was readable throughout.
NoMissedFire ==
    \A b \in Bindings :
        /\ Serving /\ touched[b] = {} /\ MayTrade(b, "schedule")
        /\ breaks = 0
        => \A f \in Fires[CronOf(b)] : bootedAt <= f /\ f + Grace < clock => f \in ran[b]

\* What makes OneActiveLoop and QuietAfterStop inductive: an entry of the registry names a loop of
\* its own binding, a live loop has a binding, and stop() clears _started before anything else.
RegistryInv ==
    /\ \A b \in Bindings : registry[b] # NoLoop => owner[registry[b]] = b
    /\ \A l \in Loops : Alive(l) => owner[l] # Nobody
    /\ tpc[Main] \in {"stopping", "stopped"} => ~started
    /\ ~Up => /\ \A l \in Loops : owner[l] = Nobody
              /\ \A b \in Bindings : registry[b] = NoLoop
              /\ \A t \in Web : tpc[t] = "idle"
              /\ \A t \in Threads : wanted[t] = {}

SchedulerInv == TypeOK /\ RegistryInv /\ OneActiveLoop /\ QuietAfterStop

\* What makes OncePerFire inductive: no reconcile in flight disagrees with the controls about a
\* binding left in place, so it keeps one loop, and that loop's last key is its latest fire.
Original(b) == touched[b] \subseteq {"other"}

OnceInv ==
    \A b \in Bindings : Original(b) =>
        /\ again[b] = {}
        /\ Up => /\ \A t \in Threads : tpc[t] \in {"lock", "add"} =>
                        (b \in wanted[t] <=> controls[b] # Absent)
                 /\ controls[b] = Absent => registry[b] = NoLoop
                 /\ \A l \in Loops : owner[l] = b => registry[b] = l
                 /\ ran[b] # {} =>
                      /\ registry[b] # NoLoop /\ CronOf(b) \in Crons
                      /\ lastKey[registry[b]] \in Fires[CronOf(b)]
                      /\ lastKey[registry[b]] <= clock
                      /\ \A k \in ran[b] : k <= lastKey[registry[b]]

\* "removing one stops that loop" (bot_runtime.py:214): a stopped loop's thread ends, whatever it
\* was doing when it was stopped.
StoppedLoopEnds ==
    \A l \in Loops : (Alive(l) /\ stop[l]) ~> ~Alive(l)

\* "adding a binding in the dashboard starts a loop for it, removing one stops that loop"
\* (bot_runtime.py:213-214), when requests come one at a time and the config stays readable.
RegistryFollowsControls ==
    \A b \in Bindings :
        Serving ~> \/ ~Serving \/ breaks > 0
                   \/ controls[b] = Absent /\ registry[b] = NoLoop
                   \/ controls[b] # Absent /\ registry[b] # NoLoop /\ Alive(registry[b])

=============================================================================
