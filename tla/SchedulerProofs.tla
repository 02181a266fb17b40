-------------------------- MODULE SchedulerProofs --------------------------
(***************************************************************************)
(* Proofs about Scheduler, for every set of bindings, loops, threads and   *)
(* settings and every schedule:                                            *)
(*   - type correctness;                                                   *)
(*   - one active loop per binding, and silence after stop();              *)
(*   - a binding left in place runs each fire at most once;                *)
(*   - a binding left alone runs each fire, where the grace window covers  *)
(*     a poll and a run.                                                   *)
(* The first invariant adds to the first properties what makes them        *)
(* inductive: a registry entry names a loop of its own binding, and the    *)
(* runtime is no longer started once stop() has begun.  OnceInv and        *)
(* WatchInv follow the one loop of a binding from fire to fire.            *)
(***************************************************************************)
EXTENDS Scheduler, FiniteSetTheorems, TLAPS

-----------------------------------------------------------------------------
(* The fire key *)

\* A non-empty set of naturals with an upper bound has a greatest element.
LEMMA GreatestNatural ==
    ASSUME NEW S \in SUBSET Nat, S # {}, NEW n \in Nat, \A x \in S : x <= n
    PROVE  \E m \in S : \A x \in S : x <= m
<1> DEFINE Above(x) == {y \in S : x < y}
           Tails == {Above(x) : x \in S}
<1>1. IsFiniteSet(S)
  BY FS_BoundedSetOfNaturals
<1>2. Tails \subseteq FiniteSubsetsOf(S) /\ Tails # {}
  <2>1. FiniteSubsetsOf(S) = SUBSET S
    BY <1>1, FS_FiniteSubsetsOfFinite
  <2>2. Tails \subseteq SUBSET S
    OBVIOUS
  <2>3. PICK x \in S : TRUE
    OBVIOUS
  <2>4. Above(x) \in Tails
    BY <2>3
  <2> QED
    BY <2>1, <2>2, <2>4
<1>3. PICK T \in Tails : \A U \in Tails : ~(<<U, T>> \in StrictSubsetOrdering(S))
  <2> HIDE DEF Tails
  <2> QED
    BY <1>2, FS_StrictSubsetOrderingWellFounded, WFMin
<1>4. PICK m \in S : T = Above(m)
  BY <1>3
<1>5. ASSUME NEW x \in S, ~(x <= m)
      PROVE  FALSE
  <2>1. m \in Nat /\ x \in Nat /\ m < x
    BY <1>5
  <2>2. \A y \in S : x < y => m < y
    BY <2>1
  <2>3. Above(x) \subseteq Above(m) /\ x \in Above(m) /\ x \notin Above(x)
    <3>1. Above(x) \subseteq Above(m)
      BY <2>2
    <3>2. x \in Above(m)
      BY <1>5, <2>1
    <3>3. x \notin Above(x)
      BY <2>1
    <3> QED
      BY <3>1, <3>2, <3>3
  <2>4. Above(x) \in SUBSET S /\ Above(m) \in SUBSET S /\ Above(x) \in Tails
    BY <1>5, <1>4
  <2>5. ~(<<Above(x), Above(m)>> \in StrictSubsetOrdering(S))
    <3> HIDE DEF Tails, Above
    <3> QED
      BY <1>3, <1>4, <2>4
  <2>6. <<Above(x), Above(m)>> \in StrictSubsetOrdering(S)
    <3> HIDE DEF Above
    <3> QED
      BY <2>3, <2>4 DEF StrictSubsetOrdering
  <2> QED
    BY <2>5, <2>6
<1> QED
  BY <1>5

\* cron_fire_key (core/cron.py:166-180) returns NoKey or the latest scheduled minute that is at
\* most Grace minutes old.
LEMMA FireKeyLatest ==
    ASSUME NEW c \in Crons, NEW now \in Nat
    PROVE  /\ FireKey(c, now) \in Nat
           /\ FireKey(c, now) # NoKey =>
                /\ FireKey(c, now) \in Fires[c]
                /\ FireKey(c, now) <= now /\ now <= FireKey(c, now) + Grace
                /\ \A f \in Fires[c] : f <= now => f <= FireKey(c, now)
<1> DEFINE near == {f \in Fires[c] : f <= now /\ now <= f + Grace}
<1>1. near \in SUBSET Nat /\ Fires[c] \subseteq Nat /\ Grace \in Nat
  BY FiresAssumption, TimingAssumption
<1>2. CASE near = {}
  BY <1>2 DEF FireKey, NoKey
<1>3. CASE near # {}
  <2>1. \E m \in near : \A x \in near : x <= m
    <3>1. \A x \in near : x <= now
      OBVIOUS
    <3> HIDE DEF near
    <3> QED
      BY <1>1, <1>3, <3>1, GreatestNatural
  <2>2. FireKey(c, now) = CHOOSE f \in near : \A g \in near : g <= f
    BY <1>3 DEF FireKey
  <2>3. FireKey(c, now) \in near /\ \A g \in near : g <= FireKey(c, now)
    <3> HIDE DEF near
    <3> QED
      BY <2>1, <2>2
  <2>4. \A f \in Fires[c] : f <= now => f <= FireKey(c, now)
    <3>1. TAKE f \in Fires[c]
    <3>2. HAVE f <= now
    <3>3. CASE now <= f + Grace
      BY <2>3, <3>1, <3>2, <3>3
    <3>4. CASE ~(now <= f + Grace)
      BY <1>1, <2>3, <3>1, <3>2, <3>4
    <3> QED
      BY <3>3, <3>4
  <2> QED
    BY <1>1, <2>3, <2>4
<1> QED
  BY <1>2, <1>3

-----------------------------------------------------------------------------
(* Type correctness *)

LEMMA RunKeyType ==
    ASSUME NEW b \in Bindings, TypeOK
    PROVE  RunKey(b) \in Nat
BY FireKeyLatest DEF RunKey, TypeOK, NoKey

\* Every step keeps the types; a live loop's owner is needed to type what the loop reads.
LEMMA TypeStep ==
    ASSUME TypeOK, RegistryInv, [Next]_vars
    PROVE  TypeOK'
<1> USE NamesAssumption, TimingAssumption DEF TypeOK, Documents, Threads
<1> USE DEF configVars, runtimeVars, threadVars, runVars, loopVars, history, vars
<1>1. ASSUME NEW t \in Web, Save(t)
      PROVE  TypeOK'
  <2>1. controls' \in Documents
    BY <1>1, FiresAssumption DEF Save, Sanitize
  <2>2. \A old, new : Changes(old, new) \in SUBSET {"added", "rescheduled", "other"}
    BY DEF Changes
  <2>3. touched' \in [Bindings -> SUBSET {"added", "rescheduled", "other"}]
    BY <1>1, <2>2 DEF Save
  <2>4. /\ edits' = edits + 1 /\ tpc' = [tpc EXCEPT ![t] = "read"]
        /\ UNCHANGED <<clock, readable, breaks, runtimeVars, wanted, loopVars, agent,
                       ran, again, bootedAt, boots>>
    BY <1>1 DEF Save
  <2> QED
    BY <2>1, <2>3, <2>4
<1>2. ASSUME NEW t \in Web, Status(t)
      PROVE  TypeOK'
  BY <1>2 DEF Status
<1>3. ASSUME NEW t \in Threads, ReadWanted(t)
      PROVE  TypeOK'
  BY <1>3 DEF ReadWanted, Ids, AfterReconcile
<1>4. ASSUME NEW t \in Threads, DropLoops(t)
      PROVE  TypeOK'
  BY <1>4 DEF DropLoops
<1>5. ASSUME NEW t \in Threads, Unlock(t)
      PROVE  TypeOK'
  BY <1>5 DEF Unlock, AfterReconcile
<1>6. ASSUME NEW t \in Threads, NEW b \in Bindings, AddLoop(t, b)
      PROVE  TypeOK'
  <2>1. NewLoop \in Loops
    BY <1>6 DEF AddLoop, NewLoop, Unused
  <2> QED
    BY <1>6, <2>1 DEF AddLoop, Created, NoKey, Strategies
<1>7. ASSUME NEW l \in Loops, Check(l)
      PROVE  TypeOK'
  <2>1. owner[l] \in Bindings
    BY <1>7 DEF Check, Alive, RegistryInv
  <2>2. account' \in [Loops -> Accounts \cup {Nobody}]
    BY <1>7, <2>1 DEF Check, LoopDies, Sleep, MayTrade, Accounts
  <2>3. due' \in [Loops -> Nat]
    BY <1>7 DEF Check, LoopDies, Sleep
  <2>4. lpc' \in [Loops -> {"new", "dead", "check", "fire", "resolve", "trade", "wait"}]
    BY <1>7 DEF Check, LoopDies, Sleep
  <2>5. UNCHANGED <<lastKey, strategy, ran, again>>
    BY <1>7 DEF Check, LoopDies, Sleep
  <2> QED
    BY <1>7, <2>2, <2>3, <2>4, <2>5 DEF Check
<1>8. ASSUME NEW l \in Loops, Fire(l)
      PROVE  TypeOK'
  <2>1. owner[l] \in Bindings
    BY <1>8 DEF Fire, Alive, RegistryInv
  <2>2. RunKey(owner[l]) \in Nat
    BY <2>1, RunKeyType
  <2>3. CASE ~readable /\ LoopDies(l)
    BY <1>8, <2>3 DEF Fire, LoopDies
  <2>4. CASE Sleep(l)
               /\ UNCHANGED <<lastKey, account, strategy, ran, again>>
    BY <1>8, <2>4 DEF Fire, Sleep
  <2>5. CASE /\ lastKey' = [lastKey EXCEPT ![l] = RunKey(owner[l])]
             /\ lpc' = [lpc EXCEPT ![l] = "resolve"]
             /\ ran' = [ran EXCEPT ![owner[l]] = @ \cup {RunKey(owner[l])}]
             /\ again' = [again EXCEPT ![owner[l]] = @ \cup (ran[owner[l]] \cap {RunKey(owner[l])})]
             /\ UNCHANGED runVars
    BY <1>8, <2>1, <2>2, <2>5 DEF Fire
  <2> QED
    BY <1>8, <2>3, <2>4, <2>5 DEF Fire
<1>9. ASSUME NEW l \in Loops, Resolve(l)
      PROVE  TypeOK'
  <2>1. owner[l] \in Bindings
    BY <1>9 DEF Resolve, Alive, RegistryInv
  <2>2. CASE readable
    <3>1. StrategyOf(owner[l]) \in Strategies
      BY <2>1 DEF StrategyOf, Strategies, Documents
    <3> QED
      BY <1>9, <2>2, <3>1 DEF Resolve
  <2>3. CASE ~readable
    BY <1>9, <2>3 DEF Resolve, Sleep
  <2> QED
    BY <2>2, <2>3
<1>10. ASSUME NEW l \in Loops, FinishRun(l) \/ Wake(l)
       PROVE  TypeOK'
  BY <1>10 DEF FinishRun, Wake, Sleep
<1>11. ASSUME NEW b \in Bindings, AgentPlaces(b)
       PROVE  TypeOK'
  BY <1>11 DEF AgentPlaces
<1>12. ASSUME AgentDone
       PROVE  TypeOK'
  BY <1>12 DEF AgentDone
<1>13. ASSUME Boot
       PROVE  TypeOK'
  BY <1>13 DEF Boot
<1>14. ASSUME StartLoops
       PROVE  TypeOK'
  BY <1>14 DEF StartLoops
<1>15. ASSUME StopRuntime \/ StopLoops
       PROVE  TypeOK'
  <2>1. CASE StopRuntime
    BY <2>1 DEF StopRuntime
  <2>2. CASE StopLoops
    <3>1. stop' \in [Loops -> BOOLEAN] /\ tpc' = [tpc EXCEPT ![Main] = "stopped"]
      BY <2>2 DEF StopLoops, Registered
    <3> QED
      BY <2>2, <3>1 DEF StopLoops
  <2> QED
    BY <1>15, <2>1, <2>2
<1>16. ASSUME Exit
       PROVE  TypeOK'
  BY <1>16 DEF Exit, NoKey, Strategies
<1>17. ASSUME HandEdit \/ Tick
       PROVE  TypeOK'
  <2>1. CASE HandEdit
    BY <2>1 DEF HandEdit
  <2>2. CASE Tick
    BY <2>2 DEF Tick
  <2> QED
    BY <1>17, <2>1, <2>2
<1>18. ASSUME UNCHANGED vars
       PROVE  TypeOK'
  BY <1>18
<1> QED
  BY <1>1, <1>2, <1>3, <1>4, <1>5, <1>6, <1>7, <1>8, <1>9, <1>10, <1>11, <1>12, <1>13, <1>14,
     <1>15, <1>16, <1>17, <1>18 DEF Next, ReconcileStep, LoopStep, Lifespan

-----------------------------------------------------------------------------
(* One active loop per binding, and silence after stop() *)

LoopInv == RegistryInv /\ OneActiveLoop /\ QuietAfterStop

LEMMA InitInv == Init => SchedulerInv
<1> SUFFICES ASSUME Init
             PROVE  SchedulerInv
  OBVIOUS
<1>1. TypeOK
  BY FiresAssumption, NamesAssumption DEF Init, TypeOK, Documents, Threads, Strategies, NoKey
<1>2. LoopInv
  BY NamesAssumption
     DEF Init, LoopInv, RegistryInv, OneActiveLoop, QuietAfterStop, Alive, Up, Threads
<1> QED
  BY <1>1, <1>2 DEF SchedulerInv, LoopInv

\* The steps that touch neither the registry nor a loop, and leave the main thread where it is.
LEMMA Bystander ==
    ASSUME SchedulerInv,
           UNCHANGED <<registry, started, owner, lpc, stop>>,
           tpc'[Main] = tpc[Main],
           Up \/ UNCHANGED threadVars
    PROVE  LoopInv'
BY DEF SchedulerInv, LoopInv, RegistryInv, OneActiveLoop, QuietAfterStop, Alive, Up, threadVars

\* The steps of one loop's thread: a live one may end, and none begins.
LEMMA LoopStepInv ==
    ASSUME SchedulerInv, NEW l \in Loops, Alive(l),
           UNCHANGED <<registry, started, owner, stop, tpc, wanted>>,
           \E to : lpc' = [lpc EXCEPT ![l] = to]
    PROVE  LoopInv'
<1>1. \A m \in Loops : Alive(m)' => Alive(m)
  BY DEF Alive, SchedulerInv, TypeOK
<1> QED
  BY <1>1 DEF SchedulerInv, LoopInv, RegistryInv, OneActiveLoop, QuietAfterStop, Up

LEMMA InvStep == SchedulerInv /\ [Next]_vars => SchedulerInv'
<1> SUFFICES ASSUME SchedulerInv, [Next]_vars
             PROVE  SchedulerInv'
  OBVIOUS
<1>1. TypeOK'
  BY TypeStep DEF SchedulerInv
<1>2. LoopInv'
  <2> USE NamesAssumption DEF configVars, runtimeVars, threadVars, runVars, loopVars, history, vars
  <2>1. ASSUME NEW t \in Web, Save(t) \/ Status(t)
        PROVE  LoopInv'
    <3>1. tpc'[Main] = tpc[Main] /\ Up
      BY <2>1 DEF Save, Status, Serving, Up, SchedulerInv, TypeOK, Threads
    <3> QED
      BY <2>1, <3>1, Bystander DEF Save, Status
  <2>2. ASSUME NEW t \in Threads, ReadWanted(t)
        PROVE  LoopInv'
    BY <2>2 DEF ReadWanted, AfterReconcile, SchedulerInv, TypeOK, LoopInv, RegistryInv,
                OneActiveLoop, QuietAfterStop, Alive, Up, Threads
  <2>3. ASSUME NEW t \in Threads, DropLoops(t)
        PROVE  LoopInv'
    <3>1. /\ registry' = [b \in Bindings |-> IF b \in wanted[t] THEN registry[b] ELSE NoLoop]
          /\ stop' = [l \in Loops |-> stop[l] \/ l \in Dropped(t)]
          /\ tpc' = [tpc EXCEPT ![t] = "add"]
          /\ tpc[t] = "lock"
          /\ UNCHANGED <<started, owner, lpc, wanted>>
      BY <2>3 DEF DropLoops
    <3>2. Up
      BY <3>1 DEF SchedulerInv, RegistryInv, Up, Threads
    <3>3. RegistryInv'
      BY <3>1, <3>2 DEF SchedulerInv, TypeOK, RegistryInv, Alive, Up, Threads
    <3>4. OneActiveLoop'
      <4>1. SUFFICES ASSUME NEW l \in Loops, Alive(l)', ~stop'[l]
                     PROVE  owner[l] # Nobody /\ registry'[owner[l]] = l
        BY <3>1 DEF OneActiveLoop, Alive
      <4>2. Alive(l) /\ ~stop[l] /\ owner[l] \in Bindings
        BY <4>1, <3>1 DEF Alive, SchedulerInv, TypeOK, RegistryInv
      <4>3. owner[l] \in wanted[t]
        BY <4>1, <4>2, <3>1 DEF SchedulerInv, OneActiveLoop, Dropped
      <4> QED
        BY <4>2, <4>3, <3>1 DEF SchedulerInv, OneActiveLoop
    <3>5. QuietAfterStop'
      BY <3>1 DEF SchedulerInv, TypeOK, QuietAfterStop, Alive, Threads
    <3> QED
      BY <3>3, <3>4, <3>5 DEF LoopInv
  <2>4. ASSUME NEW t \in Threads, Unlock(t)
        PROVE  LoopInv'
    BY <2>4 DEF Unlock, AfterReconcile, SchedulerInv, TypeOK, LoopInv, RegistryInv,
                OneActiveLoop, QuietAfterStop, Alive, Up, Threads
  <2>5. ASSUME NEW t \in Threads, NEW b \in Bindings, AddLoop(t, b)
        PROVE  LoopInv'
    <3> DEFINE l == NewLoop
    <3>1. l \in Loops /\ ~Alive(l) /\ ~Registered(l)
      BY <2>5 DEF AddLoop, NewLoop, Unused
    <3>2. /\ registry' = [registry EXCEPT ![b] = l]
          /\ owner' = [owner EXCEPT ![l] = b]
          /\ stop' = [stop EXCEPT ![l] = FALSE]
          /\ lpc' = [lpc EXCEPT ![l] = Created]
          /\ UNCHANGED <<started, tpc, wanted>>
          /\ registry[b] = NoLoop /\ tpc[t] = "add"
      BY <2>5 DEF AddLoop
    <3>3. Up
      BY <2>5, <3>2 DEF SchedulerInv, RegistryInv, Up, Threads
    <3> HIDE DEF l
    <3>4. RegistryInv'
      BY <3>1, <3>2, <3>3 DEF SchedulerInv, TypeOK, RegistryInv, Alive, Up, Registered
    <3>5. OneActiveLoop'
      BY <3>1, <3>2 DEF SchedulerInv, TypeOK, OneActiveLoop, Alive, Registered
    <3>6. QuietAfterStop'
      BY <3>1, <3>2 DEF SchedulerInv, TypeOK, RegistryInv, QuietAfterStop, Alive, Created
    <3> QED
      BY <3>4, <3>5, <3>6 DEF LoopInv
  <2>6. ASSUME NEW l \in Loops, LoopStep(l)
        PROVE  LoopInv'
    BY <2>6, LoopStepInv
       DEF LoopStep, Check, Fire, Resolve, FinishRun, Wake, LoopDies, Sleep, Alive, Running
  <2>7. ASSUME NEW b \in Bindings, AgentPlaces(b) \/ AgentDone \/ HandEdit \/ Tick
        PROVE  LoopInv'
    BY <2>7, Bystander DEF AgentPlaces, AgentDone, HandEdit, Tick
  <2>8. ASSUME AgentDone \/ HandEdit \/ Tick \/ UNCHANGED vars
        PROVE  LoopInv'
    BY <2>8, Bystander DEF AgentDone, HandEdit, Tick
  <2>9. ASSUME Boot
        PROVE  LoopInv'
    BY <2>9 DEF Boot, SchedulerInv, TypeOK, LoopInv, RegistryInv, OneActiveLoop,
                QuietAfterStop, Alive, Up, Threads
  <2>10. ASSUME StartLoops
         PROVE  LoopInv'
    BY <2>10 DEF StartLoops, SchedulerInv, TypeOK, LoopInv, RegistryInv, OneActiveLoop,
                 QuietAfterStop, Alive, Registered, Up, Threads
  <2>11. ASSUME StopRuntime
         PROVE  LoopInv'
    BY <2>11 DEF StopRuntime, Serving, SchedulerInv, TypeOK, LoopInv, RegistryInv, OneActiveLoop,
                 QuietAfterStop, Alive, Up, Threads
  <2>12. ASSUME StopLoops
         PROVE  LoopInv'
    <3>1. /\ stop' = [l \in Loops |-> stop[l] \/ Registered(l)]
          /\ UNCHANGED <<registry, started, owner, lpc, wanted>>
          /\ tpc' = [tpc EXCEPT ![Main] = "stopped"]
          /\ tpc[Main] = "stopping"
      BY <2>12 DEF StopLoops
    <3>2. RegistryInv'
      BY <3>1 DEF SchedulerInv, TypeOK, RegistryInv, Alive, Up, Threads
    <3>3. OneActiveLoop'
      BY <3>1 DEF SchedulerInv, OneActiveLoop, Alive
    <3>4. QuietAfterStop'
      <4> SUFFICES ASSUME NEW l \in Loops, Alive(l)'
                   PROVE  stop'[l]
        BY DEF QuietAfterStop
      <4>1. Alive(l)
        BY <3>1 DEF Alive
      <4>2. stop[l] \/ Registered(l)
        BY <4>1 DEF SchedulerInv, TypeOK, OneActiveLoop, Registered
      <4> QED
        BY <3>1, <4>2
    <3> QED
      BY <3>2, <3>3, <3>4 DEF LoopInv
  <2>13. ASSUME Exit
         PROVE  LoopInv'
    BY <2>13 DEF Exit, SchedulerInv, TypeOK, LoopInv, RegistryInv, OneActiveLoop,
                 QuietAfterStop, Alive, Up, Threads
  <2> QED
    BY <2>1, <2>2, <2>3, <2>4, <2>5, <2>6, <2>7, <2>8, <2>9, <2>10, <2>11, <2>12, <2>13
       DEF Next, ReconcileStep, Lifespan
<1> QED
  BY <1>1, <1>2 DEF SchedulerInv, LoopInv

\* The variables keep their types, whatever the threads do.
THEOREM TypeCorrect == Spec => []TypeOK
<1>1. SchedulerInv => TypeOK
  BY DEF SchedulerInv
<1> QED
  BY InitInv, InvStep, <1>1, PTL DEF Spec

\* "One scheduler loop per algorithm binding" (bot_runtime.py:210): at most one that is not
\* stopped, and it is the one the registry can stop.
THEOREM OneLoopPerBinding == Spec => []OneActiveLoop
<1>1. SchedulerInv => OneActiveLoop
  BY DEF SchedulerInv
<1> QED
  BY InitInv, InvStep, <1>1, PTL DEF Spec

\* stop() leaves no loop polling (bot_runtime.py:258-263).
THEOREM StopIsComplete == Spec => []QuietAfterStop
<1>1. SchedulerInv => QuietAfterStop
  BY DEF SchedulerInv
<1> QED
  BY InitInv, InvStep, <1>1, PTL DEF Spec

-----------------------------------------------------------------------------
(* A binding left in place runs each fire at most once *)

\* OnceInv for one binding.
Once(b) ==
    /\ again[b] = {}
    /\ Up => /\ \A t \in Threads : tpc[t] \in {"lock", "add"} =>
                    (b \in wanted[t] <=> controls[b] # Absent)
             /\ controls[b] = Absent => registry[b] = NoLoop
             /\ \A l \in Loops : owner[l] = b => registry[b] = l
             /\ ran[b] # {} =>
                  /\ registry[b] # NoLoop /\ CronOf(b) \in Crons
                  /\ lastKey[registry[b]] \in Fires[CronOf(b)]
                  /\ lastKey[registry[b]] <= clock
                  /\ \A k \in ran[b] : k <= lastKey[registry[b]]

LEMMA InitOnce == Init => OnceInv
BY NamesAssumption DEF Init, OnceInv, Original, Up, Threads

\* The steps that change neither the controls, a loop's binding or last key, nor the history, and
\* put no thread inside reconcile().
LEMMA OnceBystander ==
    ASSUME SchedulerInv, NEW b \in Bindings, Once(b),
           UNCHANGED <<controls, registry, owner, lastKey, ran, again>>,
           clock' \in {clock, clock + 1}, Up' => Up,
           \A t \in Threads : tpc'[t] \in {"lock", "add"} =>
               tpc[t] \in {"lock", "add"} /\ wanted'[t] = wanted[t]
    PROVE  Once(b)'
<1>1. CronOf(b)' = CronOf(b)
  BY DEF CronOf
<1>2. Up /\ ran[b] # {} => lastKey[registry[b]] \in Nat
  BY DEF Once, SchedulerInv, TypeOK
<1> QED
  BY <1>1, <1>2 DEF Once, SchedulerInv, TypeOK

LEMMA OnceStep ==
    ASSUME SchedulerInv, OnceInv, [Next]_vars
    PROVE  OnceInv'
<1> USE NamesAssumption DEF configVars, runtimeVars, threadVars, runVars, loopVars, history, vars
<1>0. SUFFICES ASSUME NEW b \in Bindings, Original(b)'
               PROVE  Once(b)'
  BY DEF OnceInv, Once
<1>1. ASSUME NEW t \in Web, Save(t)
      PROVE  Once(b)'
  <2>1. touched'[b] = touched[b] \cup Changes(controls[b], controls'[b])
    BY <1>1 DEF Save
  <2>2. Original(b)
    BY <1>0, <2>1 DEF Original
  <2>3. controls'[b] = Absent <=> controls[b] = Absent
    BY <1>0, <2>1 DEF Original, Changes
  <2>4. CronOf(b)' = CronOf(b)
    BY <1>0, <2>1, <2>3 DEF Original, Changes, CronOf
  <2>5. Once(b)
    BY <2>2 DEF OnceInv, Once
  <2>6. /\ tpc' = [tpc EXCEPT ![t] = "read"] /\ Up
        /\ UNCHANGED <<registry, wanted, owner, lastKey, ran, again, clock>>
    BY <1>1 DEF Save, Serving, Up
  <2> QED
    BY <2>3, <2>4, <2>5, <2>6 DEF Once, SchedulerInv, TypeOK, Threads
<1>2. ASSUME touched' = touched
      PROVE  Once(b)
  BY <1>0, <1>2 DEF OnceInv, Once, Original
<1>3. ASSUME NEW t \in Web, Status(t)
      PROVE  Once(b)'
  <2>1. /\ Up /\ tpc' = [tpc EXCEPT ![t] = "read"] /\ Once(b)
        /\ UNCHANGED <<clock, configVars, runtimeVars, wanted, loopVars, history>>
    BY <1>2, <1>3 DEF Status, Serving, Up
  <2>2. \A u \in Threads : tpc'[u] \in {"lock", "add"} => tpc[u] \in {"lock", "add"}
    BY <2>1 DEF SchedulerInv, TypeOK, Threads
  <2> QED
    BY <2>1, <2>2, OnceBystander
<1>4. ASSUME NEW t \in Threads, ReadWanted(t)
      PROVE  Once(b)'
  <2>1. /\ tpc[t] = "read" /\ Once(b)
        /\ UNCHANGED <<clock, configVars, runtimeVars, loopVars, history>>
    BY <1>2, <1>4 DEF ReadWanted
  <2>2. Up
    BY <2>1 DEF SchedulerInv, RegistryInv, Up, Threads
  <2>3. \A u \in Threads : tpc'[u] \in {"lock", "add"} =>
            (b \in wanted'[u] <=> controls[b] # Absent)
    BY <1>4, <2>1, <2>2 DEF ReadWanted, Once, SchedulerInv, TypeOK, Ids, AfterReconcile
  <2>4. CronOf(b)' = CronOf(b)
    BY <2>1 DEF CronOf
  <2> QED
    BY <2>1, <2>2, <2>3, <2>4 DEF Once
<1>5. ASSUME NEW t \in Threads, DropLoops(t)
      PROVE  Once(b)'
  <2>1. /\ tpc[t] = "lock" /\ Once(b) /\ tpc' = [tpc EXCEPT ![t] = "add"]
        /\ registry' = [c \in Bindings |-> IF c \in wanted[t] THEN registry[c] ELSE NoLoop]
        /\ UNCHANGED <<clock, configVars, wanted, owner, lastKey, history>>
    BY <1>2, <1>5 DEF DropLoops
  <2>2. Up
    BY <2>1 DEF SchedulerInv, RegistryInv, Up, Threads
  <2>3. registry'[b] = registry[b]
    BY <2>1, <2>2 DEF Once
  <2>4. CronOf(b)' = CronOf(b)
    BY <2>1 DEF CronOf
  <2> QED
    BY <2>1, <2>2, <2>3, <2>4 DEF Once, SchedulerInv, TypeOK
<1>6. ASSUME NEW t \in Threads, Unlock(t)
      PROVE  Once(b)'
  <2>1. /\ Once(b) /\ tpc' = [tpc EXCEPT ![t] = AfterReconcile(t)] /\ tpc[t] = "add"
        /\ wanted' = [wanted EXCEPT ![t] = {}]
        /\ UNCHANGED <<clock, configVars, registry, started, loopVars, history>>
    BY <1>2, <1>6 DEF Unlock
  <2>2. \A u \in Threads : tpc'[u] \in {"lock", "add"} =>
            tpc[u] \in {"lock", "add"} /\ wanted'[u] = wanted[u]
    BY <2>1 DEF SchedulerInv, TypeOK, AfterReconcile
  <2>3. Up
    BY <2>1 DEF SchedulerInv, RegistryInv, Up, Threads
  <2> QED
    BY <2>1, <2>2, <2>3, OnceBystander
<1>7. ASSUME NEW t \in Threads, NEW c \in Bindings, AddLoop(t, c)
      PROVE  Once(b)'
  <2> DEFINE l == NewLoop
  <2>1. l \in Loops /\ ~Registered(l)
    BY <1>7 DEF AddLoop, NewLoop, Unused
  <2>2. /\ tpc[t] = "add" /\ Once(b) /\ c \in wanted[t] /\ registry[c] = NoLoop
        /\ registry' = [registry EXCEPT ![c] = l]
        /\ owner' = [owner EXCEPT ![l] = c]
        /\ lastKey' = [lastKey EXCEPT ![l] = NoKey]
        /\ UNCHANGED <<clock, configVars, threadVars, history>>
    BY <1>2, <1>7 DEF AddLoop
  <2>3. Up
    BY <2>2 DEF SchedulerInv, RegistryInv, Up, Threads
  <2>4. CronOf(b)' = CronOf(b)
    BY <2>2 DEF CronOf
  <2> HIDE DEF l
  <2>5. CASE c = b
    <3>1. \A m \in Loops : owner[m] # b
      BY <2>2, <2>3, <2>5 DEF Once
    <3>2. ran[b] = {} /\ controls[b] # Absent
      BY <2>2, <2>3, <2>5 DEF Once
    <3> QED
      BY <2>1, <2>2, <2>3, <2>5, <3>1, <3>2 DEF Once, SchedulerInv, TypeOK
  <2>6. CASE c # b
    <3>1. registry'[b] = registry[b] /\ registry[b] # l
      BY <2>1, <2>2, <2>6 DEF SchedulerInv, TypeOK, Registered
    <3>2. \A m \in Loops : owner'[m] = b => m # l /\ owner[m] = b
      BY <2>1, <2>2, <2>6 DEF SchedulerInv, TypeOK
    <3>3. registry[b] # NoLoop => lastKey'[registry[b]] = lastKey[registry[b]]
      BY <2>1, <2>2, <3>1 DEF SchedulerInv, TypeOK
    <3> QED
      BY <2>2, <2>3, <2>4, <3>1, <3>2, <3>3 DEF Once
  <2> QED
    BY <2>5, <2>6
<1>8. ASSUME NEW l \in Loops, Fire(l)
      PROVE  Once(b)'
  <2> DEFINE k == RunKey(owner[l])
  <2>1. Once(b) /\ UNCHANGED <<clock, configVars, runtimeVars, threadVars, owner>>
        /\ lpc[l] = "fire"
    BY <1>2, <1>8 DEF Fire
  <2>2. CASE UNCHANGED <<lastKey, ran, again>>
    BY <2>1, <2>2, OnceBystander DEF Up
  <2>3. CASE /\ FreshKey(l, k)
             /\ lastKey' = [lastKey EXCEPT ![l] = k]
             /\ ran' = [ran EXCEPT ![owner[l]] = @ \cup {k}]
             /\ again' = [again EXCEPT ![owner[l]] = @ \cup (ran[owner[l]] \cap {k})]
    <3>1. owner[l] \in Bindings
      BY <2>1 DEF SchedulerInv, TypeOK, RegistryInv, Alive
    <3>2. Up
      BY <3>1 DEF SchedulerInv, RegistryInv
    <3>3. CronOf(b)' = CronOf(b)
      BY <2>1 DEF CronOf
    <3>4. CASE owner[l] = b
      <4>1. registry[b] = l
        BY <2>1, <3>2, <3>4 DEF Once
      <4>2. /\ CronOf(b) \in Crons /\ k \in Fires[CronOf(b)] /\ k \in Nat /\ k <= clock
            /\ \A f \in Fires[CronOf(b)] : f <= clock => f <= k
        BY <2>3, <3>4, FireKeyLatest DEF RunKey, FreshKey, SchedulerInv, TypeOK
      <4>3. ran[b] # {} => lastKey[l] < k
        BY <2>1, <2>3, <3>2, <4>1, <4>2 DEF Once, FreshKey, SchedulerInv, TypeOK
      <4>4. \A f \in ran[b] : f \in Nat /\ f < k
        BY <2>1, <3>2, <4>1, <4>2, <4>3 DEF Once, SchedulerInv, TypeOK
      <4>5. ran[b] \cap {k} = {}
        BY <4>2, <4>4
      <4> HIDE DEF k
      <4>6. /\ ran'[b] = ran[b] \cup {k} /\ again'[b] = {} /\ lastKey'[l] = k
        BY <2>1, <2>3, <3>4, <4>5 DEF Once, SchedulerInv, TypeOK
      <4>7. \A f \in ran'[b] : f <= k
        BY <4>2, <4>4, <4>6
      <4> QED
        BY <2>1, <3>2, <3>3, <4>1, <4>2, <4>6, <4>7, NamesAssumption DEF Once
    <3>5. CASE owner[l] # b
      <4>1. ran'[b] = ran[b] /\ again'[b] = again[b]
        BY <2>3, <3>1, <3>5 DEF SchedulerInv, TypeOK
      <4>2. registry[b] # NoLoop => lastKey'[registry[b]] = lastKey[registry[b]]
        BY <2>3, <3>5 DEF SchedulerInv, TypeOK, RegistryInv
      <4> QED
        BY <2>1, <3>2, <3>3, <4>1, <4>2 DEF Once
    <3> QED
      BY <3>4, <3>5
  <2> QED
    BY <1>8, <2>2, <2>3 DEF Fire, LoopDies
<1>9. ASSUME NEW l \in Loops, Check(l) \/ Resolve(l) \/ FinishRun(l) \/ Wake(l)
      PROVE  Once(b)'
  <2>1. /\ UNCHANGED <<clock, configVars, runtimeVars, threadVars, owner, lastKey, history>>
    BY <1>9 DEF Check, Resolve, FinishRun, Wake, LoopDies, Sleep
  <2> QED
    BY <1>2, <2>1, OnceBystander DEF Up
<1>10. ASSUME NEW c \in Bindings, AgentPlaces(c)
       PROVE  Once(b)'
  BY <1>2, <1>10, OnceBystander DEF AgentPlaces, Up
<1>11. ASSUME AgentDone \/ HandEdit \/ Tick \/ UNCHANGED vars
       PROVE  Once(b)'
  BY <1>2, <1>11, OnceBystander DEF AgentDone, HandEdit, Tick, Up
<1>12. ASSUME Boot
       PROVE  Once(b)'
  <2>1. ~Up /\ again' = [c \in Bindings |-> {}] /\ ran' = [c \in Bindings |-> {}]
        /\ tpc' = [tpc EXCEPT ![Main] = "read"]
        /\ UNCHANGED <<registry, owner, wanted, controls>>
    BY <1>12 DEF Boot
  <2>2. \A t \in Threads : tpc'[t] \notin {"lock", "add"}
    BY <2>1 DEF SchedulerInv, RegistryInv, TypeOK, Threads
  <2> QED
    BY <2>1, <2>2 DEF Once, SchedulerInv, RegistryInv
<1>13. ASSUME StartLoops \/ StopRuntime \/ StopLoops
       PROVE  Once(b)'
  <2>1. /\ UNCHANGED <<clock, configVars, registry, wanted, owner, lastKey, history>>
        /\ \E to \in {"serving", "stopping", "stopped"} : tpc' = [tpc EXCEPT ![Main] = to]
        /\ Up
    BY <1>13 DEF StartLoops, StopRuntime, StopLoops, Serving, Up
  <2>2. \A t \in Threads : tpc'[t] \in {"lock", "add"} => tpc[t] \in {"lock", "add"}
    BY <2>1 DEF SchedulerInv, TypeOK
  <2> QED
    BY <1>2, <2>1, <2>2, OnceBystander
<1>14. ASSUME Exit
       PROVE  Once(b)'
  <2>1. ~Up' /\ UNCHANGED <<again, touched>>
    BY <1>14 DEF Exit, Up, Threads
  <2> QED
    BY <1>2, <2>1 DEF Once
<1> QED
  BY <1>1, <1>3, <1>4, <1>5, <1>6, <1>7, <1>8, <1>9, <1>10, <1>11, <1>12, <1>13, <1>14
     DEF Next, ReconcileStep, LoopStep, Lifespan

\* "the loop runs it exactly once" (bot_runtime.py:173-174), at most: whatever is saved, loaded,
\* restarted and delayed, no fire runs twice for a binding left in place since the boot.
THEOREM FiresRunOnce == Spec => []OncePerFire
<1>1. OnceInv => OncePerFire
  BY DEF OnceInv, OncePerFire, Original
<1> QED
  BY InitInv, InvStep, InitOnce, OnceStep, <1>1, PTL DEF Spec

-----------------------------------------------------------------------------
(* A binding left alone runs every fire *)

\* A binding the scheduler may trade, that nobody has edited since the boot.
Driven(b) == touched[b] = {} /\ breaks = 0 /\ MayTrade(b, "schedule")

\* Every fire of the schedule up to minute s has been run.
RunUpTo(b, s) == \A f \in Fires[CronOf(b)] : bootedAt <= f /\ f <= s => f \in ran[b]

\* A loop that has looked at the clock at minute s looks again within a run and a poll.
LooksAgain(l, s) ==
    /\ lpc[l] \in {"check", "fire"} => clock <= s + Poll + MaxRun
    /\ lpc[l] = "resolve" => clock <= s
    /\ lpc[l] = "trade" => clock <= due[l] /\ due[l] <= s + MaxRun
    /\ lpc[l] = "wait" => clock <= due[l] /\ due[l] <= s + Poll + MaxRun

\* The loop of a driven binding runs, is not stopped, and is on time.
Watching(b, l) ==
    /\ Alive(l) /\ ~stop[l]
    /\ lastKey[l] # NoKey => lastKey[l] \in ran[b]
    /\ \E s \in Int : s <= clock /\ RunUpTo(b, s) /\ LooksAgain(l, s)

Booted == Up /\ tpc[Main] \notin {"stopping", "stopped"}

\* The boot's own reconcile() makes the loop before a minute has passed.
Watched(b) ==
    Driven(b) /\ Booted =>
        /\ tpc[Main] \in {"list", "serving"} => registry[b] # NoLoop
        /\ tpc[Main] # "serving" => clock = bootedAt
        /\ registry[b] # NoLoop => Watching(b, registry[b])

WatchInv ==
    /\ breaks = 0 => readable
    /\ Booted => started
    /\ \A b \in Bindings : Watched(b)

LEMMA InitWatch == Init => WatchInv
BY NamesAssumption DEF Init, WatchInv, Watched, Booted, Up, Threads

\* The steps that leave the binding, its loop and the clock as they are.
LEMMA WatchBystander ==
    ASSUME NEW b \in Bindings, Watched(b), Driven(b), Booted,
           UNCHANGED <<clock, bootedAt, controls, registry>>, ran[b] \subseteq ran'[b],
           registry[b] # NoLoop =>
               UNCHANGED <<lpc[registry[b]], due[registry[b]], lastKey[registry[b]], stop[registry[b]]>>,
           tpc'[Main] \in {"list", "serving"} => registry[b] # NoLoop,
           tpc'[Main] # "serving" => clock = bootedAt
    PROVE  Watched(b)'
<1>1. CronOf(b)' = CronOf(b)
  BY DEF CronOf
<1>2. ASSUME registry[b] # NoLoop
      PROVE  Watching(b, registry[b])'
  <2>1. Watching(b, registry[b])
    BY <1>2 DEF Watched
  <2>2. PICK s \in Int : s <= clock /\ RunUpTo(b, s) /\ LooksAgain(registry[b], s)
    BY <2>1 DEF Watching
  <2>3. RunUpTo(b, s)'
    BY <1>1, <2>2 DEF RunUpTo
  <2>4. LooksAgain(registry[b], s)'
    BY <1>2, <2>2 DEF LooksAgain
  <2>5. (s <= clock)'
    BY <2>2
  <2> QED
    BY <1>2, <2>1, <2>3, <2>4, <2>5 DEF Watching, Alive
<1> QED
  BY <1>2 DEF Watched

\* A look at the clock in time runs the only fire there has been since the last one.
LEMMA FireCaught ==
    ASSUME GraceCovers, TypeOK, NEW b \in Bindings, CronOf(b) \in Crons,
           NEW s \in Int, s <= clock, clock <= s + Poll + MaxRun, RunUpTo(b, s),
           NEW f \in Fires[CronOf(b)], bootedAt <= f, f <= clock, f \notin ran[b]
    PROVE  RunKey(b) = f /\ f # NoKey
<1> DEFINE c == CronOf(b)
           near == {g \in Fires[c] : g <= clock /\ clock <= g + Grace}
           k == FireKey(c, clock)
<1>1. Fires[c] \subseteq Nat \ {0} /\ clock \in Nat /\ Grace \in Nat /\ Poll \in Nat /\ MaxRun \in Nat
  BY FiresAssumption, TimingAssumption DEF TypeOK
<1>2. f \in Nat /\ f # 0 /\ s < f
  BY <1>1 DEF RunUpTo
<1>3. f \in near
  BY <1>1, <1>2 DEF GraceCovers
<1>4. k # NoKey
  <2>1. near # {} /\ k = CHOOSE g \in near : \A h \in near : h <= g
    BY <1>3 DEF FireKey
  <2>2. \E g \in near : \A h \in near : h <= g
    <3>1. near \in SUBSET Nat /\ \A x \in near : x <= clock
      BY <1>1
    <3> HIDE DEF near
    <3> QED
      BY <1>1, <1>3, <3>1, GreatestNatural
  <2>3. k \in near
    <3> HIDE DEF near
    <3> QED
      BY <2>1, <2>2
  <2> QED
    BY <1>1, <2>3 DEF NoKey
<1>5. k \in Fires[c] /\ k <= clock /\ f <= k
  BY <1>1, <1>4, FireKeyLatest
<1>6. k = f
  BY <1>1, <1>2, <1>5 DEF GraceCovers
<1> QED
  BY <1>2, <1>6 DEF RunKey, NoKey

\* The steps of one loop's thread, which touch no other loop.
LEMMA OtherLoop ==
    ASSUME SchedulerInv, NEW b \in Bindings, Watched(b), Driven(b), Booted,
           NEW l \in Loops, LoopStep(l), registry[b] # l
    PROVE  Watched(b)'
<1> USE DEF configVars, runtimeVars, threadVars, runVars, history
<1>1. /\ UNCHANGED <<clock, bootedAt, controls, registry, stop, tpc>>
      /\ \A m \in Loops \ {l} : lpc'[m] = lpc[m] /\ due'[m] = due[m] /\ lastKey'[m] = lastKey[m]
  BY DEF LoopStep, Check, Fire, Resolve, FinishRun, Wake, LoopDies, Sleep, SchedulerInv, TypeOK
<1>2. ran[b] \subseteq ran'[b]
  BY DEF LoopStep, Check, Fire, Resolve, FinishRun, Wake, LoopDies, Sleep, SchedulerInv, TypeOK
<1>3. registry[b] # NoLoop => registry[b] \in Loops \ {l}
  BY DEF SchedulerInv, TypeOK
<1> QED
  BY <1>1, <1>2, <1>3, WatchBystander DEF Watched

\* The loop of the binding itself takes a step.
LEMMA OwnLoop ==
    ASSUME GraceCovers, SchedulerInv, readable, NEW b \in Bindings, Watched(b), Driven(b), Booted,
           NEW l \in Loops, LoopStep(l), registry[b] = l
    PROVE  Watched(b)'
<1> USE DEF configVars, runtimeVars, threadVars, runVars, history
<1>1. /\ owner[l] = b /\ l # NoLoop /\ Watching(b, l)
      /\ clock \in Nat /\ Poll \in Nat /\ MaxRun \in Nat /\ due \in [Loops -> Nat]
      /\ lpc \in [Loops -> {"new", "dead", "check", "fire", "resolve", "trade", "wait"}]
  BY NamesAssumption, TimingAssumption DEF SchedulerInv, RegistryInv, Watched, TypeOK
<1>2. PICK s \in Int : s <= clock /\ RunUpTo(b, s) /\ LooksAgain(l, s)
  BY <1>1 DEF Watching
<1>3. /\ UNCHANGED <<clock, bootedAt, controls, registry, stop, tpc, touched, breaks>>
      /\ CronOf(b)' = CronOf(b)
  BY DEF LoopStep, Check, Fire, Resolve, FinishRun, Wake, CronOf
<1>4. SUFFICES Watching(b, l)'
  BY <1>1, <1>3 DEF Watched, Booted, Up
<1>5. ASSUME UNCHANGED <<lastKey, ran>>, Alive(l)', LooksAgain(l, s)'
      PROVE  Watching(b, l)'
  <2>1. RunUpTo(b, s)' /\ (s <= clock)' /\ ~stop'[l]
    BY <1>1, <1>2, <1>3, <1>5 DEF RunUpTo, Watching
  <2> QED
    BY <1>1, <1>5, <2>1 DEF Watching
<1>6. CASE Check(l)
  <2>1. lpc' = [lpc EXCEPT ![l] = "fire"] /\ lpc[l] = "check" /\ UNCHANGED <<lastKey, ran, due>>
    BY <1>1, <1>6 DEF Check, EndsHere, Watching, Driven
  <2>2. LooksAgain(l, s)'
    BY <1>1, <1>2, <1>3, <2>1 DEF LooksAgain
  <2> QED
    BY <1>1, <1>5, <2>1, <2>2 DEF Alive
<1>7. CASE Fire(l)
  <2> DEFINE k == RunKey(b)
  <2>1. /\ CronOf(b) \in Crons /\ k \in Nat /\ clock <= s + Poll + MaxRun /\ lpc[l] = "fire"
        /\ ran \in [Bindings -> SUBSET Nat] /\ lastKey \in [Loops -> Nat]
    BY <1>1, <1>2, <1>7, RunKeyType DEF Fire, LooksAgain, Driven, MayTrade, Driver, SchedulerInv, TypeOK
  <2>2. ASSUME NEW f \in Fires[CronOf(b)], bootedAt <= f, f <= clock, f \notin ran[b]
        PROVE  k = f /\ FreshKey(l, k)
    <3>1. k = f /\ f # NoKey
      BY <1>1, <1>2, <2>1, <2>2, FireCaught DEF SchedulerInv
    <3> QED
      BY <1>1, <2>2, <3>1 DEF FreshKey, Watching
  <2> HIDE DEF k
  <2>3. CASE ~FreshKey(l, k)
    <3>1. /\ lpc' = [lpc EXCEPT ![l] = "wait"] /\ due' = [due EXCEPT ![l] = clock + Poll]
          /\ UNCHANGED <<lastKey, ran>>
      BY <1>1, <1>7, <2>3 DEF Fire, Sleep, k
    <3>2. RunUpTo(b, clock)'
      BY <1>3, <2>2, <2>3, <3>1 DEF RunUpTo
    <3>3. LooksAgain(l, clock)'
      BY <1>1, <1>3, <3>1 DEF LooksAgain
    <3>4. PICK now \in Int : now = clock
      BY <1>1
    <3>5. (now <= clock)' /\ RunUpTo(b, now)' /\ LooksAgain(l, now)'
      BY <1>3, <3>2, <3>3, <3>4, <1>1 DEF RunUpTo, LooksAgain
    <3> QED
      BY <1>1, <1>3, <3>1, <3>5 DEF Watching, Alive
  <2>4. CASE FreshKey(l, k)
    <3>1. /\ lpc' = [lpc EXCEPT ![l] = "resolve"] /\ lastKey' = [lastKey EXCEPT ![l] = k]
          /\ ran' = [ran EXCEPT ![b] = @ \cup {k}]
      BY <1>1, <1>7, <2>4 DEF Fire, k
    <3>2. lastKey'[l] \in ran'[b] /\ ran[b] \subseteq ran'[b] /\ k \in ran'[b]
      BY <2>1, <3>1
    <3>4. PICK now \in Int : now = clock
      BY <1>1
    <3>5. RunUpTo(b, now)'
      BY <1>3, <2>2, <3>2, <3>4 DEF RunUpTo
    <3>6. (now <= clock)' /\ LooksAgain(l, now)'
      BY <1>1, <1>3, <3>1, <3>4 DEF LooksAgain
    <3> QED
      BY <1>1, <1>3, <3>1, <3>2, <3>5, <3>6 DEF Watching, Alive
  <2> QED
    BY <2>3, <2>4
<1>8. CASE Resolve(l)
  <2>1. /\ lpc' = [lpc EXCEPT ![l] = "trade"] /\ due' = [due EXCEPT ![l] = clock + MaxRun]
        /\ lpc[l] = "resolve" /\ UNCHANGED <<lastKey, ran>>
    BY <1>8 DEF Resolve
  <2>2. LooksAgain(l, s)'
    BY <1>1, <1>2, <1>3, <2>1 DEF LooksAgain
  <2> QED
    BY <1>1, <1>5, <2>1, <2>2 DEF Alive
<1>9. CASE FinishRun(l)
  <2>1. /\ lpc' = [lpc EXCEPT ![l] = "wait"] /\ due' = [due EXCEPT ![l] = clock + Poll]
        /\ lpc[l] = "trade" /\ UNCHANGED <<lastKey, ran>>
    BY <1>9 DEF FinishRun, Running, Sleep
  <2>2. LooksAgain(l, s)'
    BY <1>1, <1>2, <1>3, <2>1 DEF LooksAgain
  <2> QED
    BY <1>1, <1>5, <2>1, <2>2 DEF Alive
<1>10. CASE Wake(l)
  <2>1. /\ lpc' = [lpc EXCEPT ![l] = "check"] /\ lpc[l] = "wait" /\ UNCHANGED <<lastKey, ran>>
    BY <1>10 DEF Wake
  <2>2. LooksAgain(l, s)'
    BY <1>1, <1>2, <1>3, <2>1 DEF LooksAgain
  <2> QED
    BY <1>1, <1>5, <2>1, <2>2 DEF Alive
<1> QED
  BY <1>6, <1>7, <1>8, <1>9, <1>10 DEF LoopStep

LEMMA WatchStep ==
    ASSUME GraceCovers, SchedulerInv, OnceInv, WatchInv, [Next]_vars
    PROVE  WatchInv'
<1> USE NamesAssumption DEF configVars, runtimeVars, threadVars, runVars, loopVars, history, vars
<1>1. (breaks = 0 => readable)'
  <2>1. CASE HandEdit
    BY <2>1 DEF HandEdit, SchedulerInv, TypeOK
  <2>2. CASE UNCHANGED <<breaks, readable>>
    BY <2>2 DEF WatchInv
  <2> QED
    BY <2>1, <2>2 DEF Next, Save, Status, ReconcileStep, ReadWanted, DropLoops, AddLoop, Unlock, LoopStep,
       Check, Fire, Resolve, FinishRun, Wake, AgentPlaces, AgentDone, Lifespan, Boot, StartLoops,
       StopRuntime, StopLoops, Exit, Tick
<1>2. (Booted => started)'
  <2>1. CASE Boot \/ StopRuntime \/ Exit
    BY <2>1 DEF Boot, StopRuntime, Exit, Booted, Up, SchedulerInv, TypeOK, Threads
  <2>2. CASE /\ started' = started
             /\ Booted' => Booted
    BY <2>2 DEF WatchInv
  <2>3. CASE \E t \in Threads : ReconcileStep(t)
    <3>1. PICK t \in Threads : ReconcileStep(t)
      BY <2>3
    <3>2. started' = started /\ tpc[t] \in {"read", "lock", "add"}
      BY <3>1 DEF ReconcileStep, ReadWanted, DropLoops, AddLoop, Unlock
    <3>3. Booted' => Booted
      BY <3>1, <3>2 DEF ReconcileStep, ReadWanted, DropLoops, AddLoop, Unlock, Booted, Up, SchedulerInv,
         TypeOK, Threads
    <3> QED
      BY <2>2, <3>2, <3>3
  <2>4. CASE \E t \in Web : Save(t) \/ Status(t)
    BY <2>2, <2>4 DEF Save, Status, Booted, Up, SchedulerInv, TypeOK, Threads
  <2>5. CASE StartLoops \/ StopLoops
    BY <2>2, <2>5 DEF StartLoops, StopLoops, Booted, Up, SchedulerInv, TypeOK, Threads
  <2>6. CASE UNCHANGED <<started, tpc>>
    BY <2>2, <2>6 DEF Booted, Up
  <2> QED
    BY <2>1, <2>3, <2>4, <2>5, <2>6 DEF Next, LoopStep, Lifespan, Check, Fire, Resolve, FinishRun, Wake,
       AgentPlaces, AgentDone, HandEdit, Tick
<1>3. ASSUME NEW b \in Bindings
      PROVE  Watched(b)'
  <2>1. SUFFICES ASSUME Driven(b)', Booted'
                 PROVE  Watched(b)'
    BY DEF Watched
  <2>2. Watched(b)
    BY DEF WatchInv
  <2>3. ASSUME UNCHANGED <<touched, breaks, controls>>
        PROVE  Driven(b) /\ CronOf(b)' = CronOf(b)
    BY <2>1, <2>3 DEF Driven, MayTrade, Driver, CronOf
  <2>4. ASSUME Driven(b), Booted
        PROVE  /\ controls[b] # Absent /\ Up /\ readable
               /\ Once(b)
               /\ registry[b] # NoLoop =>
                    registry[b] \in Loops /\ owner[registry[b]] = b /\ Watching(b, registry[b])
    BY <2>2, <2>4 DEF Driven, MayTrade, Booted, WatchInv, OnceInv, Once, Original, SchedulerInv,
       RegistryInv, TypeOK, Watched
  <2>5. ASSUME NEW t \in Web, Save(t)
        PROVE  Watched(b)'
    <3>1. touched[b] = {} /\ controls'[b] = controls[b]
      BY <2>1, <2>5 DEF Save, Driven, Changes
    <3>2. tpc'[Main] = tpc[Main] /\ UNCHANGED <<breaks, clock, bootedAt, registry, loopVars, ran>>
      BY <2>5 DEF Save, SchedulerInv, TypeOK, Threads
    <3>3. Driven(b) /\ Booted /\ CronOf(b)' = CronOf(b)
      BY <2>1, <3>1, <3>2 DEF Driven, MayTrade, Driver, CronOf, Booted, Up
    <3>4. ASSUME registry[b] # NoLoop
          PROVE  Watching(b, registry[b])'
      <4>1. Watching(b, registry[b])
        BY <2>4, <3>3, <3>4
      <4> QED
        BY <3>2, <3>3, <4>1 DEF Watching, Alive, RunUpTo, LooksAgain
    <3> QED
      BY <2>2, <3>2, <3>3, <3>4 DEF Watched
  <2>6. ASSUME NEW t \in Web, Status(t)
        PROVE  Watched(b)'
    <3>1. tpc'[Main] = tpc[Main] /\ UNCHANGED <<clock, configVars, runtimeVars, loopVars, history>>
      BY <2>6 DEF Status, SchedulerInv, TypeOK, Threads
    <3>2. Driven(b) /\ Booted
      BY <2>1, <2>3, <3>1 DEF Booted, Up
    <3> QED
      BY <2>2, <3>1, <3>2, WatchBystander DEF Watched
  <2>7. ASSUME NEW t \in Threads, ReadWanted(t)
        PROVE  Watched(b)'
    <3>1. tpc[t] = "read" /\ UNCHANGED <<clock, configVars, runtimeVars, loopVars, history>>
      BY <2>7 DEF ReadWanted
    <3>2. Driven(b) /\ Booted
      BY <2>1, <2>3, <2>7, <3>1 DEF ReadWanted, Booted, Up, SchedulerInv, TypeOK, Threads
    <3>3. tpc'[Main] = tpc[Main] \/ (tpc[Main] = "read" /\ tpc'[Main] = "lock")
      BY <2>4, <2>7, <3>2 DEF ReadWanted, SchedulerInv, TypeOK, Threads
    <3> QED
      BY <2>2, <3>1, <3>2, <3>3, WatchBystander DEF Watched
  <2>8. ASSUME NEW t \in Threads, DropLoops(t)
        PROVE  Watched(b)'
    <3>1. /\ tpc[t] = "lock" /\ tpc' = [tpc EXCEPT ![t] = "add"]
          /\ registry' = [c \in Bindings |-> IF c \in wanted[t] THEN registry[c] ELSE NoLoop]
          /\ stop' = [l \in Loops |-> stop[l] \/ l \in Dropped(t)]
          /\ UNCHANGED <<clock, configVars, lpc, lastKey, due, history>>
      BY <2>8 DEF DropLoops
    <3>2. Driven(b) /\ Booted
      BY <2>1, <2>3, <3>1 DEF Booted, Up, SchedulerInv, TypeOK, Threads
    <3>3. b \in wanted[t] /\ registry'[b] = registry[b]
      BY <2>4, <3>1, <3>2 DEF Once
    <3>4. ASSUME registry[b] # NoLoop
          PROVE  stop'[registry[b]] = stop[registry[b]]
      <4>1. registry[b] \in Loops /\ owner[registry[b]] = b
        BY <2>4, <3>2, <3>4
      <4>2. ~(registry[b] \in Dropped(t))
        BY <3>3, <3>4, <4>1 DEF Dropped, SchedulerInv, RegistryInv
      <4> QED
        BY <3>1, <4>1, <4>2 DEF SchedulerInv, TypeOK
    <3>5. Watching(b, registry[b])' \/ registry[b] = NoLoop
      <4>1. SUFFICES ASSUME registry[b] # NoLoop
                     PROVE  Watching(b, registry[b])'
        OBVIOUS
      <4>2. Watching(b, registry[b])
        BY <2>4, <3>2, <4>1
      <4>3. PICK l : l = registry[b]
        OBVIOUS
      <4>4. CronOf(b)' = CronOf(b) /\ registry'[b] = l /\ stop'[l] = stop[l] /\ Watching(b, l)
        BY <2>3, <3>1, <3>3, <3>4, <4>1, <4>2, <4>3
      <4>5. Watching(b, l)'
        BY <3>1, <4>4 DEF Watching, Alive, RunUpTo, LooksAgain
      <4> QED
        BY <4>4, <4>5 DEF Watching, Alive, LooksAgain
    <3> QED
      BY <2>2, <3>1, <3>2, <3>3, <3>5 DEF Watched, SchedulerInv, TypeOK, Threads, Watching, Alive, LooksAgain
  <2>9. ASSUME NEW t \in Threads, Unlock(t)
        PROVE  Watched(b)'
    <3>1. /\ tpc[t] = "add" /\ tpc' = [tpc EXCEPT ![t] = AfterReconcile(t)]
          /\ \A c \in wanted[t] : registry[c] # NoLoop
          /\ UNCHANGED <<clock, configVars, registry, started, loopVars, history>>
      BY <2>9 DEF Unlock
    <3>2. Driven(b) /\ Booted
      BY <2>1, <2>3, <3>1 DEF Booted, Up, SchedulerInv, TypeOK, Threads
    <3>3. registry[b] # NoLoop
      BY <2>4, <3>1, <3>2 DEF Once
    <3>4. tpc'[Main] # "serving" => clock = bootedAt
      BY <2>2, <3>1, <3>2 DEF Watched, SchedulerInv, TypeOK, Threads
    <3> QED
      BY <2>2, <3>1, <3>2, <3>3, <3>4, WatchBystander
  <2>10. ASSUME NEW t \in Threads, NEW c \in Bindings, AddLoop(t, c)
         PROVE  Watched(b)'
    <3>1. NewLoop \in Loops /\ ~Registered(NewLoop)
      BY <2>10 DEF AddLoop, NewLoop, Unused
    <3>2. PICK l \in Loops : l = NewLoop
      BY <3>1
    <3>3. /\ registry[c] = NoLoop
          /\ registry' = [registry EXCEPT ![c] = l]
          /\ stop' = [stop EXCEPT ![l] = FALSE]
          /\ lastKey' = [lastKey EXCEPT ![l] = NoKey]
          /\ lpc' = [lpc EXCEPT ![l] = Created]
          /\ due' = [due EXCEPT ![l] = 0]
          /\ UNCHANGED <<clock, configVars, started, threadVars, history>>
      BY <2>10, <3>2 DEF AddLoop
    <3>4. Driven(b) /\ Booted
      BY <2>1, <2>3, <3>3 DEF Booted, Up
    <3>5. CASE c = b
      <4>1. tpc[Main] # "serving" /\ tpc[Main] # "list" /\ clock = bootedAt /\ Created = "check"
        BY <2>2, <3>3, <3>4, <3>5 DEF Watched, WatchInv, Created
      <4>2. clock \in Nat /\ Poll \in Nat \ {0} /\ MaxRun \in Nat /\ Fires[CronOf(b)] \subseteq Nat
        BY <3>4, FiresAssumption, TimingAssumption DEF SchedulerInv, TypeOK, Driven, MayTrade, Driver
      <4>3. PICK s \in Int : s = clock - 1
        BY <4>2
      <4>4. /\ Alive(l)' /\ ~stop'[l] /\ lastKey'[l] = NoKey /\ registry'[b] = l
            /\ lpc'[l] = "check"
        BY <3>3, <3>5, <4>1 DEF Alive, SchedulerInv, TypeOK
      <4>5. RunUpTo(b, s)' /\ (s <= clock)' /\ LooksAgain(l, s)'
        BY <2>3, <3>3, <4>1, <4>2, <4>3, <4>4 DEF RunUpTo, LooksAgain
      <4>6. Watching(b, l)'
        BY <4>4, <4>5 DEF Watching
      <4>7. (registry[b])' = l /\ Watching(b, registry[b])'
        BY <4>4, <4>6 DEF Watching, Alive, LooksAgain
      <4> QED
        BY <3>3, <4>1, <4>7 DEF Watched
    <3>6. CASE c # b
      <4>1. registry'[b] = registry[b] /\ registry[b] # l
        BY <3>1, <3>2, <3>3, <3>6 DEF Registered, SchedulerInv, TypeOK
      <4>2. registry[b] # NoLoop => registry[b] \in Loops
        BY <2>4, <3>4
      <4>3. registry[b] # NoLoop =>
              UNCHANGED <<lpc[registry[b]], due[registry[b]], lastKey[registry[b]], stop[registry[b]]>>
        <5>1. DOMAIN lpc = Loops /\ DOMAIN due = Loops /\ DOMAIN lastKey = Loops /\ DOMAIN stop = Loops
          BY DEF SchedulerInv, TypeOK
        <5> QED
          BY <3>3, <4>1, <4>2, <5>1
      <4>4. Watching(b, registry[b])' \/ registry[b] = NoLoop
        <5>1. SUFFICES ASSUME registry[b] # NoLoop
                       PROVE  Watching(b, registry[b])'
          OBVIOUS
        <5>2. PICK m : m = registry[b]
          OBVIOUS
        <5>3. /\ Watching(b, m) /\ CronOf(b)' = CronOf(b) /\ registry'[b] = m
              /\ lpc'[m] = lpc[m] /\ due'[m] = due[m] /\ lastKey'[m] = lastKey[m] /\ stop'[m] = stop[m]
          BY <2>3, <2>4, <3>3, <3>4, <4>1, <4>3, <5>1, <5>2
        <5>4. Watching(b, m)'
          BY <3>3, <5>3 DEF Watching, Alive, RunUpTo, LooksAgain
        <5> QED
          BY <5>3, <5>4 DEF Watching, Alive, LooksAgain
      <4> QED
        BY <2>2, <3>3, <3>4, <4>1, <4>4 DEF Watched
    <3> QED
      BY <3>5, <3>6
  <2>11. ASSUME NEW l \in Loops, LoopStep(l)
         PROVE  Watched(b)'
    <3>1. UNCHANGED <<configVars, touched, tpc>>
      BY <2>11 DEF LoopStep, Check, Fire, Resolve, FinishRun, Wake
    <3>2. Driven(b) /\ Booted
      BY <2>1, <2>3, <3>1 DEF Booted, Up
    <3> QED
      BY <2>2, <2>4, <2>11, <3>2, OwnLoop, OtherLoop
  <2>12. ASSUME UNCHANGED <<clock, controls, breaks, registry, tpc, loopVars, history>>
         PROVE  Watched(b)'
    <3>1. Driven(b) /\ Booted
      BY <2>1, <2>3, <2>12 DEF Booted, Up
    <3> QED
      BY <2>2, <2>12, <3>1, WatchBystander DEF Watched
  <2>13. CASE AgentDone \/ UNCHANGED vars \/ \E c \in Bindings : AgentPlaces(c)
    BY <2>12, <2>13 DEF AgentDone, AgentPlaces
  <2>14. CASE HandEdit
    BY <2>1, <2>14 DEF HandEdit, Driven, SchedulerInv, TypeOK
  <2>15. CASE Tick
    <3>1. /\ clock' = clock + 1
          /\ tpc[Main] \in {"down", "serving", "stopping", "stopped"}
          /\ \A l \in Loops : /\ lpc[l] \in {"new", "dead", "wait", "trade"}
                              /\ lpc[l] \in {"wait", "trade"} => clock < due[l]
          /\ UNCHANGED <<configVars, runtimeVars, threadVars, loopVars, history>>
      BY <2>15 DEF Tick
    <3>2. Driven(b) /\ Booted
      BY <2>1, <2>3, <3>1 DEF Booted, Up
    <3>3. tpc[Main] = "serving" /\ registry[b] # NoLoop
      BY <2>2, <3>1, <3>2 DEF Watched, Booted, Up
    <3>4. PICK l \in Loops : l = registry[b] /\ Watching(b, l)
      BY <2>4, <3>2, <3>3
    <3>5. PICK s \in Int : s <= clock /\ RunUpTo(b, s) /\ LooksAgain(l, s)
      BY <3>4 DEF Watching
    <3>6. lpc[l] \in {"wait", "trade"} /\ clock < due[l] /\ clock \in Nat /\ due[l] \in Nat
      BY <3>1, <3>4 DEF Watching, Alive, SchedulerInv, TypeOK
    <3>7. RunUpTo(b, s)' /\ (s <= clock)' /\ LooksAgain(l, s)'
      BY <2>3, <3>1, <3>5, <3>6 DEF RunUpTo, LooksAgain
    <3>8. Watching(b, l)'
      BY <3>1, <3>4, <3>7 DEF Watching, Alive
    <3> QED
      BY <3>1, <3>3, <3>4, <3>8 DEF Watched
  <2>16. CASE Boot
    BY <2>16 DEF Boot, Watched, SchedulerInv, RegistryInv, TypeOK, Threads
  <2>17. CASE StartLoops
    <3>1. /\ tpc[Main] = "list" /\ tpc' = [tpc EXCEPT ![Main] = "serving"]
          /\ \A l \in Loops : Alive(l) => lpc'[l] = lpc[l] /\ stop'[l] = stop[l]
          /\ UNCHANGED <<clock, configVars, runtimeVars, lastKey, runVars, history>>
      BY <2>17 DEF StartLoops, SchedulerInv, TypeOK
    <3>2. Driven(b) /\ Booted
      BY <2>3, <3>1 DEF Booted, Up
    <3>3. registry[b] # NoLoop /\ registry[b] \in Loops /\ Alive(registry[b])
      BY <2>2, <2>4, <3>1, <3>2 DEF Watched, Watching
    <3>4. tpc'[Main] = "serving"
      BY <3>1 DEF SchedulerInv, TypeOK, Threads
    <3> QED
      BY <2>2, <3>1, <3>2, <3>3, <3>4, WatchBystander
  <2>18. CASE StopRuntime \/ StopLoops \/ Exit
    BY <2>1, <2>18 DEF StopRuntime, StopLoops, Exit, Booted, Up, SchedulerInv, TypeOK, Threads
  <2> QED
    BY <2>5, <2>6, <2>7, <2>8, <2>9, <2>10, <2>11, <2>13, <2>14, <2>15, <2>16, <2>17, <2>18
       DEF Next, ReconcileStep, Lifespan
<1> QED
  BY <1>1, <1>2, <1>3 DEF WatchInv

\* "GRACE_MINUTES is the slack that keeps a slow tick from missing its own fire time entirely"
\* (bot_runtime.py:202-203): it does when it covers a poll and the longest run, and when no two fires
\* of a schedule are closer than these, since cron_fire_key knows only the latest.
THEOREM NoFireMissed ==
    ASSUME GraceCovers
    PROVE  Spec => []NoMissedFire
<1>1. ASSUME SchedulerInv, WatchInv
      PROVE  NoMissedFire
  <2>1. SUFFICES ASSUME NEW b \in Bindings, Serving, touched[b] = {}, MayTrade(b, "schedule"), breaks = 0,
                        NEW f \in Fires[CronOf(b)], bootedAt <= f, f + Grace < clock
                 PROVE  f \in ran[b]
    BY DEF NoMissedFire
  <2>2. Watching(b, registry[b])
    BY <1>1, <2>1 DEF WatchInv, Watched, Driven, Booted, Serving, Up
  <2>3. PICK s \in Int : s <= clock /\ RunUpTo(b, s) /\ LooksAgain(registry[b], s)
    BY <2>2 DEF Watching
  <2>4. /\ clock \in Nat /\ Grace \in Nat /\ Poll \in Nat /\ MaxRun \in Nat /\ f \in Nat
        /\ registry[b] \in Loops /\ due[registry[b]] \in Nat
    BY <1>1, <2>1, FiresAssumption, TimingAssumption, NamesAssumption
       DEF SchedulerInv, TypeOK, WatchInv, Watched, Driven, Booted, Serving, Up, MayTrade, Driver
  <2>5. clock <= s + Poll + MaxRun
    BY <1>1, <2>2, <2>3, <2>4 DEF Watching, Alive, LooksAgain, SchedulerInv, TypeOK
  <2>6. f <= s
    BY <2>1, <2>3, <2>4, <2>5 DEF GraceCovers
  <2> QED
    BY <2>1, <2>3, <2>6 DEF RunUpTo
<1> QED
  BY InitInv, InvStep, InitOnce, OnceStep, InitWatch, WatchStep, <1>1, PTL DEF Spec

=============================================================================
