---------------------------- MODULE RallyRotation ----------------------------
(***************************************************************************)
(* Rally Rotation: ranks a universe on daily bars, holds the best names    *)
(* and parks the rest in a defensive sleeve.  Its memory counts market     *)
(* days and not runs: a window of days per name, which a name has to rank  *)
(* in before it may be bought, and the day of the last re-ranking, before  *)
(* which the book may only shrink.  A run plans from what it holds, places *)
(* its orders, of which any may fail, and then saves its memory; it may    *)
(* die before that.  Scores and volatilities are floating point over bars: *)
(* each run is given any judgement of each name the gates tell apart.      *)
(* Weights are whole units of the account's equity.                        *)
(***************************************************************************)
EXTENDS Integers, Sequences, FiniteSets, FiniteSetsExt, SequencesExt, Functions, Folds, TLC

CONSTANTS
  RiskOn,        \* the risk-on universe, in its order, without the defensive names
  Defensive,     \* the defensive names
  Foreign,       \* names of neither that the account may hold
  Markets,       \* what a run may find of the risk-on names
  Books,         \* what the account may hold when the algorithm is switched on
  Gross,         \* risk_on_gross_max, in units of weight
  Slots,         \* max_positions
  DefensiveSlots,  \* defensive_max_positions
  EntryRank,     \* entry_rank_max
  ExitRank,      \* exit_rank_max
  Delta,         \* min_score_delta_to_replace
  Interval,      \* rerank_interval_days
  Window,        \* eligibility_window
  MinDays,       \* entry_min_eligible_days
  Threshold,     \* rebalance_weight_threshold
  Notional,      \* minimum_trade_notional, as a weight
  Drift,         \* by how much a price moves a weight over a night
  FirstDay,      \* weekday of day 0, 0 for Monday
  MaxDay         \* bound: days

None == -1   \* no day

RiskNames == ToSet(RiskOn)
Symbols   == RiskNames \cup Defensive \cup Foreign

\* The defensive names are taken out of the rows that are rotated, and the
\* account is not short of anything.
ASSUME RallyAssumption ==
  /\ Gross \in Nat \ {0} /\ Slots \in Nat /\ EntryRank \in Nat /\ ExitRank \in Nat
  /\ Window \in Nat \ {0} /\ FirstDay \in 0..6 /\ MinDays \in Int
  /\ Interval \in Int /\ Drift \in Int
  /\ IsFiniteSet(Defensive) /\ IsFiniteSet(Foreign)
  /\ RiskOn \in Seq(RiskNames) /\ RiskNames \cap Defensive = {}
  /\ \A m \in Markets : \A s \in RiskNames :
       m[s].history \in BOOLEAN /\ m[s].eligible \in BOOLEAN /\ m[s].score \in Int
  /\ \A book \in Books : \A s \in DOMAIN book : book[s] \in Nat

VARIABLES
  day,       \* the calendar day
  weight,    \* what the account holds, by name
  history,   \* ranked_top_history: per name, the days recorded, 1 when ranked at the top
  ranked,    \* last_rerank_day
  plan,      \* the run under way
  seen,      \* for the properties: the days each name was at the top in a run that was saved
  grew       \* for the properties: the last day a saved re-ranking bought a risk name

memory == <<history, ranked>>
vars   == <<day, weight, history, ranked, plan, seen, grew>>

NoPlan == [pc |-> "idle"]
Empty  == [d \in {} |-> 0]

Init == /\ day = 0
        /\ \E book \in Books : weight = [s \in Symbols |-> IF s \in DOMAIN book THEN book[s] ELSE 0]
        /\ history = [s \in RiskNames |-> Empty]
        /\ ranked = None /\ grew = None
        /\ plan = NoPlan
        /\ seen = [s \in RiskNames |-> {}]

-----------------------------------------------------------------------------
(* Days.                                                                   *)

IsWeekday(d) == (d + FirstDay) % 7 < 5

\* Weekdays after the given day up to now stand for sessions.
SessionsSince(last) == Cardinality({d \in (last + 1)..day : IsWeekday(d)})

\* A mutant of Due: any other run.
DueNextDay == Interval = 0 \/ ranked = None \/ day > ranked

\* A cold clock is due.
Due == Interval = 0 \/ ranked = None \/ SessionsSince(ranked) >= Interval

-----------------------------------------------------------------------------
(* Pass one: ranks and the defensive book.                                 *)

Position(s) == CHOOSE i \in DOMAIN RiskOn : RiskOn[i] = s

\* s comes before t in the order by score; ties keep the universe's order.
Before(m, s, t) == m[s].score > m[t].score \/ (m[s].score = m[t].score /\ Position(s) < Position(t))

\* The place of a name in the order by score of a set of names.
RankIn(m, names, s) == Cardinality({t \in names : Before(m, t, s)}) + 1

EntryChecks(m, s) == m[s].history /\ m[s].eligible

Eligible(m) == {s \in RiskNames : EntryChecks(m, s)}

\* Too little history over the universe is not a bear market.
UniverseDataOk(m) ==
  LET usable == {s \in RiskNames : m[s].history}
  IN  usable # {} /\ 2 * Cardinality(usable) >= Cardinality(RiskNames)

\* The defensive book, of whichever names lead today.
DefensiveBook(leaders) ==
  [s \in Symbols |-> IF s \in leaders THEN Gross \div Cardinality(leaders) ELSE 0]

-----------------------------------------------------------------------------
(* Memory: one observation per name and day, the last run's.               *)

Latest(days) == {d \in days : Cardinality({e \in days : e > d}) < Window}

\* A mutant of Track: every run counts as a day of its own.
TrackRuns(past, value) ==
  LET days == IF day \in DOMAIN past THEN DOMAIN past \cup {1 - Cardinality(DOMAIN past)}
              ELSE DOMAIN past \cup {day}
  IN  [d \in days |-> IF d \in DOMAIN past THEN past[d] ELSE value]

Track(past, value) ==
  LET days == Latest(DOMAIN past \cup {day})
  IN  [d \in days |-> IF d = day THEN value ELSE past[d]]

TrackRanking(m) ==
  [s \in RiskNames |->
     Track(history[s], IF s \in Eligible(m) /\ RankIn(m, Eligible(m), s) <= EntryRank THEN 1 ELSE 0)]

QualifyingDays(series) == Cardinality({d \in DOMAIN series : series[d] = 1})

-----------------------------------------------------------------------------
(* Pass two: the selection.                                                *)

CrashStop(m, s) == s \in RiskNames /\ m[s].crash

\* Everything selectable: a holding that is eligible, or a name that scores at
\* least the median and has been at the top for long enough.
MayEnter(m, h, s) == m[s].score >= 0 /\ QualifyingDays(h[s]) >= MinDays

Candidates(m, keep, h) == {s \in Eligible(m) : s \in keep \/ MayEnter(m, h, s)}

Weakest(m, names) == CHOOSE s \in names : \A t \in names : m[s].score <= m[t].score

Best(m, names, n) == {s \in names : Cardinality({t \in names : Before(m, t, s)}) < n}

\* The one no other comes after.
Lowest(m, names) == CHOOSE s \in names : \A t \in names : ~Before(m, s, t)

\* A challenger that is ahead by the margin displaces the weakest.
Challenge(m, c, sel) ==
  IF c \in sel \/ sel = {} \/ m[c].score <= m[Weakest(m, sel)].score + Delta THEN sel
  ELSE (sel \ {Weakest(m, sel)}) \cup {c}

\* Keep what still ranks, fill the free slots, then let the others challenge,
\* the best of them first.
ResolvePositions(m, held, candidates) ==
  LET rank(s)    == RankIn(m, candidates, s)
      kept       == {s \in held \cap candidates : rank(s) <= ExitRank}
      contenders == {s \in candidates \ kept : rank(s) <= EntryRank}
      free       == IF Slots > Cardinality(kept) THEN Slots - Cardinality(kept) ELSE 0
      filled     == kept \cup Best(m, contenders, free)
      in_turn    == MapThenFoldSet(LAMBDA c, sel : Challenge(m, c, sel), filled, LAMBDA c : c,
                                   LAMBDA names : Lowest(m, names), contenders)
  IN  Best(m, in_turn, Slots)

-----------------------------------------------------------------------------
(* Sizing.                                                                 *)

Excess(m, s) == IF m[s].score > 0 THEN m[s].score ELSE 0

\* The gross in proportion to score; equal shares when every score is nil.
ScoreToWeights(m, chosen) ==
  LET share == [s \in Symbols |-> IF s \in chosen THEN Excess(m, s) ELSE 0]
      total == SumFunction(share)
  IN  [s \in Symbols |->
         IF total # 0 THEN (Gross * share[s]) \div total
         ELSE IF s \in chosen THEN Gross \div Cardinality(chosen) ELSE 0]

\* What the risk names leave goes to the defensive book.
ParkResidual(w, book) ==
  LET residual == Gross - SumFunction(w)
      total    == SumFunction(book)
  IN  IF residual <= 0 \/ total = 0 THEN w
      ELSE [s \in Symbols |-> w[s] + (residual * book[s]) \div total]

Abs(x) == IF x < 0 THEN -x ELSE x

\* A trade too small to be worth it keeps the weight; leaving is never too small
\* for the threshold.
TooSmall(target, s) ==
  LET move    == Abs(target[s] - weight[s])
      closing == target[s] <= 0 /\ weight[s] > 0
  IN  (~closing /\ move < Threshold) \/ move < Notional

\* A mutant of FitToBudget: nothing is given back.
FitToNothing(filtered, target) == filtered

\* What the kept weights borrow from the budget is taken off the increases.
FitToBudget(filtered, target) ==
  LET excess    == SumFunction(filtered) - SumFunction(target)
      rise      == [s \in Symbols |-> IF filtered[s] > weight[s] THEN filtered[s] - weight[s] ELSE 0]
      total     == SumFunction(rise)
      grown(s)  == (rise[s] * (IF total > excess THEN total - excess ELSE 0)) \div total
  IN  IF excess <= 0 \/ total = 0 THEN filtered
      ELSE [s \in Symbols |->
              IF rise[s] = 0 THEN filtered[s]
              ELSE IF grown(s) < Notional THEN weight[s]
              ELSE weight[s] + grown(s)]

Settle(target) ==
  FitToBudget([s \in Symbols |-> IF TooSmall(target, s) THEN weight[s] ELSE target[s]], target)

-----------------------------------------------------------------------------
(* A run.                                                                  *)

Held == {s \in Symbols : weight[s] > 0}

\* What may stay: the risk holdings that did not crash today.
Keep(m) == {s \in Held \ Defensive : ~CrashStop(m, s)}

\* Before the interval is over everything stays but what was stopped.
Survivors(keep) == [s \in Symbols |-> IF s \in keep THEN weight[s] ELSE 0]

OrElseBook(w, book) == IF \A s \in Symbols : w[s] = 0 THEN book ELSE w

\* The run reads what is held and what was saved, and decides.  Nothing is
\* written: the memory it proposes rides on the plan.
Plan == /\ plan = NoPlan /\ IsWeekday(day)
        /\ \E m \in Markets : \E leaders \in kSubset(DefensiveSlots, Defensive) :
             LET book   == DefensiveBook(leaders)
                 rows   == TrackRanking(m)
                 chosen == ResolvePositions(m, Keep(m), Candidates(m, Keep(m), rows))
                 risk   == IF Due THEN ScoreToWeights(m, chosen) ELSE Survivors(Keep(m))
                 target == IF UniverseDataOk(m) THEN OrElseBook(ParkResidual(risk, book), book)
                           ELSE book
             IN plan' = [pc      |-> "planned",
                         market  |-> m,
                         usable  |-> UniverseDataOk(m),
                         due     |-> Due,
                         bought  |-> FALSE,
                         chosen  |-> IF UniverseDataOk(m) /\ Due THEN chosen ELSE {},
                         budget  |-> SumFunction(target),
                         target  |-> Settle(target),
                         history |-> IF UniverseDataOk(m) THEN rows ELSE history,
                         ranked  |-> IF UniverseDataOk(m) /\ Due THEN day ELSE ranked]
        /\ UNCHANGED <<day, weight, memory, seen, grew>>

\* Any of the orders may be rejected; funds bound what goes through.
PlaceOrders == /\ plan.pc = "planned"
               /\ \E filled \in SUBSET {s \in Symbols : plan.target[s] # weight[s]} :
                    /\ weight' = [s \in Symbols |-> IF s \in filled THEN plan.target[s] ELSE weight[s]]
                    /\ SumFunction(weight') <= Gross
                    /\ plan' = [plan EXCEPT !.pc = "placed", !.bought =
                         \E s \in filled \cap RiskNames : plan.target[s] > weight[s]]
               /\ UNCHANGED <<day, memory, seen, grew>>

\* The memory is saved whatever became of the orders.
Commit == /\ plan.pc = "placed"
          /\ history' = plan.history /\ ranked' = plan.ranked
          /\ seen' = [s \in RiskNames |->
               IF ~plan.usable THEN seen[s]
               ELSE IF plan.history[s][day] = 1 THEN seen[s] \cup {day} ELSE seen[s] \ {day}]
          /\ grew' = IF plan.bought THEN day ELSE grew
          /\ plan' = NoPlan
          /\ UNCHANGED <<day, weight>>

\* The run fails to place, or the process dies before it has saved.
Abandon == /\ plan # NoPlan /\ plan' = NoPlan
           /\ UNCHANGED <<day, weight, memory, seen, grew>>

\* A night: one price moves.
NewDay == /\ plan = NoPlan /\ day < MaxDay
          /\ day' = day + 1
          /\ \E s \in RiskNames : \E d \in {0, Drift, -Drift} :
               /\ weight' = [weight EXCEPT ![s] = IF @ + d > 0 /\ @ > 0 THEN @ + d ELSE @]
               /\ SumFunction(weight') <= Gross
          /\ UNCHANGED <<memory, plan, seen, grew>>

Next == Plan \/ PlaceOrders \/ Commit \/ Abandon \/ NewDay

Spec == Init /\ [][Next]_vars

-----------------------------------------------------------------------------
(* Properties.                                                             *)

Planned  == plan.pc = "planned"

\* A name is bought only after it ranked at the top on enough days, however often
\* the schedule fires and whatever runs died before saving (memory.py, _track).
SettledBeforeEntry ==
  Planned => \A s \in RiskNames : weight[s] = 0 /\ plan.target[s] > 0 =>
    Cardinality((seen[s] \ {day}) \cup (IF plan.history[s][day] = 1 THEN {day} ELSE {})) >= MinDays

\* Two sessions on which the book buys risk names are the interval apart: in
\* between it may only shrink (algorithm.py, _hold_or_rotate; memory.py, action_due).
\* Purchases whose run was saved count: one that dies between its orders and its
\* memory leaves the old clock behind, and the next run may buy again.
GrowthIsPaced ==
  plan.pc = "placed" /\ plan.bought /\ grew # None => SessionsSince(grew) >= Interval

\* A plan asks for no more than the book has, or buys nothing: what the small
\* moves that are not made would have freed is taken off the purchases
\* (sizing.py, _fit_to_budget).
PlanFundable ==
  Planned => \/ SumFunction(plan.target) <= plan.budget /\ plan.budget <= Gross
             \/ \A s \in Symbols : plan.target[s] <= weight[s]

=============================================================================
