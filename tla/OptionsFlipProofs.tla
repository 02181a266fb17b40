------------------------- MODULE OptionsFlipProofs -------------------------
(***************************************************************************)
(* Proofs about one symbol of Options Flip: what a bid may cost, what an   *)
(* ask gives up, and when a position is out.                               *)
(***************************************************************************)
EXTENDS OptionsFlip, FiniteSetTheorems, TLAPS

-----------------------------------------------------------------------------
(* Choices *)

\* A set of subsets of a finite set has a least one.
LEMMA LeastSubset ==
    ASSUME NEW S, IsFiniteSet(S), NEW Bad \in SUBSET SUBSET S, Bad # {}
    PROVE  \E T \in Bad : \A U \in Bad : U \subseteq T => U = T
<1>1. FiniteSubsetsOf(S) = SUBSET S
  BY FS_FiniteSubsetsOfFinite
<1>2. PICK T \in Bad : \A U \in Bad : ~(<<U, T>> \in StrictSubsetOrdering(S))
  BY <1>1, FS_StrictSubsetOrderingWellFounded, WFMin
<1>3. ASSUME NEW U \in Bad, U \subseteq T, U # T
      PROVE  FALSE
  <2>1. <<U, T>> \in StrictSubsetOrdering(S)
    BY <1>3 DEF StrictSubsetOrdering
  <2> QED
    BY <1>2, <2>1
<1> QED
  BY <1>3

\* An order in which any two members compare has a first member.
LEMMA FirstExists ==
    ASSUME NEW S, IsFiniteSet(S), S # {}, NEW R,
           \A x, y \in S : <<x, y>> \in R \/ <<y, x>> \in R,
           \A x, y, z \in S : <<x, y>> \in R /\ <<y, z>> \in R => <<x, z>> \in R
    PROVE  \E x \in S : \A y \in S : <<x, y>> \in R
<1> DEFINE Bad == {T \in SUBSET S : T # {} /\ ~\E x \in T : \A y \in T : <<x, y>> \in R}
<1>1. SUFFICES ASSUME Bad # {}
               PROVE  FALSE
  OBVIOUS
<1>2. PICK T \in Bad : \A U \in Bad : U \subseteq T => U = T
  <2>1. Bad \in SUBSET SUBSET S
    OBVIOUS
  <2> HIDE DEF Bad
  <2> QED
    BY <1>1, <2>1, LeastSubset
<1>3. PICK x \in T : TRUE
  BY <1>2
<1> DEFINE U == T \ {x}
<1>4. U \in SUBSET S /\ U \subseteq T /\ U # T
  BY <1>2, <1>3
<1>5. CASE U = {}
  BY <1>2, <1>3, <1>5
<1>6. CASE U # {}
  <2>1. U \notin Bad
    BY <1>2, <1>4
  <2>2. PICK y \in U : \A z \in U : <<y, z>> \in R
    <3> HIDE DEF U
    <3> QED
      BY <1>4, <1>6, <2>1
  <2>3. x \in S /\ x \in T /\ y \in S /\ y \in T /\ <<x, x>> \in R /\ \A z \in T : z = x \/ z \in U
    BY <1>2, <1>3
  <2>4. \E first \in T : \A z \in T : <<first, z>> \in R
    <3> HIDE DEF U, Bad
    <3>1. CASE <<x, y>> \in R
      <4>1. \A z \in T : <<x, z>> \in R
        BY <1>4, <2>2, <2>3, <3>1
      <4> QED
        BY <2>3, <4>1
    <3>2. CASE <<y, x>> \in R
      BY <2>2, <2>3, <3>2
    <3> QED
      BY <2>3, <3>1, <3>2
  <2> QED
    BY <1>2, <2>4
<1> QED
  BY <1>5, <1>6

\* A set of numbers has a least and a greatest one.
LEMMA Extremes ==
    ASSUME NEW S \in SUBSET Int, IsFiniteSet(S), S # {}
    PROVE  /\ Least(S) \in S /\ \A y \in S : Least(S) <= y
           /\ Greatest(S) \in S /\ \A y \in S : y <= Greatest(S)
<1> DEFINE up == {p \in Int \X Int : p[1] <= p[2]}
           down == {p \in Int \X Int : p[2] <= p[1]}
<1>1. \E x \in S : \A y \in S : x <= y
  <2>1. /\ \A x, y \in S : <<x, y>> \in up \/ <<y, x>> \in up
        /\ \A x, y, z \in S : <<x, y>> \in up /\ <<y, z>> \in up => <<x, z>> \in up
        /\ \A x, y \in S : <<x, y>> \in up => x <= y
    OBVIOUS
  <2> HIDE DEF up
  <2> QED
    BY <2>1, FirstExists
<1>2. \E x \in S : \A y \in S : y <= x
  <2>1. /\ \A x, y \in S : <<x, y>> \in down \/ <<y, x>> \in down
        /\ \A x, y, z \in S : <<x, y>> \in down /\ <<y, z>> \in down => <<x, z>> \in down
        /\ \A x, y \in S : <<x, y>> \in down => y <= x
    OBVIOUS
  <2> HIDE DEF down
  <2> QED
    BY <2>1, FirstExists
<1> QED
  BY <1>1, <1>2 DEF Least, Greatest

\* What a function takes the members of a finite set to is finite.
LEMMA ImagesAreFinite ==
    ASSUME NEW S, IsFiniteSet(S), NEW f
    PROVE  IsFiniteSet({f[x] : x \in S})
<1> DEFINE T == {f[x] : x \in S}
           g == [x \in S |-> f[x]]
<1>1. g \in Surjection(S, T)
  BY DEF Surjection
<1> QED
  BY <1>1, FS_Surjection

-----------------------------------------------------------------------------
(* Levels *)

\* There is a value at every place.
LEMMA PlacesAreTaken ==
    ASSUME NEW X, IsFiniteSet(X), NEW field, \A x \in X : x[field] \in Int,
           NEW place \in Nat, place < Cardinality(X)
    PROVE  InOrder(X, field, place) \in Int
<1> DEFINE V == {x[field] : x \in X}
           upto(v) == {x \in X : x[field] <= v}
           under(v) == {x \in X : x[field] < v}
           late == {v \in V : Cardinality(upto(v)) > place}
<1>1. X # {} /\ V \in SUBSET Int /\ IsFiniteSet(V) /\ V # {}
  <2>1. X # {}
    BY FS_EmptySet
  <2>2. IsFiniteSet(V)
    <3> DEFINE f == [x \in X |-> x[field]]
    <3>1. V = {f[x] : x \in X}
      OBVIOUS
    <3> HIDE DEF f, V
    <3>2. IsFiniteSet({f[x] : x \in X})
      BY ImagesAreFinite
    <3> QED
      BY <3>1, <3>2
  <2> QED
    BY <2>1, <2>2
<1>2. \A v \in Int : /\ upto(v) \in SUBSET X /\ under(v) \in SUBSET X
                     /\ Cardinality(upto(v)) \in Nat /\ Cardinality(under(v)) \in Nat
  BY FS_Subset, FS_CardinalityType
<1>3. Greatest(V) \in late
  <2> DEFINE top == Greatest(V)
  <2>1. top \in V /\ \A y \in V : y <= top
    <3> HIDE DEF V
    <3> QED
      BY <1>1, Extremes
  <2> HIDE DEF top
  <2>2. upto(top) = X
    BY <2>1
  <2>3. Cardinality(upto(top)) > place
    <3> HIDE DEF upto
    <3> QED
      BY <2>2
  <2>4. top \in late
    BY <2>1, <2>3
  <2> QED
    BY <2>4 DEF top
<1>4. late \in SUBSET Int /\ late # {} /\ IsFiniteSet(late)
  BY <1>1, <1>3, FS_Subset
<1> DEFINE v == Least(late)
<1>5. v \in late /\ \A u \in late : v <= u
  BY <1>4, Extremes
<1>6. Cardinality(under(v)) <= place
  <2> DEFINE W == {u \in V : u < v}
  <2>1. CASE W = {}
    <3>1. \A x \in X : x[field] \in V
      OBVIOUS
    <3>2. under(v) = {}
      BY <2>1, <3>1
    <3>3. Cardinality({}) = 0
      BY FS_EmptySet
    <3> HIDE DEF under, v
    <3> QED
      BY <3>2, <3>3
  <2>2. CASE W # {}
    <3> DEFINE w == Greatest(W)
    <3>1. W \in SUBSET Int /\ IsFiniteSet(W)
      BY <1>1, FS_Subset
    <3>2. w \in W /\ \A u \in W : u <= w
      <4> HIDE DEF W
      <4> QED
        BY <2>2, <3>1, Extremes
    <3> HIDE DEF w
    <3>3. w \in V /\ w \in Int /\ v \in Int /\ w < v
      BY <1>1, <1>4, <1>5, <3>2
    <3>4. ASSUME NEW x \in X
          PROVE  x[field] < v <=> x[field] <= w
      <4>1. x[field] \in V /\ x[field] \in Int
        OBVIOUS
      <4>2. x[field] < v => x[field] \in W
        BY <4>1
      <4> HIDE DEF v, V, W
      <4> QED
        BY <3>2, <3>3, <4>1, <4>2
    <3>5. under(v) = upto(w)
      <4> HIDE DEF v
      <4> QED
        BY <3>4
    <3>6. w \notin late
      <4> HIDE DEF v, late
      <4> QED
        BY <1>4, <1>5, <3>3
    <3>7. ~(Cardinality(upto(w)) > place)
      <4> HIDE DEF upto, V
      <4> QED
        BY <3>3, <3>6
    <3>8. Cardinality(upto(w)) \in Nat
      BY <1>2, <3>3
    <3> HIDE DEF upto, under, v
    <3> QED
      BY <3>5, <3>7, <3>8
  <2> HIDE DEF W
  <2> QED
    BY <2>1, <2>2
<1>7. \E u \in V : /\ Cardinality({x \in X : x[field] < u}) <= place
                   /\ Cardinality({x \in X : x[field] <= u}) > place
  BY <1>5, <1>6
<1>8. InOrder(X, field, place) \in V
  BY <1>7 DEF InOrder
<1> QED
  BY <1>1, <1>8

LEMMA QuantilesAreWhole ==
    ASSUME NEW X, IsFiniteSet(X), X # {}, NEW field, \A x \in X : x[field] \in Int, NEW q \in 0..100
    PROVE  Quantile(X, field, q) \in Int
<1> DEFINE last == Cardinality(X) - 1
           place == (last * q) \div 100
<1>1. Cardinality(X) \in Nat /\ last \in Nat
  BY FS_CardinalityType, FS_EmptySet
<1>2. last * q \in Nat /\ last * q <= last * 100
  <2>1. \A a \in Nat : a * q \in Nat /\ a * q <= a * 100
    BY SMTT(30)
  <2> QED
    BY <1>1, <2>1
<1>3. place \in 0..last
  BY <1>1, <1>2
<1>4. Lower(place + 1, last) \in 0..last
  <2>1. place \in Int /\ place >= 0 /\ place <= last
    BY <1>1, <1>3
  <2> HIDE DEF place, last
  <2> QED
    BY <1>1, <2>1 DEF Lower
<1> DEFINE lo == InOrder(X, field, place)
           hi == InOrder(X, field, Lower(place + 1, last))
<1>5. lo \in Int /\ hi \in Int
  <2> HIDE DEF place
  <2> QED
    BY <1>1, <1>3, <1>4, PlacesAreTaken
<1>6. (last * q) % 100 \in Int
  BY <1>2
<1> DEFINE part == (last * q) % 100
<1>7. Quantile(X, field, q) = 100 * lo + part * (hi - lo)
  BY DEF Quantile
<1> HIDE DEF lo, hi, part, last, place
<1>8. \A a, b \in Int : a * b \in Int
  BY SMTT(30)
<1> QED
  BY <1>5, <1>6, <1>7, <1>8 DEF part

\* What the samples say is whole.
LEMMA SamplesAreWhole ==
    ASSUME NEW m \in Markets, NEW k \in Steps
    PROVE  LET X == Samples(m.sessions, k)
           IN  IsFiniteSet(X) /\ \A x \in X : x.dip \in Int /\ x.run \in Int
<1> DEFINE all == m.sessions
           from == IF Config.lookback > 0 THEN Higher(Len(all) - Config.lookback, 0) ELSE 0
           recent == SubSeq(all, from + 1, Len(all))
           complete == {i \in DOMAIN recent :
                          recent[i].after[k].at > 0 /\ i + Config.maxHold - 1 <= Len(recent)}
           sample(i) == [day |-> i, dip |-> recent[i].after[k].at - recent[i].after[k].low,
                         run |-> RunHigh(recent, i, k) - recent[i].after[k].at,
                         at |-> recent[i].after[k].at, open |-> recent[i].open]
<1>1. Samples(all, k) = {sample(i) : i \in complete}
  BY DEF Samples
<1>2. all \in Seq(Sessions) /\ Len(all) \in Nat
  BY MarketsAssumption
<1>3. from \in Nat
  BY <1>2, ConfigAssumption DEF Higher
<1>4. recent \in Seq(Sessions) /\ Len(recent) \in Nat /\ DOMAIN recent = 1..Len(recent)
  <2>1. \A i \in (from + 1)..Len(all) : all[i] \in Sessions
    BY <1>2, <1>3
  <2>2. recent \in Seq(Sessions)
    BY <1>2, <1>3, <2>1
  <2> HIDE DEF recent
  <2> QED
    BY <2>2
<1> HIDE DEF recent
<1>5. \A i \in DOMAIN recent : /\ recent[i].high \in Int
                               /\ recent[i].after[k].at \in Int /\ recent[i].after[k].low \in Int
                               /\ recent[i].after[k].high \in Int
  <2>1. TAKE i \in DOMAIN recent
  <2>2. recent[i] \in Sessions
    BY <1>4
  <2> QED
    BY <2>2 DEF Sessions
<1>6. \A i \in complete : RunHigh(recent, i, k) \in Int
  <2>1. TAKE i \in complete
  <2> DEFINE hold == i + 1 .. i + Config.maxHold - 1
             later == {recent[j].high : j \in hold}
             highs == {recent[i].after[k].high} \cup later
  <2>2. i \in 1..Len(recent) /\ i + Config.maxHold - 1 <= Len(recent) /\ Config.maxHold \in Nat
    BY <1>4, StepsAssumption
  <2>3. hold \in SUBSET DOMAIN recent /\ IsFiniteSet(hold)
    <3>1. i + 1 \in Int /\ i + Config.maxHold - 1 \in Int
      BY <2>2
    <3>2. IsFiniteSet(hold)
      BY <3>1, FS_Interval
    <3> QED
      BY <1>4, <2>2, <3>1, <3>2
  <2>4. later \in SUBSET Int /\ IsFiniteSet(later)
    <3>1. \A j \in hold : recent[j].high \in Int
      BY <1>5, <2>3
    <3> DEFINE f == [j \in hold |-> recent[j].high]
    <3>2. later = {f[j] : j \in hold}
      OBVIOUS
    <3> HIDE DEF f, hold
    <3>3. IsFiniteSet({f[j] : j \in hold})
      BY <2>3, ImagesAreFinite
    <3> QED
      BY <3>1, <3>2, <3>3
  <2>5. highs \in SUBSET Int /\ IsFiniteSet(highs) /\ highs # {}
    <3>1. recent[i].after[k].high \in Int
      BY <1>5
    <3>2. IsFiniteSet(highs)
      <4>1. IsFiniteSet(later \cup {recent[i].after[k].high})
        BY <2>4, FS_AddElement
      <4> HIDE DEF later
      <4> QED
        BY <4>1
    <3> QED
      BY <2>4, <3>1, <3>2
  <2>6. \E h \in highs : \A g \in highs : g <= h
    <3> HIDE DEF highs
    <3> QED
      BY <2>5, Extremes
  <2>7. RunHigh(recent, i, k) \in highs
    BY <2>6 DEF RunHigh
  <2> QED
    BY <2>5, <2>7
<1>7. IsFiniteSet({sample(i) : i \in complete})
  <2> DEFINE f == [i \in complete |-> sample(i)]
  <2>1. IsFiniteSet(complete)
    <3>1. IsFiniteSet(1..Len(recent))
      BY <1>4, FS_Interval
    <3>2. complete \in SUBSET (1..Len(recent))
      BY <1>4
    <3> HIDE DEF complete
    <3> QED
      BY <3>1, <3>2, FS_Subset
  <2> HIDE DEF complete, sample
  <2>2. {sample(i) : i \in complete} = {f[i] : i \in complete}
    OBVIOUS
  <2> HIDE DEF f
  <2>3. IsFiniteSet({f[i] : i \in complete})
    BY <2>1, ImagesAreFinite
  <2> QED
    BY <2>2, <2>3
<1>8. \A x \in {sample(i) : i \in complete} : x.dip \in Int /\ x.run \in Int
  BY <1>5, <1>6
<1> HIDE DEF sample, complete
<1> QED
  BY <1>1, <1>7, <1>8

\* The levels are whole, and there is none without a price.
LEMMA LevelsAreWhole ==
    ASSUME NEW m \in Markets, NEW k \in Steps
    PROVE  /\ Levels(m, k).entry \in Int /\ Levels(m, k).target \in Int
           /\ Levels(m, k).entry > 0 => m.price > 0
<1> DEFINE all == Samples(m.sessions, DecisionStep(k))
           open == SessionOpen(m)
           nearby == {x \in all : 100 * Distance(x.at * open, m.price * x.open) <= x.open * open}
           pool == IF Cardinality(nearby) >= Config.minBucket THEN nearby ELSE all
           kEntry == Quantile(pool, "dip", 100 - Config.entryReach)
           dipped == {x \in pool : 100 * x.dip >= kEntry}
           ran == IF Cardinality(dipped) >= Config.minBucket THEN dipped ELSE pool
           kTarget == Quantile(ran, "run", 100 - Config.targetReach)
           none == Atr(m) <= 0 \/ m.price <= 0 \/ all = {}
<1>1. Levels(m, k) = IF none THEN NoLevels
                     ELSE [entry |-> (100 * m.price - kEntry) \div 100,
                           target |-> (100 * m.price - kEntry + kTarget) \div 100]
  BY DEF Levels
<1>2. DecisionStep(k) \in Steps
  <2> DEFINE open_steps == {j \in Steps : InTime(j)}
  <2>1. Steps = 1..Len(Fractions) /\ Len(Fractions) \in Nat
    BY StepsAssumption DEF Steps
  <2>2. IsFiniteSet(open_steps) /\ open_steps \in SUBSET Int /\ open_steps # {}
    <3>1. IsFiniteSet(Steps)
      BY <2>1, FS_Interval
    <3>2. IsFiniteSet(open_steps)
      BY <3>1, FS_Subset
    <3> QED
      BY <2>1, <3>2, ConfigAssumption DEF InTime
  <2>3. \E j \in open_steps : \A i \in open_steps : i <= j
    <3> HIDE DEF open_steps
    <3> QED
      BY <2>2, Extremes
  <2> DEFINE last == CHOOSE j \in Steps : InTime(j) /\ \A i \in Steps : InTime(i) => i <= j
  <2>4. last \in Steps
    BY <2>3
  <2> HIDE DEF last, open_steps
  <2>5. Lower(k, last) \in {k, last}
    BY DEF Lower
  <2>6. DecisionStep(k) = Lower(k, last)
    BY DEF DecisionStep, last
  <2> QED
    BY <2>4, <2>5, <2>6
<1>3. IsFiniteSet(all) /\ \A x \in all : x["dip"] \in Int /\ x["run"] \in Int
  <2> DEFINE X == Samples(m.sessions, DecisionStep(k))
  <2>1. IsFiniteSet(X) /\ \A x \in X : x.dip \in Int /\ x.run \in Int
    BY <1>2, SamplesAreWhole
  <2> HIDE DEF X
  <2>2. IsFiniteSet(X) /\ \A x \in X : x["dip"] \in Int /\ x["run"] \in Int
    BY <2>1
  <2> QED
    BY <2>2 DEF X
<1> HIDE DEF all
<1>4. m.price \in Int /\ Config.minBucket \in Nat \ {0}
      /\ 100 - Config.entryReach \in 0..100 /\ 100 - Config.targetReach \in 0..100
  <2>1. m.price \in Int
    BY MarketsAssumption
  <2>2. Config.minBucket \in Nat \ {0}
    BY ConfigAssumption
  <2>3. Config.entryReach \in 0..100 /\ Config.targetReach \in 0..100
    BY ConfigAssumption
  <2> QED
    BY <2>1, <2>2, <2>3
<1>5. ASSUME NEW X \in SUBSET all, Cardinality(X) >= Config.minBucket
      PROVE  X # {}
  <2>1. Cardinality({}) = 0
    BY FS_EmptySet
  <2>2. ~(0 >= Config.minBucket)
    BY <1>4
  <2> QED
    BY <1>5, <2>1, <2>2
<1>6. CASE none
  BY <1>1, <1>6 DEF NoLevels
<1>7. CASE ~none
  <2>1. nearby \in SUBSET all
    OBVIOUS
  <2> HIDE DEF nearby
  <2>2. pool \in SUBSET all /\ pool # {}
    BY <1>5, <1>7, <2>1
  <2> HIDE DEF pool
  <2>3. IsFiniteSet(pool) /\ \A x \in pool : x["dip"] \in Int /\ x["run"] \in Int
    BY <1>3, <2>2, FS_Subset
  <2>4. kEntry \in Int
    BY <1>4, <2>2, <2>3, QuantilesAreWhole
  <2> HIDE DEF kEntry
  <2>5. dipped \in SUBSET pool
    OBVIOUS
  <2> HIDE DEF dipped
  <2>6. ran \in SUBSET pool /\ ran # {}
    BY <1>5, <2>2, <2>5
  <2> HIDE DEF ran
  <2>7. IsFiniteSet(ran) /\ \A x \in ran : x["run"] \in Int
    BY <2>3, <2>6, FS_Subset
  <2>8. kTarget \in Int
    BY <1>4, <2>6, <2>7, QuantilesAreWhole
  <2> HIDE DEF kTarget
  <2>9. Levels(m, k).entry \in Int /\ Levels(m, k).target \in Int
    BY <1>1, <1>4, <1>7, <2>4, <2>8
  <2>10. m.price > 0
    BY <1>4, <1>7
  <2> QED
    BY <2>9, <2>10
<1> QED
  BY <1>6, <1>7

-----------------------------------------------------------------------------
(* The contract and the bid *)

LEMMA Products ==
    /\ \A a, b \in Int : a * b \in Int
    /\ \A a, b \in Nat : a * b \in Nat
    /\ \A a, b, c \in Nat : a <= b => a * c <= b * c
BY SMTT(30)

\* The slack of a higher price or a wider spread is no less.
LEMMA SlackGrows ==
    ASSUME NEW a \in Int, NEW b \in Int, a <= b, NEW s \in Int, NEW t \in Int, s <= t
    PROVE  Slack(a, s) \in Int /\ Slack(b, t) \in Int /\ Slack(a, s) <= Slack(b, t)
BY DEF Slack, Higher

\* No spread is wider than the widest.
LEMMA WidestIsWidest ==
    /\ Widest \in Nat
    /\ \A m \in Markets : \A c \in m.chain : Higher(c.ask - c.bid, 0) <= Widest
<1> DEFINE quoted == UNION {m.chain : m \in Markets}
           spread == [c \in quoted |-> Higher(c.ask - c.bid, 0)]
           spreads == {Higher(c.ask - c.bid, 0) : c \in quoted}
<1>1. IsFiniteSet(quoted) /\ quoted # {} /\ quoted \in SUBSET Contracts
  BY MarketsAssumption
<1>2. \A c \in quoted : Higher(c.ask - c.bid, 0) \in Nat
  <2>1. TAKE c \in quoted
  <2>2. c \in Contracts
    BY <1>1
  <2>3. c.ask \in Int /\ c.bid \in Int
    BY <2>2 DEF Contracts
  <2> QED
    BY <2>3 DEF Higher
<1> HIDE DEF quoted
<1>3. spreads = {spread[c] : c \in quoted}
  OBVIOUS
<1>4. IsFiniteSet(spreads) /\ spreads # {} /\ spreads \in SUBSET Nat
  <2> HIDE DEF spread
  <2>1. IsFiniteSet({spread[c] : c \in quoted})
    BY <1>1, ImagesAreFinite
  <2>2. spreads # {} /\ spreads \in SUBSET Nat
    BY <1>1, <1>2
  <2> QED
    BY <1>3, <2>1, <2>2
<1>5. \A c \in quoted : Higher(c.ask - c.bid, 0) \in spreads
  OBVIOUS
<1>6. Widest = CHOOSE s \in spreads : \A t \in spreads : t <= s
  BY DEF Widest, quoted
<1> HIDE DEF spreads
<1>7. \E s \in spreads : \A t \in spreads : t <= s
  <2>1. spreads \in SUBSET Int
    BY <1>4
  <2> QED
    BY <1>4, <2>1, Extremes
<1>8. Widest \in spreads /\ \A t \in spreads : t <= Widest
  BY <1>6, <1>7
<1> QED
  BY <1>4, <1>5, <1>8 DEF quoted

\* A contract is considered at its quotes, whoever computed its delta.
LEMMA PricedAsQuoted ==
    ASSUME NEW m \in Markets
    PROVE  /\ IsFiniteSet(Priced(m))
           /\ \A c \in Priced(m) : c \in Contracts /\ \E q \in m.chain : c.bid = q.bid /\ c.ask = q.ask
<1> DEFINE modelled == [c \in m.chain |-> [c EXCEPT !.delta = c.model]]
<1>1. m.chain \in SUBSET Contracts
  BY MarketsAssumption
<1>2. IsFiniteSet(m.chain)
  BY MarketsAssumption, FS_Subset
<1>3. CASE Priced(m) = m.chain
  BY <1>1, <1>2, <1>3
<1>4. CASE Priced(m) = {[c EXCEPT !.delta = c.model] : c \in m.chain}
  <2>1. \A q \in m.chain : LET c == [q EXCEPT !.delta = q.model]
                           IN  c \in Contracts /\ c.bid = q.bid /\ c.ask = q.ask
    BY <1>1 DEF Contracts
  <2>2. Priced(m) = {modelled[c] : c \in m.chain}
    BY <1>4
  <2>3. IsFiniteSet({modelled[c] : c \in m.chain})
    <3> HIDE DEF modelled
    <3> QED
      BY <1>2, ImagesAreFinite
  <2> HIDE DEF modelled
  <2> QED
    BY <1>4, <2>1, <2>2, <2>3
<1> QED
  BY <1>3, <1>4 DEF Priced

\* The contract a run chooses is one of those it may trade.
LEMMA ChosenIsTradable ==
    ASSUME NEW m \in Markets, NEW d \in Nat, Chosen(m, d) # NoContract
    PROVE  Chosen(m, d) \in Priced(m) /\ Tradable(Chosen(m, d), d)
<1> DEFINE tradable == {c \in Priced(m) : Tradable(c, d)}
           expiries == {x.expiry : x \in tradable}
           nearest == {c \in tradable : c.expiry = Least(expiries)}
           bucket(c) == (2 * Off(c) + Config.deltaBucket) \div (2 * Config.deltaBucket)
<1>1. tradable # {} /\ Chosen(m, d) = CHOOSE c \in nearest : \A x \in nearest : Better(c, x)
  BY DEF Chosen
<1>2. IsFiniteSet(tradable) /\ tradable \in SUBSET Contracts
  <2>1. tradable \in SUBSET Priced(m)
    OBVIOUS
  <2> HIDE DEF tradable
  <2> QED
    BY <2>1, PricedAsQuoted, FS_Subset
<1>3. \A c \in Contracts : bucket(c) \in Int /\ c.volume \in Int /\ c.interest \in Int /\ c.expiry \in Int
  <2>1. TAKE c \in Contracts
  <2>2. c.delta \in Int /\ c.volume \in Int /\ c.interest \in Int /\ c.expiry \in Int
    BY DEF Contracts
  <2>3. Off(c) \in Int
    BY <2>2, ConfigAssumption DEF Off, Distance, Higher, Lower
  <2>4. 2 * Config.deltaBucket \in Nat \ {0} /\ 2 * Off(c) + Config.deltaBucket \in Int
    BY <2>3, ConfigAssumption
  <2> QED
    BY <2>2, <2>4
<1> HIDE DEF tradable
<1>4. nearest # {} /\ nearest \in SUBSET tradable
  <2> DEFINE when == [x \in tradable |-> x.expiry]
  <2>1. expiries = {when[x] : x \in tradable}
    OBVIOUS
  <2>2. IsFiniteSet({when[x] : x \in tradable})
    <3> HIDE DEF when
    <3> QED
      BY <1>2, ImagesAreFinite
  <2>3. expiries \in SUBSET Int /\ expiries # {}
    BY <1>1, <1>2, <1>3
  <2> HIDE DEF when
  <2>4. Least(expiries) \in expiries
    <3> HIDE DEF expiries
    <3> QED
      BY <2>1, <2>2, <2>3, Extremes
  <2> QED
    BY <2>4
<1>5. IsFiniteSet(nearest) /\ nearest \in SUBSET Contracts
  <2> HIDE DEF nearest
  <2> QED
    BY <1>2, <1>4, FS_Subset
<1> HIDE DEF nearest, bucket
<1>6. \E c \in nearest : \A x \in nearest : Better(c, x)
  <2> DEFINE R == {p \in nearest \X nearest : Better(p[1], p[2])}
  <2>1. \A c, x \in nearest : /\ bucket(c) \in Int /\ c.volume \in Int /\ c.interest \in Int
                              /\ <<c, x>> \in R <=>
                                   \/ bucket(c) < bucket(x)
                                   \/ bucket(c) = bucket(x) /\ c.volume > x.volume
                                   \/ bucket(c) = bucket(x) /\ c.volume = x.volume /\ c.interest >= x.interest
    BY <1>3, <1>5 DEF Better, bucket
  <2>2. \A c, x \in nearest : Better(c, x) <=> <<c, x>> \in R
    OBVIOUS
  <2> HIDE DEF R
  <2>3. ASSUME NEW c \in nearest, NEW x \in nearest
        PROVE  <<c, x>> \in R \/ <<x, c>> \in R
    <3> DEFINE a == bucket(c)
               b == bucket(x)
    <3>1. /\ a \in Int /\ c.volume \in Int /\ c.interest \in Int
          /\ b \in Int /\ x.volume \in Int /\ x.interest \in Int
      BY <2>1
    <3>2. <<c, x>> \in R <=> \/ a < b
                             \/ a = b /\ c.volume > x.volume
                             \/ a = b /\ c.volume = x.volume /\ c.interest >= x.interest
      BY <2>1
    <3>3. <<x, c>> \in R <=> \/ b < a
                             \/ b = a /\ x.volume > c.volume
                             \/ b = a /\ x.volume = c.volume /\ x.interest >= c.interest
      BY <2>1
    <3> HIDE DEF a, b
    <3> QED
      BY <3>1, <3>2, <3>3
  <2>4. ASSUME NEW c \in nearest, NEW x \in nearest, NEW y \in nearest, <<c, x>> \in R, <<x, y>> \in R
        PROVE  <<c, y>> \in R
    <3> DEFINE a == bucket(c)
               b == bucket(x)
               e == bucket(y)
    <3>1. /\ a \in Int /\ c.volume \in Int /\ c.interest \in Int
          /\ b \in Int /\ x.volume \in Int /\ x.interest \in Int
          /\ e \in Int /\ y.volume \in Int /\ y.interest \in Int
      BY <2>1
    <3>2. \/ a < b
          \/ a = b /\ c.volume > x.volume
          \/ a = b /\ c.volume = x.volume /\ c.interest >= x.interest
      BY <2>1, <2>4
    <3>3. \/ b < e
          \/ b = e /\ x.volume > y.volume
          \/ b = e /\ x.volume = y.volume /\ x.interest >= y.interest
      BY <2>1, <2>4
    <3>4. <<c, y>> \in R <=> \/ a < e
                             \/ a = e /\ c.volume > y.volume
                             \/ a = e /\ c.volume = y.volume /\ c.interest >= y.interest
      BY <2>1
    <3> HIDE DEF a, b, e
    <3> QED
      BY <3>1, <3>2, <3>3, <3>4
  <2>5. \E c \in nearest : \A x \in nearest : <<c, x>> \in R
    BY <1>4, <1>5, <2>3, <2>4, FirstExists
  <2> QED
    BY <2>2, <2>5
<1>7. Chosen(m, d) \in nearest
  BY <1>1, <1>6
<1> QED
  BY <1>4, <1>7 DEF tradable

-----------------------------------------------------------------------------
(* The invariant *)

Memories == [state : {"flat", "bidding", "held"}, contract : Names \cup {NoContract}, contracts : Nat, bid : Int,
             delta : Int, fill : Int, filled : Nat, mark : Int]

Placed == [role : {"entry", "target"}, contract : Names, quantity : Nat \ {0}, limit : Int, slack : Int]

TypeInv ==
  /\ day \in Nat \ {0} /\ step \in Steps /\ pc \in {"idle", "planned"}
  /\ memory \in Memories /\ memory.filled <= day
  /\ resting \in Placed \cup {NoOrder} /\ position \in [Names -> Nat]
  /\ plan \in [wanted : Placed \cup {NoOrder}, memory : Memories, mark : Int, day : Nat, left : 0..100]
  /\ plan.memory.filled <= day
  /\ paid \in [Names -> Int] /\ since \in [Names -> Nat]
  /\ trades \in Nat /\ raced \in BOOLEAN

IsBid(o) == o # NoOrder /\ o.role = "entry"
IsAsk(o) == o # NoOrder /\ o.role = "target"

\* A bid costs no more than the cap.
WithinCap(o) == Config.maxNotional > 0 => 100 * o.quantity * o.limit <= Config.maxNotional

\* Unless quotes are crossed where nobody looks at the spread.
Uncrossed ==
  Config.maxSpread > 0 \/ \A m \in Markets : \A c \in m.chain : c.bid > 0 /\ c.ask > 0 => c.bid <= c.ask

\* A price that would not have been replaced by the other.
Near(a, b) == 100 * Distance(a, b) <= Slack(b, Widest)

\* A planned bid is at its mark at most, and is what the run would remember.  Nothing is offered
\* that is not held.
OrdersInv ==
  /\ Uncrossed /\ IsBid(resting) => WithinCap(resting)
  /\ IsAsk(resting) => resting.quantity <= position[resting.contract]
  /\ IsBid(plan.wanted) =>
       /\ Uncrossed => WithinCap(plan.wanted)
       /\ plan.wanted.limit > 0 /\ plan.wanted.limit <= plan.mark
       /\ plan.wanted.slack <= Slack(plan.wanted.limit, Widest)
       /\ plan.memory.bid = plan.wanted.limit /\ plan.memory.contracts = plan.wanted.quantity
       /\ plan.memory.filled = 0
  /\ pc = "idle" /\ IsBid(resting) => 100 * (resting.limit - plan.mark) <= Slack(plan.mark, Widest)

\* What is remembered of the one position there is: what it was bid for, and since when.
Remembered(mem, n) ==
  /\ Held = {n} /\ mem.contracts = position[n] /\ mem.filled = since[n]
  /\ mem.bid > 0 /\ Near(paid[n], mem.bid)

\* What a run that found a position is about to ask.
AskInv(n) ==
  LET w == plan.wanted
      held == plan.day - plan.memory.filled
  IN  /\ Remembered(plan.memory, n) /\ since[n] > 0
      /\ w # NoOrder => /\ w.role = "target" /\ w.contract = n /\ w.quantity = position[n]
                        /\ w.slack = Slack(w.limit, 0)
                        /\ held < Config.maxHold => w.limit >= plan.memory.bid
      /\ held >= Config.maxHold /\ plan.left = 0 /\ plan.mark > 0 => w # NoOrder /\ w.limit = plan.mark

\* Unless a bid has filled under a run.
PositionInv ==
  /\ \A n \in Names \ Held : since[n] = 0
  /\ IsBid(resting) => Held = {}
  /\ IsAsk(resting) => Held = {resting.contract} /\ resting.quantity = position[resting.contract]
  /\ pc = "planned" => /\ IsBid(plan.wanted) => Held = {}
                       /\ \A n \in Held : AskInv(n)
  /\ pc = "idle" => /\ \A n \in Held : Remembered(memory, n)
                    /\ IsBid(resting) => /\ memory.bid > 0 /\ Near(resting.limit, memory.bid)
                                         /\ memory.contracts = resting.quantity /\ memory.filled = 0

FlipInv == TypeInv /\ OrdersInv /\ (raced \/ PositionInv) /\ PrincipalKept /\ OutByDeadline

-----------------------------------------------------------------------------
(* What a run plans *)

LEMMA StepsHaveShares ==
    /\ Steps = 1..Len(Fractions) /\ Len(Fractions) \in Nat
    /\ \A k \in Steps : Fractions[k] \in 0..100
<1>1. Fractions \in Seq(0..100)
  BY StepsAssumption
<1>2. DOMAIN Fractions = 1..Len(Fractions) /\ Len(Fractions) \in Nat
  BY <1>1
<1> DEFINE Shares == 0..100
<1>3. \A k \in 1..Len(Fractions) : Fractions[k] \in Shares
  <2>1. Fractions \in Seq(Shares)
    BY <1>1
  <2> HIDE DEF Shares
  <2> QED
    BY <1>2, <2>1
<1> QED
  BY <1>2, <1>3 DEF Steps

LEMMA ShareIsBetween ==
    ASSUME NEW x \in Int, NEW p \in 0..100
    PROVE  /\ (x * p) \div 100 \in Int
           /\ x >= 0 => 0 <= (x * p) \div 100
           /\ x <= 0 => x <= (x * p) \div 100
<1>1. x * p \in Int
  BY Products
<1>2. x >= 0 => 0 <= x * p
  BY SMTT(30)
<1>3. x <= 0 => 100 * x <= x * p
  BY SMTT(30)
<1> DEFINE y == x * p
<1> HIDE DEF y
<1>4. y \in Int /\ (x >= 0 => 0 <= y) /\ (x <= 0 => 100 * x <= y)
  BY <1>1, <1>2, <1>3 DEF y
<1>5. y \div 100 \in Int /\ (x >= 0 => 0 <= y \div 100) /\ (x <= 0 => x <= y \div 100)
  BY <1>4
<1> QED
  BY <1>5 DEF y

\* option_price_for never prices a contract below a cent.
LEMMA PriceIsPositive ==
    ASSUME NEW target \in Int, NEW now \in Int, NEW mark \in Int, NEW delta \in Int
    PROVE  /\ PriceFor(target, now, mark, delta) \in Nat
           /\ now > 0 /\ mark > 0 => PriceFor(target, now, mark, delta) >= 1
<1>1. delta * (target - now) \in Int
  BY Products
<1> DEFINE move == delta * (target - now)
<1> HIDE DEF move
<1>2. move \div 100 \in Int
  BY <1>1 DEF move
<1>3. PriceFor(target, now, mark, delta) =
        IF now <= 0 \/ mark <= 0 THEN 0 ELSE Higher(mark + move \div 100, 1)
  BY DEF PriceFor, move
<1> QED
  BY <1>2, <1>3 DEF Higher

\* A bid is between a cent and the mark, is not replaced for less than its slack, and is for as
\* many contracts as the cap pays for.
LEMMA BidIsSafe ==
    ASSUME NEW m \in Markets, NEW k \in Steps, NEW d \in Nat,
           NEW c, c = Chosen(m, d), NEW levels, levels = Levels(m, k),
           NEW n, n = Armed(m, k, c, levels), n > 0
    PROVE  LET bid == Bid(m, k, c, n, levels)
           IN  /\ c \in Contracts /\ bid \in Placed /\ Mid(c) \in Int
               /\ bid.limit > 0 /\ bid.limit <= Mid(c) /\ bid.slack <= Slack(bid.limit, Widest)
               /\ Uncrossed => WithinCap(bid)
<1>1. n = Affordable(c) /\ c # NoContract /\ levels.entry > 0
  BY DEF Armed
<1>2. c \in Priced(m) /\ Tradable(c, d)
  BY <1>1, ChosenIsTradable
<1>3. PICK q \in m.chain : c.bid = q.bid /\ c.ask = q.ask
  BY <1>2, PricedAsQuoted
<1>4. /\ c \in Contracts /\ c.name \in Names /\ c.bid \in Int /\ c.ask \in Int
      /\ c.mark \in Int /\ c.delta \in Int
  BY <1>2, PricedAsQuoted DEF Contracts
<1>5. /\ Config.contracts \in Nat /\ Config.maxNotional \in Int /\ Config.maxSpread \in Int
      /\ m.price \in Int /\ m.price > 0 /\ levels.entry \in Int /\ GivenUp[k] \in 0..100
  BY <1>1, LevelsAreWhole, ConfigAssumption, MarketsAssumption, StepsAssumption
<1> DEFINE price == IF c.ask > 0 THEN c.ask ELSE Mid(c)
           cost == 100 * price
<1>6. Mid(c) \in Int /\ price \in Int
  BY <1>4 DEF Mid
<1>7. /\ cost > 0 /\ n \in Nat
      /\ Config.maxNotional > 0 => n <= Config.maxNotional \div cost
  <2>1. Affordable(c) = CASE cost <= 0 -> 0
                          [] cost > 0 /\ Config.maxNotional <= 0 -> Config.contracts
                          [] OTHER -> Lower(Config.contracts, Config.maxNotional \div cost)
    BY DEF Affordable
  <2>2. cost \in Int
    BY <1>6
  <2> HIDE DEF cost
  <2>3. cost > 0
    BY <1>1, <2>1, <2>2
  <2>4. Config.maxNotional \div cost \in Int
    BY <1>5, <2>2, <2>3
  <2> QED
    BY <1>1, <1>5, <2>1, <2>2, <2>3, <2>4 DEF Lower
<1>8. Mid(c) > 0
  <2>1. price > 0
    BY <1>6, <1>7
  <2> QED
    BY <1>4, <2>1 DEF Mid
<1>9. Uncrossed => Mid(c) <= price
  <2>1. ASSUME Uncrossed, c.bid > 0, c.ask > 0
        PROVE  c.bid <= c.ask
    BY <1>2, <1>3, <1>4, <1>5, <2>1 DEF Uncrossed, Tradable
  <2> QED
    BY <1>4, <2>1 DEF Mid
<1> DEFINE floor == PriceFor(levels.entry, m.price, Mid(c), c.delta)
           limit == Limit(m, k, c, levels)
           ground == ((Mid(c) - floor) * GivenUp[k]) \div 100
<1>10. floor \in Nat /\ floor >= 1
  BY <1>4, <1>5, <1>6, <1>8, PriceIsPositive
<1>11. limit = Lower(floor + ground, Mid(c))
  BY DEF Limit
<1>12. ground \in Int /\ (Mid(c) - floor >= 0 => 0 <= ground) /\ (Mid(c) - floor <= 0 => Mid(c) - floor <= ground)
  <2>1. Mid(c) - floor \in Int
    BY <1>6, <1>10
  <2> HIDE DEF floor
  <2> QED
    BY <1>5, <2>1, ShareIsBetween
<1> HIDE DEF floor, ground, limit, price
<1>13. limit \in Int /\ limit > 0 /\ limit <= Mid(c)
  BY <1>6, <1>8, <1>10, <1>11, <1>12 DEF Lower
<1> DEFINE spread == Higher(c.ask - c.bid, 0)
           bid == Bid(m, k, c, n, levels)
<1>14. bid = [role |-> "entry", contract |-> c.name, quantity |-> n, limit |-> limit,
              slack |-> Slack(limit, spread)]
  BY DEF Bid, limit
<1>15. spread \in Int /\ spread <= Widest /\ Widest \in Int
  BY <1>3, <1>4, WidestIsWidest DEF Higher
<1> HIDE DEF spread
<1>16. Slack(limit, spread) \in Int /\ Slack(limit, spread) <= Slack(limit, Widest)
  <2>1. limit <= limit
    BY <1>13
  <2> QED
    BY <1>13, <1>15, <2>1, SlackGrows
<1>17. bid \in Placed
  BY <1>4, <1>7, <1>13, <1>14, <1>16 DEF Placed
<1>18. Uncrossed => WithinCap(bid)
  <2>1. SUFFICES ASSUME Uncrossed, Config.maxNotional > 0
                 PROVE  100 * n * limit <= Config.maxNotional
    BY <1>14 DEF WithinCap
  <2>2. price \in Int /\ price > 0 /\ limit <= price
    BY <1>6, <1>7, <1>8, <1>9, <1>13, <2>1
  <2>3. n <= Config.maxNotional \div (100 * price) /\ n \in Nat
    BY <1>7, <2>1
  <2>4. n * (100 * price) <= Config.maxNotional
    <3> DEFINE unit == 100 * price
               whole == Config.maxNotional \div unit
    <3>1. unit \in Nat \ {0}
      BY <2>2
    <3> HIDE DEF unit
    <3>2. whole \in Int /\ whole * unit <= Config.maxNotional
      BY <1>5, <3>1, SMTT(30)
    <3>3. n <= whole
      BY <2>3 DEF unit
    <3> HIDE DEF whole
    <3>4. whole \in Nat
      BY <2>3, <3>2, <3>3
    <3>5. n * unit <= whole * unit
      BY <2>3, <3>1, <3>3, <3>4, Products
    <3>6. n * unit \in Int /\ whole * unit \in Int
      BY <2>3, <3>1, <3>2, Products
    <3>7. n * unit <= Config.maxNotional
      BY <1>5, <3>2, <3>5, <3>6
    <3> QED
      BY <3>7 DEF unit
  <2>5. limit * n <= price * n
    <3>1. limit \in Nat /\ price \in Nat
      BY <1>13, <2>2
    <3> QED
      BY <2>2, <2>3, <3>1, Products
  <2>6. \A a, b \in Int : 100 * a * b = 100 * (b * a) /\ a * (100 * b) = 100 * (b * a) /\ b * a \in Int
    BY SMTT(30)
  <2>7. 100 * (price * n) <= Config.maxNotional /\ price * n \in Int
    BY <2>2, <2>3, <2>4, <2>6
  <2>8. 100 * n * limit = 100 * (limit * n) /\ limit * n \in Int
    BY <1>13, <2>3, <2>6
  <2> DEFINE a == limit * n
             b == price * n
  <2> HIDE DEF a, b
  <2>9. a \in Int /\ b \in Int /\ a <= b /\ 100 * b <= Config.maxNotional
    BY <2>5, <2>7, <2>8 DEF a, b
  <2>10. 100 * a <= Config.maxNotional
    BY <1>5, <2>9
  <2> QED
    BY <2>8, <2>10 DEF a
<1> QED
  BY <1>4, <1>6, <1>13, <1>14, <1>16, <1>17, <1>18

\* An ask is no less than what was bid until the last session, and the mark at the close of it.
LEMMA AskIsSafe ==
    ASSUME day \in Nat, NEW mem \in Memories, mem.filled <= day, NEW m \in Markets, NEW k \in Steps,
           NEW exit \in Int
    PROVE  /\ Ask(mem, m, k, exit) \in Int
           /\ SessionsHeld(mem) < Config.maxHold /\ mem.bid > 0 => Ask(mem, m, k, exit) >= mem.bid
           /\ SessionsHeld(mem) >= Config.maxHold /\ Fractions[k] = 0 /\ mem.mark > 0
                => Ask(mem, m, k, exit) = mem.mark
<1> DEFINE entry == EntryPrice(mem)
           modelled == IF exit <= 0 THEN 0 ELSE PriceFor(exit, m.price, mem.mark, mem.delta)
           gain == Higher(modelled - entry, 0)
           held == Lower(SessionsHeld(mem), Config.maxHold)
           part == Config.gainShare * (100 - Conceded[held])
           asked == part \div 100
           share == (asked * gain) \div 100
           target == Higher(entry + share, 1)
           late == ((target - mem.mark) * Fractions[k]) \div 100
<1>1. Ask(mem, m, k, exit) = IF SessionsHeld(mem) < Config.maxHold THEN target
                             ELSE Higher(mem.mark + late, 1)
  BY DEF Ask
<1>2. /\ mem.bid \in Int /\ mem.fill \in Int /\ mem.mark \in Int /\ mem.delta \in Int
      /\ mem.filled \in Nat /\ m.price \in Int
  BY MarketsAssumption DEF Memories
<1>3. entry \in Int /\ (mem.bid > 0 => entry = mem.bid)
  BY <1>2 DEF EntryPrice
<1>4. modelled \in Int
  <2>1. PriceFor(exit, m.price, mem.mark, mem.delta) \in Nat
    BY <1>2, PriceIsPositive
  <2> QED
    BY <2>1
<1> HIDE DEF entry, modelled
<1>5. gain \in Nat
  BY <1>3, <1>4 DEF Higher
<1>6. SessionsHeld(mem) \in Nat /\ held \in 0..Config.maxHold
  BY <1>2, StepsAssumption DEF SessionsHeld, Lower
<1> HIDE DEF held, gain
<1>7. asked \in Nat
  <2>1. Config.gainShare \in Nat
    BY ConfigAssumption
  <2>2. Conceded[held] \in 0..100
    BY <1>6, StepsAssumption
  <2>3. 100 - Conceded[held] \in Nat
    BY <2>2
  <2>4. part \in Nat
    BY <2>1, <2>3, Products
  <2> HIDE DEF part
  <2> QED
    BY <2>4
<1> HIDE DEF asked
<1>8. share \in Nat
  <2>1. asked * gain \in Nat
    BY <1>5, <1>7, Products
  <2> QED
    BY <2>1
<1> HIDE DEF share
<1>9. target \in Int /\ (mem.bid > 0 => target >= mem.bid)
  BY <1>2, <1>3, <1>8 DEF Higher
<1> HIDE DEF target
<1>10. late \in Int /\ (Fractions[k] = 0 => late = 0)
  <2>1. Fractions[k] \in 0..100
    BY StepsHaveShares
  <2>2. target - mem.mark \in Int
    BY <1>2, <1>9
  <2>3. late \in Int
    BY <2>1, <2>2, ShareIsBetween
  <2>4. \A a \in Int : (a * 0) \div 100 = 0
    BY SMTT(30)
  <2> QED
    BY <2>2, <2>3, <2>4
<1> HIDE DEF late
<1>11. Config.maxHold \in Nat
  BY StepsAssumption
<1> QED
  BY <1>1, <1>2, <1>6, <1>9, <1>10, <1>11 DEF Higher

-----------------------------------------------------------------------------
(* The steps *)

LEMMA NoOrderIsNone ==
    /\ NoOrder \notin Placed
    /\ \A o \in Placed : o # NoOrder /\ (IsBid(o) <=> o.role = "entry") /\ (IsAsk(o) <=> o.role = "target")
    /\ ~IsBid(NoOrder) /\ ~IsAsk(NoOrder)
<1>1. NoOrder \notin Placed
  BY MarketsAssumption DEF Placed
<1> QED
  BY <1>1 DEF IsBid, IsAsk

LEMMA InitHolds ==
    Init => FlipInv
<1> SUFFICES ASSUME Init
             PROVE  FlipInv
  OBVIOUS
<1>1. TypeInv
  <2>1. NoMemory \in Memories
    BY DEF NoMemory, Memories
  <2>2. plan.wanted = NoOrder /\ plan.memory = NoMemory /\ plan.mark = 0 /\ plan.day = 0 /\ plan.left = 100
    BY DEF Init, NoPlan
  <2>3. plan \in [wanted : Placed \cup {NoOrder}, memory : Memories, mark : Int, day : Nat, left : 0..100]
    BY <2>1 DEF Init, NoPlan
  <2>4. NoMemory.filled = 0
    BY DEF NoMemory
  <2>5. 1 \in Steps
    BY StepsHaveShares, ConfigAssumption
  <2>6. raced \in BOOLEAN
    BY DEF Init
  <2>7. day = 1 /\ step = 1 /\ memory = NoMemory /\ resting = NoOrder /\ pc = "idle" /\ trades = 0
    BY DEF Init
  <2>8. position \in [Names -> Nat] /\ paid \in [Names -> Int] /\ since \in [Names -> Nat]
    BY DEF Init
  <2> QED
    BY <2>1, <2>2, <2>3, <2>4, <2>5, <2>6, <2>7, <2>8 DEF TypeInv
<1>2. Held = {} /\ \A n \in Names : since[n] = 0
  BY DEF Init, Held
<1>3. resting = NoOrder /\ plan.wanted = NoOrder /\ pc = "idle"
  BY DEF Init, NoPlan
<1> QED
  BY <1>1, <1>2, <1>3, NoOrderIsNone DEF FlipInv, OrdersInv, PositionInv, PrincipalKept, OutByDeadline

\* What a run makes of what it remembers of a contract it finds held.
LEMMA RefreshedIsWhole ==
    ASSUME TypeInv, NEW m \in Markets, NEW held \in Names
    PROVE  LET mem == Refreshed(held, m)
           IN  /\ mem \in Memories /\ mem.filled <= day /\ mem.contract = held
               /\ mem.contracts > 0 /\ mem.filled > 0 /\ mem.bid = memory.bid
               /\ memory.contracts > 0 => mem.contracts = memory.contracts
               /\ mem.filled = IF memory.filled = 0 THEN day ELSE memory.filled
               /\ m.marks[held] > 0 => mem.mark = m.marks[held]
<1>1. m.marks[held] \in Int
  BY MarketsAssumption
<1>2. memory \in Memories /\ day \in Nat \ {0} /\ memory.filled <= day
  BY DEF TypeInv
<1> DEFINE mem == Refreshed(held, m)
<1>3. /\ mem.state = "held" /\ mem.contract = held /\ mem.bid = memory.bid /\ mem.delta = memory.delta
      /\ mem.contracts = IF memory.contracts = 0 THEN 1 ELSE memory.contracts
      /\ mem.mark = IF m.marks[held] > 0 THEN m.marks[held] ELSE memory.mark
      /\ mem.fill = IF memory.fill = 0 THEN m.marks[held] ELSE memory.fill
      /\ mem.filled = IF memory.filled = 0 THEN day ELSE memory.filled
  BY <1>2 DEF Refreshed, Memories
<1>5. /\ memory.contracts \in Nat /\ memory.bid \in Int /\ memory.delta \in Int
      /\ memory.fill \in Int /\ memory.filled \in Nat /\ memory.mark \in Int
  BY <1>2 DEF Memories
<1> HIDE DEF mem
<1>6. mem \in Memories
  <2> DEFINE contracts == IF memory.contracts = 0 THEN 1 ELSE memory.contracts
             mark == IF m.marks[held] > 0 THEN m.marks[held] ELSE memory.mark
             fill == IF memory.fill = 0 THEN m.marks[held] ELSE memory.fill
             filled == IF memory.filled = 0 THEN day ELSE memory.filled
  <2>1. contracts \in Nat /\ mark \in Int /\ fill \in Int /\ filled \in Nat
    BY <1>1, <1>2, <1>5
  <2>2. mem = [memory EXCEPT !.state = "held", !.contract = held, !.contracts = contracts,
                             !.mark = mark, !.fill = fill, !.filled = filled]
    BY DEF Refreshed, mem
  <2> HIDE DEF contracts, mark, fill, filled
  <2> QED
    BY <1>2, <2>1, <2>2 DEF Memories
<1> QED
  BY <1>1, <1>2, <1>3, <1>5, <1>6 DEF mem

\* A run that finds a position.
LEMMA PlanHeldStep ==
    ASSUME FlipInv, NEW m \in Markets, PlanHeld(m)
    PROVE  FlipInv'
<1>1. PICK held \in Held : LET mem == Refreshed(held, m) IN
        /\ Plan(Exit(mem, m, step, LevelsOf[m][step].target), mem, m.marks[held])
        /\ since' = [since EXCEPT ![held] = IF @ = 0 THEN day ELSE @]
  BY DEF PlanHeld
<1> DEFINE mem == Refreshed(held, m)
           exit == LevelsOf[m][step].target
           wanted == Exit(mem, m, step, exit)
           ask == Ask(mem, m, step, exit)
<1>2. TypeInv
  BY DEF FlipInv
<1>3. /\ pc = "idle" /\ pc' = "planned"
      /\ plan' = [wanted |-> wanted, memory |-> mem, mark |-> m.marks[held], day |-> day,
                  left |-> Fractions[step]]
      /\ UNCHANGED <<day, step, memory, resting, position, paid, trades, raced>>
      /\ since' = [since EXCEPT ![held] = IF @ = 0 THEN day ELSE @]
  BY <1>1 DEF Plan
<1>4. held \in Names /\ position[held] > 0 /\ m.marks[held] \in Int /\ step \in Steps /\ day \in Nat \ {0}
  BY <1>2, MarketsAssumption DEF Held, TypeInv
<1>5. /\ mem \in Memories /\ mem.filled <= day /\ mem.contract = held
      /\ mem.contracts > 0 /\ mem.filled > 0 /\ mem.bid = memory.bid
      /\ memory.contracts > 0 => mem.contracts = memory.contracts
      /\ mem.filled = IF memory.filled = 0 THEN day ELSE memory.filled
      /\ m.marks[held] > 0 => mem.mark = m.marks[held]
  BY <1>2, <1>4, RefreshedIsWhole
<1> HIDE DEF mem
<1>6. exit \in Int
  <2>1. exit = Levels(m, step).target
    BY <1>4 DEF LevelsOf
  <2> QED
    BY <1>4, <2>1, LevelsAreWhole
<1> HIDE DEF exit
<1>7. /\ ask \in Int
      /\ day - mem.filled < Config.maxHold /\ mem.bid > 0 => ask >= mem.bid
      /\ day - mem.filled >= Config.maxHold /\ Fractions[step] = 0 /\ mem.mark > 0 => ask = mem.mark
  BY <1>4, <1>5, <1>6, AskIsSafe DEF SessionsHeld
<1> HIDE DEF ask
<1>8. \/ wanted = NoOrder /\ mem.mark <= 0
      \/ wanted = [role |-> "target", contract |-> held, quantity |-> mem.contracts,
                   limit |-> ask, slack |-> Slack(ask, 0)]
  BY <1>5 DEF Exit, ask
<1> HIDE DEF wanted
<1>9. Slack(ask, 0) \in Int
  BY <1>7 DEF Slack, Higher
<1>10. wanted \in Placed \cup {NoOrder}
  <2>1. mem.contracts \in Nat \ {0}
    BY <1>5 DEF Memories
  <2> QED
    BY <1>4, <1>7, <1>8, <1>9, <2>1 DEF Placed
<1>11. TypeInv'
  <2>1. plan' \in [wanted : Placed \cup {NoOrder}, memory : Memories, mark : Int, day : Nat, left : 0..100]
    BY <1>3, <1>4, <1>5, <1>10, StepsHaveShares
  <2>2. since' \in [Names -> Nat]
    BY <1>2, <1>3, <1>4 DEF TypeInv
  <2>3. plan'.memory.filled <= day
    BY <1>3, <1>5
  <2> QED
    BY <1>2, <1>3, <2>1, <2>2, <2>3 DEF TypeInv
<1>12. ~IsBid(wanted)
  BY <1>8 DEF IsBid
<1>13. OrdersInv'
  <2>1. OrdersInv
    BY DEF FlipInv
  <2>2. plan'.wanted = wanted
    BY <1>3
  <2> QED
    BY <1>3, <1>12, <2>1, <2>2 DEF OrdersInv, IsBid, IsAsk, WithinCap
<1>14. Held' = Held
  BY <1>3 DEF Held
<1>15. ASSUME ~raced
       PROVE  PositionInv'
  <2>1. PositionInv
    BY <1>15 DEF FlipInv
  <2>2. Held = {held} /\ memory.contracts = position[held] /\ memory.filled = since[held]
        /\ memory.bid > 0 /\ Near(paid[held], memory.bid)
    BY <1>3, <2>1 DEF PositionInv, Remembered
  <2>3. mem.contracts = position[held] /\ mem.filled = since'[held] /\ mem.bid = memory.bid
    BY <1>2, <1>3, <1>4, <1>5, <2>2 DEF TypeInv
  <2>4. /\ plan'.wanted = wanted /\ plan'.memory = mem /\ plan'.mark = m.marks[held]
        /\ plan'.day = day /\ plan'.left = Fractions[step] /\ since'[held] > 0
    BY <1>3, <1>5, <2>3
  <2>5. AskInv(held)'
    <3>1. Remembered(plan.memory, held)'
      BY <1>3, <1>14, <2>2, <2>3, <2>4 DEF Remembered, Near
    <3>2. ASSUME wanted # NoOrder
          PROVE  /\ wanted.role = "target" /\ wanted.contract = held /\ wanted.quantity = position'[held]
                 /\ wanted.slack = Slack(wanted.limit, 0)
                 /\ day - mem.filled < Config.maxHold => wanted.limit >= mem.bid
      BY <1>3, <1>7, <1>8, <2>2, <2>3, <3>2
    <3>3. ASSUME day - mem.filled >= Config.maxHold, Fractions[step] = 0, m.marks[held] > 0
          PROVE  wanted # NoOrder /\ wanted.limit = m.marks[held]
      <4>1. mem.mark = m.marks[held]
        BY <1>5, <3>3
      <4>2. wanted = [role |-> "target", contract |-> held, quantity |-> mem.contracts,
                      limit |-> ask, slack |-> Slack(ask, 0)]
        BY <1>4, <1>8, <3>3, <4>1
      <4>3. wanted \in Placed
        BY <1>10, <4>2, <1>7, <1>9, <1>5, <1>4 DEF Placed, Memories
      <4>4. wanted # NoOrder
        BY <4>3, NoOrderIsNone
      <4> QED
        BY <1>7, <3>3, <4>1, <4>2, <4>4
    <3> QED
      BY <2>4, <3>1, <3>2, <3>3 DEF AskInv
  <2>6. \A n \in Names \ Held : since'[n] = 0
    BY <1>2, <1>3, <2>1 DEF PositionInv, TypeInv
  <2> QED
    BY <1>3, <1>12, <1>14, <2>1, <2>2, <2>4, <2>5, <2>6 DEF PositionInv, IsBid, IsAsk
<1>16. PrincipalKept' /\ OutByDeadline'
  BY <1>3 DEF PrincipalKept, OutByDeadline
<1> QED
  BY <1>3, <1>11, <1>13, <1>15, <1>16 DEF FlipInv

\* A run that finds none.
LEMMA PlanFlatStep ==
    ASSUME FlipInv, NEW m \in Markets, PlanFlat(m)
    PROVE  FlipInv'
<1> DEFINE levels == LevelsOf[m][step]
           c == Chosen(m, day)
           n == Armed(m, step, c, levels)
           bid == Bid(m, step, c, n, levels)
           wanted == IF n > 0 THEN bid ELSE NoOrder
           mem == IF n > 0 THEN Bidding(bid, c) ELSE NoMemory
           mark == IF n > 0 THEN Mid(c) ELSE 0
<1>1. Held = {} /\ since' = since /\ Plan(wanted, mem, mark)
  BY DEF PlanFlat
<1>2. TypeInv /\ step \in Steps /\ day \in Nat
  BY DEF FlipInv, TypeInv
<1>3. ASSUME n > 0
      PROVE  /\ c \in Contracts /\ bid \in Placed /\ Mid(c) \in Int
             /\ bid.limit > 0 /\ bid.limit <= Mid(c) /\ bid.slack <= Slack(bid.limit, Widest)
             /\ Uncrossed => WithinCap(bid)
  <2>1. levels = Levels(m, step)
    BY <1>2 DEF LevelsOf
  <2> HIDE DEF levels, c, n, bid
  <2> QED
    BY <1>2, <1>3, <2>1, BidIsSafe DEF n, c, bid
<1> HIDE DEF n, bid, c, levels
<1>4. /\ mem \in Memories /\ mark \in Int /\ wanted \in Placed \cup {NoOrder} /\ mem.filled = 0
      /\ n > 0 => mem.bid = bid.limit /\ mem.contracts = bid.quantity
  <2>1. CASE n > 0
    <3>1. /\ bid.contract \in Names /\ bid.quantity \in Nat /\ bid.limit \in Int /\ c.delta \in Int
      BY <1>3, <2>1 DEF Placed, Contracts
    <3>2. /\ Bidding(bid, c) \in Memories /\ Bidding(bid, c).filled = 0
          /\ Bidding(bid, c).bid = bid.limit /\ Bidding(bid, c).contracts = bid.quantity
      <4>1. NoMemory \in Memories /\ NoMemory.filled = 0
        BY DEF NoMemory, Memories
      <4>2. c.name \in Names
        BY <1>3, <2>1 DEF Contracts
      <4>3. Bidding(bid, c) = [NoMemory EXCEPT !.state = "bidding", !.contract = c.name,
                                 !.contracts = bid.quantity, !.bid = bid.limit, !.delta = c.delta]
        BY DEF Bidding
      <4> HIDE DEF Contracts
      <4>4. Bidding(bid, c) \in Memories
        BY <3>1, <4>1, <4>2, <4>3 DEF Memories
      <4>5. /\ Bidding(bid, c).filled = 0 /\ Bidding(bid, c).bid = bid.limit
            /\ Bidding(bid, c).contracts = bid.quantity
        BY <4>1, <4>3 DEF Memories
      <4> QED
        BY <4>4, <4>5
    <3> QED
      BY <1>3, <2>1, <3>2
  <2>2. CASE ~(n > 0)
    BY <2>2 DEF NoMemory, Memories
  <2> QED
    BY <2>1, <2>2
<1>5. /\ IsBid(wanted) /\ Uncrossed => WithinCap(wanted)
      /\ IsBid(wanted) => /\ wanted.limit > 0 /\ wanted.limit <= mark
                          /\ wanted.slack <= Slack(wanted.limit, Widest)
                          /\ mem.bid = wanted.limit /\ mem.contracts = wanted.quantity
  <2>1. IsBid(wanted) => n > 0
    BY NoOrderIsNone
  <2> QED
    BY <1>3, <1>4, <2>1
<1> HIDE DEF wanted, mem, mark
<1>6. /\ pc = "idle" /\ pc' = "planned"
      /\ plan' = [wanted |-> wanted, memory |-> mem, mark |-> mark, day |-> day, left |-> Fractions[step]]
      /\ UNCHANGED <<day, step, memory, resting, position, paid, trades, raced, since>>
  BY <1>1 DEF Plan
<1>7. TypeInv'
  <2>1. plan' \in [wanted : Placed \cup {NoOrder}, memory : Memories, mark : Int, day : Nat, left : 0..100]
    BY <1>2, <1>4, <1>6, StepsHaveShares
  <2>2. plan'.memory.filled <= day
    BY <1>2, <1>4, <1>6
  <2> QED
    BY <1>2, <1>6, <2>1, <2>2 DEF TypeInv
<1>8. plan'.wanted = wanted /\ plan'.memory = mem /\ plan'.mark = mark
  BY <1>6
<1>9. OrdersInv'
  <2>1. OrdersInv
    BY DEF FlipInv
  <2>2. /\ Uncrossed /\ IsBid(resting') => WithinCap(resting')
        /\ IsAsk(resting') => resting'.quantity <= position'[resting'.contract]
    BY <1>6, <2>1 DEF OrdersInv, IsBid, IsAsk, WithinCap
  <2>3. IsBid(plan'.wanted) =>
          /\ Uncrossed => WithinCap(plan'.wanted)
          /\ plan'.wanted.limit > 0 /\ plan'.wanted.limit <= plan'.mark
          /\ plan'.wanted.slack <= Slack(plan'.wanted.limit, Widest)
          /\ plan'.memory.bid = plan'.wanted.limit /\ plan'.memory.contracts = plan'.wanted.quantity
          /\ plan'.memory.filled = 0
    BY <1>4, <1>5, <1>8
  <2>4. pc' # "idle"
    BY <1>6
  <2> QED
    BY <2>2, <2>3, <2>4 DEF OrdersInv, IsBid, IsAsk, WithinCap
<1>10. Held' = {}
  BY <1>1, <1>6 DEF Held
<1>11. ASSUME ~raced
       PROVE  PositionInv'
  <2>1. PositionInv
    BY <1>11 DEF FlipInv
  <2> QED
    BY <1>1, <1>6, <1>10, <2>1 DEF PositionInv, IsBid, IsAsk
<1>12. PrincipalKept' /\ OutByDeadline'
  BY <1>6 DEF PrincipalKept, OutByDeadline
<1> QED
  BY <1>6, <1>7, <1>9, <1>11, <1>12 DEF FlipInv

\* Two differences too small to replace an order for are all that an ask gives up of what was paid.
LEMMA DifferencesAdd ==
    ASSUME NEW cost \in Int, NEW bid \in Int, NEW ask \in Int, NEW limit \in Int, ask >= bid,
           Near(cost, bid), 100 * Distance(limit, ask) <= Slack(ask, 0)
    PROVE  100 * (cost - limit) <= 2 * Slack(cost, Widest)
<1> DEFINE w == 25 * Widest
           level(x) == IF 2 * x > 50 THEN 2 * x ELSE 50
           wide(x) == IF 2 * x > w THEN (IF 2 * x > 50 THEN 2 * x ELSE 50) ELSE IF w > 50 THEN w ELSE 50
<1>1. w \in Nat
  BY WidestIsWidest
<1>2. /\ Slack(ask, 0) = level(ask)
      /\ Slack(bid, Widest) = wide(bid) /\ Slack(cost, Widest) = wide(cost)
  BY WidestIsWidest DEF Slack, Higher
<1>3. 100 * (ask - limit) <= level(ask) /\ 100 * (cost - bid) <= wide(bid)
  <2>1. /\ ask - limit <= Distance(limit, ask) /\ Distance(limit, ask) \in Int
        /\ cost - bid <= Distance(cost, bid) /\ Distance(cost, bid) \in Int
    BY DEF Distance, Higher, Lower
  <2>2. 100 * Distance(limit, ask) <= level(ask) /\ 100 * Distance(cost, bid) <= wide(bid)
    BY <1>2 DEF Near
  <2>3. level(ask) \in Int /\ wide(bid) \in Int
    BY <1>1
  <2> HIDE DEF level, wide
  <2> QED
    BY <2>1, <2>2, <2>3
<1> HIDE DEF w
<1>4. 100 * (cost - limit) <= 2 * wide(cost)
  BY <1>1, <1>3
<1> QED
  BY <1>2, <1>4

\* The plan is carried out.
LEMMA ExecuteStep ==
    ASSUME FlipInv, Execute
    PROVE  FlipInv'
<1> DEFINE w == plan.wanted
           kept == w # NoOrder /\ resting # NoOrder /\ ~Differs(resting, w)
           refused == w.role = "target" /\ w.quantity > position[w.contract]
<1>1. TypeInv /\ OrdersInv
  BY DEF FlipInv
<1>2. /\ pc = "planned" /\ pc' = "idle" /\ memory' = plan.memory
      /\ plan' = [plan EXCEPT !.wanted = NoOrder, !.memory = NoMemory]
      /\ UNCHANGED <<day, step, position, paid, since, trades, raced>>
      /\ resting' = CASE w = NoOrder -> NoOrder
                      [] kept -> resting
                      [] OTHER -> IF refused THEN NoOrder ELSE w
  BY DEF Execute
<1>3. w \in Placed \cup {NoOrder} /\ resting \in Placed \cup {NoOrder} /\ plan.memory \in Memories
      /\ plan.mark \in Int /\ plan.day \in Nat /\ plan.memory.filled <= day
  BY <1>1 DEF TypeInv
<1>4. /\ plan'.wanted = NoOrder /\ plan'.memory = NoMemory /\ plan'.mark = plan.mark
      /\ plan'.day = plan.day /\ plan'.left = plan.left
  BY <1>1, <1>2 DEF TypeInv
<1>5. /\ resting' = NoOrder \/ (w # NoOrder /\ resting' = w /\ ~refused) \/ (kept /\ resting' = resting)
      /\ resting' = NoOrder => w = NoOrder \/ refused
  BY <1>2, <1>3
<1>6. kept => /\ w # NoOrder /\ w \in Placed /\ resting \in Placed /\ resting.role = w.role
              /\ resting.quantity = w.quantity /\ 100 * Distance(resting.limit, w.limit) <= w.slack
  <2>1. ASSUME kept
        PROVE  /\ w # NoOrder /\ w \in Placed /\ resting \in Placed
               /\ 100 * Distance(resting.limit, w.limit) \in Int /\ w.slack \in Int
    BY <1>3, <2>1 DEF Placed, Distance, Higher, Lower
  <2> QED
    BY <2>1 DEF Differs
<1> HIDE DEF kept, refused
<1>7. TypeInv'
  <2>1. NoMemory \in Memories /\ NoMemory.filled = 0
    BY DEF NoMemory, Memories
  <2>2. plan' \in [wanted : Placed \cup {NoOrder}, memory : Memories, mark : Int, day : Nat, left : 0..100]
    BY <1>1, <1>2, <2>1 DEF TypeInv
  <2>3. plan'.memory.filled <= day
    BY <1>1, <1>4, <2>1 DEF TypeInv
  <2>4. resting' \in Placed \cup {NoOrder}
    BY <1>3, <1>5
  <2> QED
    BY <1>1, <1>2, <1>3, <2>2, <2>3, <2>4 DEF TypeInv
<1>8. OrdersInv'
  <2>1. Uncrossed /\ IsBid(resting') => WithinCap(resting')
    BY <1>1, <1>5, NoOrderIsNone DEF OrdersInv
  <2>2. IsAsk(resting') => resting'.quantity <= position[resting'.contract]
    <3>1. CASE resting' = NoOrder
      BY <3>1, NoOrderIsNone
    <3>2. CASE w # NoOrder /\ resting' = w /\ ~refused
      <4>1. w \in Placed /\ w.contract \in Names /\ w.quantity \in Int /\ position[w.contract] \in Int
        BY <1>1, <1>3, <3>2 DEF TypeInv, Placed
      <4> QED
        BY <3>2, <4>1 DEF IsAsk, refused
    <3>3. CASE kept /\ resting' = resting
      BY <1>1, <3>3 DEF OrdersInv
    <3> QED
      BY <1>5, <3>1, <3>2, <3>3
  <2>3. IsBid(resting') => 100 * (resting'.limit - plan.mark) <= Slack(plan.mark, Widest)
    <3>1. CASE resting' = NoOrder
      BY <3>1, NoOrderIsNone
    <3>2. ASSUME IsBid(resting'), resting' # NoOrder
          PROVE  /\ w \in Placed /\ IsBid(w) /\ resting' \in Placed
                 /\ resting' = w \/ 100 * Distance(resting'.limit, w.limit) <= w.slack
      BY <1>3, <1>5, <1>6, <3>2, NoOrderIsNone DEF IsBid
    <3>3. ASSUME IsBid(resting'), resting' # NoOrder
          PROVE  100 * (resting'.limit - plan.mark) <= Slack(plan.mark, Widest)
      <4>1. w.limit <= plan.mark /\ w.slack <= Slack(w.limit, Widest)
        BY <1>1, <3>2, <3>3 DEF OrdersInv
      <4>2. w.limit \in Int /\ w.slack \in Int /\ resting'.limit \in Int
        BY <3>2, <3>3 DEF Placed
      <4>3. Widest \in Int /\ Widest <= Widest
        BY WidestIsWidest
      <4>4. Slack(w.limit, Widest) \in Int /\ Slack(plan.mark, Widest) \in Int
            /\ Slack(w.limit, Widest) <= Slack(plan.mark, Widest)
        BY <1>3, <4>1, <4>2, <4>3, SlackGrows
      <4>5. 0 <= Slack(plan.mark, Widest)
        BY <1>3, <4>3 DEF Slack, Higher
      <4>6. CASE resting' = w
        BY <1>3, <4>1, <4>2, <4>4, <4>5, <4>6
      <4>7. CASE 100 * Distance(resting'.limit, w.limit) <= w.slack
        <5>1. 100 * (resting'.limit - w.limit) <= w.slack
          BY <4>2, <4>7 DEF Distance, Higher, Lower
        <5> QED
          BY <1>3, <4>1, <4>2, <4>4, <5>1
      <4> QED
        BY <3>2, <3>3, <4>6, <4>7
    <3> QED
      BY <3>1, <3>3
  <2> QED
    BY <1>2, <1>4, <2>1, <2>2, <2>3, NoOrderIsNone DEF OrdersInv, IsBid, IsAsk, WithinCap
<1>9. Held' = Held
  BY <1>2 DEF Held
<1>10. ASSUME ~raced
       PROVE  PositionInv
  BY <1>10 DEF FlipInv
<1>11. ASSUME ~raced, NEW n \in Held
       PROVE  Held = {n} /\ AskInv(n) /\ Remembered(plan.memory, n) /\ position[n] \in Nat \ {0}
  BY <1>1, <1>2, <1>10, <1>11 DEF PositionInv, AskInv, Remembered, Held, TypeInv
\* What rests after a run that found a position is the ask it made, or one that need not be moved.
<1>12. ASSUME ~raced, NEW n \in Held, w # NoOrder
       PROVE  /\ w \in Placed /\ w.role = "target" /\ w.contract = n /\ w.quantity = position[n]
              /\ resting' \in Placed /\ resting'.role = "target" /\ resting'.contract = n
              /\ resting'.quantity = position[n] /\ resting'.limit \in Int /\ w.limit \in Int
              /\ 100 * Distance(resting'.limit, w.limit) <= Slack(w.limit, 0)
  <2>1. /\ w \in Placed /\ w.role = "target" /\ w.contract = n /\ w.quantity = position[n]
        /\ w.slack = Slack(w.limit, 0) /\ w.limit \in Int
    BY <1>3, <1>11, <1>12 DEF AskInv, Placed
  <2>2. ~refused
    <3>1. position[n] \in Nat
      BY <1>11, <1>12
    <3> QED
      BY <2>1, <3>1 DEF refused
  <2>3. CASE resting' = w
    BY <2>1, <2>3 DEF Distance, Higher, Lower, Slack
  <2>4. CASE kept /\ resting' = resting
    <3>1. resting \in Placed /\ IsAsk(resting) /\ resting.limit \in Int
      BY <1>6, <2>1, <2>4, NoOrderIsNone DEF Placed
    <3>2. Held = {resting.contract}
      BY <1>10, <1>12, <3>1 DEF PositionInv
    <3>3. resting.contract = n
      BY <1>12, <3>2
    <3> QED
      BY <1>6, <2>1, <2>4, <3>1, <3>3
  <2> QED
    BY <1>5, <1>12, <2>1, <2>2, <2>3, <2>4
<1>13. ASSUME ~raced, IsAsk(resting')
       PROVE  w # NoOrder /\ \E n \in Held : TRUE
  <2>1. resting' # NoOrder /\ resting' \in Placed /\ resting'.role = "target" /\ resting'.quantity \in Nat \ {0}
        /\ resting'.contract \in Names
    BY <1>7, <1>13, NoOrderIsNone DEF IsAsk, TypeInv, Placed
  <2>2. resting'.quantity <= position[resting'.contract]
    BY <1>2, <1>8, <1>13 DEF OrdersInv, IsAsk
  <2>3. resting'.contract \in Held
    BY <1>1, <2>1, <2>2 DEF Held, TypeInv
  <2> QED
    BY <1>5, <1>6, <2>1, <2>3
<1>14. ASSUME ~raced
       PROVE  PositionInv'
  <2>1. \A n \in Names \ Held : since[n] = 0
    BY <1>10, <1>14 DEF PositionInv
  <2>2. ASSUME IsBid(resting')
        PROVE  /\ Held = {} /\ plan.memory.bid > 0 /\ Near(resting'.limit, plan.memory.bid)
               /\ plan.memory.contracts = resting'.quantity /\ plan.memory.filled = 0
    <3>1. /\ w \in Placed /\ IsBid(w) /\ resting' \in Placed /\ resting'.quantity = w.quantity
          /\ resting' = w \/ 100 * Distance(resting'.limit, w.limit) <= w.slack
      BY <1>3, <1>5, <1>6, <2>2, NoOrderIsNone DEF IsBid
    <3>2. Held = {}
      BY <1>2, <1>10, <1>14, <3>1 DEF PositionInv
    <3>3. /\ w.limit > 0 /\ w.slack <= Slack(w.limit, Widest) /\ plan.memory.bid = w.limit
          /\ plan.memory.contracts = w.quantity /\ plan.memory.filled = 0
      BY <1>1, <3>1 DEF OrdersInv
    <3>4. w.limit \in Int /\ w.slack \in Int /\ resting'.limit \in Int /\ Widest \in Int
      BY <3>1, WidestIsWidest DEF Placed
    <3>5. Slack(w.limit, Widest) \in Int /\ 0 <= Slack(w.limit, Widest)
      BY <3>4 DEF Slack, Higher
    <3>6. Distance(resting'.limit, w.limit) \in Int /\ (resting' = w => Distance(resting'.limit, w.limit) = 0)
      BY <3>4 DEF Distance, Higher, Lower
    <3>7. Near(resting'.limit, w.limit)
      BY <3>1, <3>3, <3>4, <3>5, <3>6 DEF Near
    <3> QED
      BY <3>1, <3>2, <3>3, <3>7
  <2>3. ASSUME IsAsk(resting')
        PROVE  Held = {resting'.contract} /\ resting'.quantity = position[resting'.contract]
    <3>1. PICK n \in Held : TRUE
      BY <1>13, <1>14, <2>3
    <3> QED
      BY <1>11, <1>12, <1>13, <1>14, <2>3, <3>1
  <2>4. \A n \in Held : Remembered(plan.memory, n)
    BY <1>11, <1>14
  <2>5. \A n \in Held' : Remembered(memory, n)'
    BY <1>2, <1>9, <2>4 DEF Remembered, Near
  <2> QED
    BY <1>2, <1>9, <2>1, <2>2, <2>3, <2>5 DEF PositionInv, IsBid, IsAsk, Near
<1>15. PrincipalKept'
  <2>1. SUFFICES ASSUME ~raced, IsAsk(resting'), plan.day - plan.memory.filled < Config.maxHold
                 PROVE  100 * (paid[resting'.contract] - resting'.limit)
                          <= 2 * Slack(paid[resting'.contract], Widest)
    BY <1>2, <1>4 DEF PrincipalKept, IsAsk
  <2>2. PICK n \in Held : w # NoOrder
    BY <1>13, <2>1
  <2>3. /\ resting'.contract = n /\ resting'.limit \in Int /\ w.limit \in Int
        /\ 100 * Distance(resting'.limit, w.limit) <= Slack(w.limit, 0)
    BY <1>12, <2>1, <2>2
  <2>4. w.limit >= plan.memory.bid /\ Near(paid[n], plan.memory.bid)
    BY <1>11, <2>1, <2>2 DEF AskInv, Remembered
  <2>5. plan.memory.bid \in Int /\ paid[n] \in Int
    BY <1>1, <1>3, <2>2 DEF TypeInv, Memories, Held
  <2> QED
    BY <2>3, <2>4, <2>5, DifferencesAdd
<1>16. OutByDeadline'
  <2>1. SUFFICES ASSUME NEW n \in Held, ~raced, plan.left = 0, plan.day - since[n] >= Config.maxHold, plan.mark > 0
                 PROVE  /\ resting' # NoOrder /\ resting'.role = "target" /\ resting'.contract = n
                        /\ resting'.quantity = position[n]
                        /\ 100 * Distance(resting'.limit, plan.mark) <= Slack(plan.mark, 0)
    BY <1>2, <1>4, <1>9 DEF OutByDeadline
  <2>2. plan.memory.filled = since[n]
    BY <1>11, <2>1 DEF Remembered
  <2>3. w # NoOrder /\ w.limit = plan.mark
    BY <1>11, <2>1, <2>2 DEF AskInv
  <2> QED
    BY <1>12, <2>1, <2>3, NoOrderIsNone
<1> QED
  BY <1>2, <1>7, <1>8, <1>14, <1>15, <1>16 DEF FlipInv

\* A bid fills, between runs or under one.
LEMMA BoughtStep ==
    ASSUME FlipInv, Bought
    PROVE  FlipInv'
<1> DEFINE n == resting.contract
           q == resting.quantity
<1>1. TypeInv /\ OrdersInv
  BY DEF FlipInv
<1>2. /\ resting # NoOrder /\ resting.role = "entry" /\ ~raced /\ trades' = trades + 1
      /\ position' = [position EXCEPT ![n] = @ + q]
      /\ paid' = [paid EXCEPT ![n] = resting.limit]
      /\ resting' = NoOrder /\ raced' = (raced \/ pc = "planned")
      /\ UNCHANGED <<day, step, memory, pc, plan, since>>
  BY DEF Bought
<1>3. resting \in Placed /\ n \in Names /\ q \in Nat \ {0} /\ resting.limit \in Int
  BY <1>1, <1>2 DEF TypeInv, Placed
<1> HIDE DEF n, q
<1>4. TypeInv'
  <2>1. position' \in [Names -> Nat] /\ paid' \in [Names -> Int]
    BY <1>1, <1>2, <1>3 DEF TypeInv
  <2>2. raced' \in BOOLEAN
    BY <1>2
  <2>3. trades' \in Nat
    BY <1>1, <1>2 DEF TypeInv
  <2> QED
    BY <1>1, <1>2, <2>1, <2>2, <2>3 DEF TypeInv
<1>5. OrdersInv'
  BY <1>1, <1>2, NoOrderIsNone DEF OrdersInv, IsBid, IsAsk, WithinCap
<1>6. PositionInv /\ Held = {}
  <2>1. PositionInv
    BY <1>2 DEF FlipInv
  <2> QED
    BY <1>2, <2>1 DEF PositionInv, IsBid
<1>7. Held' = {n}
  <2>1. \A x \in Names : position[x] = 0
    BY <1>1, <1>6 DEF Held, TypeInv
  <2>2. \A x \in Names : position'[x] = IF x = n THEN q ELSE 0
    BY <1>1, <1>2, <1>3, <2>1 DEF TypeInv
  <2> QED
    BY <1>3, <2>2 DEF Held
<1>8. position'[n] = q /\ paid'[n] = resting.limit /\ \A x \in Names : since'[x] = 0
  <2>1. position[n] = 0
    BY <1>1, <1>3, <1>6 DEF Held, TypeInv
  <2> QED
    BY <1>1, <1>2, <1>3, <1>6, <2>1 DEF TypeInv, PositionInv
<1>9. ASSUME pc = "idle"
      PROVE  PositionInv'
  <2>1. memory.bid > 0 /\ Near(resting.limit, memory.bid) /\ memory.contracts = q /\ memory.filled = 0
    BY <1>2, <1>6, <1>9 DEF PositionInv, IsBid, q
  <2>4. ASSUME NEW x \in Held'
        PROVE  Remembered(memory, x)'
    <3>1. x = n
      BY <1>7
    <3> QED
      BY <1>2, <1>3, <1>7, <1>8, <2>1, <3>1 DEF Remembered, Near
  <2>5. pc' = "idle" /\ ~IsBid(resting') /\ ~IsAsk(resting')
    BY <1>2, <1>9, NoOrderIsNone
  <2>6. \A x \in Names \ Held' : since'[x] = 0
    BY <1>8
  <2> QED
    BY <2>4, <2>5, <2>6 DEF PositionInv, IsBid, IsAsk
<1>10. PrincipalKept'
  BY <1>2 DEF PrincipalKept
<1>11. OutByDeadline'
  <2>1. \A x \in Held' : since'[x] = 0
    BY <1>7, <1>8, <1>3
  <2> QED
    BY <2>1 DEF OutByDeadline
<1>12. raced' \/ pc = "idle"
  BY <1>1, <1>2 DEF TypeInv
<1> QED
  BY <1>4, <1>5, <1>9, <1>10, <1>11, <1>12 DEF FlipInv

\* An ask fills.
LEMMA SoldStep ==
    ASSUME FlipInv, Sold
    PROVE  FlipInv'
<1> DEFINE n == resting.contract
           q == resting.quantity
<1>1. TypeInv /\ OrdersInv
  BY DEF FlipInv
<1>2. /\ resting # NoOrder /\ resting.role = "target"
      /\ position' = [position EXCEPT ![n] = @ - q]
      /\ since' = [since EXCEPT ![n] = 0] /\ paid' = [paid EXCEPT ![n] = 0]
      /\ resting' = NoOrder
      /\ UNCHANGED <<day, step, memory, pc, plan, trades, raced>>
  BY DEF Sold
<1>3. resting \in Placed /\ n \in Names /\ q \in Nat \ {0} /\ IsAsk(resting) /\ position[n] \in Nat
  BY <1>1, <1>2 DEF TypeInv, Placed, IsAsk
<1>4. q <= position[n]
  BY <1>1, <1>3 DEF OrdersInv
<1>5. ASSUME ~raced
      PROVE  PositionInv /\ Held = {n} /\ q = position[n]
  <2>1. PositionInv
    BY <1>5 DEF FlipInv
  <2> QED
    BY <1>3, <2>1 DEF PositionInv
<1> HIDE DEF n, q
<1>6. TypeInv'
  <2>1. position' \in [Names -> Nat]
    BY <1>1, <1>2, <1>3, <1>4 DEF TypeInv
  <2>2. paid' \in [Names -> Int] /\ since' \in [Names -> Nat]
    BY <1>1, <1>2, <1>3 DEF TypeInv
  <2> QED
    BY <1>1, <1>2, <2>1, <2>2 DEF TypeInv
<1>7. OrdersInv'
  BY <1>1, <1>2, NoOrderIsNone DEF OrdersInv, IsBid, IsAsk, WithinCap
<1>8. ASSUME ~raced
      PROVE  Held' = {} /\ \A x \in Names : since'[x] = 0
  <2>1. \A x \in Names : position'[x] = IF x = n THEN 0 ELSE position[x]
    BY <1>1, <1>2, <1>3, <1>5, <1>8 DEF TypeInv
  <2>2. \A x \in Names \ {n} : ~(position[x] > 0)
    BY <1>5, <1>8 DEF Held
  <2>3. Held' = {}
    BY <2>1, <2>2 DEF Held
  <2>4. \A x \in Names : since'[x] = IF x = n THEN 0 ELSE since[x]
    BY <1>1, <1>2, <1>3 DEF TypeInv
  <2> QED
    BY <1>5, <1>8, <2>3, <2>4 DEF PositionInv
<1>9. ASSUME ~raced
      PROVE  PositionInv'
  BY <1>2, <1>8, <1>9, NoOrderIsNone DEF PositionInv, IsBid, IsAsk
<1>10. PrincipalKept'
  BY <1>2 DEF PrincipalKept
<1>11. OutByDeadline'
  BY <1>2, <1>8 DEF OutByDeadline
<1> QED
  BY <1>2, <1>6, <1>7, <1>9, <1>10, <1>11 DEF FlipInv

\* The clock moves on, and a bid is for the day.
LEMMA ClockStep ==
    ASSUME FlipInv, Later \/ NextDay
    PROVE  FlipInv'
<1>1. TypeInv /\ OrdersInv
  BY DEF FlipInv
<1>2. /\ pc = "idle" /\ day' \in {day, day + 1}
      /\ step' = 1 \/ (step' = step + 1 /\ step < Len(Fractions))
      /\ resting' = resting \/ (resting' = NoOrder /\ resting.role = "entry")
      /\ UNCHANGED <<memory, position, pc, plan, paid, since, trades, raced>>
  BY DEF Later, NextDay
<1>3. TypeInv'
  <2>1. step' \in Steps
    BY <1>1, <1>2, StepsHaveShares, ConfigAssumption DEF TypeInv
  <2>2. day' \in Nat \ {0} /\ memory.filled <= day' /\ plan.memory.filled <= day'
    <3>1. day \in Nat \ {0} /\ memory.filled \in Nat /\ plan.memory.filled \in Nat
          /\ memory.filled <= day /\ plan.memory.filled <= day
      BY <1>1 DEF TypeInv, Memories
    <3> QED
      BY <1>2, <3>1
  <2>3. resting' \in Placed \cup {NoOrder}
    BY <1>1, <1>2 DEF TypeInv
  <2> QED
    BY <1>1, <1>2, <2>1, <2>2, <2>3 DEF TypeInv
<1>4. OrdersInv'
  BY <1>1, <1>2, NoOrderIsNone DEF OrdersInv, IsBid, IsAsk, WithinCap
<1>5. Held' = Held
  BY <1>2 DEF Held
<1>6. ASSUME ~raced
      PROVE  PositionInv'
  <2>1. PositionInv
    BY <1>6 DEF FlipInv
  <2>2. \A n \in Held' : Remembered(memory, n)'
    BY <1>2, <1>5, <2>1 DEF PositionInv, Remembered, Near
  <2> QED
    BY <1>2, <1>5, <2>1, <2>2, NoOrderIsNone DEF PositionInv, IsBid, IsAsk, Near
<1>7. PrincipalKept'
  BY <1>2 DEF FlipInv, PrincipalKept
<1>8. ASSUME NEW n \in Held', pc = "idle", ~raced, plan.left = 0,
             since[n] > 0, plan.day - since[n] >= Config.maxHold, plan.mark > 0
      PROVE  /\ resting' # NoOrder /\ resting'.role = "target" /\ resting'.contract = n
             /\ resting'.quantity = position[n]
             /\ 100 * Distance(resting'.limit, plan.mark) <= Slack(plan.mark, 0)
  <2>1. /\ resting # NoOrder /\ resting.role = "target" /\ resting.contract = n
        /\ resting.quantity = position[n]
        /\ 100 * Distance(resting.limit, plan.mark) <= Slack(plan.mark, 0)
    BY <1>5, <1>8 DEF FlipInv, OutByDeadline
  <2>2. resting' = resting
    BY <1>2, <2>1
  <2> QED
    BY <2>1, <2>2
<1>9. OutByDeadline'
  BY <1>2, <1>8 DEF OutByDeadline
<1> QED
  BY <1>2, <1>3, <1>4, <1>6, <1>7, <1>9 DEF FlipInv

-----------------------------------------------------------------------------
(* What follows *)

\* At every moment of every history, what is remembered, planned, resting and held belong together:
\* an order is for a contract of the symbol and, unless a bid has filled under a run, there is at
\* most one position, remembered with what was bid for it and since when.
THEOREM WhatIsHeldIsRemembered ==
    Spec => []FlipInv
<1>1. FlipInv /\ [Next]_vars => FlipInv'
  <2> SUFFICES ASSUME FlipInv, [Next]_vars
               PROVE  FlipInv'
    OBVIOUS
  <2>1. ASSUME NEW m \in Markets, PlanHeld(m)
        PROVE  FlipInv'
    BY <2>1, PlanHeldStep
  <2>2. ASSUME NEW m \in Markets, PlanFlat(m)
        PROVE  FlipInv'
    BY <2>2, PlanFlatStep
  <2>3. CASE Execute
    BY <2>3, ExecuteStep
  <2>4. CASE Bought
    BY <2>4, BoughtStep
  <2>5. CASE Sold
    BY <2>5, SoldStep
  <2>6. CASE Later \/ NextDay
    BY <2>6, ClockStep
  <2>7. CASE UNCHANGED vars
    BY <2>7 DEF vars, FlipInv, TypeInv, OrdersInv, PositionInv, PrincipalKept, OutByDeadline, Held,
                AskInv, Remembered, IsBid, IsAsk, WithinCap, Near
  <2> QED
    BY <2>1, <2>2, <2>3, <2>4, <2>5, <2>6, <2>7 DEF Next
<1> QED
  BY <1>1, InitHolds, PTL DEF Spec

\* However often a bid was re-priced, kept or re-aimed, it costs no more than the cap and is not
\* above the mark by more than a price may differ (contracts.py, lifecycle.py).
THEOREM BidStaysWithinLimits ==
    ASSUME Uncrossed
    PROVE  Spec => []BidWithinLimits
<1>1. FlipInv => BidWithinLimits
  BY DEF FlipInv, OrdersInv, BidWithinLimits, IsBid, WithinCap
<1> QED
  BY <1>1, WhatIsHeldIsRemembered, PTL

\* Until its deadline a position is offered at what was paid at least, but for two differences too
\* small to replace an order for (excursion.py, lifecycle.py).
THEOREM PrincipalIsKept ==
    Spec => []PrincipalKept
<1>1. FlipInv => PrincipalKept
  BY DEF FlipInv
<1> QED
  BY <1>1, WhatIsHeldIsRemembered, PTL

\* The run at the close of the last session of a hold leaves the whole position offered at its mark
\* (lifecycle.py).
THEOREM PositionIsOutByDeadline ==
    Spec => []OutByDeadline
<1>1. FlipInv => OutByDeadline
  BY DEF FlipInv
<1> QED
  BY <1>1, WhatIsHeldIsRemembered, PTL

=============================================================================
