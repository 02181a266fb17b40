--------------------------- MODULE BurstyDcaProofs ---------------------------
(***************************************************************************)
(* Proofs about BurstyDca for every budget, every set of prices and        *)
(* factors, and any number of plans, crashes and repetitions:              *)
(*   - types, and the catch-up cap with them;                              *)
(*   - the balance is what was earned less what was spent;                 *)
(*   - spending stays within the overdraft of earnings;                    *)
(*   - what a month really deploys is within the cap and a share, once     *)
(*     more for every time the state lost count of it;                     *)
(*   - a sell budget never opens a short.                                  *)
(***************************************************************************)
EXTENDS BurstyDca, TLAPS

-----------------------------------------------------------------------------
(* Arithmetic *)

LEMMA ConstantsType ==
    /\ Budget \in Nat /\ Budget * Multiple \in Nat /\ Budget * Relax \in Nat
    /\ Largest \in Nat /\ Overdraft \in Nat
<1>1. Budget \in Nat
  BY RateAssumption DEF Budget
<1>2. Budget * Multiple \in Nat /\ Budget * Relax \in Nat
  BY <1>1, SettingsAssumption
<1> QED
  BY <1>1, <1>2, PricesAssumption, FactorsAssumption DEF Largest, Overdraft

\* Multiplication by a natural is monotonic.
LEMMA TimesMonotonic ==
    ASSUME NEW a \in Nat, NEW b \in Int, NEW c \in Int, b <= c
    PROVE  a * b <= a * c
OBVIOUS

\* The shares a size buys cost no more than the size.
LEMMA SharesCost ==
    ASSUME NEW size \in Nat, NEW price \in Nat \ {0}, NEW q \in 0..(size \div price)
    PROVE  q * price \in Nat /\ q * price <= size
<1>1. size \div price \in Nat
  OBVIOUS
<1>2. price * (size \div price) <= size
  BY SMTT(30)
<1>3. price * q <= price * (size \div price)
  BY <1>1, TimesMonotonic
<1>4. price * q = q * price /\ q * price \in Nat
  OBVIOUS
<1>5. price * (size \div price) \in Nat
  BY <1>1
<1> QED
  BY <1>2, <1>3, <1>4, <1>5

\* Shares that cost no more than others are no more.
LEMMA SameSharesCostMore ==
    ASSUME NEW q \in Int, NEW r \in Int, NEW price \in Nat \ {0}, q * price <= r * price
    PROVE  q <= r
<1> SUFFICES ASSUME r + 1 <= q PROVE FALSE
  OBVIOUS
<1>1. price * (r + 1) <= price * q
  BY TimesMonotonic
<1>2. price * (r + 1) = r * price + price /\ price * q = q * price
  OBVIOUS
<1> QED
  BY <1>1, <1>2

-----------------------------------------------------------------------------
(* Sizing *)

LEMMA FactorsType ==
    ASSUME NEW s \in States, NEW c \in Convictions, NEW w \in Willingness
    PROVE  /\ (Budget * c * w) \div 100 \in Nat
           /\ Room(s) \in Nat /\ Room(s) <= Budget * Multiple
           /\ Room(s) > 0 => s.deployed + Room(s) <= Budget * Multiple
           /\ Allowance(s, c) \in Nat
           /\ s.accrued + Overdraft >= 0 => Allowance(s, c) <= s.accrued + Overdraft
<1>1. c \in Nat /\ w \in Nat /\ MaxConviction \in Nat /\ c <= MaxConviction
  BY FactorsAssumption
<1>2. s.accrued \in Int /\ s.deployed \in Nat
  BY DEF States
<1>3. (Budget * c * w) \div 100 \in Nat
  <2>1. Budget * c \in Nat
    BY <1>1, ConstantsType
  <2>2. Budget * c * w \in Nat
    BY <1>1, <2>1
  <2> QED
    BY <2>2
<1>4. /\ Room(s) \in Nat /\ Room(s) <= Budget * Multiple
      /\ Room(s) > 0 => s.deployed + Room(s) <= Budget * Multiple
  <2> DEFINE cap == Budget * Multiple
  <2>1. cap \in Nat
    BY ConstantsType
  <2>2. Room(s) = AtLeast(cap - AtLeast(s.deployed, 0), 0)
    BY DEF Room
  <2> HIDE DEF cap
  <2>3. /\ Room(s) \in Nat /\ Room(s) <= cap
        /\ Room(s) > 0 => s.deployed + Room(s) <= cap
    BY <1>2, <2>1, <2>2 DEF AtLeast
  <2> QED
    BY <2>3 DEF cap
<1>5. Allowance(s, c) \in Nat /\ (s.accrued + Overdraft >= 0 => Allowance(s, c) <= s.accrued + Overdraft)
  <2> DEFINE borrowed == Budget * Relax * c
  <2>1. borrowed \in Nat /\ borrowed <= Overdraft
    BY <1>1, ConstantsType, TimesMonotonic DEF Overdraft
  <2>2. Allowance(s, c) = AtLeast(s.accrued + borrowed, 0)
    BY DEF Allowance
  <2> HIDE DEF borrowed
  <2> QED
    BY <1>2, <2>1, <2>2, ConstantsType DEF AtLeast
<1> QED
  BY <1>3, <1>4, <1>5

\* A run takes no more than the month has room for, or one share; no more than was banked and may
\* be borrowed; and the lift is paid for.
LEMMA SizeBounds ==
    ASSUME NEW s \in States, NEW c \in Convictions, NEW w \in Willingness, NEW price \in Prices,
           s.accrued >= -Overdraft
    PROVE  LET size == PlannedOrderSize(s, c, w, price)
           IN /\ size \in Nat /\ size <= Largest
              /\ s.accrued - size >= -Overdraft
              /\ size > 0 => s.deployed + size < Budget * Multiple + price
<1> DEFINE desired == (Budget * c * w) \div 100
           room == Room(s)
           allowance == Allowance(s, c)
           cap == Budget * Multiple
           sized == Sized(s, c, w)
<1>1. s.accrued \in Int /\ s.deployed \in Nat
  BY DEF States
<1>2. price \in Nat \ {0} /\ Dearest \in Nat /\ price <= Dearest
  BY PricesAssumption
<1>3. /\ desired \in Nat /\ room \in Nat /\ room <= cap /\ allowance \in Nat
      /\ room > 0 => s.deployed + room <= cap
      /\ allowance <= s.accrued + Overdraft
  <2>1. s.accrued + Overdraft >= 0
    BY <1>1, ConstantsType
  <2> QED
    BY <2>1, FactorsType
<1>4. sized = AtMost(AtMost(desired, room), allowance)
  BY DEF Sized
<1>5. cap \in Nat /\ Overdraft \in Nat /\ Largest = cap + Dearest
  BY ConstantsType DEF Largest
<1>6. PlannedOrderSize(s, c, w, price) =
        IF 0 < sized /\ sized < price /\ price <= s.accrued THEN price ELSE sized
  BY DEF PlannedOrderSize
<1> HIDE DEF desired, room, allowance, cap, sized
<1>7. sized \in Nat /\ sized <= room /\ sized <= allowance
  BY <1>3, <1>4 DEF AtMost
<1>8. sized > 0 => s.deployed < cap /\ s.deployed + sized <= cap
  BY <1>1, <1>3, <1>5, <1>7
<1>9. s.accrued - sized >= -Overdraft
  BY <1>1, <1>3, <1>5, <1>7
<1>10. CASE 0 < sized /\ sized < price /\ price <= s.accrued
  <2>1. PlannedOrderSize(s, c, w, price) = price
    BY <1>6, <1>10
  <2>2. price <= Largest /\ s.accrued - price >= -Overdraft /\ s.deployed + price < cap + price
    BY <1>1, <1>2, <1>5, <1>8, <1>10
  <2> QED
    BY <1>2, <2>1, <2>2 DEF cap
<1>11. CASE ~(0 < sized /\ sized < price /\ price <= s.accrued)
  <2>1. PlannedOrderSize(s, c, w, price) = sized
    BY <1>6, <1>11
  <2>2. sized <= Largest /\ (sized > 0 => s.deployed + sized < cap + price)
    BY <1>1, <1>2, <1>3, <1>5, <1>7, <1>8
  <2> QED
    BY <1>7, <1>9, <2>1, <2>2 DEF cap
<1> QED
  BY <1>10, <1>11

-----------------------------------------------------------------------------
(* The invariant *)

Plans == [state : States, size : Nat, price : Nat \ {0}, wanted : BOOLEAN, earned : Nat,
          made : BOOLEAN, fresh : BOOLEAN]

LEMMA EmptyTypes ==
    NewState \in States /\ NoPlan \in Plans
BY RateAssumption DEF NewState, NoPlan, States, Plans

LEMMA InitInv == Init => DcaInv
<1> SUFFICES ASSUME Init PROVE DcaInv
  OBVIOUS
<1> USE DEF Init
<1>1. TypeOK
  <2>1. saved \in States /\ plans \in [Slots -> Plans]
    BY EmptyTypes
  <2>2. day \in 0..Month - 1 /\ held \in Int /\ ledger \in Int /\ crashes \in Nat /\ replays \in Nat
    BY RateAssumption
  <2>3. buying \in BOOLEAN /\ raced \in BOOLEAN /\ outcome \in Outcomes
    BY DEF Outcomes
  <2>4. running \in Slots \cup {None} /\ placed \in Nat \cup {NotYet}
    OBVIOUS
  <2> QED
    BY <2>1, <2>2, <2>3, <2>4 DEF TypeOK, Plans
<1>2. RunInv
  BY DEF RunInv, NoPlan
<1>3. SizeInv
  BY ConstantsType DEF SizeInv, NoPlan, NewState
<1>4. LedgerInv
  <2>1. Out = 0
    BY DEF Out, NotYet
  <2> QED
    BY <2>1, ConstantsType DEF LedgerInv, NoPlan, NewState
<1>5. ShortInv
  BY DEF ShortInv, NoPlan
<1>6. MonthInv
  <2>1. Out = 0 /\ Counted(NewState) = 0
    BY DEF Out, NotYet, Counted, NewState
  <2>2. running = None /\ strays * Largest = 0
    BY ConstantsType
  <2>3. /\ saved.deployed = 0
        /\ \A s \in Slots : plans[s].state = NewState /\ ~plans[s].made /\ ~plans[s].fresh
    BY DEF NoPlan, NewState
  <2> QED
    BY <2>1, <2>2, <2>3, ConstantsType DEF MonthInv
<1> QED
  BY <1>1, <1>2, <1>3, <1>4, <1>5, <1>6 DEF DcaInv

\* plan(): what is proposed is sized to the state it is made from.
LEMMA ProposeStep ==
    ASSUME DcaInv, NEW slot \in Slots, NEW c \in Convictions, NEW w \in Willingness,
           NEW price \in Prices, Propose(slot, c, w, price)
    PROVE  DcaInv'
<1> DEFINE s == Accrue(saved)
           planned == PlannedOrderSize(s, c, w, price)
           size == Clamped(planned, price)
           p == plans'[slot]
<1>1. TypeOK /\ RunInv /\ SizeInv /\ LedgerInv /\ MonthInv /\ ShortInv
  BY DEF DcaInv
<1>2. /\ running = None
      /\ plans' = [plans EXCEPT ![slot] =
            [state |-> s, size |-> IF size >= price THEN size ELSE 0, price |-> price,
             wanted |-> c > 0 /\ (buying \/ held > 0), earned |-> Rate * saved.since,
             made |-> TRUE, fresh |-> TRUE]]
      /\ UNCHANGED <<buying, day, held, saved, running, placed, outcome, ledger, crashes, replays, raced,
                     spent, strays>>
  BY DEF Propose, ofTheMonth
<1>3. placed = NotYet
  BY <1>1, <1>2 DEF RunInv
<1>4. /\ saved \in States /\ plans \in [Slots -> Plans] /\ held \in Int /\ buying \in BOOLEAN
      /\ price \in Nat \ {0} /\ Rate \in Nat
  BY <1>1, PricesAssumption, RateAssumption DEF TypeOK, Plans
<1>5. Rate * saved.since \in Nat
  BY <1>4 DEF States
<1>6. s \in States /\ s.accrued = saved.accrued + Rate * saved.since
  <2>1. s.accrued = IF saved.seeded THEN saved.accrued + Rate * saved.since ELSE saved.accrued
    BY <1>4 DEF Accrue, States
  <2>2. ~saved.seeded => Rate * saved.since = 0
    BY <1>1, <1>4 DEF LedgerInv
  <2>3. s \in States
    <3>1. s = [seeded |-> TRUE, since |-> 0, old |-> FALSE,
               accrued |-> IF saved.seeded THEN saved.accrued + Rate * saved.since ELSE saved.accrued,
               deployed |-> IF saved.old THEN 0 ELSE saved.deployed]
      BY DEF Accrue
    <3>2. saved.accrued \in Int /\ saved.deployed \in Nat /\ 0 \in 0..Month
      BY <1>4, RateAssumption DEF States
    <3> HIDE DEF s
    <3> QED
      BY <1>5, <3>1, <3>2 DEF States
  <2> QED
    BY <1>4, <2>1, <2>2, <2>3 DEF States
<1>7. s.accrued >= -Overdraft
  BY <1>1, <1>4, <1>5, <1>6, ConstantsType DEF SizeInv, States
<1>8. /\ planned \in Nat /\ planned <= Largest /\ s.accrued - planned >= -Overdraft
      /\ planned > 0 => s.deployed + planned < Budget * Multiple + price
  BY <1>6, <1>7, SizeBounds
<1>9. /\ size \in Int /\ size <= planned
      /\ ~buying => size <= held * price
  BY <1>4, <1>8 DEF Clamped, AtMost
<1>10. /\ p.state = s /\ p.price = price /\ p.earned = Rate * saved.since /\ p.made /\ p.fresh
       /\ p.size = IF size >= price THEN size ELSE 0
  BY <1>2, <1>4
<1>11. \A t \in Slots : t # slot => plans'[t] = plans[t]
  BY <1>2, <1>4
<1>12. p \in Plans /\ p.size <= planned
  BY <1>2, <1>4, <1>5, <1>6, <1>8, <1>9 DEF Plans
<1> HIDE DEF s, planned, size, p
<1>13. TypeOK'
  <2>1. plans' \in [Slots -> Plans]
    BY <1>2, <1>4, <1>12 DEF p
  <2> QED
    BY <1>1, <1>2, <2>1 DEF TypeOK, Plans
<1>14. RunInv'
  BY <1>1, <1>2, <1>3, <1>10, <1>11 DEF RunInv, p
<1>15. SizeInv'
  <2>1. /\ p.size <= Largest /\ p.state.accrued - p.size >= -Overdraft
        /\ p.size > 0 => p.state.deployed + p.size < Largest
    <3>1. s.accrued \in Int /\ s.deployed \in Nat /\ p.size \in Nat
      BY <1>6, <1>12 DEF States, Plans
    <3>2. price <= Dearest /\ Dearest \in Nat
      BY PricesAssumption
    <3> QED
      BY <1>4, <1>8, <1>10, <1>12, <3>1, <3>2, ConstantsType DEF Largest
  <2> QED
    BY <1>1, <1>2, <1>11, <2>1 DEF SizeInv, p
<1>18. MonthInv'
  <2>1. Out' = Out
    BY <1>2, <1>3 DEF Out
  <2>2. s.seeded /\ Counted(s) = Counted(saved)
    BY DEF s, Accrue, Counted
  <2>3. running' = None
    BY <1>2
  <2>4. \A t \in Slots :
            /\ plans'[t].made => plans'[t].state.seeded
            /\ Counted(plans'[t].state) > 0 => Counted(plans'[t].state) < Largest
            /\ plans'[t].fresh => Counted(plans'[t].state) = Counted(saved)
    BY <1>1, <1>10, <1>11, <2>2 DEF MonthInv, p
  <2> QED
    BY <1>1, <1>2, <2>1, <2>3, <2>4 DEF MonthInv
<1>16. LedgerInv'
  <2>1. Out' = Out
    BY <1>2, <1>3 DEF Out
  <2>2. \A t \in Slots : plans'[t].fresh => plans'[t].state.accrued = saved.accrued + plans'[t].earned
    BY <1>1, <1>6, <1>10, <1>11 DEF LedgerInv, p
  <2>3. s.seeded
    BY DEF s, Accrue
  <2>4. \A t \in Slots : ~plans'[t].state.seeded => plans'[t].state.since = 0
    BY <1>1, <1>10, <1>11, <2>3 DEF LedgerInv, p
  <2> QED
    BY <1>1, <1>2, <2>1, <2>2, <2>4 DEF LedgerInv
<1>17. ShortInv'
  <2> SUFFICES ASSUME ~raced, replays = 0, crashes = 0
               PROVE  /\ held >= 0
                      /\ ~buying => \A t \in Slots : plans'[t].fresh => plans'[t].size <= held * plans'[t].price
    BY <1>2, <1>3 DEF ShortInv
  <2>1. held >= 0 /\ (~buying => \A t \in Slots : plans[t].fresh => plans[t].size <= held * plans[t].price)
    BY <1>1, <1>3 DEF ShortInv
  <2>2. held * price >= 0
    BY <1>4, <2>1
  <2>3. ~buying => p.size <= held * p.price
    BY <1>4, <1>9, <1>10, <2>2
  <2> QED
    BY <1>11, <2>1, <2>3 DEF p
<1> QED
  BY <1>13, <1>14, <1>15, <1>16, <1>17, <1>18 DEF DcaInv

LEMMA ExecuteStep ==
    ASSUME DcaInv, NEW slot \in Slots, Execute(slot)
    PROVE  DcaInv'
<1> USE DEF Execute
<1>1. TypeOK /\ RunInv /\ SizeInv /\ LedgerInv /\ MonthInv /\ ShortInv
  BY DEF DcaInv
<1>2. placed = NotYet /\ slot # None /\ replays \in Nat /\ replays' \in Nat /\ (replays' = 0 => replays = 0)
  BY <1>1, SlotsAssumption DEF RunInv, TypeOK, None
<1>3. TypeOK'
  <2>1. strays' \in Nat
    <3>1. strays \in Nat /\ Once(~plans[slot].fresh) \in Nat /\ Once(plans[slot].state.old) \in Nat
      BY <1>1 DEF TypeOK, Once
    <3> QED
      BY <3>1
  <2> QED
    BY <1>1, <1>2, <2>1 DEF TypeOK
<1>4. RunInv'
  BY <1>1, <1>2 DEF RunInv
<1>5. SizeInv'
  BY <1>1 DEF SizeInv
<1>6. LedgerInv'
  <2>1. Out' = Out
    BY <1>2 DEF Out
  <2>2. replays' = 0 => ledger' = ledger
    BY <1>2
  <2> QED
    BY <1>1, <1>2, <2>1, <2>2 DEF LedgerInv
<1>7. ShortInv'
  BY <1>1, <1>2 DEF ShortInv
<1>8. MonthInv'
  <2> DEFINE p == plans[slot]
             resent == Once(~p.fresh)
             overdue == Once(p.state.old)
             lost == strays * Largest
  <2>1. /\ running' = slot /\ strays' = strays + resent + overdue
        /\ UNCHANGED <<saved, plans, spent, placed>> /\ Out = 0 /\ Out' = 0
    BY <1>2 DEF Out
  <2>2. /\ p \in Plans /\ strays \in Nat /\ spent \in Nat /\ Largest \in Nat /\ lost \in Nat
        /\ saved \in States
    BY <1>1, ConstantsType DEF TypeOK, Plans
  <2>3. Counted(saved) \in Nat /\ Counted(saved) <= Largest /\ spent <= Counted(saved) + lost
    <3>1. Counted(saved) \in Nat
      BY <2>2 DEF Counted, States
    <3> QED
      BY <1>1, <2>1, <2>2, <3>1 DEF MonthInv
  <2>4. resent \in {0, 1} /\ overdue \in {0, 1}
    BY DEF Once
  <2>5. /\ (strays + 1) * Largest = lost + Largest
        /\ (strays + 2) * Largest = lost + Largest + Largest
    BY <2>2
  <2>6. strays' * Largest >= lost
    BY <2>1, <2>2, <2>4, <2>5
  <2>7. ASSUME ~p.fresh \/ p.state.old
        PROVE  spent <= (strays' - overdue) * Largest
    <3>1. strays' - overdue = strays + resent
      BY <2>1, <2>2, <2>4
    <3>2. CASE ~p.fresh
      <4>1. resent = 1
        BY <3>2 DEF Once
      <4> QED
        BY <2>2, <2>3, <2>5, <3>1, <4>1
    <3>3. CASE p.fresh /\ p.state.old
      <4>1. Counted(saved) = 0
        BY <1>1, <3>3 DEF MonthInv, Counted
      <4>2. resent = 0
        BY <3>3 DEF Once
      <4> QED
        BY <2>2, <2>3, <3>1, <4>1, <4>2
    <3> QED
      BY <2>7, <3>2, <3>3
  <2>8. spent' <= Counted(saved') + Out' + strays' * Largest
    <3>1. strays' * Largest \in Nat
      BY <2>1, <2>2, <2>4
    <3> QED
      BY <2>1, <2>2, <2>3, <2>6, <3>1
  <2>9. (strays' - overdue) * Largest \in Int
    BY <2>1, <2>2, <2>4
  <2>10. ~plans'[running'].fresh \/ plans'[running'].state.old =>
            spent' <= Out' + (strays' - Once(plans'[running'].state.old)) * Largest
    BY <2>1, <2>7, <2>9
  <2> HIDE DEF p, resent, overdue, lost
  <2> QED
    BY <1>1, <2>1, <2>8, <2>10 DEF MonthInv
<1> QED
  BY <1>3, <1>4, <1>5, <1>6, <1>7, <1>8 DEF DcaInv

\* place_orders takes no more than the plan is worth: no more shares than are held, when it sells.
LEMMA PlaceStep ==
    ASSUME DcaInv, NEW q \in 0..Largest, PlaceOrders(q)
    PROVE  DcaInv'
<1> DEFINE p == plans[running]
           cost == q * p.price
<1>1. TypeOK /\ RunInv /\ SizeInv /\ LedgerInv /\ MonthInv /\ ShortInv
  BY DEF DcaInv
<1>2. /\ running # None /\ placed = NotYet /\ q \in 0..(p.size \div p.price)
      /\ placed' = q
      /\ held' = IF buying THEN held ELSE held - q
      /\ ledger' = IF replays > 0 THEN 0 ELSE ledger - cost
      /\ outcome' \in Outcomes
      /\ spent' = spent + cost
      /\ UNCHANGED <<buying, day, saved, plans, running, crashes, replays, raced, strays>>
  BY DEF PlaceOrders, Shares, Outcomes
<1>3. running \in Slots /\ p \in Plans
  BY <1>1, <1>2 DEF TypeOK, Plans
<1>4. p.size \in Nat /\ p.price \in Nat \ {0}
  BY <1>3 DEF Plans
<1>5. cost \in Nat /\ cost <= p.size
  BY <1>2, <1>4, SharesCost
<1>6. q \in Nat /\ q # NotYet
  BY <1>2, ConstantsType DEF NotYet
<1>7. Out = 0 /\ Out' = cost
  BY <1>2, <1>6 DEF Out
<1>8. held \in Int /\ ledger \in Int /\ replays \in Nat /\ saved.accrued \in Int
  BY <1>1 DEF TypeOK, States
<1> HIDE DEF cost
<1>9. TypeOK'
  <2>1. held' \in Int /\ ledger' \in Int /\ spent' \in Nat
    BY <1>1, <1>2, <1>5, <1>6, <1>8 DEF TypeOK
  <2> QED
    BY <1>1, <1>2, <1>6, <2>1 DEF TypeOK
<1>10. RunInv'
  BY <1>1, <1>2, <1>6 DEF RunInv, Shares
<1>11. SizeInv'
  BY <1>1, <1>2 DEF SizeInv
<1>14. MonthInv'
  <2> DEFINE behind == strays - Once(p.state.old)
  <2>1. /\ saved \in States /\ strays \in Nat /\ spent \in Nat /\ Largest \in Nat /\ strays * Largest \in Nat
    BY <1>1, ConstantsType DEF TypeOK
  <2>2. Counted(saved) \in Nat
    BY <2>1 DEF Counted, States
  <2>3. behind * Largest \in Int
    BY <2>1 DEF Once
  <2>4. spent' <= Counted(saved) + Out' + strays * Largest
    BY <1>1, <1>2, <1>5, <1>7, <2>1, <2>2 DEF MonthInv
  <2>5. ~p.fresh \/ p.state.old => spent' <= Out' + behind * Largest
    <3>1. ~p.fresh \/ p.state.old => spent <= 0 + behind * Largest
      BY <1>1, <1>2, <1>7 DEF MonthInv
    <3> HIDE DEF behind
    <3> QED
      BY <1>2, <1>5, <1>7, <2>1, <2>3, <3>1
  <2> QED
    BY <1>1, <1>2, <2>4, <2>5 DEF MonthInv
<1>12. LedgerInv'
  <2>1. ASSUME replays = 0
        PROVE  saved.accrued - Out' \in ledger' .. ledger' + crashes * Largest
    <3>1. saved.accrued - 0 \in ledger .. ledger + crashes * Largest
      BY <1>1, <1>7, <2>1 DEF LedgerInv
    <3>2. crashes * Largest \in Int
      BY <1>1, ConstantsType DEF TypeOK
    <3>3. ledger' = ledger - cost
      BY <1>2, <2>1
    <3> QED
      BY <1>5, <1>7, <1>8, <3>1, <3>2, <3>3
  <2> QED
    BY <1>1, <1>2, <2>1 DEF LedgerInv
<1>13. ShortInv'
  <2> SUFFICES ASSUME ~raced, replays = 0, crashes = 0 PROVE held' >= 0
    BY <1>2, <1>6 DEF ShortInv
  <2>1. held >= 0
    BY <1>1 DEF ShortInv
  <2>2. CASE buying
    BY <1>2, <2>1, <2>2
  <2>3. CASE ~buying
    <3>1. p.size <= held * p.price
      BY <1>1, <1>2, <1>3, <2>3 DEF ShortInv, RunInv
    <3>2. cost <= held * p.price /\ held * p.price \in Int
      BY <1>4, <1>5, <1>8, <3>1
    <3>3. q <= held
      BY <1>4, <1>6, <1>8, <3>2, SameSharesCostMore DEF cost
    <3> QED
      BY <1>2, <1>6, <1>8, <2>3, <3>3
  <2> QED
    BY <2>2, <2>3
<1> QED
  BY <1>9, <1>10, <1>11, <1>12, <1>13, <1>14 DEF DcaInv

\* save_state books what was placed against the state the plan was made from.
LEMMA SaveStep ==
    ASSUME DcaInv, Save
    PROVE  DcaInv'
<1> DEFINE p == plans[running]
           cost == placed * p.price
<1>1. TypeOK /\ RunInv /\ SizeInv /\ LedgerInv /\ MonthInv /\ ShortInv
  BY DEF DcaInv
<1>2. /\ running # None /\ placed # NotYet
      /\ saved' = [p.state EXCEPT !.accrued = @ - cost, !.deployed = @ + cost]
      /\ plans' = [t \in Slots |->
            IF crashes + replays < MaxFaults THEN [plans[t] EXCEPT !.fresh = FALSE] ELSE NoPlan]
      /\ running' = None /\ placed' = NotYet
      /\ ledger' = IF replays > 0 THEN 0 ELSE ledger + p.earned
      /\ UNCHANGED <<buying, day, held, outcome, crashes, replays, raced, spent, strays>>
  BY DEF Save, DrawnDown, ofTheMonth
<1>3. running \in Slots /\ p \in Plans /\ placed \in Nat /\ plans \in [Slots -> Plans]
  BY <1>1, <1>2 DEF TypeOK, Plans
<1>4. p.size \in Nat /\ p.price \in Nat \ {0} /\ p.earned \in Nat /\ p.state \in States
  BY <1>3 DEF Plans
<1>5. placed \in 0..(p.size \div p.price)
  <2>1. p.size \div p.price \in Int
    BY <1>4
  <2> QED
    BY <1>1, <1>2, <1>3, <2>1 DEF RunInv, Shares
<1>6. cost \in Nat /\ cost <= p.size
  BY <1>4, <1>5, SharesCost
<1>7. /\ p.state.accrued \in Int /\ p.state.deployed \in Nat
      /\ saved.accrued \in Int /\ ledger \in Int /\ replays \in Nat
  BY <1>1, <1>4 DEF TypeOK, States
<1>8. Out = cost /\ Out' = 0
  BY <1>2 DEF Out
<1> HIDE DEF cost
<1>9. /\ saved'.accrued = p.state.accrued - cost /\ saved'.since = p.state.since
      /\ saved'.seeded = p.state.seeded
  BY <1>2, <1>4 DEF States
<1>10. \A t \in Slots :
          /\ plans'[t] \in Plans /\ ~plans'[t].fresh
          /\ plans'[t] = NoPlan \/ (/\ plans'[t].size = plans[t].size /\ plans'[t].price = plans[t].price
                                    /\ plans'[t].state = plans[t].state)
  <2> TAKE t \in Slots
  <2>1. plans'[t] = NoPlan \/ plans'[t] = [plans[t] EXCEPT !.fresh = FALSE]
    BY <1>2
  <2>2. plans[t] \in Plans
    BY <1>3
  <2>3. CASE plans'[t] = NoPlan
    BY <2>3, EmptyTypes DEF NoPlan
  <2>4. CASE plans'[t] = [plans[t] EXCEPT !.fresh = FALSE]
    BY <2>2, <2>4 DEF Plans
  <2> QED
    BY <2>1, <2>3, <2>4
<1>11. TypeOK'
  <2>1. saved' \in States
    <3>1. p.state.accrued - cost \in Int /\ p.state.deployed + cost \in Nat
      BY <1>6, <1>7
    <3> QED
      BY <1>2, <1>4, <3>1 DEF States
  <2>2. plans' \in [Slots -> Plans]
    BY <1>2, <1>10
  <2>3. ledger' \in Int
    BY <1>2, <1>4, <1>7
  <2> QED
    BY <1>1, <1>2, <2>1, <2>2, <2>3 DEF TypeOK, Plans
<1>12. RunInv'
  BY <1>2, <1>10 DEF RunInv
<1>13. SizeInv'
  <2>1. saved'.accrued >= -Overdraft
    <3>1. p.state.accrued - p.size >= -Overdraft
      BY <1>1, <1>3 DEF SizeInv
    <3> QED
      BY <1>4, <1>6, <1>7, <1>9, <3>1, ConstantsType
  <2>2. ASSUME NEW t \in Slots
        PROVE  /\ plans'[t].size <= Largest
               /\ plans'[t].state.accrued - plans'[t].size >= -Overdraft
               /\ plans'[t].size > 0 => plans'[t].state.deployed + plans'[t].size < Largest
    <3>1. CASE plans'[t] = NoPlan
      BY <3>1, ConstantsType DEF NoPlan, NewState
    <3>2. CASE plans'[t] # NoPlan
      BY <1>1, <1>10, <2>2, <3>2 DEF SizeInv
    <3> QED
      BY <3>1, <3>2
  <2> QED
    BY <2>1, <2>2 DEF SizeInv
<1>14. LedgerInv'
  <2>1. ~saved'.seeded => saved'.since = 0
    BY <1>1, <1>3, <1>9 DEF LedgerInv
  <2>3. \A t \in Slots : ~plans'[t].state.seeded => plans'[t].state.since = 0
    BY <1>1, <1>10 DEF LedgerInv, NoPlan, NewState
  <2>2. ASSUME replays = 0
        PROVE  saved'.accrued - Out' \in ledger' .. ledger' + crashes * Largest
    <3>1. saved.accrued - cost \in ledger .. ledger + crashes * Largest
      BY <1>1, <1>8, <2>2 DEF LedgerInv
    <3>2. p.state.accrued = saved.accrued + p.earned
      BY <1>1, <1>2, <1>3, <2>2 DEF RunInv, LedgerInv
    <3>3. ledger' = ledger + p.earned
      BY <1>2, <2>2
    <3>4. crashes * Largest \in Int
      BY <1>1, ConstantsType DEF TypeOK
    <3> QED
      BY <1>4, <1>6, <1>7, <1>8, <1>9, <3>1, <3>2, <3>3, <3>4
  <2> QED
    BY <1>2, <1>10, <2>1, <2>2, <2>3 DEF LedgerInv
<1>15. ShortInv'
  BY <1>1, <1>2, <1>10 DEF ShortInv
<1>16. MonthInv'
  <2> DEFINE lost == strays * Largest
             old == p.state.old
  <2>1. /\ saved \in States /\ strays \in Nat /\ spent \in Nat /\ Largest \in Nat /\ lost \in Nat
        /\ p.made /\ old \in BOOLEAN
    BY <1>1, <1>2, <1>4, ConstantsType DEF TypeOK, RunInv, States
  <2>2. saved'.deployed = p.state.deployed + cost /\ saved'.old = old
    BY <1>2, <1>4 DEF States
  <2>3. saved'.seeded
    BY <1>1, <1>3, <1>9, <2>1 DEF MonthInv
  <2>4. cost > 0 => p.state.deployed + cost < Largest
    BY <1>1, <1>3, <1>4, <1>6, <1>7, ConstantsType DEF SizeInv
  <2>5. Counted(saved') > 0 => Counted(saved') < Largest
    <3>1. CASE old
      BY <2>2, <3>1 DEF Counted
    <3>2. CASE ~old
      <4>1. Counted(saved') = p.state.deployed + cost
        BY <2>2, <3>2 DEF Counted
      <4>2. p.state.deployed > 0 => p.state.deployed < Largest
        BY <1>1, <1>3, <3>2 DEF MonthInv, Counted
      <4> QED
        BY <1>6, <1>7, <2>4, <4>1, <4>2
    <3> QED
      BY <3>1, <3>2
  <2>6. ASSUME NEW t \in Slots
        PROVE  /\ plans'[t].made => plans'[t].state.seeded
               /\ Counted(plans'[t].state) > 0 => Counted(plans'[t].state) < Largest
               /\ ~plans'[t].fresh
    <3>1. CASE plans'[t] = NoPlan
      BY <1>10, <3>1 DEF NoPlan, NewState, Counted
    <3>2. CASE plans'[t] # NoPlan
      <4>1. plans'[t] = [plans[t] EXCEPT !.fresh = FALSE] /\ plans[t] \in Plans
        BY <1>2, <1>3, <3>2
      <4>2. plans'[t].made = plans[t].made /\ plans'[t].state = plans[t].state
        BY <4>1 DEF Plans
      <4> QED
        BY <1>1, <1>10, <4>2 DEF MonthInv
    <3> QED
      BY <3>1, <3>2
  <2>7. spent <= Counted(saved') + lost
    <3>1. CASE old
      <4>1. spent <= cost + (strays - 1) * Largest
        BY <1>1, <1>2, <1>8, <3>1 DEF MonthInv, Once
      <4>2. (strays - 1) * Largest = lost - Largest
        BY <2>1
      <4>3. cost <= Largest
        BY <1>1, <1>3, <1>4, <1>6, <2>1 DEF SizeInv
      <4>4. Counted(saved') = 0
        BY <2>2, <3>1 DEF Counted
      <4> QED
        BY <1>6, <2>1, <4>1, <4>2, <4>3, <4>4
    <3>2. CASE ~old /\ ~p.fresh
      <4>1. spent <= cost + (strays - 0) * Largest
        BY <1>1, <1>2, <1>8, <3>2 DEF MonthInv, Once
      <4>2. (strays - 0) * Largest = lost
        BY <2>1
      <4>3. Counted(saved') = p.state.deployed + cost
        BY <2>2, <3>2 DEF Counted
      <4> QED
        BY <1>6, <1>7, <2>1, <4>1, <4>2, <4>3
    <3>3. CASE ~old /\ p.fresh
      <4>1. p.state.deployed = Counted(saved)
        BY <1>1, <1>3, <3>3 DEF MonthInv, Counted
      <4>2. spent <= Counted(saved) + cost + lost
        BY <1>1, <1>8 DEF MonthInv
      <4>3. Counted(saved') = p.state.deployed + cost
        BY <2>2, <3>3 DEF Counted
      <4> QED
        BY <1>6, <1>7, <2>1, <4>1, <4>2, <4>3
    <3> QED
      BY <3>1, <3>2, <3>3
  <2>8. Counted(saved') \in Nat
    BY <1>6, <1>7, <2>2 DEF Counted
  <2>9. spent' <= Counted(saved') + Out' + strays' * Largest
    BY <1>2, <1>8, <2>1, <2>7, <2>8
  <2>10. running' = None
    BY <1>2
  <2> QED
    BY <2>3, <2>5, <2>6, <2>9, <2>10 DEF MonthInv
<1> QED
  BY <1>11, <1>12, <1>13, <1>14, <1>15, <1>16 DEF DcaInv

\* A run that dies unsaved hides its orders, and no more than the most one run may deploy.
LEMMA CrashStep ==
    ASSUME DcaInv, Crash
    PROVE  DcaInv'
<1> DEFINE p == plans[running]
           cost == placed * p.price
<1>1. TypeOK /\ RunInv /\ SizeInv /\ LedgerInv /\ MonthInv /\ ShortInv
  BY DEF DcaInv
<1>2. /\ running # None /\ placed # NotYet
      /\ crashes' = crashes + 1 /\ strays' = strays + 1
      /\ running' = None /\ placed' = NotYet
      /\ UNCHANGED <<buying, day, held, saved, plans, outcome, ledger, replays, raced, spent>>
  BY DEF Crash
<1>3. running \in Slots /\ p \in Plans /\ placed \in Nat
  BY <1>1, <1>2 DEF TypeOK, Plans
<1>4. p.size \in Nat /\ p.price \in Nat \ {0}
  BY <1>3 DEF Plans
<1>5. placed \in 0..(p.size \div p.price)
  <2>1. p.size \div p.price \in Int
    BY <1>4
  <2> QED
    BY <1>1, <1>2, <1>3, <2>1 DEF RunInv, Shares
<1>6. cost \in Nat /\ cost <= p.size
  BY <1>4, <1>5, SharesCost
<1>7. Out = cost /\ Out' = 0
  BY <1>2 DEF Out
<1>8. crashes \in Nat /\ saved.accrued \in Int /\ ledger \in Int
  BY <1>1 DEF TypeOK, States
<1> HIDE DEF cost
<1>9. TypeOK'
  <2>1. crashes' \in Nat /\ strays' \in Nat
    BY <1>1, <1>2, <1>8 DEF TypeOK
  <2> QED
    BY <1>1, <1>2, <2>1 DEF TypeOK
<1>10. RunInv'
  BY <1>1, <1>2 DEF RunInv
<1>11. SizeInv'
  BY <1>1, <1>2 DEF SizeInv
<1>12. LedgerInv'
  <2>1. ASSUME replays = 0
        PROVE  saved.accrued - Out' \in ledger .. ledger + crashes' * Largest
    <3>1. saved.accrued - cost \in ledger .. ledger + crashes * Largest
      BY <1>1, <1>7, <2>1 DEF LedgerInv
    <3>2. cost <= Largest
      BY <1>1, <1>3, <1>4, <1>6, ConstantsType DEF SizeInv
    <3>3. crashes * Largest \in Int /\ crashes' * Largest = crashes * Largest + Largest
      BY <1>2, <1>8, ConstantsType
    <3> QED
      BY <1>6, <1>7, <1>8, <3>1, <3>2, <3>3, ConstantsType
  <2> QED
    BY <1>1, <1>2, <2>1 DEF LedgerInv
<1>13. ShortInv'
  BY <1>2, <1>8 DEF ShortInv
<1>14. MonthInv'
  <2>1. saved \in States /\ strays \in Nat /\ spent \in Nat /\ Largest \in Nat /\ strays * Largest \in Nat
    BY <1>1, ConstantsType DEF TypeOK
  <2>2. Counted(saved) \in Nat
    BY <2>1 DEF Counted, States
  <2>3. cost <= Largest
    BY <1>1, <1>3, <1>4, <1>6, <2>1 DEF SizeInv
  <2>4. strays' * Largest = strays * Largest + Largest
    BY <1>2, <2>1
  <2>5. spent' <= Counted(saved) + Out' + strays' * Largest
    <3>1. spent <= Counted(saved) + cost + strays * Largest
      BY <1>1, <1>7 DEF MonthInv
    <3> QED
      BY <1>2, <1>6, <1>7, <2>1, <2>2, <2>3, <2>4, <3>1
  <2>6. running' = None
    BY <1>2
  <2> QED
    BY <1>1, <1>2, <2>5, <2>6 DEF MonthInv
<1> QED
  BY <1>9, <1>10, <1>11, <1>12, <1>13, <1>14 DEF DcaInv

\* Time changes nothing but how long ago the state was made.
LEMMA OlderType ==
    ASSUME NEW s \in States, NEW monthEnds \in BOOLEAN
    PROVE  /\ Older(s, monthEnds) \in States
           /\ Older(s, monthEnds).accrued = s.accrued /\ Older(s, monthEnds).deployed = s.deployed
           /\ Older(s, monthEnds).seeded = s.seeded
           /\ ~s.seeded => Older(s, monthEnds).since = s.since
<1> DEFINE grows == s.seeded /\ s.since < Month /\ s.accrued + Rate * (s.since + 1) <= MaxAccrued
           age == IF grows THEN s.since + 1 ELSE s.since
           old == s.old \/ (s.seeded /\ monthEnds)
<1>1. Older(s, monthEnds) = [s EXCEPT !.since = age, !.old = old]
  BY DEF Older, States
<1>2. s.since \in 0..Month /\ Month \in Nat /\ (grows => s.since < Month)
  BY RateAssumption DEF States
<1>3. ~s.seeded => age = s.since
  OBVIOUS
<1> HIDE DEF grows
<1>4. age \in 0..Month
  BY <1>2
<1>5. old \in BOOLEAN
  OBVIOUS
<1> HIDE DEF age, old
<1> QED
  BY <1>1, <1>3, <1>4, <1>5 DEF States

\* The month's count starts anew once the month has ended.
LEMMA OlderCounted ==
    ASSUME NEW s \in States, NEW monthEnds \in BOOLEAN
    PROVE  Counted(Older(s, monthEnds)) = IF s.seeded /\ monthEnds THEN 0 ELSE Counted(s)
<1> DEFINE age == IF s.since < Month /\ s.seeded /\ s.accrued + Rate * (s.since + 1) <= MaxAccrued
                  THEN s.since + 1 ELSE s.since
           old == s.old \/ (s.seeded /\ monthEnds)
<1>1. Older(s, monthEnds) = [s EXCEPT !.since = age, !.old = old]
  BY DEF Older, States
<1> HIDE DEF age
<1>2. Older(s, monthEnds).old = old /\ Older(s, monthEnds).deployed = s.deployed
  BY <1>1 DEF States
<1> QED
  BY <1>2 DEF Counted, States

LEMMA TickStep ==
    ASSUME DcaInv, Tick
    PROVE  DcaInv'
<1> DEFINE ends == day' = 0
<1>1. TypeOK /\ RunInv /\ SizeInv /\ LedgerInv /\ MonthInv /\ ShortInv
  BY DEF DcaInv
<1>2. /\ day' = (day + 1) % Month
      /\ saved' = Older(saved, ends)
      /\ plans' = [t \in Slots |-> [plans[t] EXCEPT !.state = Older(@, ends)]]
      /\ IF ends THEN spent' = 0 /\ strays' = 0 ELSE spent' = spent /\ strays' = strays
      /\ UNCHANGED <<buying, held, running, placed, outcome, ledger, crashes, replays, raced>>
  BY DEF Tick, ofTheMonth
<1>3. saved \in States /\ plans \in [Slots -> Plans] /\ ends \in BOOLEAN
  BY <1>1 DEF TypeOK, Plans
<1>4. /\ saved' \in States /\ saved'.accrued = saved.accrued /\ saved'.seeded = saved.seeded
      /\ ~saved.seeded => saved'.since = saved.since
  BY <1>2, <1>3, OlderType
<1>5. \A t \in Slots :
          /\ plans'[t] \in Plans
          /\ plans'[t].size = plans[t].size /\ plans'[t].price = plans[t].price
          /\ plans'[t].earned = plans[t].earned
          /\ plans'[t].fresh = plans[t].fresh /\ plans'[t].made = plans[t].made
          /\ plans'[t].state.accrued = plans[t].state.accrued
          /\ plans'[t].state.deployed = plans[t].state.deployed
          /\ plans'[t].state.seeded = plans[t].state.seeded
          /\ ~plans[t].state.seeded => plans'[t].state.since = plans[t].state.since
  <2> TAKE t \in Slots
  <2>1. plans[t] \in Plans /\ plans[t].state \in States
    BY <1>3 DEF Plans
  <2>2. plans'[t] = [plans[t] EXCEPT !.state = Older(plans[t].state, ends)]
    BY <1>2
  <2> DEFINE aged == Older(plans[t].state, ends)
  <2>3. /\ aged \in States
        /\ aged.accrued = plans[t].state.accrued /\ aged.deployed = plans[t].state.deployed
        /\ aged.seeded = plans[t].state.seeded
        /\ ~plans[t].state.seeded => aged.since = plans[t].state.since
    BY <1>3, <2>1, OlderType
  <2>4. plans'[t] = [plans[t] EXCEPT !.state = aged]
    BY <2>2
  <2> HIDE DEF aged, ends
  <2> QED
    BY <2>1, <2>3, <2>4 DEF Plans
<1>6. Out' = Out
  BY <1>1, <1>2, <1>5 DEF Out, RunInv, TypeOK
<1>7. TypeOK'
  <2>1. day' \in 0..Month - 1
    BY <1>1, <1>2, RateAssumption DEF TypeOK
  <2>2. plans' \in [Slots -> Plans]
    BY <1>2, <1>5
  <2>3. spent' \in Nat /\ strays' \in Nat
    BY <1>1, <1>2 DEF TypeOK
  <2> QED
    BY <1>1, <1>2, <1>4, <2>1, <2>2, <2>3 DEF TypeOK, Plans
<1>8. RunInv'
  <2>1. ASSUME running # None
        PROVE  /\ Shares(plans'[running]) = Shares(plans[running])
               /\ plans'[running].fresh = plans[running].fresh /\ plans'[running].made = plans[running].made
    BY <1>1, <1>5, <2>1 DEF Shares, TypeOK
  <2>2. /\ placed' # NotYet => running' # None /\ placed' <= Shares(plans'[running'])
        /\ running' # None => plans'[running'].made
        /\ replays' = 0 /\ running' # None => plans'[running'].fresh
    BY <1>1, <1>2, <2>1 DEF RunInv
  <2> QED
    BY <1>1, <1>5, <2>2 DEF RunInv
<1>9. SizeInv'
  BY <1>1, <1>4, <1>5 DEF SizeInv
<1>10. LedgerInv'
  <2>1. ~saved'.seeded => saved'.since = 0
    BY <1>1, <1>4 DEF LedgerInv
  <2>2. ASSUME NEW t \in Slots
        PROVE  /\ ~plans'[t].state.seeded => plans'[t].state.since = 0
               /\ plans'[t].fresh => plans'[t].state.accrued = saved'.accrued + plans'[t].earned
    BY <1>1, <1>4, <1>5, <2>2 DEF LedgerInv
  <2>3. replays' = 0 => saved'.accrued - Out' \in ledger' .. ledger' + crashes' * Largest
    BY <1>1, <1>2, <1>4, <1>6 DEF LedgerInv
  <2> QED
    BY <2>1, <2>2, <2>3 DEF LedgerInv
<1>11. ShortInv'
  BY <1>1, <1>2, <1>5 DEF ShortInv
<1>12. MonthInv'
  <2>1. /\ Counted(saved') = IF saved.seeded /\ ends THEN 0 ELSE Counted(saved)
        /\ saved'.deployed = saved.deployed
    BY <1>2, <1>3, OlderCounted, OlderType
  <2>2. ASSUME NEW t \in Slots
        PROVE  Counted(plans'[t].state) = IF plans[t].state.seeded /\ ends THEN 0 ELSE Counted(plans[t].state)
    <3>1. plans[t] \in Plans /\ plans[t].state \in States
      BY <1>3 DEF Plans
    <3>2. plans'[t].state = Older(plans[t].state, ends)
      BY <1>2, <3>1 DEF Plans
    <3> HIDE DEF ends
    <3> QED
      BY <1>3, <3>1, <3>2, OlderCounted
  <2>3. ends => Counted(saved') = 0
    BY <1>1, <2>1 DEF MonthInv, Counted
  <2>4. ASSUME NEW t \in Slots
        PROVE  /\ plans'[t].made => plans'[t].state.seeded
               /\ Counted(plans'[t].state) > 0 => Counted(plans'[t].state) < Largest
               /\ plans'[t].fresh => Counted(plans'[t].state) = Counted(saved')
    <3>1. plans'[t].made => plans'[t].state.seeded
      BY <1>1, <1>5 DEF MonthInv
    <3>2. Counted(plans'[t].state) > 0 => Counted(plans'[t].state) < Largest
      BY <1>1, <2>2 DEF MonthInv
    <3>3. plans'[t].fresh => plans[t].state.seeded /\ Counted(plans[t].state) = Counted(saved)
      BY <1>1, <1>5 DEF MonthInv, RunInv
    <3> QED
      BY <2>1, <2>2, <2>3, <3>1, <3>2, <3>3
  <2>5. spent' <= Counted(saved') + Out' + strays' * Largest
    <3>1. Out = 0 /\ Out' = 0
      BY <1>1, <1>2 DEF Out, RunInv, Tick
    <3>2. CASE ends
      <4>1. spent' = 0 /\ strays' * Largest = 0
        BY <1>2, <3>2, ConstantsType
      <4> QED
        BY <2>3, <3>1, <3>2, <4>1
    <3>3. CASE ~ends
      <4>1. Counted(saved') = Counted(saved) /\ spent' = spent /\ strays' = strays
        BY <1>2, <2>1, <3>3
      <4> QED
        BY <1>1, <3>1, <4>1 DEF MonthInv
    <3> QED
      BY <3>2, <3>3
  <2>6. running' = None
    BY DEF Tick
  <2>7. ~saved'.seeded => saved'.deployed = 0
    BY <1>1, <1>4, <2>1 DEF MonthInv
  <2>8. Counted(saved') > 0 => Counted(saved') < Largest
    BY <1>1, <2>1 DEF MonthInv
  <2> HIDE DEF ends
  <2> QED
    BY <2>4, <2>5, <2>6, <2>7, <2>8 DEF MonthInv
<1> QED
  BY <1>7, <1>8, <1>9, <1>10, <1>11, <1>12 DEF DcaInv

LEMMA OwnerStep ==
    ASSUME DcaInv, NEW q \in {1, -1}, Owner(q)
    PROVE  DcaInv'
<1>1. TypeOK /\ RunInv /\ SizeInv /\ LedgerInv /\ MonthInv /\ ShortInv
  BY DEF DcaInv
<1>2. /\ held + q \in 0..MaxHeld /\ held' = held + q
      /\ raced' = (raced \/ (q < 0 /\ \E s \in Slots : plans[s].made))
      /\ UNCHANGED <<buying, day, saved, plans, running, placed, outcome, ledger, crashes, replays,
                     spent, strays>>
  BY DEF Owner, ofTheMonth
<1>3. held \in Int /\ MaxHeld \in Nat /\ plans \in [Slots -> Plans]
  BY <1>1, BoundsAssumption DEF TypeOK, Plans
<1>4. Out' = Out
  BY <1>2 DEF Out
<1>5. TypeOK'
  <2>1. held' \in Int
    BY <1>2, <1>3
  <2>2. raced' \in BOOLEAN
    BY <1>2
  <2> QED
    BY <1>1, <1>2, <2>1, <2>2 DEF TypeOK
<1>6. RunInv'
  BY <1>1, <1>2 DEF RunInv
<1>7. SizeInv'
  BY <1>1, <1>2 DEF SizeInv
<1>8. LedgerInv'
  BY <1>1, <1>2, <1>4 DEF LedgerInv
<1>9. ShortInv'
  <2> SUFFICES ASSUME ~raced', replays = 0, crashes = 0
               PROVE  /\ held' >= 0
                      /\ ~buying /\ placed = NotYet =>
                            \A s \in Slots : plans[s].fresh => plans[s].size <= held' * plans[s].price
    BY <1>2 DEF ShortInv
  <2>1. ~raced /\ ~(q < 0 /\ \E s \in Slots : plans[s].made)
    BY <1>2
  <2>2. ASSUME NEW s \in Slots, ~buying, placed = NotYet, plans[s].fresh
        PROVE  plans[s].size <= held' * plans[s].price
    <3>1. plans[s].size <= held * plans[s].price
      BY <1>1, <2>1, <2>2 DEF ShortInv
    <3>2. plans[s].made
      BY <1>1, <2>2 DEF RunInv
    <3>3. held' = held + 1
      BY <1>2, <2>1, <3>2
    <3>4. plans[s].size \in Nat /\ plans[s].price \in Nat
      BY <1>3 DEF Plans
    <3>5. held' * plans[s].price = held * plans[s].price + plans[s].price
      BY <1>3, <3>3, <3>4
    <3> QED
      BY <1>3, <3>1, <3>4, <3>5
  <2> QED
    BY <1>2, <1>3, <2>2
<1>10. MonthInv'
  BY <1>1, <1>2, <1>4 DEF MonthInv
<1> QED
  BY <1>5, <1>6, <1>7, <1>8, <1>9, <1>10 DEF DcaInv

LEMMA NextInv ==
    DcaInv /\ [Next]_vars => DcaInv'
<1> SUFFICES ASSUME DcaInv, [Next]_vars PROVE DcaInv'
  OBVIOUS
<1>1. CASE \E slot \in Slots, c \in Convictions, w \in Willingness, price \in Prices :
              Propose(slot, c, w, price)
  BY <1>1, ProposeStep
<1>2. CASE \E slot \in Slots : Execute(slot)
  BY <1>2, ExecuteStep
<1>3. CASE \E q \in 0..Largest : PlaceOrders(q)
  BY <1>3, PlaceStep
<1>4. CASE Save
  BY <1>4, SaveStep
<1>5. CASE Crash
  BY <1>5, CrashStep
<1>6. CASE Tick
  BY <1>6, TickStep
<1>7. CASE \E q \in {1, -1} : Owner(q)
  BY <1>7, OwnerStep
<1>8. CASE UNCHANGED vars
  BY <1>8 DEF vars, DcaInv, TypeOK, RunInv, SizeInv, LedgerInv, MonthInv, ShortInv, Out, Shares
<1> QED
  BY <1>1, <1>2, <1>3, <1>4, <1>5, <1>6, <1>7, <1>8 DEF Next

LEMMA DcaInvariant == Spec => []DcaInv
<1>1. Init => DcaInv
  BY InitInv
<1>2. DcaInv /\ [Next]_vars => DcaInv'
  BY NextInv
<1> QED
  BY <1>1, <1>2, PTL DEF Spec

-----------------------------------------------------------------------------
(* What follows from it *)

\* States, plans and counters keep their types, and no state is ever more than a month behind,
\* which is the catch-up cap of accrue.
THEOREM DcaTypes == Spec => []TypeOK
<1>1. DcaInv => TypeOK
  BY DEF DcaInv
<1> QED
  BY <1>1, DcaInvariant, PTL

\* Whatever the cadence, the previews, the trims and the refusals, the balance state_after saves is
\* what was earned less what was spent, but for the runs that were never saved.
THEOREM BalanceIsExact == Spec => []AccrualExact
<1>1. DcaInv => AccrualExact
  <2> SUFFICES ASSUME DcaInv, running = None, replays = 0
               PROVE  saved.accrued \in ledger .. ledger + crashes * Largest
    BY DEF AccrualExact
  <2>1. Out = 0
    BY DEF DcaInv, RunInv, Out
  <2>2. saved.accrued - 0 \in ledger .. ledger + crashes * Largest
    BY <2>1 DEF DcaInv, LedgerInv
  <2>3. saved.accrued \in Int
    BY DEF DcaInv, TypeOK, States
  <2> QED
    BY <2>2, <2>3
<1> QED
  BY <1>1, DcaInvariant, PTL

\* spending_allowance bounds what is spent ahead of what is earned: the overdraft, and a run for
\* every one that was never saved.
THEOREM SpendingFollowsEarning == Spec => []NeverFasterThanEarned
<1>1. DcaInv => NeverFasterThanEarned
  <2> SUFFICES ASSUME DcaInv, running = None, replays = 0
               PROVE  ledger + Rate * saved.since >= -Overdraft - crashes * Largest
    BY DEF NeverFasterThanEarned
  <2>1. Out = 0
    BY DEF DcaInv, RunInv, Out
  <2>2. saved.accrued - 0 \in ledger .. ledger + crashes * Largest
    BY <2>1 DEF DcaInv, LedgerInv
  <2>3. saved.accrued >= -Overdraft
    BY DEF DcaInv, SizeInv
  <2>4. saved.accrued \in Int /\ ledger \in Int /\ crashes \in Nat /\ saved.since \in Nat
    BY RateAssumption DEF DcaInv, TypeOK, States
  <2>5. Rate * saved.since \in Nat /\ crashes * Largest \in Nat
    BY <2>4, RateAssumption, ConstantsType
  <2> QED
    BY <2>2, <2>3, <2>4, <2>5, ConstantsType
<1> QED
  BY <1>1, DcaInvariant, PTL

\* Over all the runs of a month what the broker took is less than monthly_cap and one share, and as
\* much again for every run never saved, every plan sent again and every plan of another month.
THEOREM CapPassedByLessThanAShare == Spec => []MonthlyCap
<1>1. DcaInv => MonthlyCap
  <2> DEFINE p == plans[running]
             lost == strays * Largest
  <2> SUFFICES ASSUME DcaInv, spent > 0
               PROVE  spent < (1 + strays) * Largest
    BY DEF MonthlyCap
  <2>1. TypeOK /\ RunInv /\ SizeInv /\ MonthInv
    BY DEF DcaInv
  <2>2. /\ strays \in Nat /\ spent \in Nat /\ saved \in States /\ Largest \in Nat /\ lost \in Nat
        /\ (1 + strays) * Largest = lost + Largest
    BY <2>1, ConstantsType DEF TypeOK
  <2>3. Counted(saved) \in Nat
    BY <2>2 DEF Counted, States
  <2>4. spent <= Counted(saved) + Out + lost
    BY <2>1 DEF MonthInv
  <2>5. strays > 0 => lost = (strays - 1) * Largest + Largest
    BY <2>2
  <2>6. Largest = 0 => lost = 0
    BY <2>2
  <2>7. CASE Out = 0
    <3>1. Counted(saved) > 0 => Counted(saved) < Largest
      BY <2>1 DEF MonthInv
    <3> HIDE DEF lost
    <3> QED
      BY <2>2, <2>3, <2>4, <2>6, <2>7, <3>1
  <2>8. CASE Out # 0
    <3>1. /\ running \in Slots /\ p \in Plans /\ placed \in Nat /\ Out = placed * p.price
          /\ placed <= Shares(p)
      BY <2>1, <2>8 DEF TypeOK, RunInv, Out, Plans, NotYet
    <3>2. p.size \in Nat /\ p.price \in Nat \ {0} /\ p.state \in States
      BY <3>1 DEF Plans
    <3>3. placed \in 0..(p.size \div p.price)
      <4>1. p.size \div p.price \in Int
        BY <3>2
      <4> QED
        BY <3>1, <4>1 DEF Shares
    <3>4. Out \in Nat /\ Out <= p.size
      BY <3>1, <3>2, <3>3, SharesCost
    <3>5. p.state.deployed \in Nat /\ p.state.deployed + Out < Largest
      <4>1. p.state.deployed \in Nat /\ p.size > 0
        BY <2>8, <3>2, <3>4 DEF States
      <4> QED
        BY <2>1, <2>2, <3>1, <3>2, <3>4, <4>1 DEF SizeInv
    <3>6. running # None
      BY <3>1, SlotsAssumption DEF None
    <3>7. CASE p.fresh /\ ~p.state.old
      <4>1. p.state.deployed = Counted(saved)
        BY <2>1, <3>1, <3>7 DEF MonthInv, Counted
      <4> HIDE DEF lost, p
      <4> QED
        BY <2>2, <2>4, <3>4, <3>5, <4>1
    <3>8. CASE p.state.old
      <4>1. spent <= Out + (strays - 1) * Largest
        BY <2>1, <3>6, <3>8 DEF MonthInv, Once
      <4>2. (strays - 1) * Largest = lost - Largest
        BY <2>2
      <4> HIDE DEF lost, p
      <4> QED
        BY <2>2, <3>4, <3>5, <4>1, <4>2
    <3>9. CASE ~p.fresh /\ ~p.state.old
      <4>1. spent <= Out + (strays - 0) * Largest
        BY <2>1, <3>6, <3>9 DEF MonthInv, Once
      <4>2. (strays - 0) * Largest = lost
        BY <2>2
      <4> HIDE DEF lost, p
      <4> QED
        BY <2>2, <3>4, <3>5, <4>1, <4>2
    <3> QED
      BY <3>7, <3>8, <3>9
  <2> QED
    BY <2>7, <2>8
<1> QED
  BY <1>1, DcaInvariant, PTL

\* The clamp of plan() keeps a sell budget from opening a short, unless somebody else sold first, a
\* plan was sent again, or a run was never saved.
THEOREM SellBudgetNeverShorts == Spec => []NeverShorts
<1>1. DcaInv => NeverShorts
  BY DEF DcaInv, ShortInv, NeverShorts
<1> QED
  BY <1>1, DcaInvariant, PTL

=============================================================================
