------------------------ MODULE OrderReconcileProofs ------------------------
(***************************************************************************)
(* Proofs about OrderReconcile, for every number of order ids, every price *)
(* and size, every set of accounts and faults.  The inductive invariant    *)
(* says which order of a role the run, or the record between runs, knows   *)
(* of: each lost answer, crash or repeated plan leaves at most one working *)
(* order that it does not know of.  With a bracket at a venue that lists   *)
(* only the children of one this is not so, and the theorems leave that    *)
(* role out or that configuration.                                         *)
(***************************************************************************)
EXTENDS OrderReconcile, FiniteSetTheorems, TLAPS

\* Some account sends brackets where the wrapper of one is not listed.
PairsHeld == \E a \in Accounts : a.stopOn /\ SupportsOco(a.venue)

\* The roles whose orders get_orders lists under the id that was recorded.
VisibleRoles == IF PairsHeld THEN Roles \ {"bracket"} ELSE Roles

-----------------------------------------------------------------------------
(* Types *)

Work == {"none", "cancel", "submit", "replace", "recancel"}
MaybeIds == [Roles -> OrderIds \cup {NoId}]

ActionOf(k) == IF k = "entry" THEN "buy" ELSE "sell"
TypeOf(k)   == IF k = "stop" THEN "stop" ELSE "limit"

\* A request or a row that is of its role's side and type, with the price that type has.
Shaped(k, r) ==
    /\ r.action = ActionOf(k) /\ r.type = TypeOf(k)
    /\ r.quantity \in Nat /\ r.limit \in Nat /\ r.stop \in Nat
    /\ k = "stop" => r.limit = 0
    /\ k # "stop" => r.stop = 0

\* A single order for something, judged within the tolerance when it has a limit.
Wanted(k, r) ==
    /\ DOMAIN r = {"contract", "action", "type", "quantity", "limit", "stop", "tolerance", "strategy",
                   "children"}
    /\ Shaped(k, r) /\ r.quantity > 0
    /\ IF k = "stop" THEN r.stop > 0 ELSE r.limit > 0
    /\ r.strategy = "single" /\ r.tolerance = IF k = "stop" THEN 0 ELSE Tolerance

PlanInv ==
    \A k \in VisibleRoles :
        plan.wanted[k] = NoOrder \/ (k # "bracket" /\ Wanted(k, plan.wanted[k]))

\* What the venue was sent, with a row of its own in the listing.
Spelled(k, order) ==
    /\ DOMAIN order = {"legs", "children"} /\ HasRow(order)
    /\ DOMAIN order.legs[1] = {"contract", "instruction", "type", "quantity", "limit", "stop"}
    /\ Shaped(k, RowOf(order))

\* A working order of a role that is listed.
OrderInv(i) ==
    /\ DOMAIN book[i] = {"role", "sent", "left"}
    /\ book[i].role \in Roles
    /\ book[i].role \in VisibleRoles =>
        /\ book[i].role # "bracket" /\ book[i].left \in Nat
        /\ Spelled(book[i].role, book[i].sent)

\* An id on record is that of an order of its role, or of none that works.
RefersTo(ids) == \A k \in Roles : ids[k] \in Working => book[ids[k]].role = k

TypeInv ==
    /\ account \in Accounts
    /\ DOMAIN book = OrderIds
    /\ position \in [Series -> Nat] /\ faults \in Nat
    /\ pc \in {"idle", "list", "work"}
    /\ saved.ids \in MaybeIds /\ saved.contracts \in Nat
    /\ plan.ids \in MaybeIds /\ plan.contracts \in Nat /\ DOMAIN plan.wanted = Roles
    /\ orderIds \in MaybeIds
    /\ todo \in [Roles -> Work]

ReferInv == RefersTo(saved.ids) /\ RefersTo(plan.ids) /\ RefersTo(orderIds)

\* What is still to be done for a role: only a run at work has any, and it has no order yet.
WorkInv ==
    \A k \in Roles :
        /\ pc # "work" => todo[k] = "none" /\ orderIds[k] = NoId
        /\ todo[k] # "none" => orderIds[k] = NoId
        /\ todo[k] = "cancel" => plan.wanted[k] = NoOrder
        /\ todo[k] \in {"submit", "replace", "recancel"} => plan.wanted[k] # NoOrder

BaseInv ==
    /\ TypeInv
    /\ PlanInv
    /\ \A i \in Working : OrderInv(i)
    /\ ReferInv

-----------------------------------------------------------------------------
(* What is sent and what is listed *)

\* What the run wants is listed as it was asked for, and needs no replacing.
LEMMA SentAsWanted ==
    ASSUME NEW k \in Roles, NEW r, NEW venue \in Venues, Wanted(k, r)
    PROVE  /\ Takes(venue, r)
           /\ Spelled(k, Sent(venue, r))
           /\ ~Differs(RowOf(Sent(venue, r)), r)
           /\ RowOf(Sent(venue, r)).contract = r.contract
<1> DEFINE row == Row(Leg(r))
<1>1. /\ DOMAIN Sent(venue, r) = {"legs", "children"} /\ HasRow(Sent(venue, r))
      /\ Sent(venue, r).legs[1] = Leg(r)
  BY DEF Wanted, Sent, SchwabOrder, SchwabNode, AlpacaOrder, HasRow
<1>2. /\ row.action = r.action /\ row.quantity = r.quantity /\ row.type = r.type
      /\ row.limit = LimitOf(r) /\ row.stop = StopOf(r) /\ row.contract = r.contract
  BY DEF Wanted, Shaped, ActionOf, Row, Leg, Instruction, Direction
<1>3. LimitOf(r) = r.limit /\ StopOf(r) = r.stop
  BY DEF Wanted, Shaped, TypeOf, LimitOf, StopOf
<1>4. Takes(venue, r)
  BY DEF Wanted, Shaped, Takes, AlpacaTakes, Venues
<1> HIDE DEF row
<1>5. Shaped(k, row)
  BY <1>2, <1>3 DEF Wanted, Shaped
<1>6. ~Differs(row, r)
  BY <1>2, <1>3, ToleranceAssumption DEF Wanted, Shaped, Differs, Moved, Distance, Higher
<1>7. DOMAIN Leg(r) = {"contract", "instruction", "type", "quantity", "limit", "stop"}
  BY DEF Leg
<1>8. RowOf(Sent(venue, r)) = row
  BY <1>1 DEF RowOf, row
<1> QED
  BY <1>1, <1>2, <1>4, <1>5, <1>6, <1>7, <1>8 DEF Spelled

\* And so is what it puts in the place of an order of the same role, but that one of the venues keeps
\* the contract of the order it changes.
LEMMA ReplacedAsWanted ==
    ASSUME NEW k \in Roles, NEW r, NEW venue \in Venues, NEW old, Wanted(k, r), Spelled(k, old)
    PROVE  /\ Spelled(k, SentInstead(venue, old, r))
           /\ ~Differs(RowOf(SentInstead(venue, old, r)), r)
           /\ venue = "schwab" => RowOf(SentInstead(venue, old, r)).contract = r.contract
           /\ venue # "schwab" => RowOf(SentInstead(venue, old, r)).contract = RowOf(old).contract
<1> DEFINE order == SentInstead(venue, old, r)
           leg == order.legs[1]
<1>1. /\ DOMAIN order = {"legs", "children"} /\ HasRow(order)
      /\ DOMAIN leg = {"contract", "instruction", "type", "quantity", "limit", "stop"}
      /\ leg.quantity = r.quantity /\ leg.limit = LimitOf(r) /\ leg.stop = StopOf(r)
      /\ Direction(leg.instruction) = r.action /\ leg.type = r.type
      /\ leg.contract = IF venue = "schwab" THEN r.contract ELSE old.legs[1].contract
  <2>1. CASE venue = "schwab"
    <3> DEFINE bare == [r EXCEPT !.children = <<>>]
    <3>1. /\ bare.action = r.action /\ bare.type = r.type /\ bare.quantity = r.quantity
          /\ bare.limit = r.limit /\ bare.stop = r.stop /\ bare.contract = r.contract
      BY DEF Wanted
    <3>2. order = SchwabNode(bare)
      BY <2>1 DEF SentInstead, SchwabReplacement, Wanted
    <3> HIDE DEF bare
    <3>3. DOMAIN order = {"legs", "children"} /\ HasRow(order) /\ leg = Leg(bare)
      BY <3>2 DEF SchwabNode, HasRow
    <3> HIDE DEF leg, order
    <3> QED
      BY <2>1, <3>1, <3>3 DEF Leg, LimitOf, StopOf, Wanted, Shaped, ActionOf, Instruction, Direction
  <2>2. CASE venue = "alpaca"
    <3> DEFINE first == old.legs[1]
               moved == [first EXCEPT !.quantity = r.quantity, !.limit = LimitOf(r), !.stop = StopOf(r)]
    <3>1. order = [old EXCEPT !.legs = <<moved>>]
      BY <2>2 DEF SentInstead, AlpacaReplacement, Venues
    <3>2. DOMAIN order = {"legs", "children"} /\ HasRow(order) /\ leg = moved
      BY <3>1 DEF HasRow, Spelled
    <3>3. DOMAIN first = {"contract", "instruction", "type", "quantity", "limit", "stop"}
      BY DEF Spelled
    <3>4. Direction(first.instruction) = r.action /\ first.type = r.type
      BY DEF Spelled, RowOf, Row, Shaped, Wanted
    <3>5. venue # "schwab" /\ first.contract = old.legs[1].contract
      BY <2>2
    <3> HIDE DEF leg, order, first
    <3> QED
      BY <3>2, <3>3, <3>4, <3>5
  <2> QED
    BY <2>1, <2>2 DEF Venues
<1> DEFINE row == Row(leg)
<1>2. /\ row.action = r.action /\ row.quantity = r.quantity /\ row.type = r.type
      /\ row.limit = LimitOf(r) /\ row.stop = StopOf(r) /\ row.contract = leg.contract
  BY <1>1 DEF Row
<1>3. LimitOf(r) = r.limit /\ StopOf(r) = r.stop
  BY DEF Wanted, Shaped, TypeOf, LimitOf, StopOf
<1>4. RowOf(order) = row /\ RowOf(old).contract = old.legs[1].contract
  BY DEF RowOf, Row
<1> HIDE DEF row
<1>5. Shaped(k, row)
  BY <1>2, <1>3 DEF Wanted, Shaped
<1>6. ~Differs(row, r)
  BY <1>2, <1>3, ToleranceAssumption DEF Wanted, Shaped, Differs, Moved, Distance, Higher
<1> QED
  BY <1>1, <1>2, <1>4, <1>5, <1>6 DEF Spelled

-----------------------------------------------------------------------------
(* What a step does to the book                                            *)

\* Orders only go.
Shrinks == \A j \in Working' : j \in Working /\ book'[j] = book[j]

\* An order is sent under a new id, and others may go.
Adds(k, sent) ==
    /\ NewId \in OrderIds \ Working
    /\ \A m \in Roles : NewId \notin {saved.ids[m], plan.ids[m], orderIds[m]}
    /\ book'[NewId] = Placed(k, sent)
    /\ \A j \in Working' \ {NewId} : j \in Working /\ book'[j] = book[j]

LEMMA Removing ==
    ASSUME TypeInv, NEW i, book' \in {book, [book EXCEPT ![i] = NoOrder]}
    PROVE  DOMAIN book' = OrderIds /\ Shrinks
BY DEF TypeInv, Shrinks, Working

LEMMA Placing ==
    ASSUME TypeInv, Free # {}, NEW i, NEW rest \in {book, [book EXCEPT ![i] = NoOrder]},
           NEW k \in Roles, NEW sent, book' = [rest EXCEPT ![NewId] = Placed(k, sent)]
    PROVE  DOMAIN book' = OrderIds /\ Adds(k, sent)
<1>1. NewId \in Free
  BY DEF NewId
<1>2. /\ NewId \in OrderIds \ Working
      /\ \A m \in Roles : NewId \notin {saved.ids[m], plan.ids[m], orderIds[m]}
  BY <1>1 DEF Free
<1> DEFINE n == NewId
           placed == Placed(k, sent)
<1>3. book' = [rest EXCEPT ![n] = placed] /\ n \in OrderIds
  BY <1>2
<1> HIDE DEF n, placed
<1>4. DOMAIN book' = OrderIds /\ book'[n] = placed
  BY <1>3 DEF TypeInv
<1>5. \A j \in Working' \ {n} : j \in Working /\ book'[j] = book[j]
  BY <1>3 DEF TypeInv, Working
<1> QED
  BY <1>2, <1>4, <1>5 DEF Adds, n, placed

LEMMA OrdersAfterShrink ==
    ASSUME \A i \in Working : OrderInv(i), Shrinks
    PROVE  \A i \in Working' : OrderInv(i)'
BY DEF Shrinks, OrderInv

LEMMA OrdersAfterAdd ==
    ASSUME \A i \in Working : OrderInv(i), NEW k \in Roles, NEW sent, Adds(k, sent),
           k \in VisibleRoles => k # "bracket" /\ Spelled(k, sent) /\ plan.wanted[k].quantity \in Nat
    PROVE  \A i \in Working' : OrderInv(i)'
<1> SUFFICES ASSUME NEW i \in Working'
             PROVE  OrderInv(i)'
  OBVIOUS
<1>1. CASE i = NewId
  BY <1>1 DEF Adds, OrderInv, Placed
<1>2. CASE i # NewId
  BY <1>2 DEF Adds, OrderInv
<1> QED
  BY <1>1, <1>2

LEMMA RefersAfterShrink ==
    ASSUME NEW ids, RefersTo(ids), Shrinks
    PROVE  \A k \in Roles : ids[k] \in Working' => book'[ids[k]].role = k
BY DEF RefersTo, Shrinks

LEMMA RefersAfterAdd ==
    ASSUME NEW ids, RefersTo(ids), NEW k \in Roles, NEW sent, Adds(k, sent),
           \A m \in Roles : m # k => ids[m] # NewId
    PROVE  \A m \in Roles : ids[m] \in Working' => book'[ids[m]].role = m
<1> SUFFICES ASSUME NEW m \in Roles, ids[m] \in Working'
             PROVE  book'[ids[m]].role = m
  OBVIOUS
<1>1. CASE ids[m] = NewId
  BY <1>1 DEF Adds, Placed
<1>2. CASE ids[m] # NewId
  BY <1>2 DEF Adds, RefersTo
<1> QED
  BY <1>1, <1>2

-----------------------------------------------------------------------------
(* Types hold                                                              *)

LEMMA ExitWanted ==
    ASSUME TypeInv, NEW c, NEW p \in Asks[account.venue]
    PROVE  /\ DOMAIN Exit(c, p) = Roles
           /\ \A k \in VisibleRoles :
                 Exit(c, p)[k] = NoOrder \/ (k # "bracket" /\ Wanted(k, Exit(c, p)[k]))
           /\ Exit(c, p)["entry"] = NoOrder
           /\ ExitQuantity \in Nat
<1>1. account.venue \in Venues /\ p \in Prices
  BY AccountsAssumption, PricesAssumption DEF TypeInv, Prices
<1>2. ExitQuantity \in Nat /\ ExitQuantity > 0
  BY DEF TypeInv, ExitQuantity
<1>3. Wanted("target", Ask(c, ExitQuantity, p)) /\ Wanted("stop", StopLoss(c, ExitQuantity, StopPrice))
  BY <1>1, <1>2, PricesAssumption
     DEF Wanted, Shaped, Ask, StopLoss, Single, ActionOf, TypeOf, Prices
<1>4. DOMAIN Exit(c, p) = Roles
  BY DEF Exit
<1>5. ASSUME NEW k \in VisibleRoles
      PROVE  Exit(c, p)[k] = NoOrder \/ (k # "bracket" /\ Wanted(k, Exit(c, p)[k]))
  <2>1. k \in Roles /\ (k = "bracket" => ~(account.stopOn /\ SupportsOco(account.venue)))
    BY <1>5 DEF VisibleRoles, PairsHeld, TypeInv
  <2> QED
    BY <1>3, <2>1 DEF Exit
<1> QED
  BY <1>2, <1>4, <1>5 DEF Exit, Roles, Sells

LEMMA BaseInit == Init => BaseInv
BY IdsAssumption DEF Init, BaseInv, TypeInv, PlanInv, ReferInv, RefersTo, Working, NoIds, NoPlan, NothingWanted,
                     Nothing, MaybeIds, Work, VisibleRoles

LEMMA PlanMoves ==
    ASSUME PlanHeld \/ PlanFlat
    PROVE  /\ UNCHANGED <<book, position, saved, todo, orderIds, raced>>
           /\ pc = "idle" /\ pc' = "list" /\ plan'.ids = saved.ids /\ smooth'
<1>1. \E wanted, contracts, priced : Adopt(wanted, contracts, priced)
  BY DEF PlanHeld, PlanFlat
<1>2. pc = "idle"
  BY DEF PlanHeld, PlanFlat
<1> QED
  BY <1>1, <1>2 DEF Adopt, brokerVars

\* What a run may be asked to do.
Sound(wanted, contracts) ==
    /\ contracts \in Nat /\ DOMAIN wanted = Roles
    /\ \A k \in VisibleRoles : wanted[k] = NoOrder \/ (k # "bracket" /\ Wanted(k, wanted[k]))

Adopted == \E wanted, contracts, priced : Adopt(wanted, contracts, priced) /\ Sound(wanted, contracts)

\* A step that plans leaves the book alone and wants orders that are well formed.
LEMMA PlanSteps ==
    ASSUME BaseInv, PlanHeld \/ PlanFlat, UNCHANGED account
    PROVE  BaseInv'
<1> USE DEF BaseInv
<1>1. UNCHANGED <<account, book, position, saved, todo, orderIds>> /\ pc' = "list"
  BY DEF PlanHeld, PlanFlat, Adopt, brokerVars
<1>2. faults' \in Nat
  <2>1. faults' = faults \/ faults' = faults + 1
    BY DEF PlanHeld, PlanFlat
  <2> QED
    BY <2>1 DEF TypeInv
<1>3. Adopted
  <2>1. DOMAIN NothingWanted = Roles /\ \A k \in VisibleRoles : NothingWanted[k] = NoOrder
    BY DEF NothingWanted, VisibleRoles
  <2>2. CASE PlanHeld
    <3>1. ExitQuantity \in Nat
      BY DEF TypeInv, ExitQuantity
    <3>2. ASSUME NEW c, NEW p \in Asks[account.venue], Adopt(Exit(c, p), ExitQuantity, TRUE)
          PROVE  Adopted
      <4>1. Sound(Exit(c, p), ExitQuantity)
        BY ExitWanted DEF Sound
      <4> QED
        BY <3>2, <4>1 DEF Adopted
    <3>3. ASSUME Adopt(NothingWanted, ExitQuantity, FALSE)
          PROVE  Adopted
      <4>1. Sound(NothingWanted, ExitQuantity)
        BY <2>1, <3>1 DEF Sound
      <4> QED
        BY <3>3, <4>1 DEF Adopted
    <3> QED
      BY <2>2, <3>2, <3>3 DEF PlanHeld
  <2>3. CASE PlanFlat
    <3>1. ASSUME NEW c, NEW q \in 1..Contracts, NEW p \in Bids,
                 Adopt([NothingWanted EXCEPT !["entry"] = Bid(c, q, p)], q, FALSE)
          PROVE  Adopted
      <4>1. Wanted("entry", Bid(c, q, p)) /\ q \in Nat
        BY SizesAssumption, PricesAssumption DEF Wanted, Shaped, Bid, Single, ActionOf, TypeOf, Prices
      <4> DEFINE wanted == [NothingWanted EXCEPT !["entry"] = Bid(c, q, p)]
      <4>2. DOMAIN wanted = Roles
        BY <2>1
      <4>3. \A k \in VisibleRoles : wanted[k] = NoOrder \/ (k # "bracket" /\ Wanted(k, wanted[k]))
        BY <2>1, <4>1
      <4> HIDE DEF wanted
      <4> QED
        BY <3>1, <4>1, <4>2, <4>3 DEF Adopted, Sound, wanted
    <3>2. ASSUME Adopt(NothingWanted, 0, FALSE)
          PROVE  Adopted
      <4>1. Sound(NothingWanted, 0)
        BY <2>1 DEF Sound
      <4> QED
        BY <3>2, <4>1 DEF Adopted
    <3> QED
      BY <2>3, <3>1, <3>2 DEF PlanFlat
  <2> QED
    BY <2>2, <2>3
<1>4. PICK wanted, contracts, priced : Adopt(wanted, contracts, priced) /\ Sound(wanted, contracts)
  BY <1>3 DEF Adopted
<1>5. /\ plan'.wanted = wanted /\ plan'.ids = saved.ids /\ plan'.contracts = contracts
  BY <1>4 DEF Adopt
<1>6. TypeInv' /\ PlanInv'
  BY <1>1, <1>2, <1>4, <1>5 DEF Sound, TypeInv, PlanInv
<1>7. \A i \in Working' : OrderInv(i)'
  BY <1>1 DEF Working, OrderInv
<1>8. ReferInv'
  BY <1>1, <1>5 DEF ReferInv, RefersTo, Working
<1> QED
  BY <1>6, <1>7, <1>8

\* The bookkeeping of a run: the book stays as it is.
LEMMA RecordSteps ==
    ASSUME BaseInv, Replay \/ List \/ Save \/ Crash, UNCHANGED account
    PROVE  BaseInv'
<1> USE DEF BaseInv
<1>1. UNCHANGED <<account, book, position, plan>> /\ pc' \in {"idle", "list", "work"}
  BY DEF Replay, List, Save, Crash, brokerVars
<1>2. faults' \in Nat
  <2>1. faults' = faults \/ faults' = faults + 1
    BY DEF Replay, List, Save, Crash, Fault
  <2> QED
    BY <2>1 DEF TypeInv
<1>3. todo' \in [Roles -> Work]
  BY DEF Replay, List, Save, Crash, TypeInv, Nothing, Work, Decide
<1>4. /\ orderIds' \in MaybeIds /\ saved'.ids \in MaybeIds /\ saved'.contracts \in Nat
      /\ \A k \in Roles : \/ orderIds'[k] \in {orderIds[k], plan.ids[k]}
                          \/ orderIds'[k] = NoId
      /\ saved'.ids \in {saved.ids, orderIds}
  <2>1. CASE Replay
    BY <2>1 DEF Replay, TypeInv
  <2>2. CASE List
    <3>1. orderIds' = [k \in Roles |-> IF Decide(k) = "keep" THEN plan.ids[k] ELSE NoId] /\ saved' = saved
      BY <2>2 DEF List
    <3> QED
      BY <3>1 DEF TypeInv, MaybeIds
  <2>3. CASE Save
    BY <2>3 DEF Save, TypeInv, MaybeIds, NoIds
  <2>4. CASE Crash
    BY <2>4 DEF Crash, TypeInv, MaybeIds, NoIds
  <2> QED
    BY <2>1, <2>2, <2>3, <2>4
<1>5. TypeInv' /\ PlanInv'
  BY <1>1, <1>2, <1>3, <1>4 DEF TypeInv, PlanInv
<1>6. \A i \in Working' : OrderInv(i)'
  BY <1>1 DEF Working, OrderInv
<1>7. ReferInv'
  BY <1>1, <1>4, IdsAssumption DEF ReferInv, RefersTo, Working
<1> QED
  BY <1>5, <1>6, <1>7

\* A step that sends nothing.
LEMMA ShrinkSteps ==
    ASSUME BaseInv, NEW k \in Roles, UNCHANGED <<account, position, saved, plan>>, Shrinks,
           DOMAIN book' = OrderIds, pc' = pc, faults' \in Nat, todo' \in [Roles -> Work],
           \/ orderIds' = orderIds
           \/ Free # {} /\ orderIds' = [orderIds EXCEPT ![k] = NewId]
    PROVE  BaseInv'
<1> USE DEF BaseInv
<1>1. Free # {} => NewId \in OrderIds \ Working
  BY DEF NewId, Free
<1>2. TypeInv' /\ PlanInv'
  BY <1>1 DEF TypeInv, PlanInv, MaybeIds
<1>3. \A i \in Working' : OrderInv(i)'
  BY OrdersAfterShrink
<1>4. /\ \A m \in Roles : saved.ids[m] \in Working' => book'[saved.ids[m]].role = m
      /\ \A m \in Roles : plan.ids[m] \in Working' => book'[plan.ids[m]].role = m
      /\ \A m \in Roles : orderIds[m] \in Working' => book'[orderIds[m]].role = m
  BY RefersAfterShrink DEF ReferInv
<1>5. \A m \in Roles : orderIds'[m] = orderIds[m] \/ orderIds'[m] \notin Working'
  BY <1>1 DEF TypeInv, MaybeIds, Shrinks
<1>6. ReferInv'
  BY <1>4, <1>5 DEF ReferInv, RefersTo
<1> QED
  BY <1>2, <1>3, <1>6

\* A step that sends an order.
LEMMA AddSteps ==
    ASSUME BaseInv, NEW k \in Roles, NEW sent, UNCHANGED <<account, position, saved, plan>>, Adds(k, sent),
           k \in VisibleRoles => k # "bracket" /\ Spelled(k, sent) /\ plan.wanted[k].quantity \in Nat,
           DOMAIN book' = OrderIds, pc' = pc, faults' \in Nat, todo' \in [Roles -> Work],
           orderIds' \in {orderIds, [orderIds EXCEPT ![k] = NewId]}
    PROVE  BaseInv'
<1> USE DEF BaseInv
<1>1. TypeInv' /\ PlanInv'
  BY DEF TypeInv, PlanInv, MaybeIds, Adds
<1>2. \A i \in Working' : OrderInv(i)'
  BY OrdersAfterAdd
<1>3. /\ \A m \in Roles : saved.ids[m] \in Working' => book'[saved.ids[m]].role = m
      /\ \A m \in Roles : plan.ids[m] \in Working' => book'[plan.ids[m]].role = m
      /\ \A m \in Roles : orderIds[m] \in Working' => book'[orderIds[m]].role = m
  BY RefersAfterAdd DEF ReferInv, Adds
<1>4. \A m \in Roles : orderIds'[m] = orderIds[m] \/ (m = k /\ orderIds'[m] = NewId)
  BY DEF TypeInv, MaybeIds
<1>5. book'[NewId].role = k
  BY DEF Adds, Placed
<1>6. ReferInv'
  BY <1>3, <1>4, <1>5 DEF ReferInv, RefersTo
<1> QED
  BY <1>1, <1>2, <1>6

LEMMA FaultCounts ==
    ASSUME TypeInv, NEW kind, Fault(kind)
    PROVE  faults' = faults + 1 /\ faults' \in Nat
BY DEF Fault, TypeInv

\* What is sent for a role that is listed is spelled as one that is.
LEMMA SentSpelled ==
    ASSUME BaseInv, WorkInv, NEW k \in VisibleRoles, todo[k] \in {"submit", "replace"}
    PROVE  /\ k # "bracket" /\ plan.wanted[k].quantity \in Nat
           /\ Wanted(k, plan.wanted[k])
           /\ Takes(account.venue, plan.wanted[k])
           /\ Spelled(k, Sent(account.venue, plan.wanted[k]))
           /\ plan.ids[k] \in Working =>
                Spelled(k, SentInstead(account.venue, book[plan.ids[k]].sent, plan.wanted[k]))
<1>1. k \in Roles /\ k # "bracket" /\ Wanted(k, plan.wanted[k]) /\ account.venue \in Venues
  BY AccountsAssumption DEF BaseInv, TypeInv, PlanInv, WorkInv, VisibleRoles
<1>2. plan.ids[k] \in Working => Spelled(k, book[plan.ids[k]].sent)
  BY <1>1 DEF BaseInv, ReferInv, RefersTo, OrderInv
<1> QED
  BY <1>1, <1>2, SentAsWanted, ReplacedAsWanted DEF Wanted, Shaped

LEMMA CallSteps ==
    ASSUME BaseInv, WorkInv, NEW k \in Roles,
           Cancel(k) \/ Submit(k) \/ Replace(k) \/ Recancel(k), UNCHANGED account
    PROVE  BaseInv'
<1> USE DEF BaseInv
<1>1. /\ UNCHANGED <<account, position, saved, plan>> /\ pc' = pc
      /\ \E what \in Work : todo' = [todo EXCEPT ![k] = what]
    BY DEF Cancel, Submit, Replace, Recancel, Accepted, Withdrawn, Work
<1>2. todo' \in [Roles -> Work]
  BY <1>1 DEF TypeInv
<1>3. faults' \in Nat
  <2>1. faults' = faults \/ faults' = faults + 1
    BY DEF Cancel, Submit, Replace, Recancel, CancelAt, Accepted, Withdrawn, Fault
  <2> QED
    BY <2>1 DEF TypeInv
<1>4. CASE Cancel(k) \/ Recancel(k)
  <2>1. orderIds' = orderIds /\ book' \in {book, [book EXCEPT ![plan.ids[k]] = NoOrder]}
    BY <1>4 DEF Cancel, Recancel, CancelAt
  <2> QED
    BY <1>1, <1>2, <1>3, <2>1, Removing, ShrinkSteps
<1>5. CASE Submit(k)
  <2> DEFINE sent == Sent(account.venue, plan.wanted[k])
  <2>1. CASE Free # {} /\ book' = [book EXCEPT ![NewId] = Placed(k, sent)]
              /\ orderIds' \in {orderIds, [orderIds EXCEPT ![k] = NewId]}
    <3>1. Adds(k, sent) /\ DOMAIN book' = OrderIds
      BY <2>1, Placing
    <3>2. k \in VisibleRoles => k # "bracket" /\ Spelled(k, sent) /\ plan.wanted[k].quantity \in Nat
      BY <1>5, SentSpelled DEF Submit
    <3> QED
      BY <1>1, <1>2, <1>3, <2>1, <3>1, <3>2, AddSteps
  <2>2. CASE book' = book /\ \/ orderIds' = orderIds
                             \/ Free # {} /\ orderIds' = [orderIds EXCEPT ![k] = NewId]
    BY <1>1, <1>2, <1>3, <2>2, Removing, ShrinkSteps
  <2> QED
    BY <1>5, <2>1, <2>2 DEF Submit, Accepted, Withdrawn
<1>6. CASE Replace(k)
  <2> DEFINE i == plan.ids[k]
             rest == [book EXCEPT ![i] = NoOrder]
             sent == SentInstead(account.venue, book[i].sent, plan.wanted[k])
  <2>1. CASE /\ Free # {} /\ i \in Working
             /\ book' = [rest EXCEPT ![NewId] = Placed(k, sent)]
             /\ orderIds' \in {orderIds, [orderIds EXCEPT ![k] = NewId]}
    <3>1. Adds(k, sent) /\ DOMAIN book' = OrderIds
      BY <2>1, Placing
    <3>2. k \in VisibleRoles => k # "bracket" /\ Spelled(k, sent) /\ plan.wanted[k].quantity \in Nat
      BY <1>6, <2>1, SentSpelled DEF Replace
    <3> QED
      BY <1>1, <1>2, <1>3, <2>1, <3>1, <3>2, AddSteps
  <2>2. CASE book' \in {book, rest} /\ \/ orderIds' = orderIds
                                       \/ Free # {} /\ orderIds' = [orderIds EXCEPT ![k] = NewId]
    BY <1>1, <1>2, <1>3, <2>2, Removing, ShrinkSteps
  <2> QED
    BY <1>6, <2>1, <2>2 DEF Replace, Accepted, Withdrawn
<1> QED
  BY <1>4, <1>5, <1>6

\* How a call that places an order may end: the run learns the id, or not, or nothing was placed.
LEMMA SubmitOutcomes ==
    ASSUME TypeInv, NEW k \in Roles, Submit(k)
    PROVE  \/ /\ Free # {}
              /\ book' = [book EXCEPT ![NewId] = Placed(k, Sent(account.venue, plan.wanted[k]))]
              /\ orderIds' = [orderIds EXCEPT ![k] = NewId] /\ todo' = [todo EXCEPT ![k] = "none"]
              /\ UNCHANGED <<faults, smooth, calm, switched>>
           \/ /\ Free # {}
              /\ book' = [book EXCEPT ![NewId] = Placed(k, Sent(account.venue, plan.wanted[k]))]
              /\ orderIds' = orderIds /\ todo' = [todo EXCEPT ![k] = "none"]
              /\ faults' = faults + 1 /\ Disturb
           \/ /\ book' = book /\ todo' = [todo EXCEPT ![k] = "none"]
              /\ orderIds' = orderIds \/ (Free # {} /\ orderIds' = [orderIds EXCEPT ![k] = NewId])
              /\ \/ UNCHANGED <<faults, smooth, calm, switched>> /\ ~Takes(account.venue, plan.wanted[k])
                 \/ Disturb /\ faults' = faults
                 \/ Disturb /\ faults' = faults + 1
<1>1. todo[k] = "submit"
  BY DEF Submit
<1>2. CASE Free # {} /\ Accepted(k, Sent(account.venue, plan.wanted[k]), book)
  BY <1>1, <1>2 DEF Accepted, Fault, quiet
<1>3. CASE Free # {} /\ Withdrawn(k, Sent(account.venue, plan.wanted[k]), book)
  BY <1>3 DEF Withdrawn, Fault
<1>4. CASE /\ todo' = [todo EXCEPT ![k] = "none"] /\ UNCHANGED <<book, orderIds>>
           /\ IF ~Takes(account.venue, plan.wanted[k]) THEN UNCHANGED <<faults, quiet>>
              ELSE IF ~Covered(k, Sent(account.venue, plan.wanted[k])) THEN Disturb /\ UNCHANGED faults
              ELSE Fault("refusal")
  BY <1>4 DEF Fault, quiet
<1> QED
  BY <1>2, <1>3, <1>4 DEF Submit

LEMMA ReplaceOutcomes ==
    ASSUME TypeInv, NEW k \in Roles, Replace(k)
    PROVE  \/ /\ Free # {} /\ plan.ids[k] \in Working
              /\ book' = [[book EXCEPT ![plan.ids[k]] = NoOrder] EXCEPT ![NewId] =
                            Placed(k, SentInstead(account.venue, book[plan.ids[k]].sent, plan.wanted[k]))]
              /\ orderIds' = [orderIds EXCEPT ![k] = NewId] /\ todo' = [todo EXCEPT ![k] = "none"]
              /\ UNCHANGED <<faults, smooth, calm, switched>>
           \/ /\ Free # {} /\ plan.ids[k] \in Working
              /\ book' = [[book EXCEPT ![plan.ids[k]] = NoOrder] EXCEPT ![NewId] =
                            Placed(k, SentInstead(account.venue, book[plan.ids[k]].sent, plan.wanted[k]))]
              /\ orderIds' = orderIds /\ todo' = [todo EXCEPT ![k] = "recancel"]
              /\ faults' = faults + 1 /\ Disturb
           \/ /\ book' = [book EXCEPT ![plan.ids[k]] = NoOrder] /\ todo' = [todo EXCEPT ![k] = "none"]
              /\ Free # {} /\ orderIds' = [orderIds EXCEPT ![k] = NewId]
              /\ Disturb /\ (faults' = faults \/ faults' = faults + 1)
           \/ /\ todo' = [todo EXCEPT ![k] = "recancel"]
              /\ UNCHANGED <<book, orderIds, faults, smooth, calm, switched>>
<1> DEFINE i == plan.ids[k]
           rest == [book EXCEPT ![i] = NoOrder]
           sent == SentInstead(account.venue, book[i].sent, plan.wanted[k])
<1>1. todo[k] = "replace"
  BY DEF Replace
<1>2. CASE Free # {} /\ i \in Working /\ Accepted(k, sent, rest)
  <2> HIDE DEF sent
  <2>1. /\ book' = [rest EXCEPT ![NewId] = Placed(k, sent)]
        /\ \/ /\ orderIds' = [orderIds EXCEPT ![k] = NewId] /\ todo' = [todo EXCEPT ![k] = "none"]
              /\ UNCHANGED <<faults, smooth, calm, switched>>
           \/ /\ orderIds' = orderIds /\ todo' = [todo EXCEPT ![k] = "recancel"]
              /\ faults' = faults + 1 /\ Disturb
    BY <1>1, <1>2 DEF Accepted, Fault, quiet
  <2> QED
    BY <1>2, <2>1 DEF sent
<1>3. CASE Free # {} /\ Withdrawn(k, sent, rest)
  BY <1>3 DEF Withdrawn, Fault
<1>4. CASE todo' = [todo EXCEPT ![k] = "recancel"] /\ UNCHANGED <<book, orderIds, faults, quiet>>
  BY <1>4 DEF quiet
<1> QED
  BY <1>2, <1>3, <1>4 DEF Replace

\* What is held is counted, and only a bid adds to it.
LEMMA FillMoves ==
    ASSUME TypeInv, NEW i \in OrderIds, NEW n \in 1..Contracts, Fill(i, n), book[i].role \in Roles
    PROVE  /\ position' \in [Series -> Nat]
           /\ Held \in Nat /\ Held' \in Nat
           /\ Held' <= (IF book[i].role = "entry" THEN Held + n ELSE Held)
<1> DEFINE c == ContractOf(book[i].sent)
           bid == book[i].role = "entry"
<1>1. /\ position' = [position EXCEPT ![c] = IF bid THEN @ + n ELSE @ - n]
      /\ ~bid => n <= position[c]
  BY DEF Fill, Roles
<1> HIDE DEF c, bid
<1>2. position \in [Series -> Nat] /\ n \in Nat
  BY SizesAssumption DEF TypeInv
<1>3. ASSUME NEW d \in Series
      PROVE  /\ position'[d] \in Nat
             /\ position'[d] = IF d # c THEN position[d] ELSE IF bid THEN position[d] + n ELSE position[d] - n
  BY <1>1, <1>2
<1>4. position' \in [Series -> Nat]
  BY <1>1, <1>2, <1>3
<1>5. This \in Series /\ That \in Series /\ This # That
  BY ContractsAssumption DEF Series
<1>6. Held \in Nat /\ Held' \in Nat
  BY <1>2, <1>4, <1>5 DEF Held
<1>7. Held' <= (IF bid THEN Held + n ELSE Held)
  BY <1>2, <1>3, <1>5 DEF Held
<1> QED
  BY <1>4, <1>6, <1>7 DEF bid

LEMMA VenueSteps ==
    ASSUME BaseInv, NEW i \in OrderIds, Vanish(i) \/ \E n \in 1..Contracts : Fill(i, n), UNCHANGED account
    PROVE  BaseInv'
<1> USE DEF BaseInv
<1>1. /\ UNCHANGED <<account, saved, pc, plan, todo, orderIds, faults>> /\ i \in Working
      /\ \E o : book' = [book EXCEPT ![i] = o]
    BY DEF Vanish, Fill
<1>2. position' \in [Series -> Nat]
  <2>1. book[i].role \in Roles
    BY <1>1 DEF OrderInv
  <2>2. CASE Vanish(i)
    BY <2>2 DEF Vanish, TypeInv
  <2> QED
    BY <2>1, <2>2, FillMoves
<1>3. TypeInv' /\ PlanInv'
  BY <1>1, <1>2 DEF TypeInv, PlanInv
<1>4. \A j \in Working' : \/ j \in Working /\ book'[j] = book[j]
                          \/ /\ j = i
                             /\ \E n \in 1..Contracts : /\ n <= book[i].left
                                                        /\ book'[i] = [book[i] EXCEPT !.left = @ - n]
  BY <1>1 DEF Vanish, Fill, Working, TypeInv
<1>5. ASSUME NEW j \in Working'
      PROVE  j \in Working /\ book'[j].role = book[j].role /\ OrderInv(j)'
  <2>1. CASE j \in Working /\ book'[j] = book[j]
    BY <2>1 DEF OrderInv
  <2>2. ASSUME j = i, NEW n \in 1..Contracts, n <= book[i].left, book'[i] = [book[i] EXCEPT !.left = @ - n]
        PROVE  j \in Working /\ book'[j].role = book[j].role /\ OrderInv(j)'
    <3>1. DOMAIN book[i] = {"role", "sent", "left"} /\ OrderInv(i)
      BY <1>1 DEF OrderInv
    <3>2. /\ DOMAIN book'[i] = {"role", "sent", "left"} /\ book'[i].role = book[i].role
          /\ book'[i].sent = book[i].sent /\ book'[i].left = book[i].left - n
      BY <2>2, <3>1
    <3>3. book[i].left \in Nat => book'[i].left \in Nat
      BY <2>2, <3>2, SizesAssumption
    <3> QED
      BY <1>1, <2>2, <3>1, <3>2, <3>3 DEF OrderInv
  <2> QED
    BY <1>4, <2>1, <2>2
<1>6. ReferInv'
  BY <1>1, <1>5 DEF ReferInv, RefersTo
<1> QED
  BY <1>3, <1>5, <1>6

LEMMA BaseStep == BaseInv /\ WorkInv /\ [Next]_vars => BaseInv'
<1> SUFFICES ASSUME BaseInv, WorkInv, [Next]_vars
             PROVE  BaseInv'
  OBVIOUS
<1>1. CASE UNCHANGED vars
  BY <1>1 DEF vars, quiet, BaseInv, TypeInv, PlanInv, OrderInv, ReferInv, RefersTo, Working
<1>2. CASE Next
  BY <1>2, PlanSteps, RecordSteps, CallSteps, VenueSteps DEF Next, RunStep
<1> QED
  BY <1>1, <1>2

LEMMA WorkInit == Init => WorkInv
BY DEF Init, WorkInv, Nothing, NoIds

LEMMA WorkStep == BaseInv /\ WorkInv /\ [Next]_vars => WorkInv'
<1> SUFFICES ASSUME BaseInv, WorkInv, [Next]_vars
             PROVE  WorkInv'
  OBVIOUS
<1> USE DEF BaseInv, TypeInv
<1>1. CASE PlanHeld \/ PlanFlat
  <2>1. UNCHANGED <<todo, orderIds>> /\ pc = "idle"
    BY <1>1 DEF PlanHeld, PlanFlat, Adopt
  <2> QED
    BY <2>1 DEF WorkInv
<1>2. CASE Replay
  BY <1>2 DEF Replay, WorkInv
<1>3. CASE List
  BY <1>3 DEF List, WorkInv, Decide
<1>4. CASE Save \/ Crash
  BY <1>4 DEF Save, Crash, WorkInv, Nothing, NoIds
<1>5. ASSUME NEW k \in Roles, Cancel(k) \/ Submit(k) \/ Replace(k) \/ Recancel(k)
      PROVE  WorkInv'
  <2>1. /\ UNCHANGED <<plan, pc>> /\ pc = "work"
        /\ todo[k] # "none"
        /\ \A m \in Roles \ {k} : todo'[m] = todo[m] /\ orderIds'[m] = orderIds[m]
        /\ \/ todo'[k] = "none"
           \/ todo'[k] \in {"submit", "recancel"} /\ todo[k] # "cancel" /\ orderIds' = orderIds
    BY <1>5 DEF Cancel, Submit, Replace, Recancel, Accepted, Withdrawn, MaybeIds
  <2> QED
    BY <2>1 DEF WorkInv, Work
<1>6. CASE \/ \E i \in OrderIds : Vanish(i) \/ \E n \in 1..Contracts : Fill(i, n)
           \/ UNCHANGED vars
  BY <1>6 DEF Vanish, Fill, vars, WorkInv
<1> QED
  BY <1>1, <1>2, <1>3, <1>4, <1>5, <1>6 DEF Next, RunStep

LEMMA Typed == Spec => [](BaseInv /\ WorkInv)
BY BaseInit, WorkInit, BaseStep, WorkStep, PTL DEF Spec

-----------------------------------------------------------------------------
(* One order per role                                                      *)

\* The order of a role that the run, or the record between runs, knows of.
Tracked(k) ==
    IF pc = "idle" THEN saved.ids[k]
    ELSE IF pc = "list" \/ todo[k] \in {"cancel", "replace", "recancel"} THEN plan.ids[k]
    ELSE IF todo[k] = "submit" THEN NoId ELSE orderIds[k]

Unknown(k) == WorkingAs(k) \ {Tracked(k)}

TrackInv == \A k \in VisibleRoles : IsFiniteSet(Unknown(k)) /\ Cardinality(Unknown(k)) <= faults

\* No more orders are unknown than there were, but for one when something went wrong.
LEMMA Tracking ==
    ASSUME TypeInv, NEW k \in VisibleRoles, IsFiniteSet(Unknown(k)), Cardinality(Unknown(k)) <= faults,
           \/ Unknown(k)' \subseteq Unknown(k) /\ faults' \in Nat /\ faults' >= faults
           \/ faults' = faults + 1 /\ \E x : Unknown(k)' \subseteq Unknown(k) \cup {x}
    PROVE  IsFiniteSet(Unknown(k)') /\ Cardinality(Unknown(k)') <= faults'
<1>1. faults \in Nat /\ Cardinality(Unknown(k)) \in Nat
  BY FS_CardinalityType DEF TypeInv
<1>2. CASE Unknown(k)' \subseteq Unknown(k) /\ faults' \in Nat /\ faults' >= faults
  <2>1. /\ IsFiniteSet(Unknown(k)') /\ Cardinality(Unknown(k)') \in Nat
        /\ Cardinality(Unknown(k)') <= Cardinality(Unknown(k))
    BY <1>2, FS_Subset, FS_CardinalityType
  <2> QED
    BY <1>1, <1>2, <2>1
<1>3. ASSUME faults' = faults + 1, NEW x, Unknown(k)' \subseteq Unknown(k) \cup {x}
      PROVE  IsFiniteSet(Unknown(k)') /\ Cardinality(Unknown(k)') <= faults'
  <2> DEFINE more == Unknown(k) \cup {x}
  <2>1. /\ IsFiniteSet(more) /\ Cardinality(more) \in Nat
        /\ Cardinality(more) <= Cardinality(Unknown(k)) + 1
    <3>1. /\ IsFiniteSet(more)
          /\ Cardinality(more) \in {Cardinality(Unknown(k)), Cardinality(Unknown(k)) + 1}
      BY FS_AddElement
    <3> HIDE DEF more
    <3> QED
      BY <1>1, <3>1
  <2>2. /\ IsFiniteSet(Unknown(k)') /\ Cardinality(Unknown(k)') \in Nat
        /\ Cardinality(Unknown(k)') <= Cardinality(more)
    BY <1>3, <2>1, FS_Subset, FS_CardinalityType
  <2> HIDE DEF more
  <2> QED
    BY <1>1, <1>3, <2>1, <2>2
<1> QED
  BY <1>2, <1>3

LEMMA TrackInit == Init => TrackInv
<1> SUFFICES ASSUME Init, NEW k \in VisibleRoles
             PROVE  IsFiniteSet(Unknown(k)) /\ Cardinality(Unknown(k)) <= faults
  BY DEF TrackInv
<1>1. Unknown(k) = {} /\ faults = 0
  BY DEF Init, Unknown, WorkingAs, Working
<1> QED
  BY <1>1, FS_EmptySet

\* Whatever fails, no more than one order is lost sight of.
LEMMA Misses ==
    ASSUME NEW k, WorkingAs(k)' \subseteq WorkingAs(k)
    PROVE  \E x : Unknown(k)' \subseteq Unknown(k) \cup {x}
<1>1. Unknown(k)' \subseteq Unknown(k) \cup {Tracked(k)}
  BY DEF Unknown
<1> QED
  BY <1>1

LEMMA TrackStep == BaseInv /\ WorkInv /\ BaseInv' /\ TrackInv /\ [Next]_vars => TrackInv'
<1> SUFFICES ASSUME BaseInv, WorkInv, BaseInv', TrackInv, [Next]_vars, NEW k \in VisibleRoles
             PROVE  \/ Unknown(k)' \subseteq Unknown(k) /\ faults' \in Nat /\ faults' >= faults
                    \/ faults' = faults + 1 /\ \E x : Unknown(k)' \subseteq Unknown(k) \cup {x}
  <2>1. VisibleRoles' = VisibleRoles
    BY DEF VisibleRoles, PairsHeld
  <2> QED
    BY <2>1, Tracking DEF TrackInv, BaseInv
<1> USE DEF BaseInv
<1>1. k \in Roles /\ faults \in Nat
  BY DEF VisibleRoles, TypeInv
<1>2. CASE PlanHeld \/ PlanFlat
  <2>1. /\ book' = book /\ pc = "idle" /\ pc' = "list" /\ plan'.ids = saved.ids
    BY <1>2, PlanMoves
  <2>2. faults' = faults \/ faults' = faults + 1
    BY <1>2 DEF PlanHeld, PlanFlat
  <2>3. Unknown(k)' = Unknown(k)
    BY <2>1 DEF Unknown, WorkingAs, Working, Tracked
  <2> QED
    BY <1>1, <2>2, <2>3
<1>3. CASE Replay \/ Crash
  <2>1. faults' = faults + 1 /\ book' = book
    BY <1>3 DEF Replay, Crash, Fault, brokerVars
  <2>2. WorkingAs(k)' \subseteq WorkingAs(k)
    BY <2>1 DEF WorkingAs, Working
  <2> QED
    BY <2>1, <2>2, Misses
<1>4. CASE List
  <2>1. /\ book' = book /\ plan' = plan /\ faults' = faults /\ pc = "list" /\ pc' = "work"
        /\ todo'[k] = IF Decide(k) = "keep" THEN "none" ELSE Decide(k)
        /\ orderIds'[k] = IF Decide(k) = "keep" THEN plan.ids[k] ELSE NoId
    BY <1>1, <1>4 DEF List, brokerVars
  <2>2. WorkingAs(k)' = WorkingAs(k)
    BY <2>1 DEF WorkingAs, Working
  <2>3. Tracked(k) = plan.ids[k]
    BY <2>1 DEF Tracked
  <2>4. CASE Listed(plan.ids[k])
    <3>1. plan.ids[k] # NoId
      BY <2>4, IdsAssumption DEF Listed, Working
    <3>2. Decide(k) \in {"cancel", "replace", "keep"}
      BY <2>4, <3>1 DEF Decide
    <3>3. Tracked(k)' = plan.ids[k]
      BY <2>1, <3>2 DEF Tracked
    <3> QED
      BY <1>1, <2>1, <2>2, <2>3, <3>3 DEF Unknown
  <2>5. CASE ~Listed(plan.ids[k])
    <3>1. plan.ids[k] \notin WorkingAs(k)
      BY <2>5 DEF Listed, WorkingAs, OrderInv, Spelled
    <3> QED
      BY <1>1, <2>1, <2>2, <2>3, <3>1 DEF Unknown
  <2> QED
    BY <2>4, <2>5
<1>5. ASSUME NEW m \in Roles, Cancel(m) \/ Recancel(m)
      PROVE  \/ Unknown(k)' \subseteq Unknown(k) /\ faults' \in Nat /\ faults' >= faults
             \/ faults' = faults + 1 /\ \E x : Unknown(k)' \subseteq Unknown(k) \cup {x}
  <2>1. /\ UNCHANGED <<saved, plan, pc, orderIds>> /\ pc = "work" /\ todo[m] \in {"cancel", "recancel"}
        /\ \A r \in Roles \ {m} : todo'[r] = todo[r]
        /\ \/ book' = [book EXCEPT ![plan.ids[m]] = NoOrder] /\ faults' = faults
           \/ book' = book /\ faults' = faults + 1
    BY <1>5 DEF Cancel, Recancel, CancelAt, Fault, TypeInv
  <2>2. WorkingAs(k)' \subseteq WorkingAs(k)
    BY <2>1 DEF WorkingAs, Working, TypeInv
  <2>3. CASE faults' = faults + 1
    BY <2>2, <2>3, Misses
  <2>4. CASE book' = [book EXCEPT ![plan.ids[m]] = NoOrder] /\ faults' = faults /\ k = m
    <3>1. Tracked(k) = plan.ids[k]
      BY <2>1, <2>4 DEF Tracked
    <3>2. plan.ids[k] \notin WorkingAs(k)'
      BY <2>4 DEF WorkingAs, Working, TypeInv
    <3> QED
      BY <1>1, <2>2, <2>4, <3>1, <3>2 DEF Unknown
  <2>5. CASE faults' = faults /\ k # m
    <3>1. Tracked(k)' = Tracked(k)
      BY <1>1, <2>1, <2>5 DEF Tracked
    <3> QED
      BY <1>1, <2>2, <2>5, <3>1 DEF Unknown
  <2> QED
    BY <2>1, <2>3, <2>4, <2>5
<1>6. ASSUME NEW m \in Roles, Submit(m) \/ Replace(m)
      PROVE  \/ Unknown(k)' \subseteq Unknown(k) /\ faults' \in Nat /\ faults' >= faults
             \/ faults' = faults + 1 /\ \E x : Unknown(k)' \subseteq Unknown(k) \cup {x}
  <2> DEFINE i == plan.ids[m]
             rest == [book EXCEPT ![i] = NoOrder]
  <2>1. /\ UNCHANGED <<saved, plan, pc>> /\ pc = "work" /\ todo[m] \in {"submit", "replace"}
        /\ \A r \in Roles \ {m} : todo'[r] = todo[r] /\ orderIds'[r] = orderIds[r]
        /\ faults' = faults \/ faults' = faults + 1
    BY <1>6 DEF Submit, Replace, Accepted, Withdrawn, Fault, TypeInv, MaybeIds
  \* An order goes out, for m.
  <2>2. ASSUME Free # {}, NEW before \in {book, rest}, NEW sent,
               book' = [before EXCEPT ![NewId] = Placed(m, sent)],
               todo[m] = "replace" => before = rest,
               \/ orderIds'[m] = NewId /\ todo'[m] = "none"
               \/ faults' = faults + 1
        PROVE  \/ Unknown(k)' \subseteq Unknown(k) /\ faults' \in Nat /\ faults' >= faults
               \/ faults' = faults + 1 /\ \E x : Unknown(k)' \subseteq Unknown(k) \cup {x}
    <3>1. Adds(m, sent)
      BY <2>2, Placing
    <3>2. CASE k # m
      <4>1. WorkingAs(k)' \subseteq WorkingAs(k)
        BY <3>1, <3>2 DEF Adds, WorkingAs, Placed
      <4>2. Tracked(k)' = Tracked(k)
        BY <1>1, <2>1, <3>2 DEF Tracked
      <4>3. Unknown(k)' \subseteq Unknown(k)
        BY <4>1, <4>2 DEF Unknown
      <4> QED
        BY <1>1, <2>1, <4>3
    <3>3. CASE k = m
      <4>1. WorkingAs(k)' \subseteq Unknown(k) \cup {NewId}
        <5>1. WorkingAs(k)' \subseteq WorkingAs(k) \cup {NewId}
          BY <3>1 DEF Adds, WorkingAs
        <5>2. CASE todo[m] = "submit"
          <6>1. Tracked(k) = NoId
            BY <2>1, <3>3, <5>2 DEF Tracked
          <6> QED
            BY <5>1, <6>1, IdsAssumption DEF Unknown, WorkingAs, Working
        <5>3. CASE todo[m] = "replace"
          <6>1. Tracked(k) = i
            BY <2>1, <3>3, <5>3 DEF Tracked
          <6>2. i # NewId => i \notin WorkingAs(k)'
            BY <2>2, <5>3 DEF WorkingAs, Working, TypeInv
          <6> QED
            BY <5>1, <6>1, <6>2 DEF Unknown
        <5> QED
          BY <2>1, <5>2, <5>3
      <4>2. CASE faults' = faults + 1
        <5>1. Unknown(k)' \subseteq Unknown(k) \cup {NewId}
          BY <4>1 DEF Unknown
        <5> QED
          BY <4>2, <5>1
      <4>3. CASE orderIds'[m] = NewId /\ todo'[m] = "none"
        <5>1. Tracked(k)' = NewId
          BY <2>1, <3>3, <4>3 DEF Tracked
        <5>2. Unknown(k)' \subseteq Unknown(k)
          BY <4>1, <5>1 DEF Unknown
        <5> QED
          BY <1>1, <2>1, <5>2
      <4> QED
        BY <2>2, <4>2, <4>3
    <3> QED
      BY <3>2, <3>3
  \* Nothing goes out, and an order may be gone.
  <2>3. ASSUME book' \in {book, rest},
               \/ todo'[m] = "recancel" /\ todo[m] = "replace"
               \/ /\ todo'[m] = "none"
                  /\ \/ todo[m] = "submit"
                     \/ todo[m] = "replace" /\ book' = rest
                  /\ orderIds'[m] = orderIds[m] \/ (Free # {} /\ orderIds'[m] = NewId)
        PROVE  Unknown(k)' \subseteq Unknown(k)
    <3>1. WorkingAs(k)' \subseteq WorkingAs(k)
      BY <2>3 DEF WorkingAs, Working, TypeInv
    <3>2. CASE k # m \/ (todo'[m] = "recancel" /\ todo[m] = "replace")
      <4>1. Tracked(k)' = Tracked(k)
        BY <1>1, <2>1, <3>2 DEF Tracked
      <4> QED
        BY <3>1, <4>1 DEF Unknown
    <3>3. CASE k = m /\ todo[m] = "submit"
      <4>1. Tracked(k) = NoId
        BY <2>1, <3>3 DEF Tracked
      <4> QED
        BY <3>1, <4>1, IdsAssumption DEF Unknown, WorkingAs, Working
    <3>4. CASE k = m /\ todo[m] = "replace" /\ book' = rest
      <4>1. Tracked(k) = i /\ i \notin WorkingAs(k)'
        BY <2>1, <3>4 DEF Tracked, WorkingAs, Working, TypeInv
      <4> QED
        BY <3>1, <4>1 DEF Unknown
    <3> QED
      BY <2>3, <3>2, <3>3, <3>4
  <2>4. CASE Submit(m)
    <3>1. \/ /\ Free # {} /\ book' = [book EXCEPT ![NewId] = Placed(m, Sent(account.venue, plan.wanted[m]))]
             /\ (orderIds'[m] = NewId /\ todo'[m] = "none") \/ faults' = faults + 1
          \/ /\ book' = book /\ todo'[m] = "none"
             /\ orderIds'[m] = orderIds[m] \/ (Free # {} /\ orderIds'[m] = NewId)
      BY <2>4, SubmitOutcomes DEF TypeInv, MaybeIds
    <3>2. todo[m] = "submit"
      BY <2>4 DEF Submit
    <3> QED
      BY <1>1, <2>1, <2>2, <2>3, <3>1, <3>2
  <2>5. CASE Replace(m)
    <3> DEFINE sent == SentInstead(account.venue, book[i].sent, plan.wanted[m])
    <3>1. \/ /\ Free # {} /\ book' = [rest EXCEPT ![NewId] = Placed(m, sent)]
             /\ (orderIds'[m] = NewId /\ todo'[m] = "none") \/ faults' = faults + 1
          \/ book' = rest /\ todo'[m] = "none" /\ Free # {} /\ orderIds'[m] = NewId
          \/ book' = book /\ todo'[m] = "recancel"
      <4>1. orderIds' = [orderIds EXCEPT ![m] = NewId] => orderIds'[m] = NewId
        BY DEF TypeInv, MaybeIds
      <4>2. \A what : todo' = [todo EXCEPT ![m] = what] => todo'[m] = what
        BY DEF TypeInv
      <4> QED
        BY <2>5, <4>1, <4>2, ReplaceOutcomes
    <3>2. todo[m] = "replace"
      BY <2>5 DEF Replace
    <3> QED
      BY <1>1, <2>1, <2>2, <2>3, <3>1, <3>2
  <2> QED
    BY <1>6, <2>4, <2>5
<1>7. CASE Save
  <2>1. /\ book' = book /\ faults' = faults /\ pc = "work" /\ pc' = "idle"
        /\ saved'.ids = orderIds /\ todo[k] = "none"
    BY <1>1, <1>7 DEF Save, brokerVars, Nothing
  <2>2. Unknown(k)' = Unknown(k)
    BY <2>1 DEF Unknown, WorkingAs, Working, Tracked
  <2> QED
    BY <1>1, <2>1, <2>2
<1>8. CASE \/ \E i \in OrderIds : Vanish(i) \/ \E n \in 1..Contracts : Fill(i, n)
           \/ UNCHANGED vars
  <2>1. UNCHANGED <<saved, pc, plan, todo, orderIds, faults>>
    BY <1>8 DEF Vanish, Fill, vars
  <2>2. WorkingAs(k)' \subseteq WorkingAs(k)
    BY <1>8 DEF Vanish, Fill, vars, WorkingAs, Working, TypeInv, OrderInv
  <2>3. Unknown(k)' \subseteq Unknown(k)
    BY <2>1, <2>2 DEF Unknown, Tracked
  <2> QED
    BY <1>1, <2>1, <2>3
<1> QED
  BY <1>2, <1>3, <1>4, <1>5, <1>6, <1>7, <1>8 DEF Next, RunStep

LEMMA TrackInvariant == Spec => []TrackInv
BY TrackInit, TrackStep, Typed, PTL DEF Spec

\* As long as nothing failed every working order of a listed role is the one that is known.
LEMMA NoneUnknown ==
    ASSUME TrackInv, faults = 0, NEW k \in VisibleRoles
    PROVE  WorkingAs(k) \subseteq {Tracked(k)}
<1>1. Unknown(k) = {}
  BY FS_EmptySet, FS_CardinalityType DEF TrackInv
<1> QED
  BY <1>1 DEF Unknown

LEMMA AllVisible == ~PairsHeld => VisibleRoles = Roles
BY DEF VisibleRoles

\* For any number of runs, prices, fills and failures: a lost answer, a crash or a repeated plan leaves
\* at most one more working order for a role (reconcile.py, reconcile_orders), where brackets are not
\* sent to a venue that lists only their children.
THEOREM OneThingPerRole ==
    ASSUME ~PairsHeld
    PROVE  Spec => []OneOrderPerRole
<1>1. BaseInv /\ TrackInv => OneOrderPerRole
  <2> SUFFICES ASSUME BaseInv, TrackInv, NEW k \in Roles
               PROVE  Cardinality(WorkingAs(k)) <= 1 + faults
    BY DEF OneOrderPerRole
  <2> DEFINE all == Unknown(k) \cup {Tracked(k)}
  <2>1. IsFiniteSet(Unknown(k)) /\ Cardinality(Unknown(k)) <= faults /\ faults \in Nat
    BY AllVisible DEF TrackInv, BaseInv, TypeInv
  <2>2. Cardinality(Unknown(k)) \in Nat
    BY <2>1, FS_CardinalityType
  <2>3. /\ IsFiniteSet(all)
        /\ Cardinality(all) \in {Cardinality(Unknown(k)), Cardinality(Unknown(k)) + 1}
    BY <2>1, FS_AddElement
  <2>4. WorkingAs(k) \subseteq all
    BY DEF Unknown
  <2> HIDE DEF all
  <2>5. Cardinality(WorkingAs(k)) \in Nat /\ Cardinality(WorkingAs(k)) <= Cardinality(all)
    BY <2>3, <2>4, FS_Subset, FS_CardinalityType
  <2> QED
    BY <2>1, <2>2, <2>3, <2>5
<1> QED
  BY <1>1, Typed, TrackInvariant, PTL

\* As long as no call was lost, every working order is on record under its own role between runs, so
\* that the next run finds it (options_flip/algorithm.py, execute).
THEOREM RecordIsComplete ==
    ASSUME ~PairsHeld
    PROVE  Spec => []EveryOrderRecorded
<1>1. BaseInv /\ TrackInv => EveryOrderRecorded
  <2> SUFFICES ASSUME BaseInv, TrackInv, pc = "idle", faults = 0, NEW i \in Working
               PROVE  saved.ids[book[i].role] = i
    BY DEF EveryOrderRecorded
  <2> DEFINE k == book[i].role
  <2>1. k \in VisibleRoles /\ i \in WorkingAs(k)
    BY AllVisible DEF BaseInv, OrderInv, WorkingAs
  <2> HIDE DEF k
  <2>2. i = Tracked(k)
    BY <2>1, NoneUnknown
  <2> QED
    BY <2>2 DEF Tracked, k
<1> QED
  BY <1>1, Typed, TrackInvariant, PTL

-----------------------------------------------------------------------------
(* How many contracts are held                                             *)

Most == (IF raced THEN 2 ELSE 1) * Contracts

\* The run is going to send a bid, or may find that it has to.
Bidding ==
    /\ plan.wanted["entry"] # NoOrder
    /\ pc = "list" \/ (pc = "work" /\ todo["entry"] \in {"submit", "replace", "recancel"})

\* A bid is for one trade.
BidInv == plan.wanted["entry"] # NoOrder => plan.wanted["entry"].quantity \in 1..Contracts

\* What is held, and what a working bid may still add to it: one trade's worth while a run has its bid
\* still to send, for the run began with nothing held.
Within == 
    /\ Held <= Most
    /\ \A i \in WorkingAs("entry") : book[i].left <= Contracts /\ Held + book[i].left <= Most
    /\ Bidding => /\ Held <= Contracts
                  /\ \A i \in WorkingAs("entry") : Held + book[i].left <= Contracts
    /\ plan.wanted["entry"] # NoOrder /\ pc # "idle" /\ ~raced => Held = 0

EntryInv == BidInv /\ (faults = 0 => Within)

LEMMA EntryVisible == "entry" \in VisibleRoles
BY DEF VisibleRoles, Roles, Sells

LEMMA HeldCounts == TypeInv => Held \in Nat
BY DEF TypeInv, Held, Series

LEMMA EntryInit == Init => EntryInv
BY SizesAssumption DEF Held, Series, Init, EntryInv, BidInv, Within, Most, Bidding, WorkingAs, Working, NoPlan, NothingWanted, Roles

\* A step that at most takes working bids away.
LEMMA EntryShrinks ==
    ASSUME EntryInv, UNCHANGED <<Held, raced>>, plan'.wanted = plan.wanted,
           faults' = 0 => faults = 0, Bidding' => Bidding, pc' # "idle" => pc # "idle",
           \A j \in WorkingAs("entry")' : j \in WorkingAs("entry") /\ book'[j] = book[j]
    PROVE  EntryInv'
BY DEF EntryInv, BidInv, Within, Most

\* What a plan wants of the bid.
LEMMA PlanBids ==
    ASSUME BaseInv, PlanHeld \/ PlanFlat
    PROVE  \/ plan'.wanted["entry"] = NoOrder
           \/ Held = 0 /\ plan'.wanted["entry"].quantity \in 1..Contracts
<1>1. NothingWanted["entry"] = NoOrder /\ "entry" \in DOMAIN NothingWanted
  BY DEF NothingWanted, Roles
<1>2. CASE PlanHeld
  <2>1. \/ \E c \in Series, p \in Asks[account.venue] : plan'.wanted = Exit(c, p)
        \/ plan'.wanted = NothingWanted
    <3>1. \A wanted, contracts, priced : Adopt(wanted, contracts, priced) => plan'.wanted = wanted
      BY DEF Adopt
    <3> QED
      BY <1>2, <3>1 DEF PlanHeld
  <2> QED
    BY <1>1, <2>1, ExitWanted DEF BaseInv
<1>3. CASE PlanFlat
  <2>1. /\ Held = 0
        /\ \/ plan'.wanted = NothingWanted
           \/ \E c \in Series, q \in 1..Contracts, p \in Bids :
                plan'.wanted = [NothingWanted EXCEPT !["entry"] = Bid(c, q, p)]
    BY <1>3 DEF PlanFlat, Adopt
  <2>2. CASE plan'.wanted = NothingWanted
    BY <1>1, <2>2
  <2>3. ASSUME NEW c \in Series, NEW q \in 1..Contracts, NEW p \in Bids,
               plan'.wanted = [NothingWanted EXCEPT !["entry"] = Bid(c, q, p)]
        PROVE  plan'.wanted["entry"].quantity \in 1..Contracts
    <3>1. plan'.wanted["entry"] = Bid(c, q, p)
      BY <1>1, <2>3
    <3>2. Bid(c, q, p).quantity = q
      BY DEF Bid, Single
    <3> QED
      BY <3>1, <3>2
  <2> QED
    BY <2>1, <2>2, <2>3
<1> QED
  BY <1>2, <1>3

\* A bid goes out: none works beside it.
LEMMA BidSent ==
    ASSUME BaseInv, WorkInv, EntryInv, Bidding, pc = "work", UNCHANGED <<Held, raced, plan, pc>>,
           NEW sent, Adds("entry", sent), todo'["entry"] = "none", faults' = 0 => faults = 0,
           WorkingAs("entry")' \subseteq {NewId}
    PROVE  EntryInv'
<1> SUFFICES ASSUME faults' = 0
             PROVE  Within'
  BY DEF EntryInv, BidInv
<1>1. Held \in Nat /\ BidInv /\ Within
  BY HeldCounts DEF BaseInv, EntryInv
<1>2. book'[NewId].left \in 1..Contracts
  BY <1>1 DEF Adds, Placed, BidInv, Bidding
<1>3. Held <= Contracts /\ (~raced => Held = 0)
  BY <1>1 DEF Within, Bidding
<1>4. ~Bidding'
  BY DEF Bidding
<1>5. Held + book'[NewId].left <= Most'
  BY <1>1, <1>2, <1>3, SizesAssumption DEF Most
<1>6. \A i \in WorkingAs("entry")' : book'[i].left <= Contracts /\ Held' + book'[i].left <= Most'
  BY <1>2, <1>5
<1>7. Held' <= Most' /\ (plan'.wanted["entry"] # NoOrder /\ pc' # "idle" /\ ~raced' => Held' = 0)
  BY <1>1 DEF Within, Most
<1> QED
  BY <1>4, <1>6, <1>7 DEF Within

LEMMA EntryStep ==
    BaseInv /\ WorkInv /\ TrackInv /\ BaseInv' /\ TrackInv' /\ EntryInv /\ [Next]_vars => EntryInv'
<1> SUFFICES ASSUME BaseInv, WorkInv, TrackInv, BaseInv', TrackInv', EntryInv, [Next]_vars
             PROVE  EntryInv'
  OBVIOUS
<1>1. /\ faults \in Nat /\ Held \in Nat /\ "entry" \in Roles /\ Contracts \in Nat
      /\ WorkingAs("entry") \subseteq Working
  BY SizesAssumption, HeldCounts DEF BaseInv, TypeInv, Roles, WorkingAs
<1>2. CASE PlanHeld \/ PlanFlat
  <2>1. UNCHANGED <<book, Held, raced>> /\ pc = "idle" /\ pc' = "list"
    BY <1>2, PlanMoves DEF Held
  <2>2. faults' = 0 => faults = 0
    <3>1. faults' = faults \/ faults' = faults + 1
      BY <1>2 DEF PlanHeld, PlanFlat
    <3> QED
      BY <1>1, <3>1
  <2>3. BidInv'
    BY <1>2, PlanBids DEF BidInv
  <2>4. WorkingAs("entry")' = WorkingAs("entry")
    BY <2>1 DEF WorkingAs, Working
  <2>5. CASE plan'.wanted["entry"] = NoOrder
    BY <2>1, <2>2, <2>3, <2>4, <2>5 DEF EntryInv, Within, Most, Bidding
  <2>6. CASE Held = 0
    <3>1. \A i \in WorkingAs("entry") : book[i].left \in Nat
      BY <1>1, EntryVisible DEF BaseInv, OrderInv, WorkingAs
    <3> QED
      BY <1>1, <2>1, <2>2, <2>3, <2>4, <2>6, <3>1 DEF EntryInv, Within, Most
  <2> QED
    BY <1>2, <2>5, <2>6, PlanBids
<1>3. CASE Replay \/ Crash
  <2>1. faults' = faults + 1 /\ plan' = plan
    BY <1>3 DEF Replay, Crash, Fault
  <2> QED
    BY <1>1, <2>1 DEF EntryInv, BidInv
<1>4. CASE List \/ Save
  <2>1. /\ UNCHANGED <<book, Held, raced, plan, faults>>
        /\ pc # "idle" /\ pc' \in {"work", "idle"} /\ (pc' = "work" => pc = "list")
    BY <1>4 DEF List, Save, brokerVars, Held
  <2>2. WorkingAs("entry")' = WorkingAs("entry")
    BY <2>1 DEF WorkingAs, Working
  <2> QED
    BY <2>1, <2>2, EntryShrinks DEF Bidding
<1>5. ASSUME NEW m \in Roles, Cancel(m) \/ Recancel(m)
      PROVE  EntryInv'
  <2>1. /\ UNCHANGED <<Held, raced, plan, pc>> /\ pc = "work"
        /\ todo'["entry"] = todo["entry"] \/ todo'["entry"] = "none" \/ todo["entry"] = "recancel"
        /\ book' \in {book, [book EXCEPT ![plan.ids[m]] = NoOrder]}
        /\ faults' = faults \/ faults' = faults + 1
    BY <1>1, <1>5 DEF Cancel, Recancel, CancelAt, Fault, BaseInv, TypeInv, Held
  <2>2. \A j \in WorkingAs("entry")' : j \in WorkingAs("entry") /\ book'[j] = book[j]
    BY <2>1, Removing DEF BaseInv, Shrinks, WorkingAs
  <2>3. (faults' = 0 => faults = 0) /\ (Bidding' => Bidding)
    BY <1>1, <2>1 DEF Bidding
  <2> QED
    BY <2>1, <2>2, <2>3, EntryShrinks
<1>6. ASSUME NEW m \in Roles, Submit(m) \/ Replace(m)
      PROVE  EntryInv'
  <2> DEFINE i == plan.ids[m]
             rest == [book EXCEPT ![i] = NoOrder]
  <2>1. /\ UNCHANGED <<Held, raced, plan, pc>> /\ pc = "work" /\ todo[m] \in {"submit", "replace"}
        /\ faults' = faults \/ faults' = faults + 1
        /\ m # "entry" => todo'["entry"] = todo["entry"]
    BY <1>1, <1>6 DEF Submit, Replace, Accepted, Withdrawn, Fault, BaseInv, TypeInv, Held
  <2>2. faults' = 0 => faults = 0
    BY <1>1, <2>1
  <2>3. Bidding' => Bidding
    BY <1>1, <2>1 DEF Bidding, WorkInv
  \* An order goes out, for m.
  <2>4. ASSUME Free # {}, NEW before \in {book, rest}, NEW sent,
               book' = [before EXCEPT ![NewId] = Placed(m, sent)],
               todo[m] = "replace" => before = rest,
               \/ orderIds'[m] = NewId /\ todo'[m] = "none"
               \/ faults' = faults + 1
        PROVE  EntryInv'
    <3>1. Adds(m, sent)
      BY <2>4, Placing DEF BaseInv
    <3>2. CASE faults' # 0
      BY <2>1, <3>2 DEF EntryInv, BidInv
    <3>3. CASE faults' = 0 /\ m # "entry"
      <4>1. \A j \in WorkingAs("entry")' : j \in WorkingAs("entry") /\ book'[j] = book[j]
        BY <3>1, <3>3 DEF Adds, WorkingAs, Placed
      <4> QED
        BY <2>1, <2>2, <2>3, <4>1, EntryShrinks
    <3>4. CASE faults' = 0 /\ m = "entry"
      <4>1. orderIds'[m] = NewId /\ todo'[m] = "none"
        BY <1>1, <2>4, <3>4
      <4>2. Tracked("entry")' = NewId
        BY <2>1, <3>4, <4>1 DEF Tracked
      <4>3. WorkingAs("entry")' \subseteq {NewId}
        <5>1. Unknown("entry")' = {}
          BY <3>4, EntryVisible, FS_EmptySet, FS_CardinalityType DEF TrackInv, VisibleRoles, PairsHeld
        <5> QED
          BY <4>2, <5>1 DEF Unknown
      <4>4. Bidding
        BY <1>1, <2>1, <3>4 DEF Bidding, WorkInv
      <4> QED
        BY <2>1, <2>2, <3>1, <3>4, <4>1, <4>3, <4>4, BidSent
    <3> QED
      BY <3>2, <3>3, <3>4
  <2>5. ASSUME book' \in {book, rest}
        PROVE  EntryInv'
    <3>1. \A j \in WorkingAs("entry")' : j \in WorkingAs("entry") /\ book'[j] = book[j]
      BY <2>5, Removing DEF BaseInv, Shrinks, WorkingAs
    <3> QED
      BY <2>1, <2>2, <2>3, <3>1, EntryShrinks
  <2>6. CASE Submit(m)
    <3>1. \/ /\ Free # {} /\ book' = [book EXCEPT ![NewId] = Placed(m, Sent(account.venue, plan.wanted[m]))]
             /\ (orderIds'[m] = NewId /\ todo'[m] = "none") \/ faults' = faults + 1
          \/ book' = book
      BY <2>6, SubmitOutcomes DEF BaseInv, TypeInv, MaybeIds
    <3>2. todo[m] = "submit"
      BY <2>6 DEF Submit
    <3> QED
      BY <2>4, <2>5, <3>1, <3>2
  <2>7. CASE Replace(m)
    <3> DEFINE sent == SentInstead(account.venue, book[i].sent, plan.wanted[m])
    <3>1. \/ /\ Free # {} /\ book' = [rest EXCEPT ![NewId] = Placed(m, sent)]
             /\ (orderIds'[m] = NewId /\ todo'[m] = "none") \/ faults' = faults + 1
          \/ book' \in {book, rest}
      <4>1. orderIds' = [orderIds EXCEPT ![m] = NewId] => orderIds'[m] = NewId
        BY DEF BaseInv, TypeInv, MaybeIds
      <4>2. \A what : todo' = [todo EXCEPT ![m] = what] => todo'[m] = what
        BY DEF BaseInv, TypeInv
      <4> QED
        BY <2>7, <4>1, <4>2, ReplaceOutcomes DEF BaseInv
    <3> QED
      BY <2>4, <2>5, <3>1
  <2> QED
    BY <1>6, <2>6, <2>7
<1>7. ASSUME NEW i \in OrderIds, Vanish(i)
      PROVE  EntryInv'
  <2>1. UNCHANGED <<Held, raced, plan, pc, todo, faults>> /\ book' = [book EXCEPT ![i] = NoOrder]
    BY <1>7 DEF Vanish, Held
  <2>2. \A j \in WorkingAs("entry")' : j \in WorkingAs("entry") /\ book'[j] = book[j]
    BY <2>1 DEF BaseInv, TypeInv, WorkingAs, Working
  <2> QED
    BY <2>1, <2>2, EntryShrinks DEF Bidding
<1>8. ASSUME NEW i \in OrderIds, NEW n \in 1..Contracts, Fill(i, n)
      PROVE  EntryInv'
  <2>1. UNCHANGED <<plan, pc, todo, faults>> /\ i \in Working
    BY <1>8 DEF Fill
  <2>2. BidInv' /\ (Bidding' <=> Bidding)
    BY <2>1 DEF EntryInv, BidInv, Bidding
  <2>3. CASE faults # 0
    BY <2>1, <2>2, <2>3 DEF EntryInv
  <2>4. CASE faults = 0 /\ book[i].role = "entry"
    <3>1. /\ n <= book[i].left
          /\ book' = [book EXCEPT ![i] = IF n = book[i].left THEN NoOrder ELSE [book[i] EXCEPT !.left = @ - n]]
          /\ raced' = (IF pc # "idle" THEN TRUE ELSE raced)
      BY <1>8, <2>4 DEF Fill
    <3> HIDE DEF Held
    <3>0. Held' \in Nat /\ Held' <= Held + n /\ n \in Nat
      BY <1>1, <1>8, <2>4, FillMoves DEF BaseInv
    <3>2. i \in WorkingAs("entry") /\ WorkingAs("entry") \subseteq {Tracked("entry")}
      BY <2>1, <2>4, EntryVisible, NoneUnknown DEF WorkingAs
    <3>3. DOMAIN book[i] = {"role", "sent", "left"} /\ book[i].left \in Nat
      BY <2>1, <2>4, EntryVisible DEF BaseInv, OrderInv
    <3>4. \A j \in WorkingAs("entry")' : j \in Working
      BY <2>1, <3>1 DEF WorkingAs, Working, BaseInv, TypeInv
    <3>5. \A j \in WorkingAs("entry")' : j \in WorkingAs("entry")
      BY <2>4, <3>1, <3>3, <3>4 DEF WorkingAs, BaseInv, TypeInv
    <3>6. \A j \in WorkingAs("entry")' : j = i
      BY <3>2, <3>5
    <3>7. ASSUME NEW j \in WorkingAs("entry")'
          PROVE  book'[j].left = book[i].left - n
      <4>1. j = i /\ book'[i] # NoOrder
        BY <3>6 DEF WorkingAs, Working
      <4> QED
        BY <2>1, <3>1, <3>3, <4>1 DEF Working, BaseInv, TypeInv
    <3>8. /\ book[i].left <= Contracts /\ Held + book[i].left <= Most
          /\ Bidding => Held + book[i].left <= Contracts
          /\ Most \in Nat /\ Most' \in Nat /\ Most <= Most'
      BY <1>1, <2>4, <3>1, <3>2 DEF EntryInv, Within, Most
    <3> HIDE DEF Most
    <3>9. Held' <= Most' /\ (Bidding => Held' <= Contracts)
      BY <1>1, <3>0, <3>1, <3>3, <3>8
    <3>10. \A j \in WorkingAs("entry")' :
              /\ book'[j].left <= Contracts /\ Held' + book'[j].left <= Most'
              /\ Bidding => Held' + book'[j].left <= Contracts
      BY <1>1, <3>0, <3>1, <3>3, <3>7, <3>8
    <3>11. pc' # "idle" => raced'
      BY <2>1, <3>1
    <3> QED
      BY <2>2, <3>9, <3>10, <3>11 DEF EntryInv, Within
  <2>5. CASE faults = 0 /\ book[i].role # "entry"
    <3>1. /\ Held' \in Nat /\ Held' <= Held /\ raced' = raced
          /\ book' = [book EXCEPT ![i] = IF n = book[i].left THEN NoOrder ELSE [book[i] EXCEPT !.left = @ - n]]
      <4>1. book[i].role \in Sells
        BY <2>1, <2>5 DEF BaseInv, OrderInv, Roles
      <4>2. raced' = raced
        BY <1>8, <2>5 DEF Fill
      <4>3. Held' \in Nat /\ Held' <= Held
        BY <1>8, <2>5, <4>1, FillMoves DEF BaseInv, Roles
      <4> QED
        BY <1>8, <2>5, <4>1, <4>2, <4>3 DEF Fill
    <3>2. \A j \in WorkingAs("entry")' : j \in WorkingAs("entry") /\ book'[j] = book[j]
      BY <2>1, <2>5, <3>1 DEF WorkingAs, Working, BaseInv, TypeInv, OrderInv
    <3>3. \A j \in WorkingAs("entry") : book[j].left \in Nat
      BY <1>1, EntryVisible DEF BaseInv, OrderInv, WorkingAs
    <3>4. Most' = Most /\ Most \in Nat /\ Held' \in Nat /\ Held' <= Held
      BY <1>1, <3>1 DEF Most
    <3> QED
      BY <1>1, <2>1, <2>2, <2>5, <3>1, <3>2, <3>3, <3>4 DEF EntryInv, Within
  <2> QED
    BY <2>3, <2>4, <2>5
<1>9. CASE UNCHANGED vars
  BY <1>9 DEF vars, Held, EntryInv, BidInv, Within, Most, Bidding, WorkingAs, Working
<1> QED
  BY <1>2, <1>3, <1>4, <1>5, <1>6, <1>7, <1>8, <1>9 DEF Next, RunStep

\* For any size of a trade: as long as no call was lost the position is one trade's, and two at the most
\* once a bid has filled while a run was deciding on it (options_flip/algorithm.py, one contract per symbol).
THEOREM OneTradeHeld == Spec => []BoundedPosition
<1>1. EntryInv => BoundedPosition
  BY DEF EntryInv, Within, Most, BoundedPosition
<1>2. Spec => []EntryInv
  BY EntryInit, EntryStep, Typed, TrackInvariant, PTL DEF Spec
<1> QED
  BY <1>1, <1>2, PTL

-----------------------------------------------------------------------------
(* The orders a run leaves                                                 *)

\* What is wanted for a role is what stands under the id, or nothing does and nothing is wanted.
Done(k, ids) ==
    IF plan.wanted[k] = NoOrder THEN ids[k] \notin Working
    ELSE ids[k] \in Working /\ ~Differs(Listing(ids[k]), plan.wanted[k])

\* A run that nothing disturbed has done what it no longer has to do; a run that wants what the last
\* one left has nothing to do.
SettleInv ==
    /\ smooth /\ pc = "idle" => \A k \in Roles : Done(k, saved.ids)
    /\ smooth /\ pc = "work" => \A k \in Roles : todo[k] = "none" => Done(k, orderIds)
    /\ calm => smooth
    /\ calm /\ pc = "list" => \A k \in Roles : Done(k, plan.ids)
    /\ calm /\ pc = "work" => todo = Nothing

LEMMA SettleInit == Init => SettleInv
BY DEF Init, SettleInv

\* An order that goes leaves what is done for the other roles as it was.
LEMMA DoneAfterShrink ==
    ASSUME NEW ids, NEW k \in Roles, Done(k, ids), plan' = plan, ids[k] \in Working => ids[k] \in Working',
           Shrinks
    PROVE  IF plan'.wanted[k] = NoOrder THEN ids[k] \notin Working'
           ELSE ids[k] \in Working' /\ ~Differs(RowOf(book'[ids[k]].sent), plan'.wanted[k])
BY DEF Done, Shrinks, Listing

LEMMA SettleCancel ==
    ASSUME BaseInv, WorkInv, SettleInv, NEW m \in Roles, Cancel(m) \/ Recancel(m)
    PROVE  SettleInv'
<1> DEFINE i == plan.ids[m]
<1>1. /\ UNCHANGED <<plan, pc, saved, orderIds>> /\ pc = "work" /\ todo[m] \in {"cancel", "recancel"}
      /\ \A k \in Roles \ {m} : todo'[k] = todo[k]
      /\ todo'[m] = (IF todo[m] = "cancel" THEN "none" ELSE "submit")
      /\ \/ book' = [book EXCEPT ![i] = NoOrder] /\ UNCHANGED <<smooth, calm>>
         \/ book' = book /\ Disturb
  BY DEF Cancel, Recancel, CancelAt, Fault, quiet, BaseInv, TypeInv
<1>2. ~calm
  BY <1>1 DEF SettleInv, Nothing
<1>3. CASE Disturb
  <2>1. ~smooth' /\ ~calm'
    BY <1>3 DEF Disturb
  <2> QED
    BY <2>1 DEF SettleInv
<1>4. ASSUME book' = [book EXCEPT ![i] = NoOrder], UNCHANGED <<smooth, calm>>, smooth,
             NEW k \in Roles, todo'[k] = "none"
      PROVE  Done(k, orderIds)'
  <2>1. Shrinks
    BY <1>4 DEF Shrinks, Working, BaseInv, TypeInv
  <2>2. CASE k = m
    <3>1. orderIds[k] = NoId /\ plan.wanted[k] = NoOrder
      BY <1>1, <1>4, <2>2 DEF WorkInv
    <3> QED
      BY <1>1, <3>1, IdsAssumption DEF Done, Working
  <2>3. CASE k # m
    <3>1. Done(k, orderIds)
      BY <1>1, <1>4, <2>3 DEF SettleInv
    <3>2. orderIds[k] \in Working => orderIds[k] \in Working'
      <4>1. orderIds[k] \in Working => orderIds[k] # i
        BY <2>3 DEF BaseInv, ReferInv, RefersTo
      <4> QED
        BY <1>4, <4>1 DEF Working, BaseInv, TypeInv
    <3> QED
      BY <1>1, <2>1, <3>1, <3>2, DoneAfterShrink DEF Done, Listing
  <2> QED
    BY <2>2, <2>3
<1> QED
  BY <1>1, <1>2, <1>3, <1>4 DEF SettleInv

\* A wanted order goes out, and the old one of its role is taken away or was gone.
LEMMA SettlePlace ==
    ASSUME ~PairsHeld, BaseInv, WorkInv, SettleInv, NEW m \in Roles, pc = "work", todo[m] # "none",
           UNCHANGED <<plan, pc, saved, smooth, calm>>, Free # {},
           NEW before \in {book, [book EXCEPT ![plan.ids[m]] = NoOrder]}, NEW sent,
           book' = [before EXCEPT ![NewId] = Placed(m, sent)],
           plan.wanted[m] # NoOrder, ~Differs(RowOf(sent), plan.wanted[m]),
           orderIds' = [orderIds EXCEPT ![m] = NewId], todo' = [todo EXCEPT ![m] = "none"]
    PROVE  SettleInv'
<1>1. Adds(m, sent) /\ DOMAIN book' = OrderIds
  BY Placing DEF BaseInv
<1>2. ~calm
  BY DEF SettleInv, Nothing
<1>3. ASSUME smooth, NEW k \in Roles, todo'[k] = "none"
      PROVE  Done(k, orderIds)'
  <2>1. CASE k = m
    <3>1. orderIds'[k] = NewId
      BY <2>1 DEF BaseInv, TypeInv, MaybeIds
    <3>2. NewId \in Working' /\ book'[NewId].sent = sent
      BY <1>1 DEF Adds, Working, Placed, NoOrder
    <3> QED
      BY <2>1, <3>1, <3>2 DEF Done, Listing
  <2>2. CASE k # m
    <3>1. orderIds'[k] = orderIds[k] /\ todo[k] = "none"
      BY <1>3, <2>2 DEF BaseInv, TypeInv, MaybeIds
    <3>2. Done(k, orderIds)
      BY <1>3, <3>1 DEF SettleInv
    <3>3. orderIds[k] # NewId
      BY <1>1 DEF Adds
    <3>4. CASE orderIds[k] \in Working
      <4>1. orderIds[k] # plan.ids[m]
        BY <2>2, <3>4 DEF BaseInv, ReferInv, RefersTo
      <4>2. orderIds[k] \in Working' /\ book'[orderIds[k]] = book[orderIds[k]]
        BY <3>3, <3>4, <4>1 DEF Working, BaseInv, TypeInv
      <4> QED
        BY <3>1, <3>2, <3>4, <4>2 DEF Done, Listing
    <3>5. CASE orderIds[k] \notin Working
      <4>1. orderIds[k] \notin Working'
        BY <1>1, <3>3, <3>5 DEF Adds
      <4> QED
        BY <3>1, <3>2, <3>5, <4>1 DEF Done
    <3> QED
      BY <3>4, <3>5
  <2> QED
    BY <2>1, <2>2
<1> QED
  BY <1>2, <1>3 DEF SettleInv

LEMMA SettleStep == ASSUME ~PairsHeld
                    PROVE  BaseInv /\ WorkInv /\ BaseInv' /\ SettleInv /\ [Next]_vars => SettleInv'
<1> SUFFICES ASSUME BaseInv, WorkInv, BaseInv', SettleInv, [Next]_vars
             PROVE  SettleInv'
  OBVIOUS
<1>1. CASE PlanHeld \/ PlanFlat
  <2>1. UNCHANGED <<book, saved>> /\ pc = "idle" /\ pc' = "list" /\ plan'.ids = saved.ids /\ smooth'
    BY <1>1, PlanMoves
  <2>2. calm' => calm /\ plan'.wanted = plan.wanted
    <3>1. \E wanted, contracts, priced : Adopt(wanted, contracts, priced)
      BY <1>1 DEF PlanHeld, PlanFlat
    <3>2. ASSUME NEW wanted, NEW contracts, NEW priced, Adopt(wanted, contracts, priced), calm'
          PROVE  calm /\ plan'.wanted = plan.wanted
      <4>1. plan'.wanted = wanted
        BY <3>2 DEF Adopt
      <4>2. calm /\ wanted = plan.wanted
        <5>1. calm' = (calm /\ wanted = plan.wanted)
          BY <3>2 DEF Adopt
        <5> QED
          BY <3>2, <5>1, Zenon
      <4> QED
        BY <4>1, <4>2
    <3> QED
      BY <3>1, <3>2
  <2>3. Working' = Working
    BY <2>1 DEF Working
  <2>4. ASSUME calm', NEW k \in Roles
        PROVE  Done(k, plan.ids)'
    <3>1. Done(k, saved.ids)
      BY <2>1, <2>2, <2>4 DEF SettleInv
    <3> QED
      BY <2>1, <2>2, <2>3, <2>4, <3>1 DEF Done, Listing
  <2> QED
    BY <2>1, <2>4 DEF SettleInv
<1>2. CASE Replay \/ Crash
  BY <1>2 DEF Replay, Crash, Fault, Disturb, SettleInv
<1>3. CASE List
  <2>1. /\ UNCHANGED <<book, plan, smooth, calm>> /\ pc = "list" /\ pc' = "work"
        /\ todo' = [k \in Roles |-> IF Decide(k) = "keep" THEN "none" ELSE Decide(k)]
        /\ orderIds' = [k \in Roles |-> IF Decide(k) = "keep" THEN plan.ids[k] ELSE NoId]
    BY <1>3 DEF List, brokerVars, quiet
  <2>2. Working' = Working
    BY <2>1 DEF Working
  <2>3. ASSUME NEW k \in Roles, todo'[k] = "none"
        PROVE  Done(k, orderIds)'
    <3>1. CASE Decide(k) = "keep"
      <4>1. plan.wanted[k] # NoOrder /\ Listed(plan.ids[k]) /\ ~Differs(Listing(plan.ids[k]), plan.wanted[k])
        BY <3>1 DEF Decide
      <4> QED
        BY <2>1, <2>2, <3>1, <4>1 DEF Done, Listed, Listing
    <3>2. CASE Decide(k) = "none"
      <4>1. plan.wanted[k] = NoOrder
        BY <3>2 DEF Decide
      <4> QED
        BY <2>1, <2>2, <3>2, <4>1, IdsAssumption DEF Done, Working
    <3> QED
      BY <2>1, <2>3, <3>1, <3>2
  <2>4. ASSUME calm, NEW k \in Roles
        PROVE  todo'[k] = "none"
    <3>1. Done(k, plan.ids)
      BY <2>1, <2>4 DEF SettleInv
    <3>2. plan.ids[k] \in Working => HasRow(book[plan.ids[k]].sent) /\ plan.ids[k] # NoId
      BY AllVisible, IdsAssumption DEF BaseInv, OrderInv, Spelled, Working
    <3>3. Decide(k) \in {"none", "keep"}
      BY <3>1, <3>2 DEF Done, Decide, Listed
    <3> QED
      BY <2>1, <3>3
  <2>5. calm => todo' = Nothing
    BY <2>1, <2>4 DEF Nothing
  <2> QED
    BY <2>1, <2>3, <2>5 DEF SettleInv
<1>4. ASSUME NEW m \in Roles, Cancel(m) \/ Recancel(m)
      PROVE  SettleInv'
  BY <1>4, SettleCancel
<1>5. ASSUME NEW m \in Roles, Submit(m)
      PROVE  SettleInv'
  <2> DEFINE sent == Sent(account.venue, plan.wanted[m])
  <2>1. UNCHANGED <<plan, pc, saved>> /\ pc = "work" /\ todo[m] = "submit" /\ plan.wanted[m] # NoOrder
    BY <1>5 DEF Submit, WorkInv
  <2>2. m \in VisibleRoles /\ account.venue \in Venues
    BY AllVisible, AccountsAssumption DEF BaseInv, TypeInv
  <2>3. Takes(account.venue, plan.wanted[m]) /\ Wanted(m, plan.wanted[m])
    BY <2>1, <2>2, SentSpelled
  <2>4. ~Differs(RowOf(sent), plan.wanted[m])
    BY <2>2, <2>3, SentAsWanted
  <2> HIDE DEF sent
  <2>5. CASE Disturb
    BY <2>5 DEF Disturb, SettleInv
  <2>6. CASE /\ Free # {} /\ book' = [book EXCEPT ![NewId] = Placed(m, sent)]
             /\ orderIds' = [orderIds EXCEPT ![m] = NewId] /\ todo' = [todo EXCEPT ![m] = "none"]
             /\ UNCHANGED <<smooth, calm>>
    BY <2>1, <2>4, <2>6, SettlePlace
  <2> QED
    BY <1>5, <2>3, <2>5, <2>6, SubmitOutcomes DEF BaseInv, sent
<1>6. ASSUME NEW m \in Roles, Replace(m)
      PROVE  SettleInv'
  <2> DEFINE i == plan.ids[m]
             sent == SentInstead(account.venue, book[i].sent, plan.wanted[m])
  <2>1. UNCHANGED <<plan, pc, saved>> /\ pc = "work" /\ todo[m] = "replace" /\ plan.wanted[m] # NoOrder
    BY <1>6 DEF Replace, WorkInv
  <2>2. m \in VisibleRoles /\ account.venue \in Venues
    BY AllVisible, AccountsAssumption DEF BaseInv, TypeInv
  <2>3. Wanted(m, plan.wanted[m])
    BY <2>1, <2>2, SentSpelled
  <2>4. i \in Working => ~Differs(RowOf(sent), plan.wanted[m])
    <3>1. i \in Working => Spelled(m, book[i].sent)
      BY <2>2 DEF BaseInv, ReferInv, RefersTo, OrderInv
    <3> QED
      BY <2>2, <2>3, <3>1, ReplacedAsWanted
  <2> HIDE DEF sent
  <2>5. CASE Disturb
    BY <2>5 DEF Disturb, SettleInv
  <2>6. CASE /\ Free # {} /\ i \in Working
             /\ book' = [[book EXCEPT ![i] = NoOrder] EXCEPT ![NewId] = Placed(m, sent)]
             /\ orderIds' = [orderIds EXCEPT ![m] = NewId] /\ todo' = [todo EXCEPT ![m] = "none"]
             /\ UNCHANGED <<smooth, calm>>
    BY <2>1, <2>4, <2>6, SettlePlace
  <2>7. CASE todo' = [todo EXCEPT ![m] = "recancel"] /\ UNCHANGED <<book, orderIds, smooth, calm>>
    <3>1. ~calm /\ Working' = Working
      BY <2>1, <2>7 DEF SettleInv, Nothing, Working
    <3>2. \A k \in Roles : todo'[k] = "none" => todo[k] = "none"
      BY <2>7 DEF BaseInv, TypeInv
    <3> QED
      BY <2>1, <2>7, <3>1, <3>2 DEF SettleInv, Done, Listing
  <2> QED
    BY <1>6, <2>5, <2>6, <2>7, ReplaceOutcomes DEF BaseInv, sent
<1>7. CASE Save
  <2>1. /\ UNCHANGED <<book, plan, smooth>> /\ pc = "work" /\ pc' = "idle"
        /\ saved'.ids = orderIds /\ calm' = smooth /\ todo = Nothing
    BY <1>7 DEF Save, brokerVars
  <2>2. Working' = Working
    BY <2>1 DEF Working
  <2>3. smooth => \A k \in Roles : Done(k, orderIds)
    BY <2>1 DEF SettleInv, Nothing
  <2> QED
    BY <2>1, <2>2, <2>3 DEF SettleInv, Done, Listing
<1>8. CASE \E i \in OrderIds : Vanish(i) \/ \E n \in 1..Contracts : Fill(i, n)
  BY <1>8 DEF Vanish, Fill, Disturb, SettleInv
<1>9. CASE UNCHANGED vars
  BY <1>9 DEF vars, quiet, SettleInv, Done, Listing, Working
<1> QED
  BY <1>1, <1>2, <1>3, <1>4, <1>5, <1>6, <1>7, <1>8, <1>9 DEF Next, RunStep

LEMMA Settles == ASSUME ~PairsHeld
                 PROVE  Spec => []SettleInv
BY SettleInit, SettleStep, Typed, PTL DEF Spec

-----------------------------------------------------------------------------
(* And the contracts they are for                                          *)

\* What stands for a role is for the contract that is wanted, or was left there for another.
Right(k, ids) == plan.wanted[k] # NoOrder /\ ids[k] \in Working => OnContract(ids[k], k)

\* As long as nothing disturbs the run: an order found under a role when the run began that is for
\* another contract is known to be.
ContractInv ==
    /\ smooth /\ pc = "idle" => \A k \in Roles : Right(k, saved.ids)
    /\ smooth /\ pc = "work" => \A k \in Roles : Right(k, orderIds)
    /\ smooth /\ pc = "work" =>
        \A k \in Roles : plan.wanted[k] # NoOrder /\ plan.ids[k] \in Working =>
            Listing(plan.ids[k]).contract = plan.wanted[k].contract \/ k \in switched

LEMMA ContractInit == Init => ContractInv
BY DEF Init, ContractInv

LEMMA ContractShrinks ==
    ASSUME ContractInv, Shrinks, UNCHANGED <<account, plan, pc, saved, orderIds, smooth, switched>>
    PROVE  ContractInv'
<1>1. \A i \in Working' : i \in Working /\ Listing(i)' = Listing(i)
  BY DEF Shrinks, Listing
<1> QED
  BY <1>1 DEF ContractInv, Right, OnContract

LEMMA ContractAdds ==
    ASSUME BaseInv, ContractInv, NEW m \in Roles, NEW sent, Adds(m, sent),
           UNCHANGED <<account, plan, pc, saved, smooth, switched>>, pc = "work",
           orderIds' = [orderIds EXCEPT ![m] = NewId],
           smooth => \/ RowOf(sent).contract = plan.wanted[m].contract
                     \/ m \in switched /\ account.venue = "alpaca"
    PROVE  ContractInv'
<1> DEFINE Fits(i, k) == \/ RowOf(book'[i].sent).contract = plan.wanted[k].contract
                         \/ k \in switched /\ (i = plan.ids[k] \/ account.venue = "alpaca")
<1>1. \A j \in Working' \ {NewId} : j \in Working /\ RowOf(book'[j].sent) = Listing(j)
  BY DEF Adds, Listing
<1>2. smooth => Fits(NewId, m)
  BY DEF Adds, Placed
<1>3. \A k \in Roles : NewId \notin {saved.ids[k], plan.ids[k]}
  BY DEF Adds
<1>4. ASSUME smooth, NEW k \in Roles, plan.wanted[k] # NoOrder, orderIds'[k] \in Working'
      PROVE  Fits(orderIds'[k], k)
  <2>1. CASE k = m
    <3>1. orderIds'[k] = NewId
      BY <2>1 DEF BaseInv, TypeInv, MaybeIds
    <3> QED
      BY <1>2, <1>4, <2>1, <3>1
  <2>2. CASE k # m
    <3>1. orderIds'[k] = orderIds[k] /\ orderIds[k] # NewId
      BY <2>2 DEF BaseInv, TypeInv, MaybeIds, Adds
    <3>2. orderIds[k] \in Working /\ RowOf(book'[orderIds[k]].sent) = Listing(orderIds[k])
      BY <1>1, <1>4, <3>1
    <3>3. OnContract(orderIds[k], k)
      BY <1>4, <3>2 DEF ContractInv, Right
    <3> QED
      BY <3>1, <3>2, <3>3 DEF OnContract
  <2> QED
    BY <2>1, <2>2
<1>5. \A k \in Roles : smooth => Right(k, orderIds)'
  BY <1>4 DEF Right, OnContract, Listing
<1>6. ASSUME smooth, NEW k \in Roles, plan.wanted[k] # NoOrder, plan.ids[k] \in Working'
      PROVE  Listing(plan.ids[k])'.contract = plan.wanted[k].contract \/ k \in switched
  <2>1. plan.ids[k] \in Working /\ RowOf(book'[plan.ids[k]].sent) = Listing(plan.ids[k])
    BY <1>1, <1>3, <1>6
  <2> QED
    BY <1>6, <2>1 DEF ContractInv, Listing
<1> QED
  BY <1>5, <1>6 DEF ContractInv

LEMMA ContractStep ==
    ASSUME ~PairsHeld
    PROVE  BaseInv /\ WorkInv /\ ContractInv /\ [Next]_vars => ContractInv'
<1> SUFFICES ASSUME BaseInv, WorkInv, ContractInv, [Next]_vars
             PROVE  ContractInv'
  OBVIOUS
<1>0. UNCHANGED account
  BY DEF Next, vars
<1>1. CASE PlanHeld \/ PlanFlat
  BY <1>1, PlanMoves DEF ContractInv
<1>2. CASE Disturb
  BY <1>2 DEF Disturb, ContractInv
<1>3. CASE Replay \/ Crash
  BY <1>2, <1>3 DEF Replay, Crash, Fault
<1>4. CASE List
  <2>1. /\ UNCHANGED <<account, book, plan, smooth>> /\ pc' = "work"
        /\ orderIds' = [k \in Roles |-> IF Decide(k) = "keep" THEN plan.ids[k] ELSE NoId]
        /\ switched' = IF smooth THEN {k \in Roles : Elsewhere(k)} ELSE {}
    BY <1>0, <1>4 DEF List, Switches, brokerVars
  <2>2. Working' = Working /\ \A i : RowOf(book'[i].sent) = Listing(i)
    BY <2>1 DEF Working, Listing
  <2>3. ASSUME smooth, NEW k \in Roles, plan.wanted[k] # NoOrder, plan.ids[k] \in Working
        PROVE  Listing(plan.ids[k]).contract = plan.wanted[k].contract \/ k \in switched'
    <3>1. Listed(plan.ids[k]) /\ plan.ids[k] # NoId
      BY <2>3, AllVisible, IdsAssumption DEF BaseInv, OrderInv, Spelled, Listed, Working
    <3> QED
      BY <2>1, <2>3, <3>1 DEF Elsewhere
  <2>4. ASSUME smooth, NEW k \in Roles, plan.wanted[k] # NoOrder, orderIds'[k] \in Working
        PROVE  orderIds'[k] = plan.ids[k]
    BY <2>1, <2>4, IdsAssumption DEF Working
  <2> QED
    BY <2>1, <2>2, <2>3, <2>4 DEF ContractInv, Right, OnContract, Listing
<1>5. ASSUME NEW m \in Roles, Cancel(m) \/ Recancel(m)
      PROVE  ContractInv'
  <2>1. /\ UNCHANGED <<account, plan, pc, saved, orderIds>>
        /\ \/ book' = [book EXCEPT ![plan.ids[m]] = NoOrder] /\ UNCHANGED <<smooth, switched>>
           \/ Disturb
    BY <1>0, <1>5 DEF Cancel, Recancel, CancelAt, Fault, quiet
  <2> QED
    BY <1>2, <2>1, Removing, ContractShrinks DEF BaseInv
<1>6. ASSUME NEW m \in Roles, Submit(m)
      PROVE  ContractInv'
  <2> DEFINE sent == Sent(account.venue, plan.wanted[m])
  <2>1. UNCHANGED <<account, plan, pc, saved>> /\ pc = "work" /\ todo[m] = "submit"
    BY <1>0, <1>6 DEF Submit
  <2>2. m \in VisibleRoles /\ account.venue \in Venues
    BY AllVisible, AccountsAssumption DEF BaseInv, TypeInv
  <2>3. Takes(account.venue, plan.wanted[m]) /\ Wanted(m, plan.wanted[m])
    BY <2>1, <2>2, SentSpelled
  <2>4. RowOf(sent).contract = plan.wanted[m].contract
    BY <2>2, <2>3, SentAsWanted
  <2> HIDE DEF sent
  <2>5. CASE /\ Free # {} /\ book' = [book EXCEPT ![NewId] = Placed(m, sent)]
             /\ orderIds' = [orderIds EXCEPT ![m] = NewId] /\ UNCHANGED <<smooth, switched>>
    <3>1. Adds(m, sent)
      BY <2>5, Placing DEF BaseInv
    <3> QED
      BY <2>1, <2>4, <2>5, <3>1, ContractAdds
  <2> QED
    BY <1>2, <1>6, <2>3, <2>5, SubmitOutcomes DEF BaseInv, sent
<1>7. ASSUME NEW m \in Roles, Replace(m)
      PROVE  ContractInv'
  <2> DEFINE i == plan.ids[m]
             sent == SentInstead(account.venue, book[i].sent, plan.wanted[m])
  <2>1. UNCHANGED <<account, plan, pc, saved>> /\ pc = "work" /\ todo[m] = "replace" /\ plan.wanted[m] # NoOrder
    BY <1>0, <1>7 DEF Replace, WorkInv
  <2>2. m \in VisibleRoles /\ account.venue \in Venues
    BY AllVisible, AccountsAssumption DEF BaseInv, TypeInv
  <2>3. Wanted(m, plan.wanted[m])
    BY <2>1, <2>2, SentSpelled
  <2>4. ASSUME i \in Working, smooth
        PROVE  \/ RowOf(sent).contract = plan.wanted[m].contract
               \/ m \in switched /\ account.venue = "alpaca"
    <3>1. Spelled(m, book[i].sent)
      BY <2>2, <2>4 DEF BaseInv, ReferInv, RefersTo, OrderInv
    <3> DEFINE old == book[i].sent
               wanted == plan.wanted[m]
               venue == account.venue
    <3>2. /\ venue = "schwab" => RowOf(sent).contract = wanted.contract
          /\ venue # "schwab" => RowOf(sent).contract = Listing(i).contract
      <4>1. m \in Roles /\ venue \in Venues /\ Wanted(m, wanted) /\ Spelled(m, old)
        BY <2>2, <2>3, <3>1
      <4>2. sent = SentInstead(venue, old, wanted) /\ Listing(i) = RowOf(old)
        BY DEF Listing
      <4> HIDE DEF old, wanted, venue, sent
      <4> QED
        BY <4>1, <4>2, ReplacedAsWanted
    <3>3. Listing(i).contract = plan.wanted[m].contract \/ m \in switched
      BY <2>1, <2>4 DEF ContractInv
    <3> QED
      BY <2>2, <3>2, <3>3 DEF Venues
  <2> HIDE DEF sent
  <2>5. CASE /\ Free # {} /\ i \in Working
             /\ book' = [[book EXCEPT ![i] = NoOrder] EXCEPT ![NewId] = Placed(m, sent)]
             /\ orderIds' = [orderIds EXCEPT ![m] = NewId] /\ UNCHANGED <<smooth, switched>>
    <3>1. Adds(m, sent)
      BY <2>5, Placing DEF BaseInv
    <3> QED
      BY <2>1, <2>4, <2>5, <3>1, ContractAdds
  <2>6. CASE UNCHANGED <<book, orderIds, smooth, switched>>
    <3>1. Shrinks
      BY <2>6 DEF Shrinks, Working
    <3> QED
      BY <2>1, <2>6, <3>1, ContractShrinks
  <2> QED
    BY <1>2, <1>7, <2>5, <2>6, ReplaceOutcomes DEF BaseInv, sent
<1>8. CASE Save
  <2>1. /\ UNCHANGED <<account, book, plan, smooth, switched>> /\ pc = "work" /\ pc' = "idle"
        /\ saved'.ids = orderIds
    BY <1>0, <1>8 DEF Save, brokerVars
  <2> QED
    BY <2>1 DEF ContractInv, Right, OnContract, Listing, Working
<1>9. CASE \E i \in OrderIds : Vanish(i) \/ \E n \in 1..Contracts : Fill(i, n)
  BY <1>2, <1>9 DEF Vanish, Fill
<1>10. CASE UNCHANGED vars
  BY <1>10 DEF vars, quiet, ContractInv, Right, OnContract, Listing, Working
<1> QED
  BY <1>1, <1>3, <1>4, <1>5, <1>6, <1>7, <1>8, <1>9, <1>10 DEF Next, RunStep

LEMMA ContractsKnown == ASSUME ~PairsHeld
                        PROVE  Spec => []ContractInv
BY ContractInit, ContractStep, Typed, PTL DEF Spec

-----------------------------------------------------------------------------
(* A run converges                                                         *)

\* A price that has not moved is within the tolerance.
LEMMA StaysWithin ==
    ASSUME NEW wanted \in Nat \ {0}, NEW current \in Nat, NEW tolerance \in Nat,
           ~Moved(wanted, current, tolerance)
    PROVE  LET slack == (wanted * tolerance) \div 100 IN
           /\ current \in (wanted - slack)..(wanted + slack)
           /\ tolerance = 0 => current = wanted
<1> DEFINE room == wanted * tolerance
           slack == room \div 100
<1>1. room \in Nat /\ (tolerance = 0 => room = 0)
  OBVIOUS
<1>2. current > 0 /\ 100 * Distance(wanted, current) <= Higher(room, 50)
  BY DEF Moved, Distance, Higher
<1> HIDE DEF room
<1>3. slack \in Nat /\ 100 * slack <= room /\ room < 100 * slack + 100
  BY <1>1
<1> HIDE DEF slack
<1>4. current \in (wanted - slack)..(wanted + slack) /\ (tolerance = 0 => current = wanted)
  BY <1>1, <1>2, <1>3 DEF Distance, Higher
<1> QED
  BY <1>4 DEF room, slack

\* A listed order that is not replaced serves what is wanted.
LEMMA NotDifferentServes ==
    ASSUME NEW k \in Roles, NEW r, NEW row, Wanted(k, r), Shaped(k, row), ~Differs(row, r)
    PROVE  Serves(row, r)
<1> DEFINE slack == (r.limit * Tolerance) \div 100
<1>1. row.action = r.action /\ row.type = r.type /\ row.quantity = r.quantity
  BY DEF Differs
<1>2. CASE k = "stop"
  <2>1. r.limit = 0 /\ row.limit = 0 /\ r.stop \in Nat \ {0} /\ row.stop \in Nat /\ r.tolerance = 0
    BY <1>2 DEF Wanted, Shaped
  <2>2. row.stop = r.stop
    BY <2>1, StaysWithin DEF Differs
  <2>3. slack = 0
    BY <2>1, ToleranceAssumption
  <2> QED
    BY <1>1, <2>1, <2>2, <2>3 DEF Serves
<1>3. CASE k # "stop"
  <2>1. /\ r.limit \in Nat \ {0} /\ row.limit \in Nat /\ r.stop = 0 /\ row.stop = 0
        /\ r.tolerance = Tolerance
    BY <1>3 DEF Wanted, Shaped
  <2>2. row.limit \in (r.limit - slack)..(r.limit + slack)
    BY <2>1, StaysWithin, ToleranceAssumption DEF Differs
  <2> QED
    BY <1>1, <2>1, <2>2 DEF Serves
<1> QED
  BY <1>2, <1>3

\* For every price, size and tolerance: a run that nothing disturbed leaves one order working for each it
\* wanted and none besides, of the side, type, size and price it wanted (reconcile.py, reconcile_orders),
\* and of the contract it wanted too but for an order that was found resting for another; unless brackets
\* go where only their children are listed.
THEOREM RunsConverge ==
    ASSUME ~PairsHeld
    PROVE  Spec => []Converged
<1>1. BaseInv /\ TrackInv /\ SettleInv /\ ContractInv => Converged
  <2> SUFFICES ASSUME BaseInv, TrackInv, SettleInv, ContractInv, pc = "idle", faults = 0, smooth, NEW k \in Roles
               PROVE  IF plan.wanted[k] = NoOrder THEN WorkingAs(k) = {}
                      ELSE \E i \in OrderIds : /\ WorkingAs(k) = {i} /\ OnContract(i, k)
                                              /\ Serves(Listing(i), plan.wanted[k])
    BY DEF Converged
  <2> DEFINE i == saved.ids[k]
  <2>1. k \in VisibleRoles /\ WorkingAs(k) \subseteq {i} /\ Done(k, saved.ids)
    BY AllVisible, NoneUnknown DEF Tracked, SettleInv
  <2>2. CASE plan.wanted[k] = NoOrder
    BY <2>1, <2>2 DEF Done, WorkingAs
  <2>3. CASE plan.wanted[k] # NoOrder
    <3>1. i \in Working /\ ~Differs(Listing(i), plan.wanted[k])
      BY <2>1, <2>3 DEF Done
    <3>2. i \in WorkingAs(k) /\ i \in OrderIds
      BY <3>1 DEF BaseInv, ReferInv, RefersTo, WorkingAs, Working
    <3>3. Wanted(k, plan.wanted[k]) /\ Shaped(k, Listing(i))
      BY <2>1, <2>3, <3>1, <3>2 DEF BaseInv, PlanInv, OrderInv, Spelled, Listing, WorkingAs
    <3>4. Serves(Listing(i), plan.wanted[k])
      BY <3>1, <3>3, NotDifferentServes
    <3>5. OnContract(i, k)
      BY <2>3, <3>1 DEF ContractInv, Right
    <3> QED
      BY <2>1, <2>3, <3>2, <3>4, <3>5
  <2> QED
    BY <2>2, <2>3
<1> QED
  BY <1>1, Typed, TrackInvariant, Settles, ContractsKnown, PTL

\* A run that wants what the last one left, with nothing having happened in between, leaves the book
\* alone: running twice is the same as running once (reconcile.py, reconcile_orders).
THEOREM RunningTwiceIsOnce ==
    ASSUME ~PairsHeld
    PROVE  Spec => Idempotent
<1>1. SettleInv /\ [Next]_vars => [calm /\ calm' => book' = book]_vars
  <2> SUFFICES ASSUME SettleInv, [Next]_vars, calm, calm'
               PROVE  book' = book
    OBVIOUS
  <2>1. ~Disturb
    BY DEF Disturb
  <2>2. \A k \in Roles : ~(Cancel(k) \/ Submit(k) \/ Replace(k) \/ Recancel(k))
    BY DEF SettleInv, Nothing, Cancel, Submit, Replace, Recancel
  <2> QED
    BY <2>1, <2>2 DEF Next, RunStep, PlanHeld, PlanFlat, Adopt, List, Save, Replay, Crash, Fault,
                      Vanish, Fill, brokerVars, vars
<1> QED
  BY <1>1, Settles, PTL DEF Spec, Idempotent
=============================================================================
