---------------------------- MODULE OrderReconcile ----------------------------
(***************************************************************************)
(* The resting orders of one symbol of the Options Flip algorithm: a run   *)
(* plans the orders it wants (algorithms/options_flip/lifecycle.py), makes *)
(* the broker's book match (algorithms/reconcile.py) and saves which order *)
(* stands for which role (options_flip/algorithm.py, execute).             *)
(*                                                                         *)
(* Between any two calls of a run to the broker an order may fill, in part *)
(* or in whole, expire, or be cancelled by hand; a call may be refused,    *)
(* its answer may be lost, the process may die, and an agent may send the  *)
(* same plan again.  Symbols share nothing, so one is enough.  BrokerOrders  *)
(* says how an order is spelled for the venue and read back.               *)
(***************************************************************************)
EXTENDS BrokerOrders

CONSTANTS
    OrderIds,    \* broker order ids (an id nobody refers to is recycled)
    Bids, Asks,  \* limit prices of an entry, and of an exit at each venue
    StopPrice,   \* the price of a stop, which never moves
    This, That,  \* the two listed contracts of the symbol that a run may choose from
    Contracts,   \* the most contracts one trade is for
    Accounts,    \* the accounts of the instance: their venue, and stop_loss_pct > 0
    FaultKinds,  \* which of AllFaults may happen
    MaxFaults,   \* the bound on how many do, entries that race a run counting for one
    NoId

ASSUME ContractsAssumption == This # That
ASSUME SizesAssumption == Contracts \in Nat \ {0} /\ MaxFaults \in Nat
\* No price is rounded to nothing: each is a cent at the least (lifecycle.py:229,272; excursion.py:72).
Prices == Nat \ {0}
ASSUME PricesAssumption ==
    Asks \in [Venues -> SUBSET Prices] /\ Bids \subseteq Prices /\ StopPrice \in Prices
ASSUME AccountsAssumption == Accounts \subseteq [venue : Venues, stopOn : BOOLEAN]
AllFaults == {"crash", "lost answer", "lost cancel", "refusal", "replay", "no quote"}
ASSUME FaultsAssumption == FaultKinds \subseteq AllFaults
ASSUME IdsAssumption == NoId \notin OrderIds

\* The keys of a symbol's desired orders.
Sells == {"target", "stop", "bracket"}
Roles == {"entry"} \cup Sells

NoOrder == [role |-> "none"]

Series == {This, That}

VARIABLES
    account,    \* the one the algorithm is bound to
    book,       \* the broker's working orders: the role, what was sent, what is left to fill
    position,   \* how many of each contract are held at the broker
    saved,      \* the algorithm's state on disk
    pc,         \* "idle", "list" (get_orders is next) or "work"
    plan,       \* the last plan: wanted orders, and the state it was made from and to
    todo,       \* what the run still has to do for each role
    orderIds,   \* order_ids of the run
    faults,     \* faults so far
    raced,      \* history: an entry has filled while a run was under way
    switched,   \* history: roles whose listed order was for another contract than the run wanted
    smooth,     \* history: nothing happened and nothing failed since the last plan
    calm        \* history: nor since the plan before, which wanted the same and was carried out

quiet == <<smooth, calm, switched>>
vars == <<account, book, position, saved, pc, plan, todo, orderIds, faults, raced, quiet>>
brokerVars == <<book, position>>

NoIds == [k \in Roles |-> NoId]
NothingWanted == [k \in Roles |-> NoOrder]
Nothing == [k \in Roles |-> "none"]

Working == {i \in OrderIds : book[i] # NoOrder}
WorkingAs(k) == {i \in Working : book[i].role = k}

\* Ids that no order, record or plan refers to.
Free == {i \in OrderIds \ Working :
            \A k \in Roles : i \notin {saved.ids[k], plan.ids[k], orderIds[k]}}
NewId == CHOOSE i \in Free : TRUE

\* The rows of get_orders("WORKING").
Listed(i) == i \in Working /\ HasRow(book[i].sent)
Listing(i) == RowOf(book[i].sent)

NoPlan == [wanted |-> NothingWanted, ids |-> NoIds, contracts |-> 0, priced |-> FALSE]

Init ==
    /\ account \in Accounts
    /\ book = [i \in OrderIds |-> NoOrder]
    /\ position = [c \in Series |-> 0]
    /\ saved = [ids |-> NoIds, contracts |-> 0, priced |-> FALSE]
    /\ pc = "idle"
    /\ plan = NoPlan
    /\ todo = Nothing
    /\ orderIds = NoIds
    /\ faults = 0
    /\ raced = FALSE /\ switched = {}
    /\ smooth = FALSE /\ calm = FALSE

-----------------------------------------------------------------------------
(* The plan: positions and saved state are read, nothing is placed *)

\* From memory, and one when there is none.
ExitQuantity == IF saved.contracts = 0 THEN 1 ELSE saved.contracts

\* _bracket_orders: a lone target, an independent pair, or one OCO order.
Exit(c, p) ==
    LET q == ExitQuantity
        oco == SupportsOco(account.venue)
    IN  [k \in Roles |->
            CASE k = "target" /\ ~(account.stopOn /\ oco) -> Ask(c, q, p)
              [] k = "stop" /\ account.stopOn /\ ~oco -> StopLoss(c, q, StopPrice)
              [] k = "bracket" /\ account.stopOn /\ oco -> Bracket(c, q, p, StopPrice)
              [] OTHER -> NoOrder]

Adopt(wanted, contracts, priced) ==
    /\ plan' = [wanted |-> wanted, ids |-> saved.ids, contracts |-> contracts,
                priced |-> priced]
    /\ calm' = (calm /\ wanted = plan.wanted)
    /\ smooth' = TRUE
    /\ pc' = "list"
    /\ switched' = {}
    /\ UNCHANGED <<brokerVars, saved, todo, orderIds, raced>>

\* Bound.
MoreMayHappen == faults + (IF raced THEN 1 ELSE 0) < MaxFaults

\* What is held, whatever the contract.
Held == position[This] + position[That]

\* A contract is held, one of two when both are: its exit, sized and priced from memory
\* (_held_contracts, _refresh_held, _held).
PlanHeld ==
    /\ pc = "idle"
    /\ \/ /\ \E c \in Series, p \in Asks[account.venue] :
                position[c] > 0 /\ Adopt(Exit(c, p), ExitQuantity, TRUE)
          /\ UNCHANGED faults
       \/ /\ Held > 0 /\ ~saved.priced                       \* no mark yet: nothing to price it from
          /\ "no quote" \in FaultKinds /\ MoreMayHappen
          /\ Adopt(NothingWanted, ExitQuantity, FALSE)
          /\ faults' = faults + 1

\* No position: a bid for the contract that is the choice now, or nothing (_flat_or_bidding).
PlanFlat ==
    /\ pc = "idle" /\ Held = 0
    /\ \/ Adopt(NothingWanted, 0, FALSE)
       \/ \E c \in Series, q \in 1..Contracts, p \in Bids :
            Adopt([NothingWanted EXCEPT !["entry"] = Bid(c, q, p)], q, FALSE)
    /\ UNCHANGED faults

Disturb == smooth' = FALSE /\ calm' = FALSE /\ switched' = {}
Fault(kind) ==
    /\ kind \in FaultKinds /\ MoreMayHappen
    /\ faults' = faults + 1
    /\ Disturb

\* An agent sends the plan it has sent before.
Replay ==
    /\ pc = "idle" /\ plan # NoPlan
    /\ pc' = "list"
    /\ Fault("replay")
    /\ UNCHANGED <<brokerVars, saved, plan, todo, orderIds, raced>>

-----------------------------------------------------------------------------
(* reconcile_orders *)

\* Mutant: every wanted order is submitted.
DecideAnew(k) == IF plan.wanted[k] = NoOrder THEN "none" ELSE "submit"
\* What the run does for one role, decided on the working orders just listed.
Decide(k) ==
    LET i == plan.ids[k]
        listed == i # NoId /\ Listed(i)
    IN  CASE plan.wanted[k] = NoOrder /\ listed -> "cancel"
          [] plan.wanted[k] = NoOrder /\ ~listed -> "none"
          [] plan.wanted[k] # NoOrder /\ ~listed -> "submit"
          [] OTHER -> IF Differs(Listing(i), plan.wanted[k]) THEN "replace" ELSE "keep"

\* The choice has moved on from the contract of the order that rests.
Elsewhere(k) ==
    /\ plan.wanted[k] # NoOrder /\ plan.ids[k] # NoId /\ Listed(plan.ids[k])
    /\ Listing(plan.ids[k]).contract # plan.wanted[k].contract
Switches == switched' = IF smooth THEN {k \in Roles : Elsewhere(k)} ELSE {}

\* Mutant: the id of an order that stays as it is is not recorded again.
ListDropsKept ==
    /\ pc = "list"
    /\ todo' = [k \in Roles |-> IF Decide(k) = "keep" THEN "none" ELSE Decide(k)]
    /\ pc' = "work"
    /\ Switches
    /\ UNCHANGED <<brokerVars, saved, plan, orderIds, faults, raced, smooth, calm>>

\* get_orders("WORKING"); an order that stays as it is keeps its id.
List ==
    /\ pc = "list"
    /\ todo' = [k \in Roles |-> IF Decide(k) = "keep" THEN "none" ELSE Decide(k)]
    /\ orderIds' = [k \in Roles |-> IF Decide(k) = "keep" THEN plan.ids[k] ELSE NoId]
    /\ pc' = "work"
    /\ Switches
    /\ UNCHANGED <<brokerVars, saved, plan, faults, raced, smooth, calm>>

\* The two places a run is at: cancels first, then the wanted orders, target before stop.
Cancelling == \E k \in Roles : todo[k] = "cancel"
MayPlace(k) == ~Cancelling /\ (k = "stop" => todo["target"] = "none")

\* Mutant: nothing is cancelled.
CancelNothing(i) == i \in OrderIds /\ UNCHANGED <<book, faults, quiet>>

\* cancel_order never raises: an order that has gone, or a call that fails, is a success.
CancelAt(i) ==
    \/ /\ book' = [book EXCEPT ![i] = NoOrder]
       /\ UNCHANGED <<faults, quiet>>
    \/ Fault("lost cancel") /\ UNCHANGED book

Cancel(k) ==
    /\ pc = "work" /\ todo[k] = "cancel"
    /\ CancelAt(plan.ids[k])
    /\ todo' = [todo EXCEPT ![k] = "none"]
    /\ UNCHANGED <<position, saved, pc, plan, orderIds, raced>>

\* The venue has its own rule on sells: none for more of a contract than is held.
Covered(k, sent) == k = "entry" \/ plan.wanted[k].quantity <= position[ContractOf(sent)]

Placed(k, sent) == [role |-> k, sent |-> sent, left |-> plan.wanted[k].quantity]

\* The run learns the id of the order that went out, or the answer is lost and it does not.
Accepted(k, sent, rest) ==
    /\ book' = [rest EXCEPT ![NewId] = Placed(k, sent)]
    /\ \/ /\ orderIds' = [orderIds EXCEPT ![k] = NewId]
          /\ todo' = [todo EXCEPT ![k] = "none"]
          /\ UNCHANGED <<faults, quiet>>
       \/ /\ todo' = [todo EXCEPT ![k] = IF @ = "replace" THEN "recancel" ELSE "none"]
          /\ Fault("lost answer")
          /\ UNCHANGED orderIds

\* _confirm: the venue refuses an order it had accepted, whose id is recorded all the same.
Withdrawn(k, sent, rest) ==
    /\ book' = rest
    /\ orderIds' = [orderIds EXCEPT ![k] = NewId]
    /\ todo' = [todo EXCEPT ![k] = "none"]
    /\ IF Covered(k, sent) THEN Fault("refusal") ELSE Disturb /\ UNCHANGED faults

\* _submit: a refusal leaves the role without an order.
Submit(k) ==
    LET r == plan.wanted[k]
        sent == Sent(account.venue, r)
    IN  /\ pc = "work" /\ todo[k] = "submit" /\ MayPlace(k)
        /\ \/ /\ Takes(account.venue, r) /\ Free # {}
              /\ \/ Covered(k, sent) /\ Accepted(k, sent, book)
                 \/ account.venue = "schwab" /\ Withdrawn(k, sent, book)
           \/ /\ todo' = [todo EXCEPT ![k] = "none"]
              /\ IF ~Takes(account.venue, r) THEN UNCHANGED <<faults, quiet>>
                 ELSE IF ~Covered(k, sent) THEN Disturb /\ UNCHANGED faults
                 ELSE Fault("refusal")
              /\ UNCHANGED <<book, orderIds>>
        /\ UNCHANGED <<position, saved, pc, plan, raced>>

\* _replace: in one call at the venue, or refused, as it is when the order has just gone.
Replace(k) ==
    LET i == plan.ids[k]
        sent == SentInstead(account.venue, book[i].sent, plan.wanted[k])
        rest == [book EXCEPT ![i] = NoOrder]
    IN  /\ pc = "work" /\ todo[k] = "replace" /\ MayPlace(k)
        /\ \/ /\ i \in Working /\ Free # {}
              /\ \/ Covered(k, sent) /\ Accepted(k, sent, rest)
                 \/ account.venue = "schwab" /\ Withdrawn(k, sent, rest)
           \/ /\ todo' = [todo EXCEPT ![k] = "recancel"]
              /\ UNCHANGED <<book, orderIds, faults, quiet>>
        /\ UNCHANGED <<position, saved, pc, plan, raced>>

\* The fallback of _replace: the old order is cancelled, and the new one submitted.
Recancel(k) ==
    /\ pc = "work" /\ todo[k] = "recancel"
    /\ CancelAt(plan.ids[k])
    /\ todo' = [todo EXCEPT ![k] = "submit"]
    /\ UNCHANGED <<position, saved, pc, plan, orderIds, raced>>

\* save_state, whether or not anything was done.
Save ==
    /\ pc = "work" /\ todo = Nothing
    /\ saved' = [ids |-> orderIds, contracts |-> plan.contracts, priced |-> plan.priced]
    /\ orderIds' = NoIds
    /\ pc' = "idle"
    /\ calm' = smooth
    /\ UNCHANGED <<brokerVars, plan, todo, faults, raced, switched, smooth>>

\* The process dies before the state is saved.
Crash ==
    /\ pc # "idle"
    /\ pc' = "idle"
    /\ todo' = Nothing
    /\ orderIds' = NoIds
    /\ Fault("crash")
    /\ UNCHANGED <<brokerVars, saved, plan, raced>>

-----------------------------------------------------------------------------
(* The venue *)

\* An order fills in part or in whole; a sell has nothing to fill against beyond the position.
Fill(i, n) ==
    LET o == book[i]
        c == ContractOf(o.sent)
    IN
    /\ i \in Working
    /\ n <= o.left
    /\ o.role \in Sells => n <= position[c]
    /\ book' = [book EXCEPT ![i] = IF n = o.left THEN NoOrder ELSE [o EXCEPT !.left = @ - n]]
    /\ position' = [position EXCEPT ![c] = IF o.role = "entry" THEN @ + n ELSE @ - n]
    /\ IF o.role = "entry" /\ pc # "idle" THEN (raced \/ MoreMayHappen) /\ raced' = TRUE
       ELSE UNCHANGED raced
    /\ Disturb
    /\ UNCHANGED <<saved, pc, plan, todo, orderIds, faults>>

\* A day order ends with the day, or somebody cancels in the broker's own UI.
Vanish(i) ==
    /\ i \in Working
    /\ book' = [book EXCEPT ![i] = NoOrder]
    /\ Disturb
    /\ UNCHANGED <<position, saved, pc, plan, todo, orderIds, faults, raced>>

-----------------------------------------------------------------------------
RunStep ==
    \/ PlanHeld \/ PlanFlat \/ List \/ Save
    \/ \E k \in Roles : Cancel(k) \/ Submit(k) \/ Replace(k) \/ Recancel(k)

Next ==
    /\ \/ RunStep \/ Replay \/ Crash
       \/ \E i \in OrderIds : Vanish(i) \/ \E n \in 1..Contracts : Fill(i, n)
    /\ UNCHANGED account

Spec == Init /\ [][Next]_vars

-----------------------------------------------------------------------------
(* Properties *)

\* "an order re-priced five times across a session stays one thing" (reconcile.py:22): each lost
\* answer, crash or repeated plan leaves at most one more working order per role.
OneOrderPerRole ==
    \A k \in Roles : Cardinality(WorkingAs(k)) <= 1 + faults

\* The record is complete: between runs every working order is recorded under its own role, so
\* the next run can find it, as long as no call was lost.
EveryOrderRecorded ==
    pc = "idle" /\ faults = 0 =>
        \A i \in Working : saved.ids[book[i].role] = i

\* What the venue lists is the order that was asked for, its limit within the tolerance.
Serves(row, r) ==
    LET slack == (r.limit * Tolerance) \div 100 IN
    /\ row.action = r.action /\ row.type = r.type /\ row.quantity = r.quantity
    /\ row.limit \in (r.limit - slack)..(r.limit + slack)
    /\ row.stop = r.stop

\* It is for the contract that was asked for, unless an order for another was resting and the run
\* kept it, or the venue changed its price in place: the reconciler compares sides, quantities,
\* types and prices, and no contracts.
OnContract(i, k) ==
    \/ Listing(i).contract = plan.wanted[k].contract
    \/ k \in switched /\ (i = plan.ids[k] \/ account.venue = "alpaca")

\* A run that nothing disturbed leaves one order for each it wanted and none besides, as the venue
\* spells and lists it, and of the contract it wanted but for an order that was resting for another
\* when the choice moved on: "it is only ever asserting a desired state" (reconcile.py:18-19).
Converged ==
    pc = "idle" /\ faults = 0 /\ smooth =>
        \A k \in Roles :
            IF plan.wanted[k] = NoOrder THEN WorkingAs(k) = {}
            ELSE \E i \in OrderIds : /\ WorkingAs(k) = {i} /\ OnContract(i, k)
                                    /\ Serves(Listing(i), plan.wanted[k])

\* "Running twice in a minute is the same as running once" (reconcile.py:17-18): a run that wants
\* what the last one wanted, with nothing having happened since, does not touch the book.
Idempotent ==
    [][calm /\ calm' => book' = book]_vars

\* "One option contract per symbol" (options_flip/algorithm.py:66): the position is one trade's,
\* unless the bid filled while a run was deciding on it, and then two at the most.
BoundedPosition ==
    faults = 0 => Held <= (IF raced THEN 2 ELSE 1) * Contracts

=============================================================================
