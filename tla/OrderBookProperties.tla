------------------------ MODULE OrderBookProperties ------------------------
(***************************************************************************)
(* What the book of PriceLevelOrderBook guarantees, and what its comments  *)
(* and its README say of it that it does not do.                           *)
(***************************************************************************)
EXTENDS PriceLevelOrderBook, FiniteSets, FiniteSetsExt, Functions

-----------------------------------------------------------------------------
(* The index and the levels                                                *)

\* The map whose levels are being moved to updated_levels, if any.
Moving(m) ==
    /\ stack # <<>>
    /\ Top.pc = "update"
    /\ m = <<"trailing", Top.side>>

\* The levels an order of map m may rest in.
LevelsOf(m) ==
    {<<p, levels[m][p]>> : p \in DOMAIN levels[m]} \union
    (IF Moving(m) THEN {<<p, updated_levels[p]>> : p \in DOMAIN updated_levels} ELSE {})

\* The two indexes of the book agree at every step of every call: the order an
\* entry holds is linked exactly once, in the map its type and side select, in the
\* level its level_it points to, under the price it is keyed by; every node of a
\* level is the order of an entry (deleteOrder, match and updateTrailing* all go
\* from one index to the other without a check).
IndexConsistent ==
    /\ \A id \in DOMAIN orders :
         LET o == orders[id].order IN
         /\ o.id = id
         /\ orders[id].level_it = KeyOf(o)
         /\ \E l \in LevelsOf(MapOf(o)) : l[1] = KeyOf(o) /\ id \in Range(l[2].orders)
    /\ \A m \in LevelMap : \A l \in LevelsOf(m) :
         /\ IsInjective(l[2].orders)
         /\ \A id \in Range(l[2].orders) :
              /\ id \in DOMAIN orders
              /\ MapOf(orders[id].order) = m
              /\ KeyOf(orders[id].order) = l[1]

\* No map keeps an empty level: the loops of match and of activateStopOrders call
\* front() on the first level they find.  Only the map whose trailing stops are
\* being moved has empty levels, until it is swapped.
NoEmptyLevel ==
    \A m \in LevelMap : \A p \in DOMAIN levels[m] :
        levels[m][p].orders = <<>> => Moving(m)

\* What the orders of a level have open in all.
OpenTotal(level) == MapThenSumSet(LAMBDA id : orders[id].order.open, Range(level.orders))

\* The volume of a level, which is kept up to date by hand in six places, is the open
\* quantity of its orders at every step, as far as a uint64_t can tell.
VolumeConsistent ==
    \A m \in LevelMap : \A l \in LevelsOf(m) :
        l[2].volume = OpenTotal(l[2]) % (MaxU64 + 1)

\* The book never crosses: whatever stop orders went off inside match, a limit order
\* rests only when nothing on the other side would trade with it.
BookUncrossed ==
    \A b \in DOMAIN levels[<<"limit", "BUY">>] :
        \A s \in DOMAIN levels[<<"limit", "SELL">>] : b < s

\* The orders in flight, which calls on the stack hold copies of.
InFlight == {i \in DOMAIN stack : stack[i].pc \in {"add", "check", "match", "reissue"}}

\* An order is in one place: the copies held by unfinished calls are of distinct
\* orders, none of which is in the book.
OneCopyOfEachOrder ==
    \A i \in InFlight :
        /\ stack[i].order.id \notin DOMAIN orders
        /\ \A j \in InFlight : stack[i].order.id = stack[j].order.id => i = j

\* The recursion is as deep as there are orders half way through it: every call
\* frame beyond the two a request leaves at the bottom belongs to an order in flight.
StackBounded == Len(stack) <= 2 * Cardinality(InFlight) + 2

\* No assertion of level.cpp fails as long as callers keep to the contract.
NoAssertionFails == ~aborted

-----------------------------------------------------------------------------
(* Matching                                                                *)

\* Does resting order x trade before resting order y of the same side: at a better
\* price, or earlier at the same price?
Position(id, queue) == CHOOSE i \in DOMAIN queue : queue[i] = id
Before(x, y) ==
    LET ox == orders[x].order
        oy == orders[y].order
        queue == levels[MapOf(ox)][ox.price].orders
    IN  /\ Kind(ox) = "limit" /\ Kind(oy) = "limit" /\ ox.side = oy.side
        /\ \/ IF ox.side = "BUY" THEN ox.price > oy.price ELSE ox.price < oy.price
           \/ ox.price = oy.price /\ Position(x, queue) < Position(y, queue)

\* Price-time priority (README.md:27, "sorted by their entry time (FIFO ordering)"):
\* an order never overtakes another, and a match takes from an order only when none
\* is before it, however many stop orders went off since the match began.
PriceTimePriority ==
    [][\A x, y \in DOMAIN orders : Before(x, y) =>
         /\ {x, y} \subseteq DOMAIN orders' => Before(x, y)'
         /\ Match => y \in DOMAIN orders' /\ orders'[y].order = orders[y].order]_vars

\* What an OrderExecuted event says the order was last executed at
\* ("Price at which the last portion of the order was executed", order.h:120) is the
\* price that became the last traded price.
ReportedPriceIsTradedPrice ==
    \A i \in DOMAIN emitted :
        emitted[i].kind = "Executed" => emitted[i].order.last = last_traded_price

\* "Must be executed fully and immediately or is canceled" (order.h:34): when a
\* fill-or-kill order is done with, all of it or nothing of it was executed.
FillOrKill ==
    \A i \in DOMAIN emitted :
        LET o == emitted[i].order IN
        emitted[i].kind = "Deleted" /\ o.tif = "FOK" /\ Kind(o) = "limit"
            => o.open = 0 \/ o.executed = 0

-----------------------------------------------------------------------------
(* The promise to clients                                                  *)

AtAnyPrice(o) == o.type \in {"MARKET", "STOP", "TRAILING_STOP"}

\* An order as a client sees it, before and after its stop price is reached.
AsSeen(o) ==
    [side     |-> o.side,
     stop     |-> Kind(o) # "limit",
     limit    |-> IF ~AtAnyPrice(o) THEN o.price ELSE IF o.side = "SELL" THEN 0 ELSE MaxU64,
     rests    |-> ~AtAnyPrice(o) /\ o.tif \notin {"IOC", "FOK"},
     open     |-> o.open,
     executed |-> o.executed]

\* The orders in the book, and those that calls on the stack hold.
Copies == {orders[id].order : id \in DOMAIN orders} \union {stack[i].order : i \in InFlight}

Alive ==
    [id \in {o.id : o \in {c \in Copies : c.open # 0}} |->
        AsSeen(CHOOSE o \in Copies : o.id = id)]

Promise == INSTANCE Exchange WITH
    alive <- Alive,
    market <- last_traded_price,
    working <- stack # <<>>

\* The book keeps the promise of Exchange through every nested call: two orders of
\* opposite sides trade the same quantity at a price both accept, an order that is
\* taken out of the maps to be activated comes back, and no order is lost, or given
\* up by the book unless it may not rest.
KeepsPromise == Promise!Spec

-----------------------------------------------------------------------------
(* Stop orders                                                             *)

\* A stop order in the book whose stop price the market has reached.
Due(id) ==
    /\ Kind(orders[id].order) # "limit"
    /\ Reached(orders[id].order)

\* When a request is done no sell stop order that is due is left: the loop of
\* activateStopOrders goes on until a scan of the sell stops finds none.
SellStopsSettled ==
    Idle => \A id \in DOMAIN orders : orders[id].order.side = "SELL" => ~Due(id)

\* "we keep going till all required stop orders have been activated"
\* (price_level_order_book.cpp:356): the same for both sides.
AllStopsSettled ==
    Idle => \A id \in DOMAIN orders : ~Due(id)

\* "market has moved in a favorable direction for trailing stop sell orders, we need to
\* update their stop price" (price_level_order_book.cpp:330): the stop price of a
\* trailing stop order in the book only follows the market in its favour.
TrailingStopsRatchet ==
    [][\A id \in DOMAIN orders \intersect DOMAIN orders' :
         LET before == orders[id].order
             after  == orders'[id].order
         IN  Kind(before) = "trailing" =>
             IF before.side = "SELL" THEN after.stop >= before.stop
                                     ELSE after.stop <= before.stop]_vars

\* Stop orders of one level go to the market in the order they entered the level
\* (README.md:27, "sorted by their entry time (FIFO ordering)"): none does while one
\* that was ahead of it waits, half activated, in a call further down the stack.
StopsActivatedInOrder ==
    [][ReissueOrder =>
         \A i \in InFlight \ {1} :
            stack[i].pc = "reissue" =>
                \/ MapOf(stack[i].order) # MapOf(Top.order)
                \/ KeyOf(stack[i].order) # KeyOf(Top.order)]_vars

-----------------------------------------------------------------------------
(* Liveness                                                                *)

\* Every request ends: the re-entrant activation and the loops of match and
\* canMatchOrder run out of work.
RequestsComplete == stack # <<>> ~> stack = <<>>
============================================================================
