------------------------ MODULE PriceLevelOrderBook ------------------------
(***************************************************************************)
(* class PriceLevelOrderBook of                                            *)
(* src/src/matching/price_level_order_book.cpp: the book of one symbol.    *)
(*                                                                         *)
(* The book runs on its caller's thread.  What makes it hard is that it    *)
(* re-enters itself: match calls deleteOrder for a filled order,           *)
(* deleteOrder ends with activateStopOrders, activateStopOrders deletes a  *)
(* stop order (another deleteOrder) and sends it to match, all while the   *)
(* outer loops are half done.  The call stack is therefore part of the     *)
(* state: "stack" holds one frame per call that is not finished, the       *)
(* innermost first, and a step runs the innermost call up to its next call *)
(* or loop iteration.  The caller's next request waits for an empty stack. *)
(***************************************************************************)
EXTENDS Levels

CONSTANTS
    Tickets,             \* the orders callers may add
    ModifyPrices,        \* the new prices of modifyOrder
    CancelQuantities,    \* the quantities of cancelOrder
    ExecuteQuantities,   \* the quantities of executeOrder ...
    ExecutePrices,       \* ... and the prices of its variant with a price
    CallerContract       \* do callers keep live ids distinct and only cancel down?

ASSUME InputsAssumption ==
    /\ Tickets \subseteq Order
    /\ \A o \in Tickets : o.executed = 0 /\ o.open = o.quantity
    /\ ModifyPrices \subseteq U64 /\ CancelQuantities \subseteq U64
    /\ ExecuteQuantities \subseteq U64 /\ ExecutePrices \subseteq U64
    /\ CallerContract \in BOOLEAN

ASSUME WidthAssumption == MaxU32 <= MaxU64

VARIABLES
    orders,                \* id -> the order, and the key of the level its level_it points to
    levels,                \* the six level maps: <<kind, side>> -> price -> level
    updated_levels,        \* updated_trailing_levels, while trailing stops are moved
    last_traded_price,
    trailing_buy_price,
    trailing_sell_price,
    stack,                 \* the calls in progress, innermost first
    emitted,               \* the events handed to the event handler by the last step
    aborted                \* an assertion failed

book   == <<orders, levels, updated_levels>>
prices == <<last_traded_price, trailing_buy_price, trailing_sell_price>>
vars   == <<orders, levels, updated_levels, last_traded_price, trailing_buy_price,
            trailing_sell_price, stack, emitted, aborted>>

-----------------------------------------------------------------------------
(* Types                                                                   *)

LevelMap == {"limit", "stop", "trailing"} \X Side
Entry == [order : Order, level_it : U64]
Event == [kind : {"Added", "Deleted", "Updated", "Executed"}, order : Order]

\* A call that carries an order, a call of activateStopOrders that has not
\* started, one scanning a map of stop levels, and one updating trailing stops.
OrderFrame  == [pc : {"add", "check", "match", "reissue"}, order : Order, available : U64]
BeginFrame  == [pc : {"begin"}]
ScanFrame   == [pc : {"scan"}, kind : {"stop", "trailing"}, side : Side,
                last : U64, activated : BOOLEAN]
UpdateFrame == [pc : {"update"}, side : Side, activated : BOOLEAN]
Frame == OrderFrame \union BeginFrame \union ScanFrame \union UpdateFrame

\* The variables hold values of their types: no price, quantity or volume leaves
\* uint64_t, and every frame is one the code can be in.
TypeOK ==
    /\ IsMap(orders, OrderId, Entry)
    /\ levels = [m \in LevelMap |-> levels[m]]
    /\ \A m \in LevelMap : IsMap(levels[m], U64, Level)
    /\ IsMap(updated_levels, U64, Level)
    /\ last_traded_price \in U64
    /\ trailing_buy_price \in U64
    /\ trailing_sell_price \in U64
    /\ stack \in Seq(Frame)
    /\ emitted \in Seq(Event)
    /\ aborted \in BOOLEAN

-----------------------------------------------------------------------------
(* The call stack                                                          *)

Top  == Head(stack)
Idle == ~aborted /\ stack = <<>>
At(pc) == ~aborted /\ stack # <<>> /\ Top.pc = pc

\* The innermost call returns, having called "frames" in its place.
Proceed(frames) == stack' = frames \o Tail(stack)

\* The innermost call moves on.
Becomes(frame) == Proceed(<<frame>>)

Added(o)    == [kind |-> "Added", order |-> o]
Deleted(o)  == [kind |-> "Deleted", order |-> o]
Updated(o)  == [kind |-> "Updated", order |-> o]
Executed(o) == [kind |-> "Executed", order |-> o]

\* A failed assertion: the process is gone.
Abort == aborted' = TRUE /\ UNCHANGED <<book, prices, stack, emitted>>

-----------------------------------------------------------------------------
(* Prices                                                                  *)

\* lastTradedBuyPrice, which the sell side looks at, and lastTradedSellPrice,
\* which the buy side looks at; they differ as long as nothing was traded.
MarketPrice(side) ==
    IF side = "BUY" /\ last_traded_price = 0 THEN MaxU64 ELSE last_traded_price

\* Faulty variant: no check for overflow.
FaultyCalculateStopPrice(o) ==
    LET market == MarketPrice(o.side) IN
    [o EXCEPT !.stop =
        IF o.side = "SELL"
        THEN IF o.trail < market THEN market - o.trail ELSE 0
        ELSE market + o.trail]

CalculateStopPrice(o) ==
    LET market == MarketPrice(o.side) IN
    [o EXCEPT !.stop =
        IF o.side = "SELL"
        THEN IF o.trail < market THEN market - o.trail ELSE 0
        ELSE IF market < MaxU64 - o.trail THEN market + o.trail ELSE MaxU64]

\* A new stop order goes to the market at once if its stop is reached.
Reached(o) ==
    IF o.side = "SELL" THEN MarketPrice("SELL") <= o.stop
                       ELSE MarketPrice("BUY") >= o.stop

\* Faulty variant: starts every loop at begin().
FaultyBest(p, m) ==
    /\ p \in DOMAIN levels[m]
    /\ \A q \in DOMAIN levels[m] : p <= q

\* The level a loop starts from: begin() or rbegin() of the map.  Both sides
\* match from the best price, stop orders from the one reached first.
Best(p, m) ==
    /\ p \in DOMAIN levels[m]
    /\ \A q \in DOMAIN levels[m] :
         IF m \in {<<"limit", "BUY">>, <<"stop", "SELL">>, <<"trailing", "SELL">>}
         THEN q <= p
         ELSE p <= q

\* The map an incoming order is matched against, and whether a level of it is
\* good enough for the order.
Contra(o) == <<"limit", Opposite(o.side)>>

\* Faulty variant: equal prices do not trade.
FaultyCrosses(p, o) == IF o.side = "SELL" THEN p > o.price ELSE p < o.price

Crosses(p, o) == IF o.side = "SELL" THEN p >= o.price ELSE p <= o.price

-----------------------------------------------------------------------------
(* Levels                                                                  *)

\* map.emplace(price, Level(...)): the level that is there, or a new one.
LevelAt(map, price) == IF price \in DOMAIN map THEN map[price] ELSE NewLevel

\* Faulty variant: an empty level stays in its map.
FaultyWithoutOrder(map, price, o) ==
    Put(map, price, DeleteOrderFromLevel(map[price], o))

\* deleteOrder takes the order off its level and erases a level left empty; the
\* map to erase from follows from the order's type and side.
WithoutOrder(map, price, o) ==
    LET level == DeleteOrderFromLevel(map[price], o) IN
    IF level.orders = <<>> THEN Drop(map, price) ELSE Put(map, price, level)

DeleteFrom(maps, o) ==
    [maps EXCEPT ![MapOf(o)] = WithoutOrder(@, orders[o.id].level_it, o)]

\* Faulty variant: the id of a live order is taken over by another one.
FaultyInsert(o, frames, events) ==
    /\ levels' = [levels EXCEPT ![MapOf(o)] =
           Put(@, KeyOf(o), AddOrderToLevel(LevelAt(@, KeyOf(o)), o))]
    /\ orders' = Put(orders, o.id, [order |-> o, level_it |-> KeyOf(o)])
    /\ Proceed(frames)
    /\ emitted' = events
    /\ UNCHANGED <<updated_levels, prices, aborted>>

\* insertLimitOrder, insertStopOrder and insertTrailingStopOrder, after which the
\* innermost call goes on with "frames".  An id already in "orders" makes emplace
\* return the old entry, which the level then links a second time: the hook's
\* safe-link assertion fails.
Insert(o, frames, events) ==
    \/ /\ o.id \notin DOMAIN orders
       /\ levels' = [levels EXCEPT ![MapOf(o)] =
              Put(@, KeyOf(o), AddOrderToLevel(LevelAt(@, KeyOf(o)), o))]
       /\ orders' = Put(orders, o.id, [order |-> o, level_it |-> KeyOf(o)])
       /\ Proceed(frames)
       /\ emitted' = events
       /\ UNCHANGED <<updated_levels, prices, aborted>>
    \/ /\ o.id \in DOMAIN orders
       /\ Abort

\* The activateStopOrders call every public operation ends with.
BeginActivation == [pc |-> "begin"]

\* Faulty variant: deletes, and activates stop orders, twice over.
FaultySettle(o, price, amount, events, frames) ==
    LET reduced == [levels EXCEPT ![MapOf(o)][price] = ReduceVolume(@, amount)] IN
    \/ /\ o.open = 0
       /\ levels' = DeleteFrom(reduced, o)
       /\ orders' = Drop(orders, o.id)
       /\ emitted' = Append(events, Deleted(o))
       /\ stack' = <<BeginActivation, BeginActivation>> \o frames
    \/ /\ o.open # 0
       /\ levels' = reduced
       /\ orders' = [orders EXCEPT ![o.id].order = o]
       /\ emitted' = events
       /\ stack' = frames

\* What follows every change of the open quantity of a resting order: the level
\* at "price" loses "amount", and an order with nothing open is deleted.
Settle(o, price, amount, events, frames) ==
    LET reduced == [levels EXCEPT ![MapOf(o)][price] = ReduceVolume(@, amount)] IN
    \/ /\ o.open = 0
       /\ levels' = DeleteFrom(reduced, o)
       /\ orders' = Drop(orders, o.id)
       /\ emitted' = Append(events, Deleted(o))
       /\ stack' = <<BeginActivation>> \o frames
    \/ /\ o.open # 0
       /\ levels' = reduced
       /\ orders' = [orders EXCEPT ![o.id].order = o]
       /\ emitted' = events
       /\ stack' = frames

-----------------------------------------------------------------------------
(* The public operations.  An id that is not in the book is outside them:  *)
(* every one dereferences orders.find(order_id) unchecked.                 *)

AddFrame(o) == [pc |-> "add", order |-> o, available |-> 0]

AddOrder(o) ==
    /\ Idle
    /\ CallerContract => o.id \notin DOMAIN orders
    /\ stack' = <<AddFrame(o)>>
    /\ emitted' = <<>>
    /\ UNCHANGED <<book, prices, aborted>>

Delete(id, frames) ==
    LET o == orders[id].order IN
    /\ levels' = DeleteFrom(levels, o)
    /\ orders' = Drop(orders, id)
    /\ emitted' = <<Deleted(o)>>
    /\ stack' = <<BeginActivation>> \o frames
    /\ UNCHANGED <<updated_levels, prices, aborted>>

DeleteOrder(id) ==
    /\ Idle
    /\ id \in DOMAIN orders
    /\ Delete(id, <<>>)

ModifyOrder(id, new_id, new_price) ==
    /\ Idle
    /\ id \in DOMAIN orders
    /\ CallerContract => new_id \notin DOMAIN orders \ {id}
    /\ LET new_order == [orders[id].order EXCEPT !.id = new_id, !.price = new_price]
       IN  Delete(id, <<AddFrame(new_order), BeginActivation>>)

CancelOrder(id, quantity) ==
    /\ Idle
    /\ id \in DOMAIN orders
    /\ LET before    == orders[id].order
           cancelled == SetQuantity(before, quantity)
           amount    == Minus(before.open, cancelled.open)
           price     == orders[id].level_it
       IN  /\ CallerContract => quantity <= before.open
           /\ \/ /\ VolumeCovers(levels[MapOf(before)][price], amount)
                 /\ Settle(cancelled, price, amount, <<Updated(cancelled)>>, <<BeginActivation>>)
                 /\ UNCHANGED <<updated_levels, prices, aborted>>
              \/ /\ ~VolumeCovers(levels[MapOf(before)][price], amount)
                 /\ Abort

ExecuteAt(id, quantity, price) ==
    LET before == orders[id].order
        amount == Lesser(quantity, before.open)
        after  == Execute(before, price, amount)
        key    == orders[id].level_it
    IN  \/ /\ VolumeCovers(levels[MapOf(before)][key], amount)
           /\ last_traded_price' = price
           /\ Settle(after, key, amount, <<Executed(after)>>, <<BeginActivation>>)
           /\ UNCHANGED <<updated_levels, trailing_buy_price, trailing_sell_price, aborted>>
        \/ /\ ~VolumeCovers(levels[MapOf(before)][key], amount)
           /\ Abort

\* executeOrder(order_id, quantity, price)
ExecuteOrderAtPrice(id, quantity, price) ==
    /\ Idle
    /\ id \in DOMAIN orders
    /\ ExecuteAt(id, quantity, price)

\* executeOrder(order_id, quantity), at the order's own price
ExecuteOrder(id, quantity) ==
    /\ Idle
    /\ id \in DOMAIN orders
    /\ ExecuteAt(id, quantity, orders[id].order.price)

-----------------------------------------------------------------------------
(* addOrder, addMarketOrder, addLimitOrder, addStopOrder                   *)

\* addMarketOrder and addLimitOrder: both start with match, which asks
\* canMatchOrder first for a fill-or-kill order.
MatchFrame(o) ==
    [pc |-> IF o.tif = "FOK" THEN "check" ELSE "match", order |-> Priced(o), available |-> 0]

AddToMarket ==
    /\ At("add")
    /\ LET o == Top.order IN
       /\ Kind(o) = "limit"
       /\ Proceed(<<MatchFrame(o), BeginActivation>>)
       /\ emitted' = <<Added(o)>>
    /\ UNCHANGED <<book, prices, aborted>>

\* addStopOrder works out the stop price of a trailing stop order first.
WithStopPrice(o) == IF Kind(o) = "trailing" THEN CalculateStopPrice(o) ELSE o

AddReachedStop ==
    /\ At("add")
    /\ LET o == Top.order
           s == WithStopPrice(o)
       IN  /\ Kind(o) # "limit"
           /\ Reached(s)
           /\ Proceed(<<MatchFrame(Triggered(s)), BeginActivation>>)
           /\ emitted' = <<Added(o), Updated(Triggered(s))>>
    /\ UNCHANGED <<book, prices, aborted>>

AddPendingStop ==
    /\ At("add")
    /\ LET o == Top.order
           s == WithStopPrice(o)
       IN  /\ Kind(o) # "limit"
           /\ ~Reached(s)
           /\ Insert(s, <<BeginActivation>>, <<Added(o)>>)

-----------------------------------------------------------------------------
(* match and what addMarketOrder and addLimitOrder do after it             *)

\* Faulty variant: no event when an order is given up.
FaultyComplete(o) ==
    LET rests == o.type = "LIMIT" /\ o.open # 0 /\ o.tif \notin {"IOC", "FOK"} IN
    \/ /\ rests
       /\ Insert(o, <<>>, <<>>)
    \/ /\ ~rests
       /\ Proceed(<<>>)
       /\ emitted' = <<>>
       /\ UNCHANGED <<book, prices, aborted>>

\* An order that is still open stays in the book if it is a limit order that may
\* wait; of any other order nothing is left.
Complete(o) ==
    LET rests == o.type = "LIMIT" /\ o.open # 0 /\ o.tif \notin {"IOC", "FOK"} IN
    \/ /\ rests
       /\ Insert(o, <<>>, <<>>)
    \/ /\ ~rests
       /\ Proceed(<<>>)
       /\ emitted' = <<Deleted(o)>>
       /\ UNCHANGED <<book, prices, aborted>>

BestCrossing(p, o) == Best(p, Contra(o)) /\ Crosses(p, o)
NoneCrosses(o) == \A p \in DOMAIN levels[Contra(o)] : ~Crosses(p, o)

\* Faulty variant: the loop forgets what it has found.
FaultyCheckLiquidity ==
    /\ At("check")
    /\ \E p \in DOMAIN levels[Contra(Top.order)] :
         /\ BestCrossing(p, Top.order)
         /\ Becomes([Top EXCEPT !.pc =
                IF levels[Contra(Top.order)][p].volume >= Top.order.open THEN "match" ELSE "check"])
    /\ emitted' = <<>>
    /\ UNCHANGED <<book, prices, aborted>>

\* canMatchOrder adds up what is available.  Its loop never moves on to the next
\* level: every iteration looks at the best one.
CheckLiquidity ==
    /\ At("check")
    /\ \E p \in DOMAIN levels[Contra(Top.order)] :
         LET needed    == Minus(Top.order.open, Top.available)
             available == Plus(Top.available, Lesser(levels[Contra(Top.order)][p].volume, needed))
         IN  /\ BestCrossing(p, Top.order)
             /\ Becomes([Top EXCEPT !.available = available,
                                    !.pc = IF available >= Top.order.open THEN "match" ELSE "check"])
    /\ emitted' = <<>>
    /\ UNCHANGED <<book, prices, aborted>>

KillOrder ==
    /\ At("check")
    /\ NoneCrosses(Top.order)
    /\ Complete(Top.order)

\* One iteration of the loop of match: the incoming order trades with the oldest
\* order of the best level, at that order's price.
Trade(p) ==
    LET incoming == Top.order
        resting  == orders[Head(levels[Contra(incoming)][p].orders)].order
        quantity == Lesser(incoming.open, resting.open)
        filled   == Execute(incoming, resting.price, quantity)
        hit      == Execute(resting, resting.price, quantity)
        events   == IF incoming.side = "BUY" THEN <<Executed(filled), Executed(hit)>>
                                             ELSE <<Executed(hit), Executed(filled)>>
    IN  \/ /\ VolumeCovers(levels[Contra(incoming)][p], quantity)
           /\ last_traded_price' = resting.price
           /\ Settle(hit, p, quantity, events, <<[Top EXCEPT !.order = filled]>> \o Tail(stack))
           /\ UNCHANGED <<updated_levels, trailing_buy_price, trailing_sell_price, aborted>>
        \/ /\ ~VolumeCovers(levels[Contra(incoming)][p], quantity)
           /\ Abort

Match ==
    /\ At("match")
    /\ Top.order.open # 0
    /\ \E p \in DOMAIN levels[Contra(Top.order)] :
         BestCrossing(p, Top.order) /\ Trade(p)

EndMatch ==
    /\ At("match")
    /\ Top.order.open = 0 \/ NoneCrosses(Top.order)
    /\ Complete(Top.order)

-----------------------------------------------------------------------------
(* activateStopOrders                                                      *)

\* activateBuyStopOrders or activateSellStopOrders starts on one of its two maps
\* with the market price of that moment.
Scan(kind, side, activated) ==
    [pc |-> "scan", kind |-> kind, side |-> side,
     last |-> MarketPrice(side), activated |-> activated]

\* updateTrailingSellStopOrders or updateTrailingBuyStopOrders
Update(side, activated) == [pc |-> "update", side |-> side, activated |-> activated]

StartActivation ==
    /\ At("begin")
    /\ Becomes(Scan("stop", "BUY", FALSE))
    /\ emitted' = <<>>
    /\ UNCHANGED <<book, prices, aborted>>

\* Faulty variant: a stop order waits for the price to go beyond its stop.
FaultyEligible(p, frame) == IF frame.side = "BUY" THEN p < frame.last ELSE p > frame.last

Eligible(p, frame) == IF frame.side = "BUY" THEN p <= frame.last ELSE p >= frame.last

\* Faulty variant: the order goes to the market before it is deleted.
FaultyActivateStopOrder ==
    /\ At("scan")
    /\ \E p \in DOMAIN levels[<<Top.kind, Top.side>>] :
         LET id == Head(levels[<<Top.kind, Top.side>>][p].orders) IN
         /\ Best(p, <<Top.kind, Top.side>>)
         /\ Eligible(p, Top)
         /\ Proceed(<< [pc |-> "reissue", order |-> orders[id].order, available |-> 0],
                       [Top EXCEPT !.activated = TRUE] >>)
    /\ emitted' = <<>>
    /\ UNCHANGED <<book, prices, aborted>>

\* activateStopOrder up to the end of the deletion of the stop order, which
\* calls activateStopOrders before the order goes to the market.
ActivateStopOrder ==
    /\ At("scan")
    /\ \E p \in DOMAIN levels[<<Top.kind, Top.side>>] :
         LET id == Head(levels[<<Top.kind, Top.side>>][p].orders) IN
         /\ Best(p, <<Top.kind, Top.side>>)
         /\ Eligible(p, Top)
         /\ Delete(id, << [pc |-> "reissue", order |-> orders[id].order, available |-> 0],
                          [Top EXCEPT !.activated = TRUE] >> \o Tail(stack))

\* What follows a scan: the trailing stops of the side, with the market price read
\* again, then the update of the trailing stops of the other side.
EndScan ==
    /\ At("scan")
    /\ \A p \in DOMAIN levels[<<Top.kind, Top.side>>] : ~Eligible(p, Top)
    /\ Becomes(IF Top.kind = "stop" THEN Scan("trailing", Top.side, Top.activated)
                                     ELSE Update(Opposite(Top.side), Top.activated))
    /\ emitted' = <<>>
    /\ UNCHANGED <<book, prices, aborted>>

\* Faulty variant: no event.
FaultyReissueOrder ==
    /\ At("reissue")
    /\ Becomes(MatchFrame(Triggered(Top.order)))
    /\ emitted' = <<>>
    /\ UNCHANGED <<book, prices, aborted>>

\* The rest of activateStopOrder.
ReissueOrder ==
    /\ At("reissue")
    /\ Becomes(MatchFrame(Triggered(Top.order)))
    /\ emitted' = <<Updated(Triggered(Top.order))>>
    /\ UNCHANGED <<book, prices, aborted>>

\* Has the market moved in favour of the trailing stop orders of a side?
Favourable(side) ==
    /\ DOMAIN levels[<<"trailing", side>>] # {}
    /\ IF side = "SELL" THEN trailing_buy_price < MarketPrice("SELL")
                        ELSE trailing_sell_price > MarketPrice("BUY")

\* Faulty variant: the trailing stops updated last are never scanned again.
FaultyAfterUpdate(frame) ==
    IF frame.side = "SELL" THEN <<Scan("stop", "SELL", FALSE)>> ELSE <<>>

\* After the sell update the sell stops are scanned; after the buy update the loop
\* of activateStopOrders runs again if the sell scan activated an order ("cont" of
\* the buy scan is overwritten).
AfterUpdate(frame) ==
    IF frame.side = "SELL" THEN <<Scan("stop", "SELL", FALSE)>>
    ELSE IF frame.activated THEN <<BeginActivation>>
    ELSE <<>>

\* Faulty variant: level_it still points to the level the order has left.
FaultyMoveTrailingStop ==
    /\ At("update")
    /\ Favourable(Top.side)
    /\ LET m     == <<"trailing", Top.side>>
           nonempty == {p \in DOMAIN levels[m] : levels[m][p].orders # <<>>}
       IN  \E p \in nonempty :
             LET s == CalculateStopPrice(orders[Head(levels[m][p].orders)].order)
             IN  /\ \A q \in nonempty : p <= q
                 /\ levels' = [levels EXCEPT ![m][p] = PopFront(@, s)]
                 /\ updated_levels' = Put(updated_levels, s.stop,
                        AddOrderToLevel(LevelAt(updated_levels, s.stop), s))
                 /\ orders' = [orders EXCEPT ![s.id].order = s]
                 /\ emitted' = <<Updated(s)>>
    /\ UNCHANGED <<prices, stack, aborted>>

\* Level by level and oldest first, a trailing stop order moves to the level of
\* its new stop price in the temporary map.
MoveTrailingStop ==
    /\ At("update")
    /\ Favourable(Top.side)
    /\ LET m     == <<"trailing", Top.side>>
           nonempty == {p \in DOMAIN levels[m] : levels[m][p].orders # <<>>}
       IN  \E p \in nonempty :
             LET o == orders[Head(levels[m][p].orders)].order
                 s == CalculateStopPrice(o)
             IN  /\ \A q \in nonempty : p <= q
                 /\ levels' = [levels EXCEPT ![m][p] = PopFront(@, s)]
                 /\ updated_levels' = Put(updated_levels, s.stop,
                        AddOrderToLevel(LevelAt(updated_levels, s.stop), s))
                 /\ orders' = [orders EXCEPT ![o.id] = [order |-> s, level_it |-> s.stop]]
                 /\ emitted' = <<Updated(s)>>
    /\ UNCHANGED <<prices, stack, aborted>>

SwapTrailingLevels ==
    /\ At("update")
    /\ Favourable(Top.side)
    /\ \A p \in DOMAIN levels[<<"trailing", Top.side>>] :
         levels[<<"trailing", Top.side>>][p].orders = <<>>
    /\ levels' = [levels EXCEPT ![<<"trailing", Top.side>>] = updated_levels]
    /\ updated_levels' = EmptyMap
    /\ Proceed(AfterUpdate(Top))
    /\ emitted' = <<>>
    /\ UNCHANGED <<orders, prices, aborted>>

KeepTrailingLevels ==
    /\ At("update")
    /\ ~Favourable(Top.side)
    /\ IF Top.side = "SELL"
       THEN trailing_buy_price' = last_traded_price /\ UNCHANGED trailing_sell_price
       ELSE trailing_sell_price' = last_traded_price /\ UNCHANGED trailing_buy_price
    /\ Proceed(AfterUpdate(Top))
    /\ emitted' = <<>>
    /\ UNCHANGED <<book, last_traded_price, aborted>>

-----------------------------------------------------------------------------
Init ==
    /\ orders = EmptyMap
    /\ levels = [m \in LevelMap |-> EmptyMap]
    /\ updated_levels = EmptyMap
    /\ last_traded_price = 0
    /\ trailing_buy_price = 0
    /\ trailing_sell_price = MaxU64
    /\ stack = <<>>
    /\ emitted = <<>>
    /\ aborted = FALSE

Request ==
    \/ \E o \in Tickets : AddOrder(o)
    \/ \E id \in DOMAIN orders :
         \/ DeleteOrder(id)
         \/ \E new_id \in OrderId, price \in ModifyPrices : ModifyOrder(id, new_id, price)
         \/ \E quantity \in CancelQuantities : CancelOrder(id, quantity)
         \/ \E quantity \in ExecuteQuantities :
              \/ ExecuteOrder(id, quantity)
              \/ \E price \in ExecutePrices : ExecuteOrderAtPrice(id, quantity, price)

Step ==
    \/ AddToMarket \/ AddReachedStop \/ AddPendingStop
    \/ CheckLiquidity \/ KillOrder \/ Match \/ EndMatch
    \/ StartActivation \/ ActivateStopOrder \/ EndScan \/ ReissueOrder
    \/ MoveTrailingStop \/ SwapTrailingLevels \/ KeepTrailingLevels

Next == Request \/ Step

Spec == Init /\ [][Next]_vars

(* The calling thread runs a started request on; callers need not call.    *)
FairSpec == Spec /\ WF_vars(Step)
=============================================================================
