--------------------------- MODULE MatchingProofs ---------------------------
(***************************************************************************)
(* The book never crosses, and keeps price-time priority.  Given the types *)
(* of IndexInv the first is inductive: only an order that comes out of     *)
(* match or canMatchOrder adds a limit level, and then no level of the     *)
(* other side trades with it; no other step, however deep in the           *)
(* recursion, adds one.                                                    *)
(***************************************************************************)
EXTENDS OrderBookProofs

LimitPrices(side) == DOMAIN levels[<<"limit", side>>]

\* The limit levels of the book are some of those it had.
NoNewLimitLevel == \A side \in Side : LimitPrices(side)' \subseteq LimitPrices(side)

\* An uncrossed book stays uncrossed when no limit level appears.
LEMMA NoNewLevelUncrossed ==
    ASSUME BookUncrossed, NoNewLimitLevel
    PROVE  BookUncrossed'
  <1>1. /\ LimitPrices("BUY")' \subseteq LimitPrices("BUY")
        /\ LimitPrices("SELL")' \subseteq LimitPrices("SELL")
    BY DEF NoNewLimitLevel, Side
  <1>2. QED
    BY <1>1 DEF BookUncrossed, LimitPrices

\* A step that leaves the levels alone adds none.
LEMMA SameLevels ==
    ASSUME UNCHANGED levels
    PROVE  NoNewLimitLevel
    BY DEF NoNewLimitLevel, LimitPrices

\* Nor does one that changes the level map of stop orders only.
LEMMA OtherMapOnly ==
    ASSUME BookTyped, NEW m \in LevelMap, m[1] # "limit", NEW map,
           levels' = [levels EXCEPT ![m] = map]
    PROVE  NoNewLimitLevel
  <1> SUFFICES ASSUME NEW side \in Side
               PROVE  levels'[<<"limit", side>>] = levels[<<"limit", side>>]
    BY Zenon DEF NoNewLimitLevel, LimitPrices
  <1>1. m # <<"limit", side>>
    OBVIOUS
  <1>2. QED
    BY <1>1

\* deleteOrder adds no level, whatever happened to volumes before.
LEMMA DeleteAddsNoLevel ==
    ASSUME BookTyped, NEW o \in Order, NEW maps, SameQueues(maps),
           orders[o.id].level_it \in DOMAIN levels[MapOf(o)],
           levels' = DeleteFrom(maps, o)
    PROVE  NoNewLimitLevel
  <1> DEFINE m == MapOf(o)
             k == orders[o.id].level_it
  <1>1. m \in LevelMap
    BY PlaceTyped DEF LevelMap
  <1>2. k \in DOMAIN maps[m] /\ DOMAIN maps[m] = DOMAIN levels[m]
    BY <1>1 DEF SameQueues
  <1>3. DOMAIN WithoutOrder(maps[m], k, o) \subseteq DOMAIN maps[m]
    BY <1>2 DEF WithoutOrder, Put, Drop
  <1> SUFFICES ASSUME NEW side \in Side
               PROVE  LimitPrices(side)' \subseteq LimitPrices(side)
    BY DEF NoNewLimitLevel
  <1> DEFINE n == <<"limit", side>>
  <1>4. n \in LevelMap
    BY DEF LevelMap
  <1>5. levels'[n] = IF n = m THEN WithoutOrder(maps[m], k, o) ELSE maps[n]
    BY <1>4 DEF DeleteFrom, SameQueues
  <1> HIDE DEF m, k
  <1>6. QED
    BY <1>2, <1>3, <1>4, <1>5 DEF SameQueues, LimitPrices

\* deleteOrder, called by a caller or by activateStopOrder, adds no limit level.
LEMMA DeleteStepAddsNoLevel ==
    ASSUME IndexInv, Still, NEW id \in DOMAIN orders, NEW frames, Delete(id, frames)
    PROVE  NoNewLimitLevel
  <1>1. BookTyped
    BY Parts
  <1>2. SameQueues(levels)
    BY <1>1 DEF BookTyped, SameQueues
  <1>3. levels' = DeleteFrom(levels, orders[id].order)
    BY DEF Delete
  <1>4. QED
    BY <1>1, <1>2, <1>3, EntryToLevel, DeleteAddsNoLevel

\* Nor does a change of the open quantity of a resting order.
LEMMA SettleStepAddsNoLevel ==
    ASSUME IndexInv, Still, NEW o \in Order, o.id \in DOMAIN orders,
           SamePlace(o, orders[o.id].order),
           NEW p, p \in DOMAIN levels[MapOf(o)], NEW amount \in U64,
           NEW events, NEW frames, Settle(o, p, amount, events, frames)
    PROVE  NoNewLimitLevel
  <1> DEFINE reduced == [levels EXCEPT ![MapOf(o)][p] = ReduceVolume(@, amount)]
  <1>1. BookTyped
    BY Parts
  <1>2. MapOf(o) \in LevelMap
    BY PlaceTyped DEF LevelMap
  <1>3. SameQueues(reduced)
    BY <1>1, <1>2, ReducedLevels
  <1> HIDE DEF reduced
  <1>4. CASE levels' = DeleteFrom(reduced, o)
    <2>1. orders[o.id].level_it \in DOMAIN levels[MapOf(o)]
      BY EntryToLevel, SamePlaceSameLevel
    <2>2. QED
      BY <1>1, <1>3, <1>4, <2>1, DeleteAddsNoLevel
  <1>5. CASE levels' = reduced
    BY <1>3, <1>5 DEF NoNewLimitLevel, LimitPrices, SameQueues, LevelMap
  <1>6. QED
    BY <1>4, <1>5 DEF Settle, reduced

-----------------------------------------------------------------------------
(* The steps that change levels                                            *)

\* cancelOrder adds no limit level.
LEMMA CancelOrderAddsNoLevel ==
    ASSUME IndexInv, NEW id \in DOMAIN orders, NEW quantity \in CancelQuantities,
           CancelOrder(id, quantity)
    PROVE  NoNewLimitLevel
  <1> DEFINE before == orders[id].order
             cancelled == SetQuantity(before, quantity)
             amount == Minus(before.open, cancelled.open)
             price == orders[id].level_it
  <1>1. Still
    BY StillAt DEF CancelOrder
  <1>2. before \in Order /\ before.id = id /\ price \in DOMAIN levels[MapOf(before)]
    BY <1>1, EntryToLevel
  <1>3. cancelled \in Order /\ SamePlace(cancelled, before)
    BY <1>2, SetQuantityTyped, InputsAssumption
  <1>4. amount \in U64
    BY <1>2, <1>3, U64Closed DEF Order
  <1>5. cancelled.id = id /\ price \in DOMAIN levels[MapOf(cancelled)]
    BY <1>2, <1>3, SamePlaceSameLevel
  <1>6. \/ Settle(cancelled, price, amount, <<Updated(cancelled)>>, <<BeginActivation>>)
        \/ Abort
    BY DEF CancelOrder
  <1> HIDE DEF cancelled, amount, price
  <1>7. CASE Abort
    BY <1>7, SameLevels DEF Abort, book
  <1>8. CASE Settle(cancelled, price, amount, <<Updated(cancelled)>>, <<BeginActivation>>)
    BY <1>1, <1>3, <1>4, <1>5, <1>8, SettleStepAddsNoLevel
  <1>9. QED
    BY <1>6, <1>7, <1>8

\* Nor does executeOrder.
LEMMA ExecuteAddsNoLevel ==
    ASSUME IndexInv, NEW id \in DOMAIN orders, NEW quantity \in ExecuteQuantities,
           NEW price \in U64, Idle, ExecuteAt(id, quantity, price)
    PROVE  NoNewLimitLevel
  <1> DEFINE before == orders[id].order
             amount == Lesser(quantity, before.open)
             after == Execute(before, price, amount)
             key == orders[id].level_it
  <1>1. Still
    BY StillAt
  <1>2. before \in Order /\ before.id = id /\ key \in DOMAIN levels[MapOf(before)]
    BY <1>1, EntryToLevel
  <1>3. amount \in U64
    BY <1>2, U64Closed, InputsAssumption DEF Order
  <1>4. after \in Order /\ SamePlace(after, before)
    BY <1>2, <1>3, ExecuteTyped, WidthAssumption
  <1>5. after.id = id /\ key \in DOMAIN levels[MapOf(after)]
    BY <1>2, <1>4, SamePlaceSameLevel
  <1>6. \/ Settle(after, key, amount, <<Executed(after)>>, <<BeginActivation>>)
        \/ Abort
    BY DEF ExecuteAt
  <1> HIDE DEF amount, after, key
  <1>7. CASE Abort
    BY <1>7, SameLevels DEF Abort, book
  <1>8. CASE Settle(after, key, amount, <<Executed(after)>>, <<BeginActivation>>)
    BY <1>1, <1>3, <1>4, <1>5, <1>8, SettleStepAddsNoLevel
  <1>9. QED
    BY <1>6, <1>7, <1>8

\* No public operation does by itself: what it starts is left to the steps of match.
LEMMA RequestAddsNoLevel ==
    ASSUME IndexInv, Request
    PROVE  NoNewLimitLevel
  <1>1. ASSUME NEW o \in Tickets, AddOrder(o)
        PROVE  NoNewLimitLevel
    BY <1>1, SameLevels DEF AddOrder, book
  <1>2. ASSUME NEW id \in DOMAIN orders, NEW frames, Idle, Delete(id, frames)
        PROVE  NoNewLimitLevel
    BY <1>2, StillAt, DeleteStepAddsNoLevel
  <1>3. ASSUME NEW id \in DOMAIN orders, NEW quantity \in ExecuteQuantities,
               ExecuteOrder(id, quantity)
        PROVE  NoNewLimitLevel
    <2>1. Idle /\ ExecuteAt(id, quantity, orders[id].order.price)
      BY <1>3 DEF ExecuteOrder
    <2>2. orders[id].order.price \in U64
      BY <2>1, StillAt, EntryToLevel DEF Order
    <2>3. QED
      BY <2>1, <2>2, ExecuteAddsNoLevel
  <1>4. ASSUME NEW id \in DOMAIN orders, NEW quantity \in ExecuteQuantities,
               NEW price \in ExecutePrices, ExecuteOrderAtPrice(id, quantity, price)
        PROVE  NoNewLimitLevel
    BY <1>4, ExecuteAddsNoLevel, InputsAssumption DEF ExecuteOrderAtPrice
  <1>5. QED
    BY <1>1, <1>2, <1>3, <1>4, CancelOrderAddsNoLevel, Zenon DEF Request, DeleteOrder, ModifyOrder

\* A trade takes from a limit level, or the level away.
LEMMA MatchAddsNoLevel ==
    ASSUME IndexInv, Match
    PROVE  NoNewLimitLevel
  <1> DEFINE incoming == Top.order
             m == Contra(incoming)
  <1>1. Still /\ incoming \in Order
    BY CallFindsIndex DEF Match
  <1>2. PICK p \in DOMAIN levels[m] : Trade(p)
    BY DEF Match
  <1> DEFINE id       == Head(levels[m][p].orders)
             resting  == orders[id].order
             quantity == Lesser(incoming.open, resting.open)
             hit      == Execute(resting, resting.price, quantity)
  <1>3. m \in LevelMap
    BY <1>1 DEF Contra, Opposite, LevelMap, Side
  <1>4. id \in DOMAIN orders /\ resting \in Order /\ resting.id = id /\ MapOf(resting) = m
    BY <1>1, <1>3, FrontToEntry
  <1>5. quantity \in U64 /\ resting.price \in U64
    BY <1>1, <1>4, U64Closed DEF Order
  <1>6. hit \in Order /\ SamePlace(hit, resting)
    BY <1>4, <1>5, ExecuteTyped, WidthAssumption
  <1>7. hit.id = id /\ MapOf(hit) = m /\ SamePlace(hit, orders[hit.id].order)
    BY <1>4, <1>6, SamePlaceSameLevel, Zenon
  <1>8. (\E events, frames : Settle(hit, p, quantity, events, frames)) \/ Abort
    BY <1>2, Zenon DEF Trade
  <1> HIDE DEF m, resting, quantity, hit
  <1>9. CASE Abort
    BY <1>9, SameLevels DEF Abort, book
  <1>10. CASE \E events, frames : Settle(hit, p, quantity, events, frames)
    BY <1>1, <1>4, <1>5, <1>6, <1>7, <1>10, SettleStepAddsNoLevel
  <1>11. QED
    BY <1>8, <1>9, <1>10

\* A stop order that goes off leaves a map of stop orders.
LEMMA ActivateStopOrderAddsNoLevel ==
    ASSUME IndexInv, ActivateStopOrder
    PROVE  NoNewLimitLevel
  <1> DEFINE m == <<Top.kind, Top.side>>
  <1>1. Still /\ Top \in ScanFrame
    BY CallFindsIndex DEF ActivateStopOrder
  <1>2. m \in LevelMap
    BY <1>1 DEF ScanFrame, LevelMap
  <1>3. PICK p \in DOMAIN levels[m] :
          \E frames : Delete(Head(levels[m][p].orders), frames)
    BY DEF ActivateStopOrder
  <1>4. QED
    BY <1>1, <1>2, <1>3, FrontToEntry, DeleteStepAddsNoLevel

\* A new stop order, the move of a trailing stop and the swap touch maps of stop orders.
LEMMA StopMapsAddNoLevel ==
    ASSUME IndexInv, AddPendingStop \/ MoveTrailingStop \/ SwapTrailingLevels
    PROVE  NoNewLimitLevel
  <1>0. BookTyped
    BY Parts
  <1>1. CASE AddPendingStop
    <2> DEFINE o == Top.order
               s == WithStopPrice(o)
               map == Put(levels[MapOf(s)], KeyOf(s),
                          AddOrderToLevel(LevelAt(levels[MapOf(s)], KeyOf(s)), s))
    <2>1. o \in Order /\ ControlTyped
      BY <1>1, CallFindsIndex DEF AddPendingStop
    <2>2. Kind(o) # "limit" /\ Insert(s, <<BeginActivation>>, <<Added(o)>>)
      BY <1>1 DEF AddPendingStop
    <2>3. s \in Order /\ Kind(s) # "limit"
      BY <2>1, <2>2, CalculateStopPriceTyped DEF WithStopPrice, ControlTyped
    <2>4. MapOf(s) \in LevelMap /\ MapOf(s)[1] # "limit"
      BY <2>3, PlaceTyped DEF LevelMap, MapOf
    <2>5. levels' = [levels EXCEPT ![MapOf(s)] = map] \/ UNCHANGED levels
      BY <2>2 DEF Insert, Abort, book
    <2> HIDE DEF map, s
    <2>6. QED
      BY <1>0, <2>4, <2>5, OtherMapOnly, SameLevels
  <1>2. CASE MoveTrailingStop \/ SwapTrailingLevels
    <2> DEFINE m == <<"trailing", Top.side>>
    <2>1. m \in LevelMap /\ m[1] # "limit"
      BY <1>2, UpdateFindsCall, Zenon DEF MoveTrailingStop, SwapTrailingLevels, LevelMap
    <2>2. \E map : levels' = [levels EXCEPT ![m] = map]
      BY <1>2, Zenon DEF MoveTrailingStop, SwapTrailingLevels
    <2>3. QED
      BY <1>0, <2>1, <2>2, OtherMapOnly, Zenon
  <1>3. QED
    BY <1>1, <1>2

\* An order that match has left open may rest: it crosses no level of the other side.
LEMMA CompleteUncrossed ==
    ASSUME IndexInv, BookUncrossed, Still, NEW o \in Order,
           o.open = 0 \/ NoneCrosses(o), Complete(o)
    PROVE  BookUncrossed'
  <1>1. CASE UNCHANGED levels
    BY <1>1, SameLevels, NoNewLevelUncrossed
  <1>2. CASE o.type = "LIMIT" /\ o.open # 0 /\ Insert(o, <<>>, <<>>) /\ ~Abort
    <2> DEFINE m == <<"limit", o.side>>
               c == <<"limit", Opposite(o.side)>>
    <2>1. MapOf(o) = m /\ KeyOf(o) = o.price /\ m \in LevelMap /\ c \in LevelMap /\ c # m
      BY <1>2 DEF MapOf, KeyOf, Kind, LevelMap, Order, Side, Opposite
    <2>2. levels' = [levels EXCEPT ![m] =
             Put(@, o.price, AddOrderToLevel(LevelAt(@, o.price), o))]
      BY <1>2, <2>1 DEF Insert
    <2>3. BookTyped
      BY Parts
    <2>4. DOMAIN levels'[m] = DOMAIN levels[m] \union {o.price} /\ levels'[c] = levels[c]
      BY <2>1, <2>2, <2>3 DEF BookTyped, Put
    <2>5. /\ o.price \in U64
          /\ \A p \in DOMAIN levels[c] : p \in U64 /\ ~Crosses(p, o)
      BY <1>2, <2>1, <2>3, LevelTyped DEF NoneCrosses, Contra, Order
    <2>6. CASE o.side = "SELL"
      <3>1. \A p \in DOMAIN levels[<<"limit", "BUY">>] : p < o.price
        BY <2>5, <2>6, MaxU64Assumption DEF Crosses, Opposite, U64
      <3>2. QED
        BY <2>4, <2>6, <3>1 DEF BookUncrossed, Opposite
    <2>7. CASE o.side = "BUY"
      <3>1. \A p \in DOMAIN levels[<<"limit", "SELL">>] : o.price < p
        BY <2>5, <2>7, MaxU64Assumption DEF Crosses, Opposite, U64
      <3>2. QED
        BY <2>4, <2>7, <3>1 DEF BookUncrossed, Opposite
    <2>8. QED
      BY <2>6, <2>7 DEF Order, Side
  <1>3. QED
    BY <1>1, <1>2 DEF Complete, Insert, Abort, book

\* Every step of a call keeps the book uncrossed.
LEMMA StepUncrossed ==
    ASSUME IndexInv, BookUncrossed, Step
    PROVE  BookUncrossed'
  <1>1. CASE AddToMarket \/ AddReachedStop \/ CheckLiquidity \/ StartActivation \/ EndScan
             \/ ReissueOrder \/ KeepTrailingLevels
    <2>1. UNCHANGED levels
      BY <1>1, Zenon DEF AddToMarket, AddReachedStop, CheckLiquidity, StartActivation, EndScan,
                  ReissueOrder, KeepTrailingLevels, book
    <2>2. QED
      BY <2>1, SameLevels, NoNewLevelUncrossed
  <1>2. CASE AddPendingStop \/ MoveTrailingStop \/ SwapTrailingLevels
    BY <1>2, StopMapsAddNoLevel, NoNewLevelUncrossed
  <1>3. CASE Match
    BY <1>3, MatchAddsNoLevel, NoNewLevelUncrossed
  <1>4. CASE ActivateStopOrder
    BY <1>4, ActivateStopOrderAddsNoLevel, NoNewLevelUncrossed
  <1>5. CASE KillOrder
    BY <1>5, CallFindsIndex, CompleteUncrossed DEF KillOrder
  <1>6. CASE EndMatch
    BY <1>6, CallFindsIndex, CompleteUncrossed DEF EndMatch
  <1>7. QED
    BY <1>1, <1>2, <1>3, <1>4, <1>5, <1>6 DEF Step

-----------------------------------------------------------------------------
\* The book never crosses: at every step of every call the best bid is below the
\* best offer, however many stop orders went off in the middle of a match.
THEOREM NeverCrossed == Spec => []BookUncrossed
  <1>1. Init => BookUncrossed
    <2>1. Init => levels[<<"limit", "BUY">>] = EmptyMap
      BY DEF Init, LevelMap, Side
    <2>2. QED
      BY <2>1, EmptyMapIsMap DEF BookUncrossed
  <1>2. IndexInv /\ BookUncrossed /\ [Next]_vars => BookUncrossed'
    <2> SUFFICES ASSUME IndexInv, BookUncrossed, [Next]_vars
                 PROVE  BookUncrossed'
      OBVIOUS
    <2>1. CASE Request
      BY <2>1, RequestAddsNoLevel, NoNewLevelUncrossed
    <2>2. CASE Step
      BY <2>2, StepUncrossed
    <2>3. CASE UNCHANGED vars
      BY <2>3, SameLevels, NoNewLevelUncrossed DEF vars
    <2>4. QED
      BY <2>1, <2>2, <2>3 DEF Next
  <1>3. QED
    BY <1>1, <1>2, IndexInvariant, PTL DEF Spec

-----------------------------------------------------------------------------
(* Price-time priority.  Orders of a level stay in the order in which they *)
(* entered it, since a queue only grows at its end and shrinks by one node *)
(* at a time; the order a trade takes from is the front of the best level. *)

\* x is ahead of y in a queue.
Ahead(x, y, queue) ==
    \E i, j \in DOMAIN queue : i < j /\ queue[i] = x /\ queue[j] = y

\* The node of an id of a queue that links every id once.
LEMMA PositionIs ==
    ASSUME NEW q \in Seq(OrderId), IsInjective(q), NEW i \in DOMAIN q
    PROVE  Position(q[i], q) = i
    BY DEF Position, IsInjective

\* Positions tell who is ahead.
LEMMA PositionAhead ==
    ASSUME NEW q \in Seq(OrderId), IsInjective(q), NEW x \in Range(q), NEW y \in Range(q)
    PROVE  Position(x, q) < Position(y, q) <=> Ahead(x, y, q)
  <1>1. PICK i \in DOMAIN q : q[i] = x
    BY DEF Range
  <1>2. PICK j \in DOMAIN q : q[j] = y
    BY DEF Range
  <1>3. Position(x, q) = i /\ Position(y, q) = j
    BY <1>1, <1>2, PositionIs
  <1>4. \A k \in DOMAIN q : (q[k] = x => k = i) /\ (q[k] = y => k = j)
    BY <1>1, <1>2 DEF IsInjective
  <1>5. QED
    BY <1>1, <1>2, <1>3, <1>4 DEF Ahead

\* push_back leaves those who were there in their order.
LEMMA AppendAhead ==
    ASSUME NEW q \in Seq(OrderId), NEW id \in OrderId, NEW x, NEW y, Ahead(x, y, q)
    PROVE  Ahead(x, y, Append(q, id))
  <1>1. PICK i \in DOMAIN q, j \in DOMAIN q : i < j /\ q[i] = x /\ q[j] = y
    BY DEF Ahead
  <1>2. \A k \in DOMAIN q : k \in DOMAIN Append(q, id) /\ Append(q, id)[k] = q[k]
    OBVIOUS
  <1>3. QED
    BY <1>1, <1>2 DEF Ahead

\* So does erase, of another node than theirs.
LEMMA UnlinkAhead ==
    ASSUME NEW q \in Seq(OrderId), IsInjective(q), NEW id \in Range(q),
           NEW x, NEW y, x # id, y # id, Ahead(x, y, q)
    PROVE  Ahead(x, y, Unlink(q, id))
  <1> DEFINE u == Unlink(q, id)
  <1>1. PICK n \in 1 .. Len(q) : q[n] = id
    BY DEF Range
  <1>2. /\ DOMAIN u = 1 .. Len(q) - 1
        /\ \A k \in 1 .. Len(q) - 1 : u[k] = IF n <= k THEN q[k + 1] ELSE q[k]
    BY <1>1 DEF Unlink, IsInjective
  <1>3. PICK i \in 1 .. Len(q), j \in 1 .. Len(q) : i < j /\ q[i] = x /\ q[j] = y
    BY DEF Ahead
  <1>4. Len(q) \in Nat /\ i # n /\ j # n
    BY <1>1, <1>3
  <1> DEFINE place(k) == IF n < k THEN k - 1 ELSE k
  <1>5. \A k \in 1 .. Len(q) : k # n => place(k) \in 1 .. Len(q) - 1 /\ u[place(k)] = q[k]
    <2> HIDE DEF u
    <2>1. QED
      BY <1>1, <1>2, <1>4
  <1>6. place(i) < place(j)
    BY <1>3, <1>4
  <1> HIDE DEF u, place
  <1>7. QED
    BY <1>2, <1>3, <1>4, <1>5, <1>6 DEF Ahead, u

-----------------------------------------------------------------------------
(* The limit levels                                                        *)

\* Limit orders that stay in the book stay where they are.
PlacesKept ==
    \A id \in DOMAIN orders \intersect DOMAIN orders' :
        Kind(orders[id].order) = "limit" => SamePlace(orders'[id].order, orders[id].order)

\* Orders that stay in the book are behind those that were ahead of them.
QueueKept(before, after) ==
    \A p \in DOMAIN before : \A x, y \in DOMAIN orders' :
        Ahead(x, y, before[p].orders) => p \in DOMAIN after /\ Ahead(x, y, after[p].orders)

QueuesKept ==
    \A side \in Side : QueueKept(levels[<<"limit", side>>], levels'[<<"limit", side>>])

\* The queue of a limit order.
QueueOf(id) == levels[MapOf(orders[id].order)][orders[id].order.price].orders

\* A limit order is in the queue of its price at every step of every call.
LEMMA LimitLinked ==
    ASSUME IndexInv, NEW id \in DOMAIN orders, Kind(orders[id].order) = "limit"
    PROVE  /\ MapOf(orders[id].order) = <<"limit", orders[id].order.side>>
           /\ orders[id].order.side \in Side /\ orders[id].order.price \in U64
           /\ orders[id].order.price \in DOMAIN levels[MapOf(orders[id].order)]
           /\ QueueOf(id) \in Seq(OrderId) /\ IsInjective(QueueOf(id)) /\ id \in Range(QueueOf(id))
  <1> DEFINE o == orders[id].order
             m == MapOf(o)
  <1>1. BookTyped /\ o \in Order /\ m \in LevelMap
    BY Parts, EntryTyped
  <1>2. m = <<"limit", o.side>> /\ KeyOf(o) = o.price /\ o.side \in Side /\ o.price \in U64
    BY <1>1 DEF MapOf, KeyOf, Order
  <1>3. LinkedIn(levels[m], id) /\ QueuesOK(m, levels[m])
    BY <1>1, <1>2 DEF IndexInv, Still, Underway
  <1>4. o.price \in DOMAIN levels[m] /\ id \in Range(levels[m][o.price].orders)
    BY <1>2, <1>3 DEF LinkedIn, Linked
  <1>5. levels[m][o.price].orders \in Seq(OrderId) /\ IsInjective(levels[m][o.price].orders)
    BY <1>1, <1>3, <1>4, LevelTyped DEF QueuesOK
  <1>6. QED
    BY <1>2, <1>4, <1>5 DEF QueueOf

\* The same in the next state.
LEMMA LimitLinkedPrime ==
    ASSUME IndexInv', NEW id \in DOMAIN orders', Kind(orders'[id].order) = "limit"
    PROVE  /\ orders'[id].order.price \in DOMAIN levels'[MapOf(orders'[id].order)]
           /\ QueueOf(id)' \in Seq(OrderId) /\ IsInjective(QueueOf(id)') /\ id \in Range(QueueOf(id)')
  <1>1. PICK o, m : o = orders'[id].order /\ m = MapOf(o)
    OBVIOUS
  <1>2. BookTyped' /\ o \in Order
    BY <1>1, PartsPrime DEF BookTyped, IsMap, Entry
  <1>3. m \in LevelMap /\ m = <<"limit", o.side>> /\ KeyOf(o) = o.price
    BY <1>1, <1>2, PlaceTyped DEF MapOf, KeyOf, LevelMap
  <1>4. QueuesOK(m, levels[m])'
    BY <1>3 DEF IndexInv, Still, Underway
  <1>5. o.price \in DOMAIN levels'[m] /\ id \in Range(levels'[m][o.price].orders)
    <2>1. CASE Still'
      BY <1>1, <1>3, <2>1 DEF Still, LinkedIn, Linked
    <2>2. CASE Underway'
      <3>1. \/ LinkedIn(levels[MapOf(orders[id].order)], id)'
            \/ (MapOf(orders[id].order) = <<"trailing", Top.side>>)'
        BY <2>2 DEF Underway
      <3>2. m[1] # "trailing"
        BY <1>3
      <3>3. (MapOf(orders[id].order) = <<"trailing", Top.side>>)' => m[1] = "trailing"
        BY <1>1
      <3>4. LinkedIn(levels[MapOf(orders[id].order)], id)'
        BY <3>1, <3>2, <3>3
      <3>5. QED
        BY <1>1, <1>3, <3>4 DEF LinkedIn, Linked
    <2>3. QED
      BY <2>1, <2>2 DEF IndexInv
  <1>6. levels'[m][o.price].orders \in Seq(OrderId) /\ IsInjective(levels'[m][o.price].orders)
    BY <1>2, <1>3, <1>4, <1>5 DEF QueuesOK, BookTyped, IsMap, Level
  <1>7. QED
    BY <1>1, <1>5, <1>6 DEF QueueOf

\* Who is before whom stays so.
LEMMA BeforeKept ==
    ASSUME IndexInv, IndexInv', PlacesKept, QueuesKept,
           NEW x \in DOMAIN orders, NEW y \in DOMAIN orders, Before(x, y),
           x \in DOMAIN orders', y \in DOMAIN orders'
    PROVE  Before(x, y)'
  <1> DEFINE ox == orders[x].order
             oy == orders[y].order
             qx == orders'[x].order
             qy == orders'[y].order
  <1>1. Kind(ox) = "limit" /\ Kind(oy) = "limit" /\ ox.side = oy.side
    BY DEF Before
  <1>2. SamePlace(qx, ox) /\ SamePlace(qy, oy)
    BY <1>1 DEF PlacesKept
  <1>3. /\ MapOf(qx) = MapOf(ox) /\ Kind(qx) = "limit" /\ Kind(qy) = "limit" /\ qx.side = qy.side
        /\ qx.price = ox.price /\ qy.price = oy.price /\ qx.side = ox.side
    BY <1>1, <1>2 DEF SamePlace, MapOf, Kind
  <1>4. CASE IF ox.side = "BUY" THEN ox.price > oy.price ELSE ox.price < oy.price
    BY <1>3, <1>4 DEF Before
  <1>5. CASE ox.price = oy.price /\ Position(x, QueueOf(x)) < Position(y, QueueOf(x))
    <2> DEFINE m == <<"limit", ox.side>>
               p == ox.price
               q == levels[m][p].orders
               r == levels'[m][p].orders
    <2>1. MapOf(ox) = m /\ MapOf(oy) = m /\ ox.side \in Side
      BY <1>1, LimitLinked
    <2>2. QueueOf(x) = q /\ QueueOf(y) = q /\ QueueOf(x)' = r /\ QueueOf(y)' = r
      BY <1>2, <1>3, <1>5, <2>1 DEF QueueOf, SamePlace, MapOf, Kind
    <2>3. /\ q \in Seq(OrderId) /\ IsInjective(q) /\ x \in Range(q) /\ y \in Range(q)
          /\ p \in DOMAIN levels[m]
      BY <1>1, <2>1, <2>2, LimitLinked
    <2>4. Ahead(x, y, q)
      BY <1>5, <2>2, <2>3, PositionAhead
    <2>5. Ahead(x, y, r)
      BY <2>1, <2>3, <2>4 DEF QueuesKept, QueueKept
    <2>6. r \in Seq(OrderId) /\ IsInjective(r) /\ x \in Range(r) /\ y \in Range(r)
      BY <1>3, <2>2, LimitLinkedPrime
    <2>7. Position(x, r) < Position(y, r)
      BY <2>5, <2>6, PositionAhead
    <2>8. QED
      BY <1>3, <1>5, <2>1, <2>7 DEF Before
  <1>6. QED
    BY <1>4, <1>5 DEF Before, QueueOf

\* A step that leaves the limit levels and the limit orders alone.
LEMMA SameQueuesKept ==
    ASSUME \A id \in DOMAIN orders \intersect DOMAIN orders' :
               Kind(orders[id].order) = "limit" => SamePlace(orders'[id].order, orders[id].order),
           \A side \in Side : levels'[<<"limit", side>>] = levels[<<"limit", side>>]
    PROVE  PlacesKept /\ QueuesKept
    BY DEF PlacesKept, QueuesKept, QueueKept

\* An order that enters the book goes behind those of its level.
LEMMA InsertedKept ==
    ASSUME BookTyped, Still, NEW o \in Order, Inserted(o)
    PROVE  PlacesKept /\ QueuesKept
  <1> DEFINE m == MapOf(o)
             k == KeyOf(o)
             new == AddOrderToLevel(LevelAt(levels[m], k), o)
  <1>1. m \in LevelMap /\ o.id \in OrderId
    BY PlaceTyped DEF LevelMap, Order
  <1>2. PlacesKept
    BY DEF PlacesKept, Inserted, Put, SamePlace
  <1>3. levels'[m] = Put(levels[m], k, new) /\ \A n \in LevelMap : n # m => levels'[n] = levels[n]
    BY <1>1 DEF Inserted, BookTyped
  <1>4. k \in DOMAIN levels[m] => new.orders = Append(levels[m][k].orders, o.id)
    BY DEF AddOrderToLevel, LevelAt
  <1>5. QueueKept(levels[m], levels'[m])
    <2> SUFFICES ASSUME NEW p \in DOMAIN levels[m], NEW x, NEW y, Ahead(x, y, levels[m][p].orders)
                 PROVE  p \in DOMAIN levels'[m] /\ Ahead(x, y, levels'[m][p].orders)
      BY DEF QueueKept
    <2>1. levels[m][p].orders \in Seq(OrderId)
      BY <1>1, LevelTyped
    <2> HIDE DEF m, k, new
    <2>2. CASE p = k
      BY <1>1, <1>3, <1>4, <2>1, <2>2, AppendAhead DEF Put
    <2>3. CASE p # k
      BY <1>3, <2>3 DEF Put
    <2>4. QED
      BY <2>2, <2>3
  <1> HIDE DEF m
  <1>6. ASSUME NEW side \in Side
        PROVE  QueueKept(levels[<<"limit", side>>], levels'[<<"limit", side>>])
    <2>1. <<"limit", side>> \in LevelMap
      BY DEF LevelMap
    <2>2. QED
      BY <1>3, <1>5, <2>1 DEF QueueKept
  <1>7. QED
    BY <1>2, <1>6 DEF QueuesKept

\* Those behind an order that leaves the book move up.
LEMMA RemovedKept ==
    ASSUME BookTyped, Still, NEW id \in DOMAIN orders,
           NEW o \in Order, SamePlace(o, orders[id].order),
           NEW maps, SameQueues(maps), levels' = DeleteFrom(maps, o), orders' = Drop(orders, id)
    PROVE  PlacesKept /\ QueuesKept
  <1> DEFINE m == MapOf(o)
             k == KeyOf(o)
             new == DeleteOrderFromLevel(maps[m][k], o)
  <1>1. /\ m \in LevelMap /\ o.id = id
        /\ orders[id].level_it = k
        /\ k \in DOMAIN levels[m] /\ id \in Range(levels[m][k].orders)
    BY EntryTyped, SamePlaceSameLevel DEF Still, Indexed, LinkedIn, Linked
  <1>2. PlacesKept
    BY DEF PlacesKept, Drop, SamePlace
  <1>3. /\ levels'[m] = WithoutOrder(maps[m], k, o)
        /\ \A n \in LevelMap : n # m => levels'[n] = maps[n]
    BY <1>1 DEF SameQueues, DeleteFrom
  <1>4. new.orders = Unlink(levels[m][k].orders, id)
    BY <1>1 DEF DeleteOrderFromLevel, SameQueues
  <1>5. QueueKept(levels[m], levels'[m])
    <2> SUFFICES ASSUME NEW p \in DOMAIN levels[m], NEW x \in DOMAIN orders', NEW y \in DOMAIN orders',
                        Ahead(x, y, levels[m][p].orders)
                 PROVE  p \in DOMAIN levels'[m] /\ Ahead(x, y, levels'[m][p].orders)
      BY DEF QueueKept
    <2>1. /\ levels[m][p].orders \in Seq(OrderId) /\ IsInjective(levels[m][p].orders)
          /\ p \in DOMAIN maps[m] /\ maps[m][p].orders = levels[m][p].orders
      BY <1>1, LevelTyped DEF Still, QueuesOK, SameQueues
    <2>2. x # id /\ y # id
      BY DEF Drop
    <2>3. CASE p = k
      <3>1. Ahead(x, y, new.orders)
        BY <1>1, <1>4, <2>1, <2>2, <2>3, UnlinkAhead
      <3>2. new.orders # <<>>
        BY <3>1 DEF Ahead
      <3>3. levels'[m] = Put(maps[m], k, new)
        BY <1>3, <3>2 DEF WithoutOrder
      <3> HIDE DEF m, k, new
      <3>4. QED
        BY <2>3, <3>1, <3>3 DEF Put
    <2>4. CASE p # k
      <3>1. levels'[m] = Put(maps[m], k, new) \/ levels'[m] = Drop(maps[m], k)
        BY <1>3 DEF WithoutOrder
      <3> HIDE DEF m, k, new
      <3>2. QED
        BY <2>1, <2>4, <3>1 DEF Put, Drop
    <2>5. QED
      BY <2>3, <2>4
  <1> HIDE DEF m
  <1>6. ASSUME NEW side \in Side
        PROVE  QueueKept(levels[<<"limit", side>>], levels'[<<"limit", side>>])
    <2>1. <<"limit", side>> \in LevelMap
      BY DEF LevelMap
    <2>2. QED
      BY <1>3, <1>5, <2>1 DEF QueueKept, SameQueues
  <1>7. QED
    BY <1>2, <1>6 DEF QueuesKept

\* Quantities have no part in it.
LEMMA ChangedKept ==
    ASSUME BookTyped, Still, NEW o \in Order, NEW amount \in U64, Changed(o, amount)
    PROVE  PlacesKept /\ QueuesKept
  <1> DEFINE id == o.id
             m == MapOf(o)
             k == orders[id].level_it
             maps == Reduced(o, amount)
  <1>1. id \in DOMAIN orders /\ SamePlace(o, orders[id].order) /\ m \in LevelMap
    BY PlaceTyped DEF Changed, LevelMap
  <1>2. k \in DOMAIN levels[m]
    BY <1>1, SamePlaceSameLevel DEF Still, Indexed, LinkedIn, Linked
  <1>3. SameQueues(maps)
    BY <1>1, <1>2, ReducedLevels DEF Reduced
  <1> HIDE DEF maps
  <1>4. CASE levels' = DeleteFrom(maps, o) /\ orders' = Drop(orders, id)
    BY <1>1, <1>3, <1>4, RemovedKept
  <1>5. CASE levels' = maps /\ orders' = [orders EXCEPT ![id].order = o]
    <2>1. PlacesKept
      BY <1>1, <1>5 DEF PlacesKept, SamePlace
    <2>2. QueuesKept
      BY <1>3, <1>5, Zenon DEF QueuesKept, QueueKept, SameQueues, LevelMap
    <2>3. QED
      BY <2>1, <2>2
  <1>6. QED
    BY <1>4, <1>5 DEF Changed, maps

\* The steps of updateTrailing* concern no limit order.
LEMMA TrailingKept ==
    ASSUME IndexInv, MoveTrailingStop \/ SwapTrailingLevels
    PROVE  PlacesKept /\ QueuesKept
  <1> DEFINE m == <<"trailing", Top.side>>
  <1>1. BookTyped /\ ControlTyped /\ Underway /\ Top.side \in Side
    BY UpdateFindsCall, StillUnderway, Zenon DEF IndexInv, MoveTrailingStop, SwapTrailingLevels
  <1>2. m \in LevelMap
    BY <1>1 DEF LevelMap
  <1>3. PICK map : levels' = [levels EXCEPT ![m] = map]
    BY Zenon DEF MoveTrailingStop, SwapTrailingLevels
  <1>4. \A side \in Side : levels'[<<"limit", side>>] = levels[<<"limit", side>>]
    BY <1>1, <1>3 DEF BookTyped, LevelMap
  <1>5. CASE SwapTrailingLevels
    BY <1>4, <1>5, SameQueuesKept DEF SwapTrailingLevels, SamePlace
  <1>6. CASE MoveTrailingStop
    <2>1. PICK p \in DOMAIN levels[m] :
            LET o == orders[Head(levels[m][p].orders)].order
                s == CalculateStopPrice(o)
            IN  /\ levels[m][p].orders # <<>>
                /\ orders' = [orders EXCEPT ![o.id] = [order |-> s, level_it |-> s.stop]]
      BY <1>6, Zenon DEF MoveTrailingStop
    <2> DEFINE id == Head(levels[m][p].orders)
    <2>2. id \in Range(levels[m][p].orders)
      BY <1>1, <1>2, <2>1, LevelTyped, TailQueue, Zenon DEF Underway, QueuesOK
    <2>3. id \in DOMAIN orders /\ Kind(orders[id].order) # "limit" /\ orders[id].order.id = id
      BY <1>1, <1>2, <2>2 DEF Underway, QueuesOK, Indexed, MapOf
    <2>4. \A i \in DOMAIN orders \intersect DOMAIN orders' :
            Kind(orders[i].order) = "limit" => SamePlace(orders'[i].order, orders[i].order)
      BY <2>1, <2>3, Zenon DEF SamePlace
    <2>5. QED
      BY <1>4, <2>4, SameQueuesKept
  <1>7. QED
    BY <1>5, <1>6

\* Every step keeps the queues of limit orders.
LEMMA NextKept ==
    ASSUME IndexInv, Next
    PROVE  PlacesKept /\ QueuesKept
  <1>1. BookTyped /\ BookStep
    BY Parts, BookSteps
  <1>2. CASE UNCHANGED book
    BY <1>2, SameQueuesKept DEF book, SamePlace
  <1>3. ASSUME Still, NEW id \in DOMAIN orders, Removed(id)
        PROVE  PlacesKept /\ QueuesKept
    <2>1. SameQueues(levels)
      BY <1>1 DEF BookTyped, SameQueues
    <2>2. orders[id].order \in Order /\ SamePlace(orders[id].order, orders[id].order)
      BY <1>1, <1>3, EntryTyped DEF SamePlace
    <2>3. QED
      BY <1>1, <1>3, <2>1, <2>2, RemovedKept DEF Removed
  <1>4. QED
    BY <1>1, <1>2, <1>3, InsertedKept, ChangedKept, TrailingKept DEF BookStep

\* A trade leaves an order alone while there is one before it.
LEMMA MatchTakesFirst ==
    ASSUME IndexInv, Match,
           NEW x \in DOMAIN orders, NEW y \in DOMAIN orders, Before(x, y)
    PROVE  y \in DOMAIN orders' /\ orders'[y].order = orders[y].order
  <1> DEFINE m == Contra(Top.order)
             ox == orders[x].order
             oy == orders[y].order
  <1>1. CASE UNCHANGED book
    BY <1>1 DEF book
  <1>2. ASSUME Still, NEW p \in DOMAIN levels[m], NEW hit \in Order, NEW amount,
               Best(p, m), hit.id = Head(levels[m][p].orders), Changed(hit, amount)
        PROVE  y \in DOMAIN orders' /\ orders'[y].order = orders[y].order
    <2>1. /\ m \in LevelMap /\ m = <<"limit", Opposite(Top.order.side)>>
          /\ Opposite(Top.order.side) \in Side
      BY CallFindsIndex DEF Match, Contra, Opposite, LevelMap, Side, Order
    <2>2. y # hit.id
      <3> SUFFICES ASSUME y = hit.id
                   PROVE  FALSE
        OBVIOUS
      <3> DEFINE q == levels[m][p].orders
      <3>1. /\ q \in Seq(OrderId) /\ IsInjective(q) /\ q # <<>>
            /\ y \in Range(q) /\ MapOf(oy) = m /\ KeyOf(oy) = p
        <4>1. BookTyped /\ QueuesOK(m, levels[m]) /\ NonEmpty(levels[m])
          BY <1>2, <2>1, Parts DEF Still
        <4>2. q \in Seq(OrderId) /\ IsInjective(q) /\ q # <<>>
          BY <1>2, <2>1, <4>1, LevelTyped DEF NonEmpty, QueuesOK
        <4>3. y \in Range(q)
          BY <1>2, <4>2, TailQueue
        <4>4. QED
          BY <1>2, <4>1, <4>2, <4>3 DEF QueuesOK
      <3>2. Kind(ox) = "limit" /\ Kind(oy) = "limit" /\ ox.side = oy.side
        BY DEF Before
      <3>3. oy.price = p /\ MapOf(ox) = m /\ ox.side = m[2]
        BY <3>1, <3>2 DEF KeyOf, MapOf
      <3>4. /\ ox.price \in DOMAIN levels[m] /\ ox.price \in U64 /\ oy.price \in U64
            /\ x \in Range(QueueOf(x))
        BY <3>2, <3>3, LimitLinked
      <3>5. CASE IF ox.side = "BUY" THEN ox.price > oy.price ELSE ox.price < oy.price
        <4>1. IF ox.side = "BUY" THEN ox.price <= p ELSE p <= ox.price
          <5>1. \A r \in DOMAIN levels[m] :
                  IF m = <<"limit", "BUY">> THEN r <= p ELSE p <= r
            BY <1>2, <2>1 DEF Best
          <5>2. ox.price \in DOMAIN levels[m] /\ m = <<"limit", ox.side>>
            BY <2>1, <3>3, <3>4
          <5> HIDE DEF m, ox
          <5>3. QED
            BY <5>1, <5>2
        <4>2. QED
          BY <3>3, <3>4, <3>5, <4>1, MaxU64Assumption DEF U64
      <3>6. CASE ox.price = oy.price /\ Position(x, QueueOf(x)) < Position(y, QueueOf(x))
        <4>1. QueueOf(x) = q /\ x \in Range(q)
          BY <3>3, <3>4, <3>6 DEF QueueOf
        <4>2. y = q[1] /\ 1 \in DOMAIN q
          BY <1>2, <3>1
        <4>3. Position(y, q) = 1
          BY <3>1, <4>2, PositionIs
        <4>4. PICK i \in DOMAIN q : q[i] = x
          BY <4>1 DEF Range
        <4>5. Position(x, q) = i /\ i >= 1
          BY <3>1, <4>4, PositionIs
        <4>6. Position(x, q) < Position(y, q)
          BY <3>6, <4>1
        <4> HIDE DEF q
        <4>7. i \in Int /\ i < 1
          BY <3>1, <4>3, <4>4, <4>5, <4>6
        <4>8. QED
          BY <4>5, <4>7
      <3>7. QED
        BY <3>5, <3>6 DEF Before, QueueOf
    <2>3. QED
      BY <1>2, <2>2, Zenon DEF Changed, Drop
  <1>3. QED
    BY <1>1, <1>2, MatchIs

\* Price-time priority at every step of every call: whoever is before another in the
\* book stays before it as long as both are there, and a trade never takes from an order
\* while another is before it.
THEOREM PriorityKept == Spec => PriceTimePriority
  <1> DEFINE Keeps ==
               \A x, y \in DOMAIN orders : Before(x, y) =>
                 /\ {x, y} \subseteq DOMAIN orders' => Before(x, y)'
                 /\ Match => y \in DOMAIN orders' /\ orders'[y].order = orders[y].order
  <1>1. IndexInv /\ IndexInv' /\ Next => Keeps
    BY NextKept, BeforeKept, MatchTakesFirst
  <1>2. IndexInv /\ IndexInv' /\ [Next]_vars => [Keeps]_vars
    BY <1>1
  <1>3. QED
    BY <1>2, IndexInvariant, PTL DEF Spec, PriceTimePriority
============================================================================
