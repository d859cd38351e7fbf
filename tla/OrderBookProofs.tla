-------------------------- MODULE OrderBookProofs --------------------------
(***************************************************************************)
(* Invariants of the order book, for every set of ids, tickets and inputs  *)
(* and every integer width: its types, and the index, are right at every   *)
(* step of every call.                                                     *)
(*                                                                         *)
(* First come lemmas about the operators below the book: arithmetic, maps, *)
(* what an order may be, and the queue of a level; then the five ways the  *)
(* code changes the index, each of which keeps it right; then the steps of *)
(* the calls.                                                              *)
(*                                                                         *)
(* IndexConsistent is not inductive: a step goes from an entry to its      *)
(* level or from the front of a level to its entry, which is only possible *)
(* while the values have their types and no map holds an empty level; and  *)
(* while trailing stops are moved the index is spread over two maps, which *)
(* no order may be in at once.  IndexInv is TypeOK with one of two         *)
(* conditions of the book: Still, and Underway while stops are moved.      *)
(***************************************************************************)
EXTENDS OrderBookProperties, SequenceTheorems, TLAPS

-----------------------------------------------------------------------------
(* Arithmetic and maps                                                     *)

\* Arithmetic on uint64_t stays within uint64_t (Level::addOrder, deleteOrder,
\* reduceVolume and Order::execute rely on nothing else of it).
LEMMA U64Closed ==
    ASSUME NEW x \in U64, NEW y \in U64
    PROVE  /\ Plus(x, y) \in U64
           /\ Minus(x, y) \in U64
           /\ Lesser(x, y) \in U64
    BY MaxU64Assumption DEF U64, Plus, Minus, Lesser

\* The map a book starts with holds nothing of any type.
LEMMA EmptyMapIsMap ==
    ASSUME NEW Key, NEW Value
    PROVE  IsMap(EmptyMap, Key, Value) /\ DOMAIN EmptyMap = {}
    BY DEF IsMap, EmptyMap

\* emplace keeps a map typed.
LEMMA PutIsMap ==
    ASSUME NEW Key, NEW Value, NEW f, IsMap(f, Key, Value), NEW k \in Key, NEW v \in Value
    PROVE  IsMap(Put(f, k, v), Key, Value)
    BY DEF IsMap, Put

\* erase keeps a map typed.
LEMMA DropIsMap ==
    ASSUME NEW Key, NEW Value, NEW f, IsMap(f, Key, Value), NEW k
    PROVE  IsMap(Drop(f, k), Key, Value)
    BY DEF IsMap, Drop

-----------------------------------------------------------------------------
(* Orders                                                                  *)

\* What decides where an order rests, and under which id.
SamePlace(o, s) ==
    o.id = s.id /\ o.type = s.type /\ o.side = s.side /\ o.price = s.price /\ o.stop = s.stop

\* Order::execute leaves an order an order, in the same place.
LEMMA ExecuteTyped ==
    ASSUME NEW o \in Order, NEW p \in U64, NEW q \in U64, MaxU32 <= MaxU64
    PROVE  Execute(o, p, q) \in Order /\ SamePlace(Execute(o, p, q), o)
  <1>1. p % (MaxU32 + 1) \in U64
    BY MaxU64Assumption, MaxU32Assumption DEF U64
  <1>2. Minus(o.open, q) \in U64 /\ Plus(o.executed, q) \in U64
    BY U64Closed DEF Order
  <1>3. QED
    BY <1>1, <1>2 DEF Execute, Order, SamePlace

\* So does Order::setQuantity.
LEMMA SetQuantityTyped ==
    ASSUME NEW o \in Order, NEW q \in U64
    PROVE  SetQuantity(o, q) \in Order /\ SamePlace(SetQuantity(o, q), o)
    BY U64Closed DEF SetQuantity, Order, SamePlace

\* A triggered stop order is a market or a limit order of the same id and side.
LEMMA TriggeredTyped ==
    ASSUME NEW o \in Order
    PROVE  /\ Triggered(o) \in Order
           /\ Kind(Triggered(o)) = "limit"
           /\ Triggered(o).id = o.id
           /\ Triggered(o).side = o.side
  <1>1. PICK type \in {"MARKET", "LIMIT"} :
            Triggered(o) = [o EXCEPT !.type = type, !.stop = 0, !.trail = 0]
    BY DEF Triggered
  <1>2. 0 \in U64 /\ type \in OrderType
    BY MaxU64Assumption DEF U64, OrderType
  <1>3. Triggered(o) \in Order /\ Triggered(o).type = type
    BY <1>1, <1>2 DEF Order
  <1>4. QED
    BY <1>1, <1>3 DEF Kind, Order

\* addMarketOrder only sets a price.
LEMMA PricedTyped ==
    ASSUME NEW o \in Order
    PROVE  Priced(o) \in Order /\ Kind(Priced(o)) = Kind(o)
    BY MaxU64Assumption DEF Priced, Order, U64, Kind

\* Every order has a map and a key in it.
LEMMA PlaceTyped ==
    ASSUME NEW o \in Order
    PROVE  /\ MapOf(o) \in {"limit", "stop", "trailing"} \X Side
           /\ KeyOf(o) \in U64
    BY DEF MapOf, KeyOf, Kind, Order

\* Orders in the same place have the same map and the same key.
LEMMA SamePlaceSameLevel ==
    ASSUME NEW o, NEW s, SamePlace(o, s)
    PROVE  MapOf(o) = MapOf(s) /\ KeyOf(o) = KeyOf(s) /\ o.id = s.id
    BY DEF SamePlace, MapOf, KeyOf, Kind

-----------------------------------------------------------------------------
(* The queue of a level                                                    *)

\* push_back of an order that is not in the queue.
LEMMA AppendQueue ==
    ASSUME NEW q \in Seq(OrderId), IsInjective(q), NEW id \in OrderId, id \notin Range(q)
    PROVE  /\ Append(q, id) \in Seq(OrderId)
           /\ IsInjective(Append(q, id))
           /\ Range(Append(q, id)) = Range(q) \union {id}
           /\ Append(q, id) # <<>>
  <1>1. /\ Append(q, id) \in Seq(OrderId)
        /\ Append(q, id) # <<>>
        /\ DOMAIN Append(q, id) = 1 .. Len(q) + 1
        /\ \A i \in 1 .. Len(q) : Append(q, id)[i] = q[i]
        /\ Append(q, id)[Len(q) + 1] = id
    OBVIOUS
  <1>2. DOMAIN q = 1 .. Len(q) /\ Len(q) \in Nat
    OBVIOUS
  <1>3. \A i \in 1 .. Len(q) : q[i] # id
    BY <1>2 DEF Range
  <1>4. IsInjective(Append(q, id))
    BY <1>1, <1>2, <1>3 DEF IsInjective
  <1>5. Range(Append(q, id)) = Range(q) \union {id}
    BY <1>1, <1>2 DEF Range
  <1>6. QED
    BY <1>1, <1>4, <1>5

\* pop_front of a queue that is not empty.
LEMMA TailQueue ==
    ASSUME NEW q \in Seq(OrderId), IsInjective(q), q # <<>>
    PROVE  /\ Tail(q) \in Seq(OrderId)
           /\ IsInjective(Tail(q))
           /\ Range(Tail(q)) = Range(q) \ {Head(q)}
           /\ Head(q) \in Range(q)
  <1>1. /\ Len(q) \in Nat \ {0}
        /\ DOMAIN q = 1 .. Len(q)
        /\ Head(q) = q[1]
    OBVIOUS
  <1>2. /\ Tail(q) \in Seq(OrderId)
        /\ DOMAIN Tail(q) = 1 .. Len(q) - 1
        /\ \A i \in 1 .. Len(q) - 1 : Tail(q)[i] = q[i + 1]
    BY <1>1
  <1>3. IsInjective(Tail(q))
    BY <1>1, <1>2 DEF IsInjective
  <1>4. \A i \in 2 .. Len(q) : q[i] # q[1] /\ i - 1 \in 1 .. Len(q) - 1 /\ Tail(q)[i - 1] = q[i]
    BY <1>1, <1>2 DEF IsInjective
  <1>5. Range(Tail(q)) \subseteq Range(q) \ {Head(q)}
    BY <1>1, <1>2, <1>4 DEF Range
  <1>6. Range(q) \ {Head(q)} \subseteq Range(Tail(q))
    <2> SUFFICES ASSUME NEW i \in 1 .. Len(q), q[i] # q[1]
                 PROVE  q[i] \in Range(Tail(q))
      BY <1>1 DEF Range
    <2>1. i - 1 \in 1 .. Len(q) - 1 /\ Tail(q)[i - 1] = q[i]
      BY <1>1, <1>2
    <2>2. QED
      BY <1>2, <2>1 DEF Range
  <1>7. Head(q) \in Range(q)
    BY <1>1 DEF Range
  <1>8. QED
    BY <1>2, <1>3, <1>5, <1>6, <1>7

\* erase of a node of the queue: the others stay, in their order.
LEMMA UnlinkQueue ==
    ASSUME NEW q \in Seq(OrderId), IsInjective(q), NEW id \in Range(q)
    PROVE  /\ Unlink(q, id) \in Seq(OrderId)
           /\ IsInjective(Unlink(q, id))
           /\ Range(Unlink(q, id)) = Range(q) \ {id}
  <1>1. DOMAIN q = 1 .. Len(q) /\ Len(q) \in Nat /\ \A i \in 1 .. Len(q) : q[i] \in OrderId
    OBVIOUS
  <1>2. PICK n \in 1 .. Len(q) : q[n] = id
    BY <1>1 DEF Range
  <1> DEFINE u == Unlink(q, id)
  <1>3. /\ DOMAIN u = 1 .. Len(q) - 1
        /\ \A j \in 1 .. Len(q) - 1 : u[j] = IF n <= j THEN q[j + 1] ELSE q[j]
    BY <1>1, <1>2 DEF Unlink, IsInjective
  <1>4. u \in Seq(OrderId)
    <2>1. \A j \in 1 .. Len(q) - 1 : u[j] \in OrderId
      BY <1>1, <1>3
    <2>2. u \in [1 .. Len(q) - 1 -> OrderId]
      BY <1>3, <2>1 DEF Unlink
    <2>3. Len(q) - 1 \in Nat
      BY <1>1, <1>2
    <2>4. QED
      BY <2>2, <2>3
  <1>5. IsInjective(u)
    <2> HIDE DEF u
    <2>1. SUFFICES ASSUME NEW i \in 1 .. Len(q) - 1, NEW j \in 1 .. Len(q) - 1, u[i] = u[j]
                   PROVE  i = j
      BY <1>3 DEF IsInjective
    <2>2. \A k \in 1 .. Len(q) - 1 : k \in 1 .. Len(q) /\ k + 1 \in 1 .. Len(q)
      BY <1>1
    <2>3. \A k, l \in 1 .. Len(q) : q[k] = q[l] => k = l
      BY <1>1 DEF IsInjective
    <2>4. QED
      BY <1>1, <1>2, <1>3, <2>1, <2>2, <2>3
  <1>6. Range(u) \subseteq Range(q) \ {id}
    <2> SUFFICES ASSUME NEW j \in 1 .. Len(q) - 1
                 PROVE  u[j] \in Range(q) \ {id}
      BY <1>3 DEF Range
    <2>1. PICK i \in 1 .. Len(q) : i # n /\ u[j] = q[i]
      BY <1>1, <1>2, <1>3
    <2>2. QED
      BY <1>1, <1>2, <2>1 DEF IsInjective, Range
  <1>7. Range(q) \ {id} \subseteq Range(u)
    <2> SUFFICES ASSUME NEW i \in 1 .. Len(q), q[i] # id
                 PROVE  q[i] \in Range(u)
      BY <1>1 DEF Range
    <2>1. CASE i < n
      BY <1>1, <1>2, <1>3, <2>1 DEF Range
    <2>2. CASE i > n
      <3>1. i - 1 \in 1 .. Len(q) - 1 /\ u[i - 1] = q[i]
        BY <1>1, <1>2, <1>3, <2>2
      <3>2. QED
        BY <1>3, <3>1 DEF Range
    <2>3. QED
      BY <1>2, <2>1, <2>2
  <1>8. QED
    BY <1>4, <1>5, <1>6, <1>7

\* A new level links nothing.
LEMMA EmptyQueue == IsInjective(<<>>) /\ Range(<<>>) = {}
    BY DEF IsInjective, Range

-----------------------------------------------------------------------------
(* Levels                                                                  *)

\* A new level is empty.
LEMMA NewLevelTyped == NewLevel \in Level /\ NewLevel.orders = <<>>
    BY MaxU64Assumption DEF NewLevel, Level, U64

\* Level::addOrder appends the order's id.
LEMMA AddOrderTyped ==
    ASSUME NEW level \in Level, NEW o \in Order
    PROVE  /\ AddOrderToLevel(level, o) \in Level
           /\ AddOrderToLevel(level, o).orders = Append(level.orders, o.id)
  <1>1. Plus(level.volume, o.open) \in U64
    BY U64Closed DEF Level, Order
  <1>2. Append(level.orders, o.id) \in Seq(OrderId)
    BY DEF Level, Order
  <1>3. QED
    BY <1>1, <1>2 DEF AddOrderToLevel, Level

\* Level::deleteOrder unlinks the order's node.
LEMMA DeleteOrderTyped ==
    ASSUME NEW level \in Level, NEW o \in Order,
           IsInjective(level.orders), o.id \in Range(level.orders)
    PROVE  /\ DeleteOrderFromLevel(level, o) \in Level
           /\ DeleteOrderFromLevel(level, o).orders = Unlink(level.orders, o.id)
  <1>1. Minus(level.volume, o.open) \in U64
    BY U64Closed DEF Level, Order
  <1>2. Unlink(level.orders, o.id) \in Seq(OrderId)
    BY UnlinkQueue DEF Level
  <1>3. QED
    BY <1>1, <1>2 DEF DeleteOrderFromLevel, Level

\* Level::popFront unlinks the oldest node.
LEMMA PopFrontTyped ==
    ASSUME NEW level \in Level, NEW o \in Order, level.orders # <<>>
    PROVE  /\ PopFront(level, o) \in Level
           /\ PopFront(level, o).orders = Tail(level.orders)
  <1>1. Minus(level.volume, o.open) \in U64
    BY U64Closed DEF Level, Order
  <1>2. Tail(level.orders) \in Seq(OrderId)
    BY DEF Level
  <1>3. QED
    BY <1>1, <1>2 DEF PopFront, Level

\* Level::reduceVolume leaves the queue alone.
LEMMA ReduceVolumeTyped ==
    ASSUME NEW level \in Level, NEW amount \in U64
    PROVE  /\ ReduceVolume(level, amount) \in Level
           /\ ReduceVolume(level, amount).orders = level.orders
    BY U64Closed DEF ReduceVolume, Level

-----------------------------------------------------------------------------
(* The index                                                               *)

\* id is in the queue of the level of "map" at key p.
Linked(map, p, id) == p \in DOMAIN map /\ id \in Range(map[p].orders)

\* The queues of "map", which is map m or the one it is about to be swapped for,
\* link every order once and under its own key.
QueuesOK(m, map) ==
    \A p \in DOMAIN map :
        /\ IsInjective(map[p].orders)
        /\ \A id \in Range(map[p].orders) :
             /\ id \in DOMAIN orders
             /\ MapOf(orders[id].order) = m
             /\ KeyOf(orders[id].order) = p

NonEmpty(map) == \A p \in DOMAIN map : map[p].orders # <<>>

\* The entry of id holds the order of that id and points to the level of its key.
Indexed(id) ==
    /\ orders[id].order.id = id
    /\ orders[id].level_it = KeyOf(orders[id].order)

LinkedIn(map, id) == Linked(map, KeyOf(orders[id].order), id)

Still ==
    /\ updated_levels = EmptyMap
    /\ \A m \in LevelMap : QueuesOK(m, levels[m]) /\ NonEmpty(levels[m])
    /\ \A id \in DOMAIN orders : Indexed(id) /\ LinkedIn(levels[MapOf(orders[id].order)], id)

Underway ==
    LET moving == <<"trailing", Top.side>> IN
    /\ stack # <<>> /\ Top.pc = "update" /\ Favourable(Top.side)
    /\ \A m \in LevelMap : QueuesOK(m, levels[m]) /\ (m # moving => NonEmpty(levels[m]))
    /\ QueuesOK(moving, updated_levels) /\ NonEmpty(updated_levels)
    /\ \A id \in DOMAIN orders :
         /\ Indexed(id)
         /\ \/ LinkedIn(levels[MapOf(orders[id].order)], id)
            \/ MapOf(orders[id].order) = moving /\ LinkedIn(updated_levels, id)
         /\ ~(LinkedIn(levels[moving], id) /\ LinkedIn(updated_levels, id))

\* Only the innermost call moves trailing stops: it calls nothing.
Busy == {frame \in Frame : frame.pc # "update"}
StackShape == stack # <<>> => Tail(stack) \in Seq(Busy)

IndexInv == TypeOK /\ StackShape /\ (Still \/ Underway)

-----------------------------------------------------------------------------
(* What the index and the levels need of TypeOK.                           *)
BookTyped ==
    /\ IsMap(orders, OrderId, Entry)
    /\ levels = [m \in LevelMap |-> levels[m]]
    /\ \A m \in LevelMap : IsMap(levels[m], U64, Level)
    /\ IsMap(updated_levels, U64, Level)

\* "maps" differs from the levels of the book in volumes only.
SameQueues(maps) ==
    /\ maps = [m \in LevelMap |-> maps[m]]
    /\ \A m \in LevelMap :
         /\ IsMap(maps[m], U64, Level)
         /\ DOMAIN maps[m] = DOMAIN levels[m]
         /\ \A p \in DOMAIN maps[m] : maps[m][p].orders = levels[m][p].orders

\* An entry of a typed book holds an order.
LEMMA EntryTyped ==
    ASSUME BookTyped, NEW id \in DOMAIN orders
    PROVE  /\ id \in OrderId
           /\ orders[id].order \in Order
           /\ orders[id].level_it \in U64
           /\ MapOf(orders[id].order) \in LevelMap
    BY PlaceTyped DEF BookTyped, IsMap, Entry, LevelMap

\* A level of a typed book is a level.
LEMMA LevelTyped ==
    ASSUME BookTyped, NEW m \in LevelMap, NEW p \in DOMAIN levels[m]
    PROVE  p \in U64 /\ levels[m][p] \in Level /\ levels[m][p].orders \in Seq(OrderId)
    BY DEF BookTyped, IsMap, Level

\* The insertion of an order whose id is new (insertLimitOrder, insertStopOrder,
\* insertTrailingStopOrder) keeps the index right.
LEMMA InsertStill ==
    ASSUME BookTyped, Still, NEW o \in Order, o.id \notin DOMAIN orders,
           levels' = [levels EXCEPT ![MapOf(o)] =
                         Put(@, KeyOf(o), AddOrderToLevel(LevelAt(@, KeyOf(o)), o))],
           orders' = Put(orders, o.id, [order |-> o, level_it |-> KeyOf(o)]),
           updated_levels' = updated_levels
    PROVE  BookTyped' /\ Still'
  <1> DEFINE m == MapOf(o)
             k == KeyOf(o)
             old == LevelAt(levels[m], k)
             new == AddOrderToLevel(old, o)
             entry == [order |-> o, level_it |-> k]
  <1>1. m \in LevelMap /\ k \in U64 /\ o.id \in OrderId /\ entry \in Entry
    BY PlaceTyped DEF LevelMap, Order, Entry
  <1>2. IsMap(levels[m], U64, Level)
    BY <1>1 DEF BookTyped
  <1>3. /\ old \in Level
        /\ IsInjective(old.orders)
        /\ o.id \notin Range(old.orders)
        /\ \A id \in Range(old.orders) :
             /\ id \in DOMAIN orders
             /\ MapOf(orders[id].order) = m
             /\ KeyOf(orders[id].order) = k
    <2>1. CASE k \in DOMAIN levels[m]
      BY <1>1, <2>1, LevelTyped DEF LevelAt, Still, QueuesOK
    <2>2. CASE k \notin DOMAIN levels[m]
      BY <2>2, NewLevelTyped DEF LevelAt, IsInjective, Range
    <2>3. QED
      BY <2>1, <2>2
  <1>4. /\ new \in Level
        /\ IsInjective(new.orders)
        /\ Range(new.orders) = Range(old.orders) \union {o.id}
        /\ new.orders # <<>>
    <2>1. new \in Level /\ new.orders = Append(old.orders, o.id) /\ old.orders \in Seq(OrderId)
      BY <1>3, AddOrderTyped DEF Level
    <2>2. QED
      BY <1>1, <1>3, <2>1, AppendQueue
  <1>5. /\ IsMap(orders', OrderId, Entry)
        /\ DOMAIN orders' = DOMAIN orders \union {o.id}
        /\ orders'[o.id] = entry
        /\ \A id \in DOMAIN orders : orders'[id] = orders[id]
    <2>1. IsMap(orders, OrderId, Entry) /\ orders' = Put(orders, o.id, entry)
      BY DEF BookTyped
    <2> HIDE DEF entry
    <2>2. QED
      BY <1>1, <2>1, PutIsMap DEF Put
  <1>6. levels'[m] = Put(levels[m], k, new) /\ \A n \in LevelMap : n # m => levels'[n] = levels[n]
    BY <1>1 DEF BookTyped
  <1>7. /\ IsMap(levels'[m], U64, Level)
        /\ DOMAIN levels'[m] = DOMAIN levels[m] \union {k}
        /\ levels'[m][k] = new
        /\ \A p \in DOMAIN levels[m] : p # k => levels'[m][p] = levels[m][p]
    <2> HIDE DEF m, k, new
    <2>1. IsMap(Put(levels[m], k, new), U64, Level)
      BY <1>1, <1>2, <1>4, PutIsMap
    <2>2. /\ DOMAIN levels'[m] = DOMAIN levels[m] \union {k}
          /\ levels'[m][k] = new
          /\ \A p \in DOMAIN levels[m] : p # k => levels'[m][p] = levels[m][p]
      BY <1>6 DEF Put
    <2>3. QED
      BY <1>6, <2>1, <2>2
  <1>8. BookTyped'
    BY <1>1, <1>5, <1>6, <1>7 DEF BookTyped
  <1>9. ASSUME NEW n \in LevelMap
        PROVE  (QueuesOK(n, levels[n]) /\ NonEmpty(levels[n]))'
    <2>1. CASE n # m
      BY <1>5, <1>6, <2>1 DEF Still, QueuesOK, NonEmpty
    <2>2. CASE n = m
      <3> SUFFICES ASSUME NEW p \in DOMAIN levels'[m]
                   PROVE  /\ levels'[m][p].orders # <<>>
                          /\ IsInjective(levels'[m][p].orders)
                          /\ \A id \in Range(levels'[m][p].orders) :
                               /\ id \in DOMAIN orders'
                               /\ MapOf(orders'[id].order) = m
                               /\ KeyOf(orders'[id].order) = p
        BY <2>2 DEF QueuesOK, NonEmpty
      <3>1. CASE p = k
        BY <1>3, <1>4, <1>5, <1>7, <3>1
      <3>2. CASE p # k
        BY <1>1, <1>5, <1>7, <3>2 DEF Still, QueuesOK, NonEmpty
      <3>3. QED
        BY <3>1, <3>2
    <2>3. QED
      BY <2>1, <2>2
  <1>10. ASSUME NEW id \in DOMAIN orders'
         PROVE  (Indexed(id) /\ LinkedIn(levels[MapOf(orders[id].order)], id))'
    <2>1. CASE id = o.id
      BY <1>4, <1>5, <1>7, <2>1 DEF Indexed, LinkedIn, Linked
    <2>2. CASE id # o.id
      <3>1. /\ id \in DOMAIN orders
            /\ orders'[id] = orders[id]
            /\ MapOf(orders[id].order) \in LevelMap
            /\ Indexed(id)
            /\ LinkedIn(levels[MapOf(orders[id].order)], id)
        BY <1>5, <2>2, EntryTyped DEF Still
      <3>2. CASE MapOf(orders[id].order) # m
        BY <1>6, <3>1, <3>2 DEF Indexed, LinkedIn, Linked
      <3>3. CASE MapOf(orders[id].order) = m /\ KeyOf(orders[id].order) # k
        BY <1>7, <3>1, <3>3 DEF Indexed, LinkedIn, Linked
      <3>4. CASE MapOf(orders[id].order) = m /\ KeyOf(orders[id].order) = k
        BY <1>4, <1>7, <3>1, <3>4 DEF Indexed, LinkedIn, Linked, LevelAt
      <3>5. QED
        BY <3>2, <3>3, <3>4
    <2>3. QED
      BY <2>1, <2>2
  <1>11. QED
    BY <1>8, <1>9, <1>10 DEF Still

\* What deleteOrder does to the index: the order's node is unlinked, an emptied
\* level erased and the entry dropped, whatever happened to volumes before.
LEMMA RemoveStill ==
    ASSUME BookTyped, Still, NEW id \in DOMAIN orders,
           NEW o \in Order, SamePlace(o, orders[id].order),
           NEW maps, SameQueues(maps),
           levels' = DeleteFrom(maps, o),
           orders' = Drop(orders, id),
           updated_levels' = updated_levels
    PROVE  BookTyped' /\ Still'
  <1> DEFINE m == MapOf(o)
             k == KeyOf(o)
             old == maps[m][k]
             new == DeleteOrderFromLevel(old, o)
  <1>1. /\ m \in LevelMap /\ k \in U64 /\ o.id = id /\ id \in OrderId
        /\ m = MapOf(orders[id].order) /\ k = KeyOf(orders[id].order)
        /\ orders[id].level_it = k
        /\ k \in DOMAIN levels[m] /\ id \in Range(levels[m][k].orders)
    BY EntryTyped, SamePlaceSameLevel, PlaceTyped DEF LevelMap, Still, Indexed, LinkedIn, Linked
  <1>2. IsMap(maps[m], U64, Level) /\ DOMAIN maps[m] = DOMAIN levels[m]
    BY <1>1 DEF SameQueues
  <1>3. /\ old \in Level
        /\ old.orders = levels[m][k].orders
        /\ old.orders \in Seq(OrderId)
        /\ IsInjective(old.orders)
    <2>1. old \in Level /\ old.orders = levels[m][k].orders
      BY <1>1, <1>2 DEF SameQueues, IsMap
    <2>2. IsInjective(levels[m][k].orders)
      BY <1>1 DEF Still, QueuesOK
    <2>3. QED
      BY <2>1, <2>2 DEF Level
  <1>4. /\ new \in Level
        /\ IsInjective(new.orders)
        /\ Range(new.orders) = Range(old.orders) \ {id}
    <2> HIDE DEF old
    <2>1. id \in Range(old.orders)
      BY <1>1, <1>3
    <2>2. new \in Level /\ new.orders = Unlink(old.orders, id)
      BY <1>1, <1>3, <2>1, DeleteOrderTyped
    <2> HIDE DEF new
    <2>3. QED
      BY <1>3, <2>1, <2>2, UnlinkQueue
  <1>5. /\ IsMap(orders', OrderId, Entry)
        /\ DOMAIN orders' = DOMAIN orders \ {id}
        /\ \A i \in DOMAIN orders' : orders'[i] = orders[i]
    <2>1. IsMap(orders', OrderId, Entry)
      BY DropIsMap DEF BookTyped
    <2>2. QED
      BY <2>1 DEF Drop
  <1>6. /\ levels'[m] = WithoutOrder(maps[m], k, o)
        /\ \A n \in LevelMap : n # m => levels'[n] = maps[n]
        /\ levels' = [n \in LevelMap |-> levels'[n]]
    BY <1>1 DEF SameQueues, DeleteFrom
  <1>7. /\ IsMap(levels'[m], U64, Level)
        /\ DOMAIN levels'[m] = IF new.orders = <<>> THEN DOMAIN maps[m] \ {k} ELSE DOMAIN maps[m]
        /\ new.orders # <<>> => levels'[m][k] = new
        /\ \A p \in DOMAIN levels'[m] : p # k => levels'[m][p] = maps[m][p]
    <2>1. CASE new.orders = <<>>
      <3>1. levels'[m] = Drop(maps[m], k)
        BY <1>6, <2>1 DEF WithoutOrder
      <3> HIDE DEF m, k, new
      <3>2. IsMap(Drop(maps[m], k), U64, Level)
        BY <1>2, DropIsMap
      <3>3. QED
        BY <2>1, <3>1, <3>2 DEF Drop
    <2>2. CASE new.orders # <<>>
      <3>1. levels'[m] = Put(maps[m], k, new)
        BY <1>6, <2>2 DEF WithoutOrder
      <3> HIDE DEF m, k, new
      <3>2. IsMap(Put(maps[m], k, new), U64, Level)
        BY <1>1, <1>2, <1>4, PutIsMap
      <3>3. QED
        BY <1>1, <1>2, <2>2, <3>1, <3>2 DEF Put
    <2>3. QED
      BY <2>1, <2>2
  <1>8. BookTyped'
    BY <1>1, <1>5, <1>6, <1>7 DEF BookTyped, SameQueues
  <1>9. ASSUME NEW n \in LevelMap
        PROVE  (QueuesOK(n, levels[n]) /\ NonEmpty(levels[n]))'
    <2> SUFFICES ASSUME NEW p \in DOMAIN levels'[n]
                 PROVE  /\ levels'[n][p].orders # <<>>
                        /\ IsInjective(levels'[n][p].orders)
                        /\ \A i \in Range(levels'[n][p].orders) :
                             /\ i \in DOMAIN orders'
                             /\ MapOf(orders'[i].order) = n
                             /\ KeyOf(orders'[i].order) = p
      BY DEF QueuesOK, NonEmpty
    <2>1. CASE n = m /\ p = k
      <3>1. new.orders # <<>> /\ levels'[n][p] = new
        BY <1>1, <1>2, <1>7, <2>1
      <3>2. \A i \in Range(new.orders) :
              i \in DOMAIN orders' /\ MapOf(orders'[i].order) = m /\ KeyOf(orders'[i].order) = k
        <4>1. \A i \in Range(levels[m][k].orders) :
                i \in DOMAIN orders /\ MapOf(orders[i].order) = m /\ KeyOf(orders[i].order) = k
          BY <1>1 DEF Still, QueuesOK
        <4>2. Range(new.orders) = Range(levels[m][k].orders) \ {id}
          BY <1>3, <1>4
        <4> HIDE DEF m, k, new, old
        <4>3. QED
          BY <1>5, <4>1, <4>2
      <3>3. QED
        BY <1>4, <2>1, <3>1, <3>2
    <2>2. CASE ~(n = m /\ p = k)
      <3>1. p \in DOMAIN levels[n] /\ levels'[n][p].orders = levels[n][p].orders
        BY <1>1, <1>2, <1>6, <1>7, <2>2 DEF SameQueues
      <3>2. id \notin Range(levels[n][p].orders)
        BY <1>1, <2>2, <3>1 DEF Still, QueuesOK
      <3>3. QED
        BY <1>5, <3>1, <3>2 DEF Still, QueuesOK, NonEmpty
    <2>3. QED
      BY <2>1, <2>2
  <1>10. ASSUME NEW i \in DOMAIN orders'
         PROVE  (Indexed(i) /\ LinkedIn(levels[MapOf(orders[i].order)], i))'
    <2>1. /\ i \in DOMAIN orders /\ i # id
          /\ orders'[i] = orders[i]
          /\ MapOf(orders[i].order) \in LevelMap
          /\ Indexed(i)
          /\ LinkedIn(levels[MapOf(orders[i].order)], i)
      BY <1>5, EntryTyped DEF Still
    <2>2. CASE MapOf(orders[i].order) # m
      BY <1>6, <2>1, <2>2 DEF Indexed, LinkedIn, Linked, SameQueues
    <2>3. CASE MapOf(orders[i].order) = m /\ KeyOf(orders[i].order) # k
      BY <1>1, <1>2, <1>7, <2>1, <2>3 DEF Indexed, LinkedIn, Linked, SameQueues
    <2>4. CASE MapOf(orders[i].order) = m /\ KeyOf(orders[i].order) = k
      <3>1. i \in Range(new.orders)
        BY <1>3, <1>4, <2>1, <2>4 DEF LinkedIn, Linked
      <3>2. new.orders # <<>>
        BY <3>1 DEF Range
      <3>3. QED
        BY <1>1, <1>2, <1>7, <2>1, <2>4, <3>1, <3>2 DEF Indexed, LinkedIn, Linked
    <2>5. QED
      BY <2>2, <2>3, <2>4
  <1>11. QED
    BY <1>8, <1>9, <1>10 DEF Still

\* A change of volumes and of the quantities of one order keeps the index right.
LEMMA ChangeStill ==
    ASSUME BookTyped, Still, NEW id \in DOMAIN orders,
           NEW o \in Order, SamePlace(o, orders[id].order),
           NEW maps, SameQueues(maps),
           levels' = maps,
           orders' = [orders EXCEPT ![id].order = o],
           updated_levels' = updated_levels
    PROVE  BookTyped' /\ Still'
  <1>1. /\ o.id = orders[id].order.id
        /\ MapOf(o) = MapOf(orders[id].order)
        /\ KeyOf(o) = KeyOf(orders[id].order)
    BY SamePlaceSameLevel
  <1>2. /\ DOMAIN orders' = DOMAIN orders
        /\ orders'[id].order = o
        /\ orders'[id].level_it = orders[id].level_it
        /\ \A i \in DOMAIN orders : i # id => orders'[i] = orders[i]
    BY EntryTyped DEF BookTyped, IsMap, Entry
  <1>3. \A i \in DOMAIN orders :
           /\ orders'[i].order.id = orders[i].order.id
           /\ MapOf(orders'[i].order) = MapOf(orders[i].order)
           /\ KeyOf(orders'[i].order) = KeyOf(orders[i].order)
           /\ orders'[i].level_it = orders[i].level_it
    BY <1>1, <1>2
  <1>4. IsMap(orders', OrderId, Entry)
    <2>1. IsMap(orders, OrderId, Entry)
      BY DEF BookTyped
    <2>2. [orders[id] EXCEPT !.order = o] \in Entry
      BY <2>1 DEF IsMap, Entry
    <2>3. QED
      BY <2>1, <2>2 DEF IsMap
  <1>5. BookTyped'
    BY <1>4 DEF BookTyped, SameQueues
  <1>6. ASSUME NEW n \in LevelMap
        PROVE  (QueuesOK(n, levels[n]) /\ NonEmpty(levels[n]))'
    BY <1>2, <1>3 DEF Still, QueuesOK, NonEmpty, SameQueues
  <1>7. ASSUME NEW i \in DOMAIN orders'
        PROVE  (Indexed(i) /\ LinkedIn(levels[MapOf(orders[i].order)], i))'
    <2>1. /\ i \in DOMAIN orders
          /\ MapOf(orders[i].order) \in LevelMap
          /\ Indexed(i)
          /\ LinkedIn(levels[MapOf(orders[i].order)], i)
      BY <1>2, EntryTyped DEF Still
    <2>2. QED
      BY <1>3, <2>1 DEF Indexed, LinkedIn, Linked, SameQueues
  <1>8. QED
    BY <1>5, <1>6, <1>7 DEF Still

\* reduceVolume leaves every queue alone.
LEMMA ReducedLevels ==
    ASSUME BookTyped, NEW m \in LevelMap, NEW p \in DOMAIN levels[m], NEW amount \in U64
    PROVE  SameQueues([levels EXCEPT ![m][p] = ReduceVolume(@, amount)])
  <1> DEFINE new == ReduceVolume(levels[m][p], amount)
             maps == [levels EXCEPT ![m][p] = new]
  <1>1. new \in Level /\ new.orders = levels[m][p].orders
    BY LevelTyped, ReduceVolumeTyped
  <1> HIDE DEF new
  <1>2. /\ maps = [n \in LevelMap |-> maps[n]]
        /\ maps[m] = [levels[m] EXCEPT ![p] = new]
        /\ \A n \in LevelMap : n # m => maps[n] = levels[n]
    BY DEF BookTyped
  <1>3. /\ IsMap(maps[m], U64, Level)
        /\ DOMAIN maps[m] = DOMAIN levels[m]
        /\ \A q \in DOMAIN levels[m] : maps[m][q].orders = levels[m][q].orders
    BY <1>1, <1>2 DEF BookTyped, IsMap
  <1>4. SameQueues(maps)
    BY <1>2, <1>3 DEF SameQueues, BookTyped
  <1>5. QED
    BY <1>4 DEF new

-----------------------------------------------------------------------------
(* Trailing stops                                                          *)

\* calculateStopPrice changes nothing but the stop price, which stays in uint64_t.
LEMMA CalculateStopPriceTyped ==
    ASSUME last_traded_price \in U64, NEW o \in Order
    PROVE  /\ CalculateStopPrice(o) \in Order
           /\ CalculateStopPrice(o).id = o.id
           /\ Kind(CalculateStopPrice(o)) = Kind(o)
           /\ MapOf(CalculateStopPrice(o)) = MapOf(o)
  <1>1. MarketPrice(o.side) \in U64
    BY MaxU64Assumption DEF MarketPrice, U64
  <1>2. PICK stop \in U64 : CalculateStopPrice(o) = [o EXCEPT !.stop = stop]
    <2> DEFINE market == MarketPrice(o.side)
               stop == IF o.side = "SELL"
                       THEN IF o.trail < market THEN market - o.trail ELSE 0
                       ELSE IF market < MaxU64 - o.trail THEN market + o.trail ELSE MaxU64
    <2>1. o.trail \in U64
      BY DEF Order
    <2>2. stop \in U64
      BY <1>1, <2>1, MaxU64Assumption DEF U64
    <2>3. CalculateStopPrice(o) = [o EXCEPT !.stop = stop]
      BY DEF CalculateStopPrice
    <2>4. QED
      BY <2>2, <2>3
  <1>3. QED
    BY <1>2 DEF Order, Kind, MapOf

\* A map whose trailing stops are about to be moved is a special case of one whose
\* trailing stops are being moved.
LEMMA StillUnderway ==
    ASSUME Still, stack # <<>>, Top.pc = "update", Favourable(Top.side), Top.side \in Side
    PROVE  Underway
  <1>1. DOMAIN updated_levels = {}
    BY EmptyMapIsMap DEF Still
  <1>2. QED
    BY <1>1 DEF Still, Underway, QueuesOK, NonEmpty, LinkedIn, Linked

\* One iteration of updateTrailingBuyStopOrders or updateTrailingSellStopOrders:
\* the order leaves one map and enters the other.
LEMMA MoveUnderway ==
    ASSUME BookTyped, last_traded_price \in U64, Underway, Top.side \in Side, MoveTrailingStop
    PROVE  BookTyped' /\ Underway'
  <1> DEFINE m == <<"trailing", Top.side>>
  <1>1. PICK p \in DOMAIN levels[m] :
          LET o == orders[Head(levels[m][p].orders)].order
              s == CalculateStopPrice(o)
          IN  /\ levels[m][p].orders # <<>>
              /\ levels' = [levels EXCEPT ![m][p] = PopFront(@, s)]
              /\ updated_levels' = Put(updated_levels, s.stop,
                     AddOrderToLevel(LevelAt(updated_levels, s.stop), s))
              /\ orders' = [orders EXCEPT ![o.id] = [order |-> s, level_it |-> s.stop]]
    BY Zenon DEF MoveTrailingStop
  <1> DEFINE id == Head(levels[m][p].orders)
             o == orders[id].order
             s == CalculateStopPrice(o)
             k == s.stop
             entry == [order |-> s, level_it |-> k]
             left == PopFront(levels[m][p], s)
             old == LevelAt(updated_levels, k)
             new == AddOrderToLevel(old, s)
  <1>0. /\ \A n \in LevelMap : QueuesOK(n, levels[n]) /\ (n # m => NonEmpty(levels[n]))
        /\ QueuesOK(m, updated_levels)
        /\ NonEmpty(updated_levels)
    BY DEF Underway
  <1>2. /\ m \in LevelMap
        /\ levels[m][p] \in Level
        /\ levels[m][p].orders \in Seq(OrderId)
        /\ levels[m][p].orders # <<>>
        /\ IsInjective(levels[m][p].orders)
    BY <1>1, LevelTyped, Zenon DEF LevelMap, Underway, QueuesOK
  <1>3. id \in Range(levels[m][p].orders)
    BY <1>2, TailQueue
  <1>4. /\ id \in DOMAIN orders /\ o = orders[id].order /\ o \in Order /\ o.id = id
        /\ MapOf(o) = m /\ KeyOf(o) = p /\ id \in OrderId
    <2>1. id \in DOMAIN orders /\ MapOf(o) = m /\ KeyOf(o) = p
      <3>1. QueuesOK(m, levels[m])
        BY <1>0, <1>2
      <3> HIDE DEF m, id
      <3>2. QED
        BY <1>3, <3>1 DEF QueuesOK
    <2>2. id \in OrderId /\ o \in Order
      BY <2>1, EntryTyped
    <2>3. o.id = id
      BY <2>1 DEF Underway, Indexed
    <2>4. QED
      BY <2>1, <2>2, <2>3
  <1>5. /\ s \in Order /\ s.id = id /\ MapOf(s) = m /\ k \in U64 /\ KeyOf(s) = k
    <2>1. s \in Order /\ s.id = id /\ MapOf(s) = m /\ Kind(s) = Kind(o)
      BY <1>4, CalculateStopPriceTyped
    <2>2. Kind(o) = "trailing"
      BY <1>4 DEF MapOf
    <2>3. QED
      BY <2>1, <2>2, Zenon DEF KeyOf, Order
  <1>6. /\ left \in Level
        /\ IsInjective(left.orders)
        /\ Range(left.orders) = Range(levels[m][p].orders) \ {id}
    BY <1>2, <1>5, PopFrontTyped, TailQueue, Zenon
  <1>7. ~LinkedIn(updated_levels, id) /\ \A q \in DOMAIN updated_levels : id \notin Range(updated_levels[q].orders)
    BY <1>3, <1>4 DEF Underway, QueuesOK, LinkedIn, Linked
  <1>8. /\ old \in Level
        /\ IsInjective(old.orders)
        /\ id \notin Range(old.orders)
        /\ \A i \in Range(old.orders) :
             i \in DOMAIN orders /\ MapOf(orders[i].order) = m /\ KeyOf(orders[i].order) = k
        /\ Range(old.orders) = IF k \in DOMAIN updated_levels THEN Range(updated_levels[k].orders) ELSE {}
    <2>1. CASE k \in DOMAIN updated_levels
      <3>1. old = updated_levels[k]
        BY <2>1 DEF LevelAt
      <3>2. old \in Level /\ id \notin Range(old.orders)
        BY <1>7, <2>1, <3>1, Zenon DEF BookTyped, IsMap
      <3> HIDE DEF m, id, k, old
      <3>3. QED
        BY <1>0, <2>1, <3>1, <3>2 DEF QueuesOK
    <2>2. CASE k \notin DOMAIN updated_levels
      BY <2>2, NewLevelTyped, EmptyQueue, Zenon DEF LevelAt
    <2>3. QED
      BY <2>1, <2>2, Zenon
  <1>9. /\ new \in Level
        /\ IsInjective(new.orders)
        /\ Range(new.orders) = Range(old.orders) \union {id}
        /\ new.orders # <<>>
    <2>1. new \in Level /\ new.orders = Append(old.orders, id) /\ old.orders \in Seq(OrderId)
      BY <1>5, <1>8, AddOrderTyped, Zenon DEF Level
    <2>2. QED
      BY <1>4, <1>8, <2>1, AppendQueue, Zenon
  <1>10. /\ orders' = [orders EXCEPT ![id] = entry]
         /\ levels' = [levels EXCEPT ![m][p] = left]
         /\ updated_levels' = Put(updated_levels, k, new)
    BY <1>1, <1>4, Zenon
  <1>11. entry \in Entry /\ entry.order = s /\ entry.level_it = k
    BY <1>5 DEF Entry
  <1> HIDE DEF id, o, s, k, entry, left, old, new
  <1>12. /\ IsMap(orders', OrderId, Entry)
         /\ DOMAIN orders' = DOMAIN orders
         /\ orders'[id] = entry
         /\ \A i \in DOMAIN orders : i # id => orders'[i] = orders[i]
    BY <1>4, <1>10, <1>11 DEF BookTyped, IsMap
  <1>13. /\ levels' = [n \in LevelMap |-> levels'[n]]
         /\ levels'[m] = [levels[m] EXCEPT ![p] = left]
         /\ \A n \in LevelMap : n # m => levels'[n] = levels[n]
    BY <1>2, <1>10 DEF BookTyped
  <1>14. /\ IsMap(levels'[m], U64, Level)
         /\ DOMAIN levels'[m] = DOMAIN levels[m]
         /\ levels'[m][p] = left
         /\ \A q \in DOMAIN levels[m] : q # p => levels'[m][q] = levels[m][q]
    <2>1. IsMap(levels[m], U64, Level)
      BY <1>2 DEF BookTyped
    <2> HIDE DEF m
    <2>2. QED
      BY <1>6, <1>13, <2>1 DEF IsMap
  <1>15. /\ IsMap(updated_levels', U64, Level)
         /\ DOMAIN updated_levels' = DOMAIN updated_levels \union {k}
         /\ updated_levels'[k] = new
         /\ \A q \in DOMAIN updated_levels : q # k => updated_levels'[q] = updated_levels[q]
    <2>1. IsMap(Put(updated_levels, k, new), U64, Level)
      BY <1>5, <1>9, PutIsMap DEF BookTyped
    <2>2. QED
      BY <1>10, <2>1 DEF Put
  <1>16. BookTyped'
    BY <1>2, <1>12, <1>13, <1>14, <1>15 DEF BookTyped
  <1>17. stack' = stack /\ Top' = Top /\ Top.pc = "update" /\ stack # <<>> /\ Favourable(Top.side)'
    BY <1>14, Zenon DEF MoveTrailingStop, Underway, Favourable, prices, Top, MarketPrice
  <1>18. ASSUME NEW n \in LevelMap
         PROVE  (QueuesOK(n, levels[n]) /\ (n # m => NonEmpty(levels[n])))'
    <2>1. CASE n # m
      <3>1. levels'[n] = levels[n] /\ QueuesOK(n, levels[n]) /\ NonEmpty(levels[n])
        BY <1>0, <1>13, <2>1
      <3>2. \A q \in DOMAIN levels[n] : id \notin Range(levels[n][q].orders)
        BY <1>4, <2>1, <3>1 DEF QueuesOK
      <3> HIDE DEF m
      <3>3. QueuesOK(n, levels[n])'
        BY <1>12, <3>1, <3>2 DEF QueuesOK
      <3>4. NonEmpty(levels[n])'
        BY <3>1 DEF NonEmpty
      <3>5. QED
        BY <3>3, <3>4
    <2>2. CASE n = m
      <3> SUFFICES ASSUME NEW q \in DOMAIN levels[m]
                   PROVE  /\ IsInjective(levels'[m][q].orders)
                          /\ \A i \in Range(levels'[m][q].orders) :
                               /\ i \in DOMAIN orders'
                               /\ MapOf(orders'[i].order) = m
                               /\ KeyOf(orders'[i].order) = q
        BY <1>14, <1>17, <2>2 DEF QueuesOK
      <3>1. CASE q = p
        <4>1. levels'[m][q] = left
          BY <1>14, <3>1
        <4>2. \A i \in Range(levels[m][p].orders) :
                i \in DOMAIN orders /\ MapOf(orders[i].order) = m /\ KeyOf(orders[i].order) = p
          BY <1>0, <1>2 DEF QueuesOK
        <4> HIDE DEF m
        <4>3. QED
          BY <1>6, <1>12, <3>1, <4>1, <4>2
      <3>2. CASE q # p
        <4>1. levels'[m][q] = levels[m][q] /\ QueuesOK(m, levels[m])
          BY <1>0, <1>2, <1>14, <3>2
        <4>2. id \notin Range(levels[m][q].orders)
          BY <1>4, <3>2, <4>1 DEF QueuesOK
        <4> HIDE DEF m
        <4>3. QED
          BY <1>12, <4>1, <4>2 DEF QueuesOK
      <3>3. QED
        BY <3>1, <3>2
    <2>3. QED
      BY <2>1, <2>2
  <1>19. (QueuesOK(m, updated_levels) /\ NonEmpty(updated_levels))'
    <2> SUFFICES ASSUME NEW q \in DOMAIN updated_levels'
                 PROVE  /\ updated_levels'[q].orders # <<>>
                        /\ IsInjective(updated_levels'[q].orders)
                        /\ \A i \in Range(updated_levels'[q].orders) :
                             /\ i \in DOMAIN orders'
                             /\ MapOf(orders'[i].order) = m
                             /\ KeyOf(orders'[i].order) = q
      BY <1>17 DEF QueuesOK, NonEmpty
    <2>1. CASE q = k
      BY <1>4, <1>5, <1>8, <1>9, <1>11, <1>12, <1>15, <2>1
    <2>2. CASE q # k
      <3>1. q \in DOMAIN updated_levels /\ updated_levels'[q] = updated_levels[q]
        BY <1>15, <2>2
      <3>2. id \notin Range(updated_levels[q].orders)
        BY <1>7, <3>1
      <3> HIDE DEF m
      <3>3. QED
        BY <1>0, <1>12, <3>1, <3>2 DEF QueuesOK, NonEmpty
    <2>3. QED
      BY <2>1, <2>2
  <1>20. ASSUME NEW i \in DOMAIN orders'
         PROVE  (/\ Indexed(i)
                 /\ \/ LinkedIn(levels[MapOf(orders[i].order)], i)
                    \/ MapOf(orders[i].order) = m /\ LinkedIn(updated_levels, i)
                 /\ ~(LinkedIn(levels[m], i) /\ LinkedIn(updated_levels, i)))'
    <2>1. CASE i = id
      <3>1. Indexed(i)' /\ MapOf(orders'[i].order) = m /\ KeyOf(orders'[i].order) = k
        BY <1>5, <1>11, <1>12, <2>1 DEF Indexed
      <3>2. LinkedIn(updated_levels, i)'
        BY <1>9, <1>15, <2>1, <3>1 DEF LinkedIn, Linked
      <3>3. ~LinkedIn(levels[m], i)'
        <4> SUFFICES ASSUME k \in DOMAIN levels'[m], id \in Range(levels'[m][k].orders)
                     PROVE  FALSE
          BY <1>17, <2>1, <3>1 DEF LinkedIn, Linked
        <4>1. CASE k = p
          BY <1>6, <1>14, <4>1
        <4>2. CASE k # p
          <5>1. k \in DOMAIN levels[m] /\ id \in Range(levels[m][k].orders)
            BY <1>14, <4>2
          <5>2. QED
            BY <1>0, <1>2, <1>4, <4>2, <5>1 DEF QueuesOK
        <4>3. QED
          BY <4>1, <4>2
      <3>4. QED
        BY <1>17, <3>1, <3>2, <3>3
    <2>2. CASE i # id
      <3>1. /\ i \in DOMAIN orders
            /\ orders'[i] = orders[i]
            /\ MapOf(orders[i].order) \in LevelMap
            /\ Indexed(i)
            /\ \/ LinkedIn(levels[MapOf(orders[i].order)], i)
               \/ MapOf(orders[i].order) = m /\ LinkedIn(updated_levels, i)
            /\ ~(LinkedIn(levels[m], i) /\ LinkedIn(updated_levels, i))
        BY <1>12, <2>2, EntryTyped DEF Underway
      <3>2. \A n \in LevelMap : LinkedIn(levels[n], i) <=> LinkedIn(levels[n], i)'
        <4> SUFFICES ASSUME NEW n \in LevelMap
                     PROVE  LinkedIn(levels[n], i) <=> LinkedIn(levels[n], i)'
          OBVIOUS
        <4>1. CASE n # m
          BY <1>13, <3>1, <4>1 DEF LinkedIn, Linked
        <4>2. CASE n = m /\ KeyOf(orders[i].order) # p
          BY <1>14, <3>1, <4>2 DEF LinkedIn, Linked
        <4>3. CASE n = m /\ KeyOf(orders[i].order) = p
          <5>1. i \in Range(left.orders) <=> i \in Range(levels[m][p].orders)
            BY <1>6, <2>2
          <5>2. QED
            BY <1>14, <3>1, <4>3, <5>1 DEF LinkedIn, Linked
        <4>4. QED
          BY <4>1, <4>2, <4>3
      <3>3. LinkedIn(updated_levels, i) <=> LinkedIn(updated_levels, i)'
        <4>1. CASE KeyOf(orders[i].order) # k
          BY <1>15, <3>1, <4>1 DEF LinkedIn, Linked
        <4>2. CASE KeyOf(orders[i].order) = k /\ k \in DOMAIN updated_levels
          BY <1>8, <1>9, <1>15, <2>2, <3>1, <4>2 DEF LinkedIn, Linked
        <4>3. CASE KeyOf(orders[i].order) = k /\ k \notin DOMAIN updated_levels
          BY <1>8, <1>9, <1>15, <2>2, <3>1, <4>3 DEF LinkedIn, Linked
        <4>4. QED
          BY <4>1, <4>2, <4>3
      <3>4. QED
        BY <1>2, <1>17, <3>1, <3>2, <3>3 DEF Indexed
    <2>3. QED
      BY <2>1, <2>2
  <1>21. QED
    BY <1>16, <1>17, <1>18, <1>19, <1>20 DEF Underway

\* std::swap of the emptied map and the temporary one settles the index again.
LEMMA SwapStill ==
    ASSUME BookTyped, Underway, Top.side \in Side, SwapTrailingLevels
    PROVE  BookTyped' /\ Still'
  <1> DEFINE m == <<"trailing", Top.side>>
  <1>1. /\ m \in LevelMap
        /\ \A p \in DOMAIN levels[m] : levels[m][p].orders = <<>>
        /\ levels' = [levels EXCEPT ![m] = updated_levels]
        /\ updated_levels' = EmptyMap
        /\ orders' = orders
    BY DEF SwapTrailingLevels, LevelMap
  <1>2. levels'[m] = updated_levels /\ \A n \in LevelMap : n # m => levels'[n] = levels[n]
    BY <1>1 DEF BookTyped
  <1>3. BookTyped'
    BY <1>1, <1>2, EmptyMapIsMap DEF BookTyped
  <1>4. \A id \in DOMAIN orders : ~LinkedIn(levels[m], id)
    BY <1>1 DEF LinkedIn, Linked, Range
  <1>5. \A n \in LevelMap : (QueuesOK(n, levels[n]) /\ NonEmpty(levels[n]))'
    BY <1>1, <1>2 DEF Underway, QueuesOK, NonEmpty
  <1>6. \A id \in DOMAIN orders' : (Indexed(id) /\ LinkedIn(levels[MapOf(orders[id].order)], id))'
    BY <1>1, <1>2, <1>4, EntryTyped DEF Underway, Indexed, LinkedIn, Linked
  <1>7. QED
    BY <1>1, <1>3, <1>5, <1>6 DEF Still

-----------------------------------------------------------------------------
(* The invariant and the steps of the calls                                *)

\* A stack the calls can leave behind.
GoodStack(s) == s \in Seq(Frame) /\ (s # <<>> => Tail(s) \in Seq(Busy))

\* What TypeOK says of the rest of the state.
ControlTyped ==
    /\ last_traded_price \in U64
    /\ trailing_buy_price \in U64
    /\ trailing_sell_price \in U64
    /\ emitted \in Seq(Event)
    /\ aborted \in BOOLEAN

\* The invariant in the parts that the steps of the proof deal with.
LEMMA Parts ==
    IndexInv <=> BookTyped /\ ControlTyped /\ GoodStack(stack) /\ (Still \/ Underway)
    BY DEF IndexInv, TypeOK, BookTyped, ControlTyped, StackShape, GoodStack

\* The same of the next state.
LEMMA PartsPrime ==
    IndexInv' <=> BookTyped' /\ ControlTyped' /\ GoodStack(stack') /\ (Still' \/ Underway')
    BY DEF IndexInv, TypeOK, BookTyped, ControlTyped, StackShape, GoodStack

-----------------------------------------------------------------------------
(* Frames and stacks                                                       *)

\* What the innermost call holds.
LEMMA TopTyped ==
    ASSUME GoodStack(stack), stack # <<>>
    PROVE  /\ Top \in Frame
           /\ Tail(stack) \in Seq(Busy)
           /\ Top.pc \in {"add", "check", "match", "reissue"} => Top \in OrderFrame
           /\ Top.pc = "scan" => Top \in ScanFrame
           /\ Top.pc = "update" => Top \in UpdateFrame
  <1>1. Top \in Frame /\ Tail(stack) \in Seq(Busy)
    BY DEF GoodStack, Top
  <1>2. QED
    BY <1>1 DEF Frame, OrderFrame, BeginFrame, ScanFrame, UpdateFrame

\* Calls that move no trailing stops make a good stack.
LEMMA BusyStack ==
    ASSUME NEW s \in Seq(Busy)
    PROVE  GoodStack(s)
  <1>1. s \in Seq(Frame)
    BY DEF Busy
  <1>2. s # <<>> => Tail(s) \in Seq(Busy)
    OBVIOUS
  <1>3. QED
    BY <1>1, <1>2 DEF GoodStack

\* Any call may be the innermost one.
LEMMA PushFrame ==
    ASSUME NEW s \in Seq(Busy), NEW f \in Frame
    PROVE  GoodStack(<<f>> \o s)
  <1>1. s \in Seq(Frame)
    BY DEF Busy
  <1>2. <<f>> \o s \in Seq(Frame) /\ Tail(<<f>> \o s) = s
    BY <1>1
  <1>3. QED
    BY <1>2 DEF GoodStack

\* Calls that move no trailing stops may be put under and over one another.
LEMMA PushBusy ==
    ASSUME NEW s \in Seq(Busy), NEW f \in Busy, NEW g \in Busy
    PROVE  <<f>> \o s \in Seq(Busy) /\ <<f, g>> \o s \in Seq(Busy)
    OBVIOUS

\* Calls that carry an order, and calls of activateStopOrders, are frames.
LEMMA FramesTyped ==
    ASSUME NEW o \in Order
    PROVE  /\ BeginActivation \in Busy
           /\ AddFrame(o) \in Busy
           /\ MatchFrame(o) \in Busy
           /\ [pc |-> "reissue", order |-> o, available |-> 0] \in Busy
  <1>1. 0 \in U64
    BY MaxU64Assumption DEF U64
  <1>2. Priced(o) \in Order
    BY PricedTyped
  <1>3. QED
    BY <1>1, <1>2 DEF Busy, Frame, OrderFrame, BeginFrame, BeginActivation, AddFrame, MatchFrame

\* Market prices are prices.
LEMMA MarketPriceTyped ==
    ASSUME last_traded_price \in U64, NEW side \in Side
    PROVE  MarketPrice(side) \in U64
    BY MaxU64Assumption DEF MarketPrice, U64

\* Calls that scan or update stop orders are frames; those that scan are busy.
LEMMA ScansTyped ==
    ASSUME last_traded_price \in U64, NEW side \in Side, NEW activated \in BOOLEAN
    PROVE  /\ Scan("stop", side, activated) \in Busy
           /\ Scan("trailing", side, activated) \in Busy
           /\ Update(side, activated) \in Frame
    BY MarketPriceTyped DEF Scan, Update, Busy, Frame, ScanFrame, UpdateFrame

\* Short sequences.
LEMMA ShortSeq ==
    ASSUME NEW S, NEW x \in S, NEW y \in S
    PROVE  <<x>> \in Seq(S) /\ <<x, y>> \in Seq(S) /\ <<>> \in Seq(S)
    OBVIOUS

\* The events of the code carry orders.
LEMMA EventsTyped ==
    ASSUME NEW o \in Order
    PROVE  Added(o) \in Event /\ Deleted(o) \in Event /\ Updated(o) \in Event /\ Executed(o) \in Event
    BY DEF Event, Added, Deleted, Updated, Executed

-----------------------------------------------------------------------------
(* The four ways a call changes the state.                                 *)

\* Of the steps of the calls only those of updateTrailingBuyStopOrders and
\* updateTrailingSellStopOrders find the index half moved.
LEMMA StillAt ==
    ASSUME IndexInv, Idle \/ Top.pc # "update"
    PROVE  Still
    BY DEF IndexInv, Underway, Idle

\* A step that leaves the book alone.
LEMMA KeepStep ==
    ASSUME IndexInv, Still, UNCHANGED book, GoodStack(stack'), ControlTyped'
    PROVE  IndexInv'
  <1>1. BookTyped'
    BY Parts DEF BookTyped, book
  <1>2. Still'
    BY DEF Still, QueuesOK, NonEmpty, Indexed, LinkedIn, Linked, book
  <1>3. QED
    BY <1>1, <1>2, PartsPrime

\* A failed assertion changes nothing; neither does a stuttering step.
LEMMA AbortStep ==
    ASSUME IndexInv, UNCHANGED <<book, prices, stack, emitted>>, aborted' \in BOOLEAN
    PROVE  IndexInv'
  <1>1. BookTyped' /\ ControlTyped' /\ GoodStack(stack')
    BY Parts DEF BookTyped, ControlTyped, book, prices
  <1>2. CASE Still
    BY <1>2, <1>1, KeepStep
  <1>3. CASE Underway
    <2>1. /\ Top' = Top /\ stack' = stack
          /\ orders' = orders /\ levels' = levels /\ updated_levels' = updated_levels
          /\ Favourable(Top.side)' <=> Favourable(Top.side)
      BY DEF book, prices, Top, Favourable, MarketPrice
    <2>2. Underway'
      BY <1>3, <2>1 DEF Underway, QueuesOK, NonEmpty, Indexed, LinkedIn, Linked
    <2>3. QED
      BY <1>1, <2>2, PartsPrime
  <1>4. QED
    BY <1>2, <1>3 DEF IndexInv

\* A step that inserts an order, or fails to.
LEMMA InsertStep ==
    ASSUME IndexInv, Still, NEW o \in Order, NEW frames, NEW events \in Seq(Event),
           frames \o Tail(stack) \in Seq(Busy),
           Insert(o, frames, events)
    PROVE  IndexInv'
  <1>1. CASE Abort
    BY <1>1, AbortStep DEF Abort
  <1>2. CASE /\ o.id \notin DOMAIN orders
             /\ levels' = [levels EXCEPT ![MapOf(o)] =
                    Put(@, KeyOf(o), AddOrderToLevel(LevelAt(@, KeyOf(o)), o))]
             /\ orders' = Put(orders, o.id, [order |-> o, level_it |-> KeyOf(o)])
             /\ Proceed(frames)
             /\ emitted' = events
             /\ UNCHANGED <<updated_levels, prices, aborted>>
    <2>1. BookTyped' /\ Still'
      BY <1>2, Parts, InsertStill
    <2>2. GoodStack(stack')
      BY <1>2, BusyStack DEF Proceed
    <2>3. ControlTyped'
      BY <1>2, Parts DEF ControlTyped, prices
    <2>4. QED
      BY <2>1, <2>2, <2>3, PartsPrime
  <1>3. QED
    BY <1>1, <1>2 DEF Insert

\* A step that deletes an order.
LEMMA DeleteStep ==
    ASSUME IndexInv, Still, NEW id \in DOMAIN orders, NEW frames \in Seq(Busy),
           Delete(id, frames)
    PROVE  IndexInv'
  <1> DEFINE o == orders[id].order
  <1>1. BookTyped /\ ControlTyped
    BY Parts
  <1>2. o \in Order /\ SamePlace(o, orders[id].order)
    BY <1>1, EntryTyped DEF SamePlace
  <1>3. SameQueues(levels)
    BY <1>1 DEF BookTyped, SameQueues
  <1>4. BookTyped' /\ Still'
    BY <1>1, <1>2, <1>3, RemoveStill DEF Delete
  <1>5. GoodStack(stack')
    <2>1. stack' = <<BeginActivation>> \o frames
      BY DEF Delete
    <2>2. BeginActivation \in Busy
      BY <1>2, FramesTyped
    <2>3. stack' \in Seq(Busy)
      BY <2>1, <2>2, PushBusy
    <2>4. QED
      BY <2>3, BusyStack
  <1>6. ControlTyped'
    BY <1>1, <1>2, EventsTyped DEF Delete, ControlTyped, prices
  <1>7. QED
    BY <1>4, <1>5, <1>6, PartsPrime

\* A step that changes the open quantity of a resting order.
LEMMA SettleStep ==
    ASSUME IndexInv, Still, NEW o \in Order, o.id \in DOMAIN orders,
           SamePlace(o, orders[o.id].order),
           NEW p, p \in DOMAIN levels[MapOf(o)], NEW amount \in U64,
           NEW events \in Seq(Event), NEW frames \in Seq(Busy),
           Settle(o, p, amount, events, frames),
           last_traded_price' \in U64, trailing_buy_price' \in U64,
           trailing_sell_price' \in U64, updated_levels' = updated_levels, aborted' = aborted
    PROVE  IndexInv'
  <1> DEFINE reduced == [levels EXCEPT ![MapOf(o)][p] = ReduceVolume(@, amount)]
  <1>1. BookTyped /\ ControlTyped
    BY Parts
  <1>2. MapOf(o) \in LevelMap
    BY PlaceTyped DEF LevelMap
  <1>3. SameQueues(reduced)
    BY <1>1, <1>2, ReducedLevels
  <1> HIDE DEF reduced
  <1>4. \/ /\ levels' = DeleteFrom(reduced, o)
           /\ orders' = Drop(orders, o.id)
           /\ emitted' = Append(events, Deleted(o))
           /\ stack' = <<BeginActivation>> \o frames
        \/ /\ levels' = reduced
           /\ orders' = [orders EXCEPT ![o.id].order = o]
           /\ emitted' = events
           /\ stack' = frames
    BY DEF Settle, reduced
  <1>5. BookTyped' /\ Still'
    BY <1>1, <1>3, <1>4, RemoveStill, ChangeStill
  <1>6. emitted' \in Seq(Event)
    <2>1. Deleted(o) \in Event
      BY EventsTyped
    <2>2. Append(events, Deleted(o)) \in Seq(Event)
      BY <2>1
    <2>3. QED
      BY <1>4, <2>2
  <1>7. stack' \in Seq(Busy)
    <2>1. BeginActivation \in Busy
      BY FramesTyped
    <2>2. <<BeginActivation>> \o frames \in Seq(Busy)
      BY <2>1, PushBusy
    <2>3. QED
      BY <1>4, <2>2
  <1>8. QED
    BY <1>1, <1>5, <1>6, <1>7, BusyStack, PartsPrime DEF ControlTyped

-----------------------------------------------------------------------------
(* From one index to the other                                             *)

\* The entry of a resting order leads to its level (deleteOrder, cancelOrder and
\* executeOrder dereference level_it).
LEMMA EntryToLevel ==
    ASSUME IndexInv, Still, NEW id \in DOMAIN orders
    PROVE  /\ orders[id].order \in Order
           /\ orders[id].order.id = id
           /\ orders[id].level_it \in DOMAIN levels[MapOf(orders[id].order)]
    BY Parts, EntryTyped DEF Still, Indexed, LinkedIn, Linked

\* The front of a level leads to the entry of an order of that level (match and
\* activateStopOrder call front() without a check).
LEMMA FrontToEntry ==
    ASSUME IndexInv, Still, NEW m \in LevelMap, NEW p \in DOMAIN levels[m],
           NEW id, id = Head(levels[m][p].orders)
    PROVE  /\ id \in DOMAIN orders
           /\ orders[id].order \in Order
           /\ orders[id].order.id = id
           /\ MapOf(orders[id].order) = m
  <1>1. levels[m][p].orders \in Seq(OrderId)
    BY Parts, LevelTyped
  <1>2. levels[m][p].orders # <<>> /\ IsInjective(levels[m][p].orders)
    BY DEF Still, QueuesOK, NonEmpty
  <1>3. id \in Range(levels[m][p].orders)
    BY <1>1, <1>2, TailQueue
  <1>4. id \in DOMAIN orders /\ MapOf(orders[id].order) = m
    BY <1>3 DEF Still, QueuesOK
  <1>5. QED
    BY <1>4, EntryToLevel

-----------------------------------------------------------------------------
(* The requests                                                            *)

\* addOrder starts a call and leaves the book alone.
LEMMA AddOrderKeepsIndex ==
    ASSUME IndexInv, NEW o \in Tickets, AddOrder(o)
    PROVE  IndexInv'
  <1>1. Still /\ ControlTyped
    BY StillAt, Parts DEF AddOrder
  <1>2. stack' = <<AddFrame(o)>> /\ emitted' = <<>> /\ UNCHANGED <<book, prices, aborted>>
    BY DEF AddOrder
  <1>3. AddFrame(o) \in Busy
    BY FramesTyped, InputsAssumption
  <1>4. GoodStack(stack')
    BY <1>2, <1>3, ShortSeq, BusyStack
  <1>5. ControlTyped'
    BY <1>1, <1>2 DEF ControlTyped, prices
  <1>6. QED
    BY <1>1, <1>2, <1>4, <1>5, KeepStep

\* deleteOrder unlinks a resting order.
LEMMA DeleteOrderKeepsIndex ==
    ASSUME IndexInv, NEW id \in DOMAIN orders, DeleteOrder(id)
    PROVE  IndexInv'
  <1>1. Still /\ Delete(id, <<>>)
    BY StillAt DEF DeleteOrder
  <1>2. <<>> \in Seq(Busy)
    OBVIOUS
  <1>3. QED
    BY <1>1, <1>2, DeleteStep

\* modifyOrder deletes the order and adds a copy with another id and price.
LEMMA ModifyOrderKeepsIndex ==
    ASSUME IndexInv, NEW id \in DOMAIN orders, NEW new_id \in OrderId,
           NEW price \in ModifyPrices, ModifyOrder(id, new_id, price)
    PROVE  IndexInv'
  <1> DEFINE new_order == [orders[id].order EXCEPT !.id = new_id, !.price = price]
             frames == <<AddFrame(new_order), BeginActivation>>
  <1>1. Still
    BY StillAt DEF ModifyOrder
  <1>2. new_order \in Order
    <2>1. orders[id].order \in Order
      BY <1>1, EntryToLevel
    <2>2. price \in U64
      BY InputsAssumption
    <2>3. QED
      BY <2>1, <2>2 DEF Order
  <1>3. Delete(id, frames)
    BY DEF ModifyOrder
  <1> HIDE DEF new_order
  <1>4. frames \in Seq(Busy)
    <2>1. AddFrame(new_order) \in Busy /\ BeginActivation \in Busy
      BY <1>2, FramesTyped
    <2>2. QED
      BY <2>1, ShortSeq
  <1> HIDE DEF frames
  <1>5. QED
    BY <1>1, <1>3, <1>4, DeleteStep

\* cancelOrder finds the level of the order through level_it.
LEMMA CancelOrderKeepsIndex ==
    ASSUME IndexInv, NEW id \in DOMAIN orders, NEW quantity \in CancelQuantities,
           CancelOrder(id, quantity)
    PROVE  IndexInv'
  <1> DEFINE before == orders[id].order
             cancelled == SetQuantity(before, quantity)
             amount == Minus(before.open, cancelled.open)
             price == orders[id].level_it
  <1>1. Still /\ ControlTyped
    BY StillAt, Parts DEF CancelOrder
  <1>2. before \in Order /\ before.id = id /\ price \in DOMAIN levels[MapOf(before)]
    BY <1>1, EntryToLevel
  <1>3. cancelled \in Order /\ SamePlace(cancelled, before)
    BY <1>2, SetQuantityTyped, InputsAssumption
  <1>4. amount \in U64
    BY <1>2, <1>3, U64Closed DEF Order
  <1>5. cancelled.id = id /\ price \in DOMAIN levels[MapOf(cancelled)]
    BY <1>2, <1>3, SamePlaceSameLevel
  <1>6. \/ /\ Settle(cancelled, price, amount, <<Updated(cancelled)>>, <<BeginActivation>>)
           /\ UNCHANGED <<updated_levels, prices, aborted>>
        \/ Abort
    BY DEF CancelOrder
  <1>7. <<Updated(cancelled)>> \in Seq(Event) /\ <<BeginActivation>> \in Seq(Busy)
    <2>1. Updated(cancelled) \in Event /\ BeginActivation \in Busy
      BY <1>3, EventsTyped, FramesTyped
    <2>2. QED
      BY <2>1, ShortSeq
  <1> HIDE DEF cancelled, amount, price
  <1>8. CASE Abort
    BY <1>8, AbortStep DEF Abort
  <1>9. CASE /\ Settle(cancelled, price, amount, <<Updated(cancelled)>>, <<BeginActivation>>)
             /\ UNCHANGED <<updated_levels, prices, aborted>>
    BY <1>1, <1>3, <1>4, <1>5, <1>7, <1>9, SettleStep DEF ControlTyped, prices
  <1>10. QED
    BY <1>6, <1>8, <1>9

\* So does executeOrder, with and without a price.
LEMMA ExecuteKeepsIndex ==
    ASSUME IndexInv, NEW id \in DOMAIN orders, NEW quantity \in ExecuteQuantities,
           NEW price \in U64, Idle, ExecuteAt(id, quantity, price)
    PROVE  IndexInv'
  <1> DEFINE before == orders[id].order
             amount == Lesser(quantity, before.open)
             after == Execute(before, price, amount)
             key == orders[id].level_it
  <1>1. Still /\ ControlTyped
    BY StillAt, Parts
  <1>2. before \in Order /\ before.id = id /\ key \in DOMAIN levels[MapOf(before)]
    BY <1>1, EntryToLevel
  <1>3. amount \in U64
    BY <1>2, U64Closed, InputsAssumption DEF Order
  <1>4. after \in Order /\ SamePlace(after, before)
    BY <1>2, <1>3, ExecuteTyped, WidthAssumption
  <1>5. after.id = id /\ key \in DOMAIN levels[MapOf(after)]
    BY <1>2, <1>4, SamePlaceSameLevel
  <1>6. \/ /\ last_traded_price' = price
           /\ Settle(after, key, amount, <<Executed(after)>>, <<BeginActivation>>)
           /\ UNCHANGED <<updated_levels, trailing_buy_price, trailing_sell_price, aborted>>
        \/ Abort
    BY DEF ExecuteAt
  <1>7. <<Executed(after)>> \in Seq(Event) /\ <<BeginActivation>> \in Seq(Busy)
    <2>1. Executed(after) \in Event /\ BeginActivation \in Busy
      BY <1>4, EventsTyped, FramesTyped
    <2>2. QED
      BY <2>1, ShortSeq
  <1> HIDE DEF amount, after, key
  <1>8. CASE Abort
    BY <1>8, AbortStep DEF Abort
  <1>9. CASE /\ last_traded_price' = price
             /\ Settle(after, key, amount, <<Executed(after)>>, <<BeginActivation>>)
             /\ UNCHANGED <<updated_levels, trailing_buy_price, trailing_sell_price, aborted>>
    BY <1>1, <1>3, <1>4, <1>5, <1>7, <1>9, SettleStep DEF ControlTyped
  <1>10. QED
    BY <1>6, <1>8, <1>9

\* Every public operation keeps the index right.
LEMMA RequestKeepsIndex ==
    ASSUME IndexInv, Request
    PROVE  IndexInv'
  <1>1. CASE \E o \in Tickets : AddOrder(o)
    BY <1>1, AddOrderKeepsIndex
  <1>2. CASE \E id \in DOMAIN orders : DeleteOrder(id)
    BY <1>2, DeleteOrderKeepsIndex
  <1>3. CASE \E id \in DOMAIN orders : \E new_id \in OrderId, price \in ModifyPrices :
               ModifyOrder(id, new_id, price)
    BY <1>3, ModifyOrderKeepsIndex
  <1>4. CASE \E id \in DOMAIN orders : \E quantity \in CancelQuantities : CancelOrder(id, quantity)
    BY <1>4, CancelOrderKeepsIndex
  <1>5. CASE \E id \in DOMAIN orders : \E quantity \in ExecuteQuantities :
               ExecuteOrder(id, quantity)
    <2> SUFFICES ASSUME NEW id \in DOMAIN orders, NEW quantity \in ExecuteQuantities,
                        ExecuteOrder(id, quantity)
                 PROVE  IndexInv'
      BY <1>5
    <2>1. Idle /\ ExecuteAt(id, quantity, orders[id].order.price)
      BY DEF ExecuteOrder
    <2>2. orders[id].order.price \in U64
      BY <2>1, StillAt, EntryToLevel DEF Order
    <2>3. QED
      BY <2>1, <2>2, ExecuteKeepsIndex
  <1>6. CASE \E id \in DOMAIN orders : \E quantity \in ExecuteQuantities :
               \E price \in ExecutePrices : ExecuteOrderAtPrice(id, quantity, price)
    BY <1>6, ExecuteKeepsIndex, InputsAssumption DEF ExecuteOrderAtPrice
  <1>7. QED
    BY <1>1, <1>2, <1>3, <1>4, <1>5, <1>6 DEF Request

-----------------------------------------------------------------------------
(* The steps of the calls                                                  *)

\* A call in progress that is not moving trailing stops finds the index settled.
LEMMA CallFindsIndex ==
    ASSUME IndexInv, NEW pc, At(pc), pc # "update"
    PROVE  /\ Still
           /\ ControlTyped
           /\ stack # <<>>
           /\ Top.pc = pc
           /\ Tail(stack) \in Seq(Busy)
           /\ pc \in {"add", "check", "match", "reissue"} =>
                 /\ Top \in OrderFrame /\ Top.order \in Order /\ Top.available \in U64
           /\ pc = "scan" => Top \in ScanFrame
  <1>1. stack # <<>> /\ Top.pc = pc
    BY DEF At
  <1>2. Still /\ ControlTyped /\ GoodStack(stack)
    BY <1>1, StillAt, Parts
  <1>3. /\ Tail(stack) \in Seq(Busy)
        /\ pc \in {"add", "check", "match", "reissue"} => Top \in OrderFrame
        /\ pc = "scan" => Top \in ScanFrame
    BY <1>1, <1>2, TopTyped
  <1>4. Top \in OrderFrame => Top.order \in Order /\ Top.available \in U64
    BY DEF OrderFrame
  <1>5. QED
    BY <1>1, <1>2, <1>3, <1>4

\* The stop price a new order waits for, or is triggered at, is in uint64_t.
LEMMA WithStopPriceTyped ==
    ASSUME last_traded_price \in U64, NEW o \in Order
    PROVE  WithStopPrice(o) \in Order /\ WithStopPrice(o).id = o.id
    BY CalculateStopPriceTyped DEF WithStopPrice

\* addMarketOrder and addLimitOrder leave the book to match.
LEMMA AddToMarketKeepsIndex ==
    ASSUME IndexInv, AddToMarket
    PROVE  IndexInv'
  <1> DEFINE o == Top.order
  <1>1. Still /\ ControlTyped /\ Tail(stack) \in Seq(Busy) /\ o \in Order
    BY CallFindsIndex DEF AddToMarket
  <1>2. /\ stack' = <<MatchFrame(o), BeginActivation>> \o Tail(stack)
        /\ emitted' = <<Added(o)>>
        /\ UNCHANGED <<book, prices, aborted>>
    BY DEF AddToMarket, Proceed
  <1>3. MatchFrame(o) \in Busy /\ BeginActivation \in Busy /\ Added(o) \in Event
    BY <1>1, FramesTyped, EventsTyped
  <1>4. GoodStack(stack')
    BY <1>1, <1>2, <1>3, PushBusy, BusyStack
  <1>5. ControlTyped'
    BY <1>1, <1>2, <1>3, ShortSeq DEF ControlTyped, prices
  <1>6. QED
    BY <1>1, <1>2, <1>4, <1>5, KeepStep

\* addStopOrder of an order whose stop is reached sends it to match.
LEMMA AddReachedStopKeepsIndex ==
    ASSUME IndexInv, AddReachedStop
    PROVE  IndexInv'
  <1> DEFINE o == Top.order
             s == Triggered(WithStopPrice(o))
  <1>1. Still /\ ControlTyped /\ Tail(stack) \in Seq(Busy) /\ o \in Order
    BY CallFindsIndex DEF AddReachedStop
  <1>2. /\ stack' = <<MatchFrame(s), BeginActivation>> \o Tail(stack)
        /\ emitted' = <<Added(o), Updated(s)>>
        /\ UNCHANGED <<book, prices, aborted>>
    BY DEF AddReachedStop, Proceed
  <1>3. s \in Order
    BY <1>1, WithStopPriceTyped, TriggeredTyped DEF ControlTyped
  <1> HIDE DEF o, s
  <1>4. /\ MatchFrame(s) \in Busy /\ BeginActivation \in Busy
        /\ Added(o) \in Event /\ Updated(s) \in Event
    BY <1>1, <1>3, FramesTyped, EventsTyped
  <1>5. GoodStack(stack')
    BY <1>1, <1>2, <1>4, PushBusy, BusyStack
  <1>6. ControlTyped'
    BY <1>1, <1>2, <1>4, ShortSeq DEF ControlTyped, prices
  <1>7. QED
    BY <1>1, <1>2, <1>5, <1>6, KeepStep

\* addStopOrder inserts an order whose stop is not reached.
LEMMA AddPendingStopKeepsIndex ==
    ASSUME IndexInv, AddPendingStop
    PROVE  IndexInv'
  <1> DEFINE o == Top.order
             s == WithStopPrice(o)
  <1>1. Still /\ ControlTyped /\ Tail(stack) \in Seq(Busy) /\ o \in Order
    BY CallFindsIndex DEF AddPendingStop
  <1>2. Insert(s, <<BeginActivation>>, <<Added(o)>>)
    BY DEF AddPendingStop
  <1>3. s \in Order
    BY <1>1, WithStopPriceTyped DEF ControlTyped
  <1> HIDE DEF o, s
  <1>4. BeginActivation \in Busy /\ Added(o) \in Event
    BY <1>1, FramesTyped, EventsTyped
  <1>5. <<BeginActivation>> \o Tail(stack) \in Seq(Busy) /\ <<Added(o)>> \in Seq(Event)
    BY <1>1, <1>4, PushBusy, ShortSeq
  <1>6. QED
    BY <1>1, <1>2, <1>3, <1>5, InsertStep

\* What is left of an order after match rests or is gone.
LEMMA CompleteKeepsIndex ==
    ASSUME IndexInv, Still, Tail(stack) \in Seq(Busy), NEW o \in Order, Complete(o)
    PROVE  IndexInv'
  <1>1. ControlTyped
    BY Parts
  <1>2. <<>> \o Tail(stack) = Tail(stack) /\ <<>> \in Seq(Event)
    OBVIOUS
  <1>3. CASE Insert(o, <<>>, <<>>)
    BY <1>2, <1>3, InsertStep
  <1>4. CASE Proceed(<<>>) /\ emitted' = <<Deleted(o)>> /\ UNCHANGED <<book, prices, aborted>>
    <2>1. GoodStack(stack')
      BY <1>2, <1>4, BusyStack DEF Proceed
    <2>2. ControlTyped'
      BY <1>1, <1>4, EventsTyped, ShortSeq DEF ControlTyped, prices
    <2>3. QED
      BY <1>4, <2>1, <2>2, KeepStep
  <1>5. QED
    BY <1>3, <1>4 DEF Complete

\* canMatchOrder only reads the levels.
LEMMA CheckLiquidityKeepsIndex ==
    ASSUME IndexInv, CheckLiquidity
    PROVE  IndexInv'
  <1>1. /\ Still /\ ControlTyped /\ Tail(stack) \in Seq(Busy)
        /\ Top \in OrderFrame /\ Top.order \in Order /\ Top.available \in U64
    BY CallFindsIndex DEF CheckLiquidity
  <1>2. PICK p \in DOMAIN levels[Contra(Top.order)] :
          LET needed    == Minus(Top.order.open, Top.available)
              available == Plus(Top.available, Lesser(levels[Contra(Top.order)][p].volume, needed))
          IN  Becomes([Top EXCEPT !.available = available,
                                  !.pc = IF available >= Top.order.open THEN "match" ELSE "check"])
    BY Zenon DEF CheckLiquidity
  <1> DEFINE needed    == Minus(Top.order.open, Top.available)
             available == Plus(Top.available, Lesser(levels[Contra(Top.order)][p].volume, needed))
             frame     == [Top EXCEPT !.available = available,
                                      !.pc = IF available >= Top.order.open THEN "match" ELSE "check"]
  <1>3. Contra(Top.order) \in LevelMap
    BY <1>1 DEF Contra, Opposite, LevelMap, Side
  <1>4. levels[Contra(Top.order)][p].volume \in U64
    BY <1>3, Parts, LevelTyped DEF Level
  <1>5. available \in U64
    BY <1>1, <1>4, U64Closed DEF Order
  <1>6. stack' = <<frame>> \o Tail(stack)
    BY <1>2 DEF Becomes, Proceed
  <1> HIDE DEF available
  <1>7. frame \in Busy
    BY <1>1, <1>5 DEF OrderFrame, Busy, Frame
  <1> HIDE DEF frame
  <1>8. GoodStack(stack')
    BY <1>1, <1>6, <1>7, PushBusy, BusyStack
  <1>9. ControlTyped' /\ UNCHANGED book
    BY <1>1 DEF CheckLiquidity, ControlTyped, prices
  <1>10. QED
    BY <1>1, <1>8, <1>9, KeepStep

\* A fill-or-kill order that canMatchOrder turns down leaves the index right.
LEMMA KillOrderKeepsIndex ==
    ASSUME IndexInv, KillOrder
    PROVE  IndexInv'
    BY CallFindsIndex, CompleteKeepsIndex DEF KillOrder

\* So does an order that match is done with, whether it rests or not.
LEMMA EndMatchKeepsIndex ==
    ASSUME IndexInv, EndMatch
    PROVE  IndexInv'
    BY CallFindsIndex, CompleteKeepsIndex DEF EndMatch

\* A trade settles with the oldest order of a level, which an entry holds.
LEMMA MatchKeepsIndex ==
    ASSUME IndexInv, Match
    PROVE  IndexInv'
  <1> DEFINE incoming == Top.order
             m == Contra(incoming)
  <1>1. /\ Still /\ ControlTyped /\ Tail(stack) \in Seq(Busy)
        /\ Top \in OrderFrame /\ incoming \in Order /\ Top.pc = "match"
    BY CallFindsIndex DEF Match
  <1>2. PICK p \in DOMAIN levels[m] : Trade(p)
    BY DEF Match
  <1> DEFINE id       == Head(levels[m][p].orders)
             resting  == orders[id].order
             quantity == Lesser(incoming.open, resting.open)
             filled   == Execute(incoming, resting.price, quantity)
             hit      == Execute(resting, resting.price, quantity)
             frames   == <<[Top EXCEPT !.order = filled]>> \o Tail(stack)
  <1>3. m \in LevelMap
    BY <1>1 DEF Contra, Opposite, LevelMap, Side
  <1>4. id \in DOMAIN orders /\ resting \in Order /\ resting.id = id /\ MapOf(resting) = m
    BY <1>1, <1>3, FrontToEntry
  <1>5. quantity \in U64 /\ resting.price \in U64
    BY <1>1, <1>4, U64Closed DEF Order
  <1>6. filled \in Order /\ hit \in Order /\ SamePlace(hit, resting)
    BY <1>1, <1>4, <1>5, ExecuteTyped, WidthAssumption
  <1>7. hit.id = id /\ MapOf(hit) = m /\ SamePlace(hit, orders[hit.id].order)
    BY <1>4, <1>6, SamePlaceSameLevel, Zenon
  <1>8. PICK events \in {<<Executed(filled), Executed(hit)>>, <<Executed(hit), Executed(filled)>>} :
          \/ /\ last_traded_price' = resting.price
             /\ Settle(hit, p, quantity, events, frames)
             /\ UNCHANGED <<updated_levels, trailing_buy_price, trailing_sell_price, aborted>>
          \/ Abort
    BY <1>2, Zenon DEF Trade
  <1> HIDE DEF m, resting, quantity, filled, hit
  <1>9. [Top EXCEPT !.order = filled] \in Busy
    BY <1>1, <1>6 DEF OrderFrame, Busy, Frame
  <1>10. frames \in Seq(Busy)
    BY <1>1, <1>9, PushBusy
  <1>11. events \in Seq(Event)
    BY <1>6, <1>8, EventsTyped, ShortSeq
  <1> HIDE DEF frames
  <1>12. CASE Abort
    BY <1>12, AbortStep DEF Abort
  <1>13. CASE /\ last_traded_price' = resting.price
              /\ Settle(hit, p, quantity, events, frames)
              /\ UNCHANGED <<updated_levels, trailing_buy_price, trailing_sell_price, aborted>>
    BY <1>1, <1>4, <1>5, <1>6, <1>7, <1>10, <1>11, <1>13, SettleStep DEF ControlTyped
  <1>14. QED
    BY <1>8, <1>12, <1>13

-----------------------------------------------------------------------------
(* The steps of activateStopOrders                                         *)

\* activateStopOrders starts with a scan of the buy stops.
LEMMA StartActivationKeepsIndex ==
    ASSUME IndexInv, StartActivation
    PROVE  IndexInv'
  <1>1. Still /\ ControlTyped /\ Tail(stack) \in Seq(Busy)
    BY CallFindsIndex DEF StartActivation
  <1>2. Scan("stop", "BUY", FALSE) \in Busy
    BY <1>1, ScansTyped DEF ControlTyped, Side
  <1>3. GoodStack(stack')
    BY <1>1, <1>2, PushBusy, BusyStack DEF StartActivation, Becomes, Proceed
  <1>4. ControlTyped' /\ UNCHANGED book
    BY <1>1 DEF StartActivation, ControlTyped, prices
  <1>5. QED
    BY <1>1, <1>3, <1>4, KeepStep

\* The end of a scan leads to another one or to an update of trailing stops.
LEMMA EndScanKeepsIndex ==
    ASSUME IndexInv, EndScan
    PROVE  IndexInv'
  <1>1. Still /\ ControlTyped /\ Tail(stack) \in Seq(Busy) /\ Top \in ScanFrame
    BY CallFindsIndex DEF EndScan
  <1>2. Top.side \in Side /\ Opposite(Top.side) \in Side /\ Top.activated \in BOOLEAN
    BY <1>1 DEF ScanFrame, Side, Opposite
  <1> DEFINE frame == IF Top.kind = "stop" THEN Scan("trailing", Top.side, Top.activated)
                                           ELSE Update(Opposite(Top.side), Top.activated)
  <1>3. frame \in Frame
    BY <1>1, <1>2, ScansTyped DEF ControlTyped, Busy
  <1>4. stack' = <<frame>> \o Tail(stack)
    BY DEF EndScan, Becomes, Proceed
  <1> HIDE DEF frame
  <1>5. GoodStack(stack')
    BY <1>1, <1>3, <1>4, PushFrame
  <1>6. ControlTyped' /\ UNCHANGED book
    BY <1>1 DEF EndScan, ControlTyped, prices
  <1>7. QED
    BY <1>1, <1>5, <1>6, KeepStep

\* The order activateStopOrder has deleted goes to match.
LEMMA ReissueOrderKeepsIndex ==
    ASSUME IndexInv, ReissueOrder
    PROVE  IndexInv'
  <1> DEFINE s == Triggered(Top.order)
  <1>1. Still /\ ControlTyped /\ Tail(stack) \in Seq(Busy) /\ Top.order \in Order
    BY CallFindsIndex DEF ReissueOrder
  <1>2. s \in Order
    BY <1>1, TriggeredTyped
  <1>3. /\ stack' = <<MatchFrame(s)>> \o Tail(stack)
        /\ emitted' = <<Updated(s)>>
        /\ UNCHANGED <<book, prices, aborted>>
    BY DEF ReissueOrder, Becomes, Proceed
  <1> HIDE DEF s
  <1>4. MatchFrame(s) \in Busy /\ Updated(s) \in Event
    BY <1>2, FramesTyped, EventsTyped
  <1>5. GoodStack(stack')
    BY <1>1, <1>3, <1>4, PushBusy, BusyStack
  <1>6. ControlTyped'
    BY <1>1, <1>3, <1>4, ShortSeq DEF ControlTyped, prices
  <1>7. QED
    BY <1>1, <1>3, <1>5, <1>6, KeepStep

\* The front of a stop level is deleted, under a call that will reissue it.
LEMMA ActivateStopOrderKeepsIndex ==
    ASSUME IndexInv, ActivateStopOrder
    PROVE  IndexInv'
  <1> DEFINE m == <<Top.kind, Top.side>>
  <1>1. Still /\ Tail(stack) \in Seq(Busy) /\ Top \in ScanFrame
    BY CallFindsIndex DEF ActivateStopOrder
  <1>2. m \in LevelMap
    BY <1>1 DEF ScanFrame, LevelMap
  <1>3. PICK p \in DOMAIN levels[m] :
          LET id == Head(levels[m][p].orders) IN
          Delete(id, << [pc |-> "reissue", order |-> orders[id].order, available |-> 0],
                        [Top EXCEPT !.activated = TRUE] >> \o Tail(stack))
    BY Zenon DEF ActivateStopOrder
  <1> DEFINE id     == Head(levels[m][p].orders)
             again  == [pc |-> "reissue", order |-> orders[id].order, available |-> 0]
             scan   == [Top EXCEPT !.activated = TRUE]
             frames == <<again, scan>> \o Tail(stack)
  <1>4. id \in DOMAIN orders /\ orders[id].order \in Order
    BY <1>1, <1>2, FrontToEntry
  <1>5. again \in Busy
    BY <1>4, FramesTyped
  <1>6. scan \in Busy
    BY <1>1 DEF ScanFrame, Busy, Frame
  <1>7. Delete(id, frames)
    BY <1>3
  <1> HIDE DEF id, again, scan
  <1>8. frames \in Seq(Busy)
    BY <1>1, <1>5, <1>6, PushBusy
  <1> HIDE DEF frames
  <1>9. QED
    BY <1>1, <1>4, <1>7, <1>8, DeleteStep

-----------------------------------------------------------------------------
(* The update of trailing stops                                            *)

\* A call that updates trailing stops is the innermost one, and calls none that
\* does; what follows it scans or starts over.
LEMMA UpdateFindsCall ==
    ASSUME IndexInv, At("update")
    PROVE  /\ BookTyped /\ ControlTyped /\ GoodStack(stack)
           /\ stack # <<>> /\ Top.pc = "update" /\ Top.side \in Side
           /\ GoodStack(AfterUpdate(Top) \o Tail(stack))
  <1>1. /\ BookTyped /\ ControlTyped /\ GoodStack(stack)
        /\ stack # <<>> /\ Top.pc = "update"
    BY Parts DEF At
  <1>2. Top \in UpdateFrame /\ Tail(stack) \in Seq(Busy)
    BY <1>1, TopTyped
  <1>3. Top.side \in Side
    BY <1>2 DEF UpdateFrame
  <1>4. Scan("stop", "SELL", FALSE) \in Busy
    BY <1>1, ScansTyped DEF ControlTyped, Side
  <1>5. BeginActivation \in Busy
    BY DEF BeginActivation, Busy, Frame, BeginFrame
  <1>6. AfterUpdate(Top) \o Tail(stack) \in Seq(Busy)
    <2>1. CASE AfterUpdate(Top) = <<Scan("stop", "SELL", FALSE)>>
      BY <1>2, <1>4, <2>1, PushBusy
    <2>2. CASE AfterUpdate(Top) = <<BeginActivation>>
      BY <1>2, <1>5, <2>2, PushBusy
    <2>3. CASE AfterUpdate(Top) = <<>>
      BY <1>2, <2>3
    <2>4. QED
      BY <2>1, <2>2, <2>3 DEF AfterUpdate
  <1>7. QED
    BY <1>1, <1>3, <1>6, BusyStack

\* The move of one trailing stop leaves the index spread over two maps.
LEMMA MoveTrailingStopKeepsIndex ==
    ASSUME IndexInv, MoveTrailingStop
    PROVE  IndexInv'
  <1> DEFINE m == <<"trailing", Top.side>>
  <1>1. /\ BookTyped /\ ControlTyped /\ GoodStack(stack)
        /\ stack # <<>> /\ Top.pc = "update" /\ Top.side \in Side
    BY UpdateFindsCall, Zenon DEF MoveTrailingStop
  <1>2. Underway
    BY <1>1, StillUnderway, Zenon DEF IndexInv, MoveTrailingStop
  <1>3. BookTyped' /\ Underway'
    BY <1>1, <1>2, MoveUnderway DEF ControlTyped
  <1>4. emitted' \in Seq(Event)
    <2>1. PICK p \in DOMAIN levels[m] :
            /\ levels[m][p].orders # <<>>
            /\ emitted' = <<Updated(CalculateStopPrice(orders[Head(levels[m][p].orders)].order))>>
      BY Zenon DEF MoveTrailingStop
    <2> DEFINE id == Head(levels[m][p].orders)
    <2>2. m \in LevelMap
      BY <1>1 DEF LevelMap
    <2>3. id \in Range(levels[m][p].orders)
      BY <1>1, <1>2, <2>1, <2>2, LevelTyped, TailQueue DEF Underway, QueuesOK
    <2>4. id \in DOMAIN orders
      BY <1>2, <2>2, <2>3 DEF Underway, QueuesOK
    <2>5. CalculateStopPrice(orders[id].order) \in Order
      BY <1>1, <2>4, EntryTyped, CalculateStopPriceTyped DEF ControlTyped
    <2>6. QED
      BY <2>1, <2>5, EventsTyped, ShortSeq
  <1>5. GoodStack(stack')
    BY <1>1, Zenon DEF MoveTrailingStop
  <1>6. ControlTyped'
    BY <1>1, <1>4, Zenon DEF MoveTrailingStop, ControlTyped, prices
  <1>7. QED
    BY <1>3, <1>5, <1>6, PartsPrime

\* The swap of the two maps settles it.
LEMMA SwapTrailingLevelsKeepsIndex ==
    ASSUME IndexInv, SwapTrailingLevels
    PROVE  IndexInv'
  <1>1. /\ BookTyped /\ ControlTyped
        /\ stack # <<>> /\ Top.pc = "update" /\ Top.side \in Side
        /\ GoodStack(AfterUpdate(Top) \o Tail(stack))
    BY UpdateFindsCall DEF SwapTrailingLevels
  <1>2. Underway
    BY <1>1, StillUnderway DEF IndexInv, SwapTrailingLevels
  <1>3. BookTyped' /\ Still'
    BY <1>1, <1>2, SwapStill
  <1>4. ControlTyped' /\ GoodStack(stack')
    BY <1>1 DEF SwapTrailingLevels, ControlTyped, prices, Proceed
  <1>5. QED
    BY <1>3, <1>4, PartsPrime

\* Trailing stops that stay where they are leave the book alone.
LEMMA KeepTrailingLevelsKeepsIndex ==
    ASSUME IndexInv, KeepTrailingLevels
    PROVE  IndexInv'
  <1>1. ControlTyped /\ GoodStack(AfterUpdate(Top) \o Tail(stack))
    BY UpdateFindsCall DEF KeepTrailingLevels
  <1>2. Still
    BY DEF IndexInv, Underway, KeepTrailingLevels
  <1>3. ControlTyped' /\ GoodStack(stack') /\ UNCHANGED book
    BY <1>1 DEF KeepTrailingLevels, ControlTyped, Proceed
  <1>4. QED
    BY <1>2, <1>3, KeepStep

\* Every step of a call keeps the index right.
LEMMA StepKeepsIndex ==
    ASSUME IndexInv, Step
    PROVE  IndexInv'
    BY AddToMarketKeepsIndex, AddReachedStopKeepsIndex, AddPendingStopKeepsIndex,
       CheckLiquidityKeepsIndex, KillOrderKeepsIndex, MatchKeepsIndex, EndMatchKeepsIndex,
       StartActivationKeepsIndex, ActivateStopOrderKeepsIndex, EndScanKeepsIndex,
       ReissueOrderKeepsIndex, MoveTrailingStopKeepsIndex, SwapTrailingLevelsKeepsIndex,
       KeepTrailingLevelsKeepsIndex
    DEF Step

-----------------------------------------------------------------------------
(* What a step does to the book                                            *)

\* An order enters the book.
Inserted(o) ==
    /\ o.id \notin DOMAIN orders
    /\ levels' = [levels EXCEPT ![MapOf(o)] =
           Put(@, KeyOf(o), AddOrderToLevel(LevelAt(@, KeyOf(o)), o))]
    /\ orders' = Put(orders, o.id, [order |-> o, level_it |-> KeyOf(o)])
    /\ updated_levels' = updated_levels

\* An order leaves it.
Removed(id) ==
    /\ levels' = DeleteFrom(levels, orders[id].order)
    /\ orders' = Drop(orders, id)
    /\ updated_levels' = updated_levels

\* The levels after reduceVolume of the level order o is in.
Reduced(o, amount) ==
    [levels EXCEPT ![MapOf(o)][orders[o.id].level_it] = ReduceVolume(@, amount)]

\* "amount" less of an order is open: it goes on as o, or leaves.
Changed(o, amount) ==
    /\ o.id \in DOMAIN orders
    /\ SamePlace(o, orders[o.id].order)
    /\ orders[o.id].order.open = Plus(o.open, amount)
    /\ VolumeCovers(levels[MapOf(o)][orders[o.id].level_it], amount)
    /\ \/ /\ o.open = 0
          /\ levels' = DeleteFrom(Reduced(o, amount), o)
          /\ orders' = Drop(orders, o.id)
       \/ /\ o.open # 0
          /\ levels' = Reduced(o, amount)
          /\ orders' = [orders EXCEPT ![o.id].order = o]
    /\ updated_levels' = updated_levels

BookStep ==
    \/ UNCHANGED book
    \/ /\ Still
       /\ \/ \E o \in Order : Inserted(o)
          \/ \E id \in DOMAIN orders : Removed(id)
          \/ \E o \in Order, amount \in U64 : Changed(o, amount)
    \/ MoveTrailingStop
    \/ SwapTrailingLevels

\* What was open is what is open now and the difference, whichever way it is taken.
LEMMA OpenAndAmount ==
    /\ \A x, y \in U64 : x = Plus(y, Minus(x, y))
    /\ \A x, y \in U64 : y <= x => x = Plus(Minus(x, y), y)
  <1>1. ASSUME NEW x \in U64, NEW y \in U64
        PROVE  x = Plus(y, Minus(x, y))
    <2>1. MaxU64 \in Nat /\ x \in Nat /\ y \in Nat /\ x <= MaxU64 /\ y <= MaxU64
      BY MaxU64Assumption DEF U64
    <2>2. QED
      BY <2>1 DEF Plus, Minus
  <1>2. ASSUME NEW x \in U64, NEW y \in U64, y <= x
        PROVE  x = Plus(Minus(x, y), y)
    <2>1. MaxU64 \in Nat /\ x \in Nat /\ y \in Nat /\ x <= MaxU64 /\ y <= MaxU64
      BY MaxU64Assumption DEF U64
    <2>2. QED
      BY <1>2, <2>1 DEF Plus, Minus
  <1>3. QED
    BY <1>1, <1>2

\* What Order::execute and std::min leave open.
LEMMA ExecuteAmount ==
    ASSUME NEW o \in Order, NEW quantity \in U64, NEW price
    PROVE  LET amount == Lesser(quantity, o.open) IN
           amount \in U64 /\ o.open = Plus(Execute(o, price, amount).open, amount)
  <1> DEFINE amount == Lesser(quantity, o.open)
  <1>1. o.open \in U64 /\ amount \in U64 /\ amount <= o.open
    BY MaxU64Assumption DEF Order, Lesser, U64
  <1>2. Execute(o, price, amount).open = Minus(o.open, amount)
    BY DEF Execute, Order
  <1> HIDE DEF amount
  <1>3. o.open = Plus(Minus(o.open, amount), amount)
    BY <1>1, OpenAndAmount
  <1>4. QED
    BY <1>1, <1>2, <1>3 DEF amount

\* What the inserting calls do, an aborted one included.
LEMMA InsertIs ==
    ASSUME Still, NEW o \in Order, NEW frames, NEW events, Insert(o, frames, events)
    PROVE  BookStep
    BY DEF Insert, Inserted, BookStep, Abort

\* What deleteOrder does.
LEMMA DeleteIs ==
    ASSUME Still, NEW id \in DOMAIN orders, NEW frames, Delete(id, frames)
    PROVE  BookStep
    BY DEF Delete, Removed, BookStep

\* What is settled of an order of the book, in the level its entry points to.
LEMMA SettleIs ==
    ASSUME Still, NEW o \in Order, o.id \in DOMAIN orders, SamePlace(o, orders[o.id].order),
           NEW amount \in U64, orders[o.id].order.open = Plus(o.open, amount),
           NEW p, p = orders[o.id].level_it, VolumeCovers(levels[MapOf(o)][p], amount),
           NEW events, NEW frames, Settle(o, p, amount, events, frames),
           updated_levels' = updated_levels
    PROVE  Changed(o, amount) /\ BookStep
  <1>1. Changed(o, amount)
    BY DEF Settle, Changed, Reduced
  <1>2. QED
    BY <1>1 DEF BookStep

\* cancelOrder changes what is open of an order, up or down.
LEMMA CancelOrderIs ==
    ASSUME IndexInv, NEW id \in DOMAIN orders, NEW quantity \in CancelQuantities,
           CancelOrder(id, quantity)
    PROVE  BookStep
  <1> DEFINE before == orders[id].order
             cancelled == SetQuantity(before, quantity)
             amount == Minus(before.open, cancelled.open)
             price == orders[id].level_it
  <1>1. Still
    BY StillAt DEF CancelOrder
  <1>2. before \in Order /\ before.id = id /\ quantity \in U64
    BY <1>1, EntryToLevel, InputsAssumption
  <1>3. cancelled \in Order /\ SamePlace(cancelled, before) /\ cancelled.open = quantity
    BY <1>2, SetQuantityTyped, Zenon DEF SetQuantity, Order
  <1>4. cancelled.id = id /\ MapOf(cancelled) = MapOf(before)
    BY <1>2, <1>3, SamePlaceSameLevel
  <1>5. before.open \in U64 /\ cancelled.open \in U64
    BY <1>2, <1>3 DEF Order
  <1>6. amount \in U64 /\ before.open = Plus(cancelled.open, amount)
    BY <1>5, U64Closed, OpenAndAmount
  <1>7. \/ /\ VolumeCovers(levels[MapOf(before)][price], amount)
           /\ Settle(cancelled, price, amount, <<Updated(cancelled)>>, <<BeginActivation>>)
           /\ updated_levels' = updated_levels
        \/ Abort
    BY DEF CancelOrder
  <1> HIDE DEF cancelled, amount
  <1>8. QED
    BY <1>1, <1>2, <1>3, <1>4, <1>6, <1>7, SettleIs DEF BookStep, Abort

\* executeOrder changes it down.
LEMMA ExecuteIs ==
    ASSUME IndexInv, NEW id \in DOMAIN orders, NEW quantity \in ExecuteQuantities,
           NEW price \in U64, Idle, ExecuteAt(id, quantity, price)
    PROVE  BookStep
  <1> DEFINE before == orders[id].order
             amount == Lesser(quantity, before.open)
             after == Execute(before, price, amount)
             key == orders[id].level_it
  <1>1. Still
    BY StillAt
  <1>2. before \in Order /\ before.id = id /\ quantity \in U64
    BY <1>1, EntryToLevel, InputsAssumption
  <1>3. amount \in U64 /\ before.open = Plus(after.open, amount)
    BY <1>2, ExecuteAmount
  <1>4. after \in Order /\ SamePlace(after, before)
    BY <1>2, <1>3, ExecuteTyped, WidthAssumption
  <1>5. after.id = id /\ MapOf(after) = MapOf(before)
    BY <1>2, <1>4, SamePlaceSameLevel
  <1>6. \/ /\ VolumeCovers(levels[MapOf(before)][key], amount)
           /\ Settle(after, key, amount, <<Executed(after)>>, <<BeginActivation>>)
           /\ updated_levels' = updated_levels
        \/ Abort
    BY DEF ExecuteAt
  <1> HIDE DEF amount, after
  <1>7. QED
    BY <1>1, <1>2, <1>3, <1>4, <1>5, <1>6, SettleIs DEF BookStep, Abort

\* A trade changes the oldest order of the best level that the incoming order is matched
\* against.
LEMMA MatchIs ==
    ASSUME IndexInv, Match
    PROVE  \/ UNCHANGED book
           \/ /\ Still
              /\ \E p \in DOMAIN levels[Contra(Top.order)], hit \in Order, amount \in U64 :
                   /\ Best(p, Contra(Top.order))
                   /\ hit.id = Head(levels[Contra(Top.order)][p].orders)
                   /\ Changed(hit, amount)
  <1> DEFINE incoming == Top.order
             m == Contra(incoming)
  <1>1. Still /\ BookTyped /\ incoming \in Order
    BY CallFindsIndex, Parts DEF Match
  <1>2. PICK p \in DOMAIN levels[m] : Best(p, m) /\ Trade(p)
    BY DEF Match, BestCrossing
  <1> DEFINE id       == Head(levels[m][p].orders)
             resting  == orders[id].order
             quantity == Lesser(incoming.open, resting.open)
             hit      == Execute(resting, resting.price, quantity)
  <1>3. m \in LevelMap
    BY <1>1 DEF Contra, Opposite, LevelMap, Side
  <1>4. id \in DOMAIN orders /\ resting \in Order /\ resting.id = id /\ MapOf(resting) = m
    BY <1>1, <1>3, FrontToEntry
  <1>5. p = orders[id].level_it
    <2>1. levels[m][p].orders # <<>> /\ levels[m][p].orders \in Seq(OrderId)
      BY <1>1, <1>3, LevelTyped DEF Still, NonEmpty
    <2>2. id \in Range(levels[m][p].orders)
      BY <2>1, TailQueue, <1>1, <1>3 DEF Still, QueuesOK
    <2>3. QED
      BY <1>1, <1>3, <1>4, <2>2 DEF Still, QueuesOK, Indexed
  <1>6. quantity \in U64 /\ resting.open = Plus(hit.open, quantity) /\ resting.price \in U64
    BY <1>1, <1>4, ExecuteAmount, Zenon DEF Order
  <1>7. hit \in Order /\ SamePlace(hit, resting)
    BY <1>4, <1>6, ExecuteTyped, WidthAssumption
  <1>8. hit.id = id /\ MapOf(hit) = m
    BY <1>4, <1>7, SamePlaceSameLevel, Zenon
  <1>9. \/ /\ VolumeCovers(levels[m][p], quantity)
           /\ \E events, frames : Settle(hit, p, quantity, events, frames)
           /\ updated_levels' = updated_levels
        \/ Abort
    BY <1>2, Zenon DEF Trade
  <1> HIDE DEF m, id, quantity, hit
  <1>10. CASE Abort
    BY <1>10 DEF Abort
  <1>11. CASE /\ VolumeCovers(levels[m][p], quantity)
              /\ \E events, frames : Settle(hit, p, quantity, events, frames)
              /\ updated_levels' = updated_levels
    <2>1. Changed(hit, quantity)
      BY <1>1, <1>4, <1>5, <1>6, <1>7, <1>8, <1>11, SettleIs
    <2>2. QED
      BY <1>1, <1>2, <1>6, <1>7, <1>8, <2>1, Zenon DEF id, m
  <1>12. QED
    BY <1>9, <1>10, <1>11

\* What the public operations do by themselves.
LEMMA RequestIs ==
    ASSUME IndexInv, Request
    PROVE  BookStep
  <1>1. ASSUME NEW o \in Tickets, AddOrder(o)
        PROVE  BookStep
    BY <1>1 DEF AddOrder, BookStep
  <1>2. ASSUME NEW id \in DOMAIN orders, NEW frames, Idle, Delete(id, frames)
        PROVE  BookStep
    BY <1>2, StillAt, DeleteIs
  <1>3. ASSUME NEW id \in DOMAIN orders, NEW quantity \in ExecuteQuantities,
               ExecuteOrder(id, quantity)
        PROVE  BookStep
    <2>1. Idle /\ ExecuteAt(id, quantity, orders[id].order.price)
      BY <1>3 DEF ExecuteOrder
    <2>2. orders[id].order.price \in U64
      BY <2>1, StillAt, EntryToLevel DEF Order
    <2>3. QED
      BY <2>1, <2>2, ExecuteIs
  <1>4. ASSUME NEW id \in DOMAIN orders, NEW quantity \in ExecuteQuantities,
               NEW price \in ExecutePrices, ExecuteOrderAtPrice(id, quantity, price)
        PROVE  BookStep
    BY <1>4, ExecuteIs, InputsAssumption DEF ExecuteOrderAtPrice
  <1>5. QED
    BY <1>1, <1>2, <1>3, <1>4, CancelOrderIs, Zenon DEF Request, DeleteOrder, ModifyOrder

\* Every step leaves the book alone, moves one order into it or out of it, changes what
\* is open of one, or moves trailing stops.
LEMMA BookSteps ==
    ASSUME IndexInv, Next
    PROVE  BookStep
  <1>1. CASE Request
    BY <1>1, RequestIs
  <1>2. CASE AddToMarket \/ AddReachedStop \/ CheckLiquidity \/ StartActivation \/ EndScan
             \/ ReissueOrder \/ KeepTrailingLevels
    BY <1>2, Zenon DEF AddToMarket, AddReachedStop, CheckLiquidity, StartActivation, EndScan,
                ReissueOrder, KeepTrailingLevels, BookStep
  <1>3. CASE AddPendingStop
    <2> DEFINE s == WithStopPrice(Top.order)
    <2>1. Still /\ s \in Order
      BY <1>3, CallFindsIndex, WithStopPriceTyped DEF AddPendingStop, ControlTyped
    <2>2. Insert(s, <<BeginActivation>>, <<Added(Top.order)>>)
      BY <1>3 DEF AddPendingStop
    <2> HIDE DEF s
    <2>3. QED
      BY <2>1, <2>2, InsertIs
  <1>4. CASE KillOrder \/ EndMatch
    <2>1. Still /\ Top.order \in Order /\ Complete(Top.order)
      BY <1>4, CallFindsIndex DEF KillOrder, EndMatch
    <2>2. UNCHANGED book \/ Insert(Top.order, <<>>, <<>>)
      BY <2>1 DEF Complete
    <2>3. QED
      BY <2>1, <2>2, InsertIs DEF BookStep
  <1>5. CASE Match
    BY <1>5, MatchIs DEF BookStep
  <1>6. CASE ActivateStopOrder
    <2> DEFINE m == <<Top.kind, Top.side>>
    <2>1. Still /\ Top \in ScanFrame
      BY <1>6, CallFindsIndex DEF ActivateStopOrder
    <2>2. m \in LevelMap
      BY <2>1 DEF ScanFrame, LevelMap
    <2>3. PICK p \in DOMAIN levels[m] :
            \E frames : Delete(Head(levels[m][p].orders), frames)
      BY <1>6 DEF ActivateStopOrder
    <2>4. QED
      BY <2>1, <2>2, <2>3, FrontToEntry, DeleteIs
  <1>7. CASE MoveTrailingStop \/ SwapTrailingLevels
    BY <1>7 DEF BookStep
  <1>8. QED
    BY <1>1, <1>2, <1>3, <1>4, <1>5, <1>6, <1>7 DEF Next, Step

-----------------------------------------------------------------------------
(* The theorems                                                            *)

\* A new book is empty.
LEMMA InitIndex == Init => IndexInv
  <1> SUFFICES ASSUME Init
               PROVE  IndexInv
    OBVIOUS
  <1>1. \A m \in LevelMap : levels[m] = EmptyMap
    BY DEF Init
  <1>2. BookTyped
    BY <1>1, EmptyMapIsMap DEF Init, BookTyped
  <1>3. ControlTyped
    <2>1. 0 \in U64 /\ MaxU64 \in U64
      BY MaxU64Assumption DEF U64
    <2>2. emitted \in Seq(Event)
      BY DEF Init
    <2>3. QED
      BY <2>1, <2>2 DEF Init, ControlTyped
  <1>4. GoodStack(stack)
    BY DEF Init, GoodStack
  <1>5. Still
    BY <1>1, EmptyMapIsMap DEF Init, Still, QueuesOK, NonEmpty
  <1>6. QED
    BY <1>2, <1>3, <1>4, <1>5, Parts

\* The inductive invariant: at every step of every call the values have their types
\* and the index is settled, or spread over the map whose trailing stops are being
\* moved and the temporary one.
THEOREM IndexInvariant == Spec => []IndexInv
  <1>1. IndexInv /\ [Next]_vars => IndexInv'
    <2> SUFFICES ASSUME IndexInv, [Next]_vars
                 PROVE  IndexInv'
      OBVIOUS
    <2>1. CASE Request
      BY <2>1, RequestKeepsIndex
    <2>2. CASE Step
      BY <2>2, StepKeepsIndex
    <2>3. CASE UNCHANGED vars
      BY <2>3, AbortStep, Parts DEF vars, book, prices, ControlTyped
    <2>4. QED
      BY <2>1, <2>2, <2>3 DEF Next
  <1>2. QED
    BY <1>1, InitIndex, PTL DEF Spec

\* No price, quantity or volume leaves uint64_t, every event and every call carries
\* an order, and the stack holds nothing but calls of the code.
THEOREM TypeCorrect == Spec => []TypeOK
  <1>1. IndexInv => TypeOK
    BY DEF IndexInv
  <1>2. QED
    BY <1>1, IndexInvariant, PTL

\* No loop calls front() on an empty level: a map holds one only while its trailing
\* stops are being moved.
THEOREM LevelsNotEmpty == Spec => []NoEmptyLevel
  <1>1. IndexInv => NoEmptyLevel
    BY DEF IndexInv, Still, Underway, NonEmpty, NoEmptyLevel, Moving
  <1>2. QED
    BY <1>1, IndexInvariant, PTL

\* The two indexes of the book agree: an order is linked once, where its entry says
\* and where its type, side and price select.
THEOREM IndexesAgree == Spec => []IndexConsistent
  <1>1. IndexInv => IndexConsistent
    <2> SUFFICES ASSUME IndexInv
                 PROVE  IndexConsistent
      OBVIOUS
    <2>1. ASSUME NEW id \in DOMAIN orders
          PROVE  LET o == orders[id].order IN
                 /\ o.id = id
                 /\ orders[id].level_it = KeyOf(o)
                 /\ \E l \in LevelsOf(MapOf(o)) : l[1] = KeyOf(o) /\ id \in Range(l[2].orders)
      <3> DEFINE m == MapOf(orders[id].order)
                 k == KeyOf(orders[id].order)
      <3>1. Indexed(id)
        BY DEF IndexInv, Still, Underway
      <3>2. CASE LinkedIn(levels[m], id)
        <4>1. <<k, levels[m][k]>> \in LevelsOf(m) /\ id \in Range(levels[m][k].orders)
          BY <3>2 DEF LinkedIn, Linked, LevelsOf
        <4>2. QED
          BY <3>1, <4>1 DEF Indexed
      <3>3. CASE Moving(m) /\ LinkedIn(updated_levels, id)
        <4>1. <<k, updated_levels[k]>> \in LevelsOf(m) /\ id \in Range(updated_levels[k].orders)
          BY <3>3 DEF LinkedIn, Linked, LevelsOf
        <4>2. QED
          BY <3>1, <4>1 DEF Indexed
      <3>4. QED
        BY <3>2, <3>3 DEF IndexInv, Still, Underway, Moving
    <2>2. ASSUME NEW m \in LevelMap, NEW l \in LevelsOf(m)
          PROVE  /\ IsInjective(l[2].orders)
                 /\ \A id \in Range(l[2].orders) :
                      /\ id \in DOMAIN orders
                      /\ MapOf(orders[id].order) = m
                      /\ KeyOf(orders[id].order) = l[1]
      <3>1. QueuesOK(m, levels[m]) /\ (Moving(m) => QueuesOK(m, updated_levels))
        BY EmptyMapIsMap DEF IndexInv, Still, Underway, Moving, QueuesOK
      <3>2. CASE l \in {<<p, levels[m][p]>> : p \in DOMAIN levels[m]}
        BY <3>1, <3>2 DEF QueuesOK
      <3>3. CASE Moving(m) /\ l \in {<<p, updated_levels[p]>> : p \in DOMAIN updated_levels}
        BY <3>1, <3>3 DEF QueuesOK
      <3>4. QED
        BY <3>2, <3>3 DEF LevelsOf
    <2>3. QED
      BY <2>1, <2>2 DEF IndexConsistent
  <1>2. QED
    BY <1>1, IndexInvariant, PTL
=============================================================================
