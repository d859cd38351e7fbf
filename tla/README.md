# quantaTrader in TLA+

quantaTrader is a limit-order-book matching engine in C++: an `Engine` routes
requests to one order book per symbol, and a book matches, rests, executes and
deletes orders and sets off stop orders. Nothing is concurrent in it. The README
of the program speaks of asynchronous event handling, but there is no queue and no
thread: every event is a virtual call (`handleOrderAdded`, ..., `handleSymbolDeleted`)
made in the middle of the operation that causes it, and the operation goes on when
the handler returns.

What makes the book hard to get right is that it re-enters itself. `match` calls
`deleteOrder` for an order it has filled; `deleteOrder` ends with
`activateStopOrders`; that takes a stop order, *deletes it* (which activates the
next stop orders, and so on) and sends a copy of it to `match`; all the while the
outer loops are half done and hold iterators, copies of orders and cached prices.
The specification makes that recursion explicit and checks the book at every
point of it, not only between requests.

Paths below are relative to the repository; `book.cpp` is
`src/matching/price_level_order_book.cpp`.

## Inventory

| Component | State | Operations | Modelled by |
|---|---|---|---|
| Order (`order.h`, `order.cpp`) | id, type, side, time in force, price, stop price, trail amount, quantity, executed and open quantity, last executed price | ten factories, `execute`, `setQuantity` | `Orders` |
| Level (`level.h`, `level.cpp`) | price, intrusive list of orders, volume | `addOrder`, `deleteOrder`, `popFront`, `reduceVolume` | `Levels` |
| PriceLevelOrderBook (`book.cpp`, `price_level_order_book.h`) | the hash map of orders, six maps of levels (limit, stop, trailing × side), three prices | `addOrder`, `deleteOrder`, `modifyOrder`, `cancelOrder`, `executeOrder` (two), and what they call | `PriceLevelOrderBook` |
| OrderBook (`order_book.h`) | what a client of a book sees | the same, as promises | `Exchange`, abstract |
| Event, EventHandler (`event.h`, `event_handler.h`) | none; a listener keeps its own | one callback per kind of event | `emitted` of `PriceLevelOrderBook` and `event` of `Engine`; listeners in `Listener` and `EngineProperties` |
| Engine, OrderBookHandler, Symbol (`engine.cpp`, `symbol.h`) | the symbols by id; the books by symbol id | `addSymbol`, `deleteSymbol`, the order requests | `Engine` |
| robin_hood (`libs/robin_hood.h`) | the table of info bytes and node pointers, the pool of nodes | `emplace`, `find`, `erase`, destruction, rehashing | `BulkPool`, `RobinHoodMap`; `AddressMap`, abstract |
| printing, export, sample, benchmark | none | | not modelled |

Interactions: engine → handler → book by call; book → level by call and through the
`level_it` iterator its index keeps per order; level → order by a list node inside the
entry of the hash map; book and handler → event handler by callbacks inside their
operations; book → book by the recursion above.

What can go wrong, and the properties for it:

* **Two indexes of the same orders.** `orders` and the levels have to agree at every
  call, since every operation goes from one to the other unchecked
  (`level_it` dereferenced, `front()` on the first level): `IndexConsistent`,
  `NoEmptyLevel`.
* **Cached volume.** `Level::volume` is kept by hand in six places, and the
  assertion of `reduceVolume` looks at it: `VolumeConsistent`, `NoAssertionFails`.
* **Copies.** A call holds a copy of the order it deleted or is about to insert:
  `OneCopyOfEachOrder`; and what clients are owed through all of it, that no quantity
  is traded twice, on one side only or at a price somebody did not accept, and that
  no order is lost: `KeepsPromise`.
* **Matching across re-entrance.** Stop orders that go off inside a match trade and
  rest on both sides of the book: `BookUncrossed`, `PriceTimePriority`, `FillOrKill`.
* **Stop orders.** Which go off, in which order, and whether any stays behind:
  `SellStopsSettled`, `AllStopsSettled`, `StopsActivatedInOrder`,
  `TrailingStopsRatchet`.
* **The recursion itself**: `StackBounded`, `RequestsComplete`.
* **Events in the middle of nested calls.** A listener that believes them has to end
  with the book: `CopyIsTheBook`.
* **Two maps in two objects, and exceptions in between** (engine): `DirectoriesAgree`,
  `ListenerKnowsBooks`, `OnlyTheBookAskedFor`.
* **Addresses.** Levels link orders inside the entries of the hash map, which shifts,
  rehashes and recycles storage: `ImplementsAddressMap`, `CellsDisjoint`,
  `InfoBytesTrue`, `EntriesFound`.
* **Width of integers**: `TypeOK` (no value leaves `uint64_t`),
  `ReportedPriceIsTradedPrice`, `NoAssertionFails`, `InfoBytesTrue`.

## Modules

```
U64            uint64_t arithmetic that wraps around, std::map as a function
 └ Orders      Order, factories, execute, setQuantity, which map and key an order has
    └ Levels   Level
       ├ PriceLevelOrderBook        the book: state, requests, steps, Spec, FairSpec
       │  └ OrderBookProperties     what is checked; the refinement of Exchange
       │     ├ Listener             the book with a listener that copies it
       │     ├ MCOrderBook          instances for TLC
       │     │  └ MCListener        the same, with the listener
       │     └ OrderBookProofs      the inductive invariant, TypeOK, NoEmptyLevel, IndexConsistent
       │        ├ MatchingProofs    BookUncrossed, PriceTimePriority
       │        └ CallProofs        OneCopyOfEachOrder, StackBounded, SellStopsSettled
       │           ├ VolumeProofs   VolumeConsistent, NoAssertionFails
       │           └ ClientProofs   KeepsPromise
       │              └ ListenerProofs  CopyIsTheBook (also extends Listener)
Exchange       what a client may expect of a book (abstract)

Engine
 └ EngineProperties                 a listener of symbols; what is checked
    ├ MCEngine
    └ EngineProofs

BulkPool       the storage of the hash map's nodes
 └ RobinHoodMap                     the hash map itself
    └ HashMapProperties             what is checked; the refinement of AddressMap
       ├ MCRobinHoodMap
       └ HashMapProofs              the inductive invariant, all that is checked, the refinement
AddressMap     a map whose entries do not move (abstract)
```

How they compose. `Listener` runs the book and a listener in lock step, since a
callback is over before the book goes on. `Engine` has a book of its own per symbol
as the set of the ids in it, and lets a request change that set as
`KeepsPromise` says a book may: only the order a request brings comes in, any may
leave. The book in turn keeps `orders` as a function, which `RobinHoodMap` is shown
to be: an `AddressMap` gives an entry one address for life, and it is these addresses
that lists of ids in a level stand for.

### The book

* `orders`: the hash map; an entry has the order and the key `level_it` points to.
* `levels[<<kind, side>>]`: the six maps, price → level. A level is a volume and the
  sequence of ids in its list. `updated_levels` is the local map
  `updated_trailing_levels` of the two trailing updates.
* `last_traded_price`, `trailing_buy_price`, `trailing_sell_price`: the members.
* `stack`: the call stack, innermost call first. A frame is the part of a call's
  locals that it still needs: the order a call carries (`add`, `check`, `match`,
  `reissue`), the cached price and the result of a scan of stop levels (`scan`), the
  side of a trailing update (`update`), or nothing (`begin`, an `activateStopOrders`
  about to start).
* `emitted`: the events of the last step. `aborted`: an assertion failed.

A public operation (`Request`) needs an empty stack; it does its own work and leaves
frames for the calls that remain. `Step` runs the innermost call up to its next call
or loop iteration:

| Action | Code |
|---|---|
| `AddOrder`, `AddToMarket`, `AddReachedStop`, `AddPendingStop` | `addOrder` and `addMarketOrder`, `addLimitOrder`, `addStopOrder` up to `match` or the insertion |
| `CheckLiquidity`, `KillOrder` | one iteration of `canMatchOrder`; its answer is no |
| `Match`, `EndMatch` | one iteration of the inner loop of `match`, with the trade and the deletion of a filled order; the end of it and what `addMarketOrder`/`addLimitOrder` do then |
| `StartActivation`, `ActivateStopOrder`, `EndScan`, `ReissueOrder` | `activateStopOrders`, the four scans, the two halves of `activateStopOrder` around the nested activation |
| `MoveTrailingStop`, `SwapTrailingLevels`, `KeepTrailingLevels` | the loop and the two ends of `updateTrailing*StopOrders` |
| `DeleteOrder`, `ModifyOrder`, `CancelOrder`, `ExecuteOrder`, `ExecuteOrderAtPrice` | the operations of the same names |

Two shapes are shared: `Delete` (the body of `deleteOrder`, which pushes a `begin`
frame for its activation) and `Settle` (reduce the volume, then store the order or
delete it).

Abstractions: the timestamp, the symbol id, `toString`, printing and export are left
out. `level_it` is the key it points at, list nodes are ids. An operation on an id
that is not in the book is undefined behaviour in the code (an unchecked
`find`) and is not an action. An id that is live when its order is inserted makes
`emplace` keep the old entry and link its node a second time, which the safe-link
hook of boost asserts against: the model aborts. `CMakeLists.txt` does not
define `NDEBUG`, so assertions end the process. `CallerContract` says whether callers
keep live ids distinct and cancel downwards only.

### What a client sees

`Exchange` knows no maps, levels or calls: `alive`, the orders of which something is
open, each with its side, whether it waits for a stop price, the worst price it
accepts and whether it may rest; `market`, the last traded price; and `working`. Its
actions are the requests and four things a book does of its own: two orders trade, a
stop order goes to the market, an order that may not rest is given up, the request
ends. `KeepsPromise` is `Exchange`'s specification under

* `alive <- Alive`: the orders of the book *and* the copies that calls on the stack
  hold, as far as something is open (`AsSeen` maps an order to what matters). An order
  is alive while `activateStopOrder` has deleted it and not yet sent it to `match`,
  although no map has it then;
* `market <- last_traded_price`, `working <- stack # <<>>`.

Most steps of the recursion are stutters of `Exchange`. `Exchange` promises nothing
about which orders trade first (that is `PriceTimePriority`) nor about trailing
stops' prices, which clients do not set.

`Listener` adds `heard`, the copy of the book a client can keep from events alone:
`Deleted` forgets an order, every other event stores what it carries, also for an
order it was told is deleted, since a stop order that goes to the market is reported
deleted first and updated after. `CopyIsTheBook` compares `AsSeen` between requests:
the stop price `addStopOrder` computes for a trailing stop is not reported.

### The engine

`symbol_id_to_symbol` and `symbol_to_order_book` are the maps of `Engine` and of
`OrderBookHandler`. A request is in two or three steps, `call` being what the engine
has called and not returned from: `addSymbol` replaces the symbol, then
`addOrderBook` throws (`ThrowExists`) or makes the book and calls the handler;
`deleteSymbol` deletes the book, calls the handler, and only then erases the symbol;
order requests run in a book or throw (`ThrowUnknown`). A handler runs between those
steps and may see the engine half way. A `deleteSymbol` for an unknown symbol does
nothing and is no step. Handlers do not call the engine back; those of the repository
do not.

### The hash map

The index of a book is a `robin_hood` map of the node kind: its entries are larger
than six words. `table` has the members of `Table` (buckets, hash multiplier, number
of elements, `mMaxNumElementsAllowed`, `mInfoInc`, the info bytes, the node pointers);
`nodes` the entries that are constructed, by cell of storage; `pool` the
`BulkPoolAllocator`. A step is one attempt of `insertKeyPrepareEmptySpot`, one node
that `rehashPowerOfTwo` moves (`old` has those it has not), or a whole call that does
neither. `Addresses` maps it to `AddressMap`: key → cell, for entries in the table or
still to be moved. An exception in a rehash loses entries (`lost <- thrown`), after
which nothing is promised. Info bytes have their width: arithmetic on them is modulo
`InfoByte + 1`, and that nothing wraps is part of `InfoBytesTrue`.

## Runs

Ids are model values and interchangeable (symmetry, in safety runs only). In the runs
of the book `MaxU64` is 4, 9 or 15: small enough for sentinels and wrap-around to be
hit by the prices and quantities in use, large enough for the prices to be told
apart. Every order a caller may add is a *ticket*; the sets of tickets are the bounds,
and within them every sequence of requests is explored. There are no other bounds: ids
are free again when an order is gone, so behaviours are infinite while the states are
finite.

| Run | What it asks | Bounds |
|---|---|---|
| `Matching` | `VolumeConsistent`, `BookUncrossed`, `NoAssertionFails`, `PriceTimePriority`, `CopyIsTheBook`, `KeepsPromise` under every request | `MCListener`; 3 ids, 2 prices, quantities 1–2, limit GTC/IOC/FOK and market orders; 187 000 states |
| `Stops` | `TypeOK`, `IndexConsistent`, `NoEmptyLevel`, `VolumeConsistent`, `OneCopyOfEachOrder`, `StackBounded`, `SellStopsSettled`, `CopyIsTheBook`, `KeepsPromise` with stop, stop-limit and trailing orders set off by trades | `MCListener`; 4 ids, so that two stop orders can go off inside one trade of two limit orders; 409 000 states |
| `Misuse` | `IndexConsistent`, `VolumeConsistent`, `BookUncrossed` without the callers' contract; the process may end | `MCOrderBook`; 2 ids, `MaxU64` 4, volumes overflow; 260 000 states |
| `Completion` | `RequestsComplete` under `FairSpec`; `SellStopsSettled` when the trades leave the resting order in the book, so that only the outer loop of `activateStopOrders` is left to find the next stop | `MCOrderBook`; 3 ids, quantity 3, FOK, stop, stop-limit FOK, trailing; no symmetry |
| `Engine` | `TypeOK`, `DirectoriesAgree`, `ListenerKnowsBooks`, `OnlyTheBookAskedFor` | `MCEngine`; 2 symbols, 2 names, 2 orders |
| `HashMap` | `TypeOK`, `InfoBytesTrue`, `CellsDisjoint`, `EntriesFound`, `ImplementsAddressMap` | `MCRobinHoodMap`; 5 keys, 8 buckets at first, see below; 211 000 states |

Two orders at a price, two prices a side and one order to trade with them
are what a violation of priority or of the index needs; a third stop order going off
inside two others repeats the same frames one level deeper, which the proofs cover.
Two symbols are what a request for the wrong book needs.

`Matching` has no stop orders, as three ids are not enough for them and a book to trade
with. Stop orders that go off inside a match are in `Misuse` (`BookUncrossed`; the stops are
market orders there, so none comes to rest), in `Stops` (`VolumeConsistent`,
`CopyIsTheBook`, `KeepsPromise`), and in the theorems `NeverCrossed`, `PriorityKept`,
`AssertionsHold` and the others below, which have no bounds.

The map's bounds are chosen so that the rare paths are the usual ones. The bytes have three
bits (`InfoByte` 7, a step of 4, halved once) instead of eight, so that a byte has room
for three steps, and an insertion gives up after 4 attempts instead of 256. The first
table has 8 buckets, as in the program. With the first multiplier all five keys start in
its last bucket and use the overflow area; in a table of 16 two of them are apart from
the other three. With the second multiplier the two start in front of the three. So:

* a fourth key finds the byte of the third used up: the table grows to 16, also when
  nodes are in the overflow area, and the old one becomes a cell of the pool, which the
  fifth entry gets. The pool starts with 4 cells, as in the program; the sixth node, made by
  `emplace` for a key that exists, needs a block more. An element has 96 bytes, so that the
  first old table is already large enough for one. (In the program it is the second.)
  In the model memory of an old table is numbered like new memory: what the pool is given is
  distinct from all it had, and `CellsDisjoint` says that afterwards no cell is in two
  nodes, nor in a node and the free list;
* in 16 buckets, of which five keys are never enough to grow, the map is rehashed at the
  same size with the other multiplier, and back; so it is in 8 after erasures;
* five keys fit in with the first multiplier; a rehash that has moved the three and has another
  to move throws half way; an insertion that finds the three with either multiplier gives up.

Deadlock is checked except in `Misuse` and `HashMap`, where the process may end by a
failed assertion or by an exception that nothing catches.

Six runs show where the code does not do what its comments or its README say. Each
checks one property and TLC finds the counterexample:

| Run | Property | The code |
|---|---|---|
| `FillOrKillPartly` | `FillOrKill` | `canMatchOrder` never advances its iterator (book.cpp:489, 502) and counts the best level again and again: a FOK order larger than the book is partly executed, then deleted |
| `StopsLeftBehind` | `AllStopsSettled` | `cont` of the buy scan is overwritten by that of the sell scan (book.cpp:362), and each scan compares with a price read before it: a due buy stop can be left |
| `StopsReversed` | `StopsActivatedInOrder` | the deletion inside `activateStopOrder` (book.cpp:418) activates the next order of the level first: last in, first out |
| `TrailingFallsBack` | `TrailingStopsRatchet` | `trailing_buy_price`/`trailing_sell_price` are written only when no stop is moved (book.cpp:325, 352): stops follow the market back |
| `TruncatedPrice` | `ReportedPriceIsTradedPrice` | `Order::execute` takes the price as `uint32_t` (order.h:105); `MaxU32` is smaller than `MaxU64` here |
| `CancelUpwards` | `NoAssertionFails` | `setQuantity` caps the wrong member (order.h:102): cancelling to more than is open wraps around |

Also seen while modelling, and part of the model, but without a run: all-or-none is
treated as good-till-cancel (order.h:33); a stop order that arrives before anything
was traded looks reached on both sides; trailing stops of a lower level go first when
levels merge; an execution of zero quantity sets the last traded price; `OrderDeleted`
is emitted for a stop order that goes on as a market or limit order; a volume can
exceed `uint64_t` (level.cpp:52); `addSymbol` for a symbol that exists renames it
before it throws (engine.cpp:102).

### Fairness

`FairSpec` is `Spec /\ WF_vars(Step)`: the calling thread goes on with a request it
has started. Nothing obliges a caller to make a request. `Step` is the single thread,
so weak fairness on the whole disjunction is all that is needed: in no state do two
of its actions compete over time, and fairness of each would add nothing.

## Proofs

`tlapm` checks the following. Those about the book are for every set of ids, tickets and
inputs and every integer width with `MaxU32 <= MaxU64`; they hold with or without the
callers' contract, except `OneCopy`, `AssertionsHold`, `ClientsServed` and
`ListenerHasTheBook`, which assume it. Those about the engine are for any sets of
symbols, names and orders; those about the hash map for any keys, any hashes, any load
factor and any sizes of table, byte and pool block.

| Theorem | Statement |
|---|---|
| `IndexInvariant` | `Spec => []IndexInv`, the inductive invariant |
| `TypeCorrect`, `LevelsNotEmpty`, `IndexesAgree` | `Spec => []TypeOK`, `[]NoEmptyLevel`, `[]IndexConsistent` |
| `NeverCrossed` | `Spec => []BookUncrossed` |
| `PriorityKept` | `Spec => PriceTimePriority`, an action property |
| `OneCopy` | `CallerContract` gives `Spec => []OneCopyOfEachOrder` |
| `DepthBounded` | `Spec => []StackBounded` |
| `SellStopsAreSettled` | `Spec => []SellStopsSettled` |
| `VolumesInvariant`, `VolumesAgree` | `Spec => []VolumeInv`, `[]VolumeConsistent` |
| `AssertionsHold` | `CallerContract` gives `Spec /\ []VolumesFit => []NoAssertionFails` |
| `ClientsServed` | `CallerContract` gives `Spec => KeepsPromise`: the book implements `Exchange` |
| `ListenerHasTheBook` | `CallerContract` gives `ListenerSpec => []CopyIsTheBook` |
| `EngineTypeCorrect`, `MapsAgree`, `ListenerInformed` | `ListenerSpec => []TypeOK`, `[]DirectoriesAgree`, `[]ListenerKnowsBooks` |
| `BooksIsolated` | `ListenerSpec => OnlyTheBookAskedFor` |
| `HashMapInvariant` | `Spec => []HashMapInv`, the inductive invariant of the hash map |
| `TypeCorrect`, `InfoBytesTruthful`, `CellsAreDisjoint`, `EntriesAreFound` of `HashMapProofs` | `Spec => []TypeOK`, `[]InfoBytesTrue`, `[]CellsDisjoint`, `[]EntriesFound` |
| `MapKeepsAddresses` | `Spec => ImplementsAddressMap`: the hash map implements `AddressMap` |

Assumptions on constants: `MaxU64` is a positive natural number, `MaxU32` a natural
number not above it; tickets are orders with nothing executed; inputs are in
`uint64_t` (`MaxU64Assumption`, `MaxU32Assumption`, `WidthAssumption`,
`InputsAssumption`; TLC evaluates them in every run of the book). For the hash map
(`PoolAssumption`, `TableAssumption`) sizes are positive, the first table has at
least two buckets, the load factor is between 11 and 99 per cent (a table of one bucket
then holds nothing, and no table is ever full), and the first step of the info bytes is a
power of two from 4 to 128, such that the byte of a node at home, its hash bits included,
fits. The program has 8 buckets, 80 per cent, a step of 32 and bytes up to 255
(`src/libs/robin_hood.h`:944-946, 2518); sizes are numbers without a bound.

*Why a stronger invariant.* `IndexConsistent` alone is not inductive. A step walks
from an entry to its level or from the front of a level to its entry, which needs
types and non-empty levels; and during a trailing update the index is spread over
two maps. `IndexInv` is `TypeOK`, `StackShape` (only the innermost call updates
trailing stops: every frame below it is of another kind) and one of

* `Still`: the temporary map is empty, no level is empty, every queue links its orders
  once under the map and key they select, and every entry is linked where it points;
* `Underway`: a trailing update is running; the map it empties may have empty
  levels, and an order of that map is linked in one of the two maps and never in both.

*The argument.* `OrderBookProofs` begins with what arithmetic, the maps, the operations of
an order and the queue of a level (append, unlink, pop) preserve, and proves the five
ways the code changes the index: insert (`InsertStill`), remove (`RemoveStill`), change
quantities (`ChangeStill`), move one trailing stop (`MoveUnderway`) and swap the maps
(`SwapStill`). It goes on through the requests and the steps, each of which
is one of those five or leaves the book alone, with the shape of the stack (`BusyStack`,
`PushFrame`). `MatchingProofs` then shows that the limit maps gain no level
(`NoNewLimitLevel`) except when `Complete` rests an order, and that nothing crosses it
there.

*Priority.* Places in a queue are compared by who is ahead of whom (`Ahead`), since the
number of a place changes whenever somebody in front leaves. Appending, unlinking and
popping keep that order (`AppendAhead`, `UnlinkAhead`, ...), and a limit order that stays
in the book keeps its map and key (`PlacesKept`). Each of the five ways to change the index
keeps the queues of limit orders (`QueuesKept`), moving trailing stops included, as those
are in other maps. `match` takes the front of the level it found best, and nobody is
before that one (`MatchTakesFirst`).

*Copies.* Every step either takes an order out of the book and hands it to the call it
makes, or puts the order it holds into the book and returns, or passes it on.
`CallProofs` has one lemma per way a stack changes (a call with or without an order
is made, returns, goes on) for the predicate "these calls hold distinct orders, none
with an id in this set"; `IndexInv` says that the order taken out is the one with that
id.

*Depth.* `StackBounded` counts, and counting is not inductive. `CallProofs` shows the
shape it comes from (`Alternate`): below a call that holds no order is one that does,
except at the bottom, where a request may leave two. The calls without an order then
map one to one to the calls below them. `addOrder` is where it could fail, as it puts
`match` and a `begin` in its own place; it is at the bottom or over one call.

*Sell stops.* Nested activations may return with a due stop left in the book, so nothing
can be said of them; all depends on the activation a request leaves at the bottom of
the stack. It learns of what ran above it by one bit, that it has activated something
(`SettledInv`): as long as it has not, nothing ran above it since it started, so the
price it has read is the market price (`Outermost`), and the stops it found not due are not
due; when it has, it goes round again. The symmetric statement for buy stops is false
(`StopsLeftBehind`).

*Volumes.* `VolumeConsistent` is a sum, defined by a recursive function over sets that
takes elements out by `CHOOSE`. `VolumeProofs` first shows that such a function exists on
the subsets of any finite set and that any element may be taken out first, by the smallest
counterexample, as induction over an operator is out of reach. The rest is arithmetic
modulo `MaxU64 + 1`, and one lemma for each of the five ways the index changes. The
volume is compared modulo the width because `addOrder` lets it wrap around. The
assertion of `reduceVolume` can then fail for a volume that wrapped: hence the hypothesis
`VolumesFit` of `AssertionsHold`, that what is open at one price adds up to a `uint64_t`.
The code enforces neither that nor the contract; in the instances of `Matching` and
`Stops` it holds in every state, and in `Misuse` the assertion fails.

*Clients.* Since an order is in one place, what a client sees is a function (`Seen`) of
the set of copies, whoever holds them: `ClientProofs` understands a step by the copies
it replaces, and most replace none. Trades need arithmetic: `open` and `executed`
never add up to more than `uint64_t`, so `execute` does not wrap. The mapping of the
other steps needs what calls hold (`ClientInv`): `match` holds limit orders, or market
orders with the price that accepts any other; `activateStopOrder` holds what was a stop
order in the book; neither is the outermost call, so that `working` stays; and limit
orders in the book are of type limit and have something open.

*Listener.* Between steps a listener knows the orders in the book and those that calls
of `match` (and `canMatchOrder`) hold, and no others (`HeardInv`): an order that
`addOrder` holds is not yet reported, one that `activateStopOrder` holds is reported
deleted. A step reports at most three events; `HearRight` says that it is enough that
the last event about each order of the step is right. The fold over the events is opened
once, for sequences of one, two and three (`HearOne`, `HearTwo`, `HearThree`).

*The engine.* `DirectoriesAgree` is inductive with `TypeOK` and `CallTrue`, what the
halves of a request find in the two maps when their turn comes.

*The hash map.* A lookup stops at the first byte that says "nearer to home than you would
be", and an insertion goes in front of it. Both are right only as long as the nodes of a
cluster are sorted by distance (`Sorted`): then no bucket between a node and its home has
one that is nearer to its own (`NoneIsNearer`), so that `findIdx` gets to the node
(`NodeIsFound`) and `insertKeyPrepareEmptySpot` does not overlook its key (`KeyIsFound`).
Sortedness needs bytes that do not wrap, hence `Roomy`: in a table that may be inserted
into every byte has room for one step more. `shiftUp` clears `mMaxNumElementsAllowed` when
that stops being so, and the next insertion halves the step or rehashes. That a shift ends
in front of the sentinel is a count: a table has more buckets and overflow than nodes, so
there is an empty bucket behind any home (`HasEmpty`), also while a rehash has nodes to
bring (`TableOK` counts them). `PlaceOK`, `ShiftDownOK`, `IncreaseOK` and `InitDataOK` are
the four ways a table changes; halving a step keeps the order of the bytes because `t.inc`
divides the first step (`HalfAByte`). Cells follow the pool (`AllocateOK`,
`DeallocateOK`, `AddOrFreeOK`): memory of an old table becomes cells no one has had. For the
refinement each step's lemma also says what happens to the entries; `KeyIsNew` keeps the keys
of entries distinct, which makes `Addresses` a function of them.

Only model-checked: `RequestsComplete` is liveness under fairness, beyond the prover:
that the recursion ends is not proved, only that it is never deeper than `StackBounded`
says. The properties that the code violates are refuted by their runs.

## Not modelled

* Printing and export: `toString`, `operator<<` and writing a book to a file have no
  effect on the state. Sample and benchmark are callers; the orders they add are among the tickets.
* Of `robin_hood.h`, what the book does not use: copying, moving and swapping maps,
  iterators and `clear`, `reserve` and `rehash` by request, sets,
  and the flat layout, which the engine's map of symbols has. Nothing of the program
  keeps a pointer into that map across a change of it, but for the iterator of
  `deleteSymbol`, which is at risk only from a handler that calls the engine. The
  mixing of hashes is data: any `Hash`. The book's `operator[]` (book.cpp:316, 342) is
  given keys that exist only; it finds them as `emplace` does (`KeyFound`) and changes
  nothing. Unused members of `Level` (`removeFront`, `back`, `popBack`, ...) have no
  caller.
* Handlers that call the engine back; operations on unknown ids (undefined behaviour).
* The time an order arrived: nothing in the code reads the timestamp, so when levels of
  trailing stops merge there is no age to compare.
