------------------------------- MODULE Orders -------------------------------
(***************************************************************************)
(* struct Order of src/include/matching/order.h and its factory functions  *)
(* in src/src/matching/order.cpp.  The timestamp and the symbol id are     *)
(* left out: no decision of the order book reads the first, and a book     *)
(* holds the orders of one symbol.                                         *)
(***************************************************************************)
EXTENDS U64

CONSTANTS
    OrderId,   \* the ids callers give to orders
    MaxU32     \* the largest uint32_t

ASSUME MaxU32Assumption == MaxU32 \in Nat

Side == {"SELL", "BUY"}
OrderType ==
    {"MARKET", "LIMIT", "STOP", "STOP_LIMIT", "TRAILING_STOP", "TRAILING_STOP_LIMIT"}
TimeInForce == {"GTC", "IOC", "AON", "FOK"}

Order == [id : OrderId, type : OrderType, side : Side, tif : TimeInForce,
          price : U64, stop : U64, trail : U64,
          quantity : U64, executed : U64, open : U64,
          last : U64]                      \* last_executed_price

Opposite(side) == IF side = "SELL" THEN "BUY" ELSE "SELL"

-----------------------------------------------------------------------------
(* The constructor: nothing executed, the whole quantity open.             *)
NewOrder(id, type, side, tif, price, stop, trail, quantity) ==
    [id |-> id, type |-> type, side |-> side, tif |-> tif,
     price |-> price, stop |-> stop, trail |-> trail,
     quantity |-> quantity, executed |-> 0, open |-> quantity, last |-> 0]

\* The factory functions, one per order type; the Sell and the Buy variant of
\* each differ in the side only.
MarketOrder(id, side, quantity, tif) ==
    NewOrder(id, "MARKET", side, tif, 0, 0, 0, quantity)

LimitOrder(id, side, price, quantity, tif) ==
    NewOrder(id, "LIMIT", side, tif, price, 0, 0, quantity)

StopOrder(id, side, stop, quantity, tif) ==
    NewOrder(id, "STOP", side, tif, 0, stop, 0, quantity)

StopLimitOrder(id, side, price, stop, quantity, tif) ==
    NewOrder(id, "STOP_LIMIT", side, tif, price, stop, 0, quantity)

TrailingStopOrder(id, side, trail, quantity, tif) ==
    NewOrder(id, "TRAILING_STOP", side, tif, 0, 0, trail, quantity)

TrailingStopLimitOrder(id, side, price, trail, quantity, tif) ==
    NewOrder(id, "TRAILING_STOP_LIMIT", side, tif, price, 0, trail, quantity)

-----------------------------------------------------------------------------
(* Faulty variant: does not add to the executed quantity.                  *)
FaultyExecute(o, price, quantity) ==
    [o EXCEPT !.open = Minus(@, quantity), !.last = price % (MaxU32 + 1)]

(* Order::execute takes the price as a uint32_t, so the price it records   *)
(* is truncated to 32 bits.                                                *)
Execute(o, price, quantity) ==
    [o EXCEPT !.open = Minus(@, quantity),
              !.executed = Plus(@, quantity),
              !.last = price % (MaxU32 + 1)]

(* Order::setQuantity: the quantity is capped by what is open, the open    *)
(* quantity is then whatever the caller asked for.                         *)
SetQuantity(o, quantity) ==
    [o EXCEPT !.quantity = Lesser(quantity, o.open), !.open = quantity]

(* Faulty variant: a trailing stop order becomes a limit order.            *)
FaultyTriggered(o) ==
    [o EXCEPT !.type = IF o.type = "STOP" THEN "MARKET" ELSE "LIMIT", !.stop = 0, !.trail = 0]

(* A stop order whose stop was reached goes on as a market or as a limit   *)
(* order (addStopOrder and activateStopOrder do the same to it).           *)
Triggered(o) ==
    [o EXCEPT !.type = IF o.type \in {"STOP", "TRAILING_STOP"} THEN "MARKET" ELSE "LIMIT",
              !.stop = 0,
              !.trail = 0]

(* addMarketOrder: a market order takes any price.                         *)
Priced(o) ==
    IF o.type = "MARKET"
    THEN [o EXCEPT !.price = IF o.side = "SELL" THEN 0 ELSE MaxU64]
    ELSE o

-----------------------------------------------------------------------------
(* Which of the six maps of levels of the book an order rests in, by type  *)
(* and side, and under which price.                                        *)
Kind(o) == CASE o.type \in {"MARKET", "LIMIT"}    -> "limit"
             [] o.type \in {"STOP", "STOP_LIMIT"} -> "stop"
             [] OTHER                             -> "trailing"

MapOf(o) == <<Kind(o), o.side>>

KeyOf(o) == IF Kind(o) = "limit" THEN o.price ELSE o.stop
=============================================================================
