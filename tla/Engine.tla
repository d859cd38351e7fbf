------------------------------- MODULE Engine -------------------------------
(***************************************************************************)
(* class Engine and OrderBookHandler of src/src/matching/engine.cpp.  The  *)
(* engine keeps a map of symbols, the handler below it a map of their      *)
(* books; neither sees the other's.  A request goes through both, and      *)
(* between them it may throw or hand an event to the event handler, who    *)
(* then sees the engine half way through the request.                      *)
(*                                                                         *)
(* A book is here the set of ids of its orders, and a request to it may    *)
(* change that set as PriceLevelOrderBook may: orders leave it, and only   *)
(* an order that the request brings enters it.                             *)
(***************************************************************************)
CONSTANTS
    SymbolId,
    Name,      \* symbol names
    OrderId

VARIABLES
    symbol_id_to_symbol,    \* Engine: symbol id -> the name in its Symbol
    symbol_to_order_book,   \* OrderBookHandler: symbol id -> the orders in its book
    call,                   \* the call of the handler's that the engine is in
    event,                  \* the event the last step handed to the event handler
    thrown                  \* the last step threw std::runtime_error

vars == <<symbol_id_to_symbol, symbol_to_order_book, call, event, thrown>>

Put(f, x, v) == [y \in DOMAIN f \union {x} |-> IF y = x THEN v ELSE f[y]]
Drop(f, x) == [y \in DOMAIN f \ {x} |-> f[y]]

-----------------------------------------------------------------------------
AddOrderBookCall    == [op : {"addOrderBook"}, symbol : SymbolId, name : Name]
DeleteOrderBookCall == [op : {"deleteOrderBook", "erase"}, symbol : SymbolId, name : Name]
OrderCall == [op : {"addOrder", "deleteOrder", "cancelOrder", "executeOrder", "modifyOrder"},
              symbol : SymbolId, order : OrderId, new_order : OrderId]
Call == AddOrderBookCall \union DeleteOrderBookCall \union OrderCall

NoCall == [op |-> "none"]
At(op) == call.op = op

SymbolEvent == [kind : {"SymbolAdded", "SymbolDeleted"}, symbol : SymbolId, name : Name]
OrderEvents == [kind : {"Order"}, symbol : SymbolId]
NoEvent == [kind |-> "none"]

Silent == event' = NoEvent /\ thrown' = FALSE

-----------------------------------------------------------------------------
(* Engine::addSymbol: the symbol first, whether or not there is one; then  *)
(* OrderBookHandler::addOrderBook, which throws if there is a book.        *)
AddSymbol(symbol, name) ==
    /\ At("none")
    /\ symbol_id_to_symbol' = Put(symbol_id_to_symbol, symbol, name)
    /\ call' = [op |-> "addOrderBook", symbol |-> symbol, name |-> name]
    /\ Silent
    /\ UNCHANGED symbol_to_order_book

\* Faulty variant: symbol_to_order_book[symbol_id] = ..., without a look.
FaultyAddOrderBook ==
    /\ At("addOrderBook")
    /\ symbol_to_order_book' = Put(symbol_to_order_book, call.symbol, {})
    /\ event' = [kind |-> "SymbolAdded", symbol |-> call.symbol, name |-> call.name]
    /\ thrown' = FALSE
    /\ call' = NoCall
    /\ UNCHANGED symbol_id_to_symbol

AddOrderBook ==
    /\ At("addOrderBook")
    /\ call.symbol \notin DOMAIN symbol_to_order_book
    /\ symbol_to_order_book' = Put(symbol_to_order_book, call.symbol, {})
    /\ event' = [kind |-> "SymbolAdded", symbol |-> call.symbol, name |-> call.name]
    /\ thrown' = FALSE
    /\ call' = NoCall
    /\ UNCHANGED symbol_id_to_symbol

Throw ==
    /\ thrown' = TRUE
    /\ event' = NoEvent
    /\ call' = NoCall
    /\ UNCHANGED <<symbol_id_to_symbol, symbol_to_order_book>>

\* "Symbol already exists in the book"
ThrowExists ==
    /\ At("addOrderBook")
    /\ call.symbol \in DOMAIN symbol_to_order_book
    /\ Throw

(* Engine::deleteSymbol: nothing if the symbol is unknown; otherwise       *)
(* OrderBookHandler::deleteOrderBook, and the symbol is erased after.      *)
DeleteSymbol(symbol) ==
    /\ At("none")
    /\ symbol \in DOMAIN symbol_id_to_symbol
    /\ call' = [op |-> "deleteOrderBook", symbol |-> symbol, name |-> symbol_id_to_symbol[symbol]]
    /\ Silent
    /\ UNCHANGED <<symbol_id_to_symbol, symbol_to_order_book>>

\* Faulty variant: no event.
FaultyDeleteOrderBook ==
    /\ At("deleteOrderBook")
    /\ call.symbol \in DOMAIN symbol_to_order_book
    /\ symbol_to_order_book' = Drop(symbol_to_order_book, call.symbol)
    /\ Silent
    /\ call' = [call EXCEPT !.op = "erase"]
    /\ UNCHANGED symbol_id_to_symbol

DeleteOrderBook ==
    /\ At("deleteOrderBook")
    /\ call.symbol \in DOMAIN symbol_to_order_book
    /\ symbol_to_order_book' = Drop(symbol_to_order_book, call.symbol)
    /\ event' = [kind |-> "SymbolDeleted", symbol |-> call.symbol, name |-> call.name]
    /\ thrown' = FALSE
    /\ call' = [call EXCEPT !.op = "erase"]
    /\ UNCHANGED symbol_id_to_symbol

\* Faulty variant: the symbol stays.
FaultyEraseSymbol ==
    /\ At("erase")
    /\ call' = NoCall
    /\ Silent
    /\ UNCHANGED <<symbol_id_to_symbol, symbol_to_order_book>>

EraseSymbol ==
    /\ At("erase")
    /\ symbol_id_to_symbol' = Drop(symbol_id_to_symbol, call.symbol)
    /\ call' = NoCall
    /\ Silent
    /\ UNCHANGED symbol_to_order_book

-----------------------------------------------------------------------------
(* addOrder, deleteOrder, cancelOrder, modifyOrder and both executeOrder:  *)
(* the engine passes them on to the handler, which looks up the book.      *)
(* What a book does with an id it does not know is undefined: callers name *)
(* orders of the book, and add or rename to new ones.                      *)
Proper(c, book) ==
    IF c.op = "addOrder" THEN c.order \notin book
    ELSE c.order \in book /\ c.new_order \notin book \ {c.order}

RequestOrder(c) ==
    /\ At("none")
    /\ c.symbol \in DOMAIN symbol_to_order_book => Proper(c, symbol_to_order_book[c.symbol])
    /\ call' = c
    /\ Silent
    /\ UNCHANGED <<symbol_id_to_symbol, symbol_to_order_book>>

\* Faulty variant: the ids of the symbol and of the order are swapped.
FaultyAfter(c, book) ==
    CASE c.op = "addOrder"    -> book \union {c.symbol}
      [] c.op = "modifyOrder" -> (book \ {c.symbol}) \union {c.new_order}
      [] c.op = "deleteOrder" -> book \ {c.symbol}
      [] OTHER                -> book

\* The orders that may be in a book after call c to it.
After(c, book) ==
    CASE c.op = "addOrder"    -> book \union {c.order}
      [] c.op = "modifyOrder" -> (book \ {c.order}) \union {c.new_order}
      [] c.op = "deleteOrder" -> book \ {c.order}
      [] OTHER                -> book

RunOrderBook ==
    /\ call \in OrderCall
    /\ call.symbol \in DOMAIN symbol_to_order_book
    /\ \E book \in SUBSET After(call, symbol_to_order_book[call.symbol]) :
         symbol_to_order_book' = Put(symbol_to_order_book, call.symbol, book)
    /\ event' = [kind |-> "Order", symbol |-> call.symbol]
    /\ thrown' = FALSE
    /\ call' = NoCall
    /\ UNCHANGED symbol_id_to_symbol

\* "Symbol does not exist in the book"
ThrowUnknown ==
    /\ call \in OrderCall \union [op : {"deleteOrderBook"}, symbol : SymbolId, name : Name]
    /\ call.symbol \notin DOMAIN symbol_to_order_book
    /\ Throw

-----------------------------------------------------------------------------
Init ==
    /\ symbol_id_to_symbol = [x \in {} |-> x]
    /\ symbol_to_order_book = [x \in {} |-> x]
    /\ call = NoCall
    /\ event = NoEvent
    /\ thrown = FALSE

Next ==
    \/ \E symbol \in SymbolId, name \in Name : AddSymbol(symbol, name)
    \/ \E symbol \in SymbolId : DeleteSymbol(symbol)
    \/ \E c \in OrderCall : RequestOrder(c)
    \/ AddOrderBook \/ ThrowExists
    \/ DeleteOrderBook \/ EraseSymbol
    \/ RunOrderBook \/ ThrowUnknown

Spec == Init /\ [][Next]_vars
=============================================================================
