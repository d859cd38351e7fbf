-------------------------- MODULE EngineProperties --------------------------
(***************************************************************************)
(* The engine of Engine with a listener that keeps track of the symbols,   *)
(* and what the two maps of the engine guarantee.                          *)
(***************************************************************************)
EXTENDS Engine

VARIABLE announced   \* the symbols the listener was told of: id -> name

\* handleSymbolAdded and handleSymbolDeleted, called in the middle of a step
Hear ==
    announced' =
        CASE event'.kind = "SymbolAdded"   -> Put(announced, event'.symbol, event'.name)
          [] event'.kind = "SymbolDeleted" -> Drop(announced, event'.symbol)
          [] OTHER                         -> announced

ListenerInit == Init /\ announced = [x \in {} |-> x]

ListenerNext ==
    \/ \E symbol \in SymbolId, name \in Name : AddSymbol(symbol, name) /\ Hear
    \/ \E symbol \in SymbolId : DeleteSymbol(symbol) /\ Hear
    \/ \E c \in OrderCall : RequestOrder(c) /\ Hear
    \/ AddOrderBook /\ Hear
    \/ ThrowExists /\ Hear
    \/ DeleteOrderBook /\ Hear
    \/ EraseSymbol /\ Hear
    \/ RunOrderBook /\ Hear
    \/ ThrowUnknown /\ Hear

ListenerSpec == ListenerInit /\ [][ListenerNext]_<<vars, announced>>

-----------------------------------------------------------------------------
\* The variables have the types of the members they model.
TypeOK ==
    /\ symbol_id_to_symbol \in [DOMAIN symbol_id_to_symbol -> Name]
    /\ DOMAIN symbol_id_to_symbol \subseteq SymbolId
    /\ symbol_to_order_book \in [DOMAIN symbol_to_order_book -> SUBSET OrderId]
    /\ DOMAIN symbol_to_order_book \subseteq SymbolId
    /\ call \in Call \union {NoCall}
    /\ event \in SymbolEvent \union OrderEvents \union {NoEvent}
    /\ thrown \in BOOLEAN

\* The two maps, in two objects, agree although requests fail half way: every book
\* has a symbol at every step, and only the symbol of the call in progress may be
\* without a book.  So deleteOrderBook never throws, and hasSymbol is right.
DirectoriesAgree ==
    /\ DOMAIN symbol_to_order_book \subseteq DOMAIN symbol_id_to_symbol
    /\ \A symbol \in DOMAIN symbol_id_to_symbol \ DOMAIN symbol_to_order_book :
         call.op \in {"addOrderBook", "erase"} /\ call.symbol = symbol

\* A listener knows exactly the symbols that have a book, at the moment of every
\* event: it is told of a symbol before the first event of the symbol's orders, and
\* of its end after the last.
ListenerKnowsBooks ==
    /\ DOMAIN announced = DOMAIN symbol_to_order_book
    /\ event.kind = "Order" => event.symbol \in DOMAIN announced

\* A book is changed only by a request for its symbol, and its orders are never lost
\* with it unless the symbol is deleted: an addSymbol for a symbol that exists
\* replaces the symbol, but leaves the book.
OnlyTheBookAskedFor ==
    [][\A symbol \in DOMAIN symbol_to_order_book :
         \/ /\ symbol \in DOMAIN symbol_to_order_book'
            /\ symbol_to_order_book'[symbol] = symbol_to_order_book[symbol]
         \/ call.symbol = symbol /\ call.op # "addOrderBook"]_vars
=============================================================================
