---------------------------- MODULE EngineProofs ----------------------------
(***************************************************************************)
(* The properties of EngineProperties, for any symbols, names and orders.  *)
(*                                                                         *)
(* The listener's knowledge is not inductive alone: the event of an order  *)
(* has to be of a symbol that was announced when the event was handed out, *)
(* and the symbol of a call that deletes its book has to have one until    *)
(* then.  DirectoriesAgree, CallTrue and TypeOK together are inductive.    *)
(***************************************************************************)
EXTENDS EngineProperties, TLAPS

listenerVars == <<vars, announced>>

\* The calls of the engine, one after the other: what addOrderBook, deleteOrderBook
\* and the erasure of the symbol find in the two maps.
CallTrue ==
    /\ call.op = "addOrderBook" => call.symbol \in DOMAIN symbol_id_to_symbol
    /\ call.op = "deleteOrderBook" => call.symbol \in DOMAIN symbol_to_order_book
    /\ call.op = "erase" => call.symbol \notin DOMAIN symbol_to_order_book

EngineInv == TypeOK /\ DirectoriesAgree /\ CallTrue

-----------------------------------------------------------------------------
(* The calls                                                               *)

\* A call about a symbol names a symbol, one about an order orders too.
LEMMA CallShape ==
    ASSUME TypeOK, call # NoCall
    PROVE  /\ call.symbol \in SymbolId
           /\ call.op \in {"addOrderBook", "deleteOrderBook", "erase"} => call.name \in Name
  BY DEF TypeOK, Call, AddOrderBookCall, DeleteOrderBookCall, OrderCall, NoCall

\* What a book has after a call are orders.
LEMMA AfterTyped ==
    ASSUME NEW c \in OrderCall, NEW book \in SUBSET OrderId
    PROVE  After(c, book) \in SUBSET OrderId
  BY DEF After, OrderCall

-----------------------------------------------------------------------------
(* The inductive invariant                                                 *)

\* An engine without symbols has no directories to disagree.
LEMMA EngineInit ==
    ASSUME Init
    PROVE  EngineInv
  <1>1. DOMAIN symbol_id_to_symbol = {} /\ DOMAIN symbol_to_order_book = {}
    BY DEF Init
  <1>2. TypeOK
    <2>1. symbol_id_to_symbol \in [{} -> Name] /\ symbol_to_order_book \in [{} -> SUBSET OrderId]
      BY DEF Init
    <2>2. QED
      BY <1>1, <2>1 DEF Init, TypeOK
  <1>3. DirectoriesAgree /\ CallTrue
    BY <1>1 DEF Init, DirectoriesAgree, CallTrue, NoCall
  <1>4. QED
    BY <1>2, <1>3 DEF EngineInv

\* Every step of the engine, whoever listens, keeps the two maps in agreement.
LEMMA EngineStep ==
    ASSUME EngineInv, [Next]_vars
    PROVE  EngineInv'
  <1> DEFINE names == symbol_id_to_symbol
             books == symbol_to_order_book
  <1>0. /\ TypeOK /\ DirectoriesAgree /\ CallTrue
        /\ names \in [DOMAIN names -> Name] /\ DOMAIN names \in SUBSET SymbolId
        /\ books \in [DOMAIN books -> SUBSET OrderId] /\ DOMAIN books \in SUBSET SymbolId
    BY DEF EngineInv, TypeOK
  <1>1. ASSUME NEW symbol \in SymbolId, NEW name \in Name, AddSymbol(symbol, name)
        PROVE  EngineInv'
    <2>1. /\ names' = Put(names, symbol, name) /\ books' = books /\ Silent
          /\ call' = [op |-> "addOrderBook", symbol |-> symbol, name |-> name] /\ call.op = "none"
      BY <1>1 DEF AddSymbol, At
    <2>2. /\ DOMAIN names' = DOMAIN names \union {symbol} /\ DOMAIN names' \subseteq SymbolId
          /\ names' \in [DOMAIN names' -> Name]
      BY <1>0, <2>1 DEF Put
    <2>3. call' \in Call
      BY <2>1 DEF Call, AddOrderBookCall
    <2>4. TypeOK'
      BY <1>0, <2>1, <2>2, <2>3 DEF TypeOK, Silent
    <2>5. DirectoriesAgree' /\ CallTrue'
      BY <1>0, <2>1, <2>2 DEF DirectoriesAgree, CallTrue
    <2>6. QED
      BY <2>4, <2>5 DEF EngineInv
  <1>2. ASSUME NEW symbol \in SymbolId, DeleteSymbol(symbol)
        PROVE  EngineInv'
    <2>1. /\ names' = names /\ books' = books /\ Silent /\ symbol \in DOMAIN names
          /\ call' = [op |-> "deleteOrderBook", symbol |-> symbol, name |-> names[symbol]]
          /\ call.op = "none"
      BY <1>2 DEF DeleteSymbol, At
    <2>2. names[symbol] \in Name
      BY <1>0, <2>1
    <2>3. call' \in Call
      BY <2>1, <2>2 DEF Call, DeleteOrderBookCall
    <2>4. TypeOK'
      BY <1>0, <2>1, <2>3 DEF TypeOK, Silent
    <2>5. DirectoriesAgree' /\ CallTrue'
      BY <1>0, <2>1 DEF DirectoriesAgree, CallTrue
    <2>6. QED
      BY <2>4, <2>5 DEF EngineInv
  <1>3. ASSUME NEW c \in OrderCall, RequestOrder(c)
        PROVE  EngineInv'
    <2>1. names' = names /\ books' = books /\ Silent /\ call' = c /\ call.op = "none"
      BY <1>3 DEF RequestOrder, At
    <2>2. TypeOK'
      BY <1>0, <2>1 DEF TypeOK, Silent, Call
    <2>3. DirectoriesAgree' /\ CallTrue'
      BY <1>0, <2>1 DEF DirectoriesAgree, CallTrue, OrderCall
    <2>4. QED
      BY <2>2, <2>3 DEF EngineInv
  <1>4. CASE AddOrderBook
    <2>1. /\ books' = Put(books, call.symbol, {}) /\ names' = names /\ thrown' = FALSE
          /\ event' = [kind |-> "SymbolAdded", symbol |-> call.symbol, name |-> call.name]
          /\ call' = NoCall /\ call.op = "addOrderBook"
      BY <1>4 DEF AddOrderBook, At
    <2>2. call.symbol \in SymbolId /\ call.name \in Name /\ call.symbol \in DOMAIN names
      BY <1>0, <2>1, CallShape DEF NoCall, CallTrue
    <2>3. /\ DOMAIN books' = DOMAIN books \union {call.symbol} /\ DOMAIN books' \subseteq SymbolId
          /\ books' \in [DOMAIN books' -> SUBSET OrderId]
      BY <1>0, <2>1, <2>2 DEF Put
    <2>4. event' \in SymbolEvent
      BY <2>1, <2>2 DEF SymbolEvent
    <2>5. TypeOK'
      BY <1>0, <2>1, <2>3, <2>4 DEF TypeOK
    <2>6. DirectoriesAgree' /\ CallTrue'
      BY <1>0, <2>1, <2>2, <2>3 DEF DirectoriesAgree, CallTrue, NoCall
    <2>7. QED
      BY <2>5, <2>6 DEF EngineInv
  <1>5. CASE DeleteOrderBook
    <2>1. /\ books' = Drop(books, call.symbol) /\ names' = names /\ thrown' = FALSE
          /\ event' = [kind |-> "SymbolDeleted", symbol |-> call.symbol, name |-> call.name]
          /\ call' = [call EXCEPT !.op = "erase"] /\ call.op = "deleteOrderBook"
      BY <1>5 DEF DeleteOrderBook, At
    <2>2. call.symbol \in SymbolId /\ call.name \in Name /\ call \in DeleteOrderBookCall
      <3>1. call \in Call
        BY <1>0, <2>1 DEF TypeOK, NoCall
      <3>2. QED
        BY <2>1, <3>1 DEF Call, AddOrderBookCall, DeleteOrderBookCall, OrderCall
    <2>3. /\ DOMAIN books' = DOMAIN books \ {call.symbol} /\ DOMAIN books' \subseteq SymbolId
          /\ books' \in [DOMAIN books' -> SUBSET OrderId]
      BY <1>0, <2>1 DEF Drop
    <2>4. event' \in SymbolEvent
      BY <2>1, <2>2 DEF SymbolEvent
    <2>5. call' \in DeleteOrderBookCall /\ call'.op = "erase" /\ call'.symbol = call.symbol
      BY <2>1, <2>2 DEF DeleteOrderBookCall
    <2>6. TypeOK'
      BY <1>0, <2>1, <2>3, <2>4, <2>5 DEF TypeOK, Call
    <2>7. DirectoriesAgree' /\ CallTrue'
      BY <1>0, <2>1, <2>3, <2>5 DEF DirectoriesAgree, CallTrue
    <2>8. QED
      BY <2>6, <2>7 DEF EngineInv
  <1>6. CASE EraseSymbol
    <2>1. /\ names' = Drop(names, call.symbol) /\ books' = books /\ Silent
          /\ call' = NoCall /\ call.op = "erase"
      BY <1>6 DEF EraseSymbol, At
    <2>2. /\ DOMAIN names' = DOMAIN names \ {call.symbol} /\ DOMAIN names' \subseteq SymbolId
          /\ names' \in [DOMAIN names' -> Name]
      BY <1>0, <2>1 DEF Drop
    <2>3. TypeOK'
      BY <1>0, <2>1, <2>2 DEF TypeOK, Silent
    <2>4. DirectoriesAgree' /\ CallTrue'
      BY <1>0, <2>1, <2>2 DEF DirectoriesAgree, CallTrue, NoCall
    <2>5. QED
      BY <2>3, <2>4 DEF EngineInv
  <1>7. CASE RunOrderBook
    <2>1. /\ call \in OrderCall /\ call.symbol \in DOMAIN books /\ names' = names
          /\ event' = [kind |-> "Order", symbol |-> call.symbol] /\ thrown' = FALSE
          /\ call' = NoCall
      BY <1>7 DEF RunOrderBook
    <2>2. PICK book \in SUBSET After(call, books[call.symbol]) :
              books' = Put(books, call.symbol, book)
      BY <1>7 DEF RunOrderBook
    <2>3. book \in SUBSET OrderId /\ call.symbol \in SymbolId
      BY <1>0, <2>1, <2>2, AfterTyped
    <2>4. /\ DOMAIN books' = DOMAIN books \union {call.symbol} /\ DOMAIN books' \subseteq SymbolId
          /\ books' \in [DOMAIN books' -> SUBSET OrderId]
      BY <1>0, <2>2, <2>3 DEF Put
    <2>5. TypeOK'
      BY <1>0, <2>1, <2>3, <2>4 DEF TypeOK, OrderEvents
    <2>6. DirectoriesAgree' /\ CallTrue'
      BY <1>0, <2>1, <2>4 DEF DirectoriesAgree, CallTrue, NoCall, OrderCall
    <2>7. QED
      BY <2>5, <2>6 DEF EngineInv
  <1>8. CASE ThrowExists \/ ThrowUnknown
    <2>1. names' = names /\ books' = books /\ thrown' = TRUE /\ event' = NoEvent /\ call' = NoCall
      BY <1>8 DEF ThrowExists, ThrowUnknown, Throw
    <2>2. \/ call.op = "addOrderBook" /\ call.symbol \in DOMAIN books
          \/ call.op \notin {"addOrderBook", "erase"}
      BY <1>8 DEF ThrowExists, ThrowUnknown, At, OrderCall
    <2>3. TypeOK'
      BY <1>0, <2>1 DEF TypeOK
    <2>4. DirectoriesAgree' /\ CallTrue'
      BY <1>0, <2>1, <2>2 DEF DirectoriesAgree, CallTrue, NoCall
    <2>5. QED
      BY <2>3, <2>4 DEF EngineInv
  <1>9. CASE UNCHANGED vars
    BY <1>0, <1>9 DEF vars, EngineInv, TypeOK, DirectoriesAgree, CallTrue
  <1>10. QED
    BY <1>1, <1>2, <1>3, <1>4, <1>5, <1>6, <1>7, <1>8, <1>9 DEF Next

\* The listener only watches.
LEMMA ListenerOnlyWatches == ListenerNext => Next
  BY DEF ListenerNext, Next

\* The invariant holds at every step of every request.
LEMMA EngineInvariant == ListenerSpec => []EngineInv
  <1>1. ListenerInit => EngineInv
    BY EngineInit DEF ListenerInit
  <1>2. EngineInv /\ [ListenerNext]_listenerVars => EngineInv'
    <2> SUFFICES ASSUME EngineInv, [ListenerNext]_listenerVars
                 PROVE  EngineInv'
      OBVIOUS
    <2>1. [Next]_vars
      BY ListenerOnlyWatches DEF listenerVars
    <2>2. QED
      BY <2>1, EngineStep
  <1>3. QED
    BY <1>1, <1>2, PTL DEF ListenerSpec, listenerVars

-----------------------------------------------------------------------------
\* The members of the engine keep their types.
THEOREM EngineTypeCorrect == ListenerSpec => []TypeOK
  <1>1. EngineInv => TypeOK
    BY DEF EngineInv
  <1>2. QED
    BY <1>1, EngineInvariant, PTL

\* The map of symbols and the map of books agree at every step of every request, also
\* of those that throw.
THEOREM MapsAgree == ListenerSpec => []DirectoriesAgree
  <1>1. EngineInv => DirectoriesAgree
    BY DEF EngineInv
  <1>2. QED
    BY <1>1, EngineInvariant, PTL

\* What a listener is told of symbols is what the handler has books for.
LEMMA ListenerStep ==
    ASSUME EngineInv, ListenerKnowsBooks, [ListenerNext]_listenerVars
    PROVE  ListenerKnowsBooks'
  <1> DEFINE books == symbol_to_order_book
  <1>0. TypeOK /\ CallTrue /\ DOMAIN announced = DOMAIN books
    BY DEF EngineInv, ListenerKnowsBooks
  <1>1. ASSUME Hear, books' = books, event' = NoEvent
        PROVE  ListenerKnowsBooks'
    <2>1. announced' = announced
      BY <1>1 DEF Hear, NoEvent
    <2>2. QED
      BY <1>0, <1>1, <2>1 DEF ListenerKnowsBooks, NoEvent
  <1>2. ASSUME NEW symbol \in SymbolId, NEW name \in Name, AddSymbol(symbol, name), Hear
        PROVE  ListenerKnowsBooks'
    BY <1>1, <1>2 DEF AddSymbol, Silent
  <1>3. ASSUME NEW symbol \in SymbolId, DeleteSymbol(symbol), Hear
        PROVE  ListenerKnowsBooks'
    BY <1>1, <1>3 DEF DeleteSymbol, Silent
  <1>4. ASSUME NEW c \in OrderCall, RequestOrder(c), Hear
        PROVE  ListenerKnowsBooks'
    BY <1>1, <1>4 DEF RequestOrder, Silent
  <1>5. CASE AddOrderBook /\ Hear
    <2>1. event'.kind = "SymbolAdded" /\ event'.symbol = call.symbol
      BY <1>5 DEF AddOrderBook
    <2>2. announced' = Put(announced, call.symbol, event'.name)
      BY <1>5, <2>1 DEF Hear
    <2>3. DOMAIN books' = DOMAIN books \union {call.symbol}
      BY <1>5 DEF AddOrderBook, Put
    <2>4. QED
      BY <1>0, <2>1, <2>2, <2>3 DEF ListenerKnowsBooks, Put
  <1>6. CASE DeleteOrderBook /\ Hear
    <2>1. event'.kind = "SymbolDeleted" /\ event'.symbol = call.symbol
      BY <1>6 DEF DeleteOrderBook
    <2>2. announced' = Drop(announced, call.symbol)
      BY <1>6, <2>1 DEF Hear
    <2>3. DOMAIN books' = DOMAIN books \ {call.symbol}
      BY <1>6 DEF DeleteOrderBook, Drop
    <2>4. QED
      BY <1>0, <2>1, <2>2, <2>3 DEF ListenerKnowsBooks, Drop
  <1>7. CASE RunOrderBook /\ Hear
    <2>1. event'.kind = "Order" /\ event'.symbol = call.symbol /\ call.symbol \in DOMAIN books
      BY <1>7 DEF RunOrderBook
    <2>2. announced' = announced
      BY <1>7, <2>1 DEF Hear
    <2>3. DOMAIN books' = DOMAIN books
      BY <1>7, <2>1 DEF RunOrderBook, Put
    <2>4. QED
      BY <1>0, <2>1, <2>2, <2>3 DEF ListenerKnowsBooks
  <1>8. CASE (EraseSymbol \/ ThrowExists \/ ThrowUnknown) /\ Hear
    BY <1>1, <1>8 DEF EraseSymbol, ThrowExists, ThrowUnknown, Throw, Silent
  <1>9. CASE UNCHANGED listenerVars
    BY <1>9 DEF listenerVars, vars, ListenerKnowsBooks
  <1>10. QED
    BY <1>2, <1>3, <1>4, <1>5, <1>6, <1>7, <1>8, <1>9 DEF ListenerNext

\* A listener knows exactly the symbols that have a book, at the moment of every event.
THEOREM ListenerInformed == ListenerSpec => []ListenerKnowsBooks
  <1>1. ListenerInit => ListenerKnowsBooks
    BY DEF ListenerInit, Init, ListenerKnowsBooks, NoEvent
  <1>2. EngineInv /\ ListenerKnowsBooks /\ [ListenerNext]_listenerVars => ListenerKnowsBooks'
    BY ListenerStep
  <1>3. QED
    BY <1>1, <1>2, EngineInvariant, PTL DEF ListenerSpec, listenerVars

\* Requests change only the book they are for, and addSymbol changes no book.
LEMMA StepLeavesOtherBooks ==
    ASSUME EngineInv, [Next]_vars, NEW symbol \in DOMAIN symbol_to_order_book
    PROVE  \/ /\ symbol \in DOMAIN symbol_to_order_book'
              /\ symbol_to_order_book'[symbol] = symbol_to_order_book[symbol]
           \/ call.symbol = symbol /\ call.op # "addOrderBook"
  <1>1. CASE AddOrderBook
    BY <1>1 DEF AddOrderBook, Put
  <1>2. CASE DeleteOrderBook
    BY <1>2 DEF DeleteOrderBook, At, Drop
  <1>3. CASE RunOrderBook
    <2>1. call.op # "addOrderBook"
      BY <1>3 DEF RunOrderBook, OrderCall
    <2>2. PICK book : symbol_to_order_book' = Put(symbol_to_order_book, call.symbol, book)
      BY <1>3 DEF RunOrderBook
    <2>3. QED
      BY <2>1, <2>2 DEF Put
  <1>4. CASE UNCHANGED symbol_to_order_book
    BY <1>4
  <1>5. QED
    BY <1>1, <1>2, <1>3, <1>4
       DEF Next, AddSymbol, DeleteSymbol, RequestOrder, ThrowExists, EraseSymbol,
           ThrowUnknown, Throw, vars

\* A book and its orders are out of reach of every request for another symbol, and of
\* a second addSymbol for its own.
THEOREM BooksIsolated == ListenerSpec => OnlyTheBookAskedFor
  <1>1. EngineInv /\ [ListenerNext]_listenerVars =>
          [\A symbol \in DOMAIN symbol_to_order_book :
             \/ /\ symbol \in DOMAIN symbol_to_order_book'
                /\ symbol_to_order_book'[symbol] = symbol_to_order_book[symbol]
             \/ call.symbol = symbol /\ call.op # "addOrderBook"]_vars
    BY ListenerOnlyWatches, StepLeavesOtherBooks DEF listenerVars
  <1>2. QED
    BY <1>1, EngineInvariant, PTL DEF ListenerSpec, listenerVars, OnlyTheBookAskedFor
=============================================================================
