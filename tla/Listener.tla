------------------------------ MODULE Listener ------------------------------
(***************************************************************************)
(* A listener of the order book: an EventHandler (handled on the engine's  *)
(* own thread, in the middle of its calls) that keeps a copy of the book   *)
(* by nothing but the events.  It forgets an order when it is deleted and  *)
(* takes every other event for the order's latest state, also when it has  *)
(* been told that the order was deleted: a stop order that goes to the     *)
(* market is deleted first, and updated after.                             *)
(***************************************************************************)
EXTENDS OrderBookProperties, SequencesExt

VARIABLE heard   \* id -> the order, as of the last event about it

\* handleOrderAdded, handleOrderUpdated, handleOrderExecuted; handleOrderDeleted
Hear(copy, event) ==
    IF event.kind = "Deleted"
    THEN Drop(copy, event.order.id)
    ELSE Put(copy, event.order.id, event.order)

\* The events of a step are handled one by one before the step is over.
Listen == heard' = FoldLeft(Hear, heard, emitted')

ListenerInit == Init /\ heard = EmptyMap

ListenerNext == Next /\ (IF aborted' THEN UNCHANGED heard ELSE Listen)

ListenerSpec == ListenerInit /\ [][ListenerNext]_<<vars, heard>>

-----------------------------------------------------------------------------
\* Between two requests the listener's copy is the book: it has the orders that rest
\* in the book and no others, with what is open and executed of them.  (Not with the
\* stop price of a trailing stop order, which addStopOrder computes after it has
\* reported the order.)
CopyIsTheBook ==
    Idle =>
        /\ DOMAIN heard = DOMAIN orders
        /\ \A id \in DOMAIN orders : AsSeen(heard[id]) = AsSeen(orders[id].order)
=============================================================================
