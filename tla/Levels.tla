------------------------------- MODULE Levels -------------------------------
(***************************************************************************)
(* class Level of src/src/matching/level.cpp: the orders resting at one    *)
(* price, oldest first, and a running total of their open quantities.  The *)
(* boost::intrusive::list is the sequence of the ids of its nodes.         *)
(* removeFront, removeBack, back and popBack have no caller.               *)
(***************************************************************************)
EXTENDS Orders, Sequences

Level == [volume : U64, orders : Seq(OrderId)]

NewLevel == [volume |-> 0, orders |-> <<>>]

\* Faulty variant: counts the original quantity of a partly executed order.
FaultyAddOrderToLevel(level, o) ==
    [volume |-> Plus(level.volume, o.quantity), orders |-> Append(level.orders, o.id)]

AddOrderToLevel(level, o) ==
    [volume |-> Plus(level.volume, o.open), orders |-> Append(level.orders, o.id)]

\* Unlinks one node of a queue; the node is in it.
Unlink(queue, id) ==
    [j \in 1 .. Len(queue) - 1 |->
        IF \E k \in 1 .. j : queue[k] = id THEN queue[j + 1] ELSE queue[j]]

DeleteOrderFromLevel(level, o) ==
    [volume |-> Minus(level.volume, o.open), orders |-> Unlink(level.orders, o.id)]

\* Faulty variant: the volume stays.
FaultyPopFront(level, o) == [level EXCEPT !.orders = Tail(@)]

PopFront(level, o) ==
    [volume |-> Minus(level.volume, o.open), orders |-> Tail(level.orders)]

\* Faulty variant: the amount is taken off twice.
FaultyReduceVolume(level, amount) ==
    [level EXCEPT !.volume = Minus(Minus(@, amount), amount)]

ReduceVolume(level, amount) == [level EXCEPT !.volume = Minus(@, amount)]

\* assert(volume >= amount) in reduceVolume; the build of CMakeLists.txt does
\* not define NDEBUG, so a failing assertion ends the process.
VolumeCovers(level, amount) == level.volume >= amount
=============================================================================
