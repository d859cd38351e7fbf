----------------------------- MODULE AddressMap -----------------------------
(***************************************************************************)
(* What the order book needs of robin_hood::unordered_map: a map whose     *)
(* entries stay where they are.  The levels of the book link the orders    *)
(* inside the entries, so an entry keeps its address from the call that    *)
(* adds it to the call that erases it, whatever is added or erased in      *)
(* between, and no two entries share one.                                  *)
(***************************************************************************)
VARIABLES
    address,   \* key -> where its entry is, for the keys in the map
    lost       \* std::overflow_error was thrown: nothing is promised any more

vars == <<address, lost>>

Restricted(f, S) == [k \in S |-> f[k]]

Init == address = [k \in {} |-> k] /\ lost = FALSE

\* One more key, at an address of its own.
Inserted(before, after) ==
    \E k \in DOMAIN after \ DOMAIN before :
        /\ before = Restricted(after, DOMAIN after \ {k})
        /\ \A j \in DOMAIN before : before[j] # after[k]

Erased(before, after) ==
    \E k \in DOMAIN before : after = Restricted(before, DOMAIN before \ {k})

\* Only the destructor, and an exception, take more than one entry.
Dropped(before, after) ==
    /\ DOMAIN after \subseteq DOMAIN before
    /\ after = Restricted(before, DOMAIN after)

Insert == Inserted(address, address') /\ UNCHANGED lost

Erase == Erased(address, address') /\ UNCHANGED lost

Destroy == address' = [k \in {} |-> k] /\ UNCHANGED lost

Overflow == lost' = TRUE /\ Dropped(address, address')

Next == ~lost /\ (Insert \/ Erase \/ Destroy \/ Overflow)

Spec == Init /\ [][Next]_vars
=============================================================================
