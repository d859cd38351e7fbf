------------------------- MODULE HashMapProperties -------------------------
(***************************************************************************)
(* What the index of the order book guarantees, and the refinement of      *)
(* AddressMap.                                                             *)
(***************************************************************************)
EXTENDS RobinHoodMap

-----------------------------------------------------------------------------
\* Every variable has the shape the members of the table have.
TypeOK ==
    /\ DOMAIN table.info = 0 .. (IF table.buckets = 1 THEN 7 ELSE Slots(table.buckets) + 7)
    /\ \A i \in DOMAIN table.info : table.info[i] \in 0 .. InfoByte
    /\ table.count \in Nat /\ table.inc \in 2 .. InitialInfoInc
    /\ table.allowed \in {0, MaxAllowed(table.buckets)}
    /\ pool \in Pool /\ DOMAIN nodes \subseteq 0 .. pool.cells - 1
    /\ Range(nodes) \subseteq Key
    /\ thrown \in BOOLEAN

\* The info bytes tell the truth: a bucket has a node exactly when its byte is not
\* 0, and the byte is the one its key has there.  No step of shiftUp, shiftDown or
\* try_increase_info wraps around, and the sentinel behind the buckets, which stops
\* every loop, is neither reached by a node nor shifted away.
InfoBytesTrue ==
    /\ DOMAIN table.node = {i \in DOMAIN table.info : table.info[i] # 0} \ {Slots(table.buckets)}
    /\ \A i \in DOMAIN table.node :
         /\ i \in Home(nodes[table.node[i]], table) .. Slots(table.buckets) - 1
         /\ table.info[i] = InfoAt(nodes[table.node[i]], table, i)
    /\ table.buckets # 1 => table.info[Slots(table.buckets)] = 1
    /\ table.count = Cardinality(DOMAIN table.node)

\* Every entry is somewhere once: a cell is free, or holds the entry of one bucket of
\* the table, or of one bucket not moved yet, or of the insertion in progress.
InPlay ==
    Range(table.node) \union Range(old.node)
        \union (IF call # NoCall THEN {call.node} ELSE {})

CellsDisjoint ==
    /\ IsInjective(table.node) /\ IsInjective(old.node) /\ IsInjective(pool.free)
    /\ Range(table.node) \intersect Range(old.node) = {}
    /\ InPlay \intersect Range(pool.free) = {}
    /\ ~thrown => InPlay = DOMAIN nodes

-----------------------------------------------------------------------------
\* find sees every entry of the table, in spite of the buckets it does not look at.
EntriesFound == \A i \in DOMAIN table.node : Finds(nodes[table.node[i]], table, i)

\* The map implements AddressMap: the entries that were inserted and not erased are
\* there, at the address they were given, through every shift and rehash.
Addresses ==
    LET entries == Range(table.node) \union Range(old.node)
    IN  [k \in {nodes[n] : n \in entries} |-> CHOOSE n \in entries : nodes[n] = k]

Abstract == INSTANCE AddressMap WITH
    address <- Addresses,
    lost <- thrown

ImplementsAddressMap == Abstract!Spec
=============================================================================
