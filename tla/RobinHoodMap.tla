---------------------------- MODULE RobinHoodMap ----------------------------
(***************************************************************************)
(* robin_hood::unordered_map<uint64_t, OrderWithLevelIterator>, the index  *)
(* of the order book (src/libs/robin_hood.h).  An entry is larger than six *)
(* words, so this is the node map: the table holds pointers to nodes in a  *)
(* BulkPoolAllocator.                                                      *)
(*                                                                         *)
(* Linear probing without wrap-around.  A bucket's info byte says how far  *)
(* its node is from the bucket it hashes to, in steps of mInfoInc, plus a  *)
(* few bits of the hash; 0 is empty.  Nodes of a cluster are sorted by it, *)
(* so that inserting shifts nodes up and erasing shifts them back down.    *)
(* When a byte has no room for one step more the map makes the step        *)
(* smaller, and when that is used up it rehashes.                          *)
(*                                                                         *)
(* A step is one attempt of insertKeyPrepareEmptySpot, one node moved by   *)
(* rehashPowerOfTwo, or a whole call that does neither.                    *)
(***************************************************************************)
EXTENDS BulkPool, Functions

CONSTANTS
    Key,                  \* order ids
    Hash,                 \* Hash[k][m]: the hash of k mixed with the m-th multiplier
    NumMultipliers,       \* the values mHashMultiplier goes through
    InitialNumElements,
    MaxLoadFactor100,
    InitialInfoInc,       \* 1 << InitialInfoNumBits
    InfoByte,             \* 0xFF
    MaxAttempts           \* of insertKeyPrepareEmptySpot: 256

ASSUME TableAssumption ==
    /\ NumMultipliers \in Nat \ {0}
    /\ Hash \in [Key -> [0 .. NumMultipliers - 1 -> Nat]]
    /\ InitialNumElements \in Nat /\ InitialNumElements >= 2
    /\ MaxLoadFactor100 \in 11 .. 99
    /\ InitialInfoInc \in {4, 8, 16, 32, 64, 128}
    /\ InfoByte \in Nat /\ InfoByte >= 2 * InitialInfoInc - 1
    /\ MaxAttempts \in Nat \ {0}

VARIABLES
    table,     \* the members of the Table
    old,       \* the buckets rehashPowerOfTwo is moving nodes from
    call,      \* the insertion in progress
    nodes,     \* cell -> the key of the entry constructed in it
    pool,      \* the BulkPoolAllocator
    thrown     \* std::overflow_error; nothing in the engine catches it

vars == <<table, old, call, nodes, pool, thrown>>

-----------------------------------------------------------------------------
(* Sizes.  A table has room for Slots(b) nodes: the buckets and an         *)
(* overflow area that spares the wrap-around.  Behind it are the sentinel  *)
(* and padding, so that info bytes can be loaded eight at a time.          *)
MaxAllowed(buckets) == (buckets * MaxLoadFactor100) \div 100

Slots(buckets) == buckets + Min({MaxAllowed(buckets), InfoByte})

NumBytes(buckets) == LET slots == Slots(buckets) IN slots * 8 + slots + 8

Empty == [i \in {} |-> i]

\* Nothing is allocated yet: mInfo points to mMask, eight bytes that are 0.
Unallocated ==
    [buckets |-> 1, multiplier |-> 0, count |-> 0, allowed |-> 0, inc |-> InitialInfoInc,
     info |-> [i \in 0 .. 7 |-> 0], node |-> Empty]

InitData(t, buckets) ==
    [t EXCEPT !.buckets = buckets, !.count = 0, !.allowed = MaxAllowed(buckets),
              !.inc = InitialInfoInc,
              !.info = [i \in 0 .. Slots(buckets) + 7 |-> IF i = Slots(buckets) THEN 1 ELSE 0],
              !.node = Empty]

-----------------------------------------------------------------------------
(* Probing                                                                 *)

\* keyToIdx, and next: the info a node of k would have in bucket i.  The shift of
\* the hash bits is what InitialInfoInc was divided by to get mInfoInc.
Home(k, t) == (Hash[k][t.multiplier] \div InitialInfoInc) % t.buckets

InfoAt(k, t, i) ==
    t.inc * (1 + i - Home(k, t))
        + (Hash[k][t.multiplier] % InitialInfoInc) \div (InitialInfoInc \div t.inc)

\* The buckets probed from i on, the last one being the sentinel.
From(i, t) == i .. Slots(t.buckets)

\* nextWhileLess passes the nodes that are further from home than k would be; k
\* itself is among those that are as far.
Passed(k, t) == Min({i \in From(Home(k, t), t) : InfoAt(k, t, i) >= t.info[i]})

InsertionIdx(k, t) == Min({i \in From(Passed(k, t), t) : InfoAt(k, t, i) # t.info[i]})

KeyFound(k, t) == \E i \in Passed(k, t) .. InsertionIdx(k, t) - 1 : nodes[t.node[i]] = k

\* findIdx looks at two buckets before it asks whether the cluster goes on.
Probes(k, t, i) ==
    /\ i \in From(Home(k, t), t)
    /\ \A j \in Home(k, t) + 1 .. i :
         (j - Home(k, t)) % 2 = 0 => InfoAt(k, t, j) <= t.info[j]

Finds(k, t, i) ==
    /\ i \in DOMAIN t.node
    /\ nodes[t.node[i]] = k
    /\ t.info[i] = InfoAt(k, t, i)
    /\ Probes(k, t, i)

-----------------------------------------------------------------------------
(* Moving nodes                                                            *)

\* Puts node n of key k into bucket i; shiftUp moves what is in the way up to the
\* first empty bucket.  A byte that cannot take another step makes the next
\* insertion increase the map.
Place(t, k, i, n) ==
    LET e    == Min({j \in From(i, t) : t.info[j] = 0})
        info == [j \in DOMAIN t.info |->
                    IF j = i THEN InfoAt(k, t, i) % (InfoByte + 1)
                    ELSE IF j \in i + 1 .. e THEN (t.info[j - 1] + t.inc) % (InfoByte + 1)
                    ELSE t.info[j]]
    IN  [t EXCEPT
           !.info = info,
           !.node = [j \in DOMAIN t.node \union {e} |->
                        IF j = i THEN n
                        ELSE IF j \in i + 1 .. e THEN t.node[j - 1]
                        ELSE t.node[j]],
           !.count = @ + 1,
           !.allowed = IF \E j \in i .. e : info[j] + t.inc > InfoByte THEN 0 ELSE @]

\* Faulty variant: nodes move back, but are not said to be nearer to home.
FaultyShiftDown(t, i) ==
    LET e  == Min({j \in From(i, t) : t.info[j + 1] < 2 * t.inc})
        at == [j \in DOMAIN t.info |-> IF j \in i .. e - 1 THEN j + 1 ELSE j]
    IN  [t EXCEPT !.info = [j \in DOMAIN @ |-> IF j = e THEN 0 ELSE @[at[j]]],
                  !.node = [j \in DOMAIN @ \ {e} |-> @[at[j]]],
                  !.count = @ - 1]

\* Takes the node out of bucket i; shiftDown moves back what is away from home.
ShiftDown(t, i) ==
    LET e == Min({j \in From(i, t) : t.info[j + 1] < 2 * t.inc})
    IN  [t EXCEPT
           !.info = [j \in DOMAIN t.info |->
                        IF j = e THEN 0
                        ELSE IF j \in i .. e - 1 THEN t.info[j + 1] - t.inc
                        ELSE t.info[j]],
           !.node = [j \in DOMAIN t.node \ {e} |->
                        IF j \in i .. e - 1 THEN t.node[j + 1] ELSE t.node[j]],
           !.count = @ - 1]

\* try_increase_info: a smaller step, so that more of them fit into a byte.
\* Faulty variant: halves the last step too.
FaultyCanIncreaseInfo(t) == t.inc >= 2

CanIncreaseInfo(t) == t.inc > 2

\* Faulty variant: the sentinel is cleared with the bytes before it.
FaultyIncreaseInfo(t) ==
    [t EXCEPT !.inc = @ \div 2,
              !.info = [i \in DOMAIN @ |-> @[i] \div 2],
              !.allowed = MaxAllowed(t.buckets)]

IncreaseInfo(t) ==
    [t EXCEPT !.inc = @ \div 2,
              !.info = [i \in DOMAIN @ |-> IF i = Slots(t.buckets) THEN 1 ELSE @[i] \div 2],
              !.allowed = MaxAllowed(t.buckets)]

\* insert_move: the key is known to be new.
CanMove(t) == t.allowed # 0 \/ CanIncreaseInfo(t)

InsertMove(t, n) ==
    LET k == nodes[n]
        u == IF t.allowed = 0 THEN IncreaseInfo(t) ELSE t
    IN  Place(u, k, Min({i \in From(Home(k, u), u) : InfoAt(k, u, i) > u.info[i]}), n)

-----------------------------------------------------------------------------
NoCall == [op |-> "none"]
Emplacing(k, n) == [op |-> "emplace", key |-> k, node |-> n, attempts |-> 0]

NoTable == [buckets |-> 0, node |-> Empty]

Idle == call = NoCall /\ ~thrown
Inserting == call # NoCall /\ old = NoTable /\ ~thrown
Rehashing == old # NoTable /\ ~thrown

\* emplace allocates and constructs the node before it looks for the key.
Emplace(k) ==
    /\ Idle
    /\ LET n == Allocate(pool) IN
       /\ call' = Emplacing(k, n)
       /\ nodes' = [c \in DOMAIN nodes \union {n} |-> IF c = n THEN k ELSE nodes[c]]
    /\ pool' = Taken(pool)
    /\ UNCHANGED <<table, old, thrown>>

DestroyNode(n) ==
    /\ nodes' = [c \in DOMAIN nodes \ {n} |-> nodes[c]]
    /\ pool' = Deallocate(pool, n)

\* InsertionState::key_found
ReturnFound ==
    /\ Inserting
    /\ call.attempts < MaxAttempts
    /\ KeyFound(call.key, table)
    /\ DestroyNode(call.node)
    /\ call' = NoCall
    /\ UNCHANGED <<table, old, thrown>>

\* InsertionState::new_node and overwrite_node
ReturnInserted ==
    /\ Inserting
    /\ call.attempts < MaxAttempts
    /\ ~KeyFound(call.key, table)
    /\ table.count < table.allowed
    /\ table' = Place(table, call.key, InsertionIdx(call.key, table), call.node)
    /\ call' = NoCall
    /\ UNCHANGED <<old, nodes, pool, thrown>>

\* The key is new and the map has to be increased before the next attempt.
Full ==
    /\ Inserting
    /\ call.attempts < MaxAttempts
    /\ ~KeyFound(call.key, table)
    /\ table.count >= table.allowed
    /\ call' = [call EXCEPT !.attempts = @ + 1]
    /\ UNCHANGED <<nodes, pool, thrown>>

AllocateTable ==
    /\ Full
    /\ table.buckets = 1
    /\ table' = InitData(table, InitialNumElements)
    /\ UNCHANGED old

TryIncreaseInfo ==
    /\ Full
    /\ table.buckets # 1
    /\ table.count < MaxAllowed(table.buckets) /\ CanIncreaseInfo(table)
    /\ table' = IncreaseInfo(table)
    /\ UNCHANGED old

\* Faulty variant: the nodes in the overflow area are not among those to be moved.
FaultyStartRehash ==
    /\ Full
    /\ table.buckets # 1
    /\ ~(table.count < MaxAllowed(table.buckets) /\ CanIncreaseInfo(table))
    /\ old' = [buckets |-> table.buckets,
               node |-> Restrict(table.node, DOMAIN table.node \intersect 0 .. table.buckets - 1)]
    /\ table' = IF table.count * 2 < MaxAllowed(table.buckets)
                THEN InitData([table EXCEPT !.multiplier = (@ + 1) % NumMultipliers], table.buckets)
                ELSE InitData(table, 2 * table.buckets)

\* The nodes go to a table of the same size with another multiplier if the hash is
\* to blame, and to one of twice the size if the map is full.
StartRehash ==
    /\ Full
    /\ table.buckets # 1
    /\ ~(table.count < MaxAllowed(table.buckets) /\ CanIncreaseInfo(table))
    /\ old' = [buckets |-> table.buckets, node |-> table.node]
    /\ table' = IF table.count * 2 < MaxAllowed(table.buckets)
                THEN InitData([table EXCEPT !.multiplier = (@ + 1) % NumMultipliers], table.buckets)
                ELSE InitData(table, 2 * table.buckets)

\* rehashPowerOfTwo, bucket by bucket.
MoveNode ==
    /\ Rehashing
    /\ old.node # Empty
    /\ CanMove(table)
    /\ LET i == Min(DOMAIN old.node) IN
       /\ table' = InsertMove(table, old.node[i])
       /\ old' = [old EXCEPT !.node = [j \in DOMAIN @ \ {i} |-> @[j]]]
    /\ UNCHANGED <<call, nodes, pool, thrown>>

\* The nodes that were not moved yet are lost.  emplace does not get to destroy the
\* node it has made.
ThrowInRehash ==
    /\ Rehashing
    /\ old.node # Empty
    /\ ~CanMove(table)
    /\ old' = NoTable
    /\ thrown' = TRUE
    /\ UNCHANGED <<table, call, nodes, pool>>

\* The old table of a map that has grown becomes a block of the pool.
FinishRehash ==
    /\ Rehashing
    /\ old.node = Empty
    /\ pool' = IF old.buckets = table.buckets
               THEN pool
               ELSE AddOrFree(pool, NumBytes(old.buckets))
    /\ old' = NoTable
    /\ UNCHANGED <<table, call, nodes, thrown>>

\* InsertionState::overflow_error
ThrowOverflow ==
    /\ Inserting
    /\ call.attempts = MaxAttempts
    /\ DestroyNode(call.node)
    /\ call' = NoCall
    /\ thrown' = TRUE
    /\ UNCHANGED <<table, old>>

\* erase(find(k)), for a key that is in the map.
Erase(k) ==
    /\ Idle
    /\ \E i \in DOMAIN table.node :
         /\ Finds(k, table, i)
         /\ DestroyNode(table.node[i])
         /\ table' = ShiftDown(table, i)
    /\ UNCHANGED <<old, call, thrown>>

\* The destructors of the map and of its pool.
Destroy ==
    /\ Idle
    /\ table' = Unallocated
    /\ nodes' = Empty
    /\ pool' = EmptyPool
    /\ UNCHANGED <<old, call, thrown>>

-----------------------------------------------------------------------------
Init ==
    /\ table = Unallocated
    /\ old = NoTable
    /\ call = NoCall
    /\ nodes = Empty
    /\ pool = EmptyPool
    /\ thrown = FALSE

Next ==
    \/ \E k \in Key : Emplace(k) \/ Erase(k)
    \/ ReturnFound \/ ReturnInserted \/ ThrowOverflow
    \/ AllocateTable \/ TryIncreaseInfo \/ StartRehash
    \/ MoveNode \/ ThrowInRehash \/ FinishRehash
    \/ Destroy

Spec == Init /\ [][Next]_vars
=============================================================================
