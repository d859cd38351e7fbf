------------------------------ MODULE BulkPool ------------------------------
(***************************************************************************)
(* BulkPoolAllocator of src/libs/robin_hood.h, the storage of the nodes of *)
(* a robin_hood::unordered_node_map: a free list threaded through blocks   *)
(* of memory that are given back only when the map is destroyed.  A cell   *)
(* of storage is a number, in the order in which the pool got hold of it.  *)
(***************************************************************************)
EXTENDS Integers, Sequences, FiniteSetsExt

CONSTANTS
    MinNumAllocs,   \* elements of the first block the pool allocates ...
    MaxNumAllocs,   \* ... and of the largest
    Alignment,      \* ALIGNMENT, the bytes of a block's link to the next block
    AlignedSize     \* ALIGNED_SIZE, the bytes of one element

ASSUME PoolAssumption ==
    /\ MinNumAllocs \in Nat \ {0} /\ MaxNumAllocs \in Nat /\ MinNumAllocs <= MaxNumAllocs
    /\ Alignment \in Nat \ {0} /\ AlignedSize \in Nat \ {0}

\* free: the list mHead starts; blocks: the length of the list mListForFree;
\* cells: how many cells the pool has had so far.
Pool == [free : Seq(Nat), blocks : Nat, cells : Nat]

EmptyPool == [free |-> <<>>, blocks |-> 0, cells |-> 0]

\* add: the elements of a new block go in front of the free list.
Add(pool, numElements) ==
    [free   |-> [i \in 1 .. numElements |-> pool.cells + i - 1] \o pool.free,
     blocks |-> pool.blocks + 1,
     cells  |-> pool.cells + numElements]

\* calcNumElementsToAlloc: doubled once per block there is, up to the largest.
NumElementsToAlloc(pool) ==
    Max({MinNumAllocs * 2 ^ i : i \in 0 .. pool.blocks} \intersect 1 .. MaxNumAllocs)

\* allocate is Head of the free list of Refilled(pool), then Taken.
Refilled(pool) == IF pool.free = <<>> THEN Add(pool, NumElementsToAlloc(pool)) ELSE pool

Allocate(pool) == Head(Refilled(pool).free)

Taken(pool) == [Refilled(pool) EXCEPT !.free = Tail(@)]

Deallocate(pool, cell) == [pool EXCEPT !.free = <<cell>> \o @]

\* Faulty variant: the block is given back to the system as well, which may hand the
\* same memory out again.
FaultyAddOrFree(pool, numBytes) ==
    IF numBytes < Alignment + AlignedSize
    THEN pool
    ELSE [Add(pool, (numBytes - Alignment) \div AlignedSize) EXCEPT !.cells = pool.cells]

\* addOrFree: a block too small for one element goes back to the system.
AddOrFree(pool, numBytes) ==
    IF numBytes < Alignment + AlignedSize
    THEN pool
    ELSE Add(pool, (numBytes - Alignment) \div AlignedSize)
=============================================================================
