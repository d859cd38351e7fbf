---------------------------- MODULE HashMapProofs ----------------------------
(***************************************************************************)
(* Proofs about the index of the order book, for every set of keys, every  *)
(* hash and every load factor.                                             *)
(*                                                                         *)
(* The four invariants follow from HashMapInv, which adds what they rest   *)
(* on: the nodes of a cluster are sorted by their distance from home       *)
(* (Sorted; without it shiftUp would make a byte lie, and find would stop  *)
(* too early), a byte has room for one step more until the map has noticed *)
(* that it has not (Roomy), the table has room for the nodes a rehash has  *)
(* not moved yet, and a free cell is a cell the pool has got hold of.      *)
(*                                                                         *)
(* First come lemmas about tables and pools, then one lemma per step,      *)
(* which says that the step keeps HashMapInv and what it does to the       *)
(* entries; from the latter follows the refinement of AddressMap.          *)
(***************************************************************************)
EXTENDS HashMapProperties, FiniteSetTheorems, SequenceTheorems, WellFoundedInduction,
        NaturalsInduction, TLAPS

-----------------------------------------------------------------------------
(* The invariant                                                           *)

\* mInfoInc: the first step, halved any number of times but never below 2.
Steps == {2, 4, 8, 16, 32, 64, 128}

\* The last info byte of a table: those of mMask, or the padding behind the sentinel.
LastByte(t) == IF t.buckets = 1 THEN 7 ELSE Slots(t.buckets) + 7

\* t has the members of class Table.
Members(t) ==
    /\ t = [buckets |-> t.buckets, multiplier |-> t.multiplier, count |-> t.count,
            allowed |-> t.allowed, inc |-> t.inc, info |-> t.info, node |-> t.node]
    /\ t.buckets \in Nat \ {0} /\ t.multiplier \in 0 .. NumMultipliers - 1
    /\ t.count \in Nat /\ t.allowed \in {0, MaxAllowed(t.buckets)}
    /\ t.inc \in Steps /\ t.inc <= InitialInfoInc
    /\ t.info \in [0 .. LastByte(t) -> 0 .. InfoByte]
    /\ t.node = [i \in DOMAIN t.node |-> t.node[i]]

\* The info bytes tell the truth, if ns says which key is in which cell.
Truthful(t, ns) ==
    /\ DOMAIN t.node = {i \in DOMAIN t.info : t.info[i] # 0} \ {Slots(t.buckets)}
    /\ \A i \in DOMAIN t.node :
         /\ t.node[i] \in DOMAIN ns /\ ns[t.node[i]] \in Key
         /\ i \in Home(ns[t.node[i]], t) .. Slots(t.buckets) - 1
         /\ t.info[i] = InfoAt(ns[t.node[i]], t, i)
    /\ t.info[Slots(t.buckets)] = 1
    /\ IsFiniteSet(DOMAIN t.node) /\ t.count = Cardinality(DOMAIN t.node)

\* One more step fits into every byte.
Roomy(t) == \A i \in DOMAIN t.node : t.info[i] + t.inc <= InfoByte

\* A cluster begins with a node in the bucket it hashes to, and no node in it is nearer
\* to its home than the next one would be there.
Sorted(t) ==
    \A i \in DOMAIN t.node :
        IF i = 0 \/ i - 1 \notin DOMAIN t.node
        THEN t.info[i] < 2 * t.inc
        ELSE t.info[i] <= t.info[i - 1] + t.inc

\* A table that is allocated, and that "rest" more nodes are going to.
TableOK(t, ns, rest) ==
    /\ Members(t) /\ Truthful(t, ns) /\ Sorted(t)
    /\ t.allowed # 0 => Roomy(t)
    /\ t.buckets # 1
    /\ t.count + rest <= MaxAllowed(t.buckets)

TableInv ==
    /\ IsFiniteSet(DOMAIN old.node)
    /\ IF table.buckets = 1
       THEN table = Unallocated
       ELSE TableOK(table, nodes, Cardinality(DOMAIN old.node))

\* The node of the insertion in progress is in no table yet.
CallInv ==
    \/ call = NoCall
    \/ /\ call = [op |-> "emplace", key |-> call.key, node |-> call.node,
                  attempts |-> call.attempts]
       /\ call.key \in Key /\ call.attempts \in 0 .. MaxAttempts
       /\ call.node \in DOMAIN nodes /\ nodes[call.node] = call.key
       /\ call.node \notin Range(table.node) \union Range(old.node)

OldInv ==
    /\ old.node = [i \in DOMAIN old.node |-> old.node[i]]
    /\ DOMAIN old.node \subseteq Nat
    /\ \A i \in DOMAIN old.node :
         old.node[i] \in DOMAIN nodes /\ nodes[old.node[i]] \in Key
    /\ old # NoTable =>
         /\ call # NoCall /\ table.buckets # 1 /\ ~thrown
         /\ old = [buckets |-> old.buckets, node |-> old.node]
         /\ old.buckets \in Nat \ {0, 1}

\* Each cell is at most once in the free list, and none was never allocated.
PoolInv(p) ==
    /\ p \in Pool /\ IsInjective(p.free)
    /\ Range(p.free) \subseteq 0 .. p.cells - 1

CellsInv ==
    /\ CellsDisjoint /\ PoolInv(pool)
    /\ nodes \in [DOMAIN nodes -> Key]
    /\ DOMAIN nodes \subseteq 0 .. pool.cells - 1
    /\ thrown \in BOOLEAN

HashMapInv == TableInv /\ CallInv /\ OldInv /\ CellsInv

\* The cells of the entries, those on their way to another table too.
Entries == Range(table.node) \union Range(old.node)

\* A step that gives no entry another key.
KeysStay == \A c \in Entries' : nodes'[c] = nodes[c]

-----------------------------------------------------------------------------
(* The least element of a set of numbers                                   *)

\* Every set of numbers that is not empty has a least one.
LEMMA LeastNumber ==
    ASSUME NEW T \in SUBSET Nat, T # {}
    PROVE  \E n \in T : \A k \in T : n <= k
  <1> DEFINE R == OpToRel(<, Nat)
  <1>1. IsWellFoundedOn(R, Nat)
    BY NatLessThanWellFounded, Zenon
  <1>2. \A i, j \in Nat : <<i, j>> \in R <=> i < j
    BY DEF OpToRel
  <1> HIDE DEF R
  <1>3. PICK n \in T : \A k \in T : <<k, n>> \notin R
    BY <1>1, WFMin
  <1>4. \A k \in T : n <= k
    <2>1. ASSUME NEW k \in T
          PROVE  n <= k
      <3>1. k \in Nat /\ n \in Nat /\ ~(k < n)
        BY <1>2, <1>3
      <3>2. QED
        BY <3>1
    <2>2. QED
      BY <2>1
  <1>5. QED
    BY <1>4

\* What Min chooses.
LEMMA MinIs ==
    ASSUME NEW T \in SUBSET Nat, T # {}
    PROVE  Min(T) \in T /\ \A k \in T : Min(T) <= k
    BY LeastNumber DEF Min

\* The greatest element of a set that has a bound.
LEMMA GreatestNumber ==
    ASSUME NEW T \in SUBSET Nat, T # {}, NEW b \in Nat, \A k \in T : k <= b
    PROVE  \E x \in T : \A k \in T : k <= x
  <1> DEFINE U == {u \in Nat : \E k \in T : u = b - k}
  <1>1. U \in SUBSET Nat /\ U # {}
    <2>1. PICK k \in T : TRUE
      OBVIOUS
    <2>2. b - k \in Nat /\ b - k = b - k
      BY <2>1
    <2>3. QED
      BY <2>1, <2>2
  <1>2. PICK u \in U : \A v \in U : u <= v
    <2> HIDE DEF U
    <2>1. QED
      BY <1>1, LeastNumber
  <1>3. PICK x \in T : u = b - x
    BY <1>2
  <1>4. ASSUME NEW k \in T
        PROVE  k <= x
    <2>1. b - k \in U
      OBVIOUS
    <2>2. b - x <= b - k
      BY <1>2, <1>3, <2>1
    <2>3. k \in Nat /\ x \in Nat
      BY <1>3
    <2>4. QED
      BY <2>2, <2>3
  <1>5. QED
    BY <1>3, <1>4

\* What Max chooses.
LEMMA MaxIs ==
    ASSUME NEW T \in SUBSET Nat, T # {}, NEW b \in Nat, \A k \in T : k <= b
    PROVE  Max(T) \in T /\ \A k \in T : k <= Max(T)
  <1>1. PICK x \in T : \A k \in T : k <= x
    BY GreatestNumber
  <1>2. \A k \in T : x >= k
    BY <1>1
  <1>3. Max(T) \in T /\ \A k \in T : Max(T) >= k
    BY <1>2 DEF Max
  <1>4. QED
    BY <1>3

-----------------------------------------------------------------------------
(* Sizes                                                                   *)

\* calcMaxNumElementsAllowed; a map that is not allocated has room for nothing.
LEMMA MaxAllowedIs ==
    ASSUME NEW b \in Nat
    PROVE  /\ MaxAllowed(b) \in Nat
           /\ MaxAllowed(b) <= MaxAllowed(2 * b)
           /\ MaxAllowed(1) = 0
  <1>1. MaxLoadFactor100 \in 11 .. 99
    BY TableAssumption
  <1> DEFINE x == b * MaxLoadFactor100
  <1>2. x \in Nat /\ (2 * b) * MaxLoadFactor100 = 2 * x
    BY <1>1
  <1> HIDE DEF x
  <1>3. (2 * x) \div 100 >= x \div 100 /\ x \div 100 \in Nat
    BY <1>2
  <1>4. (1 * MaxLoadFactor100) \div 100 = 0
    BY <1>1
  <1>5. QED
    BY <1>2, <1>3, <1>4 DEF MaxAllowed, x

\* The overflow area has a bucket for every node, or for every value of a byte.
LEMMA SlotsIs ==
    ASSUME NEW b \in Nat \ {0}
    PROVE  /\ Slots(b) \in Nat
           /\ b <= Slots(b)
           /\ Slots(b) = b + MaxAllowed(b) \/ Slots(b) = b + InfoByte
  <1>1. MaxAllowed(b) \in Nat /\ InfoByte \in Nat
    BY MaxAllowedIs, TableAssumption
  <1>2. Min({MaxAllowed(b), InfoByte}) \in {MaxAllowed(b), InfoByte}
    BY <1>1, MinIs
  <1>3. QED
    BY <1>1, <1>2 DEF Slots

-----------------------------------------------------------------------------
(* Info bytes                                                              *)

\* Dividing by the first step, whatever it is.
LEMMA Quotient ==
    ASSUME NEW h \in Nat, NEW first \in {4, 8, 16, 32, 64, 128}
    PROVE  h \div first \in Nat
  OBVIOUS

\* What is left of the bits of a hash fits under a step.
LEMMA BitsBounded ==
    ASSUME NEW h \in Nat, NEW first \in {4, 8, 16, 32, 64, 128},
           NEW inc \in Steps, inc <= first
    PROVE  (h % first) \div (first \div inc) \in 0 .. inc - 1
  <1>1. CASE first = 4
    BY <1>1 DEF Steps
  <1>2. CASE first = 8
    BY <1>2 DEF Steps
  <1>3. CASE first = 16
    BY <1>3 DEF Steps
  <1>4. CASE first = 32
    BY <1>4 DEF Steps
  <1>5. CASE first = 64
    BY <1>5 DEF Steps
  <1>6. CASE first = 128
    BY <1>6 DEF Steps
  <1>7. QED
    BY <1>1, <1>2, <1>3, <1>4, <1>5, <1>6

\* The bits of the hash in the byte of a node.
HashBits(k, t) == (Hash[k][t.multiplier] % InitialInfoInc) \div (InitialInfoInc \div t.inc)

\* The parts of an info byte.
LEMMA InfoParts ==
    ASSUME NEW t, Members(t), NEW k \in Key
    PROVE  /\ Home(k, t) \in 0 .. t.buckets - 1
           /\ HashBits(k, t) \in 0 .. t.inc - 1
           /\ t.inc \in Steps /\ t.inc \in Nat
           /\ \A i : InfoAt(k, t, i) = t.inc * (1 + i - Home(k, t)) + HashBits(k, t)
  <1>1. /\ InitialInfoInc \in {4, 8, 16, 32, 64, 128}
        /\ Hash \in [Key -> [0 .. NumMultipliers - 1 -> Nat]]
    BY TableAssumption
  <1>2. /\ t.buckets \in Nat \ {0} /\ t.multiplier \in 0 .. NumMultipliers - 1
        /\ t.inc \in Steps /\ t.inc <= InitialInfoInc
    BY DEF Members
  <1>3. Hash[k][t.multiplier] \in Nat
    <2>1. Hash[k] \in [0 .. NumMultipliers - 1 -> Nat]
      BY <1>1
    <2>2. QED
      BY <1>2, <2>1, Zenon
  <1>4. HashBits(k, t) \in 0 .. t.inc - 1
    BY <1>1, <1>2, <1>3, BitsBounded DEF HashBits
  <1>5. Hash[k][t.multiplier] \div InitialInfoInc \in Nat
    BY <1>1, <1>3, Quotient
  <1>6. Home(k, t) \in 0 .. t.buckets - 1
    BY <1>2, <1>5 DEF Home
  <1>7. QED
    BY <1>2, <1>4, <1>6 DEF InfoAt, HashBits, Steps

\* From bucket to bucket a byte grows by one step; it is a step or more in the home
\* bucket of a node and below two steps only there.
LEMMA InfoGrows ==
    ASSUME NEW t, Members(t), NEW k \in Key, NEW i \in Nat
    PROVE  /\ InfoAt(k, t, i) \in Int
           /\ InfoAt(k, t, i + 1) = InfoAt(k, t, i) + t.inc
           /\ i >= Home(k, t) <=> InfoAt(k, t, i) >= t.inc
           /\ i > Home(k, t) <=> InfoAt(k, t, i) >= 2 * t.inc
           /\ i >= Home(k, t) => InfoAt(k, t, i) > i - Home(k, t)
  <1> DEFINE c == t.inc
             h == Home(k, t)
             x == HashBits(k, t)
  <1>1. c \in Steps /\ h \in Nat /\ x \in Nat /\ x < c
    BY InfoParts DEF Steps
  <1>2. \A j : InfoAt(k, t, j) = c * (1 + j - h) + x
    BY InfoParts
  <1> HIDE DEF c, h, x
  <1>3. /\ c * (1 + i - h) + x \in Int
        /\ c * (1 + (i + 1) - h) + x = c * (1 + i - h) + x + c
        /\ i >= h <=> c * (1 + i - h) + x >= c
        /\ i > h <=> c * (1 + i - h) + x >= 2 * c
        /\ i >= h => c * (1 + i - h) + x > i - h
    BY <1>1 DEF Steps
  <1>4. QED
    BY <1>2, <1>3 DEF c, h

-----------------------------------------------------------------------------
(* Tables                                                                  *)

\* The types of the members, and which buckets have nodes.
LEMMA TableFacts ==
    ASSUME NEW t, NEW ns, Members(t), Truthful(t, ns), t.buckets # 1
    PROVE  /\ t.buckets \in Nat /\ t.buckets > 1
           /\ Slots(t.buckets) \in Nat /\ t.buckets <= Slots(t.buckets)
           /\ InfoByte \in Nat /\ t.inc \in Steps /\ 2 * t.inc <= InfoByte + 1
           /\ t.inc \in Nat /\ t.inc > 1
           /\ DOMAIN t.info = 0 .. Slots(t.buckets) + 7
           /\ \A i \in 0 .. Slots(t.buckets) + 7 : t.info[i] \in Nat /\ t.info[i] <= InfoByte
           /\ t.info[Slots(t.buckets)] = 1
           /\ DOMAIN t.node \subseteq 0 .. Slots(t.buckets) - 1
           /\ \A i \in 0 .. Slots(t.buckets) - 1 : i \in DOMAIN t.node <=> t.info[i] # 0
           /\ \A i \in Slots(t.buckets) + 1 .. Slots(t.buckets) + 7 : t.info[i] = 0
  <1>1. t.buckets \in Nat /\ t.buckets > 1
    BY DEF Members
  <1>2. Slots(t.buckets) \in Nat /\ t.buckets <= Slots(t.buckets)
    BY <1>1, SlotsIs
  <1>3. /\ InfoByte \in Nat /\ t.inc \in Steps /\ 2 * t.inc <= InfoByte + 1
        /\ t.inc \in Nat /\ t.inc > 1
    <2>1. /\ InfoByte \in Nat /\ InfoByte >= 2 * InitialInfoInc - 1
          /\ InitialInfoInc \in Nat
      BY TableAssumption
    <2>2. t.inc \in Steps /\ t.inc <= InitialInfoInc
      BY DEF Members
    <2>3. QED
      BY <2>1, <2>2 DEF Steps
  <1>4. t.info \in [0 .. Slots(t.buckets) + 7 -> 0 .. InfoByte]
    BY <1>1 DEF Members, LastByte
  <1>5. /\ t.info[Slots(t.buckets)] = 1
        /\ DOMAIN t.node = {i \in DOMAIN t.info : t.info[i] # 0} \ {Slots(t.buckets)}
    BY DEF Truthful
  <1>6. \A i \in DOMAIN t.node : i < Slots(t.buckets)
    <2>1. ASSUME NEW i \in DOMAIN t.node
          PROVE  i < Slots(t.buckets)
      <3>1. /\ ns[t.node[i]] \in Key
            /\ i \in Home(ns[t.node[i]], t) .. Slots(t.buckets) - 1
        BY DEF Truthful
      <3>2. Home(ns[t.node[i]], t) \in 0 .. t.buckets - 1
        BY <3>1, InfoParts
      <3>3. QED
        BY <1>1, <1>2, <3>1, <3>2
    <2>2. QED
      BY <2>1
  <1> DEFINE s == Slots(t.buckets)
  <1> HIDE DEF s
  <1>7. /\ DOMAIN t.info = 0 .. s + 7
        /\ \A i \in 0 .. s + 7 : t.info[i] \in Nat /\ t.info[i] <= InfoByte
    <2>1. t.info \in [0 .. s + 7 -> 0 .. InfoByte]
      BY <1>4 DEF s
    <2>2. \A i \in 0 .. InfoByte : i \in Nat /\ i <= InfoByte
      BY <1>3
    <2>3. QED
      BY <2>1, <2>2, Zenon
  <1>8. \A i \in 0 .. s + 7 : i \in DOMAIN t.node <=> t.info[i] # 0 /\ i # s
    BY <1>5, <1>7 DEF s
  <1>9. DOMAIN t.node \subseteq 0 .. s - 1
    BY <1>2, <1>5, <1>6, <1>7 DEF s
  <1>10. \A i \in 0 .. s - 1 : i \in DOMAIN t.node <=> t.info[i] # 0
    BY <1>2, <1>8 DEF s
  <1>11. \A i \in s + 1 .. s + 7 : t.info[i] = 0
    BY <1>2, <1>6, <1>8 DEF s
  <1>12. QED
    BY <1>1, <1>2, <1>3, <1>5, <1>7, <1>9, <1>10, <1>11 DEF s

\* What a node says of itself.
LEMMA NodeFacts ==
    ASSUME NEW t, NEW ns, Members(t), Truthful(t, ns), t.buckets # 1, NEW i \in DOMAIN t.node
    PROVE  /\ i \in Nat /\ t.node[i] \in DOMAIN ns /\ ns[t.node[i]] \in Key
           /\ i >= Home(ns[t.node[i]], t) /\ Home(ns[t.node[i]], t) \in 0 .. t.buckets - 1
           /\ t.info[i] = InfoAt(ns[t.node[i]], t, i)
           /\ t.info[i] \in Nat /\ t.info[i] >= t.inc /\ t.inc \in Nat
  <1>1. /\ t.node[i] \in DOMAIN ns /\ ns[t.node[i]] \in Key
        /\ i \in Home(ns[t.node[i]], t) .. Slots(t.buckets) - 1
        /\ t.info[i] = InfoAt(ns[t.node[i]], t, i)
    BY DEF Truthful
  <1>2. i \in 0 .. Slots(t.buckets) - 1 /\ Slots(t.buckets) \in Nat
    BY TableFacts
  <1>3. Home(ns[t.node[i]], t) \in 0 .. t.buckets - 1 /\ t.inc \in Nat /\ t.buckets \in Nat
    BY <1>1, InfoParts, TableFacts
  <1>4. i \in Nat /\ i >= Home(ns[t.node[i]], t)
    BY <1>1, <1>2, <1>3
  <1>5. t.info[i] \in Nat
    BY <1>2, TableFacts
  <1>6. t.info[i] >= t.inc
    BY <1>1, <1>4, InfoGrows
  <1>7. QED
    BY <1>1, <1>3, <1>4, <1>5, <1>6

\* The overflow area is long enough: a map that is not full has an empty bucket at or
\* behind every home, and before the sentinel.
LEMMA HasEmpty ==
    ASSUME NEW t, NEW ns, Members(t), Truthful(t, ns), t.buckets # 1,
           t.count < MaxAllowed(t.buckets), NEW h \in 0 .. t.buckets - 1
    PROVE  \E j \in h .. Slots(t.buckets) - 1 : t.info[j] = 0
  <1> DEFINE s == Slots(t.buckets)
             b == t.buckets
  <1>1. SUFFICES ASSUME \A j \in h .. s - 1 : t.info[j] # 0
                 PROVE  FALSE
    OBVIOUS
  <1>2. /\ b \in Nat /\ b > 1 /\ s \in Nat /\ b <= s
        /\ \A i \in 0 .. s - 1 : i \in DOMAIN t.node <=> t.info[i] # 0
        /\ \A i \in 0 .. s + 7 : t.info[i] \in Nat /\ t.info[i] <= InfoByte
        /\ InfoByte \in Nat
    BY TableFacts
  <1>3. MaxAllowed(b) \in Nat /\ (s = b + MaxAllowed(b) \/ s = b + InfoByte)
    BY <1>2, SlotsIs, MaxAllowedIs
  <1>4. t.count \in Nat /\ t.count = Cardinality(DOMAIN t.node) /\ IsFiniteSet(DOMAIN t.node)
    BY DEF Members, Truthful
  <1>5. t.count < MaxAllowed(b)
    OBVIOUS
  <1> HIDE DEF s, b
  <1>6. h \in Nat /\ h <= b - 1
    BY <1>2 DEF b
  <1>7. h .. s - 1 \subseteq DOMAIN t.node
    BY <1>1, <1>2, <1>6
  <1>8. CASE s = b + MaxAllowed(b)
    <2>1. Cardinality(h .. s - 1) = s - h
      <3>1. Cardinality(h .. s - 1) = IF h > s - 1 THEN 0 ELSE (s - 1) - h + 1
        BY <1>2, <1>6, FS_Interval
      <3>2. QED
        BY <1>2, <1>6, <3>1
    <2>2. Cardinality(h .. s - 1) <= t.count
      BY <1>4, <1>7, FS_Subset
    <2>3. QED
      BY <1>2, <1>3, <1>4, <1>5, <1>6, <1>8, <2>1, <2>2
  <1>9. CASE s = b + InfoByte
    <2> DEFINE i == s - 1
    <2>1. i \in h .. s - 1 /\ i \in 0 .. s + 7
      BY <1>2, <1>6
    <2>2. i \in DOMAIN t.node
      BY <1>7, <2>1
    <2>3. PICK k \in Key : t.info[i] = InfoAt(k, t, i) /\ i >= Home(k, t) /\ Home(k, t) \in 0 .. b - 1
      BY <2>2, NodeFacts DEF b
    <2>4. i \in Nat /\ i = b + InfoByte - 1
      BY <1>2, <1>9, <2>1
    <2>5. InfoAt(k, t, i) > i - Home(k, t)
      BY <2>3, <2>4, InfoGrows
    <2>6. t.info[i] <= InfoByte /\ t.info[i] \in Nat
      BY <1>2, <2>1
    <2> HIDE DEF i
    <2>7. QED
      BY <1>2, <2>3, <2>4, <2>5, <2>6
  <1>10. QED
    BY <1>3, <1>8, <1>9

-----------------------------------------------------------------------------
(* Inserting a node                                                        *)

\* Where a node of k belongs: at or behind its home, behind the nodes that are as far
\* from theirs, in front of the others, and there is an empty bucket to shift to.
Spot(t, k, i) ==
    /\ i \in Home(k, t) .. Slots(t.buckets) - 1
    /\ InfoAt(k, t, i) > t.info[i]
    /\ \A j \in Home(k, t) .. i - 1 : InfoAt(k, t, j) <= t.info[j]
    /\ \E e \in i .. Slots(t.buckets) - 1 : t.info[e] = 0

\* insert_move finds it.
LEMMA MoveSpot ==
    ASSUME NEW t, NEW ns, Members(t), Truthful(t, ns), t.buckets # 1,
           t.count < MaxAllowed(t.buckets), NEW k \in Key
    PROVE  Spot(t, k, Min({i \in From(Home(k, t), t) : InfoAt(k, t, i) > t.info[i]}))
  <1> DEFINE s == Slots(t.buckets)
             h == Home(k, t)
             T == {i \in From(h, t) : InfoAt(k, t, i) > t.info[i]}
             m == Min(T)
  <1>1. /\ s \in Nat /\ t.inc \in Nat /\ t.inc > 0
        /\ \A i \in 0 .. s + 7 : t.info[i] \in Nat
    BY TableFacts
  <1>2. h \in 0 .. t.buckets - 1 /\ h \in Nat
    BY InfoParts, TableFacts
  <1>3. PICK e \in h .. s - 1 : t.info[e] = 0
    BY <1>2, HasEmpty
  <1>4. \A i \in Nat : InfoAt(k, t, i) \in Int /\ (i >= h => InfoAt(k, t, i) >= t.inc)
    BY InfoGrows
  <1>5. \A i : i \in T <=> i \in h .. s /\ InfoAt(k, t, i) > t.info[i]
    BY DEF From
  <1> HIDE DEF s, h, T
  <1>6. e \in T /\ T \in SUBSET Nat
    BY <1>1, <1>2, <1>3, <1>4, <1>5
  <1>7. m \in T /\ \A i \in T : m <= i
    BY <1>6, MinIs
  <1> HIDE DEF m
  <1>8. m \in h .. s - 1 /\ e \in m .. s - 1
    BY <1>1, <1>2, <1>3, <1>5, <1>6, <1>7
  <1>9. ASSUME NEW j \in h .. m - 1
        PROVE  InfoAt(k, t, j) <= t.info[j]
    <2>1. j \in Nat /\ j \in h .. s /\ j < m /\ j \in 0 .. s + 7
      BY <1>1, <1>2, <1>8
    <2>2. j \notin T
      BY <1>6, <1>7, <2>1
    <2>3. QED
      BY <1>1, <1>4, <1>5, <2>1, <2>2
  <1>10. QED
    BY <1>3, <1>5, <1>7, <1>8, <1>9 DEF Spot, s, h, m, T

\* insertKeyPrepareEmptySpot finds it, if the key is new or not.
LEMMA InsertionSpot ==
    ASSUME NEW t, NEW ns, Members(t), Truthful(t, ns), Sorted(t), t.buckets # 1,
           t.count < MaxAllowed(t.buckets), NEW k \in Key
    PROVE  Spot(t, k, InsertionIdx(k, t))
  <1> DEFINE s == Slots(t.buckets)
             h == Home(k, t)
             P == {i \in From(h, t) : InfoAt(k, t, i) >= t.info[i]}
             p == Min(P)
             T == {i \in From(p, t) : InfoAt(k, t, i) # t.info[i]}
             m == Min(T)
  <1>0. \A i \in 0 .. s - 1 : i \in DOMAIN t.node <=> t.info[i] # 0
    BY TableFacts
  <1>1. /\ s \in Nat /\ t.inc \in Nat /\ t.inc > 0
        /\ \A i \in 0 .. s + 7 : t.info[i] \in Nat
    BY TableFacts
  <1>2. h \in 0 .. t.buckets - 1 /\ h \in Nat
    BY InfoParts, TableFacts
  <1>3. PICK e \in h .. s - 1 : t.info[e] = 0
    BY <1>2, HasEmpty
  <1>4. \A i \in Nat : /\ InfoAt(k, t, i) \in Int
                       /\ i >= h => InfoAt(k, t, i) >= t.inc
                       /\ InfoAt(k, t, i + 1) = InfoAt(k, t, i) + t.inc
    BY InfoGrows
  <1>5. \A i : i \in P <=> i \in h .. s /\ InfoAt(k, t, i) >= t.info[i]
    BY DEF From
  <1>6. \A i : i \in T <=> i \in p .. s /\ InfoAt(k, t, i) # t.info[i]
    BY DEF From
  <1>7. InsertionIdx(k, t) = m
    BY DEF InsertionIdx, Passed
  <1> HIDE DEF s, h, P, T
  <1>8. e \in P /\ P \in SUBSET Nat
    BY <1>1, <1>2, <1>3, <1>4, <1>5
  <1>9. p \in P /\ \A i \in P : p <= i
    BY <1>8, MinIs
  <1> HIDE DEF p
  <1>10. p \in h .. s /\ p <= e /\ p \in Nat
    BY <1>2, <1>5, <1>8, <1>9
  <1>11. e \in T /\ T \in SUBSET Nat
    <2>1. e \in Nat /\ e >= h /\ e \in p .. s
      BY <1>1, <1>2, <1>3, <1>10
    <2>2. InfoAt(k, t, e) >= t.inc /\ InfoAt(k, t, e) \in Int
      BY <1>4, <2>1
    <2>3. InfoAt(k, t, e) # t.info[e]
      BY <1>1, <1>3, <2>2
    <2>4. T \in SUBSET Nat
      BY <1>1, <1>6, <1>10
    <2>5. QED
      BY <1>6, <2>1, <2>3, <2>4
  <1>12. m \in T /\ \A i \in T : m <= i
    BY <1>11, MinIs
  <1> HIDE DEF m
  <1>13. m \in h .. s - 1 /\ e \in m .. s - 1 /\ m \in Nat /\ p <= m
    BY <1>1, <1>2, <1>3, <1>6, <1>10, <1>11, <1>12
  <1>14. ASSUME NEW j \in h .. m - 1
         PROVE  /\ InfoAt(k, t, j) <= t.info[j]
                /\ j >= p => InfoAt(k, t, j) = t.info[j]
    <2>1. j \in Nat /\ j \in h .. s /\ j < m /\ j \in 0 .. s + 7
      BY <1>1, <1>2, <1>13
    <2>2. CASE j < p
      <3>1. j \notin P
        BY <1>9, <1>10, <2>1, <2>2
      <3>2. ~(InfoAt(k, t, j) >= t.info[j])
        BY <1>5, <2>1, <3>1
      <3>3. InfoAt(k, t, j) \in Int /\ t.info[j] \in Nat
        BY <1>1, <1>4, <2>1
      <3>4. QED
        BY <1>10, <2>1, <2>2, <3>2, <3>3
    <2>3. CASE j >= p
      <3>1. j \notin T
        BY <1>11, <1>12, <1>13, <2>1
      <3>2. InfoAt(k, t, j) = t.info[j]
        BY <1>6, <1>10, <2>1, <2>3, <3>1
      <3>3. QED
        BY <1>1, <2>1, <3>2
    <2>4. QED
      BY <1>10, <2>1, <2>2, <2>3
  <1>15. InfoAt(k, t, m) > t.info[m]
    <2>1. InfoAt(k, t, m) # t.info[m] /\ m \in 0 .. s - 1 /\ t.info[m] \in Nat
      BY <1>1, <1>2, <1>6, <1>12, <1>13
    <2>2. CASE m = p
      BY <1>4, <1>5, <1>9, <1>13, <2>1, <2>2
    <2>3. CASE m > p
      <3> DEFINE j == m - 1
      <3>1. j \in h .. m - 1 /\ j >= p /\ j \in Nat /\ j + 1 = m /\ j \in 0 .. s - 1
        BY <1>1, <1>2, <1>10, <1>13, <2>3
      <3>2. InfoAt(k, t, j) = t.info[j] /\ InfoAt(k, t, j) >= t.inc
        BY <1>2, <1>4, <1>14, <3>1
      <3>3. j \in DOMAIN t.node /\ t.info[j] \in Nat
        BY <1>0, <1>1, <3>1, <3>2
      <3>4. InfoAt(k, t, m) = t.info[j] + t.inc
        BY <1>4, <3>1, <3>2
      <3>5. m \in DOMAIN t.node => t.info[m] <= t.info[j] + t.inc
        BY <3>1, <3>3 DEF Sorted
      <3>6. t.info[m] = 0 \/ m \in DOMAIN t.node
        BY <1>0, <2>1
      <3> HIDE DEF j
      <3>7. QED
        BY <1>1, <2>1, <3>3, <3>4, <3>5, <3>6
    <2>4. QED
      BY <1>10, <1>13, <2>2, <2>3
  <1>16. QED
    <2>1. \A j \in h .. m - 1 : InfoAt(k, t, j) <= t.info[j]
      BY <1>14
    <2>2. QED
      BY <1>3, <1>7, <1>13, <1>15, <2>1 DEF Spot, s, h

\* A byte that has room does not wrap around.
LEMMA NoWrap ==
    ASSUME NEW m \in Nat, NEW x \in 0 .. m
    PROVE  x % (m + 1) = x
  OBVIOUS

\* u is t after n was put into bucket i, the nodes from there to bucket e shifted up.
Shifted(t, u, k, i, n, e) ==
    /\ e \in i .. Slots(t.buckets) - 1 /\ t.info[e] = 0
    /\ \A j \in i .. e - 1 : t.info[j] # 0
    /\ u = [buckets |-> t.buckets, multiplier |-> t.multiplier, count |-> t.count + 1,
            allowed |-> u.allowed, inc |-> t.inc, info |-> u.info, node |-> u.node]
    /\ u.info \in [DOMAIN t.info -> 0 .. InfoByte]
    /\ u.info[i] = InfoAt(k, t, i)
    /\ \A j \in i + 1 .. e : u.info[j] = t.info[j - 1] + t.inc
    /\ \A j \in DOMAIN t.info : j \notin i .. e => u.info[j] = t.info[j]
    /\ DOMAIN u.node = DOMAIN t.node \union {e} /\ u.node = [j \in DOMAIN u.node |-> u.node[j]]
    /\ u.node[i] = n
    /\ \A j \in i + 1 .. e : u.node[j] = t.node[j - 1]
    /\ \A j \in DOMAIN t.node : j \notin i .. e => u.node[j] = t.node[j]
    /\ u.allowed \in {0, t.allowed}
    /\ u.allowed # 0 => \A j \in i .. e : u.info[j] + t.inc <= InfoByte

\* No byte wraps around when a node is put into a map that has room for a step.
LEMMA PlaceShifts ==
    ASSUME NEW t, NEW ns, Members(t), Truthful(t, ns), t.buckets # 1, Roomy(t),
           NEW k \in Key, NEW i, Spot(t, k, i), NEW n
    PROVE  \E e : Shifted(t, Place(t, k, i, n), k, i, n, e)
  <1> DEFINE s == Slots(t.buckets)
             h == Home(k, t)
             E == {j \in From(i, t) : t.info[j] = 0}
             e == Min(E)
             I == [j \in DOMAIN t.info |->
                    IF j = i THEN InfoAt(k, t, i) % (InfoByte + 1)
                    ELSE IF j \in i + 1 .. e THEN (t.info[j - 1] + t.inc) % (InfoByte + 1)
                    ELSE t.info[j]]
             N == [j \in DOMAIN t.node \union {e} |->
                        IF j = i THEN n
                        ELSE IF j \in i + 1 .. e THEN t.node[j - 1]
                        ELSE t.node[j]]
             A == IF \E j \in i .. e : I[j] + t.inc > InfoByte THEN 0 ELSE t.allowed
             u == Place(t, k, i, n)
  <1>0. \A j \in 0 .. s - 1 : j \in DOMAIN t.node <=> t.info[j] # 0
    BY TableFacts
  <1>1. /\ s \in Nat /\ t.inc \in Nat /\ t.inc > 1 /\ InfoByte \in Nat
        /\ 2 * t.inc <= InfoByte + 1
    BY TableFacts
  <1>2. /\ DOMAIN t.info = 0 .. s + 7
        /\ \A j \in 0 .. s + 7 : t.info[j] \in Nat
    BY TableFacts
  <1>3. h \in 0 .. t.buckets - 1 /\ h \in Nat
    BY InfoParts, TableFacts
  <1>4. /\ i \in h .. s - 1 /\ InfoAt(k, t, i) > t.info[i]
        /\ \A j \in h .. i - 1 : InfoAt(k, t, j) <= t.info[j]
        /\ \E j \in i .. s - 1 : t.info[j] = 0
    BY DEF Spot
  <1>5. \A j \in Nat : /\ InfoAt(k, t, j) \in Int
                       /\ j >= h => InfoAt(k, t, j) >= t.inc
                       /\ InfoAt(k, t, j + 1) = InfoAt(k, t, j) + t.inc
                       /\ j > h <=> InfoAt(k, t, j) >= 2 * t.inc
    BY InfoGrows
  <1>6. \A j : j \in E <=> j \in i .. s /\ t.info[j] = 0
    BY DEF From
  <1>7. u = [t EXCEPT !.info = I, !.node = N, !.count = @ + 1, !.allowed = A]
    BY DEF Place
  <1>8. t = [buckets |-> t.buckets, multiplier |-> t.multiplier, count |-> t.count,
             allowed |-> t.allowed, inc |-> t.inc, info |-> t.info, node |-> t.node]
    BY DEF Members
  <1>9. DOMAIN t.node \subseteq 0 .. s - 1
    BY TableFacts
  <1>10. /\ u = [buckets |-> t.buckets, multiplier |-> t.multiplier, count |-> t.count + 1,
                 allowed |-> A, inc |-> t.inc, info |-> I, node |-> N]
    <2> HIDE DEF I, N, A, u
    <2>1. QED
      BY <1>7, <1>8
  <1>11. u.info = I /\ u.node = N /\ u.allowed = A
    <2> HIDE DEF I, N, A, u
    <2>1. QED
      BY <1>10
  <1> HIDE DEF s, h, E, u
  <1>12. i \in Nat /\ i < s /\ h <= i
    BY <1>1, <1>3, <1>4
  <1>13. E \in SUBSET Nat /\ E # {}
    BY <1>1, <1>4, <1>6, <1>12
  <1>14. e \in E /\ \A j \in E : e <= j
    BY <1>13, MinIs
  <1> HIDE DEF e
  <1>15. e \in i .. s - 1 /\ t.info[e] = 0 /\ e \in Nat
    <2>1. PICK j \in i .. s - 1 : t.info[j] = 0
      BY <1>4
    <2>2. j \in E
      BY <1>1, <1>6, <1>12, <2>1
    <2>3. e \in i .. s /\ t.info[e] = 0 /\ e <= j
      BY <1>6, <1>14, <2>2
    <2>4. QED
      BY <1>1, <1>12, <2>1, <2>3
  <1>16. ASSUME NEW j \in i .. e - 1
         PROVE  /\ t.info[j] # 0 /\ j \in DOMAIN t.node
                /\ t.info[j] \in Nat /\ t.info[j] + t.inc <= InfoByte
    <2>1. j \in i .. s /\ j < e /\ j \in 0 .. s - 1 /\ j \in 0 .. s + 7
      BY <1>1, <1>12, <1>15
    <2>2. j \notin E
      BY <1>13, <1>14, <1>15, <2>1
    <2>3. t.info[j] # 0 /\ j \in DOMAIN t.node
      BY <1>0, <1>6, <2>1, <2>2
    <2>4. QED
      BY <1>2, <2>1, <2>3 DEF Roomy
  <1>17. InfoAt(k, t, i) \in 0 .. InfoByte
    <2>1. CASE i = h
      <3>1. ~(InfoAt(k, t, i) >= 2 * t.inc) /\ InfoAt(k, t, i) >= t.inc
        BY <1>3, <1>5, <1>12, <2>1
      <3>2. InfoAt(k, t, i) \in Int
        BY <1>5, <1>12
      <3>3. QED
        BY <1>1, <3>1, <3>2
    <2>2. CASE i > h
      <3> DEFINE j == i - 1
      <3>1. j \in h .. i - 1 /\ j \in Nat /\ j + 1 = i /\ j \in 0 .. s - 1 /\ j >= h /\ j \in 0 .. s + 7
        BY <1>1, <1>3, <1>12, <2>2
      <3>2. /\ InfoAt(k, t, i) = InfoAt(k, t, j) + t.inc /\ InfoAt(k, t, j) \in Int
            /\ InfoAt(k, t, j) >= t.inc /\ InfoAt(k, t, j) <= t.info[j]
        BY <1>4, <1>5, <3>1
      <3>3. j \in DOMAIN t.node /\ t.info[j] \in Nat
        <4>1. t.info[j] \in Nat
          BY <1>2, <3>1
        <4>2. t.info[j] # 0
          BY <1>1, <3>2, <4>1
        <4>3. QED
          BY <1>0, <3>1, <4>1, <4>2
      <3>4. t.info[j] + t.inc <= InfoByte
        BY <3>3 DEF Roomy
      <3> HIDE DEF j
      <3>5. QED
        BY <1>1, <3>2, <3>3, <3>4
    <2>3. QED
      BY <1>3, <1>12, <2>1, <2>2
  <1>19. I[i] = InfoAt(k, t, i)
    <2>1. i \in DOMAIN t.info
      BY <1>1, <1>2, <1>12
    <2>2. QED
      BY <1>1, <1>17, <2>1, NoWrap
  <1>20. ASSUME NEW j \in i + 1 .. e
         PROVE  I[j] = t.info[j - 1] + t.inc /\ N[j] = t.node[j - 1]
    <2>1. /\ j \in DOMAIN t.info /\ j # i /\ j - 1 \in i .. e - 1
          /\ j = e \/ j \in i .. e - 1
      BY <1>1, <1>2, <1>12, <1>15
    <2>2. (t.info[j - 1] + t.inc) % (InfoByte + 1) = t.info[j - 1] + t.inc
      <3> DEFINE x == t.info[j - 1]
      <3>1. x \in Nat /\ x + t.inc <= InfoByte
        BY <1>16, <2>1
      <3> HIDE DEF x
      <3>2. x + t.inc \in 0 .. InfoByte
        BY <1>1, <3>1
      <3>3. (x + t.inc) % (InfoByte + 1) = x + t.inc
        BY <1>1, <3>2, NoWrap
      <3>4. QED
        BY <3>3 DEF x
    <2>3. I[j] = (t.info[j - 1] + t.inc) % (InfoByte + 1)
      BY <2>1
    <2>4. j \in DOMAIN t.node \union {e}
      BY <1>16, <2>1
    <2>5. N[j] = t.node[j - 1]
      BY <2>1, <2>4
    <2>6. QED
      BY <2>2, <2>3, <2>5
  <1>21. \A j \in DOMAIN t.info : j \notin i .. e => I[j] = t.info[j]
    BY <1>1, <1>2, <1>12, <1>15
  <1>18. I \in [DOMAIN t.info -> 0 .. InfoByte]
    <2>1. ASSUME NEW j \in DOMAIN t.info
          PROVE  I[j] \in 0 .. InfoByte
      <3>1. CASE j = i
        BY <1>17, <1>19, <3>1
      <3>2. CASE j \in i + 1 .. e
        <4>1. j - 1 \in i .. e - 1
          BY <1>12, <1>15, <3>2
        <4> DEFINE x == t.info[j - 1]
        <4>2. x \in Nat /\ x + t.inc <= InfoByte
          BY <1>16, <4>1
        <4>3. I[j] = x + t.inc
          BY <1>20, <3>2
        <4> HIDE DEF x, I
        <4>4. QED
          BY <1>1, <4>2, <4>3
      <3>3. CASE j \notin i .. e
        <4>1. I[j] = t.info[j]
          BY <1>21, <3>3
        <4>2. t.info[j] \in 0 .. InfoByte
          BY <1>1, TableFacts
        <4>3. QED
          BY <4>1, <4>2
      <3>4. j = i \/ j \in i + 1 .. e \/ j \notin i .. e
        BY <1>2, <1>12, <1>15
      <3>5. QED
        BY <3>1, <3>2, <3>3, <3>4
    <2> HIDE DEF I
    <2>2. DOMAIN I = DOMAIN t.info /\ I = [j \in DOMAIN I |-> I[j]]
      BY DEF I
    <2>3. QED
      BY <2>1, <2>2
  <1>22. DOMAIN N = DOMAIN t.node \union {e} /\ N = [j \in DOMAIN N |-> N[j]]
    OBVIOUS
  <1>23. N[i] = n
    <2>1. i \in DOMAIN t.node \union {e}
      <3>1. i = e \/ i \in i .. e - 1
        BY <1>12, <1>15
      <3>2. QED
        BY <1>16, <3>1
    <2>2. QED
      BY <2>1
  <1>24. \A j \in DOMAIN t.node : j \notin i .. e => N[j] = t.node[j]
    BY <1>1, <1>9, <1>12, <1>15
  <1>25. ASSUME A # 0, NEW j \in i .. e
         PROVE  I[j] + t.inc <= InfoByte
    <2> DEFINE x == I[j]
    <2>1. ~(x + t.inc > InfoByte)
      BY <1>25
    <2>2. x \in Nat
      <3>1. CASE j = i
        BY <1>17, <1>19, <3>1
      <3>2. CASE j \in i + 1 .. e
        <4>1. j - 1 \in i .. e - 1
          BY <1>12, <1>15, <3>2
        <4>2. x = t.info[j - 1] + t.inc
          BY <1>20, <3>2
        <4>3. QED
          BY <1>1, <1>16, <4>1, <4>2
      <3>3. QED
        BY <1>12, <1>15, <3>1, <3>2
    <2> HIDE DEF x
    <2>3. x + t.inc <= InfoByte
      BY <1>1, <2>1, <2>2
    <2>4. QED
      BY <2>3 DEF x
  <1>26. A \in {0, t.allowed}
    OBVIOUS
  <1> HIDE DEF I, N, A
  <1>27. \A j \in i .. e - 1 : t.info[j] # 0
    BY <1>16
  <1>28. \A j \in i + 1 .. e : I[j] = t.info[j - 1] + t.inc
    BY <1>20
  <1>29. \A j \in i + 1 .. e : N[j] = t.node[j - 1]
    BY <1>20
  <1>30. A # 0 => \A j \in i .. e : I[j] + t.inc <= InfoByte
    BY <1>25
  <1>31. Shifted(t, u, k, i, n, e)
    BY <1>10, <1>11, <1>15, <1>18, <1>19, <1>21, <1>22, <1>23, <1>24, <1>26, <1>27, <1>28,
       <1>29, <1>30 DEF Shifted, s
  <1>32. QED
    BY <1>31 DEF u

\* What a byte says depends on these members only.
LEMMA SameInfo ==
    ASSUME NEW t, NEW u, u.buckets = t.buckets, u.multiplier = t.multiplier, u.inc = t.inc,
           NEW k
    PROVE  Home(k, u) = Home(k, t) /\ \A i : InfoAt(k, u, i) = InfoAt(k, t, i)
  BY DEF Home, InfoAt

\* A node put in its spot: the bytes of the table still tell the truth.
LEMMA ShiftedTruthful ==
    ASSUME NEW t, NEW ns, Members(t), Truthful(t, ns), t.buckets # 1,
           NEW k \in Key, NEW i, Spot(t, k, i), NEW n \in DOMAIN ns, ns[n] = k,
           NEW u, NEW e, Shifted(t, u, k, i, n, e)
    PROVE  Members(u) /\ Truthful(u, ns)
  <1> DEFINE s == Slots(t.buckets)
             h == Home(k, t)
  <1>0. \A j \in 0 .. s - 1 : j \in DOMAIN t.node <=> t.info[j] # 0
    BY TableFacts
  <1>1. /\ s \in Nat /\ t.inc \in Nat /\ t.inc > 1
        /\ DOMAIN t.node \subseteq 0 .. s - 1
    BY TableFacts
  <1>2. /\ DOMAIN t.info = 0 .. s + 7
        /\ \A j \in 0 .. s + 7 : t.info[j] \in Nat
        /\ \A j \in s + 1 .. s + 7 : t.info[j] = 0
        /\ t.info[s] = 1
    BY TableFacts
  <1>3. i \in h .. s - 1 /\ h \in Nat
    BY InfoParts, TableFacts DEF Spot
  <1>4. /\ e \in i .. s - 1 /\ t.info[e] = 0
        /\ \A j \in i .. e - 1 : t.info[j] # 0
        /\ u.info[i] = InfoAt(k, t, i)
        /\ \A j \in i + 1 .. e : u.info[j] = t.info[j - 1] + t.inc
        /\ \A j \in DOMAIN t.info : j \notin i .. e => u.info[j] = t.info[j]
    BY DEF Shifted
  <1>5. /\ DOMAIN u.node = DOMAIN t.node \union {e} /\ u.node = [j \in DOMAIN u.node |-> u.node[j]]
        /\ u.node[i] = n
        /\ \A j \in i + 1 .. e : u.node[j] = t.node[j - 1]
        /\ \A j \in DOMAIN t.node : j \notin i .. e => u.node[j] = t.node[j]
    BY DEF Shifted
  <1>6. /\ u = [buckets |-> t.buckets, multiplier |-> t.multiplier, count |-> t.count + 1,
                allowed |-> u.allowed, inc |-> t.inc, info |-> u.info, node |-> u.node]
        /\ u.info \in [DOMAIN t.info -> 0 .. InfoByte]
        /\ u.allowed \in {0, t.allowed}
    BY DEF Shifted
  <1>7. /\ u.buckets = t.buckets /\ u.multiplier = t.multiplier /\ u.inc = t.inc
        /\ u.count = t.count + 1
    <2> DEFINE a == u.allowed
               f == u.info
               g == u.node
    <2>1. u = [buckets |-> t.buckets, multiplier |-> t.multiplier, count |-> t.count + 1,
               allowed |-> a, inc |-> t.inc, info |-> f, node |-> g]
      BY <1>6
    <2> HIDE DEF a, f, g
    <2>2. QED
      BY <2>1
  <1>8. \A key : Home(key, u) = Home(key, t) /\ \A j : InfoAt(key, u, j) = InfoAt(key, t, j)
    BY <1>7, SameInfo
  <1>9. \A key \in Key, j \in Nat :
           /\ InfoAt(key, t, j) \in Int
           /\ InfoAt(key, t, j + 1) = InfoAt(key, t, j) + t.inc
           /\ j >= Home(key, t) => InfoAt(key, t, j) >= t.inc
    BY InfoGrows
  <1> HIDE DEF s, h
  <1>10. i \in Nat /\ e \in Nat /\ i < s /\ h <= i /\ i <= e /\ e < s
    BY <1>1, <1>3, <1>4
  <1>11. ASSUME NEW j \in i .. e - 1
         PROVE  j \in DOMAIN t.node
    <2>1. j \in 0 .. s - 1
      BY <1>1, <1>10
    <2>2. QED
      BY <1>0, <1>4, <2>1
  <1>12. Members(u)
    <2>1. /\ t.buckets \in Nat \ {0} /\ t.multiplier \in 0 .. NumMultipliers - 1
          /\ t.count \in Nat /\ t.allowed \in {0, MaxAllowed(t.buckets)}
          /\ t.inc \in Steps /\ t.inc <= InitialInfoInc
          /\ t.info \in [0 .. LastByte(t) -> 0 .. InfoByte]
      BY DEF Members
    <2>2. LastByte(u) = LastByte(t) /\ DOMAIN t.info = 0 .. LastByte(t)
      BY <1>7, <2>1 DEF LastByte
    <2>3. /\ u = [buckets |-> u.buckets, multiplier |-> u.multiplier, count |-> u.count,
                  allowed |-> u.allowed, inc |-> u.inc, info |-> u.info, node |-> u.node]
      BY <1>6, <1>7, Zenon
    <2>4. u.info \in [0 .. LastByte(u) -> 0 .. InfoByte]
      BY <1>6, <2>2, Zenon
    <2>5. u.count \in Nat
      BY <1>7, <2>1
    <2>6. QED
      BY <1>5, <1>6, <1>7, <2>1, <2>3, <2>4, <2>5, Zenon DEF Members
  <1>13. ASSUME NEW j \in DOMAIN u.node
         PROVE  /\ j \in 0 .. s - 1 /\ u.info[j] # 0
                /\ u.node[j] \in DOMAIN ns /\ ns[u.node[j]] \in Key
                /\ j \in Home(ns[u.node[j]], t) .. s - 1
                /\ u.info[j] = InfoAt(ns[u.node[j]], t, j)
    <2>1. j \in 0 .. s - 1 /\ j \in Nat /\ j < s
      BY <1>1, <1>5, <1>10
    <2>2. CASE j = i
      <3>1. InfoAt(k, t, i) >= t.inc /\ InfoAt(k, t, i) \in Int
        BY <1>9, <1>10 DEF h
      <3>2. u.info[i] # 0
        BY <1>1, <1>4, <3>1
      <3>3. QED
        BY <1>3, <1>4, <1>5, <2>1, <2>2, <3>2 DEF h
    <2>3. CASE j \in i + 1 .. e
      <3> DEFINE m == j - 1
                 q == ns[t.node[m]]
      <3>1. m \in i .. e - 1 /\ m \in Nat /\ m + 1 = j
        BY <1>10, <2>3
      <3>2. m \in DOMAIN t.node
        BY <1>11, <3>1
      <3>3. /\ t.node[m] \in DOMAIN ns /\ q \in Key
            /\ m >= Home(q, t) /\ Home(q, t) \in 0 .. t.buckets - 1
            /\ t.info[m] = InfoAt(q, t, m)
            /\ t.info[m] \in Nat
        BY <3>2, NodeFacts
      <3>4. InfoAt(q, t, j) = InfoAt(q, t, m) + t.inc
        BY <1>9, <3>1, <3>3
      <3>5. u.info[j] = t.info[m] + t.inc /\ u.node[j] = t.node[m]
        BY <1>4, <1>5, <2>3
      <3>6. u.info[j] = InfoAt(q, t, j) /\ u.info[j] # 0
        BY <1>1, <3>3, <3>4, <3>5
      <3>7. j \in Home(q, t) .. s - 1
        <4> HIDE DEF q
        <4>1. QED
          BY <1>1, <2>1, <3>1, <3>3, TableFacts
      <3>8. QED
        BY <2>1, <3>3, <3>5, <3>6, <3>7
    <2>4. CASE j \notin i .. e
      <3>1. j \in DOMAIN t.node
        BY <1>5, <1>10, <2>4
      <3>2. u.node[j] = t.node[j]
        BY <1>5, <2>4, <3>1
      <3>3. u.info[j] = t.info[j] /\ t.info[j] # 0
        BY <1>0, <1>1, <1>2, <1>4, <2>1, <2>4, <3>1
      <3>4. /\ t.node[j] \in DOMAIN ns /\ ns[t.node[j]] \in Key
            /\ j \in Home(ns[t.node[j]], t) .. s - 1
            /\ t.info[j] = InfoAt(ns[t.node[j]], t, j)
        BY <3>1 DEF Truthful, s
      <3>5. QED
        BY <2>1, <3>2, <3>3, <3>4
    <2>5. j = i \/ j \in i + 1 .. e \/ j \notin i .. e
      BY <1>10, <2>1
    <2>6. QED
      BY <2>2, <2>3, <2>4, <2>5
  <1>14. DOMAIN u.node = {j \in DOMAIN u.info : u.info[j] # 0} \ {s}
    <2>1. DOMAIN u.info = 0 .. s + 7
      BY <1>2, <1>6
    <2>2. ASSUME NEW j \in DOMAIN u.node
          PROVE  j \in DOMAIN u.info /\ u.info[j] # 0 /\ j # s
      <3>1. j \in 0 .. s - 1 /\ u.info[j] # 0
        BY <1>13
      <3>2. QED
        BY <1>1, <2>1, <3>1
    <2>3. ASSUME NEW j \in 0 .. s + 7, u.info[j] # 0, j # s
          PROVE  j \in DOMAIN u.node
      <3>1. CASE j \in i .. e
        <4>1. j = e \/ j \in i .. e - 1
          BY <1>10, <3>1
        <4>2. QED
          BY <1>5, <1>11, <4>1
      <3>2. CASE j \notin i .. e
        <4>1. t.info[j] # 0
          BY <1>2, <1>4, <2>3, <3>2
        <4>2. j \in 0 .. s - 1
          BY <1>1, <1>2, <2>3, <4>1
        <4>3. QED
          BY <1>0, <1>5, <4>1, <4>2
      <3>3. QED
        BY <3>1, <3>2
    <2>4. QED
      BY <2>1, <2>2, <2>3
  <1>15. u.info[s] = 1
    <2>1. s \in DOMAIN t.info /\ s \notin i .. e
      BY <1>1, <1>2, <1>10
    <2>2. QED
      BY <1>2, <1>4, <2>1
  <1>16. IsFiniteSet(DOMAIN u.node) /\ u.count = Cardinality(DOMAIN u.node)
    <2>1. e \notin DOMAIN t.node
      BY <1>0, <1>1, <1>4, <1>10
    <2>2. IsFiniteSet(DOMAIN t.node) /\ t.count = Cardinality(DOMAIN t.node)
      BY DEF Truthful
    <2>3. QED
      BY <1>5, <1>7, <2>1, <2>2, FS_AddElement
  <1>17. Slots(u.buckets) = s
    BY <1>7 DEF s
  <1>18. \A j \in DOMAIN u.node :
           /\ u.node[j] \in DOMAIN ns /\ ns[u.node[j]] \in Key
           /\ j \in Home(ns[u.node[j]], u) .. s - 1
           /\ u.info[j] = InfoAt(ns[u.node[j]], u, j)
    BY <1>8, <1>13, Zenon
  <1>19. QED
    BY <1>12, <1>14, <1>15, <1>16, <1>17, <1>18 DEF Truthful

\* ... and its clusters stay sorted.
LEMMA ShiftedSorted ==
    ASSUME NEW t, NEW ns, Members(t), Truthful(t, ns), t.buckets # 1, Sorted(t),
           NEW k \in Key, NEW i, Spot(t, k, i), NEW n \in DOMAIN ns, ns[n] = k,
           NEW u, NEW e, Shifted(t, u, k, i, n, e)
    PROVE  Sorted(u)
  <1> DEFINE s == Slots(t.buckets)
             h == Home(k, t)
  <1>0. \A j \in 0 .. s - 1 : j \in DOMAIN t.node <=> t.info[j] # 0
    BY TableFacts
  <1>1. /\ s \in Nat /\ t.inc \in Nat /\ t.inc > 1
        /\ DOMAIN t.node \subseteq 0 .. s - 1
        /\ DOMAIN t.info = 0 .. s + 7
    BY TableFacts
  <1>2. \A j \in 0 .. s + 7 : t.info[j] \in Nat
    BY TableFacts
  <1>3. /\ i \in h .. s - 1 /\ h \in Nat
        /\ InfoAt(k, t, i) > t.info[i]
        /\ \A j \in h .. i - 1 : InfoAt(k, t, j) <= t.info[j]
    BY InfoParts, TableFacts DEF Spot
  <1>4. /\ e \in i .. s - 1 /\ t.info[e] = 0
        /\ \A j \in i .. e - 1 : t.info[j] # 0
        /\ u.info[i] = InfoAt(k, t, i)
        /\ \A j \in i + 1 .. e : u.info[j] = t.info[j - 1] + t.inc
        /\ \A j \in DOMAIN t.info : j \notin i .. e => u.info[j] = t.info[j]
        /\ DOMAIN u.node = DOMAIN t.node \union {e}
    BY DEF Shifted
  <1>5. u.inc = t.inc
    <2>1. u = [buckets |-> t.buckets, multiplier |-> t.multiplier, count |-> t.count + 1,
               allowed |-> u.allowed, inc |-> t.inc, info |-> u.info, node |-> u.node]
      BY DEF Shifted
    <2> DEFINE a == u.allowed
               f == u.info
               g == u.node
    <2>2. u = [buckets |-> t.buckets, multiplier |-> t.multiplier, count |-> t.count + 1,
               allowed |-> a, inc |-> t.inc, info |-> f, node |-> g]
      BY <2>1
    <2> HIDE DEF a, f, g
    <2>3. QED
      BY <2>2
  <1>6. \A j \in Nat : /\ InfoAt(k, t, j) \in Int
                       /\ InfoAt(k, t, j + 1) = InfoAt(k, t, j) + t.inc
                       /\ j >= h <=> InfoAt(k, t, j) >= t.inc
                       /\ j > h <=> InfoAt(k, t, j) >= 2 * t.inc
    BY InfoGrows
  <1>7. \A j \in DOMAIN t.node : t.info[j] >= t.inc /\ t.info[j] \in Nat
    BY NodeFacts
  <1> HIDE DEF s, h
  <1>8. i \in Nat /\ e \in Nat /\ i < s /\ h <= i /\ i <= e /\ e < s
    BY <1>1, <1>3, <1>4
  <1>9. ASSUME NEW j \in i .. e - 1
        PROVE  j \in DOMAIN t.node
    <2>1. j \in 0 .. s - 1
      BY <1>1, <1>8
    <2>2. QED
      BY <1>0, <1>4, <2>1
  <1>10. e \notin DOMAIN t.node
    BY <1>0, <1>1, <1>4, <1>8
  <1> DEFINE Fits(j) == IF j = 0 \/ j - 1 \notin DOMAIN u.node
                        THEN u.info[j] < 2 * u.inc
                        ELSE u.info[j] <= u.info[j - 1] + u.inc
  <1>11. ASSUME NEW j \in DOMAIN u.node
         PROVE  Fits(j)
    <2>1. j \in Nat /\ j < s /\ j \in DOMAIN t.info
      BY <1>1, <1>4, <1>8
    <2>2. CASE j = i
      <3>1. CASE i = 0 \/ i - 1 \notin DOMAIN u.node
        <4>1. i = h
          <5>1. ASSUME i > h
                PROVE  FALSE
            <6> DEFINE m == i - 1
            <6>1. m \in h .. i - 1 /\ m \in Nat /\ m >= h /\ m \in 0 .. s - 1 /\ i # 0
              BY <1>1, <1>3, <1>8, <5>1
            <6>2. InfoAt(k, t, m) <= t.info[m] /\ InfoAt(k, t, m) >= t.inc /\ InfoAt(k, t, m) \in Int
              BY <1>3, <1>6, <6>1
            <6>3. t.info[m] \in Nat
              BY <1>1, <1>2, <6>1
            <6>4. t.info[m] # 0
              BY <1>1, <6>2, <6>3
            <6>5. m \in DOMAIN u.node
              BY <1>0, <1>4, <6>1, <6>4
            <6>6. QED
              BY <3>1, <6>1, <6>5
          <5>2. QED
            BY <1>3, <1>8, <5>1
        <4>2. InfoAt(k, t, i) < 2 * t.inc
          <5>1. ~(InfoAt(k, t, i) >= 2 * t.inc) /\ InfoAt(k, t, i) \in Int
            BY <1>6, <1>8, <4>1
          <5>2. QED
            BY <1>1, <5>1
        <4>3. QED
          BY <1>4, <1>5, <2>2, <3>1, <4>2
      <3>2. CASE ~(i = 0 \/ i - 1 \notin DOMAIN u.node)
        <4> DEFINE m == i - 1
        <4>1. m \in Nat /\ m + 1 = i /\ m # e /\ m \notin i .. e /\ m \in DOMAIN t.info
          BY <1>1, <1>8, <3>2
        <4>2. m \in DOMAIN t.node
          BY <1>4, <3>2, <4>1
        <4>3. u.info[m] = t.info[m] /\ t.info[m] >= t.inc /\ t.info[m] \in Nat
          BY <1>4, <1>7, <4>1, <4>2
        <4>4. InfoAt(k, t, i) <= t.info[m] + t.inc
          <5>1. CASE i = h
            <6>1. ~(InfoAt(k, t, i) >= 2 * t.inc) /\ InfoAt(k, t, i) \in Int
              BY <1>6, <1>8, <5>1
            <6> HIDE DEF m
            <6>2. QED
              BY <1>1, <4>3, <6>1
          <5>2. CASE i > h
            <6>1. m \in h .. i - 1
              BY <1>3, <1>8, <5>2
            <6>2. InfoAt(k, t, i) = InfoAt(k, t, m) + t.inc /\ InfoAt(k, t, m) \in Int
              BY <1>6, <4>1
            <6>3. InfoAt(k, t, m) <= t.info[m]
              BY <1>3, <6>1
            <6> HIDE DEF m
            <6>4. QED
              BY <1>1, <4>3, <6>2, <6>3
          <5>3. QED
            BY <1>3, <1>8, <5>1, <5>2
        <4>5. QED
          BY <1>4, <1>5, <2>2, <3>2, <4>3, <4>4
      <3>3. QED
        BY <3>1, <3>2
    <2>3. CASE j = i + 1 /\ j <= e
      <3>1. j \in i + 1 .. e /\ j - 1 = i /\ i \in i .. e - 1 /\ j # 0
        BY <1>8, <2>1, <2>3
      <3>2. i \in DOMAIN t.node /\ i \in DOMAIN u.node
        BY <1>4, <1>9, <3>1
      <3>3. u.info[j] = t.info[i] + t.inc /\ u.info[i] = InfoAt(k, t, i)
        BY <1>4, <3>1
      <3>4. t.info[i] \in Nat /\ InfoAt(k, t, i) \in Int /\ InfoAt(k, t, i) > t.info[i]
        BY <1>3, <1>6, <1>7, <1>8, <3>2
      <3>5. u.info[j] <= u.info[i] + u.inc
        BY <1>1, <1>5, <3>3, <3>4
      <3>6. QED
        BY <3>1, <3>2, <3>5
    <2>4. CASE j \in i + 2 .. e
      <3> DEFINE m == j - 1
                 l == j - 2
      <3>1. /\ m \in i .. e - 1 /\ l \in i .. e - 1 /\ m - 1 = l /\ m # 0
            /\ j \in i + 1 .. e /\ m \in i + 1 .. e /\ j # 0
        BY <1>8, <2>4
      <3>2. m \in DOMAIN t.node /\ l \in DOMAIN t.node
        BY <1>9, <3>1
      <3>3. t.info[m] <= t.info[l] + t.inc
        BY <3>1, <3>2 DEF Sorted
      <3>4. u.info[j] = t.info[m] + t.inc
        BY <1>4, <3>1
      <3>5. u.info[m] = t.info[l] + t.inc
        BY <1>4, <3>1
      <3>6. t.info[m] \in Nat /\ t.info[l] \in Nat /\ m \in DOMAIN u.node
        BY <1>4, <1>7, <3>2
      <3>7. u.info[j] <= u.info[m] + u.inc
        <4> HIDE DEF m, l
        <4>1. QED
          BY <1>1, <1>5, <3>3, <3>4, <3>5, <3>6
      <3>8. QED
        BY <3>1, <3>6, <3>7
    <2>5. CASE j = e + 1
      <3>1. j \in DOMAIN t.node /\ j \notin i .. e /\ j # 0 /\ j - 1 = e
        BY <1>4, <1>8, <2>5
      <3>2. u.info[j] = t.info[j] /\ t.info[j] \in Nat
        BY <1>4, <1>7, <2>1, <3>1
      <3>3. t.info[j] < 2 * t.inc
        BY <1>10, <3>1 DEF Sorted
      <3>4. e \in DOMAIN u.node
        BY <1>4
      <3>5. u.info[e] >= t.inc /\ u.info[e] \in Int
        <4>1. CASE e = i
          BY <1>4, <1>6, <1>8, <4>1
        <4>2. CASE e > i
          <5>1. e \in i + 1 .. e /\ e - 1 \in i .. e - 1
            BY <1>8, <4>2
          <5>2. t.info[e - 1] \in Nat
            BY <1>7, <1>9, <5>1
          <5>3. QED
            BY <1>1, <1>4, <5>1, <5>2
        <4>3. QED
          BY <1>8, <4>1, <4>2
      <3>6. u.info[j] <= u.info[e] + u.inc
        BY <1>1, <1>5, <3>2, <3>3, <3>5
      <3>7. QED
        BY <3>1, <3>4, <3>6
    <2>6. CASE j < i \/ j > e + 1
      <3>1. j \in DOMAIN t.node /\ j \notin i .. e /\ j - 1 \notin i .. e
        BY <1>4, <1>8, <2>1, <2>6
      <3>2. u.info[j] = t.info[j]
        BY <1>4, <2>1, <3>1
      <3>3. j - 1 \in DOMAIN u.node <=> j - 1 \in DOMAIN t.node
        BY <1>4, <1>8, <3>1
      <3>4. j - 1 \in DOMAIN t.node => u.info[j - 1] = t.info[j - 1]
        <4>1. ASSUME j - 1 \in DOMAIN t.node
              PROVE  u.info[j - 1] = t.info[j - 1]
          <5>1. j - 1 \in DOMAIN t.info
            BY <1>1, <4>1
          <5>2. QED
            BY <1>4, <3>1, <5>1
        <4>2. QED
          BY <4>1
      <3>5. IF j = 0 \/ j - 1 \notin DOMAIN t.node
            THEN t.info[j] < 2 * t.inc
            ELSE t.info[j] <= t.info[j - 1] + t.inc
        BY <3>1 DEF Sorted
      <3>6. QED
        BY <1>5, <3>2, <3>3, <3>4, <3>5
    <2>7. \/ j = i \/ (j = i + 1 /\ j <= e) \/ j \in i + 2 .. e \/ j = e + 1
          \/ j < i \/ j > e + 1
      BY <1>8, <2>1
    <2> HIDE DEF Fits
    <2>8. QED
      BY <2>2, <2>3, <2>4, <2>5, <2>6, <2>7
  <1>12. QED
    BY <1>11 DEF Sorted

\* ... and if a byte has no room for one more step the map knows.
LEMMA ShiftedRoomy ==
    ASSUME NEW t, NEW ns, Members(t), Truthful(t, ns), t.buckets # 1, Roomy(t),
           NEW k \in Key, NEW i, Spot(t, k, i),
           NEW u, NEW n, NEW e, Shifted(t, u, k, i, n, e), u.inc = t.inc, u.allowed # 0
    PROVE  Roomy(u)
  <1>1. /\ \A j \in DOMAIN t.info : j \notin i .. e => u.info[j] = t.info[j]
        /\ DOMAIN u.node = DOMAIN t.node \union {e}
        /\ \A j \in i .. e : u.info[j] + t.inc <= InfoByte
        /\ e \in i .. Slots(t.buckets) - 1
    BY DEF Shifted
  <1>2. DOMAIN t.node \subseteq DOMAIN t.info /\ Slots(t.buckets) \in Nat
    BY TableFacts DEF Truthful
  <1>3. i \in Nat
    <2>1. i \in Home(k, t) .. Slots(t.buckets) - 1 /\ Home(k, t) \in 0 .. t.buckets - 1
      BY InfoParts DEF Spot
    <2>2. QED
      BY <1>2, <2>1, TableFacts
  <1>4. ASSUME NEW j \in DOMAIN u.node
        PROVE  u.info[j] + u.inc <= InfoByte
    <2>1. CASE j \in i .. e
      BY <1>1, <2>1
    <2>2. CASE j \notin i .. e
      <3>1. j \in DOMAIN t.node
        BY <1>1, <1>2, <1>3, <2>2
      <3>2. QED
        BY <1>1, <1>2, <2>2, <3>1 DEF Roomy
    <2>3. QED
      BY <2>1, <2>2
  <1>5. QED
    BY <1>4 DEF Roomy

\* The nodes of u are those of t and n.
OneMore(t, u, n) ==
    /\ Range(u.node) = Range(t.node) \union {n}
    /\ IsInjective(t.node) /\ n \notin Range(t.node) => IsInjective(u.node)

\* Shifting loses no node and doubles none.
LEMMA ShiftedCells ==
    ASSUME NEW t, NEW ns, Members(t), Truthful(t, ns), t.buckets # 1,
           NEW k \in Key, NEW i, Spot(t, k, i),
           NEW u, NEW n, NEW e, Shifted(t, u, k, i, n, e)
    PROVE  OneMore(t, u, n)
  <1> DEFINE s == Slots(t.buckets)
             f == t.node
             g == u.node
             from(j) == IF j \in i + 1 .. e THEN j - 1 ELSE j
  <1>1. /\ e \in i .. s - 1 /\ t.info[e] = 0
        /\ \A j \in i .. e - 1 : t.info[j] # 0
        /\ DOMAIN g = DOMAIN f \union {e}
        /\ g[i] = n
        /\ \A j \in i + 1 .. e : g[j] = f[j - 1]
        /\ \A j \in DOMAIN f : j \notin i .. e => g[j] = f[j]
    BY DEF Shifted
  <1>2. /\ s \in Nat /\ DOMAIN f \subseteq 0 .. s - 1
        /\ \A j \in 0 .. s - 1 : j \in DOMAIN f <=> t.info[j] # 0
    BY TableFacts
  <1>3. i \in Nat /\ i <= s - 1
    <2>1. i \in Home(k, t) .. s - 1 /\ Home(k, t) \in 0 .. t.buckets - 1
      BY InfoParts DEF Spot
    <2>2. QED
      BY <1>2, <2>1, TableFacts
  <1> HIDE DEF s, f, g
  <1>4. e \in Nat /\ i <= e /\ e <= s - 1 /\ e \notin DOMAIN f
    BY <1>1, <1>2, <1>3
  <1>5. \A j \in i .. e - 1 : j \in DOMAIN f
    BY <1>1, <1>2, <1>3, <1>4
  <1>6. DOMAIN g \subseteq Nat /\ i \in DOMAIN g
    BY <1>1, <1>2, <1>3, <1>4, <1>5
  <1>7. ASSUME NEW j \in DOMAIN g, j # i
        PROVE  from(j) \in DOMAIN f /\ g[j] = f[from(j)]
    <2>1. CASE j \in i + 1 .. e
      <3>1. j - 1 \in i .. e - 1
        BY <1>3, <1>4, <2>1
      <3>2. QED
        BY <1>1, <1>5, <2>1, <3>1
    <2>2. CASE j \notin i + 1 .. e
      <3>1. j \notin i .. e
        BY <1>3, <1>4, <1>6, <1>7, <2>2
      <3>2. j \in DOMAIN f
        BY <1>1, <1>3, <1>4, <3>1
      <3>3. QED
        BY <1>1, <2>2, <3>1, <3>2
    <2>3. QED
      BY <2>1, <2>2
  <1>8. ASSUME NEW a \in DOMAIN g, NEW b \in DOMAIN g, a # i, b # i, from(a) = from(b)
        PROVE  a = b
    <2>1. a \in Nat /\ b \in Nat
      BY <1>6
    <2>2. ASSUME NEW x \in DOMAIN g, NEW y \in DOMAIN g, x # i, y # i,
                 x \in i + 1 .. e, y \notin i + 1 .. e
          PROVE  x - 1 # y
      <3>1. y \notin i .. e
        BY <1>3, <1>4, <1>6, <2>2
      <3>2. QED
        BY <1>3, <1>4, <2>2, <3>1
    <2>3. QED
      BY <1>8, <2>1, <2>2
  <1>9. ASSUME NEW j \in DOMAIN f
        PROVE  \E m \in DOMAIN g : m # i /\ from(m) = j
    <2>1. j \in Nat /\ j # e
      BY <1>2, <1>4
    <2>2. CASE j \in i .. e - 1
      <3>1. j + 1 \in i + 1 .. e /\ j + 1 # i /\ (j + 1) - 1 = j
        BY <1>3, <1>4, <2>1, <2>2
      <3>2. j + 1 \in DOMAIN g
        <4>1. j + 1 = e \/ j + 1 \in i .. e - 1
          BY <1>3, <1>4, <3>1
        <4>2. QED
          BY <1>1, <1>5, <4>1
      <3>3. QED
        BY <3>1, <3>2
    <2>3. CASE j \notin i .. e - 1
      <3>1. j \in DOMAIN g /\ j # i /\ j \notin i + 1 .. e
        BY <1>1, <1>3, <1>4, <2>1, <2>3
      <3>2. QED
        BY <3>1
    <2>4. QED
      BY <2>2, <2>3
  <1> HIDE DEF from
  <1>10. Range(g) = Range(f) \union {n}
    <2>1. ASSUME NEW j \in DOMAIN g
          PROVE  g[j] \in Range(f) \union {n}
      BY <1>1, <1>7 DEF Range
    <2>2. ASSUME NEW j \in DOMAIN f
          PROVE  f[j] \in Range(g)
      BY <1>7, <1>9 DEF Range
    <2>3. n \in Range(g)
      BY <1>1, <1>6 DEF Range
    <2>4. QED
      BY <2>1, <2>2, <2>3 DEF Range
  <1>11. ASSUME IsInjective(f), n \notin Range(f)
         PROVE  IsInjective(g)
    <2>1. ASSUME NEW a \in DOMAIN g, NEW b \in DOMAIN g, g[a] = g[b]
          PROVE  a = b
      <3>1. CASE a # i /\ b # i
        <4>1. from(a) = from(b)
          BY <1>7, <1>11, <2>1, <3>1 DEF IsInjective
        <4>2. QED
          BY <1>8, <3>1, <4>1
      <3>2. CASE a = i \/ b = i
        <4>1. \A j \in DOMAIN g : j # i => g[j] # n
          BY <1>7, <1>11 DEF Range
        <4>2. QED
          BY <1>1, <2>1, <3>2, <4>1
      <3>3. QED
        BY <3>1, <3>2
    <2>2. QED
      BY <2>1 DEF IsInjective
  <1>12. QED
    BY <1>10, <1>11 DEF f, g, OneMore

\* All of it: a node goes into its spot.
LEMMA PlaceOK ==
    ASSUME NEW rest \in Nat, NEW more, more = rest + 1, NEW t, NEW ns, TableOK(t, ns, more),
           t.allowed # 0, NEW k \in Key, NEW i, Spot(t, k, i), NEW n \in DOMAIN ns, ns[n] = k,
           NEW u, u = Place(t, k, i, n)
    PROVE  /\ TableOK(u, ns, rest) /\ u.buckets = t.buckets
           /\ OneMore(t, u, n)
  <1>1. /\ Members(t) /\ Truthful(t, ns) /\ Sorted(t) /\ Roomy(t) /\ t.buckets # 1
        /\ t.count + (rest + 1) <= MaxAllowed(t.buckets)
    BY DEF TableOK
  <1>2. PICK e : Shifted(t, u, k, i, n, e)
    <2>1. \E e : Shifted(t, Place(t, k, i, n), k, i, n, e)
      BY <1>1, PlaceShifts
    <2>2. QED
      BY <2>1
  <1>3. Members(u) /\ Truthful(u, ns)
    BY <1>1, <1>2, ShiftedTruthful
  <1>4. Sorted(u)
    BY <1>1, <1>2, ShiftedSorted
  <1>5. u.buckets = t.buckets /\ u.inc = t.inc /\ u.count = t.count + 1
    <2>1. u = [buckets |-> t.buckets, multiplier |-> t.multiplier, count |-> t.count + 1,
               allowed |-> u.allowed, inc |-> t.inc, info |-> u.info, node |-> u.node]
      BY <1>2 DEF Shifted
    <2> DEFINE a == u.allowed
               f == u.info
               g == u.node
    <2>2. u = [buckets |-> t.buckets, multiplier |-> t.multiplier, count |-> t.count + 1,
               allowed |-> a, inc |-> t.inc, info |-> f, node |-> g]
      BY <2>1
    <2> HIDE DEF a, f, g
    <2>3. QED
      BY <2>2
  <1>6. u.allowed # 0 => Roomy(u)
    BY <1>1, <1>2, <1>5, ShiftedRoomy
  <1>7. u.count + rest <= MaxAllowed(u.buckets)
    <2>1. t.count \in Nat /\ MaxAllowed(t.buckets) \in Nat
      BY <1>1, MaxAllowedIs DEF Members
    <2>2. QED
      BY <1>1, <1>5, <2>1
  <1>8. TableOK(u, ns, rest)
    BY <1>1, <1>3, <1>4, <1>5, <1>6, <1>7 DEF TableOK
  <1>9. OneMore(t, u, n)
    BY <1>1, <1>2, ShiftedCells
  <1>10. QED
    BY <1>5, <1>8, <1>9

-----------------------------------------------------------------------------
(* Erasing a node                                                          *)

\* u is t after the node of bucket i was taken out, and those behind it moved back up
\* to bucket e.
Unshifted(t, u, i, e) ==
    /\ e \in i .. Slots(t.buckets) - 1 /\ t.info[e + 1] < 2 * t.inc
    /\ \A j \in i .. e : j \in DOMAIN t.node
    /\ \A j \in i .. e - 1 : t.info[j + 1] >= 2 * t.inc
    /\ u.buckets = t.buckets /\ u.multiplier = t.multiplier /\ u.count = t.count - 1
    /\ u.allowed = t.allowed /\ u.inc = t.inc
    /\ u = [buckets |-> u.buckets, multiplier |-> u.multiplier, count |-> u.count,
            allowed |-> u.allowed, inc |-> u.inc, info |-> u.info, node |-> u.node]
    /\ DOMAIN u.info = DOMAIN t.info /\ u.info = [j \in DOMAIN u.info |-> u.info[j]]
    /\ u.info[e] = 0
    /\ \A j \in i .. e - 1 : u.info[j] = t.info[j + 1] - t.inc
    /\ \A j \in DOMAIN t.info : j \notin i .. e => u.info[j] = t.info[j]
    /\ DOMAIN u.node = DOMAIN t.node \ {e} /\ u.node = [j \in DOMAIN u.node |-> u.node[j]]
    /\ \A j \in i .. e - 1 : u.node[j] = t.node[j + 1]
    /\ \A j \in DOMAIN t.node : j \notin i .. e => u.node[j] = t.node[j]

\* shiftDown stops at the sentinel at the latest.
LEMMA ShiftDownUnshifts ==
    ASSUME NEW t, NEW ns, Members(t), Truthful(t, ns), t.buckets # 1, NEW i \in DOMAIN t.node
    PROVE  \E e : Unshifted(t, ShiftDown(t, i), i, e)
  <1> DEFINE s == Slots(t.buckets)
             E == {j \in From(i, t) : t.info[j + 1] < 2 * t.inc}
             e == Min(E)
             I == [j \in DOMAIN t.info |->
                        IF j = e THEN 0
                        ELSE IF j \in i .. e - 1 THEN t.info[j + 1] - t.inc
                        ELSE t.info[j]]
             N == [j \in DOMAIN t.node \ {e} |->
                        IF j \in i .. e - 1 THEN t.node[j + 1] ELSE t.node[j]]
             u == ShiftDown(t, i)
  <1>0. \A j \in 0 .. s - 1 : j \in DOMAIN t.node <=> t.info[j] # 0
    BY TableFacts
  <1>1. /\ s \in Nat /\ t.inc \in Nat /\ t.inc > 1
        /\ DOMAIN t.node \subseteq 0 .. s - 1
        /\ DOMAIN t.info = 0 .. s + 7
        /\ t.info[s] = 1
    BY TableFacts
  <1>2. \A j \in 0 .. s + 7 : t.info[j] \in Nat
    BY TableFacts
  <1>3. \A j : j \in E <=> j \in i .. s /\ t.info[j + 1] < 2 * t.inc
    BY DEF From
  <1>4. u = [t EXCEPT !.info = I, !.node = N, !.count = @ - 1]
    BY DEF ShiftDown
  <1>5. t = [buckets |-> t.buckets, multiplier |-> t.multiplier, count |-> t.count,
             allowed |-> t.allowed, inc |-> t.inc, info |-> t.info, node |-> t.node]
    BY DEF Members
  <1>6. /\ u = [buckets |-> t.buckets, multiplier |-> t.multiplier, count |-> t.count - 1,
                 allowed |-> t.allowed, inc |-> t.inc, info |-> I, node |-> N]
    <2> HIDE DEF I, N, u
    <2>1. QED
      BY <1>4, <1>5
  <1>7. /\ u.info = I /\ u.node = N /\ u.buckets = t.buckets /\ u.multiplier = t.multiplier
        /\ u.count = t.count - 1 /\ u.allowed = t.allowed /\ u.inc = t.inc
        /\ u = [buckets |-> u.buckets, multiplier |-> u.multiplier, count |-> u.count,
                allowed |-> u.allowed, inc |-> u.inc, info |-> u.info, node |-> u.node]
    <2> HIDE DEF I, N, u
    <2>1. QED
      BY <1>6
  <1> HIDE DEF s, E, u
  <1>8. i \in Nat /\ i \in 0 .. s - 1
    BY <1>1
  <1>9. s - 1 \in E /\ E \in SUBSET Nat
    <2>1. (s - 1) + 1 = s /\ s - 1 \in i .. s
      BY <1>1, <1>8
    <2>2. t.info[(s - 1) + 1] < 2 * t.inc
      BY <1>1, <2>1
    <2>3. QED
      BY <1>1, <1>3, <1>8, <2>1, <2>2
  <1>10. e \in E /\ \A j \in E : e <= j
    BY <1>9, MinIs
  <1> HIDE DEF e
  <1>11. e \in i .. s - 1 /\ e \in Nat /\ t.info[e + 1] < 2 * t.inc
    BY <1>1, <1>3, <1>8, <1>9, <1>10
  <1>12. ASSUME NEW j \in i .. e - 1
         PROVE  t.info[j + 1] >= 2 * t.inc /\ j + 1 \in DOMAIN t.node
    <2>1. j \in i .. s /\ j < e /\ j + 1 \in 0 .. s - 1 /\ j + 1 \in 0 .. s + 7
      BY <1>1, <1>8, <1>11
    <2>2. j \notin E
      BY <1>9, <1>10, <1>11, <2>1
    <2>3. t.info[j + 1] \in Nat
      BY <1>2, <2>1
    <2>4. t.info[j + 1] >= 2 * t.inc
      <3>1. ~(t.info[j + 1] < 2 * t.inc)
        BY <1>3, <2>1, <2>2
      <3>2. QED
        BY <1>1, <2>3, <3>1
    <2>5. QED
      BY <1>0, <1>1, <2>1, <2>3, <2>4
  <1>13. ASSUME NEW j \in i .. e
         PROVE  j \in DOMAIN t.node
    <2>1. CASE j = i
      BY <2>1
    <2>2. CASE j # i
      <3>1. j - 1 \in i .. e - 1 /\ (j - 1) + 1 = j
        BY <1>8, <1>11, <2>2
      <3>2. QED
        BY <1>12, <3>1
    <2>3. QED
      BY <2>1, <2>2
  <1>14. DOMAIN I = DOMAIN t.info /\ I = [j \in DOMAIN I |-> I[j]]
    OBVIOUS
  <1>15. I[e] = 0
    <2>1. e \in DOMAIN t.info
      BY <1>1, <1>8, <1>11
    <2>2. QED
      BY <2>1
  <1>16. \A j \in i .. e - 1 : I[j] = t.info[j + 1] - t.inc /\ N[j] = t.node[j + 1]
    <2>1. ASSUME NEW j \in i .. e - 1
          PROVE  I[j] = t.info[j + 1] - t.inc /\ N[j] = t.node[j + 1]
      <3>1. j \in DOMAIN t.info /\ j # e /\ j \in i .. e
        BY <1>1, <1>8, <1>11
      <3>2. j \in DOMAIN t.node \ {e}
        BY <1>13, <3>1
      <3>3. QED
        BY <3>1, <3>2
    <2>2. QED
      BY <2>1
  <1>17. \A j \in DOMAIN t.info : j \notin i .. e => I[j] = t.info[j]
    BY <1>1, <1>8, <1>11
  <1>18. DOMAIN N = DOMAIN t.node \ {e} /\ N = [j \in DOMAIN N |-> N[j]]
    OBVIOUS
  <1>19. \A j \in DOMAIN t.node : j \notin i .. e => N[j] = t.node[j]
    BY <1>1, <1>8, <1>11
  <1> HIDE DEF I, N
  <1>20. \A j \in i .. e : j \in DOMAIN t.node
    BY <1>13
  <1>21. \A j \in i .. e - 1 : t.info[j + 1] >= 2 * t.inc
    BY <1>12
  <1>22. Unshifted(t, u, i, e)
    BY <1>7, <1>11, <1>14, <1>15, <1>16, <1>17, <1>18, <1>19, <1>20, <1>21
       DEF Unshifted, s
  <1>23. QED
    BY <1>22 DEF u

\* The bytes of the table still tell the truth, without the node.
LEMMA UnshiftedTruthful ==
    ASSUME NEW t, NEW ns, Members(t), Truthful(t, ns), t.buckets # 1, NEW i \in DOMAIN t.node,
           NEW u, NEW e, Unshifted(t, u, i, e)
    PROVE  Members(u) /\ Truthful(u, ns)
  <1> DEFINE s == Slots(t.buckets)
  <1>0. \A j \in 0 .. s - 1 : j \in DOMAIN t.node <=> t.info[j] # 0
    BY TableFacts
  <1>1. /\ s \in Nat /\ t.inc \in Nat /\ t.inc > 1
        /\ DOMAIN t.node \subseteq 0 .. s - 1
        /\ DOMAIN t.info = 0 .. s + 7
    BY TableFacts
  <1>2. /\ \A j \in 0 .. s + 7 : t.info[j] \in Nat
        /\ \A j \in s + 1 .. s + 7 : t.info[j] = 0
        /\ t.info[s] = 1
    BY TableFacts
  <1>3. /\ e \in i .. s - 1
        /\ \A j \in i .. e : j \in DOMAIN t.node
        /\ \A j \in i .. e - 1 : t.info[j + 1] >= 2 * t.inc
    BY DEF Unshifted
  <1>4. /\ u.info[e] = 0
        /\ \A j \in i .. e - 1 : u.info[j] = t.info[j + 1] - t.inc
        /\ \A j \in DOMAIN t.info : j \notin i .. e => u.info[j] = t.info[j]
    BY DEF Unshifted
  <1>5. /\ DOMAIN u.node = DOMAIN t.node \ {e} /\ u.node = [j \in DOMAIN u.node |-> u.node[j]]
        /\ \A j \in i .. e - 1 : u.node[j] = t.node[j + 1]
        /\ \A j \in DOMAIN t.node : j \notin i .. e => u.node[j] = t.node[j]
    BY DEF Unshifted
  <1>6. /\ u.buckets = t.buckets /\ u.multiplier = t.multiplier /\ u.count = t.count - 1
        /\ u.allowed = t.allowed /\ u.inc = t.inc
        /\ DOMAIN u.info = DOMAIN t.info /\ u.info = [j \in DOMAIN u.info |-> u.info[j]]
    BY DEF Unshifted
  <1>7. u = [buckets |-> u.buckets, multiplier |-> u.multiplier, count |-> u.count,
             allowed |-> u.allowed, inc |-> u.inc, info |-> u.info, node |-> u.node]
    BY DEF Unshifted
  <1>8. \A key : Home(key, u) = Home(key, t) /\ \A j : InfoAt(key, u, j) = InfoAt(key, t, j)
    BY <1>6, SameInfo
  <1>9. \A key \in Key, j \in Nat :
           /\ InfoAt(key, t, j) \in Int
           /\ InfoAt(key, t, j + 1) = InfoAt(key, t, j) + t.inc
           /\ j > Home(key, t) <=> InfoAt(key, t, j) >= 2 * t.inc
    BY InfoGrows
  <1>10. \A j \in 0 .. s + 7 : t.info[j] \in 0 .. InfoByte
    BY TableFacts
  <1>11. InfoByte \in Nat
    BY TableFacts
  <1> HIDE DEF s
  <1>12. i \in Nat /\ e \in Nat /\ i < s /\ i <= e /\ e < s
    BY <1>1, <1>3
  <1>13. IsFiniteSet(DOMAIN t.node) /\ t.count = Cardinality(DOMAIN t.node)
    BY DEF Truthful
  <1>14. e \in DOMAIN t.node
    BY <1>3, <1>12
  <1>15. ASSUME NEW j \in DOMAIN u.node
         PROVE  /\ j \in 0 .. s - 1 /\ u.info[j] # 0
                /\ u.node[j] \in DOMAIN ns /\ ns[u.node[j]] \in Key
                /\ j \in Home(ns[u.node[j]], t) .. s - 1
                /\ u.info[j] = InfoAt(ns[u.node[j]], t, j)
    <2>1. j \in 0 .. s - 1 /\ j \in Nat /\ j # e /\ j \in DOMAIN t.node
      BY <1>1, <1>5
    <2>2. CASE j \in i .. e - 1
      <3> DEFINE m == j + 1
                 q == ns[t.node[m]]
      <3>1. m \in i .. e /\ m \in Nat
        BY <1>12, <2>2
      <3>2. m \in DOMAIN t.node
        BY <1>3, <3>1
      <3>3. /\ t.node[m] \in DOMAIN ns /\ q \in Key
            /\ t.info[m] = InfoAt(q, t, m) /\ t.info[m] \in Nat
            /\ Home(q, t) \in 0 .. t.buckets - 1
        BY <3>2, NodeFacts
      <3>4. t.info[m] >= 2 * t.inc /\ u.info[j] = t.info[m] - t.inc /\ u.node[j] = t.node[m]
        BY <1>3, <1>4, <1>5, <2>2
      <3>5. m > Home(q, t) /\ InfoAt(q, t, m) = InfoAt(q, t, j) + t.inc /\ InfoAt(q, t, j) \in Int
        BY <1>9, <2>1, <3>1, <3>3, <3>4
      <3>6. u.info[j] = InfoAt(q, t, j) /\ u.info[j] # 0
        <4> HIDE DEF m, q
        <4>1. QED
          BY <1>1, <3>3, <3>4, <3>5
      <3>7. j \in Home(q, t) .. s - 1
        <4> HIDE DEF q
        <4>1. Home(q, t) \in Nat
          BY <3>3, TableFacts
        <4>2. QED
          BY <1>1, <2>1, <3>5, <4>1
      <3>8. QED
        BY <2>1, <3>3, <3>4, <3>6, <3>7
    <2>3. CASE j \notin i .. e
      <3>1. u.node[j] = t.node[j]
        BY <1>5, <2>1, <2>3
      <3>2. u.info[j] = t.info[j] /\ t.info[j] # 0
        BY <1>0, <1>1, <1>4, <2>1, <2>3
      <3>3. /\ t.node[j] \in DOMAIN ns /\ ns[t.node[j]] \in Key
            /\ j \in Home(ns[t.node[j]], t) .. s - 1
            /\ t.info[j] = InfoAt(ns[t.node[j]], t, j)
        BY <2>1 DEF Truthful, s
      <3>4. QED
        BY <2>1, <3>1, <3>2, <3>3
    <2>4. j \in i .. e - 1 \/ j \notin i .. e
      BY <1>12, <2>1
    <2>5. QED
      BY <2>2, <2>3, <2>4
  <1>16. ASSUME NEW j \in 0 .. s + 7
         PROVE  /\ u.info[j] \in 0 .. InfoByte
                /\ u.info[j] # 0 /\ j # s => j \in DOMAIN u.node
    <2>1. CASE j = e
      BY <1>4, <1>11, <2>1
    <2>2. CASE j \in i .. e - 1
      <3> DEFINE m == j + 1
      <3>1. m \in 0 .. s + 7 /\ j # e /\ j \in i .. e
        BY <1>1, <1>12, <2>2
      <3>2. t.info[m] >= 2 * t.inc /\ u.info[j] = t.info[m] - t.inc /\ t.info[m] \in 0 .. InfoByte
        BY <1>3, <1>4, <1>10, <2>2, <3>1
      <3>3. j \in DOMAIN u.node
        BY <1>3, <1>5, <3>1
      <3> HIDE DEF m
      <3>4. QED
        BY <1>1, <1>11, <3>2, <3>3
    <2>3. CASE j \notin i .. e
      <3>1. u.info[j] = t.info[j]
        BY <1>1, <1>4, <2>3
      <3>2. ASSUME u.info[j] # 0, j # s
            PROVE  j \in DOMAIN u.node
        <4>1. j \in 0 .. s - 1
          BY <1>1, <1>2, <3>1, <3>2
        <4>2. j \in DOMAIN t.node /\ j # e
          BY <1>0, <1>12, <2>3, <3>1, <3>2, <4>1
        <4>3. QED
          BY <1>5, <4>2
      <3>3. QED
        BY <1>10, <3>1, <3>2
    <2>4. j = e \/ j \in i .. e - 1 \/ j \notin i .. e
      BY <1>12
    <2>5. QED
      BY <2>1, <2>2, <2>3, <2>4
  <1>17. DOMAIN u.node = {j \in DOMAIN u.info : u.info[j] # 0} \ {s}
    <2>1. ASSUME NEW j \in DOMAIN u.node
          PROVE  j \in 0 .. s + 7 /\ u.info[j] # 0 /\ j # s
      <3>1. j \in 0 .. s - 1 /\ u.info[j] # 0
        BY <1>15
      <3>2. QED
        BY <1>1, <3>1
    <2>2. DOMAIN u.info = 0 .. s + 7
      BY <1>1, <1>6
    <2>3. QED
      BY <1>16, <2>1, <2>2
  <1>18. u.info[s] = 1
    <2>1. s \in DOMAIN t.info /\ s \notin i .. e
      BY <1>1, <1>12
    <2>2. QED
      BY <1>2, <1>4, <2>1
  <1>19. /\ IsFiniteSet(DOMAIN u.node) /\ u.count = Cardinality(DOMAIN u.node)
         /\ u.count \in Nat
    <2>1. IsFiniteSet(DOMAIN u.node) /\ Cardinality(DOMAIN u.node) = t.count - 1
      BY <1>5, <1>13, <1>14, FS_RemoveElement
    <2>2. QED
      BY <1>6, <2>1, FS_CardinalityType
  <1>20. Members(u)
    <2>1. /\ t.buckets \in Nat \ {0} /\ t.multiplier \in 0 .. NumMultipliers - 1
          /\ t.allowed \in {0, MaxAllowed(t.buckets)}
          /\ t.inc \in Steps /\ t.inc <= InitialInfoInc
          /\ t.info \in [0 .. LastByte(t) -> 0 .. InfoByte]
      BY DEF Members
    <2>2. LastByte(u) = LastByte(t) /\ DOMAIN t.info = 0 .. LastByte(t)
      BY <1>6, <2>1 DEF LastByte
    <2>3. u.info \in [0 .. LastByte(u) -> 0 .. InfoByte]
      BY <1>1, <1>6, <1>16, <2>2
    <2>4. QED
      BY <1>5, <1>6, <1>7, <1>19, <2>1, <2>3, Zenon DEF Members
  <1>21. Slots(u.buckets) = s
    BY <1>6 DEF s
  <1>22. \A j \in DOMAIN u.node :
           /\ u.node[j] \in DOMAIN ns /\ ns[u.node[j]] \in Key
           /\ j \in Home(ns[u.node[j]], u) .. s - 1
           /\ u.info[j] = InfoAt(ns[u.node[j]], u, j)
    BY <1>8, <1>15, Zenon
  <1>23. QED
    BY <1>17, <1>18, <1>19, <1>20, <1>21, <1>22 DEF Truthful

\* ... its clusters stay sorted, and its bytes have as much room as before.
LEMMA UnshiftedSorted ==
    ASSUME NEW t, NEW ns, Members(t), Truthful(t, ns), t.buckets # 1, Sorted(t),
           NEW i \in DOMAIN t.node, NEW u, NEW e, Unshifted(t, u, i, e)
    PROVE  Sorted(u) /\ (Roomy(t) => Roomy(u))
  <1> DEFINE s == Slots(t.buckets)
  <1>1. /\ s \in Nat /\ t.inc \in Nat /\ t.inc > 1
        /\ DOMAIN t.node \subseteq 0 .. s - 1
        /\ DOMAIN t.info = 0 .. s + 7
    BY TableFacts
  <1>2. /\ e \in i .. s - 1 /\ t.info[e + 1] < 2 * t.inc
        /\ \A j \in i .. e : j \in DOMAIN t.node
        /\ \A j \in i .. e - 1 : t.info[j + 1] >= 2 * t.inc
    BY DEF Unshifted
  <1>3. /\ \A j \in i .. e - 1 : u.info[j] = t.info[j + 1] - t.inc
        /\ \A j \in DOMAIN t.info : j \notin i .. e => u.info[j] = t.info[j]
        /\ DOMAIN u.node = DOMAIN t.node \ {e} /\ u.inc = t.inc
    BY DEF Unshifted
  <1>4. \A j \in DOMAIN t.node : t.info[j] >= t.inc /\ t.info[j] \in Nat
    BY NodeFacts
  <1>5. \A j \in DOMAIN t.node :
          /\ j = 0 \/ j - 1 \notin DOMAIN t.node => t.info[j] < 2 * t.inc
          /\ ~(j = 0 \/ j - 1 \notin DOMAIN t.node) => t.info[j] <= t.info[j - 1] + t.inc
    BY DEF Sorted
  <1> HIDE DEF s
  <1>6. i \in Nat /\ e \in Nat /\ i < s /\ i <= e /\ e < s
    BY <1>1, <1>2
  <1>7. ASSUME NEW j \in i .. e - 1
        PROVE  /\ j + 1 \in DOMAIN t.node /\ j \in DOMAIN t.node /\ j \in Nat
               /\ t.info[j + 1] <= t.info[j] + t.inc
               /\ t.info[j] \in Nat /\ t.info[j + 1] \in Nat
               /\ u.info[j] = t.info[j + 1] - t.inc
    <2>1. j \in i .. e /\ j + 1 \in i .. e /\ j \in Nat
      BY <1>6
    <2>2. j + 1 \in DOMAIN t.node /\ j \in DOMAIN t.node
      BY <1>2, <2>1
    <2>3. j + 1 # 0 /\ (j + 1) - 1 = j
      BY <2>1
    <2>4. t.info[j + 1] <= t.info[j] + t.inc
      BY <1>5, <2>2, <2>3
    <2>5. QED
      BY <1>3, <1>4, <2>1, <2>2, <2>4
  <1> DEFINE Fits(j) == IF j = 0 \/ j - 1 \notin DOMAIN u.node
                        THEN u.info[j] < 2 * u.inc
                        ELSE u.info[j] <= u.info[j - 1] + u.inc
  <1>8. ASSUME NEW j \in DOMAIN u.node
        PROVE  Fits(j)
    <2>1. j \in Nat /\ j < s /\ j \in DOMAIN t.info /\ j # e /\ j \in DOMAIN t.node
      BY <1>1, <1>3, <1>6
    <2>2. CASE j = i
      <3>1. j \in i .. e - 1 /\ j - 1 # e /\ j - 1 \notin i .. e
        BY <1>6, <2>1, <2>2
      <3>2. /\ t.info[j + 1] <= t.info[j] + t.inc /\ u.info[j] = t.info[j + 1] - t.inc
            /\ t.info[j] \in Nat /\ t.info[j + 1] \in Nat
        BY <1>7, <3>1
      <3>3. u.info[j] <= t.info[j]
        <4> DEFINE x == t.info[j + 1]
                   y == t.info[j]
        <4>1. x <= y + t.inc /\ u.info[j] = x - t.inc /\ x \in Nat /\ y \in Nat
          BY <3>2
        <4> HIDE DEF x, y
        <4>2. u.info[j] <= y
          BY <1>1, <4>1
        <4>3. QED
          BY <4>2 DEF y
      <3>4. CASE j = 0 \/ j - 1 \notin DOMAIN u.node
        <4>1. j = 0 \/ j - 1 \notin DOMAIN t.node
          BY <1>3, <3>1, <3>4
        <4>2. t.info[j] < 2 * t.inc
          BY <1>5, <2>1, <4>1
        <4>3. u.info[j] < 2 * u.inc
          BY <1>1, <1>3, <3>2, <3>3, <4>2
        <4>4. QED
          BY <3>4, <4>3
      <3>5. CASE ~(j = 0 \/ j - 1 \notin DOMAIN u.node)
        <4>1. j - 1 \in DOMAIN t.node /\ j - 1 \in DOMAIN t.info
          BY <1>1, <1>3, <3>5
        <4>2. t.info[j] <= t.info[j - 1] + t.inc
          BY <1>5, <2>1, <3>5, <4>1
        <4>3. u.info[j - 1] = t.info[j - 1] /\ t.info[j - 1] \in Nat
          BY <1>3, <1>4, <3>1, <4>1
        <4>4. u.info[j] <= u.info[j - 1] + u.inc
          <5> DEFINE x == t.info[j - 1]
          <5>1. t.info[j] <= x + t.inc /\ x \in Nat /\ u.info[j - 1] = x
            BY <4>2, <4>3
          <5> HIDE DEF x
          <5>2. QED
            BY <1>1, <1>3, <3>2, <3>3, <5>1
        <4>5. QED
          BY <3>5, <4>4
      <3>6. QED
        BY <3>4, <3>5
    <2>3. CASE j \in i + 1 .. e - 1
      <3> DEFINE m == j - 1
      <3>1. /\ j \in i .. e - 1 /\ m \in i .. e - 1 /\ m + 1 = j /\ j # 0 /\ m # e
        BY <1>6, <2>3
      <3>2. /\ t.info[j + 1] <= t.info[j] + t.inc /\ u.info[j] = t.info[j + 1] - t.inc
            /\ t.info[j] \in Nat /\ t.info[j + 1] \in Nat
        BY <1>7, <3>1
      <3>3. u.info[m] = t.info[m + 1] - t.inc /\ m \in DOMAIN t.node
        BY <1>7, <3>1
      <3>4. u.info[m] = t.info[j] - t.inc /\ m \in DOMAIN u.node
        BY <1>3, <3>1, <3>3
      <3>5. u.info[j] <= u.info[m] + u.inc
        <4> DEFINE x == t.info[j + 1]
        <4>1. x <= t.info[j] + t.inc /\ u.info[j] = x - t.inc /\ x \in Nat /\ t.info[j] \in Nat
          BY <3>2
        <4> HIDE DEF x, m
        <4>2. QED
          BY <1>1, <1>3, <3>4, <4>1
      <3>6. QED
        BY <3>1, <3>4, <3>5
    <2>4. CASE j = e + 1
      <3>1. u.info[j] = t.info[j] /\ t.info[j] < 2 * t.inc /\ j - 1 = e
        BY <1>2, <1>3, <1>6, <2>1, <2>4
      <3>2. j - 1 \notin DOMAIN u.node
        BY <1>3, <3>1
      <3>3. QED
        BY <1>3, <3>1, <3>2
    <2>5. CASE j < i \/ j > e + 1
      <3>1. j \notin i .. e /\ j - 1 \notin i .. e /\ j - 1 # e
        BY <1>6, <2>1, <2>5
      <3>2. u.info[j] = t.info[j]
        BY <1>3, <2>1, <3>1
      <3>3. j - 1 \in DOMAIN u.node <=> j - 1 \in DOMAIN t.node
        BY <1>3, <3>1
      <3>4. j - 1 \in DOMAIN t.node => u.info[j - 1] = t.info[j - 1]
        <4>1. ASSUME j - 1 \in DOMAIN t.node
              PROVE  u.info[j - 1] = t.info[j - 1]
          <5>1. j - 1 \in DOMAIN t.info
            BY <1>1, <4>1
          <5>2. QED
            BY <1>3, <3>1, <5>1
        <4>2. QED
          BY <4>1
      <3>5. IF j = 0 \/ j - 1 \notin DOMAIN t.node
            THEN t.info[j] < 2 * t.inc
            ELSE t.info[j] <= t.info[j - 1] + t.inc
        BY <2>1 DEF Sorted
      <3>6. QED
        BY <1>3, <3>2, <3>3, <3>4, <3>5
    <2>6. j = i \/ j \in i + 1 .. e - 1 \/ j = e + 1 \/ j < i \/ j > e + 1
      BY <1>6, <2>1
    <2> HIDE DEF Fits
    <2>7. QED
      BY <2>2, <2>3, <2>4, <2>5, <2>6
  <1>9. ASSUME Roomy(t), NEW j \in DOMAIN u.node
        PROVE  u.info[j] + u.inc <= InfoByte
    <2>1. j \in DOMAIN t.node /\ j # e /\ j \in DOMAIN t.info /\ j \in Nat
      BY <1>1, <1>3
    <2>2. CASE j \in i .. e - 1
      <3> DEFINE x == t.info[j + 1]
      <3>1. u.info[j] = x - t.inc /\ x \in Nat /\ j + 1 \in DOMAIN t.node
        BY <1>7, <2>2
      <3>2. x + t.inc <= InfoByte
        BY <1>9, <3>1 DEF Roomy
      <3> HIDE DEF x
      <3>3. QED
        BY <1>1, <1>3, <3>1, <3>2, TableFacts
    <2>3. CASE j \notin i .. e - 1
      <3>1. j \notin i .. e
        BY <1>6, <2>1, <2>3
      <3>2. QED
        BY <1>3, <1>9, <2>1, <3>1 DEF Roomy
    <2>4. QED
      BY <2>2, <2>3
  <1>10. QED
    BY <1>8, <1>9 DEF Sorted, Roomy

\* ... and all other nodes are still there.
LEMMA UnshiftedCells ==
    ASSUME NEW t, NEW ns, Members(t), Truthful(t, ns), t.buckets # 1,
           IsInjective(t.node), NEW i \in DOMAIN t.node, NEW u, NEW e, Unshifted(t, u, i, e)
    PROVE  /\ Range(u.node) = Range(t.node) \ {t.node[i]}
           /\ IsInjective(u.node)
  <1> DEFINE s == Slots(t.buckets)
             f == t.node
             g == u.node
             from(j) == IF j \in i .. e - 1 THEN j + 1 ELSE j
  <1>1. /\ e \in i .. s - 1
        /\ \A j \in i .. e : j \in DOMAIN f
        /\ DOMAIN g = DOMAIN f \ {e}
        /\ \A j \in i .. e - 1 : g[j] = f[j + 1]
        /\ \A j \in DOMAIN f : j \notin i .. e => g[j] = f[j]
    BY DEF Unshifted
  <1>2. s \in Nat /\ DOMAIN f \subseteq 0 .. s - 1 /\ i \in DOMAIN f
    BY TableFacts
  <1>3. \A a \in DOMAIN f, b \in DOMAIN f : f[a] = f[b] => a = b
    BY DEF IsInjective
  <1> HIDE DEF s, f, g
  <1>4. i \in Nat /\ e \in Nat /\ i <= e
    BY <1>1, <1>2
  <1>5. DOMAIN g \subseteq Nat
    BY <1>1, <1>2
  <1>6. ASSUME NEW j \in DOMAIN g
        PROVE  from(j) \in DOMAIN f /\ g[j] = f[from(j)] /\ from(j) # i
    <2>1. CASE j \in i .. e - 1
      <3>1. j + 1 \in i .. e /\ j + 1 # i
        BY <1>4, <2>1
      <3>2. QED
        BY <1>1, <2>1, <3>1
    <2>2. CASE j \notin i .. e - 1
      <3>1. j \notin i .. e /\ j \in DOMAIN f
        BY <1>1, <1>4, <1>5, <2>2
      <3>2. j # i
        BY <1>4, <3>1
      <3>3. QED
        BY <1>1, <2>2, <3>1, <3>2
    <2>3. QED
      BY <2>1, <2>2
  <1>7. ASSUME NEW a \in DOMAIN g, NEW b \in DOMAIN g, from(a) = from(b)
        PROVE  a = b
    <2>1. a \in Nat /\ b \in Nat
      BY <1>5
    <2>2. ASSUME NEW x \in DOMAIN g, NEW y \in DOMAIN g,
                 x \in i .. e - 1, y \notin i .. e - 1
          PROVE  x + 1 # y
      <3>1. y # e /\ y \in Nat
        BY <1>1, <1>5
      <3>2. QED
        BY <1>4, <2>2, <3>1
    <2>3. QED
      BY <1>7, <2>1, <2>2
  <1>8. ASSUME NEW j \in DOMAIN f, j # i
        PROVE  \E m \in DOMAIN g : from(m) = j
    <2>1. j \in Nat
      BY <1>2
    <2>2. CASE j \in i + 1 .. e
      <3>1. j - 1 \in i .. e - 1 /\ (j - 1) + 1 = j /\ j - 1 \in i .. e /\ j - 1 # e
        BY <1>4, <2>1, <2>2
      <3>2. j - 1 \in DOMAIN g
        BY <1>1, <3>1
      <3>3. QED
        BY <3>1, <3>2
    <2>3. CASE j \notin i + 1 .. e
      <3>1. j # e /\ j \notin i .. e - 1
        BY <1>4, <1>8, <2>1, <2>3
      <3>2. QED
        BY <1>1, <3>1
    <2>4. QED
      BY <2>2, <2>3
  <1> HIDE DEF from
  <1>9. Range(g) = Range(f) \ {f[i]}
    <2>1. ASSUME NEW j \in DOMAIN g
          PROVE  g[j] \in Range(f) \ {f[i]}
      BY <1>2, <1>3, <1>6 DEF Range
    <2>2. ASSUME NEW j \in DOMAIN f, j # i
          PROVE  f[j] \in Range(g)
      BY <1>6, <1>8, <2>2 DEF Range
    <2>3. QED
      BY <2>1, <2>2 DEF Range
  <1>10. IsInjective(g)
    <2>1. ASSUME NEW a \in DOMAIN g, NEW b \in DOMAIN g, g[a] = g[b]
          PROVE  a = b
      <3>1. from(a) = from(b)
        BY <1>3, <1>6, <2>1
      <3>2. QED
        BY <1>7, <3>1
    <2>2. QED
      BY <2>1 DEF IsInjective
  <1>11. QED
    BY <1>9, <1>10 DEF f, g

\* All of it: a node is taken out.
LEMMA ShiftDownOK ==
    ASSUME NEW rest \in Nat, NEW t, NEW ns, TableOK(t, ns, rest), IsInjective(t.node),
           NEW i \in DOMAIN t.node
    PROVE  /\ TableOK(ShiftDown(t, i), ns, rest)
           /\ Range(ShiftDown(t, i).node) = Range(t.node) \ {t.node[i]}
           /\ IsInjective(ShiftDown(t, i).node)
           /\ ShiftDown(t, i).buckets = t.buckets
  <1> DEFINE u == ShiftDown(t, i)
  <1>1. /\ Members(t) /\ Truthful(t, ns) /\ Sorted(t) /\ t.buckets # 1
        /\ t.allowed # 0 => Roomy(t)
        /\ t.count + rest <= MaxAllowed(t.buckets)
    BY DEF TableOK
  <1>2. PICK e : Unshifted(t, u, i, e)
    BY <1>1, ShiftDownUnshifts
  <1> HIDE DEF u
  <1>3. Members(u) /\ Truthful(u, ns)
    BY <1>1, <1>2, UnshiftedTruthful
  <1>4. Sorted(u) /\ (Roomy(t) => Roomy(u))
    BY <1>1, <1>2, UnshiftedSorted
  <1>5. u.buckets = t.buckets /\ u.allowed = t.allowed /\ u.count = t.count - 1
    BY <1>2 DEF Unshifted
  <1>6. u.count + rest <= MaxAllowed(u.buckets)
    <2>1. t.count \in Nat /\ MaxAllowed(t.buckets) \in Nat
      BY <1>1, MaxAllowedIs DEF Members
    <2>2. QED
      BY <1>1, <1>5, <2>1
  <1>7. TableOK(u, ns, rest)
    BY <1>1, <1>3, <1>4, <1>5, <1>6 DEF TableOK
  <1>8. Range(u.node) = Range(t.node) \ {t.node[i]} /\ IsInjective(u.node)
    BY <1>1, <1>2, UnshiftedCells
  <1>9. QED
    BY <1>5, <1>7, <1>8 DEF u

-----------------------------------------------------------------------------
(* Making the steps smaller                                                *)

\* Half of a step is a step.
LEMMA HalfAStep ==
    ASSUME NEW inc \in Steps, inc > 2
    PROVE  /\ inc \div 2 \in Steps /\ inc \div 2 \in Nat
           /\ 2 * (inc \div 2) = inc /\ inc \div 2 < inc
  BY DEF Steps

\* Shifting one bit more.
LEMMA HalfAQuotient ==
    ASSUME NEW r \in Nat, NEW q \in {1, 2, 4, 8, 16, 32}
    PROVE  r \div q \in Nat /\ (r \div q) \div 2 = r \div (2 * q)
  <1>1. CASE q = 1
    BY <1>1
  <1>2. CASE q = 2
    BY <1>2
  <1>3. CASE q = 4
    BY <1>3
  <1>4. CASE q = 8
    BY <1>4
  <1>5. CASE q = 16
    BY <1>5
  <1>6. CASE q = 32
    BY <1>6
  <1>7. QED
    BY <1>1, <1>2, <1>3, <1>4, <1>5, <1>6

\* The bits of the hash are shifted by one more than before.
LEMMA HalfAShift ==
    ASSUME NEW first \in {4, 8, 16, 32, 64, 128}, NEW inc \in Steps, inc <= first, inc > 2
    PROVE  /\ first \div inc \in {1, 2, 4, 8, 16, 32}
           /\ first \div (inc \div 2) = 2 * (first \div inc)
  <1>1. CASE first = 4
    BY <1>1 DEF Steps
  <1>2. CASE first = 8
    BY <1>2 DEF Steps
  <1>3. CASE first = 16
    BY <1>3 DEF Steps
  <1>4. CASE first = 32
    BY <1>4 DEF Steps
  <1>5. CASE first = 64
    BY <1>5 DEF Steps
  <1>6. CASE first = 128
    BY <1>6 DEF Steps
  <1>7. QED
    BY <1>1, <1>2, <1>3, <1>4, <1>5, <1>6

\* With half the step a byte is half of what it was: its lowest bit of the hash goes.
LEMMA HalfABit ==
    ASSUME NEW r \in Nat, NEW first \in {4, 8, 16, 32, 64, 128},
           NEW inc \in Steps, inc <= first, inc > 2, NEW d \in Nat
    PROVE  (inc * d + r \div (first \div inc)) \div 2
             = (inc \div 2) * d + r \div (first \div (inc \div 2))
  <1> DEFINE h == inc \div 2
             q == first \div inc
             x == r \div q
  <1>1. h \in Nat /\ 2 * h = inc
    BY HalfAStep
  <1>2. q \in {1, 2, 4, 8, 16, 32} /\ first \div h = 2 * q
    BY HalfAShift
  <1> HIDE DEF h, q
  <1>3. x \in Nat /\ x \div 2 = r \div (2 * q)
    BY <1>2, HalfAQuotient
  <1> HIDE DEF x
  <1>4. h * d \in Nat /\ inc * d = 2 * (h * d)
    BY <1>1
  <1>5. (2 * (h * d) + x) \div 2 = h * d + x \div 2
    <2> DEFINE y == h * d
    <2>1. y \in Nat
      BY <1>4
    <2> HIDE DEF y
    <2>2. (2 * y + x) \div 2 = y + x \div 2
      BY <1>3, <2>1
    <2>3. QED
      BY <2>2 DEF y
  <1>6. QED
    BY <1>2, <1>3, <1>4, <1>5 DEF h, q, x

\* Half a byte and half a step are less than a byte.
LEMMA HalfAByte ==
    ASSUME NEW x \in Nat, NEW h \in Nat, NEW b \in Nat, h >= 1, x >= 2 * h, x <= b,
           4 * h <= b + 1
    PROVE  x \div 2 # 0 /\ x \div 2 <= b - h
  OBVIOUS

\* try_increase_info: the bytes tell the truth in smaller steps.
LEMMA IncreaseOK ==
    ASSUME NEW rest \in Nat, NEW t, NEW ns, TableOK(t, ns, rest), t.inc > 2
    PROVE  /\ TableOK(IncreaseInfo(t), ns, rest)
           /\ IncreaseInfo(t).node = t.node
           /\ IncreaseInfo(t).buckets = t.buckets
           /\ IncreaseInfo(t).count = t.count
           /\ IncreaseInfo(t).allowed = MaxAllowed(t.buckets)
  <1> DEFINE s == Slots(t.buckets)
             I == [i \in DOMAIN t.info |-> IF i = s THEN 1 ELSE t.info[i] \div 2]
             u == IncreaseInfo(t)
             g == t.inc
  <1>1. /\ Members(t) /\ Truthful(t, ns) /\ Sorted(t) /\ t.buckets # 1
        /\ t.count + rest <= MaxAllowed(t.buckets)
    BY DEF TableOK
  <1>2. t = [buckets |-> t.buckets, multiplier |-> t.multiplier, count |-> t.count,
             allowed |-> t.allowed, inc |-> t.inc, info |-> t.info, node |-> t.node]
    BY <1>1 DEF Members
  <1>3. u = [t EXCEPT !.inc = t.inc \div 2, !.info = I, !.allowed = MaxAllowed(t.buckets)]
    BY DEF IncreaseInfo
  <1>4. /\ u.buckets = t.buckets /\ u.multiplier = t.multiplier /\ u.count = t.count
        /\ u.allowed = MaxAllowed(t.buckets) /\ u.inc = t.inc \div 2 /\ u.info = I
        /\ u.node = t.node
        /\ u = [buckets |-> u.buckets, multiplier |-> u.multiplier, count |-> u.count,
                allowed |-> u.allowed, inc |-> u.inc, info |-> u.info, node |-> u.node]
    <2> DEFINE m == MaxAllowed(t.buckets)
               h == t.inc \div 2
    <2> HIDE DEF I, u, m, h
    <2>1. u = [t EXCEPT !.inc = h, !.info = I, !.allowed = m]
      BY <1>3 DEF m, h
    <2>2. u = [buckets |-> t.buckets, multiplier |-> t.multiplier, count |-> t.count,
               allowed |-> m, inc |-> h, info |-> I, node |-> t.node]
      BY <1>2, <2>1
    <2>3. QED
      BY <2>2 DEF m, h
  <1>5. /\ s \in Nat /\ t.inc \in Nat /\ t.inc > 1 /\ InfoByte \in Nat
        /\ 2 * t.inc <= InfoByte + 1 /\ t.inc \in Steps
        /\ DOMAIN t.node \subseteq 0 .. s - 1
        /\ DOMAIN t.info = 0 .. s + 7
    BY <1>1, TableFacts
  <1>6. \A i \in 0 .. s - 1 : i \in DOMAIN t.node <=> t.info[i] # 0
    BY <1>1, TableFacts
  <1>7. /\ \A i \in 0 .. s + 7 : t.info[i] \in Nat /\ t.info[i] <= InfoByte
        /\ \A i \in s + 1 .. s + 7 : t.info[i] = 0
    BY <1>1, TableFacts
  <1>8. /\ InitialInfoInc \in {4, 8, 16, 32, 64, 128}
        /\ Hash \in [Key -> [0 .. NumMultipliers - 1 -> Nat]]
        /\ InfoByte >= 2 * InitialInfoInc - 1
    BY TableAssumption
  <1>9. /\ t.multiplier \in 0 .. NumMultipliers - 1 /\ g <= InitialInfoInc
        /\ t.buckets \in Nat \ {0} /\ t.count \in Nat
    BY <1>1 DEF Members
  <1>10. \A k : Home(k, u) = Home(k, t)
    BY <1>4 DEF Home
  <1> HIDE DEF u
  <1>11. /\ g \div 2 \in Steps /\ g \div 2 \in Nat /\ 2 * (g \div 2) = g
         /\ g \div 2 <= InitialInfoInc
    <2>1. /\ g \div 2 \in Steps /\ g \div 2 \in Nat /\ 2 * (g \div 2) = g
          /\ g \div 2 < g
      BY <1>5, HalfAStep
    <2> DEFINE h == g \div 2
    <2> HIDE DEF h
    <2>2. h < g /\ h \in Nat => h <= InitialInfoInc
      BY <1>5, <1>8, <1>9
    <2>3. QED
      BY <2>1, <2>2 DEF h
  <1>12. ASSUME NEW k \in Key, NEW i \in Nat, i >= Home(k, t)
         PROVE  InfoAt(k, u, i) = InfoAt(k, t, i) \div 2
    <2> DEFINE x == Hash[k][t.multiplier]
               r == x % InitialInfoInc
               d == 1 + i - Home(k, t)
    <2>1. x \in Nat
      <3>1. Hash[k] \in [0 .. NumMultipliers - 1 -> Nat]
        BY <1>8
      <3>2. QED
        BY <1>9, <3>1, Zenon
    <2>2. Home(k, t) \in 0 .. t.buckets - 1
      BY <1>1, InfoParts
    <2>3. d \in Nat
      BY <1>9, <1>12, <2>2
    <2>4. InfoAt(k, t, i) = g * d + r \div (InitialInfoInc \div g)
      BY DEF InfoAt
    <2>5. InfoAt(k, u, i) = (g \div 2) * d + r \div (InitialInfoInc \div (g \div 2))
      BY <1>4, <1>10 DEF InfoAt
    <2>6. r \in Nat /\ r < InitialInfoInc
      <3> HIDE DEF x
      <3>1. QED
        BY <1>8, <2>1
    <2> HIDE DEF r, d, g
    <2>7. g \in Steps /\ g > 2
      BY <1>5 DEF g
    <2>8. (g * d + r \div (InitialInfoInc \div g)) \div 2
             = (g \div 2) * d + r \div (InitialInfoInc \div (g \div 2))
      BY <1>8, <1>9, <2>3, <2>6, <2>7, HalfABit
    <2>9. QED
      BY <2>4, <2>5, <2>8
  <1>13. ASSUME NEW i \in 0 .. s + 7
         PROVE  /\ I[i] \in 0 .. InfoByte
                /\ i # s => I[i] = t.info[i] \div 2
                /\ I[s] = 1
    <2>1. i \in DOMAIN t.info /\ s \in DOMAIN t.info
      BY <1>5
    <2> DEFINE x == t.info[i]
    <2>2. x \in Nat /\ x <= InfoByte
      BY <1>7
    <2>3. I[i] = IF i = s THEN 1 ELSE x \div 2
      BY <2>1
    <2>4. I[s] = 1
      BY <2>1
    <2> HIDE DEF x, I
    <2>5. x \div 2 \in 0 .. InfoByte /\ 1 \in 0 .. InfoByte
      BY <1>5, <2>2
    <2>6. QED
      BY <2>3, <2>4, <2>5 DEF x
  <1>14. DOMAIN I = 0 .. s + 7 /\ I = [i \in DOMAIN I |-> I[i]]
    BY <1>5
  <1> HIDE DEF I
  <1>15. ASSUME NEW i \in DOMAIN t.node
         PROVE  /\ i \in 0 .. s + 7 /\ i # s
                /\ t.info[i] \in Nat /\ t.info[i] >= t.inc
                /\ I[i] = t.info[i] \div 2 /\ I[i] # 0
                /\ I[i] <= InfoByte - g \div 2
    <2>1. i \in 0 .. s + 7 /\ i # s
      BY <1>5
    <2> DEFINE x == t.info[i]
    <2>2. x \in Nat /\ x >= t.inc /\ x <= InfoByte
      BY <1>1, <1>7, <2>1, NodeFacts
    <2>3. I[i] = x \div 2
      BY <1>13, <2>1
    <2> HIDE DEF x
    <2>4. x \div 2 # 0 /\ x \div 2 <= InfoByte - g \div 2
      <3> DEFINE h == g \div 2
      <3>1. h \in Nat /\ 2 * h = g
        BY <1>11
      <3> HIDE DEF h
      <3>2. h >= 1 /\ x >= 2 * h /\ 4 * h <= InfoByte + 1
        BY <1>5, <2>2, <3>1
      <3>3. x \div 2 # 0 /\ x \div 2 <= InfoByte - h
        BY <1>5, <2>2, <3>1, <3>2, HalfAByte
      <3>4. QED
        BY <3>3 DEF h
    <2>5. QED
      BY <2>1, <2>2, <2>3, <2>4 DEF x
  <1>16. Members(u)
    <2>1. I \in [0 .. s + 7 -> 0 .. InfoByte]
      BY <1>13, <1>14
    <2>2. LastByte(u) = s + 7
      BY <1>1, <1>4 DEF LastByte
    <2>3. u.info \in [0 .. LastByte(u) -> 0 .. InfoByte]
      BY <1>4, <2>1, <2>2
    <2>4. u.node = [i \in DOMAIN u.node |-> u.node[i]]
      BY <1>1, <1>4, Zenon DEF Members
    <2>5. u.inc \in Steps /\ u.inc <= InitialInfoInc
      BY <1>4, <1>11
    <2>6. u.allowed \in {0, MaxAllowed(u.buckets)}
      BY <1>4
    <2>7. QED
      BY <1>4, <1>9, <2>3, <2>4, <2>5, <2>6, Zenon DEF Members
  <1>17. Truthful(u, ns)
    <2>1. DOMAIN t.node = {i \in DOMAIN I : I[i] # 0} \ {s}
      <3>1. ASSUME NEW i \in 0 .. s + 7, I[i] # 0, i # s
            PROVE  i \in DOMAIN t.node
        <4>1. t.info[i] # 0
          BY <1>13, <3>1
        <4>2. i \in 0 .. s - 1
          BY <1>5, <1>7, <3>1, <4>1
        <4>3. QED
          BY <1>6, <4>1, <4>2
      <3>2. \A i \in DOMAIN t.node : i \in 0 .. s + 7 /\ i # s /\ I[i] # 0
        BY <1>15
      <3>3. QED
        BY <1>14, <3>1, <3>2
    <2>2. ASSUME NEW i \in DOMAIN t.node
          PROVE  /\ t.node[i] \in DOMAIN ns /\ ns[t.node[i]] \in Key
                 /\ i \in Home(ns[t.node[i]], u) .. s - 1
                 /\ I[i] = InfoAt(ns[t.node[i]], u, i)
      <3> DEFINE q == ns[t.node[i]]
      <3>1. /\ t.node[i] \in DOMAIN ns /\ q \in Key
            /\ i \in Home(q, t) .. s - 1
            /\ t.info[i] = InfoAt(q, t, i)
        BY <1>1 DEF Truthful
      <3>2. i \in Nat /\ i >= Home(q, t)
        BY <1>1, NodeFacts
      <3>3. InfoAt(q, u, i) = t.info[i] \div 2
        BY <1>12, <3>1, <3>2
      <3>4. Home(q, u) = Home(q, t)
        BY <1>10
      <3> HIDE DEF q
      <3>5. QED
        BY <1>15, <3>1, <3>3, <3>4 DEF q
    <2>3. I[s] = 1
      <3>1. s \in 0 .. s + 7
        BY <1>5
      <3>2. QED
        BY <1>13, <3>1
    <2>4. IsFiniteSet(DOMAIN t.node) /\ t.count = Cardinality(DOMAIN t.node)
      BY <1>1 DEF Truthful
    <2>5. Slots(u.buckets) = s
      BY <1>4
    <2> HIDE DEF s
    <2>6. QED
      BY <1>4, <2>1, <2>2, <2>3, <2>4, <2>5 DEF Truthful
  <1>18. Sorted(u)
    <2> DEFINE Fits(j) == IF j = 0 \/ j - 1 \notin DOMAIN u.node
                          THEN u.info[j] < 2 * u.inc
                          ELSE u.info[j] <= u.info[j - 1] + u.inc
    <2>1. ASSUME NEW j \in DOMAIN u.node
          PROVE  Fits(j)
      <3>1. j \in DOMAIN t.node
        BY <1>4
      <3> DEFINE x == t.info[j]
                 y == t.info[j - 1]
      <3>2. x \in Nat /\ I[j] = x \div 2
        BY <1>15, <3>1
      <3>3. CASE j = 0 \/ j - 1 \notin DOMAIN t.node
        <4>1. x < 2 * g
          BY <1>1, <3>1, <3>3 DEF Sorted
        <4>2. x \div 2 < 2 * (g \div 2)
          <5> HIDE DEF x, g
          <5>1. QED
            BY <1>5, <1>11, <3>2, <4>1 DEF g
        <4>3. QED
          BY <1>4, <3>2, <3>3, <4>2
      <3>4. CASE ~(j = 0 \/ j - 1 \notin DOMAIN t.node)
        <4>1. x <= y + g
          BY <1>1, <3>1, <3>4 DEF Sorted
        <4>2. y \in Nat /\ I[j - 1] = y \div 2
          BY <1>15, <3>4
        <4>3. x \div 2 <= y \div 2 + g \div 2
          <5> HIDE DEF x, y, g
          <5>1. QED
            BY <1>5, <1>11, <3>2, <4>1, <4>2 DEF g
        <4>4. QED
          BY <1>4, <3>2, <3>4, <4>2, <4>3
      <3>5. QED
        BY <3>3, <3>4
    <2>2. QED
      BY <2>1 DEF Sorted
  <1>19. Roomy(u)
    <2>1. ASSUME NEW j \in DOMAIN u.node
          PROVE  u.info[j] + u.inc <= InfoByte
      <3>1. /\ j \in DOMAIN t.node /\ u.info[j] = I[j] /\ u.inc = g \div 2
        BY <1>4
      <3> DEFINE x == I[j]
                 h == g \div 2
      <3>2. x <= InfoByte - h
        BY <1>15, <3>1
      <3>3. x \in 0 .. InfoByte /\ h \in Nat
        BY <1>11, <1>13, <1>15, <3>1
      <3>4. u.info[j] = x /\ u.inc = h
        BY <3>1
      <3> HIDE DEF x, h
      <3>5. QED
        BY <1>5, <3>2, <3>3, <3>4
    <2>2. QED
      BY <2>1 DEF Roomy
  <1>20. TableOK(u, ns, rest)
    BY <1>1, <1>4, <1>16, <1>17, <1>18, <1>19 DEF TableOK
  <1>21. QED
    BY <1>4, <1>20 DEF u

-----------------------------------------------------------------------------
(* Looking up and initialising                                             *)

\* In no bucket between a node and its home is one that is nearer to its own.
LEMMA NoneIsNearer ==
    ASSUME NEW t, NEW ns, Members(t), Truthful(t, ns), Sorted(t), t.buckets # 1,
           NEW i \in DOMAIN t.node
    PROVE  \A j \in Home(ns[t.node[i]], t) .. i : InfoAt(ns[t.node[i]], t, j) <= t.info[j]
  <1> DEFINE s == Slots(t.buckets)
             k == ns[t.node[i]]
             h == Home(k, t)
             B == {j \in h .. i : ~(InfoAt(k, t, j) <= t.info[j])}
  <1>1. /\ s \in Nat /\ t.inc \in Nat /\ t.inc > 1
        /\ DOMAIN t.node \subseteq 0 .. s - 1
    BY TableFacts
  <1>2. /\ \A j \in 0 .. s - 1 : j \in DOMAIN t.node <=> t.info[j] # 0
        /\ \A j \in 0 .. s + 7 : t.info[j] \in Nat
    BY TableFacts
  <1>3. k \in Key /\ i \in Nat /\ h \in Nat /\ i >= h /\ t.info[i] = InfoAt(k, t, i)
    BY NodeFacts, TableFacts
  <1>4. \A j \in Nat : /\ InfoAt(k, t, j) \in Int
                       /\ InfoAt(k, t, j + 1) = InfoAt(k, t, j) + t.inc
                       /\ j > h <=> InfoAt(k, t, j) >= 2 * t.inc
    BY <1>3, InfoGrows
  <1> HIDE DEF s, h, k
  <1>5. i \in 0 .. s - 1 /\ i < s
    BY <1>1
  <1>6. B = {}
    <2>1. SUFFICES ASSUME B # {} PROVE FALSE
      OBVIOUS
    <2>2. B \in SUBSET Nat /\ \A j \in B : j <= i
      BY <1>3
    <2>3. PICK x \in B : \A j \in B : j <= x
      <3> HIDE DEF B
      <3>1. QED
        BY <1>3, <2>1, <2>2, GreatestNumber
    <2>4. x \in Nat /\ x >= h /\ x < i /\ ~(InfoAt(k, t, x) <= t.info[x])
      <3>1. x \in h .. i /\ ~(InfoAt(k, t, x) <= t.info[x])
        OBVIOUS
      <3>2. x # i
        BY <1>3, <1>4, <3>1
      <3>3. QED
        BY <1>3, <3>1, <3>2
    <2> DEFINE y == x + 1
    <2>5. y \in Nat /\ y > h /\ y <= i /\ y \in h .. i /\ y \in 0 .. s - 1 /\ y - 1 = x /\ y # 0 /\ y > x
      BY <1>1, <1>3, <1>5, <2>4
    <2>6. y \notin B
      BY <2>2, <2>3, <2>5
    <2>7. InfoAt(k, t, y) <= t.info[y] /\ InfoAt(k, t, y) >= 2 * t.inc
      BY <1>4, <2>5, <2>6
    <2>8. InfoAt(k, t, y) = InfoAt(k, t, x) + t.inc /\ InfoAt(k, t, x) \in Int
      BY <1>4, <2>4
    <2>9. t.info[y] \in Nat
      BY <1>1, <1>2, <2>5
    <2> HIDE DEF y
    <2>10. t.info[y] >= 2 * t.inc /\ t.info[y] # 0
      BY <1>1, <2>7, <2>8, <2>9
    <2>11. y \in DOMAIN t.node
      BY <1>2, <2>5, <2>10
    <2>12. y - 1 \in DOMAIN t.node /\ t.info[y] <= t.info[y - 1] + t.inc
      <3>1. y = 0 \/ y - 1 \notin DOMAIN t.node => t.info[y] < 2 * t.inc
        BY <2>5, <2>11 DEF Sorted
      <3>2. y - 1 \in DOMAIN t.node
        BY <1>1, <2>9, <2>10, <3>1
      <3>3. QED
        BY <2>5, <2>11, <3>2 DEF Sorted
    <2>13. t.info[x] \in Nat
      BY <1>1, <1>2, <1>5, <2>4
    <2>14. t.info[y] <= t.info[x] + t.inc
      BY <2>5, <2>12
    <2>15. InfoAt(k, t, x) <= t.info[x]
      BY <1>1, <2>7, <2>8, <2>9, <2>13, <2>14
    <2>16. QED
      BY <2>4, <2>15
  <1>7. QED
    BY <1>6 DEF h, k

\* findIdx does not stop in front of a node.
LEMMA NodeIsFound ==
    ASSUME NEW t, Members(t), Truthful(t, nodes), Sorted(t), t.buckets # 1,
           NEW i \in DOMAIN t.node
    PROVE  Finds(nodes[t.node[i]], t, i)
  <1> DEFINE k == nodes[t.node[i]]
             h == Home(k, t)
  <1>1. Slots(t.buckets) \in Nat /\ DOMAIN t.node \subseteq 0 .. Slots(t.buckets) - 1
    BY TableFacts
  <1>2. i \in Nat /\ h \in Nat /\ i >= h /\ t.info[i] = InfoAt(k, t, i)
    BY NodeFacts, TableFacts
  <1>3. \A j \in h .. i : InfoAt(k, t, j) <= t.info[j]
    BY NoneIsNearer
  <1> HIDE DEF h, k
  <1>4. \A j \in h + 1 .. i : InfoAt(k, t, j) <= t.info[j]
    BY <1>2, <1>3
  <1>5. i \in From(h, t)
    BY <1>1, <1>2 DEF From
  <1>6. Probes(k, t, i)
    BY <1>4, <1>5 DEF Probes, h
  <1>7. QED
    BY <1>2, <1>6 DEF Finds, k

\* insertKeyPrepareEmptySpot sees a key that is there: it is among those as far from
\* home as it would be itself, and they are next to each other.
LEMMA KeyIsFound ==
    ASSUME NEW t, Members(t), Truthful(t, nodes), Sorted(t), t.buckets # 1,
           NEW i \in DOMAIN t.node
    PROVE  KeyFound(nodes[t.node[i]], t)
  <1> DEFINE s == Slots(t.buckets)
             k == nodes[t.node[i]]
             h == Home(k, t)
             P == {j \in From(h, t) : InfoAt(k, t, j) >= t.info[j]}
             p == Min(P)
             Q == {j \in From(p, t) : InfoAt(k, t, j) # t.info[j]}
             q == Min(Q)
  <1>1. /\ s \in Nat /\ t.inc \in Nat /\ t.inc > 1 /\ t.info[s] = 1
        /\ DOMAIN t.node \subseteq 0 .. s - 1
        /\ \A j \in 0 .. s - 1 : j \in DOMAIN t.node <=> t.info[j] # 0
        /\ \A j \in 0 .. s + 7 : t.info[j] \in Nat
    BY TableFacts
  <1>2. k \in Key /\ i \in Nat /\ h \in Nat /\ i >= h /\ t.info[i] = InfoAt(k, t, i)
    BY NodeFacts, TableFacts
  <1>3. \A j \in h .. i : InfoAt(k, t, j) <= t.info[j]
    BY NoneIsNearer
  <1>4. \A j \in Nat : /\ InfoAt(k, t, j) \in Int
                       /\ InfoAt(k, t, j + 1) = InfoAt(k, t, j) + t.inc
                       /\ j > h <=> InfoAt(k, t, j) >= 2 * t.inc
    BY <1>2, InfoGrows
  <1>5. \A j : j \in P <=> j \in h .. s /\ InfoAt(k, t, j) >= t.info[j]
    BY DEF From
  <1>6. \A j : j \in Q <=> j \in p .. s /\ InfoAt(k, t, j) # t.info[j]
    BY DEF From
  <1>7. Passed(k, t) = p /\ InsertionIdx(k, t) = q
    BY DEF InsertionIdx, Passed
  <1>8. nodes[t.node[i]] = k
    OBVIOUS
  <1> HIDE DEF s, k, h, P, Q
  <1>9. i \in 0 .. s - 1 /\ i \in h .. s
    BY <1>1, <1>2
  <1>10. P \in SUBSET Nat /\ i \in P
    BY <1>1, <1>2, <1>4, <1>5, <1>9
  <1>11. p \in P /\ \A j \in P : p <= j
    BY <1>10, MinIs
  <1> HIDE DEF p
  <1>12. p \in Nat /\ h <= p /\ p <= i /\ InfoAt(k, t, p) >= t.info[p]
    BY <1>2, <1>5, <1>10, <1>11
  <1>13. s \in Q /\ Q \in SUBSET Nat
    <2>1. s \in Nat /\ s > h /\ s \in p .. s
      BY <1>1, <1>2, <1>9, <1>12
    <2>2. InfoAt(k, t, s) >= 2 * t.inc /\ InfoAt(k, t, s) \in Int
      BY <1>4, <2>1
    <2>3. InfoAt(k, t, s) # t.info[s]
      BY <1>1, <2>2
    <2>4. Q \in SUBSET Nat
      BY <1>1, <1>6, <1>12
    <2>5. QED
      BY <1>6, <2>1, <2>3, <2>4
  <1>14. q \in Q /\ \A j \in Q : q <= j
    BY <1>13, MinIs
  <1> HIDE DEF q
  <1>15. q \in Nat /\ p <= q /\ InfoAt(k, t, q) # t.info[q]
    BY <1>6, <1>12, <1>13, <1>14
  <1>16. q > i
    <2>1. SUFFICES ASSUME ~(q > i) PROVE FALSE
      OBVIOUS
    <2>2. q <= i /\ q \in h .. i /\ q \in 0 .. s - 1 /\ q \in 0 .. s + 7
      BY <1>1, <1>2, <1>9, <1>12, <1>15, <2>1
    <2>3. InfoAt(k, t, q) < t.info[q] /\ InfoAt(k, t, q) \in Int /\ t.info[q] \in Nat
      <3>1. InfoAt(k, t, q) <= t.info[q]
        BY <1>3, <2>2
      <3>2. InfoAt(k, t, q) \in Int /\ t.info[q] \in Nat
        BY <1>1, <1>4, <1>15, <2>2
      <3>3. QED
        BY <1>15, <3>1, <3>2
    <2>4. q # p
      BY <1>12, <2>3
    <2> DEFINE j == q - 1
    <2>5. /\ j \in Nat /\ j >= p /\ j < q /\ j + 1 = q /\ q # 0 /\ q > h
          /\ j \in h .. i /\ j \in p .. s /\ j \in 0 .. s - 1 /\ j \in 0 .. s + 7
      BY <1>1, <1>2, <1>9, <1>12, <1>15, <2>2, <2>4
    <2>6. q - 1 = j
      OBVIOUS
    <2> HIDE DEF j
    <2>7. InfoAt(k, t, j) = t.info[j]
      <3>1. j \notin Q
        BY <1>14, <1>15, <2>5
      <3>2. QED
        BY <1>6, <2>5, <3>1
    <2>8. InfoAt(k, t, q) = t.info[j] + t.inc /\ InfoAt(k, t, q) >= 2 * t.inc
      BY <1>4, <1>15, <2>5, <2>7
    <2>9. t.info[j] \in Nat /\ t.info[j] # 0 /\ t.info[q] # 0
      BY <1>1, <2>3, <2>5, <2>8
    <2>10. j \in DOMAIN t.node /\ q \in DOMAIN t.node
      BY <1>1, <2>2, <2>5, <2>9
    <2>11. t.info[q] <= t.info[j] + t.inc
      BY <2>5, <2>6, <2>10 DEF Sorted
    <2>12. QED
      BY <1>1, <2>3, <2>8, <2>9, <2>11
  <1>17. i \in p .. q - 1
    BY <1>2, <1>12, <1>15, <1>16
  <1>18. QED
    BY <1>7, <1>8, <1>17 DEF KeyFound, k

\* initData: a table without nodes.
LEMMA InitDataOK ==
    ASSUME NEW rest \in Nat, NEW t, NEW ns,
           t = [buckets |-> t.buckets, multiplier |-> t.multiplier, count |-> t.count,
                allowed |-> t.allowed, inc |-> t.inc, info |-> t.info, node |-> t.node],
           t.multiplier \in 0 .. NumMultipliers - 1,
           NEW b \in Nat, b > 1, rest <= MaxAllowed(b)
    PROVE  /\ TableOK(InitData(t, b), ns, rest)
           /\ InitData(t, b).buckets = b
           /\ InitData(t, b).node = Empty
  <1> DEFINE u == InitData(t, b)
             s == Slots(b)
             I == [i \in 0 .. s + 7 |-> IF i = s THEN 1 ELSE 0]
  <1>1. /\ InitialInfoInc \in {4, 8, 16, 32, 64, 128}
        /\ InfoByte \in Nat /\ InfoByte >= 2 * InitialInfoInc - 1
    BY TableAssumption
  <1>2. s \in Nat /\ MaxAllowed(b) \in Nat
    BY SlotsIs, MaxAllowedIs
  <1>3. u = [t EXCEPT !.buckets = b, !.count = 0, !.allowed = MaxAllowed(b),
                      !.inc = InitialInfoInc, !.info = I, !.node = Empty]
    BY DEF InitData
  <1>4. /\ u.buckets = b /\ u.multiplier = t.multiplier /\ u.count = 0
        /\ u.allowed = MaxAllowed(b) /\ u.inc = InitialInfoInc /\ u.info = I /\ u.node = Empty
        /\ u = [buckets |-> u.buckets, multiplier |-> u.multiplier, count |-> u.count,
                allowed |-> u.allowed, inc |-> u.inc, info |-> u.info, node |-> u.node]
    <2> DEFINE m == MaxAllowed(b)
               z == Empty
    <2> HIDE DEF I, u, m, z
    <2>1. u = [t EXCEPT !.buckets = b, !.count = 0, !.allowed = m,
                        !.inc = InitialInfoInc, !.info = I, !.node = z]
      BY <1>3 DEF m, z
    <2>2. u = [buckets |-> b, multiplier |-> t.multiplier, count |-> 0, allowed |-> m,
               inc |-> InitialInfoInc, info |-> I, node |-> z]
      BY <2>1
    <2>3. QED
      BY <2>2 DEF m, z
  <1> HIDE DEF u, s
  <1>5. I \in [0 .. s + 7 -> 0 .. InfoByte]
    BY <1>1
  <1>6. s \in DOMAIN I /\ I[s] = 1 /\ \A i \in DOMAIN I : i # s => I[i] = 0
    BY <1>2
  <1> HIDE DEF I
  <1>7. DOMAIN Empty = {} /\ Empty = [i \in DOMAIN Empty |-> Empty[i]]
    BY DEF Empty
  <1>8. IsFiniteSet(DOMAIN Empty) /\ Cardinality(DOMAIN Empty) = 0
    BY <1>7, FS_EmptySet
  <1>9. Members(u)
    <2>1. LastByte(u) = s + 7
      BY <1>4 DEF LastByte, s
    <2>2. u.info \in [0 .. LastByte(u) -> 0 .. InfoByte]
      BY <1>4, <1>5, <2>1
    <2>3. u.inc \in Steps /\ u.inc <= InitialInfoInc
      BY <1>1, <1>4 DEF Steps
    <2>4. u.buckets \in Nat \ {0} /\ u.multiplier \in 0 .. NumMultipliers - 1 /\ u.count \in Nat
      BY <1>4
    <2>5. u.allowed \in {0, MaxAllowed(u.buckets)}
      BY <1>4
    <2>6. u.node = [i \in DOMAIN u.node |-> u.node[i]]
      BY <1>4, <1>7, Zenon
    <2>7. QED
      BY <1>4, <2>2, <2>3, <2>4, <2>5, <2>6, Zenon DEF Members
  <1>10. Truthful(u, ns)
    <2>1. Slots(u.buckets) = s
      BY <1>4 DEF s
    <2>2. QED
      BY <1>4, <1>6, <1>7, <1>8, <2>1 DEF Truthful
  <1>11. Sorted(u) /\ Roomy(u)
    BY <1>4, <1>7 DEF Sorted, Roomy
  <1>12. u.buckets # 1 /\ u.count + rest <= MaxAllowed(u.buckets)
    BY <1>4
  <1>13. QED
    BY <1>4, <1>9, <1>10, <1>11, <1>12 DEF TableOK, u

-----------------------------------------------------------------------------
(* The pool                                                                *)

\* What joining two free lists preserves (BulkPoolAllocator::add).
LEMMA JoinedLists ==
    ASSUME NEW a \in Seq(Nat), NEW b \in Seq(Nat)
    PROVE  /\ a \o b \in Seq(Nat)
           /\ Range(a \o b) = Range(a) \union Range(b)
           /\ IsInjective(a) /\ IsInjective(b) /\ Range(a) \intersect Range(b) = {} =>
                IsInjective(a \o b)
  <1> DEFINE c == a \o b
             m == Len(a)
             n == Len(b)
  <1>1. /\ c \in Seq(Nat) /\ Len(c) = m + n
        /\ \A i \in 1 .. m + n : c[i] = IF i <= m THEN a[i] ELSE b[i - m]
    BY ConcatProperties
  <1>2. m \in Nat /\ n \in Nat /\ DOMAIN a = 1 .. m /\ DOMAIN b = 1 .. n /\ DOMAIN c = 1 .. m + n
    BY <1>1, LenProperties
  <1> HIDE DEF c, m, n
  <1>3. ASSUME NEW i \in DOMAIN c
        PROVE  \/ i \in DOMAIN a /\ c[i] = a[i]
               \/ i - m \in DOMAIN b /\ c[i] = b[i - m] /\ i \in Nat /\ i > m
    BY <1>1, <1>2
  <1>4. ASSUME NEW i \in DOMAIN a
        PROVE  i \in DOMAIN c /\ c[i] = a[i]
    BY <1>1, <1>2
  <1>5. ASSUME NEW i \in DOMAIN b
        PROVE  i + m \in DOMAIN c /\ c[i + m] = b[i]
    <2>1. i + m \in 1 .. m + n /\ ~(i + m <= m) /\ (i + m) - m = i
      BY <1>2
    <2>2. QED
      BY <1>1, <1>2, <2>1
  <1>6. Range(c) = Range(a) \union Range(b)
    BY <1>3, <1>4, <1>5 DEF Range
  <1>7. ASSUME IsInjective(a), IsInjective(b), Range(a) \intersect Range(b) = {},
               NEW i \in DOMAIN c, NEW j \in DOMAIN c, c[i] = c[j]
        PROVE  i = j
    <2>1. CASE i \in DOMAIN a /\ j \in DOMAIN a
      BY <1>4, <1>7, <2>1 DEF IsInjective
    <2>2. CASE i \notin DOMAIN a /\ j \notin DOMAIN a
      <3>1. /\ i - m \in DOMAIN b /\ c[i] = b[i - m] /\ i \in Nat
            /\ j - m \in DOMAIN b /\ c[j] = b[j - m] /\ j \in Nat
        BY <1>3, <2>2
      <3>2. i - m = j - m
        BY <1>7, <3>1 DEF IsInjective
      <3>3. QED
        BY <1>2, <3>1, <3>2
    <2>3. CASE ~(i \in DOMAIN a <=> j \in DOMAIN a)
      <3>1. \A l \in DOMAIN c : l \in DOMAIN a => c[l] \in Range(a)
        BY <1>4 DEF Range
      <3>2. \A l \in DOMAIN c : l \notin DOMAIN a => c[l] \in Range(b)
        BY <1>3 DEF Range
      <3>3. QED
        BY <1>7, <2>3, <3>1, <3>2
    <2>4. QED
      BY <2>1, <2>2, <2>3
  <1>8. IsInjective(a) /\ IsInjective(b) /\ Range(a) \intersect Range(b) = {} => IsInjective(c)
    BY <1>7 DEF IsInjective
  <1>9. QED
    BY <1>1, <1>6, <1>8 DEF c

\* add: the new cells are new.
LEMMA AddOK ==
    ASSUME NEW p, PoolInv(p), NEW m \in Nat
    PROVE  /\ PoolInv(Add(p, m))
           /\ Range(Add(p, m).free) = Range(p.free) \union p.cells .. p.cells + m - 1
           /\ Add(p, m).cells = p.cells + m
           /\ m > 0 => Add(p, m).free # <<>>
  <1> DEFINE a == [i \in 1 .. m |-> p.cells + i - 1]
             q == Add(p, m)
  <1>1. p.free \in Seq(Nat) /\ p.blocks \in Nat /\ p.cells \in Nat
    BY DEF PoolInv, Pool
  <1>2. q.free = a \o p.free /\ q.blocks = p.blocks + 1 /\ q.cells = p.cells + m
        /\ q = [free |-> q.free, blocks |-> q.blocks, cells |-> q.cells]
    BY DEF Add
  <1>3. a \in Seq(Nat) /\ Len(a) = m
    BY <1>1
  <1>4. Range(a) = p.cells .. p.cells + m - 1
    <2>1. \A i \in 1 .. m : p.cells + i - 1 \in p.cells .. p.cells + m - 1
      BY <1>1
    <2>2. ASSUME NEW c \in p.cells .. p.cells + m - 1
          PROVE  c \in Range(a)
      <3> DEFINE z == p.cells
      <3>1. c - z + 1 \in 1 .. m /\ z + (c - z + 1) - 1 = c
        <4>1. z \in Nat /\ c \in z .. z + m - 1
          BY <1>1
        <4> HIDE DEF z
        <4>2. QED
          BY <4>1
      <3>2. a[c - z + 1] = c /\ c - z + 1 \in DOMAIN a
        BY <3>1
      <3>3. QED
        BY <3>2 DEF Range
    <2>3. QED
      BY <2>1, <2>2 DEF Range
  <1>5. IsInjective(a)
    BY <1>1 DEF IsInjective
  <1>6. /\ IsInjective(p.free) /\ Range(p.free) \subseteq 0 .. p.cells - 1
        /\ Range(a) \intersect Range(p.free) = {}
    <2>1. IsInjective(p.free) /\ Range(p.free) \subseteq 0 .. p.cells - 1
      BY DEF PoolInv
    <2> DEFINE z == p.cells
    <2>2. z \in Nat /\ Range(a) = z .. z + m - 1 /\ Range(p.free) \subseteq 0 .. z - 1
      BY <1>1, <1>4, <2>1
    <2> HIDE DEF a, z
    <2>3. Range(a) \intersect Range(p.free) = {}
      BY <2>2
    <2>4. QED
      BY <2>1, <2>3
  <1> HIDE DEF a, q
  <1>7. /\ q.free \in Seq(Nat) /\ IsInjective(q.free)
        /\ Range(q.free) = Range(p.free) \union p.cells .. p.cells + m - 1
    BY <1>1, <1>2, <1>3, <1>4, <1>5, <1>6, JoinedLists
  <1>8. Range(q.free) \subseteq 0 .. q.cells - 1
    <2> DEFINE z == p.cells
    <2>1. /\ z \in Nat /\ q.cells = z + m /\ Range(p.free) \subseteq 0 .. z - 1
          /\ Range(q.free) = Range(p.free) \union z .. z + m - 1
      BY <1>1, <1>2, <1>6, <1>7
    <2> HIDE DEF z
    <2>2. QED
      BY <2>1
  <1>9. q \in Pool
    <2> DEFINE x == p.cells
               y == p.blocks
    <2>1. /\ x \in Nat /\ y \in Nat /\ q.free \in Seq(Nat) /\ q.cells = x + m /\ q.blocks = y + 1
          /\ q = [free |-> q.free, blocks |-> q.blocks, cells |-> q.cells]
      BY <1>1, <1>2, <1>7
    <2> HIDE DEF x, y
    <2>2. q.cells \in Nat /\ q.blocks \in Nat
      BY <2>1
    <2>3. QED
      BY <2>1, <2>2 DEF Pool
  <1>10. m > 0 => q.free # <<>>
    <2> DEFINE f == p.free
    <2>1. f \in Seq(Nat) /\ a \in Seq(Nat) /\ Len(a) = m /\ q.free = a \o f
      BY <1>1, <1>2, <1>3
    <2> HIDE DEF f
    <2>2. Len(a \o f) = m + Len(f) /\ Len(f) \in Nat
      BY <2>1, ConcatProperties, LenProperties
    <2>3. m > 0 => Len(a \o f) # 0
      BY <2>2
    <2>4. QED
      BY <2>1, <2>3, EmptySeq
  <1>11. QED
    BY <1>2, <1>7, <1>8, <1>9, <1>10 DEF PoolInv, q

\* A block has at least one element.
LEMMA SomeElements ==
    ASSUME NEW p, PoolInv(p)
    PROVE  NumElementsToAlloc(p) \in Nat \ {0}
  <1> DEFINE T == {MinNumAllocs * 2 ^ i : i \in 0 .. p.blocks} \intersect 1 .. MaxNumAllocs
  <1>1. /\ MinNumAllocs \in Nat \ {0} /\ MaxNumAllocs \in Nat /\ MinNumAllocs <= MaxNumAllocs
    BY PoolAssumption
  <1>2. p.blocks \in Nat
    BY DEF PoolInv, Pool
  <1>3. MinNumAllocs \in T
    <2>1. 0 \in 0 .. p.blocks
      BY <1>2
    <2>2. MinNumAllocs * 2 ^ 0 = MinNumAllocs
      BY <1>1
    <2>3. MinNumAllocs \in {MinNumAllocs * 2 ^ i : i \in 0 .. p.blocks}
      BY <2>1, <2>2
    <2>4. QED
      BY <1>1, <2>3
  <1>4. T \in SUBSET Nat /\ \A k \in T : k <= MaxNumAllocs /\ k >= 1
    BY <1>1
  <1> HIDE DEF T
  <1>5. Max(T) \in T
    BY <1>1, <1>3, <1>4, MaxIs
  <1>6. Max(T) \in Nat \ {0}
    <2>1. Max(T) \in Nat /\ Max(T) >= 1
      BY <1>4, <1>5
    <2>2. QED
      BY <2>1
  <1>7. QED
    BY <1>6 DEF NumElementsToAlloc, T

\* allocate gives a cell that was free, or one that is new.
LEMMA AllocateOK ==
    ASSUME NEW p, PoolInv(p)
    PROVE  /\ PoolInv(Taken(p))
           /\ Taken(p).cells \in Nat /\ p.cells \in Nat /\ p.cells <= Taken(p).cells
           /\ Allocate(p) \in 0 .. Taken(p).cells - 1
           /\ Allocate(p) \in Range(p.free) \/ Allocate(p) >= p.cells
           /\ Allocate(p) \notin Range(Taken(p).free)
           /\ \A c \in Range(Taken(p).free) : c \in Range(p.free) \/ c >= p.cells
  <1> DEFINE r == Refilled(p)
             f == r.free
             q == Taken(p)
             m == NumElementsToAlloc(p)
  <1>1. p.cells \in Nat
    BY DEF PoolInv, Pool
  <1>2. m \in Nat \ {0}
    BY SomeElements
  <1> HIDE DEF m
  <1>3. /\ PoolInv(r) /\ f # <<>> /\ p.cells <= r.cells
        /\ \A c \in Range(f) : c \in Range(p.free) \/ c >= p.cells
    <2>1. CASE p.free = <<>>
      <3>1. r = Add(p, m)
        BY <2>1 DEF Refilled, m
      <3>2. /\ PoolInv(Add(p, m)) /\ Add(p, m).free # <<>> /\ Add(p, m).cells = p.cells + m
            /\ Range(Add(p, m).free) = Range(p.free) \union p.cells .. p.cells + m - 1
        BY <1>2, AddOK
      <3> DEFINE z == p.cells
      <3>3. /\ PoolInv(r) /\ f # <<>> /\ r.cells = z + m /\ z \in Nat
            /\ Range(f) = Range(p.free) \union z .. z + m - 1
        BY <1>1, <3>1, <3>2
      <3> HIDE DEF r, f, z
      <3>4. /\ PoolInv(r) /\ f # <<>> /\ z <= r.cells
            /\ \A c \in Range(f) : c \in Range(p.free) \/ c >= z
        BY <1>2, <3>3
      <3>5. QED
        BY <3>4 DEF z
    <2>2. CASE p.free # <<>>
      <3>1. r = p
        BY <2>2 DEF Refilled
      <3>2. QED
        BY <1>1, <2>2, <3>1
    <2>3. QED
      BY <2>1, <2>2
  <1>4. q = [r EXCEPT !.free = Tail(f)] /\ Allocate(p) = Head(f)
    BY DEF Taken, Allocate
  <1> HIDE DEF r, q
  <1>5. f \in Seq(Nat) /\ r \in Pool /\ r.cells \in Nat /\ IsInjective(f) /\ Range(f) \subseteq 0 .. r.cells - 1
    BY <1>3 DEF PoolInv, Pool
  <1>6. q.free = Tail(f) /\ q.cells = r.cells /\ q.blocks = r.blocks
        /\ q = [free |-> q.free, blocks |-> q.blocks, cells |-> q.cells]
    BY <1>4, <1>5 DEF Pool
  <1> HIDE DEF f
  <1>7. Head(f) = f[1] /\ Tail(f) \in Seq(Nat) /\ Len(f) \in Nat \ {0} /\ DOMAIN f = 1 .. Len(f)
        /\ DOMAIN Tail(f) = 1 .. Len(f) - 1
        /\ \A i \in 1 .. Len(f) - 1 : Tail(f)[i] = f[i + 1]
    <2>1. Head(f) = f[1]
      BY <1>3, <1>5
    <2>2. /\ Tail(f) \in Seq(Nat) /\ Len(Tail(f)) = Len(f) - 1
          /\ \A i \in 1 .. Len(Tail(f)) : Tail(f)[i] = f[i + 1]
      BY <1>3, <1>5, HeadTailProperties
    <2>3. Len(f) \in Nat \ {0} /\ DOMAIN f = 1 .. Len(f)
      BY <1>3, <1>5, EmptySeq, LenProperties
    <2>4. DOMAIN Tail(f) = 1 .. Len(Tail(f))
      BY <2>2, LenProperties
    <2>5. QED
      BY <2>1, <2>2, <2>3, <2>4
  <1>8. \A i \in DOMAIN Tail(f) : i + 1 \in DOMAIN f /\ i + 1 # 1 /\ Tail(f)[i] = f[i + 1] /\ i \in Nat
    BY <1>7
  <1>9. 1 \in DOMAIN f
    BY <1>7
  <1> DEFINE g == Tail(f)
  <1>10. Range(g) \subseteq Range(f) /\ f[1] \notin Range(g) /\ f[1] \in Range(f)
    BY <1>5, <1>8, <1>9 DEF Range, IsInjective
  <1>11. IsInjective(g)
    <2>1. ASSUME NEW i \in DOMAIN g, NEW j \in DOMAIN g, g[i] = g[j]
          PROVE  i = j
      <3>1. i + 1 = j + 1 /\ i \in Nat /\ j \in Nat
        BY <1>5, <1>8, <2>1 DEF IsInjective
      <3>2. QED
        BY <3>1
    <2>2. QED
      BY <2>1 DEF IsInjective
  <1>12. q \in Pool
    BY <1>5, <1>6, <1>7 DEF Pool
  <1> HIDE DEF g
  <1>13. PoolInv(q)
    BY <1>5, <1>6, <1>10, <1>11, <1>12 DEF PoolInv, g
  <1>14. QED
    BY <1>1, <1>3, <1>4, <1>5, <1>6, <1>7, <1>10, <1>13 DEF q, f, g

\* deallocate
LEMMA DeallocateOK ==
    ASSUME NEW p, PoolInv(p), NEW c \in 0 .. p.cells - 1, c \notin Range(p.free)
    PROVE  /\ PoolInv(Deallocate(p, c))
           /\ Range(Deallocate(p, c).free) = Range(p.free) \union {c}
           /\ Deallocate(p, c).cells = p.cells
  <1> DEFINE q == Deallocate(p, c)
             a == <<c>>
  <1>1. /\ p.free \in Seq(Nat) /\ p.cells \in Nat /\ p.blocks \in Nat
        /\ p = [free |-> p.free, blocks |-> p.blocks, cells |-> p.cells]
    BY DEF PoolInv, Pool
  <1>2. a \in Seq(Nat) /\ Range(a) = {c} /\ IsInjective(a)
    BY <1>1 DEF Range, IsInjective
  <1>3. q = [p EXCEPT !.free = a \o p.free]
    BY DEF Deallocate
  <1> HIDE DEF a, q
  <1>4. q.free = a \o p.free /\ q.cells = p.cells /\ q.blocks = p.blocks
        /\ q = [free |-> q.free, blocks |-> q.blocks, cells |-> q.cells]
    BY <1>1, <1>3
  <1>5. IsInjective(p.free) /\ Range(p.free) \subseteq 0 .. p.cells - 1
    BY DEF PoolInv
  <1>6. /\ q.free \in Seq(Nat) /\ IsInjective(q.free) /\ Range(q.free) = Range(p.free) \union {c}
    BY <1>1, <1>2, <1>4, <1>5, JoinedLists
  <1>7. q \in Pool
    BY <1>1, <1>4, <1>6 DEF Pool
  <1>8. QED
    BY <1>4, <1>5, <1>6, <1>7 DEF PoolInv, q

\* addOrFree
LEMMA AddOrFreeOK ==
    ASSUME NEW p, PoolInv(p), NEW bytes \in Nat
    PROVE  /\ PoolInv(AddOrFree(p, bytes))
           /\ p.cells \in Nat /\ AddOrFree(p, bytes).cells \in Nat
           /\ p.cells <= AddOrFree(p, bytes).cells
           /\ \A c \in Range(AddOrFree(p, bytes).free) : c \in Range(p.free) \/ c >= p.cells
  <1>1. Alignment \in Nat \ {0} /\ AlignedSize \in Nat \ {0}
    BY PoolAssumption
  <1>2. p.cells \in Nat
    BY DEF PoolInv, Pool
  <1>3. CASE bytes < Alignment + AlignedSize
    BY <1>2, <1>3 DEF AddOrFree
  <1>4. CASE ~(bytes < Alignment + AlignedSize)
    <2> DEFINE m == (bytes - Alignment) \div AlignedSize
    <2>1. m \in Nat
      <3> DEFINE x == bytes - Alignment
      <3>1. x \in Nat
        BY <1>1, <1>4
      <3> HIDE DEF x
      <3>2. x \div AlignedSize \in Nat
        BY <1>1, <3>1
      <3>3. QED
        BY <3>2 DEF x
    <2>2. AddOrFree(p, bytes) = Add(p, m)
      BY <1>4 DEF AddOrFree
    <2> HIDE DEF m
    <2>3. /\ PoolInv(Add(p, m)) /\ Add(p, m).cells = p.cells + m
          /\ Range(Add(p, m).free) = Range(p.free) \union p.cells .. p.cells + m - 1
      BY <2>1, AddOK
    <2>4. QED
      BY <1>2, <2>1, <2>2, <2>3
  <1>5. QED
    BY <1>3, <1>4

-----------------------------------------------------------------------------
(* What the invariant says                                                 *)

\* Which table there is.
LEMMA TableIs ==
    ASSUME HashMapInv, NEW rest, rest = Cardinality(DOMAIN old.node)
    PROVE  /\ rest \in Nat /\ IsFiniteSet(DOMAIN old.node)
           /\ table.buckets = 1 => table = Unallocated
           /\ table.buckets # 1 => TableOK(table, nodes, rest)
    BY FS_CardinalityType DEF HashMapInv, TableInv

\* Nothing is being moved: no insertion, or one that has not started to rehash.
LEMMA NothingMoves ==
    ASSUME HashMapInv, call = NoCall \/ old = NoTable
    PROVE  old = NoTable /\ DOMAIN old.node = {} /\ Cardinality(DOMAIN old.node) = 0
           /\ Range(old.node) = {}
  <1>1. old = NoTable
    BY DEF HashMapInv, OldInv
  <1>2. old.node = Empty /\ DOMAIN Empty = {}
    BY <1>1 DEF NoTable, Empty
  <1>3. QED
    BY <1>1, <1>2, FS_EmptySet DEF Range

\* The insertion in progress.
LEMMA CallIs ==
    ASSUME HashMapInv, call # NoCall
    PROVE  /\ call = [op |-> "emplace", key |-> call.key, node |-> call.node,
                      attempts |-> call.attempts]
           /\ call.key \in Key /\ call.attempts \in 0 .. MaxAttempts
           /\ call.node \in DOMAIN nodes /\ nodes[call.node] = call.key
           /\ call.node \notin Range(table.node) /\ call.node \notin Range(old.node)
    BY DEF HashMapInv, CallInv

\* Who has which cells.
LEMMA CellsAre ==
    ASSUME HashMapInv
    PROVE  /\ IsInjective(table.node) /\ IsInjective(old.node) /\ IsInjective(pool.free)
           /\ Range(table.node) \intersect Range(old.node) = {}
           /\ InPlay \intersect Range(pool.free) = {}
           /\ ~thrown => InPlay = DOMAIN nodes
           /\ PoolInv(pool) /\ pool.cells \in Nat
           /\ nodes \in [DOMAIN nodes -> Key]
           /\ DOMAIN nodes \subseteq 0 .. pool.cells - 1
           /\ thrown \in BOOLEAN
           /\ Range(table.node) \subseteq InPlay /\ Range(old.node) \subseteq InPlay
           /\ call # NoCall => call.node \in InPlay
  <1>1. pool.cells \in Nat
    BY DEF HashMapInv, CellsInv, PoolInv, Pool
  <1>2. CellsDisjoint /\ CellsInv
    BY DEF HashMapInv, CellsInv
  <1>3. PoolInv(pool) /\ nodes \in [DOMAIN nodes -> Key]
        /\ DOMAIN nodes \subseteq 0 .. pool.cells - 1 /\ thrown \in BOOLEAN
    BY <1>2 DEF CellsInv
  <1>4. /\ Range(table.node) \subseteq InPlay /\ Range(old.node) \subseteq InPlay
        /\ call # NoCall => call.node \in InPlay
    BY DEF InPlay
  <1>5. QED
    BY <1>1, <1>2, <1>3, <1>4 DEF CellsDisjoint

\* A table whose entries are the same is as good.
LEMMA SameEntries ==
    ASSUME NEW rest, NEW t, NEW ns, NEW ms, TableOK(t, ns, rest),
           \A c \in Range(t.node) : c \in DOMAIN ms /\ ms[c] = ns[c]
    PROVE  TableOK(t, ms, rest)
  <1>1. Truthful(t, ns)
    BY DEF TableOK
  <1>2. \A i \in DOMAIN t.node : t.node[i] \in DOMAIN ms /\ ms[t.node[i]] = ns[t.node[i]]
    BY DEF Range
  <1>3. Truthful(t, ms)
    BY <1>1, <1>2 DEF Truthful
  <1>4. QED
    BY <1>3 DEF TableOK

\* A table has room for fewer nodes than it has room for.
LEMMA FewerNodes ==
    ASSUME NEW t, NEW ns, NEW rest \in Nat, NEW fewer \in Nat, fewer <= rest, TableOK(t, ns, rest)
    PROVE  TableOK(t, ns, fewer)
  <1>1. t.count \in Nat /\ MaxAllowed(t.buckets) \in Nat /\ t.count + rest <= MaxAllowed(t.buckets)
    BY MaxAllowedIs DEF TableOK, Members
  <1>2. t.count + fewer <= MaxAllowed(t.buckets)
    BY <1>1
  <1>3. QED
    BY <1>2 DEF TableOK

\* The nodes of a table are in cells of which it is known what is in them.
LEMMA TableCells ==
    ASSUME HashMapInv
    PROVE  Range(table.node) \subseteq DOMAIN nodes /\ Range(old.node) \subseteq DOMAIN nodes
  <1>1. Range(old.node) \subseteq DOMAIN nodes
    BY DEF HashMapInv, OldInv, Range
  <1>2. CASE table.buckets = 1
    <2>1. DOMAIN table.node = {}
      BY <1>2, TableIs DEF Unallocated, Empty
    <2>2. QED
      BY <1>1, <2>1 DEF Range
  <1>3. CASE table.buckets # 1
    <2>1. Truthful(table, nodes)
      BY <1>3, TableIs DEF TableOK
    <2>2. QED
      BY <1>1, <2>1 DEF Truthful, Range
  <1>4. QED
    BY <1>2, <1>3

-----------------------------------------------------------------------------
(* Every step keeps it: insertions                                         *)

\* When all nodes have moved there are none to move.
LEMMA NoOldTable ==
    ASSUME old' = NoTable
    PROVE  /\ OldInv' /\ IsFiniteSet(DOMAIN old'.node) /\ Cardinality(DOMAIN old'.node) = 0
           /\ Range(old'.node) = {} /\ IsInjective(old'.node)
  <1>1. old'.node = Empty /\ DOMAIN Empty = {} /\ Empty = [i \in DOMAIN Empty |-> Empty[i]]
    BY DEF NoTable, Empty
  <1>2. IsFiniteSet(DOMAIN old'.node) /\ Cardinality(DOMAIN old'.node) = 0
    BY <1>1, FS_EmptySet
  <1>3. Range(old'.node) = {} /\ IsInjective(old'.node)
    BY <1>1 DEF Range, IsInjective
  <1>4. OldInv'
    BY <1>1 DEF OldInv
  <1>5. QED
    BY <1>2, <1>3, <1>4

\* A node that is destroyed becomes a free cell.
LEMMA DestroyNodeOK ==
    ASSUME HashMapInv, NEW n \in DOMAIN nodes, n \in InPlay, DestroyNode(n)
    PROVE  /\ PoolInv(pool') /\ Range(pool'.free) = Range(pool.free) \union {n}
           /\ pool'.cells = pool.cells
           /\ DOMAIN nodes' = DOMAIN nodes \ {n} /\ nodes' \in [DOMAIN nodes' -> Key]
           /\ \A c \in DOMAIN nodes' : nodes'[c] = nodes[c]
  <1>1. n \in 0 .. pool.cells - 1 /\ n \notin Range(pool.free) /\ PoolInv(pool)
    BY CellsAre
  <1>2. pool' = Deallocate(pool, n) /\ nodes' = [c \in DOMAIN nodes \ {n} |-> nodes[c]]
    BY DEF DestroyNode
  <1>3. /\ PoolInv(pool') /\ Range(pool'.free) = Range(pool.free) \union {n}
        /\ pool'.cells = pool.cells
    BY <1>1, <1>2, DeallocateOK
  <1>4. nodes \in [DOMAIN nodes -> Key]
    BY CellsAre
  <1>5. /\ DOMAIN nodes' = DOMAIN nodes \ {n} /\ nodes' \in [DOMAIN nodes' -> Key]
        /\ \A c \in DOMAIN nodes' : nodes'[c] = nodes[c]
    BY <1>2, <1>4
  <1>6. QED
    BY <1>3, <1>5

\* The cell of the new node was in nobody's hands.
LEMMA EmplaceKeeps ==
    ASSUME HashMapInv, NEW k \in Key, Emplace(k)
    PROVE  HashMapInv' /\ Entries' = Entries /\ KeysStay
  <1> DEFINE n == Allocate(pool)
  <1>1. /\ call = NoCall /\ ~thrown
        /\ call' = Emplacing(k, n)
        /\ nodes' = [c \in DOMAIN nodes \union {n} |-> IF c = n THEN k ELSE nodes[c]]
        /\ pool' = Taken(pool)
        /\ table' = table /\ old' = old /\ thrown' = thrown
    BY DEF Emplace, Idle
  <1>2. /\ PoolInv(pool') /\ pool'.cells \in Nat /\ pool.cells \in Nat /\ pool.cells <= pool'.cells
        /\ n \in 0 .. pool'.cells - 1
        /\ n \in Range(pool.free) \/ n >= pool.cells
        /\ n \notin Range(pool'.free)
        /\ \A c \in Range(pool'.free) : c \in Range(pool.free) \/ c >= pool.cells
    BY <1>1, CellsAre, AllocateOK
  <1> HIDE DEF n
  <1>3. /\ InPlay = DOMAIN nodes /\ DOMAIN nodes \subseteq 0 .. pool.cells - 1
        /\ InPlay \intersect Range(pool.free) = {}
        /\ nodes \in [DOMAIN nodes -> Key]
    BY <1>1, CellsAre
  <1>4. n \notin DOMAIN nodes
    BY <1>2, <1>3
  <1>5. /\ DOMAIN nodes' = DOMAIN nodes \union {n} /\ nodes'[n] = k
        /\ nodes' \in [DOMAIN nodes' -> Key]
        /\ \A c \in DOMAIN nodes : nodes'[c] = nodes[c]
    BY <1>1, <1>3, <1>4
  <1>6. old' = NoTable /\ old = NoTable
    BY <1>1, NothingMoves
  <1>7. /\ OldInv' /\ IsFiniteSet(DOMAIN old'.node) /\ Cardinality(DOMAIN old'.node) = 0
        /\ Range(old'.node) = {} /\ IsInjective(old'.node)
    BY <1>6, NoOldTable
  <1>8. TableInv'
    <2>1. table.buckets = 1 => table = Unallocated
      BY TableIs
    <2>2. ASSUME table.buckets # 1
          PROVE  TableOK(table, nodes', 0)
      <3>1. TableOK(table, nodes, 0)
        BY <1>1, <2>2, TableIs, NothingMoves
      <3>2. \A c \in Range(table.node) : c \in DOMAIN nodes' /\ nodes'[c] = nodes[c]
        BY <1>5, TableCells
      <3>3. QED
        BY <3>1, <3>2, SameEntries
    <2>3. QED
      BY <1>1, <1>7, <2>1, <2>2 DEF TableInv
  <1>9. CallInv'
    <2>1. /\ call'.key = k /\ call'.node = n /\ call'.attempts = 0
          /\ call' = [op |-> "emplace", key |-> call'.key, node |-> call'.node,
                      attempts |-> call'.attempts]
      BY <1>1 DEF Emplacing
    <2>2. n \notin Range(table'.node) \union Range(old'.node)
      BY <1>1, <1>4, <1>7, TableCells
    <2>3. 0 \in 0 .. MaxAttempts
      BY TableAssumption
    <2>4. QED
      BY <1>5, <2>1, <2>2, <2>3 DEF CallInv
  <1>10. CellsInv'
    <2>1. call' # NoCall /\ call'.node = n
      BY <1>1 DEF Emplacing, NoCall
    <2>2. InPlay = Range(table.node)
      BY <1>1, <1>6, NothingMoves DEF InPlay
    <2>3. InPlay' = InPlay \union {n}
      <3>1. InPlay' = Range(table'.node) \union Range(old'.node) \union {n}
        BY <2>1 DEF InPlay
      <3>2. QED
        BY <1>1, <1>7, <2>2, <3>1
    <2>4. InPlay' \intersect Range(pool'.free) = {}
      BY <1>2, <1>3, <2>3
    <2>5. InPlay' = DOMAIN nodes'
      BY <1>3, <1>5, <2>3
    <2>6. DOMAIN nodes' \subseteq 0 .. pool'.cells - 1
      BY <1>2, <1>3, <1>5
    <2>7. IsInjective(pool'.free)
      BY <1>2 DEF PoolInv
    <2>8. IsInjective(table'.node) /\ Range(table'.node) \intersect Range(old'.node) = {}
      BY <1>1, <1>7, CellsAre
    <2>9. CellsDisjoint'
      BY <1>7, <2>4, <2>5, <2>7, <2>8 DEF CellsDisjoint
    <2>10. thrown' \in BOOLEAN
      BY <1>1, CellsAre
    <2>11. QED
      BY <1>2, <1>5, <2>6, <2>9, <2>10 DEF CellsInv
  <1>11. Entries' = Entries
    BY <1>1 DEF Entries
  <1>12. KeysStay
    BY <1>5, <1>11, TableCells DEF Entries, KeysStay
  <1>13. QED
    BY <1>7, <1>8, <1>9, <1>10, <1>11, <1>12 DEF HashMapInv

\* The two ways to give up the node of the insertion.
LEMMA CallNodeDestroyed ==
    ASSUME HashMapInv, call # NoCall, old = NoTable, ~thrown, DestroyNode(call.node),
           call' = NoCall, table' = table, old' = old, thrown' \in BOOLEAN
    PROVE  HashMapInv' /\ Entries' = Entries /\ KeysStay
  <1> DEFINE n == call.node
  <1>1. n \in DOMAIN nodes /\ n \notin Range(table.node) /\ n \in InPlay
    BY CallIs, CellsAre
  <1>2. /\ PoolInv(pool') /\ Range(pool'.free) = Range(pool.free) \union {n}
        /\ pool'.cells = pool.cells
        /\ DOMAIN nodes' = DOMAIN nodes \ {n} /\ nodes' \in [DOMAIN nodes' -> Key]
        /\ \A c \in DOMAIN nodes' : nodes'[c] = nodes[c]
    BY <1>1, DestroyNodeOK
  <1>3. /\ OldInv' /\ IsFiniteSet(DOMAIN old'.node) /\ Cardinality(DOMAIN old'.node) = 0
        /\ Range(old'.node) = {} /\ IsInjective(old'.node)
    BY NoOldTable
  <1> HIDE DEF n
  <1>4. TableInv'
    <2>1. table.buckets = 1 => table = Unallocated
      BY TableIs
    <2>2. ASSUME table.buckets # 1
          PROVE  TableOK(table, nodes', 0)
      <3>1. TableOK(table, nodes, 0)
        BY <2>2, TableIs, NothingMoves
      <3>2. \A c \in Range(table.node) : c \in DOMAIN nodes' /\ nodes'[c] = nodes[c]
        BY <1>1, <1>2, TableCells
      <3>3. QED
        BY <3>1, <3>2, SameEntries
    <2>3. QED
      BY <1>3, <2>1, <2>2 DEF TableInv
  <1>5. CallInv'
    BY DEF CallInv
  <1>6. CellsInv'
    <2>1. InPlay = Range(table.node) \union {n}
      BY NothingMoves DEF InPlay, n
    <2>2. InPlay' = Range(table.node)
      BY <1>3 DEF InPlay
    <2>3. InPlay \intersect Range(pool.free) = {} /\ InPlay = DOMAIN nodes /\ IsInjective(table.node)
          /\ DOMAIN nodes \subseteq 0 .. pool.cells - 1
      BY CellsAre
    <2>4. InPlay' \intersect Range(pool'.free) = {}
      BY <1>1, <1>2, <2>1, <2>2, <2>3
    <2>5. InPlay' = DOMAIN nodes'
      BY <1>1, <1>2, <2>1, <2>2, <2>3
    <2>6. DOMAIN nodes' \subseteq 0 .. pool'.cells - 1
      BY <1>2, <2>3
    <2>7. IsInjective(pool'.free)
      BY <1>2 DEF PoolInv
    <2>8. CellsDisjoint'
      BY <1>3, <2>3, <2>4, <2>5, <2>7 DEF CellsDisjoint
    <2>9. QED
      BY <1>2, <2>6, <2>8 DEF CellsInv
  <1>7. Entries' = Entries
    BY DEF Entries
  <1>8. KeysStay
    BY <1>1, <1>2, <1>7, NothingMoves, TableCells DEF Entries, KeysStay
  <1>9. QED
    BY <1>3, <1>4, <1>5, <1>6, <1>7, <1>8 DEF HashMapInv

\* The node that was made for a key that is there is destroyed again.
LEMMA ReturnFoundKeeps ==
    ASSUME HashMapInv, ReturnFound
    PROVE  HashMapInv' /\ Entries' = Entries /\ KeysStay
  <1>1. thrown' \in BOOLEAN
    BY CellsAre DEF ReturnFound
  <1>2. QED
    BY <1>1, CallNodeDestroyed DEF ReturnFound, Inserting

\* The map gives up before it has changed the table.
LEMMA ThrowOverflowKeeps ==
    ASSUME HashMapInv, ThrowOverflow
    PROVE  HashMapInv' /\ Entries' = Entries /\ KeysStay
  BY CallNodeDestroyed DEF ThrowOverflow, Inserting

\* The node goes into the bucket that was found for it.
LEMMA ReturnInsertedKeeps ==
    ASSUME HashMapInv, ReturnInserted
    PROVE  HashMapInv' /\ Entries' = Entries \union {call.node} /\ KeysStay
  <1> DEFINE n == call.node
             k == call.key
             i == InsertionIdx(k, table)
             u == Place(table, k, i, n)
  <1>1. /\ call # NoCall /\ old = NoTable /\ ~thrown /\ table.count < table.allowed
        /\ table' = u /\ call' = NoCall
        /\ old' = old /\ nodes' = nodes /\ pool' = pool /\ thrown' = thrown
    BY DEF ReturnInserted, Inserting
  <1>2. /\ n \in DOMAIN nodes /\ n \notin Range(table.node) /\ n \in InPlay /\ k \in Key
        /\ nodes[n] = k
    BY <1>1, CallIs, CellsAre
  <1>3. /\ OldInv' /\ IsFiniteSet(DOMAIN old'.node) /\ Cardinality(DOMAIN old'.node) = 0
        /\ Range(old'.node) = {} /\ IsInjective(old'.node)
    BY <1>1, NoOldTable
  <1>4. table.buckets # 1
    <2>1. ASSUME table.buckets = 1
          PROVE  FALSE
      <3>1. table.count = 0 /\ table.allowed = 0
        BY <2>1, TableIs DEF Unallocated
      <3>2. QED
        BY <1>1, <3>1
    <2>2. QED
      BY <2>1
  <1>5. TableOK(table, nodes, 0)
    BY <1>1, <1>4, TableIs, NothingMoves
  <1>6. /\ table.count \in Nat /\ MaxAllowed(table.buckets) \in Nat
        /\ table.allowed \in {0, MaxAllowed(table.buckets)}
        /\ Members(table) /\ Truthful(table, nodes) /\ Sorted(table)
    BY <1>5, MaxAllowedIs DEF TableOK, Members
  <1>7. table.allowed # 0 /\ table.count < MaxAllowed(table.buckets)
        /\ table.count + (0 + 1) <= MaxAllowed(table.buckets)
    BY <1>1, <1>6
  <1>8. TableOK(table, nodes, 0 + 1)
    BY <1>5, <1>7 DEF TableOK
  <1>9. Spot(table, k, i)
    BY <1>2, <1>4, <1>6, <1>7, InsertionSpot
  <1>10. IsInjective(table.node)
    BY CellsAre
  <1> HIDE DEF i
  <1>11. /\ TableOK(u, nodes, 0) /\ Range(u.node) = Range(table.node) \union {n}
         /\ IsInjective(u.node) /\ u.buckets = table.buckets
    <2> DEFINE rest == 0
               more == rest + 1
               x == table
    <2>1. more = rest + 1 /\ TableOK(x, nodes, more)
      BY <1>8
    <2>2. u = Place(x, k, i, n)
      OBVIOUS
    <2>3. rest \in Nat
      OBVIOUS
    <2> HIDE DEF more, rest, x, n, k, u
    <2>4. /\ x.allowed # 0 /\ k \in Key /\ Spot(x, k, i) /\ n \in DOMAIN nodes /\ nodes[n] = k
      BY <1>2, <1>7, <1>9 DEF x
    <2>5. TableOK(u, nodes, rest) /\ u.buckets = x.buckets /\ OneMore(x, u, n)
      BY <2>1, <2>2, <2>3, <2>4, PlaceOK
    <2>6. QED
      BY <1>2, <1>10, <2>5 DEF x, rest, OneMore
  <1> HIDE DEF u, n
  <1>12. TableInv'
    BY <1>1, <1>3, <1>4, <1>11 DEF TableInv
  <1>13. CallInv'
    BY <1>1 DEF CallInv
  <1>14. CellsInv'
    <2>1. InPlay = Range(table.node) \union {n}
      BY <1>1, NothingMoves DEF InPlay, n
    <2>2. InPlay' = InPlay
      <3>1. InPlay' = Range(table'.node) \union Range(old'.node)
        BY <1>1 DEF InPlay
      <3>2. QED
        BY <1>1, <1>3, <1>11, <2>1, <3>1
    <2>3. CellsDisjoint'
      BY <1>1, <1>3, <1>11, <2>2, CellsAre DEF CellsDisjoint
    <2>4. QED
      BY <1>1, <2>3, CellsAre DEF CellsInv
  <1>15. Entries' = Entries \union {call.node}
    BY <1>1, <1>3, <1>11, NothingMoves DEF Entries, n
  <1>16. KeysStay
    BY <1>1 DEF KeysStay
  <1>17. QED
    BY <1>3, <1>12, <1>13, <1>14, <1>15, <1>16 DEF HashMapInv

-----------------------------------------------------------------------------
(* Every step keeps it: a map that grows                                   *)

\* When the map is increased no node goes, or comes.
LEMMA FullKeeps ==
    ASSUME HashMapInv, Full, TableInv', OldInv',
           IsInjective(table'.node), IsInjective(old'.node),
           Range(table'.node) \intersect Range(old'.node) = {},
           Range(table'.node) \union Range(old'.node) = Range(table.node) \union Range(old.node)
    PROVE  HashMapInv' /\ Entries' = Entries /\ KeysStay
  <1>1. /\ call # NoCall /\ ~thrown /\ call.attempts < MaxAttempts
        /\ call' = [call EXCEPT !.attempts = @ + 1]
        /\ nodes' = nodes /\ pool' = pool /\ thrown' = thrown
    BY DEF Full, Inserting
  <1>2. /\ call = [op |-> "emplace", key |-> call.key, node |-> call.node,
                   attempts |-> call.attempts]
        /\ call.key \in Key /\ call.attempts \in 0 .. MaxAttempts
        /\ call.node \in DOMAIN nodes /\ nodes[call.node] = call.key
        /\ call.node \notin Range(table.node) /\ call.node \notin Range(old.node)
    BY <1>1, CallIs
  <1>3. /\ call'.key = call.key /\ call'.node = call.node /\ call'.attempts = call.attempts + 1
        /\ call' = [op |-> "emplace", key |-> call'.key, node |-> call'.node,
                    attempts |-> call'.attempts]
    <2> DEFINE k == call.key
               n == call.node
               a == call.attempts
    <2>1. /\ call = [op |-> "emplace", key |-> k, node |-> n, attempts |-> a]
          /\ call' = [call EXCEPT !.attempts = a + 1]
      BY <1>1, <1>2
    <2> HIDE DEF k, n, a
    <2>2. call' = [op |-> "emplace", key |-> k, node |-> n, attempts |-> a + 1]
      BY <2>1
    <2>3. QED
      BY <2>2 DEF k, n, a
  <1>4. call'.attempts \in 0 .. MaxAttempts
    BY <1>1, <1>2, <1>3, TableAssumption
  <1>5. call' # NoCall
    BY <1>3 DEF NoCall
  <1>6. CallInv'
    BY <1>1, <1>2, <1>3, <1>4 DEF CallInv
  <1>7. InPlay' = InPlay
    BY <1>1, <1>3, <1>5 DEF InPlay
  <1>8. CellsDisjoint'
    BY <1>1, <1>7, CellsAre DEF CellsDisjoint
  <1>9. CellsInv'
    BY <1>1, <1>8, CellsAre DEF CellsInv
  <1>10. Entries' = Entries
    BY DEF Entries
  <1>11. KeysStay
    BY <1>1 DEF KeysStay
  <1>12. QED
    BY <1>6, <1>9, <1>10, <1>11 DEF HashMapInv

\* The first table is empty.
LEMMA AllocateTableKeeps ==
    ASSUME HashMapInv, AllocateTable
    PROVE  HashMapInv' /\ Entries' = Entries /\ KeysStay
  <1>1. Full /\ call # NoCall /\ old = NoTable /\ table.buckets = 1 /\ old' = old
        /\ table' = InitData(table, InitialNumElements)
    BY DEF AllocateTable, Full, Inserting
  <1>2. table = Unallocated
    BY <1>1, TableIs
  <1>3. /\ table = [buckets |-> table.buckets, multiplier |-> table.multiplier, count |-> table.count,
                    allowed |-> table.allowed, inc |-> table.inc, info |-> table.info,
                    node |-> table.node]
        /\ table.multiplier = 0 /\ table.node = Empty
    BY <1>2 DEF Unallocated
  <1>4. table.multiplier \in 0 .. NumMultipliers - 1
    BY <1>3, TableAssumption
  <1>5. InitialNumElements \in Nat /\ InitialNumElements > 1
    BY TableAssumption
  <1>6. 0 <= MaxAllowed(InitialNumElements)
    BY <1>5, MaxAllowedIs
  <1>7. /\ TableOK(table', nodes, 0) /\ table'.buckets = InitialNumElements
        /\ table'.node = Empty
    BY <1>1, <1>3, <1>4, <1>5, <1>6, InitDataOK
  <1>8. /\ OldInv' /\ IsFiniteSet(DOMAIN old'.node) /\ Cardinality(DOMAIN old'.node) = 0
        /\ Range(old'.node) = {} /\ IsInjective(old'.node)
    BY <1>1, NoOldTable
  <1>9. nodes' = nodes
    BY <1>1 DEF Full
  <1>10. TableInv'
    BY <1>5, <1>7, <1>8, <1>9 DEF TableInv
  <1>11. DOMAIN Empty = {}
    BY DEF Empty
  <1>12. IsInjective(table'.node) /\ Range(table'.node) = {} /\ Range(table.node) = {}
    BY <1>3, <1>7, <1>11 DEF IsInjective, Range
  <1>13. Range(old.node) = {}
    BY <1>1, NothingMoves
  <1>14. QED
    BY <1>1, <1>8, <1>10, <1>12, <1>13, FullKeeps

\* A smaller step says the same of every node.
LEMMA TryIncreaseInfoKeeps ==
    ASSUME HashMapInv, TryIncreaseInfo
    PROVE  HashMapInv' /\ Entries' = Entries /\ KeysStay
  <1> DEFINE u == IncreaseInfo(table)
  <1>1. Full /\ call # NoCall /\ old = NoTable /\ table.buckets # 1 /\ old' = old
        /\ table' = u /\ table.inc > 2
    BY DEF TryIncreaseInfo, Full, Inserting, CanIncreaseInfo
  <1>2. TableOK(table, nodes, 0)
    BY <1>1, TableIs, NothingMoves
  <1>3. TableOK(u, nodes, 0) /\ u.node = table.node /\ u.buckets = table.buckets
    BY <1>1, <1>2, IncreaseOK
  <1> HIDE DEF u
  <1>4. /\ OldInv' /\ IsFiniteSet(DOMAIN old'.node) /\ Cardinality(DOMAIN old'.node) = 0
        /\ Range(old'.node) = {} /\ IsInjective(old'.node)
    BY <1>1, NoOldTable
  <1>5. nodes' = nodes
    BY <1>1 DEF Full
  <1>6. TableInv'
    BY <1>1, <1>3, <1>4, <1>5 DEF TableInv
  <1>7. IsInjective(table'.node) /\ Range(table'.node) = Range(table.node)
    BY <1>1, <1>3, CellsAre
  <1>8. Range(old.node) = {}
    BY <1>1, NothingMoves
  <1>9. QED
    BY <1>1, <1>4, <1>6, <1>7, <1>8, FullKeeps

\* Every node is on its way into the new table, which has room for all of them.
LEMMA StartRehashKeeps ==
    ASSUME HashMapInv, StartRehash
    PROVE  HashMapInv' /\ Entries' = Entries /\ KeysStay
  <1> DEFINE b == table.buckets
             c == table.count
             d == (table.multiplier + 1) % NumMultipliers
             w == [table EXCEPT !.multiplier = d]
             small == c * 2 < MaxAllowed(b)
  <1>1. /\ Full /\ call # NoCall /\ old = NoTable /\ b # 1 /\ ~thrown
        /\ old' = [buckets |-> b, node |-> table.node]
        /\ table' = IF small THEN InitData(w, b) ELSE InitData(table, 2 * b)
    BY DEF StartRehash, Full, Inserting
  <1>2. TableOK(table, nodes, 0)
    BY <1>1, TableIs, NothingMoves
  <1>3. Members(table) /\ Truthful(table, nodes) /\ c + 0 <= MaxAllowed(b)
    BY <1>2 DEF TableOK
  <1>4. /\ table = [buckets |-> table.buckets, multiplier |-> table.multiplier,
                    count |-> table.count, allowed |-> table.allowed, inc |-> table.inc,
                    info |-> table.info, node |-> table.node]
        /\ table.multiplier \in 0 .. NumMultipliers - 1 /\ c \in Nat /\ b \in Nat \ {0}
        /\ table.node = [i \in DOMAIN table.node |-> table.node[i]]
    BY <1>3 DEF Members
  <1>5. MaxAllowed(b) \in Nat /\ MaxAllowed(2 * b) \in Nat /\ MaxAllowed(b) <= MaxAllowed(2 * b)
    BY <1>4, MaxAllowedIs
  <1>6. d \in 0 .. NumMultipliers - 1
    <2> DEFINE m == table.multiplier + 1
    <2>1. m \in Nat /\ NumMultipliers \in Nat \ {0}
      BY <1>4, TableAssumption
    <2> HIDE DEF m
    <2>2. m % NumMultipliers \in 0 .. NumMultipliers - 1
      BY <2>1
    <2>3. QED
      BY <2>2 DEF m
  <1> HIDE DEF d
  <1>7. /\ w.multiplier = d
        /\ w = [buckets |-> w.buckets, multiplier |-> w.multiplier,
                count |-> w.count, allowed |-> w.allowed, inc |-> w.inc,
                info |-> w.info, node |-> w.node]
    BY <1>4
  <1> HIDE DEF w, b, c
  <1>8. b > 1 /\ 2 * b > 1 /\ 2 * b \in Nat /\ b \in Nat
    BY <1>1, <1>4
  <1>9. c <= MaxAllowed(b) /\ c <= MaxAllowed(2 * b)
    BY <1>3, <1>4, <1>5
  <1>10. nodes' = nodes /\ table'.node = Empty /\ TableOK(table', nodes, c) /\ table'.buckets # 1
    <2>1. nodes' = nodes
      BY <1>1 DEF Full
    <2>2. CASE small
      <3>1. table' = InitData(w, b)
        BY <1>1, <2>2
      <3>2. TableOK(InitData(w, b), nodes, c) /\ InitData(w, b).buckets = b /\ InitData(w, b).node = Empty
        BY <1>4, <1>6, <1>7, <1>8, <1>9, InitDataOK
      <3>3. QED
        BY <1>8, <2>1, <3>1, <3>2
    <2>3. CASE ~small
      <3>1. table' = InitData(table, 2 * b)
        BY <1>1, <2>3
      <3>2. /\ TableOK(InitData(table, 2 * b), nodes, c) /\ InitData(table, 2 * b).buckets = 2 * b
            /\ InitData(table, 2 * b).node = Empty
        BY <1>4, <1>8, <1>9, InitDataOK
      <3>3. QED
        BY <1>8, <2>1, <3>1, <3>2
    <2>4. QED
      BY <2>2, <2>3
  <1>11. old'.node = table.node /\ old'.buckets = b /\ old' = [buckets |-> old'.buckets, node |-> old'.node]
    BY <1>1
  <1>12. /\ IsFiniteSet(DOMAIN table.node) /\ c = Cardinality(DOMAIN table.node)
         /\ \A i \in DOMAIN table.node : table.node[i] \in DOMAIN nodes /\ nodes[table.node[i]] \in Key
    BY <1>3 DEF Truthful, c
  <1>13. TableInv'
    BY <1>10, <1>11, <1>12 DEF TableInv
  <1>14. DOMAIN table.node \subseteq Nat
    <2>1. DOMAIN table.node \subseteq 0 .. Slots(table.buckets) - 1
      BY <1>1, <1>3, TableFacts DEF b
    <2>2. QED
      BY <2>1
  <1>15. call' # NoCall /\ ~thrown'
    <2>1. call' = [call EXCEPT !.attempts = @ + 1] /\ thrown' = thrown
      BY <1>1 DEF Full
    <2>2. call = [op |-> "emplace", key |-> call.key, node |-> call.node,
                  attempts |-> call.attempts]
      BY <1>1, CallIs
    <2>3. call'.op = "emplace"
      BY <2>1, <2>2
    <2>4. NoCall.op = "none"
      BY DEF NoCall
    <2>5. QED
      BY <1>1, <2>1, <2>3, <2>4
  <1>16. old'.buckets \in Nat \ {0, 1}
    BY <1>8, <1>11
  <1>17. OldInv'
    BY <1>4, <1>10, <1>11, <1>12, <1>14, <1>15, <1>16 DEF OldInv
  <1>18. DOMAIN Empty = {}
    BY DEF Empty
  <1>19. Range(table'.node) = {} /\ IsInjective(table'.node)
    BY <1>10, <1>18 DEF Range, IsInjective
  <1>20. Range(old'.node) = Range(table.node) /\ IsInjective(old'.node) /\ Range(old.node) = {}
    BY <1>1, <1>11, NothingMoves, CellsAre
  <1>21. QED
    BY <1>1, <1>13, <1>17, <1>19, <1>20, FullKeeps

-----------------------------------------------------------------------------
(* Every step keeps it: moving nodes                                       *)

\* A node that has moved is one less to move.
LEMMA MoveNodeKeeps ==
    ASSUME HashMapInv, MoveNode
    PROVE  HashMapInv' /\ Entries' = Entries /\ KeysStay
  <1> DEFINE i == Min(DOMAIN old.node)
             n == old.node[i]
             k == nodes[n]
             r == Cardinality(DOMAIN old.node)
             u == IF table.allowed = 0 THEN IncreaseInfo(table) ELSE table
             m == Min({j \in From(Home(k, u), u) : InfoAt(k, u, j) > u.info[j]})
             rest == Cardinality(DOMAIN old.node \ {i})
             N == [j \in DOMAIN old.node \ {i} |-> old.node[j]]
  <1>1. /\ old # NoTable /\ ~thrown /\ old.node # Empty /\ CanMove(table)
        /\ table' = InsertMove(table, n)
        /\ old' = [old EXCEPT !.node = [j \in DOMAIN @ \ {i} |-> @[j]]]
        /\ call' = call /\ nodes' = nodes /\ pool' = pool /\ thrown' = thrown
    BY DEF MoveNode, Rehashing
  <1>2. /\ old.node = [j \in DOMAIN old.node |-> old.node[j]]
        /\ DOMAIN old.node \subseteq Nat
        /\ \A j \in DOMAIN old.node :
             old.node[j] \in DOMAIN nodes /\ nodes[old.node[j]] \in Key
        /\ call # NoCall /\ table.buckets # 1
        /\ old = [buckets |-> old.buckets, node |-> old.node]
        /\ old.buckets \in Nat \ {0, 1}
    BY <1>1 DEF HashMapInv, OldInv
  <1>3. DOMAIN old.node # {}
    <2>1. ASSUME DOMAIN old.node = {}
          PROVE  old.node = Empty
      BY <1>2, <2>1 DEF Empty
    <2>2. QED
      BY <1>1, <2>1
  <1>4. i \in DOMAIN old.node
    BY <1>2, <1>3, MinIs
  <1> HIDE DEF i
  <1>5. n \in DOMAIN nodes /\ k \in Key /\ n \in Range(old.node)
    BY <1>2, <1>4 DEF Range
  <1>6. old' = [buckets |-> old.buckets, node |-> N] /\ old'.node = N /\ old'.buckets = old.buckets
    <2>1. old' = [old EXCEPT !.node = N]
      BY <1>1
    <2> DEFINE o == old.node
               b == old.buckets
    <2>2. old = [buckets |-> b, node |-> o]
      BY <1>2
    <2> HIDE DEF N, o, b
    <2>3. old' = [buckets |-> b, node |-> N]
      BY <2>1, <2>2
    <2>4. QED
      BY <2>3 DEF b
  <1>7. DOMAIN N = DOMAIN old.node \ {i} /\ \A j \in DOMAIN N : N[j] = old.node[j]
    OBVIOUS
  <1>8. IsFiniteSet(DOMAIN N) /\ rest \in Nat /\ r = rest + 1 /\ r \in Nat
    <2>1. IsFiniteSet(DOMAIN old.node) /\ r \in Nat
      BY TableIs
    <2>2. IsFiniteSet(DOMAIN old.node \ {i}) /\ rest = r - 1
      BY <1>4, <2>1, FS_RemoveElement
    <2>3. rest \in Nat
      BY <2>2, FS_CardinalityType
    <2>4. QED
      BY <1>7, <2>1, <2>2, <2>3
  <1> HIDE DEF N, rest
  <1>9. TableOK(table, nodes, rest + 1)
    BY <1>2, <1>8, TableIs
  <1> HIDE DEF r
  <1>10. TableOK(u, nodes, rest + 1) /\ u.node = table.node /\ u.buckets = table.buckets /\ u.allowed # 0
    <2>1. CASE table.allowed = 0
      <3>1. table.inc > 2
        BY <1>1, <2>1 DEF CanMove, CanIncreaseInfo
      <3>2. u = IncreaseInfo(table)
        BY <2>1
      <3>3. /\ TableOK(u, nodes, rest + 1) /\ u.node = table.node /\ u.buckets = table.buckets
            /\ u.count = table.count /\ u.allowed = MaxAllowed(table.buckets)
        BY <1>8, <1>9, <3>1, <3>2, IncreaseOK
      <3>4. /\ table.count \in Nat /\ MaxAllowed(table.buckets) \in Nat
            /\ table.count + (rest + 1) <= MaxAllowed(table.buckets)
        BY <1>9, MaxAllowedIs DEF TableOK, Members
      <3>5. MaxAllowed(table.buckets) # 0
        BY <1>8, <3>4
      <3>6. QED
        BY <3>3, <3>5
    <2>2. CASE table.allowed # 0
      BY <1>9, <2>2
    <2>3. QED
      BY <2>1, <2>2
  <1>11. table' = Place(u, k, m, n)
    BY <1>1 DEF InsertMove
  <1> HIDE DEF u
  <1>12. Spot(u, k, m)
    <2>1. /\ Members(u) /\ Truthful(u, nodes) /\ u.buckets # 1
          /\ u.count \in Nat /\ MaxAllowed(u.buckets) \in Nat
          /\ u.count + (rest + 1) <= MaxAllowed(u.buckets)
      BY <1>10, MaxAllowedIs DEF TableOK, Members
    <2>2. u.count < MaxAllowed(u.buckets)
      BY <1>8, <2>1
    <2>3. QED
      BY <1>5, <2>1, <2>2, MoveSpot
  <1> HIDE DEF m
  <1>13. /\ IsInjective(table.node) /\ IsInjective(old.node)
         /\ Range(table.node) \intersect Range(old.node) = {}
    BY CellsAre
  <1>14. n \notin Range(u.node) /\ IsInjective(u.node)
    BY <1>5, <1>10, <1>13
  <1>15. /\ TableOK(table', nodes, rest) /\ Range(table'.node) = Range(table.node) \union {n}
         /\ IsInjective(table'.node) /\ table'.buckets = table.buckets
    <2>1. nodes[n] = k
      OBVIOUS
    <2> HIDE DEF n, k
    <2>2. /\ TableOK(Place(u, k, m, n), nodes, rest)
          /\ Range(Place(u, k, m, n).node) = Range(u.node) \union {n}
          /\ IsInjective(Place(u, k, m, n).node)
          /\ Place(u, k, m, n).buckets = u.buckets
      <3> DEFINE more == rest + 1
      <3>1. more = rest + 1 /\ TableOK(u, nodes, more)
        BY <1>10
      <3> HIDE DEF more
      <3>2. /\ rest \in Nat /\ u.allowed # 0 /\ k \in Key
            /\ Spot(u, k, m) /\ n \in DOMAIN nodes /\ nodes[n] = k
        BY <1>5, <1>8, <1>10, <1>12, <2>1
      <3> DEFINE v == Place(u, k, m, n)
      <3>3. v = Place(u, k, m, n)
        OBVIOUS
      <3> HIDE DEF v
      <3>4. TableOK(v, nodes, rest) /\ v.buckets = u.buckets /\ OneMore(u, v, n)
        BY <3>1, <3>2, <3>3, PlaceOK
      <3>5. QED
        BY <1>14, <3>4 DEF v, OneMore
    <2>3. QED
      BY <1>10, <1>11, <2>2
  <1>16. Range(N) = Range(old.node) \ {n} /\ IsInjective(N)
    <2>1. IsInjective(N)
      BY <1>7, <1>13 DEF IsInjective
    <2>2. \A j \in DOMAIN N : N[j] \in Range(old.node) \ {n}
      BY <1>4, <1>7, <1>13 DEF Range, IsInjective
    <2>3. \A j \in DOMAIN old.node : old.node[j] # n => old.node[j] \in Range(N)
      BY <1>4, <1>7 DEF Range
    <2>4. QED
      BY <2>1, <2>2, <2>3 DEF Range
  <1> HIDE DEF n, k
  <1>17. TableInv'
    <2>1. Cardinality(DOMAIN old'.node) = rest /\ IsFiniteSet(DOMAIN old'.node)
      BY <1>6, <1>7, <1>8 DEF rest
    <2>2. QED
      BY <1>1, <1>2, <1>15, <2>1 DEF TableInv
  <1>18. OldInv'
    <2>1. N = [j \in DOMAIN N |-> N[j]]
      BY <1>7 DEF N
    <2>2. DOMAIN N \subseteq Nat
      BY <1>2, <1>7
    <2>3. \A j \in DOMAIN N : N[j] \in DOMAIN nodes /\ nodes[N[j]] \in Key
      BY <1>2, <1>7
    <2>4. old' = [buckets |-> old'.buckets, node |-> old'.node]
      BY <1>6
    <2>5. QED
      BY <1>1, <1>2, <1>6, <1>15, <2>1, <2>2, <2>3, <2>4 DEF OldInv
  <1>19. Range(table'.node) \union Range(old'.node) = Range(table.node) \union Range(old.node)
    BY <1>5, <1>6, <1>15, <1>16
  <1>20. CallInv'
    <2>1. CallInv
      BY DEF HashMapInv
    <2>2. QED
      BY <1>1, <1>19, <2>1 DEF CallInv
  <1>21. InPlay' = InPlay
    BY <1>1, <1>19 DEF InPlay
  <1>22. CellsDisjoint'
    <2>1. Range(table'.node) \intersect Range(old'.node) = {}
      BY <1>6, <1>13, <1>15, <1>16
    <2>2. QED
      BY <1>1, <1>6, <1>15, <1>16, <1>21, <2>1, CellsAre DEF CellsDisjoint
  <1>23. CellsInv'
    BY <1>1, <1>22, CellsAre DEF CellsInv
  <1>24. Entries' = Entries
    BY <1>19 DEF Entries
  <1>25. KeysStay
    BY <1>1 DEF KeysStay
  <1>26. QED
    BY <1>17, <1>18, <1>20, <1>23, <1>24, <1>25 DEF HashMapInv

\* Nodes that were not moved are in nobody's table any more, and in no free list.
LEMMA ThrowInRehashKeeps ==
    ASSUME HashMapInv, ThrowInRehash
    PROVE  HashMapInv' /\ Entries' \subseteq Entries /\ KeysStay
  <1>1. /\ old # NoTable /\ old' = NoTable /\ thrown' = TRUE
        /\ table' = table /\ call' = call /\ nodes' = nodes /\ pool' = pool
    BY DEF ThrowInRehash, Rehashing
  <1>2. /\ OldInv' /\ IsFiniteSet(DOMAIN old'.node) /\ Cardinality(DOMAIN old'.node) = 0
        /\ Range(old'.node) = {} /\ IsInjective(old'.node)
    BY <1>1, NoOldTable
  <1>3. TableInv'
    <2>1. table.buckets = 1 => table = Unallocated
      BY TableIs
    <2>2. ASSUME table.buckets # 1
          PROVE  TableOK(table, nodes, 0)
      <3> DEFINE r == Cardinality(DOMAIN old.node)
      <3>1. r \in Nat /\ TableOK(table, nodes, r)
        BY <2>2, TableIs
      <3> HIDE DEF r
      <3>2. 0 <= r
        BY <3>1
      <3>3. QED
        BY <3>1, <3>2, FewerNodes
    <2>3. QED
      BY <1>1, <1>2, <2>1, <2>2 DEF TableInv
  <1>4. CallInv'
    <2>1. CallInv
      BY DEF HashMapInv
    <2>2. QED
      BY <1>1, <1>2, <2>1 DEF CallInv
  <1>5. InPlay' \subseteq InPlay
    BY <1>1, <1>2 DEF InPlay
  <1>6. CellsDisjoint'
    BY <1>1, <1>2, <1>5, CellsAre DEF CellsDisjoint
  <1>7. CellsInv'
    BY <1>1, <1>6, CellsAre DEF CellsInv
  <1>8. Entries' \subseteq Entries
    BY <1>1, <1>2 DEF Entries
  <1>9. KeysStay
    BY <1>1 DEF KeysStay
  <1>10. QED
    BY <1>2, <1>3, <1>4, <1>7, <1>8, <1>9 DEF HashMapInv

\* The memory of the old buckets becomes free cells, none of which was one before.
LEMMA FinishRehashKeeps ==
    ASSUME HashMapInv, FinishRehash
    PROVE  HashMapInv' /\ Entries' = Entries /\ KeysStay
  <1>1. /\ old # NoTable /\ old.node = Empty /\ old' = NoTable
        /\ pool' = IF old.buckets = table.buckets THEN pool ELSE AddOrFree(pool, NumBytes(old.buckets))
        /\ table' = table /\ call' = call /\ nodes' = nodes /\ thrown' = thrown
    BY DEF FinishRehash, Rehashing
  <1>2. /\ OldInv' /\ IsFiniteSet(DOMAIN old'.node) /\ Cardinality(DOMAIN old'.node) = 0
        /\ Range(old'.node) = {} /\ IsInjective(old'.node)
    BY <1>1, NoOldTable
  <1>3. NumBytes(old.buckets) \in Nat
    <2> DEFINE b == old.buckets
               x == Slots(b)
    <2>1. b \in Nat \ {0}
      BY <1>1 DEF HashMapInv, OldInv
    <2> HIDE DEF b
    <2>2. x \in Nat
      BY <2>1, SlotsIs
    <2>3. NumBytes(b) = x * 8 + x + 8
      BY DEF NumBytes
    <2> HIDE DEF x
    <2>4. QED
      BY <2>2, <2>3 DEF b
  <1>4. PoolInv(pool) /\ pool.cells \in Nat
    BY CellsAre
  <1>5. /\ PoolInv(pool') /\ pool'.cells \in Nat /\ pool.cells <= pool'.cells
        /\ \A c \in Range(pool'.free) : c \in Range(pool.free) \/ c >= pool.cells
    <2>1. CASE old.buckets = table.buckets
      <3>1. pool' = pool
        BY <1>1, <2>1
      <3>2. pool.cells <= pool.cells
        BY <1>4
      <3>3. QED
        BY <1>4, <3>1, <3>2
    <2>2. CASE old.buckets # table.buckets
      <3>1. pool' = AddOrFree(pool, NumBytes(old.buckets))
        BY <1>1, <2>2
      <3>2. QED
        BY <1>3, <1>4, <3>1, AddOrFreeOK
    <2>3. QED
      BY <2>1, <2>2
  <1>6. DOMAIN Empty = {}
    BY DEF Empty
  <1>7. Range(old.node) = {} /\ Cardinality(DOMAIN old.node) = 0
    BY <1>1, <1>6, FS_EmptySet DEF Range
  <1>8. TableInv'
    <2>1. table.buckets = 1 => table = Unallocated
      BY TableIs
    <2>2. table.buckets # 1 => TableOK(table, nodes, 0)
      BY <1>7, TableIs
    <2>3. QED
      BY <1>1, <1>2, <2>1, <2>2 DEF TableInv
  <1>9. CallInv'
    <2>1. CallInv
      BY DEF HashMapInv
    <2>2. QED
      BY <1>1, <1>2, <1>7, <2>1 DEF CallInv
  <1>10. InPlay' = InPlay
    BY <1>1, <1>2, <1>7 DEF InPlay
  <1>11. ~thrown
    BY <1>1 DEF HashMapInv, OldInv
  <1>12. InPlay = DOMAIN nodes /\ DOMAIN nodes \subseteq 0 .. pool.cells - 1
         /\ InPlay \intersect Range(pool.free) = {}
    BY <1>11, CellsAre
  <1>13. InPlay' \intersect Range(pool'.free) = {}
    <2> DEFINE z == pool.cells
    <2>1. /\ z \in Nat /\ InPlay \subseteq 0 .. z - 1
          /\ \A c \in Range(pool'.free) : c \in Range(pool.free) \/ c >= z
      BY <1>4, <1>5, <1>12
    <2> HIDE DEF z
    <2>2. QED
      BY <1>10, <1>12, <2>1
  <1>14. DOMAIN nodes' \subseteq 0 .. pool'.cells - 1
    <2> DEFINE z == pool.cells
               y == pool'.cells
    <2>1. z \in Nat /\ y \in Nat /\ z <= y /\ DOMAIN nodes' \subseteq 0 .. z - 1
      BY <1>1, <1>4, <1>5, <1>12
    <2> HIDE DEF z, y
    <2>2. DOMAIN nodes' \subseteq 0 .. y - 1
      BY <2>1
    <2>3. QED
      BY <2>2 DEF y
  <1>15. IsInjective(pool'.free)
    BY <1>5 DEF PoolInv
  <1>16. IsInjective(table'.node) /\ Range(table'.node) \intersect Range(old'.node) = {}
    BY <1>1, <1>2, CellsAre
  <1>17. CellsDisjoint'
    BY <1>1, <1>2, <1>10, <1>12, <1>13, <1>15, <1>16 DEF CellsDisjoint
  <1>18. nodes' \in [DOMAIN nodes' -> Key] /\ thrown' \in BOOLEAN
    BY <1>1, CellsAre
  <1>19. CellsInv'
    BY <1>5, <1>14, <1>17, <1>18 DEF CellsInv
  <1>20. Entries' = Entries
    BY <1>1, <1>2, <1>7 DEF Entries
  <1>21. KeysStay
    BY <1>1 DEF KeysStay
  <1>22. QED
    BY <1>2, <1>8, <1>9, <1>19, <1>20, <1>21 DEF HashMapInv

-----------------------------------------------------------------------------
(* Every step keeps it: erasing                                            *)

\* The node leaves the table before its cell becomes free.
LEMMA EraseKeeps ==
    ASSUME HashMapInv, NEW k \in Key, Erase(k)
    PROVE  HashMapInv' /\ (\E n \in Entries : Entries' = Entries \ {n}) /\ KeysStay
  <1>1. /\ call = NoCall /\ ~thrown /\ old' = old /\ call' = call /\ thrown' = thrown
    BY DEF Erase, Idle
  <1>2. PICK i \in DOMAIN table.node :
          /\ DestroyNode(table.node[i])
          /\ table' = ShiftDown(table, i)
    BY DEF Erase
  <1> DEFINE n == table.node[i]
             u == ShiftDown(table, i)
  <1>3. old = NoTable /\ Range(old.node) = {} /\ Cardinality(DOMAIN old.node) = 0
    BY <1>1, NothingMoves
  <1>4. /\ OldInv' /\ IsFiniteSet(DOMAIN old'.node) /\ Cardinality(DOMAIN old'.node) = 0
        /\ Range(old'.node) = {} /\ IsInjective(old'.node)
    BY <1>1, <1>3, NoOldTable
  <1>5. table.buckets # 1
    <2>1. ASSUME table.buckets = 1
          PROVE  FALSE
      <3>1. DOMAIN table.node = {}
        BY <2>1, TableIs DEF Unallocated, Empty
      <3>2. QED
        BY <1>2, <3>1
    <2>2. QED
      BY <2>1
  <1>6. TableOK(table, nodes, 0)
    BY <1>3, <1>5, TableIs
  <1>7. IsInjective(table.node)
    BY CellsAre
  <1>8. /\ TableOK(u, nodes, 0) /\ Range(u.node) = Range(table.node) \ {n}
        /\ IsInjective(u.node) /\ u.buckets = table.buckets
    BY <1>2, <1>6, <1>7, ShiftDownOK
  <1>9. n \in Range(table.node) /\ n \in DOMAIN nodes /\ n \in InPlay
    <2>1. n \in Range(table.node)
      BY <1>2 DEF Range
    <2>2. QED
      BY <2>1, TableCells, CellsAre
  <1>10. table' = u /\ DestroyNode(n)
    BY <1>2
  <1> HIDE DEF n, u
  <1>11. /\ PoolInv(pool') /\ Range(pool'.free) = Range(pool.free) \union {n}
         /\ pool'.cells = pool.cells
         /\ DOMAIN nodes' = DOMAIN nodes \ {n} /\ nodes' \in [DOMAIN nodes' -> Key]
         /\ \A c \in DOMAIN nodes' : nodes'[c] = nodes[c]
    BY <1>9, <1>10, DestroyNodeOK
  <1>12. TableInv'
    <2>1. \A c \in Range(u.node) : c \in DOMAIN nodes' /\ nodes'[c] = nodes[c]
      BY <1>8, <1>11, TableCells
    <2>2. TableOK(u, nodes', 0)
      BY <1>8, <2>1, SameEntries
    <2>3. QED
      BY <1>4, <1>5, <1>8, <1>10, <2>2 DEF TableInv
  <1>13. CallInv'
    BY <1>1 DEF CallInv
  <1>14. InPlay = Range(table.node)
    BY <1>1, <1>3 DEF InPlay
  <1>15. InPlay' = Range(table.node) \ {n}
    BY <1>1, <1>4, <1>8, <1>10 DEF InPlay
  <1>16. InPlay \intersect Range(pool.free) = {} /\ InPlay = DOMAIN nodes
         /\ DOMAIN nodes \subseteq 0 .. pool.cells - 1 /\ thrown \in BOOLEAN
    BY <1>1, CellsAre
  <1>17. InPlay' \intersect Range(pool'.free) = {}
    BY <1>11, <1>14, <1>15, <1>16
  <1>18. InPlay' = DOMAIN nodes'
    BY <1>11, <1>14, <1>15, <1>16
  <1>19. IsInjective(pool'.free)
    BY <1>11 DEF PoolInv
  <1>20. CellsDisjoint'
    BY <1>4, <1>8, <1>10, <1>17, <1>18, <1>19 DEF CellsDisjoint
  <1>21. CellsInv'
    BY <1>1, <1>11, <1>16, <1>20 DEF CellsInv
  <1>22. n \in Entries /\ Entries' = Entries \ {n}
    BY <1>3, <1>4, <1>8, <1>9, <1>10 DEF Entries
  <1>23. KeysStay
    BY <1>11, <1>22, TableCells DEF Entries, KeysStay
  <1>24. QED
    BY <1>4, <1>12, <1>13, <1>21, <1>22, <1>23 DEF HashMapInv

\* A map that has nothing, new or destroyed.
LEMMA NothingThere ==
    /\ DOMAIN Empty = {} /\ Range(Empty) = {} /\ IsInjective(Empty)
    /\ Empty \in [DOMAIN Empty -> Key]
    /\ PoolInv(EmptyPool) /\ Range(EmptyPool.free) = {}
    /\ Unallocated.buckets = 1 /\ Unallocated.node = Empty
  <1>1. DOMAIN Empty = {} /\ Range(Empty) = {} /\ IsInjective(Empty) /\ Empty \in [DOMAIN Empty -> Key]
    BY DEF Empty, Range, IsInjective
  <1>2. /\ EmptyPool.free = <<>> /\ EmptyPool.blocks = 0 /\ EmptyPool.cells = 0
        /\ EmptyPool = [free |-> EmptyPool.free, blocks |-> EmptyPool.blocks, cells |-> EmptyPool.cells]
    BY DEF EmptyPool
  <1>3. <<>> \in Seq(Nat) /\ DOMAIN <<>> = {}
    <2>1. <<>> \in Seq(Nat) /\ Len(<<>>) = 0
      BY EmptySeq
    <2>2. DOMAIN <<>> = 1 .. Len(<<>>)
      BY <2>1, LenProperties
    <2>3. QED
      BY <2>1, <2>2
  <1>4. EmptyPool \in Pool
    BY <1>3 DEF EmptyPool, Pool
  <1>5. Range(EmptyPool.free) = {} /\ IsInjective(EmptyPool.free)
    BY <1>2, <1>3 DEF Range, IsInjective
  <1>6. PoolInv(EmptyPool)
    BY <1>4, <1>5 DEF PoolInv
  <1>7. QED
    BY <1>1, <1>5, <1>6 DEF Unallocated

\* An empty map has nothing that could be wrong.
LEMMA NothingIsFine ==
    ASSUME table' = Unallocated, old' = NoTable, call' = NoCall, nodes' = Empty, pool' = EmptyPool,
           thrown' \in BOOLEAN
    PROVE  HashMapInv'
  <1>1. /\ OldInv' /\ IsFiniteSet(DOMAIN old'.node) /\ Cardinality(DOMAIN old'.node) = 0
        /\ Range(old'.node) = {} /\ IsInjective(old'.node)
    BY NoOldTable
  <1>2. TableInv'
    BY <1>1, NothingThere DEF TableInv
  <1>3. CallInv'
    BY DEF CallInv
  <1>4. InPlay' = {}
    BY <1>1, NothingThere DEF InPlay
  <1>5. CellsDisjoint'
    BY <1>1, <1>4, NothingThere DEF CellsDisjoint, PoolInv
  <1>6. CellsInv'
    BY <1>5, NothingThere DEF CellsInv
  <1>7. QED
    BY <1>1, <1>2, <1>3, <1>6 DEF HashMapInv

\* The map takes all nodes with it, and all memory.
LEMMA DestroyKeeps ==
    ASSUME HashMapInv, Destroy
    PROVE  HashMapInv' /\ Entries' = {}
  <1>1. /\ old' = NoTable /\ call' = NoCall /\ table' = Unallocated /\ nodes' = Empty
        /\ pool' = EmptyPool
    BY NothingMoves DEF Destroy, Idle
  <1>2. thrown' \in BOOLEAN
    BY CellsAre DEF Destroy
  <1>3. HashMapInv'
    BY <1>1, <1>2, NothingIsFine
  <1>4. Entries' = {}
    BY <1>1, NoOldTable, NothingThere DEF Entries
  <1>5. QED
    BY <1>3, <1>4

-----------------------------------------------------------------------------
(* The theorem, and what follows from it                                   *)

\* A new map has nothing.
LEMMA InitOK == Init => HashMapInv
  <1> SUFFICES ASSUME Init PROVE HashMapInv
    OBVIOUS
  <1>1. /\ table = Unallocated /\ old = NoTable /\ call = NoCall /\ nodes = Empty
        /\ pool = EmptyPool /\ thrown = FALSE
    BY DEF Init
  <1>2. old.node = Empty /\ DOMAIN Empty = {} /\ Empty = [i \in DOMAIN Empty |-> Empty[i]]
    BY <1>1 DEF NoTable, Empty
  <1>3. OldInv
    BY <1>1, <1>2 DEF OldInv
  <1>4. TableInv
    BY <1>1, <1>2, FS_EmptySet, NothingThere DEF TableInv
  <1>5. CallInv
    BY <1>1 DEF CallInv
  <1>6. InPlay = {}
    BY <1>1, <1>2, NothingThere DEF InPlay
  <1>7. CellsDisjoint
    BY <1>1, <1>2, <1>6, NothingThere DEF CellsDisjoint, PoolInv
  <1>8. CellsInv
    BY <1>1, <1>7, NothingThere DEF CellsInv
  <1>9. QED
    BY <1>3, <1>4, <1>5, <1>8 DEF HashMapInv

\* Every step keeps the invariant, one that changes nothing too.
LEMMA NextKeeps == HashMapInv /\ [Next]_vars => HashMapInv'
  <1> SUFFICES ASSUME HashMapInv, [Next]_vars PROVE HashMapInv'
    OBVIOUS
  <1>1. ASSUME NEW k \in Key, Emplace(k) PROVE HashMapInv'
    BY <1>1, EmplaceKeeps
  <1>2. ASSUME NEW k \in Key, Erase(k) PROVE HashMapInv'
    BY <1>2, EraseKeeps
  <1>3. CASE ReturnFound
    BY <1>3, ReturnFoundKeeps
  <1>4. CASE ReturnInserted
    BY <1>4, ReturnInsertedKeeps
  <1>5. CASE ThrowOverflow
    BY <1>5, ThrowOverflowKeeps
  <1>6. CASE AllocateTable
    BY <1>6, AllocateTableKeeps
  <1>7. CASE TryIncreaseInfo
    BY <1>7, TryIncreaseInfoKeeps
  <1>8. CASE StartRehash
    BY <1>8, StartRehashKeeps
  <1>9. CASE MoveNode
    BY <1>9, MoveNodeKeeps
  <1>10. CASE ThrowInRehash
    BY <1>10, ThrowInRehashKeeps
  <1>11. CASE FinishRehash
    BY <1>11, FinishRehashKeeps
  <1>12. CASE Destroy
    BY <1>12, DestroyKeeps
  <1>13. CASE UNCHANGED vars
    BY <1>13 DEF vars, HashMapInv, TableInv, CallInv, OldInv, CellsInv, CellsDisjoint, InPlay
  <1>14. QED
    BY <1>1, <1>2, <1>3, <1>4, <1>5, <1>6, <1>7, <1>8, <1>9, <1>10, <1>11, <1>12, <1>13
    DEF Next

\* In every state of the map, in the midst of an insertion too, its info bytes say
\* where its nodes belong, no cell has two owners, and the table has room for the nodes
\* that are still to be moved.
THEOREM HashMapInvariant == Spec => []HashMapInv
  <1>1. QED
    BY InitOK, NextKeeps, PTL DEF Spec

\* The bytes of a map that has no table.
LEMMA NoTableYet ==
    ASSUME table = Unallocated
    PROVE  /\ table.buckets = 1 /\ table.count = 0 /\ table.allowed = 0
           /\ table.inc = InitialInfoInc /\ DOMAIN table.node = {}
           /\ table.info = [i \in 0 .. 7 |-> 0]
           /\ MaxAllowed(1) = 0 /\ Slots(1) = 1
  <1>1. MaxAllowed(1) = 0 /\ 0 \in Nat /\ InfoByte \in Nat
    BY MaxAllowedIs, TableAssumption
  <1>2. Min({0, InfoByte}) = 0
    BY <1>1, MinIs
  <1>3. Slots(1) = 1
    BY <1>1, <1>2 DEF Slots
  <1>4. QED
    BY <1>1, <1>3 DEF Unallocated, Empty

\* The members of the map stay in their ranges, and every entry is of a key
\* (class Table and BulkPoolAllocator).
THEOREM TypeCorrect == Spec => []TypeOK
  <1>1. HashMapInv => TypeOK
    <2> SUFFICES ASSUME HashMapInv PROVE TypeOK
      OBVIOUS
    <2>1. pool \in Pool /\ DOMAIN nodes \subseteq 0 .. pool.cells - 1 /\ Range(nodes) \subseteq Key
          /\ thrown \in BOOLEAN
      <3>1. pool \in Pool
        BY CellsAre DEF PoolInv
      <3>2. QED
        BY <3>1, CellsAre DEF Range
    <2>2. CASE table.buckets = 1
      <3>1. table = Unallocated
        BY <2>2, TableIs
      <3>2. InfoByte \in Nat /\ InitialInfoInc \in 2 .. InitialInfoInc
        BY TableAssumption
      <3>3. /\ DOMAIN table.info = 0 .. 7 /\ \A i \in DOMAIN table.info : table.info[i] \in 0 .. InfoByte
            /\ table.count \in Nat /\ table.inc \in 2 .. InitialInfoInc /\ table.allowed = 0
        BY <3>1, <3>2, NoTableYet
      <3>4. QED
        BY <2>1, <2>2, <3>3 DEF TypeOK
    <2>3. CASE table.buckets # 1
      <3>1. Members(table)
        BY <2>3, TableIs DEF TableOK
      <3>2. table.inc \in 2 .. InitialInfoInc
        BY <3>1, TableAssumption DEF Members, Steps
      <3>3. table.info \in [0 .. Slots(table.buckets) + 7 -> 0 .. InfoByte]
        BY <2>3, <3>1 DEF Members, LastByte
      <3>4. QED
        BY <2>1, <2>3, <3>1, <3>2, <3>3 DEF TypeOK, Members
    <2>4. QED
      BY <2>2, <2>3
  <1>2. QED
    BY <1>1, HashMapInvariant, PTL

\* An info byte is 0 just in case its bucket is empty, and otherwise says how far the
\* node is from home and which hash bits its key has (shiftUp, shiftDown,
\* try_increase_info and rehashPowerOfTwo never let one of them wrap around).
THEOREM InfoBytesTruthful == Spec => []InfoBytesTrue
  <1>1. HashMapInv => InfoBytesTrue
    <2> SUFFICES ASSUME HashMapInv PROVE InfoBytesTrue
      OBVIOUS
    <2>1. CASE table.buckets = 1
      <3>1. table = Unallocated
        BY <2>1, TableIs
      <3>2. DOMAIN table.node = {i \in DOMAIN table.info : table.info[i] # 0} \ {Slots(table.buckets)}
        BY <3>1, NoTableYet
      <3>3. table.count = Cardinality(DOMAIN table.node)
        BY <3>1, NoTableYet, FS_EmptySet
      <3>4. QED
        BY <2>1, <3>1, <3>2, <3>3, NoTableYet DEF InfoBytesTrue
    <2>2. CASE table.buckets # 1
      <3>1. Truthful(table, nodes)
        BY <2>2, TableIs DEF TableOK
      <3>2. QED
        BY <3>1 DEF Truthful, InfoBytesTrue
    <2>3. QED
      BY <2>1, <2>2
  <1>2. QED
    BY <1>1, HashMapInvariant, PTL

\* No cell of the pool is given out twice, none is lost, and none is both free and in
\* use (BulkPoolAllocator, while nodes move between two tables too).
THEOREM CellsAreDisjoint == Spec => []CellsDisjoint
  <1>1. HashMapInv => CellsDisjoint
    BY DEF HashMapInv, CellsInv
  <1>2. QED
    BY <1>1, HashMapInvariant, PTL

\* find looks at the bucket of every entry (findIdx stops at a byte that is too small,
\* which no bucket between a node and its home has).
THEOREM EntriesAreFound == Spec => []EntriesFound
  <1>1. HashMapInv => EntriesFound
    <2> SUFFICES ASSUME HashMapInv PROVE EntriesFound
      OBVIOUS
    <2>1. CASE table.buckets = 1
      <3>1. DOMAIN table.node = {}
        BY <2>1, TableIs, NoTableYet
      <3>2. QED
        BY <3>1 DEF EntriesFound
    <2>2. CASE table.buckets # 1
      <3>1. Members(table) /\ Truthful(table, nodes) /\ Sorted(table)
        BY <2>2, TableIs DEF TableOK
      <3>2. QED
        BY <2>2, <3>1, NodeIsFound DEF EntriesFound
    <2>3. QED
      BY <2>1, <2>2
  <1>2. QED
    BY <1>1, HashMapInvariant, PTL

-----------------------------------------------------------------------------
(* The refinement of AddressMap                                            *)

\* The addresses of the entries in cells E, if ns says which key is in which cell.
AddressesOf(E, ns) == [k \in {ns[n] : n \in E} |-> CHOOSE n \in E : ns[n] = k]

\* No two entries have the same key.
OneKeyEach(E, ns) == \A a, b \in E : ns[a] = ns[b] => a = b

\* f says where each of them is.
Locates(f, E, ns) ==
    /\ \A n \in E : ns[n] \in DOMAIN f /\ f[ns[n]] = n
    /\ \A k \in DOMAIN f : \E n \in E : ns[n] = k
    /\ f = [k \in DOMAIN f |-> f[k]]

\* An entry is at its address.
LEMMA AddressIs ==
    ASSUME NEW E, NEW ns, OneKeyEach(E, ns)
    PROVE  Locates(AddressesOf(E, ns), E, ns)
  <1>1. ASSUME NEW n \in E
        PROVE  ns[n] \in DOMAIN AddressesOf(E, ns) /\ AddressesOf(E, ns)[ns[n]] = n
    <2> DEFINE m == CHOOSE m \in E : ns[m] = ns[n]
    <2>1. m \in E /\ ns[m] = ns[n]
      OBVIOUS
    <2>2. ns[n] \in DOMAIN AddressesOf(E, ns) /\ AddressesOf(E, ns)[ns[n]] = m
      BY DEF AddressesOf
    <2> HIDE DEF m
    <2>3. m = n
      BY <2>1 DEF OneKeyEach
    <2>4. QED
      BY <2>2, <2>3
  <1>2. \A k \in DOMAIN AddressesOf(E, ns) : \E n \in E : ns[n] = k
    BY DEF AddressesOf
  <1>3. AddressesOf(E, ns) = [k \in DOMAIN AddressesOf(E, ns) |-> AddressesOf(E, ns)[k]]
    BY DEF AddressesOf
  <1>4. QED
    BY <1>1, <1>2, <1>3 DEF Locates

\* Entries that stay keep their addresses.
LEMMA AddressesStay ==
    ASSUME NEW E, NEW ns, OneKeyEach(E, ns), NEW F, NEW ms, F \subseteq E,
           \A c \in F : ms[c] = ns[c]
    PROVE  /\ OneKeyEach(F, ms)
           /\ DOMAIN AddressesOf(F, ms) \subseteq DOMAIN AddressesOf(E, ns)
           /\ AddressesOf(F, ms) = [k \in DOMAIN AddressesOf(F, ms) |-> AddressesOf(E, ns)[k]]
  <1> DEFINE f == AddressesOf(E, ns)
             g == AddressesOf(F, ms)
  <1>1. OneKeyEach(F, ms)
    BY DEF OneKeyEach
  <1>2. Locates(f, E, ns) /\ Locates(g, F, ms)
    BY <1>1, AddressIs
  <1> HIDE DEF f, g
  <1>3. /\ \A n \in E : ns[n] \in DOMAIN f /\ f[ns[n]] = n
        /\ \A n \in F : ms[n] \in DOMAIN g /\ g[ms[n]] = n
        /\ \A k \in DOMAIN g : \E n \in F : ms[n] = k
        /\ g = [k \in DOMAIN g |-> g[k]]
    BY <1>2 DEF Locates
  <1>4. ASSUME NEW k \in DOMAIN g
        PROVE  k \in DOMAIN f /\ g[k] = f[k]
    <2>1. PICK n \in F : ms[n] = k
      BY <1>3
    <2>2. ns[n] = k /\ n \in E
      BY <2>1
    <2>3. QED
      BY <1>3, <2>1, <2>2
  <1>5. g = [k \in DOMAIN g |-> f[k]]
    BY <1>3, <1>4
  <1>6. QED
    BY <1>1, <1>4, <1>5 DEF f, g

\* In a step in which no entry comes or goes all stay where they are.
LEMMA StayStep ==
    ASSUME OneKeyEach(Entries, nodes), Entries' = Entries, KeysStay
    PROVE  OneKeyEach(Entries', nodes') /\ Addresses' = Addresses
  <1> DEFINE f == AddressesOf(Entries, nodes)
             g == AddressesOf(Entries', nodes')
  <1>1. \A c \in Entries' : nodes'[c] = nodes[c]
    BY DEF KeysStay
  <1>2. OneKeyEach(Entries', nodes') /\ DOMAIN g \subseteq DOMAIN f /\ g = [k \in DOMAIN g |-> f[k]]
    BY <1>1, AddressesStay
  <1>3. Locates(f, Entries, nodes) /\ Locates(g, Entries', nodes')
    BY <1>2, AddressIs
  <1>4. Addresses = f /\ Addresses' = g
    BY DEF Addresses, AddressesOf, Entries
  <1> HIDE DEF f, g
  <1>5. DOMAIN f \subseteq DOMAIN g /\ f = [k \in DOMAIN f |-> f[k]]
    BY <1>1, <1>3 DEF Locates
  <1>6. f = g
    <2>1. DOMAIN f = DOMAIN g
      BY <1>2, <1>5
    <2>2. QED
      BY <1>2, <1>5, <2>1
  <1>7. QED
    BY <1>2, <1>4, <1>6

\* When entries are lost the others stay where they are.
LEMMA DropStep ==
    ASSUME OneKeyEach(Entries, nodes), Entries' \subseteq Entries, KeysStay
    PROVE  /\ OneKeyEach(Entries', nodes')
           /\ Abstract!Dropped(Addresses, Addresses')
  <1>1. \A c \in Entries' : nodes'[c] = nodes[c]
    BY DEF KeysStay
  <1> DEFINE f == AddressesOf(Entries, nodes)
             g == AddressesOf(Entries', nodes')
  <1>2. OneKeyEach(Entries', nodes') /\ DOMAIN g \subseteq DOMAIN f /\ g = [k \in DOMAIN g |-> f[k]]
    BY <1>1, AddressesStay
  <1>3. Addresses = f /\ Addresses' = g
    BY DEF Addresses, AddressesOf, Entries
  <1> HIDE DEF f, g
  <1>4. QED
    BY <1>2, <1>3 DEF Abstract!Dropped, Abstract!Restricted

\* The entry that is erased is the only one to go.
LEMMA EraseStep ==
    ASSUME OneKeyEach(Entries, nodes), NEW n \in Entries, Entries' = Entries \ {n}, KeysStay
    PROVE  /\ OneKeyEach(Entries', nodes')
           /\ Abstract!Erased(Addresses, Addresses')
  <1>1. \A c \in Entries' : nodes'[c] = nodes[c]
    BY DEF KeysStay
  <1> DEFINE f == AddressesOf(Entries, nodes)
             g == AddressesOf(Entries', nodes')
             k == nodes[n]
  <1>2. OneKeyEach(Entries', nodes') /\ DOMAIN g \subseteq DOMAIN f /\ g = [j \in DOMAIN g |-> f[j]]
    BY <1>1, AddressesStay
  <1>3. Locates(f, Entries, nodes) /\ Locates(g, Entries', nodes')
    BY <1>2, AddressIs
  <1>4. Addresses = f /\ Addresses' = g
    BY DEF Addresses, AddressesOf, Entries
  <1> HIDE DEF f, g
  <1>5. /\ k \in DOMAIN f
        /\ \A j \in DOMAIN f : \E m \in Entries : nodes[m] = j
        /\ \A m \in Entries' : nodes'[m] \in DOMAIN g
        /\ \A j \in DOMAIN g : \E m \in Entries' : nodes'[m] = j
    BY <1>3 DEF Locates
  <1>6. ASSUME NEW j \in DOMAIN f, j # k
        PROVE  j \in DOMAIN g
    <2>1. PICK m \in Entries : nodes[m] = j
      BY <1>5
    <2>2. m \in Entries' /\ nodes'[m] = j
      BY <1>1, <1>6, <2>1
    <2>3. QED
      BY <1>5, <2>2
  <1>7. k \notin DOMAIN g
    <2>1. ASSUME k \in DOMAIN g
          PROVE  FALSE
      <3>1. PICK m \in Entries' : nodes'[m] = k
        BY <1>5, <2>1
      <3>2. m \in Entries /\ m # n /\ nodes[m] = nodes[n]
        BY <1>1, <3>1
      <3>3. QED
        BY <3>2 DEF OneKeyEach
    <2>2. QED
      BY <2>1
  <1> HIDE DEF k
  <1>8. DOMAIN g = DOMAIN f \ {k}
    BY <1>2, <1>5, <1>6, <1>7
  <1>9. g = [j \in DOMAIN f \ {k} |-> f[j]]
    BY <1>2, <1>8
  <1>10. QED
    BY <1>2, <1>4, <1>5, <1>9 DEF Abstract!Erased, Abstract!Restricted

\* The entry that is inserted is the only one to come, and no other has its address.
LEMMA InsertStep ==
    ASSUME OneKeyEach(Entries, nodes), NEW n, n \notin Entries, Entries' = Entries \union {n},
           KeysStay, \A c \in Entries : nodes[c] # nodes[n]
    PROVE  /\ OneKeyEach(Entries', nodes')
           /\ Abstract!Inserted(Addresses, Addresses')
  <1>1. \A c \in Entries' : nodes'[c] = nodes[c]
    BY DEF KeysStay
  <1>2. OneKeyEach(Entries', nodes')
    BY <1>1 DEF OneKeyEach
  <1> DEFINE f == AddressesOf(Entries, nodes)
             g == AddressesOf(Entries', nodes')
             k == nodes[n]
  <1>3. Locates(f, Entries, nodes) /\ Locates(g, Entries', nodes')
    BY <1>2, AddressIs
  <1>4. Addresses = f /\ Addresses' = g
    BY DEF Addresses, AddressesOf, Entries
  <1> HIDE DEF f, g
  <1>5. /\ \A m \in Entries' : nodes'[m] \in DOMAIN g /\ g[nodes'[m]] = m
        /\ \A j \in DOMAIN g : \E m \in Entries' : nodes'[m] = j
    BY <1>3 DEF Locates
  <1>6. /\ \A m \in Entries : nodes[m] \in DOMAIN f /\ f[nodes[m]] = m
        /\ \A j \in DOMAIN f : \E m \in Entries : nodes[m] = j
        /\ f = [j \in DOMAIN f |-> f[j]]
    BY <1>3 DEF Locates
  <1>7. k \in DOMAIN g /\ g[k] = n /\ k \notin DOMAIN f
    BY <1>1, <1>5, <1>6
  <1>8. ASSUME NEW j \in DOMAIN f
        PROVE  j \in DOMAIN g /\ g[j] = f[j] /\ f[j] # n
    <2>1. PICK m \in Entries : nodes[m] = j
      BY <1>6
    <2>2. m \in Entries' /\ nodes'[m] = j
      BY <1>1, <2>1
    <2>3. QED
      BY <1>5, <1>6, <2>1, <2>2
  <1>9. ASSUME NEW j \in DOMAIN g, j # k
        PROVE  j \in DOMAIN f
    <2>1. PICK m \in Entries' : nodes'[m] = j
      BY <1>5
    <2>2. m # n /\ m \in Entries /\ nodes[m] = j
      BY <1>1, <1>9, <2>1
    <2>3. QED
      BY <1>6, <2>2
  <1> HIDE DEF k
  <1>10. DOMAIN f = DOMAIN g \ {k}
    BY <1>7, <1>8, <1>9
  <1>11. f = [j \in DOMAIN g \ {k} |-> g[j]]
    BY <1>6, <1>8, <1>10
  <1>12. k \in DOMAIN g \ DOMAIN f /\ \A j \in DOMAIN f : f[j] # g[k]
    BY <1>7, <1>8
  <1>13. QED
    BY <1>2, <1>4, <1>11, <1>12 DEF Abstract!Inserted, Abstract!Restricted

\* A key that insertKeyPrepareEmptySpot does not see is not there.
LEMMA KeyIsNew ==
    ASSUME HashMapInv, call # NoCall, old = NoTable, table.buckets # 1,
           ~KeyFound(call.key, table)
    PROVE  call.node \notin Entries /\ \A c \in Entries : nodes[c] # nodes[call.node]
  <1>1. Range(old.node) = {} /\ Entries = Range(table.node)
    BY NothingMoves DEF Entries
  <1>2. call.node \notin Range(table.node) /\ nodes[call.node] = call.key
    BY CallIs
  <1>3. Members(table) /\ Truthful(table, nodes) /\ Sorted(table)
    BY TableIs DEF TableOK
  <1>4. \A i \in DOMAIN table.node : KeyFound(nodes[table.node[i]], table)
    BY <1>3, KeyIsFound
  <1>5. \A c \in Range(table.node) : KeyFound(nodes[c], table)
    BY <1>4 DEF Range
  <1>6. QED
    BY <1>1, <1>2, <1>5

\* A new map, and one that was destroyed, has no address to give.
LEMMA NoAddresses == AddressesOf({}, Empty) = [k \in {} |-> k]
  BY DEF AddressesOf

\* What every step of the map is to the order book.
LEMMA NextRefines ==
    ASSUME HashMapInv, OneKeyEach(Entries, nodes), [Next]_vars
    PROVE  OneKeyEach(Entries', nodes') /\ [Abstract!Next]_(Abstract!vars)
  <1> DEFINE Done == OneKeyEach(Entries', nodes') /\ [Abstract!Next]_(Abstract!vars)
  <1> SUFFICES Done
    OBVIOUS
  <1>1. ASSUME Entries' = Entries, KeysStay, thrown' = thrown
        PROVE  Done
    BY <1>1, StayStep DEF Abstract!vars
  <1>2. ASSUME Entries' \subseteq Entries, KeysStay, ~thrown, thrown' = TRUE
        PROVE  Done
    <2>1. OneKeyEach(Entries', nodes') /\ Abstract!Dropped(Addresses, Addresses')
      BY <1>2, DropStep
    <2>2. QED
      BY <1>2, <2>1 DEF Abstract!Next, Abstract!Overflow
  <1> HIDE DEF Done
  <1>3. ASSUME NEW k \in Key, Emplace(k) PROVE Done
    <2>1. thrown' = thrown
      BY <1>3 DEF Emplace
    <2>2. QED
      BY <1>1, <1>3, <2>1, EmplaceKeeps
  <1>4. ASSUME NEW k \in Key, Erase(k) PROVE Done
    <2>1. ~thrown /\ thrown' = thrown
      BY <1>4 DEF Erase, Idle
    <2>2. PICK n \in Entries : Entries' = Entries \ {n} /\ KeysStay
      BY <1>4, EraseKeeps
    <2>3. OneKeyEach(Entries', nodes') /\ Abstract!Erased(Addresses, Addresses')
      BY <2>2, EraseStep
    <2>4. QED
      BY <2>1, <2>3 DEF Done, Abstract!Next, Abstract!Erase
  <1>5. CASE ReturnFound
    <2>1. thrown' = thrown
      BY <1>5 DEF ReturnFound
    <2>2. QED
      BY <1>1, <1>5, <2>1, ReturnFoundKeeps
  <1>6. CASE ReturnInserted
    <2>1. /\ ~thrown /\ thrown' = thrown /\ call # NoCall /\ old = NoTable
          /\ ~KeyFound(call.key, table) /\ table.count < table.allowed
      BY <1>6 DEF ReturnInserted, Inserting
    <2>2. table.buckets # 1
      <3>1. ASSUME table.buckets = 1 PROVE FALSE
        <4>1. table.count = 0 /\ table.allowed = 0
          BY <3>1, TableIs, NoTableYet
        <4>2. QED
          BY <2>1, <4>1
      <3>2. QED
        BY <3>1
    <2>3. call.node \notin Entries /\ \A c \in Entries : nodes[c] # nodes[call.node]
      BY <2>1, <2>2, KeyIsNew
    <2>4. Entries' = Entries \union {call.node} /\ KeysStay
      BY <1>6, ReturnInsertedKeeps
    <2>5. OneKeyEach(Entries', nodes') /\ Abstract!Inserted(Addresses, Addresses')
      BY <2>3, <2>4, InsertStep
    <2>6. QED
      BY <2>1, <2>5 DEF Done, Abstract!Next, Abstract!Insert
  <1>7. CASE ThrowOverflow
    <2>1. ~thrown /\ thrown' = TRUE
      BY <1>7 DEF ThrowOverflow, Inserting
    <2>2. Entries' \subseteq Entries /\ KeysStay
      BY <1>7, ThrowOverflowKeeps
    <2>3. QED
      BY <1>2, <2>1, <2>2
  <1>8. CASE AllocateTable
    <2>1. thrown' = thrown
      BY <1>8 DEF AllocateTable, Full
    <2>2. QED
      BY <1>1, <1>8, <2>1, AllocateTableKeeps
  <1>9. CASE TryIncreaseInfo
    <2>1. thrown' = thrown
      BY <1>9 DEF TryIncreaseInfo, Full
    <2>2. QED
      BY <1>1, <1>9, <2>1, TryIncreaseInfoKeeps
  <1>10. CASE StartRehash
    <2>1. thrown' = thrown
      BY <1>10 DEF StartRehash, Full
    <2>2. QED
      BY <1>1, <1>10, <2>1, StartRehashKeeps
  <1>11. CASE MoveNode
    <2>1. thrown' = thrown
      BY <1>11 DEF MoveNode
    <2>2. QED
      BY <1>1, <1>11, <2>1, MoveNodeKeeps
  <1>12. CASE ThrowInRehash
    <2>1. ~thrown /\ thrown' = TRUE
      BY <1>12 DEF ThrowInRehash, Rehashing
    <2>2. QED
      BY <1>2, <1>12, <2>1, ThrowInRehashKeeps
  <1>13. CASE FinishRehash
    <2>1. thrown' = thrown
      BY <1>13 DEF FinishRehash
    <2>2. QED
      BY <1>1, <1>13, <2>1, FinishRehashKeeps
  <1>14. CASE Destroy
    <2>1. ~thrown /\ thrown' = thrown /\ nodes' = Empty
      BY <1>14 DEF Destroy, Idle
    <2>2. Entries' = {}
      BY <1>14, DestroyKeeps
    <2>3. Addresses' = AddressesOf(Entries', nodes')
      BY DEF Addresses, AddressesOf, Entries
    <2>4. Addresses' = [k \in {} |-> k]
      BY <2>1, <2>2, <2>3, NoAddresses
    <2>5. OneKeyEach(Entries', nodes')
      BY <2>2 DEF OneKeyEach
    <2>6. QED
      BY <2>1, <2>4, <2>5 DEF Done, Abstract!Next, Abstract!Destroy
  <1>15. CASE UNCHANGED vars
    BY <1>1, <1>15 DEF vars, Entries, KeysStay
  <1>16. QED
    BY <1>3, <1>4, <1>5, <1>6, <1>7, <1>8, <1>9, <1>10, <1>11, <1>12, <1>13, <1>14, <1>15
    DEF Next, Done

\* The index is the map the order book takes it for: an entry that was inserted is there
\* until it is erased, at the address it was given, through every shift, every rehash and
\* every growth, and no two entries have one key or one address.
THEOREM MapKeepsAddresses == Spec => ImplementsAddressMap
  <1> DEFINE Inv == HashMapInv /\ OneKeyEach(Entries, nodes)
  <1>1. Init => OneKeyEach(Entries, nodes) /\ Abstract!Init
    <2> SUFFICES ASSUME Init PROVE OneKeyEach(Entries, nodes) /\ Abstract!Init
      OBVIOUS
    <2>1. table = Unallocated /\ old = NoTable /\ call = NoCall /\ nodes = Empty /\ thrown = FALSE
      BY DEF Init
    <2>2. Range(old.node) = {}
      BY InitOK, NothingMoves, <2>1
    <2>3. Entries = {}
      BY <2>1, <2>2, NothingThere DEF Entries
    <2>4. Addresses = AddressesOf(Entries, nodes)
      BY DEF Addresses, AddressesOf, Entries
    <2>5. Addresses = [k \in {} |-> k]
      BY <2>1, <2>3, <2>4, NoAddresses
    <2>6. QED
      BY <2>1, <2>3, <2>5 DEF OneKeyEach, Abstract!Init
  <1>2. Init => Inv
    BY <1>1, InitOK
  <1>3. Inv /\ [Next]_vars => Inv' /\ [Abstract!Next]_(Abstract!vars)
    <2> SUFFICES ASSUME Inv, [Next]_vars PROVE Inv' /\ [Abstract!Next]_(Abstract!vars)
      OBVIOUS
    <2>1. HashMapInv'
      BY NextKeeps
    <2>2. OneKeyEach(Entries', nodes') /\ [Abstract!Next]_(Abstract!vars)
      BY NextRefines
    <2>3. OneKeyEach(Entries, nodes)'
      BY <2>2 DEF OneKeyEach
    <2>4. QED
      BY <2>1, <2>2, <2>3
  <1> HIDE DEF Inv
  <1>4. QED
    BY <1>1, <1>2, <1>3, PTL DEF Spec, ImplementsAddressMap, Abstract!Spec
=============================================================================
