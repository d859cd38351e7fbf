-------------------------------- MODULE U64 --------------------------------
(***************************************************************************)
(* The unsigned 64-bit integers of the engine: prices, quantities and      *)
(* volumes are uint64_t throughout src/include/matching.  MaxU64 stands    *)
(* for std::numeric_limits<uint64_t>::max(); a small value keeps the       *)
(* boundary cases (the sentinels, the wrap-around) within reach of TLC.    *)
(***************************************************************************)
EXTENDS Integers

CONSTANT MaxU64

ASSUME MaxU64Assumption == MaxU64 \in Nat \ {0}

U64 == 0 .. MaxU64

\* a + b and a - b on uint64_t: both wrap around.
Plus(a, b)  == IF a + b <= MaxU64 THEN a + b ELSE a + b - MaxU64 - 1
Minus(a, b) == IF b <= a THEN a - b ELSE a - b + MaxU64 + 1

\* std::min
Lesser(a, b) == IF a <= b THEN a ELSE b

(***************************************************************************)
(* std::map and robin_hood::unordered_map, as functions whose domain is    *)
(* the set of keys present.                                                *)
(***************************************************************************)
IsMap(f, Key, Value) ==
    /\ f = [x \in DOMAIN f |-> f[x]]
    /\ DOMAIN f \subseteq Key
    /\ \A x \in DOMAIN f : f[x] \in Value

EmptyMap == [x \in {} |-> x]

Put(f, x, v) == [y \in DOMAIN f \union {x} |-> IF y = x THEN v ELSE f[y]]

Drop(f, x) == [y \in DOMAIN f \ {x} |-> f[y]]
============================================================================
