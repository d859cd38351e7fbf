---------------------------- MODULE VolumeProofs ----------------------------
(***************************************************************************)
(* The volume of a level is right at every step of every call, whatever    *)
(* callers do: it is the open quantity of the level's orders, modulo the   *)
(* width of uint64_t.  As long as callers keep to the contract and that    *)
(* quantity fits, no assertion of level.cpp fails.                         *)
(*                                                                         *)
(* The total is MapThenSumSet of the community modules: a sum over a set   *)
(* that grows and shrinks by one order at a time.  That such sums exist    *)
(* and that any element may be split off is shown first, by the smallest   *)
(* counterexample; then that unsigned addition and subtraction keep a      *)
(* remainder; then what each operation of class Level does to a level; and *)
(* BookSteps of OrderBookProofs says which levels a step touches.          *)
(***************************************************************************)
EXTENDS CallProofs

-----------------------------------------------------------------------------
(* Sums                                                                    *)

\* What an order has open in the book "ords", and what those of a set have in all.
Open(ords, id) == ords[id].order.open
Total(ords, ids) == MapThenSumSet(LAMBDA id : ords[id].order.open, ids)

\* The function by which MapThenSumSet is defined, on the sets in D.
IsSum(iter, ords, D) ==
    iter = [s \in D |->
        IF s = {} THEN 0
        ELSE Open(ords, CHOOSE x \in s : TRUE) + iter[s \ {CHOOSE x \in s : TRUE}]]
SumOver(iter, ords, S) == IsSum(iter, ords, SUBSET S)

\* There is a smallest natural number with a property, as a set has it.
LEMMA LeastNat ==
    ASSUME NEW T \in SUBSET Nat, T # {}
    PROVE  \E n \in T : \A k \in T : n <= k
  <1> DEFINE R == OpToRel(<, Nat)
  <1>1. IsWellFoundedOn(R, Nat)
    BY NatLessThanWellFounded, Zenon
  <1>2. \A i, j \in Nat : <<i, j>> \in R <=> i < j
    BY DEF OpToRel
  <1> HIDE DEF R
  <1>3. PICK n \in T : \A k \in T : <<k, n>> \notin R
    BY <1>1, WFMin
  <1>4. \A k \in T : n <= k
    <2>1. ASSUME NEW k \in T
          PROVE  n <= k
      <3>1. k \in Nat /\ n \in Nat /\ ~(k < n)
        BY <1>2, <1>3
      <3>2. QED
        BY <3>1
    <2>2. QED
      BY <2>1
  <1>5. QED
    BY <1>4

\* A property of subsets of a finite set has a smallest subset with it.
LEMMA LeastSet ==
    ASSUME NEW S, IsFiniteSet(S), NEW B \in SUBSET SUBSET S, B # {}
    PROVE  \E T \in B : \A U \in B : U \subseteq T => U = T
  <1>1. B \subseteq FiniteSubsetsOf(S)
    BY FS_Subset DEF FiniteSubsetsOf
  <1>2. PICK T \in B : \A U \in B : <<U, T>> \notin StrictSubsetOrdering(S)
    BY <1>1, FS_StrictSubsetOrderingWellFounded, WFMin
  <1>3. QED
    BY <1>2 DEF StrictSubsetOrdering

\* The sum over the subsets of a finite set is well defined: the sets of at most n
\* elements have one for every n.
LEMMA SumExists ==
    ASSUME NEW S, IsFiniteSet(S), NEW ords
    PROVE  \E iter : SumOver(iter, ords, S)
  <1> DEFINE Small(n) == {s \in SUBSET S : Cardinality(s) <= n}
             T == {n \in Nat : ~\E iter : IsSum(iter, ords, Small(n))}
  <1>1. \A s \in SUBSET S : IsFiniteSet(s) /\ Cardinality(s) \in Nat
    BY FS_Subset, FS_CardinalityType
  <1>2. T = {}
    <2> SUFFICES ASSUME T # {}
                 PROVE  FALSE
      OBVIOUS
    <2>1. PICK n \in T : \A k \in T : n <= k
      BY LeastNat
    <2>2. n # 0
      <3>1. Small(0) = {{}}
        BY <1>1, FS_EmptySet
      <3>2. IsSum([s \in {{}} |-> 0], ords, {{}})
        BY DEF IsSum
      <3>3. QED
        BY <3>1, <3>2
    <2>3. n \in Nat /\ n - 1 \in Nat /\ ~(n <= n - 1)
      BY <2>2
    <2>4. PICK g : IsSum(g, ords, Small(n - 1))
      BY <2>1, <2>3
    <2> DEFINE First(s) == CHOOSE x \in s : TRUE
               h == [s \in Small(n) |->
                        IF s = {} THEN 0 ELSE Open(ords, First(s)) + g[s \ {First(s)}]]
    <2>5. \A s \in Small(n) : s # {} => s \ {First(s)} \in Small(n - 1)
      <3>1. ASSUME NEW s \in Small(n), s # {}
            PROVE  s \ {First(s)} \in Small(n - 1)
        <4>1. First(s) \in s
          BY <3>1
        <4>2. IsFiniteSet(s) /\ s \ {First(s)} \in SUBSET S
          BY <1>1
        <4>3. Cardinality(s \ {First(s)}) = Cardinality(s) - 1
          BY <4>1, <4>2, FS_RemoveElement
        <4>4. Cardinality(s) \in Nat /\ Cardinality(s) <= n
          BY <1>1
        <4>5. QED
          BY <2>3, <4>2, <4>3, <4>4
      <3>2. QED
        BY <3>1
    <2>6. Small(n - 1) \subseteq Small(n)
      BY <1>1, <2>3
    <2> HIDE DEF Small
    <2>7. \A s \in Small(n - 1) : g[s] = h[s]
      BY <2>4, <2>6, Zenon DEF IsSum
    <2>8. \A s \in Small(n) : s # {} => g[s \ {First(s)}] = h[s \ {First(s)}]
      BY <2>5, <2>7
    <2>9. h = [s \in Small(n) |->
                  IF s = {} THEN 0 ELSE Open(ords, First(s)) + h[s \ {First(s)}]]
      <3> HIDE DEF First
      <3>1. \A s \in Small(n) :
              h[s] = IF s = {} THEN 0 ELSE Open(ords, First(s)) + h[s \ {First(s)}]
        BY <2>8
      <3>2. h = [s \in Small(n) |-> h[s]]
        OBVIOUS
      <3> HIDE DEF h
      <3>3. QED
        BY <3>1, <3>2
    <2>10. IsSum(h, ords, Small(n))
      BY <2>9 DEF IsSum
    <2>11. QED
      BY <2>10
  <1>3. Small(Cardinality(S)) = SUBSET S
    BY <1>1, FS_Subset
  <1>4. Cardinality(S) \in Nat
    BY FS_CardinalityType
  <1>5. \E iter : IsSum(iter, ords, Small(Cardinality(S)))
    BY <1>2, <1>4
  <1>6. QED
    BY <1>3, <1>5 DEF SumOver

\* So Total is one.
LEMMA TotalIsSum ==
    ASSUME NEW S, IsFiniteSet(S), NEW ords
    PROVE  \E iter : SumOver(iter, ords, S) /\ Total(ords, S) = iter[S]
  <1>1. Total(ords, S) = (CHOOSE iter : SumOver(iter, ords, S))[S]
    BY DEF Total, MapThenSumSet, MapThenFoldSet, IsSum, SumOver, Open
  <1>2. QED
    BY <1>1, SumExists

\* Any element may be counted first.
Peels(iter, ords, S) ==
    /\ iter[{}] = 0
    /\ \A T \in SUBSET S :
         /\ iter[T] \in Nat
         /\ \A x \in T : iter[T] = Open(ords, x) + iter[T \ {x}]

\* Of a sum any order may be taken out first, not only the one CHOOSE takes.
LEMMA SumPeels ==
    ASSUME NEW S, IsFiniteSet(S), NEW ords, \A x \in S : Open(ords, x) \in Nat,
           NEW iter, SumOver(iter, ords, S)
    PROVE  Peels(iter, ords, S)
  <1> DEFINE Good(T) == /\ iter[T] \in Nat
                        /\ \A x \in T : iter[T] = Open(ords, x) + iter[T \ {x}]
             B == {T \in SUBSET S : ~Good(T)}
             First(s) == CHOOSE x \in s : TRUE
  <1>1. \A s \in SUBSET S :
          iter[s] = IF s = {} THEN 0 ELSE Open(ords, First(s)) + iter[s \ {First(s)}]
    BY DEF IsSum, SumOver
  <1>2. iter[{}] = 0
    BY <1>1
  <1>3. B = {}
    <2> SUFFICES ASSUME B # {}
                 PROVE  FALSE
      OBVIOUS
    <2>0. B \in SUBSET SUBSET S
      OBVIOUS
    <2>1. PICK T \in B : \A U \in B : U \subseteq T => U = T
      <3> HIDE DEF B
      <3>1. QED
        BY <2>0, LeastSet
    <2>2. T \in SUBSET S /\ T # {} /\ ~Good(T)
      <3>1. Good({})
        BY <1>2
      <3> HIDE DEF Good
      <3>2. QED
        BY <2>1, <3>1
    <2>3. \A U \in SUBSET T : U # T => Good(U)
      BY <2>1
    <2> DEFINE c == First(T)
               A == T \ {c}
    <2>4. c \in T /\ iter[T] = Open(ords, c) + iter[A]
      BY <1>1, <2>2
    <2> HIDE DEF c, First
    <2>5. Good(A) /\ Open(ords, c) \in Nat
      BY <2>2, <2>3, <2>4
    <2>6. ASSUME NEW x \in T, x # c
          PROVE  iter[T] = Open(ords, x) + iter[T \ {x}]
      <3>1. x \in A /\ iter[A] = Open(ords, x) + iter[A \ {x}]
        BY <2>5, <2>6
      <3>2. Good(T \ {x}) /\ c \in T \ {x}
        BY <2>3, <2>4, <2>6
      <3>3. iter[T \ {x}] = Open(ords, c) + iter[(T \ {x}) \ {c}]
        BY <3>2
      <3>4. (T \ {x}) \ {c} = A \ {x} /\ A \ {x} # T
        BY <2>4
      <3>5. iter[A \ {x}] \in Nat /\ Open(ords, x) \in Nat
        BY <2>2, <2>3, <3>4
      <3>6. iter[T \ {x}] = Open(ords, c) + iter[A \ {x}]
        BY <3>3, <3>4
      <3>7. iter[A] = Open(ords, x) + iter[A \ {x}]
        BY <3>1
      <3> HIDE DEF A
      <3>8. QED
        BY <2>4, <2>5, <3>5, <3>6, <3>7
    <2>7. iter[T] \in Nat
      BY <2>4, <2>5
    <2>8. QED
      BY <2>1, <2>4, <2>6, <2>7
  <1>4. QED
    BY <1>2, <1>3 DEF Peels

\* A sum does not depend on what is not in it.
LEMMA SumsAgree ==
    ASSUME NEW S, IsFiniteSet(S), NEW R \in SUBSET S, NEW ords, NEW others,
           \A x \in S : Open(ords, x) \in Nat,
           \A x \in R : Open(others, x) = Open(ords, x),
           NEW f, SumOver(f, ords, S), NEW g, SumOver(g, others, R)
    PROVE  f[R] = g[R]
  <1> DEFINE B == {T \in SUBSET R : f[T] # g[T]}
  <1>1. IsFiniteSet(R)
    BY FS_Subset
  <1>2. /\ f[{}] = 0
        /\ \A T \in SUBSET S : \A x \in T : f[T] = Open(ords, x) + f[T \ {x}]
    <2>1. Peels(f, ords, S)
      BY SumPeels
    <2>2. QED
      BY <2>1 DEF Peels
  <1>3. /\ g[{}] = 0
        /\ \A T \in SUBSET R : \A x \in T : g[T] = Open(others, x) + g[T \ {x}]
    <2>1. \A x \in R : Open(others, x) \in Nat
      OBVIOUS
    <2>2. Peels(g, others, R)
      BY <1>1, <2>1, SumPeels
    <2>3. QED
      BY <2>2 DEF Peels
  <1>4. B = {}
    <2> SUFFICES ASSUME B # {}
                 PROVE  FALSE
      OBVIOUS
    <2>0. B \in SUBSET SUBSET R
      OBVIOUS
    <2>1. PICK T \in B : \A U \in B : U \subseteq T => U = T
      <3> HIDE DEF B
      <3>1. QED
        BY <1>1, <2>0, LeastSet
    <2>2. PICK x \in T : TRUE
      BY <1>2, <1>3, <2>1
    <2>3. T \ {x} \in SUBSET R /\ T \ {x} \notin B
      BY <2>1
    <2>4. f[T] = g[T]
      <3>1. f[T] = Open(ords, x) + f[T \ {x}]
        BY <1>2, <2>1, <2>2
      <3>2. g[T] = Open(others, x) + g[T \ {x}]
        BY <1>3, <2>1, <2>2
      <3>3. f[T \ {x}] = g[T \ {x}]
        BY <2>3
      <3>4. Open(others, x) = Open(ords, x)
        BY <2>1, <2>2
      <3>5. QED
        BY <3>1, <3>2, <3>3, <3>4
    <2>5. QED
      BY <2>1, <2>4
  <1>5. QED
    BY <1>4

\* What there is to know of Total.
LEMMA TotalIs ==
    ASSUME NEW S, IsFiniteSet(S), NEW ords, \A x \in S : Open(ords, x) \in Nat
    PROVE  /\ Total(ords, S) \in Nat
           /\ S = {} => Total(ords, S) = 0
           /\ \A x \in S : Total(ords, S) = Open(ords, x) + Total(ords, S \ {x})
  <1>1. PICK f : SumOver(f, ords, S) /\ Total(ords, S) = f[S]
    BY TotalIsSum
  <1>2. ASSUME NEW x \in S
        PROVE  f[S \ {x}] = Total(ords, S \ {x})
    <2>1. IsFiniteSet(S \ {x})
      BY FS_Subset
    <2>2. PICK g : SumOver(g, ords, S \ {x}) /\ Total(ords, S \ {x}) = g[S \ {x}]
      BY <2>1, TotalIsSum
    <2>3. QED
      BY <1>1, <2>2, SumsAgree
  <1>3. Peels(f, ords, S)
    BY <1>1, SumPeels
  <1>4. QED
    BY <1>1, <1>2, <1>3 DEF Peels

\* A sum depends on nothing but what the orders have open.
LEMMA TotalSame ==
    ASSUME NEW S, IsFiniteSet(S), NEW ords, \A x \in S : Open(ords, x) \in Nat,
           NEW others, \A x \in S : Open(others, x) = Open(ords, x)
    PROVE  Total(others, S) = Total(ords, S)
  <1>1. PICK f : SumOver(f, ords, S) /\ Total(ords, S) = f[S]
    BY TotalIsSum
  <1>2. PICK g : SumOver(g, others, S) /\ Total(others, S) = g[S]
    BY TotalIsSum
  <1>3. QED
    BY <1>1, <1>2, SumsAgree

-----------------------------------------------------------------------------
(* Arithmetic that wraps around                                            *)

Width == MaxU64 + 1

\* Division with remainder.
LEMMA DivMod ==
    ASSUME NEW w \in Nat \ {0}, NEW t \in Nat
    PROVE  /\ t % w \in 0 .. w - 1
           /\ t \div w \in Int
           /\ t = (t \div w) * w + (t % w)
    OBVIOUS

\* A multiple of w is 0 or at least w away from it.
LEMMA Multiples ==
    ASSUME NEW w \in Nat \ {0}, NEW d \in Int
    PROVE  d * w \in Int /\ (d >= 1 => d * w >= w) /\ (d <= -1 => d * w <= -w)
    OBVIOUS

\* There is only one remainder.
LEMMA OneRemainder ==
    ASSUME NEW w \in Nat \ {0}, NEW k \in Int, NEW r \in 0 .. w - 1, NEW t \in Nat, t = k * w + r
    PROVE  t % w = r
  <1> DEFINE j == t \div w
             x == t % w
             d == k - j
  <1>1. x \in 0 .. w - 1 /\ j \in Int /\ t = j * w + x
    BY DivMod
  <1>2. d \in Int /\ k = j + d
    BY <1>1
  <1> HIDE DEF j, x, d
  <1>3. k * w = j * w + d * w /\ j * w \in Int
    BY <1>1, <1>2
  <1>4. d * w \in Int /\ (d >= 1 => d * w >= w) /\ (d <= -1 => d * w <= -w)
    BY <1>2, Multiples
  <1>5. d * w = x - r
    BY <1>1, <1>3, <1>4
  <1>6. d = 0
    BY <1>1, <1>2, <1>4, <1>5
  <1>7. QED
    BY <1>1, <1>2, <1>6 DEF x

\* Numbers that differ by a multiple of w have the same remainder.
LEMMA SameRemainder ==
    ASSUME NEW w \in Nat \ {0}, NEW s \in Nat, NEW t \in Nat, t = s + w
    PROVE  t % w = s % w
  <1> DEFINE k == s \div w
             r == s % w
  <1>1. r \in 0 .. w - 1 /\ k \in Int /\ s = k * w + r
    BY DivMod
  <1> HIDE DEF k, r
  <1>2. k + 1 \in Int /\ (k + 1) * w = k * w + w /\ k * w \in Int
    BY <1>1
  <1>3. t = (k + 1) * w + r
    BY <1>1, <1>2
  <1>4. t % w = r
    BY <1>1, <1>2, <1>3, OneRemainder
  <1>5. QED
    BY <1>4 DEF r

\* A uint64_t is its own remainder.
LEMMA SmallRemainder ==
    ASSUME NEW t \in U64
    PROVE  t % Width = t
  <1>1. Width \in Nat \ {0} /\ t \in 0 .. Width - 1 /\ t \in Nat /\ t = 0 * Width + t
    BY MaxU64Assumption DEF U64, Width
  <1>2. QED
    BY <1>1, OneRemainder

\* A remainder is a uint64_t.
LEMMA RemainderTyped ==
    ASSUME NEW t \in Nat
    PROVE  t % Width \in U64
    BY MaxU64Assumption, DivMod DEF Width, U64

\* += keeps a total right, modulo the width.
LEMMA PlusTotal ==
    ASSUME NEW t \in Nat, NEW a \in U64
    PROVE  Plus(t % Width, a) = (t + a) % Width
  <1> DEFINE k == t \div Width
             r == t % Width
  <1>1. Width \in Nat \ {0} /\ MaxU64 = Width - 1
    BY MaxU64Assumption DEF Width
  <1>2. r \in 0 .. Width - 1 /\ k \in Int /\ t = k * Width + r
    BY <1>1, DivMod
  <1>3. a \in 0 .. Width - 1 /\ t + a \in Nat
    BY <1>1 DEF U64
  <1> HIDE DEF k, r
  <1>4. k * Width \in Int /\ k + 1 \in Int /\ (k + 1) * Width = k * Width + Width
    BY <1>1, <1>2
  <1>5. CASE r + a <= MaxU64
    <2> DEFINE x == r + a
    <2>1. t + a = k * Width + x /\ x \in 0 .. Width - 1 /\ Plus(r, a) = x
      BY <1>1, <1>2, <1>3, <1>4, <1>5 DEF Plus
    <2> HIDE DEF x
    <2>2. (t + a) % Width = x
      BY <1>1, <1>2, <1>3, <2>1, OneRemainder
    <2>3. QED
      BY <2>1, <2>2 DEF r
  <1>6. CASE ~(r + a <= MaxU64)
    <2> DEFINE x == r + a - Width
    <2>1. t + a = (k + 1) * Width + x /\ x \in 0 .. Width - 1 /\ Plus(r, a) = x
      BY <1>1, <1>2, <1>3, <1>4, <1>6 DEF Plus
    <2> HIDE DEF x
    <2>2. (t + a) % Width = x
      BY <1>1, <1>3, <1>4, <2>1, OneRemainder
    <2>3. QED
      BY <2>1, <2>2 DEF r
  <1>7. QED
    BY <1>5, <1>6

\* -= takes it back.
LEMMA MinusPlus ==
    ASSUME NEW x \in U64, NEW a \in U64
    PROVE  Minus(Plus(x, a), a) = x
    BY MaxU64Assumption DEF U64, Plus, Minus

\* Subtraction in uint64_t undoes an addition that may have wrapped around.
LEMMA MinusTotal ==
    ASSUME NEW t \in Nat, NEW a \in U64
    PROVE  Minus((t + a) % Width, a) = t % Width
    BY PlusTotal, MinusPlus, RemainderTyped

\* What is open and the amount taken off may add up to more than the width.
LEMMA PlusPlusTotal ==
    ASSUME NEW t \in Nat, NEW x \in U64, NEW a \in U64
    PROVE  Minus((t + Plus(x, a)) % Width, a) = (t + x) % Width
  <1>1. x \in Nat /\ a \in Nat /\ Width \in Nat \ {0} /\ Width = MaxU64 + 1 /\ MaxU64 \in Nat
    BY MaxU64Assumption DEF U64, Width
  <1>2. (t + Plus(x, a)) % Width = ((t + x) + a) % Width
    <2>1. CASE x + a <= MaxU64
      <3>1. t + Plus(x, a) = (t + x) + a
        BY <1>1, <2>1 DEF Plus
      <3>2. QED
        BY <3>1
    <2>2. CASE ~(x + a <= MaxU64)
      <3>1. PICK s \in Nat : s = t + Plus(x, a)
        BY <1>1, <2>2 DEF Plus
      <3>2. (t + x) + a = s + Width /\ (t + x) + a \in Nat
        BY <1>1, <2>2, <3>1 DEF Plus
      <3>3. QED
        BY <1>1, <3>1, <3>2, SameRemainder
    <2>3. QED
      BY <2>1, <2>2
  <1>3. t + x \in Nat
    BY <1>1
  <1>4. QED
    BY <1>2, <1>3, MinusTotal

-----------------------------------------------------------------------------
(* The volume of a level                                                   *)

\* The volume of a level is the open quantity of its orders, as "ords" has them.
VolumeIs(ords, level) == level.volume = Total(ords, Range(level.orders)) % Width

\* "ords" has an open quantity for every id.
Counts(ords, ids) == \A id \in ids : Open(ords, id) \in U64

\* A queue has finitely many orders.
LEMMA QueueFinite ==
    ASSUME NEW q \in Seq(OrderId)
    PROVE  IsFiniteSet(Range(q))
  <1>1. q \in Surjection(1 .. Len(q), Range(q)) /\ Len(q) \in Nat
    BY DEF Range, Surjection
  <1>2. IsFiniteSet(1 .. Len(q))
    BY <1>1, FS_Interval
  <1>3. QED
    BY <1>1, <1>2, FS_Surjection

\* A sum of quantities is a number, not below any of them.
LEMMA TotalTyped ==
    ASSUME NEW ids, IsFiniteSet(ids), NEW ords, Counts(ords, ids)
    PROVE  /\ Total(ords, ids) \in Nat
           /\ \A id \in ids : Open(ords, id) <= Total(ords, ids)
  <1>1. \A id \in ids : Open(ords, id) \in Nat
    BY DEF Counts, U64
  <1>2. ASSUME NEW id \in ids
        PROVE  Open(ords, id) <= Total(ords, ids)
    <2>1. IsFiniteSet(ids \ {id}) /\ \A x \in ids \ {id} : Open(ords, x) \in Nat
      BY <1>1, FS_Subset
    <2>2. Total(ords, ids \ {id}) \in Nat
      BY <2>1, TotalIs
    <2>3. Total(ords, ids) = Open(ords, id) + Total(ords, ids \ {id}) /\ Open(ords, id) \in Nat
      BY <1>1, TotalIs
    <2>4. QED
      BY <2>2, <2>3
  <1>3. QED
    BY <1>1, <1>2, TotalIs

\* What a set of orders has open in all, one of them apart.
LEMMA TotalWith ==
    ASSUME NEW ids, IsFiniteSet(ids), NEW ords, Counts(ords, ids), NEW id \in ids,
           NEW others, \A x \in ids \ {id} : Open(others, x) = Open(ords, x)
    PROVE  /\ Total(others, ids \ {id}) \in Nat
           /\ Total(ords, ids) = Total(others, ids \ {id}) + Open(ords, id)
           /\ Open(others, id) \in U64 =>
                Total(others, ids) = Total(others, ids \ {id}) + Open(others, id)
  <1> DEFINE rest == ids \ {id}
  <1>1. /\ \A x \in ids : Open(ords, x) \in Nat
        /\ IsFiniteSet(rest)
        /\ \A x \in rest : Open(ords, x) \in Nat /\ Open(others, x) \in Nat
    BY FS_Subset DEF Counts, U64
  <1>2. Total(others, rest) = Total(ords, rest) /\ Total(others, rest) \in Nat
    BY <1>1, TotalIs, TotalSame
  <1>3. Total(ords, ids) = Open(ords, id) + Total(ords, rest) /\ Open(ords, id) \in Nat
    BY <1>1, TotalIs
  <1>4. ASSUME Open(others, id) \in U64
        PROVE  Total(others, ids) = Open(others, id) + Total(others, rest)
               /\ Open(others, id) \in Nat
    <2>1. \A x \in ids : Open(others, x) \in Nat
      BY <1>1, <1>4 DEF U64
    <2>2. QED
      BY <2>1, TotalIs
  <1> HIDE DEF rest
  <1>5. Total(ords, ids) = Total(others, rest) + Open(ords, id)
    BY <1>2, <1>3
  <1>6. Open(others, id) \in U64 => Total(others, ids) = Total(others, rest) + Open(others, id)
    BY <1>2, <1>4
  <1>7. QED
    BY <1>2, <1>5, <1>6 DEF rest

\* A level is empty at first.
LEMMA NewVolume ==
    ASSUME NEW ords
    PROVE  VolumeIs(ords, NewLevel)
  <1>1. Range(NewLevel.orders) = {} /\ NewLevel.volume = 0
    BY EmptyQueue DEF NewLevel
  <1>2. IsFiniteSet({}) /\ \A x \in {} : Open(ords, x) \in Nat
    BY FS_EmptySet
  <1>3. Total(ords, {}) = 0
    BY <1>2, TotalIs
  <1>4. 0 \in U64
    BY MaxU64Assumption DEF U64
  <1>5. QED
    BY <1>1, <1>3, <1>4, SmallRemainder DEF VolumeIs

\* Orders elsewhere do not matter.
LEMMA SameVolume ==
    ASSUME NEW level \in Level, NEW ords, Counts(ords, Range(level.orders)), VolumeIs(ords, level),
           NEW others, \A x \in Range(level.orders) : Open(others, x) = Open(ords, x)
    PROVE  VolumeIs(others, level)
  <1>1. IsFiniteSet(Range(level.orders)) /\ \A x \in Range(level.orders) : Open(ords, x) \in Nat
    BY QueueFinite DEF Level, Counts, U64
  <1>2. QED
    BY <1>1, TotalSame DEF VolumeIs

\* Level::addOrder
LEMMA AddOrderVolume ==
    ASSUME NEW level \in Level, IsInjective(level.orders),
           NEW ords, Counts(ords, Range(level.orders)), VolumeIs(ords, level),
           NEW o \in Order, o.id \notin Range(level.orders),
           NEW others, \A x \in Range(level.orders) : Open(others, x) = Open(ords, x),
           Open(others, o.id) = o.open
    PROVE  VolumeIs(others, AddOrderToLevel(level, o))
  <1> DEFINE new == AddOrderToLevel(level, o)
             ids == Range(level.orders)
  <1>1. level.orders \in Seq(OrderId) /\ o.id \in OrderId /\ o.open \in U64
    BY DEF Level, Order
  <1>2. Range(new.orders) = ids \union {o.id} /\ new.volume = Plus(level.volume, o.open)
    BY <1>1, AppendQueue DEF AddOrderToLevel
  <1>3. VolumeIs(others, level)
    BY SameVolume
  <1> HIDE DEF new, ids
  <1>4. IsFiniteSet(ids \union {o.id}) /\ Counts(others, ids \union {o.id})
    BY <1>1, QueueFinite, FS_AddElement DEF Counts, ids
  <1>5. /\ Total(others, (ids \union {o.id}) \ {o.id}) \in Nat
        /\ Total(others, ids \union {o.id}) = Total(others, (ids \union {o.id}) \ {o.id}) + o.open
    BY <1>1, <1>4, TotalWith
  <1>6. (ids \union {o.id}) \ {o.id} = ids
    BY DEF ids
  <1>7. Plus(Total(others, ids) % Width, o.open) = Total(others, ids \union {o.id}) % Width
    BY <1>1, <1>5, <1>6, PlusTotal
  <1>8. QED
    BY <1>2, <1>3, <1>7 DEF VolumeIs, new, ids

\* Level::deleteOrder and Level::popFront: an order leaves the queue.
LEMMA LeaveVolume ==
    ASSUME NEW level \in Level, NEW new,
           NEW ords, Counts(ords, Range(level.orders)), VolumeIs(ords, level),
           NEW id \in Range(level.orders),
           Range(new.orders) = Range(level.orders) \ {id},
           new.volume = Minus(level.volume, Open(ords, id)),
           NEW others, \A x \in Range(level.orders) \ {id} : Open(others, x) = Open(ords, x)
    PROVE  VolumeIs(others, new)
  <1> DEFINE ids == Range(level.orders)
  <1>1. IsFiniteSet(ids) /\ Open(ords, id) \in U64
    BY QueueFinite DEF Level, Counts
  <1>2. /\ Total(others, ids \ {id}) \in Nat
        /\ Total(ords, ids) = Total(others, ids \ {id}) + Open(ords, id)
    BY <1>1, TotalWith
  <1>3. Minus(Total(ords, ids) % Width, Open(ords, id)) = Total(others, ids \ {id}) % Width
    BY <1>1, <1>2, MinusTotal
  <1>4. QED
    BY <1>3 DEF VolumeIs

\* Level::reduceVolume, for an order that stays with less of it open.
LEMMA ReduceVolumeIs ==
    ASSUME NEW level \in Level, NEW amount \in U64,
           NEW ords, Counts(ords, Range(level.orders)), VolumeIs(ords, level),
           NEW id \in Range(level.orders),
           NEW others, \A x \in Range(level.orders) \ {id} : Open(others, x) = Open(ords, x),
           Open(others, id) \in U64, Open(ords, id) = Plus(Open(others, id), amount)
    PROVE  VolumeIs(others, ReduceVolume(level, amount))
  <1> DEFINE ids == Range(level.orders)
             new == ReduceVolume(level, amount)
  <1>1. IsFiniteSet(ids) /\ new.volume = Minus(level.volume, amount) /\ new.orders = level.orders
    BY QueueFinite DEF Level, ReduceVolume
  <1>2. /\ Total(others, ids \ {id}) \in Nat
        /\ Total(ords, ids) = Total(others, ids \ {id}) + Open(ords, id)
        /\ Total(others, ids) = Total(others, ids \ {id}) + Open(others, id)
    BY <1>1, TotalWith
  <1> HIDE DEF new
  <1>3. Minus(Total(ords, ids) % Width, amount) = Total(others, ids) % Width
    BY <1>2, PlusPlusTotal
  <1>4. QED
    BY <1>1, <1>3 DEF VolumeIs, new

-----------------------------------------------------------------------------
(* The volumes of the book                                                 *)

VolumesOK(ords, map) == \A p \in DOMAIN map : VolumeIs(ords, map[p])

VolumeInv ==
    /\ \A m \in LevelMap : VolumesOK(orders, levels[m])
    /\ VolumesOK(orders, updated_levels)

\* The orders of a level are in the book, once each, and have a quantity.
LEMMA LevelCounts ==
    ASSUME BookTyped, NEW m, NEW map, IsMap(map, U64, Level), QueuesOK(m, map), NEW p \in DOMAIN map
    PROVE  /\ map[p] \in Level
           /\ map[p].orders \in Seq(OrderId)
           /\ IsInjective(map[p].orders)
           /\ Counts(orders, Range(map[p].orders))
           /\ Range(map[p].orders) \subseteq DOMAIN orders
  <1>1. /\ map[p] \in Level
        /\ map[p].orders \in Seq(OrderId)
        /\ IsInjective(map[p].orders)
        /\ Range(map[p].orders) \subseteq DOMAIN orders
    BY DEF IsMap, Level, QueuesOK
  <1>2. \A id \in DOMAIN orders : Open(orders, id) \in U64
    BY EntryTyped DEF Open, Order
  <1>3. QED
    BY <1>1, <1>2 DEF Counts

\* Levels whose orders do not change keep their volume.
LEMMA OthersKeepVolume ==
    ASSUME BookTyped, NEW m, NEW map, IsMap(map, U64, Level), QueuesOK(m, map),
           NEW p \in DOMAIN map, VolumeIs(orders, map[p]),
           NEW others, \A x \in Range(map[p].orders) : Open(others, x) = Open(orders, x)
    PROVE  VolumeIs(others, map[p])
    BY LevelCounts, SameVolume

\* An order that enters the book adds what it has open.
LEMMA InsertedKeepsVolumes ==
    ASSUME IndexInv, VolumeInv, Still, NEW o \in Order, Inserted(o)
    PROVE  VolumeInv'
  <1> DEFINE m == MapOf(o)
             k == KeyOf(o)
             old == LevelAt(levels[m], k)
             new == AddOrderToLevel(old, o)
  <1>1. /\ BookTyped /\ m \in LevelMap /\ k \in U64 /\ o.open \in U64
        /\ \A n \in LevelMap : IsMap(levels[n], U64, Level) /\ QueuesOK(n, levels[n])
    BY Parts, PlaceTyped DEF LevelMap, Still, BookTyped, Order
  <1>2. /\ \A x \in DOMAIN orders : Open(orders', x) = Open(orders, x)
        /\ Open(orders', o.id) = o.open
    BY DEF Inserted, Put, Open
  <1>3. VolumeIs(orders', new)
    <2>1. /\ old \in Level /\ IsInjective(old.orders) /\ VolumeIs(orders, old)
          /\ Counts(orders, Range(old.orders)) /\ Range(old.orders) \subseteq DOMAIN orders
      <3>1. CASE k \in DOMAIN levels[m]
        <4>1. old = levels[m][k] /\ VolumeIs(orders, levels[m][k])
          BY <1>1, <3>1 DEF LevelAt, VolumeInv, VolumesOK
        <4> HIDE DEF m, k, old
        <4>2. QED
          BY <1>1, <3>1, <4>1, LevelCounts
      <3>2. CASE k \notin DOMAIN levels[m]
        BY <3>2, NewLevelTyped, NewVolume, EmptyQueue DEF LevelAt, Counts
      <3>3. QED
        BY <3>1, <3>2
    <2>2. o.id \notin Range(old.orders)
      BY <2>1 DEF Inserted
    <2> HIDE DEF old
    <2>3. \A x \in Range(old.orders) : Open(orders', x) = Open(orders, x)
      BY <1>2, <2>1
    <2>4. QED
      BY <1>2, <2>1, <2>2, <2>3, AddOrderVolume
  <1>4. ASSUME NEW n \in LevelMap, NEW p \in DOMAIN levels[n]
        PROVE  VolumeIs(orders', levels[n][p])
    <2>1. Range(levels[n][p].orders) \subseteq DOMAIN orders /\ VolumeIs(orders, levels[n][p])
      BY <1>1, <1>4, LevelCounts DEF VolumeInv, VolumesOK
    <2>2. QED
      BY <1>1, <1>2, <1>4, <2>1, OthersKeepVolume
  <1>5. /\ levels'[m] = Put(levels[m], k, new)
        /\ \A n \in LevelMap : n # m => levels'[n] = levels[n]
        /\ updated_levels' = updated_levels
    BY <1>1 DEF Inserted, BookTyped
  <1>6. DOMAIN updated_levels = {}
    BY EmptyMapIsMap DEF Still
  <1> HIDE DEF m, k, new
  <1>7. QED
    BY <1>1, <1>3, <1>4, <1>5, <1>6 DEF VolumeInv, VolumesOK, Put

\* Where an order of the book is linked, and that it is linked nowhere else.
LEMMA WhereLinked ==
    ASSUME IndexInv, Still, NEW id \in DOMAIN orders
    PROVE  LET m == MapOf(orders[id].order)
               k == orders[id].level_it
           IN  /\ m \in LevelMap /\ k \in DOMAIN levels[m] /\ id \in Range(levels[m][k].orders)
               /\ \A n \in LevelMap : \A p \in DOMAIN levels[n] :
                    id \in Range(levels[n][p].orders) => n = m /\ p = k
    BY Parts, EntryTyped DEF Still, Indexed, LinkedIn, Linked, QueuesOK

\* Taking an order out of a map of levels concerns the level it is in.
LEMMA LevelsWithout ==
    ASSUME NEW map, NEW k \in DOMAIN map, NEW o
    PROVE  LET left == WithoutOrder(map, k, o)
           IN  /\ DOMAIN left \subseteq DOMAIN map
               /\ \A p \in DOMAIN left :
                    left[p] = IF p = k THEN DeleteOrderFromLevel(map[k], o) ELSE map[p]
    BY DEF WithoutOrder, Put, Drop

\* An order that leaves takes what it has open with it.
LEMMA RemovedKeepsVolumes ==
    ASSUME IndexInv, VolumeInv, Still, NEW id \in DOMAIN orders, Removed(id)
    PROVE  VolumeInv'
  <1> DEFINE o == orders[id].order
             m == MapOf(o)
             k == orders[id].level_it
             new == DeleteOrderFromLevel(levels[m][k], o)
  <1>1. /\ BookTyped /\ o \in Order /\ o.id = id
        /\ \A n \in LevelMap : IsMap(levels[n], U64, Level) /\ QueuesOK(n, levels[n])
    BY Parts, EntryToLevel DEF Still, BookTyped
  <1>2. /\ m \in LevelMap /\ k \in DOMAIN levels[m] /\ id \in Range(levels[m][k].orders)
        /\ \A n \in LevelMap : \A p \in DOMAIN levels[n] :
             id \in Range(levels[n][p].orders) => n = m /\ p = k
    BY WhereLinked
  <1>3. \A x \in DOMAIN orders \ {id} : Open(orders', x) = Open(orders, x)
    BY DEF Removed, Drop, Open
  <1>4. /\ levels[m][k] \in Level /\ levels[m][k].orders \in Seq(OrderId)
        /\ IsInjective(levels[m][k].orders) /\ Counts(orders, Range(levels[m][k].orders))
        /\ Range(levels[m][k].orders) \subseteq DOMAIN orders
        /\ VolumeIs(orders, levels[m][k])
    <2> HIDE DEF m, k
    <2>1. QED
      BY <1>1, <1>2, LevelCounts DEF VolumeInv, VolumesOK
  <1>5. VolumeIs(orders', new)
    <2>1. Range(new.orders) = Range(levels[m][k].orders) \ {id}
      BY <1>1, <1>2, <1>4, UnlinkQueue DEF DeleteOrderFromLevel
    <2>2. new.volume = Minus(levels[m][k].volume, Open(orders, id))
      BY DEF DeleteOrderFromLevel, Open
    <2> HIDE DEF m, k, new
    <2>3. QED
      BY <1>2, <1>3, <1>4, <2>1, <2>2, LeaveVolume
  <1>6. ASSUME NEW n \in LevelMap, NEW p \in DOMAIN levels[n], n # m \/ p # k
        PROVE  VolumeIs(orders', levels[n][p])
    <2>1. /\ Range(levels[n][p].orders) \subseteq DOMAIN orders
          /\ VolumeIs(orders, levels[n][p])
          /\ id \notin Range(levels[n][p].orders)
      <3> HIDE DEF m, k
      <3>1. QED
        BY <1>1, <1>2, <1>6, LevelCounts DEF VolumeInv, VolumesOK
    <2>2. QED
      BY <1>1, <1>3, <1>6, <2>1, OthersKeepVolume
  <1>7. /\ levels'[m] = WithoutOrder(levels[m], k, o)
        /\ \A n \in LevelMap : n # m => levels'[n] = levels[n]
        /\ updated_levels' = updated_levels
    BY <1>1, <1>2 DEF Removed, BookTyped, DeleteFrom
  <1>8. DOMAIN updated_levels = {}
    BY EmptyMapIsMap DEF Still
  <1>9. /\ DOMAIN levels'[m] \subseteq DOMAIN levels[m]
        /\ \A p \in DOMAIN levels'[m] : levels'[m][p] = IF p = k THEN new ELSE levels[m][p]
    BY <1>2, <1>7, LevelsWithout
  <1> HIDE DEF m, k, new
  <1>10. QED
    BY <1>2, <1>5, <1>6, <1>7, <1>8, <1>9 DEF VolumeInv, VolumesOK

\* An order that changes takes the difference off its level, and itself if nothing of
\* it is open any more.
LEMMA ChangedKeepsVolumes ==
    ASSUME IndexInv, VolumeInv, Still, NEW o \in Order, NEW amount \in U64, Changed(o, amount)
    PROVE  VolumeInv'
  <1> DEFINE id == o.id
             m == MapOf(o)
             k == orders[id].level_it
             level == levels[m][k]
             reduced == ReduceVolume(level, amount)
             new == DeleteOrderFromLevel(reduced, o)
  <1>1. /\ BookTyped /\ id \in DOMAIN orders /\ m = MapOf(orders[id].order) /\ o.open \in U64
        /\ \A n \in LevelMap : IsMap(levels[n], U64, Level) /\ QueuesOK(n, levels[n])
    BY Parts, SamePlaceSameLevel DEF Still, BookTyped, Changed, Order
  <1>2. /\ m \in LevelMap /\ k \in DOMAIN levels[m] /\ id \in Range(level.orders)
        /\ \A n \in LevelMap : \A p \in DOMAIN levels[n] :
             id \in Range(levels[n][p].orders) => n = m /\ p = k
    BY <1>1, WhereLinked
  <1>3. PICK mid : mid = [orders EXCEPT ![id].order = o]
    OBVIOUS
  <1>4. /\ Open(mid, id) = o.open
        /\ \A x \in DOMAIN orders \ {id} : Open(mid, x) = Open(orders, x)
    BY <1>1, <1>3, EntryTyped DEF Open, BookTyped, IsMap, Entry
  <1>5. /\ level \in Level /\ level.orders \in Seq(OrderId)
        /\ IsInjective(level.orders) /\ Counts(orders, Range(level.orders))
        /\ Range(level.orders) \subseteq DOMAIN orders
        /\ VolumeIs(orders, level)
    <2> HIDE DEF m, k
    <2>1. QED
      BY <1>1, <1>2, LevelCounts DEF VolumeInv, VolumesOK
  <1>6. /\ reduced \in Level /\ reduced.orders = level.orders
        /\ VolumeIs(mid, reduced) /\ Counts(mid, Range(level.orders))
    <2>1. Open(orders, id) = Plus(Open(mid, id), amount)
      BY <1>4 DEF Changed, Open
    <2>2. \A x \in Range(level.orders) \ {id} : Open(mid, x) = Open(orders, x)
      BY <1>4, <1>5, Zenon
    <2>3. reduced \in Level /\ reduced.orders = level.orders
      BY <1>5, ReduceVolumeTyped, Zenon
    <2> HIDE DEF m, k, level, id
    <2>4. VolumeIs(mid, reduced)
      BY <1>1, <1>2, <1>4, <1>5, <2>1, <2>2, ReduceVolumeIs
    <2>5. Counts(mid, Range(level.orders))
      BY <1>1, <1>4, <1>5, <2>2 DEF Counts
    <2>6. QED
      BY <2>3, <2>4, <2>5
  <1>7. /\ \A x \in DOMAIN orders \ {id} : Open(orders', x) = Open(orders, x)
        /\ \/ /\ o.open = 0
              /\ levels'[m] = WithoutOrder([levels[m] EXCEPT ![k] = reduced], k, o)
           \/ /\ o.open # 0
              /\ levels'[m] = [levels[m] EXCEPT ![k] = reduced]
              /\ orders' = mid
        /\ \A n \in LevelMap : n # m => levels'[n] = levels[n]
        /\ updated_levels' = updated_levels
    <2>1. \A x \in DOMAIN orders \ {id} : Open(orders', x) = Open(orders, x)
      BY <1>3, <1>4 DEF Changed, Drop, Open
    <2>2. PICK maps : maps = Reduced(o, amount)
      OBVIOUS
    <2>3. /\ maps = [n \in LevelMap |-> maps[n]]
          /\ maps[m] = [levels[m] EXCEPT ![k] = reduced]
          /\ \A n \in LevelMap : n # m => maps[n] = levels[n]
      BY <1>1, <1>2, <2>2 DEF Reduced, BookTyped
    <2>4. CASE o.open = 0
      <3>1. levels' = DeleteFrom(maps, o) /\ updated_levels' = updated_levels
        BY <2>2, <2>4 DEF Changed
      <3> HIDE DEF m, k, reduced
      <3>2. QED
        BY <1>2, <2>1, <2>3, <2>4, <3>1 DEF DeleteFrom, m, k
    <2>5. CASE o.open # 0
      BY <1>3, <2>1, <2>2, <2>3, <2>5 DEF Changed
    <2>6. QED
      BY <2>4, <2>5
  <1>8. ASSUME NEW n \in LevelMap, NEW p \in DOMAIN levels[n], n # m \/ p # k
        PROVE  VolumeIs(orders', levels[n][p])
    <2>1. /\ Range(levels[n][p].orders) \subseteq DOMAIN orders
          /\ VolumeIs(orders, levels[n][p])
          /\ id \notin Range(levels[n][p].orders)
      <3> HIDE DEF m, k
      <3>1. QED
        BY <1>1, <1>2, <1>8, LevelCounts DEF VolumeInv, VolumesOK
    <2>2. QED
      BY <1>1, <1>7, <1>8, <2>1, OthersKeepVolume
  <1>9. DOMAIN updated_levels = {}
    BY EmptyMapIsMap DEF Still
  <1>10. CASE o.open # 0
    <2>1. VolumeIs(orders', reduced)
      BY <1>6, <1>7, <1>10
    <2>2. /\ DOMAIN levels'[m] = DOMAIN levels[m]
          /\ \A p \in DOMAIN levels'[m] : levels'[m][p] = IF p = k THEN reduced ELSE levels[m][p]
      BY <1>2, <1>7, <1>10
    <2> HIDE DEF m, k, reduced
    <2>3. QED
      BY <1>2, <1>7, <1>8, <1>9, <2>1, <2>2 DEF VolumeInv, VolumesOK
  <1>11. CASE o.open = 0
    <2>1. VolumeIs(orders', new)
      <3>1. Range(new.orders) = Range(reduced.orders) \ {id}
        BY <1>2, <1>5, <1>6, UnlinkQueue, Zenon DEF DeleteOrderFromLevel
      <3>2. new.volume = Minus(reduced.volume, Open(mid, id))
        BY <1>4 DEF DeleteOrderFromLevel
      <3>3. \A x \in Range(reduced.orders) \ {id} : Open(orders', x) = Open(mid, x)
        BY <1>4, <1>5, <1>6, <1>7, Zenon
      <3> HIDE DEF m, k, level, new, reduced
      <3>4. QED
        BY <1>2, <1>6, <3>1, <3>2, <3>3, LeaveVolume
    <2>2. /\ DOMAIN levels'[m] \subseteq DOMAIN levels[m]
          /\ \A p \in DOMAIN levels'[m] : levels'[m][p] = IF p = k THEN new ELSE levels[m][p]
      <3>1. levels'[m] = WithoutOrder([levels[m] EXCEPT ![k] = reduced], k, o)
        BY <1>7, <1>11
      <3> HIDE DEF m, reduced
      <3>2. QED
        BY <1>2, <3>1 DEF WithoutOrder, Put, Drop
    <2> HIDE DEF m, k, new
    <2>3. QED
      BY <1>2, <1>7, <1>8, <1>9, <2>1, <2>2 DEF VolumeInv, VolumesOK
  <1>12. QED
    BY <1>10, <1>11

\* A trailing stop order that moves is counted where it goes and no longer where it was.
LEMMA MovedKeepsVolumes ==
    ASSUME IndexInv, VolumeInv, MoveTrailingStop
    PROVE  VolumeInv'
  <1> DEFINE m == <<"trailing", Top.side>>
  <1>1. /\ BookTyped /\ ControlTyped /\ Underway /\ m \in LevelMap
    <2>1. /\ BookTyped /\ ControlTyped
          /\ stack # <<>> /\ Top.pc = "update" /\ Top.side \in Side
      BY UpdateFindsCall, Zenon DEF MoveTrailingStop
    <2>2. QED
      BY <2>1, StillUnderway, Zenon DEF IndexInv, MoveTrailingStop, LevelMap
  <1>2. PICK p \in DOMAIN levels[m] :
          LET o == orders[Head(levels[m][p].orders)].order
              s == CalculateStopPrice(o)
          IN  /\ levels[m][p].orders # <<>>
              /\ levels' = [levels EXCEPT ![m][p] = PopFront(@, s)]
              /\ updated_levels' = Put(updated_levels, s.stop,
                     AddOrderToLevel(LevelAt(updated_levels, s.stop), s))
              /\ orders' = [orders EXCEPT ![o.id] = [order |-> s, level_it |-> s.stop]]
    BY Zenon DEF MoveTrailingStop
  <1> DEFINE id == Head(levels[m][p].orders)
             s == CalculateStopPrice(orders[id].order)
             k == s.stop
             left == PopFront(levels[m][p], s)
             old == LevelAt(updated_levels, k)
             new == AddOrderToLevel(old, s)
  <1>3. /\ \A n \in LevelMap : IsMap(levels[n], U64, Level) /\ QueuesOK(n, levels[n])
        /\ IsMap(updated_levels, U64, Level) /\ QueuesOK(m, updated_levels)
    BY <1>1 DEF Underway, BookTyped
  <1>4. /\ levels[m][p] \in Level /\ levels[m][p].orders \in Seq(OrderId)
        /\ IsInjective(levels[m][p].orders) /\ Counts(orders, Range(levels[m][p].orders))
        /\ Range(levels[m][p].orders) \subseteq DOMAIN orders
        /\ VolumeIs(orders, levels[m][p])
    <2> HIDE DEF m
    <2>1. QED
      BY <1>1, <1>3, LevelCounts DEF VolumeInv, VolumesOK
  <1>5. /\ id \in Range(levels[m][p].orders) /\ id \in DOMAIN orders
        /\ Range(left.orders) = Range(levels[m][p].orders) \ {id}
    BY <1>2, <1>4, TailQueue, Zenon DEF PopFront
  <1>6. /\ s \in Order /\ s.id = id /\ s.open = orders[id].order.open
        /\ orders[id].order.id = id /\ k \in U64
        /\ MapOf(orders[id].order) = m /\ KeyOf(orders[id].order) = p
    <2>1. /\ orders[id].order \in Order /\ orders[id].order.id = id
          /\ MapOf(orders[id].order) = m /\ KeyOf(orders[id].order) = p
      <3>1. orders[id].order \in Order /\ orders[id].order.id = id
        BY <1>1, <1>5, EntryTyped DEF Underway, Indexed
      <3> HIDE DEF m
      <3>2. QED
        BY <1>1, <1>3, <1>5, <3>1 DEF QueuesOK
    <2>2. s \in Order /\ s.id = id
      BY <1>1, <2>1, CalculateStopPriceTyped DEF ControlTyped
    <2>3. s.open = orders[id].order.open
      BY <2>1 DEF CalculateStopPrice, Order
    <2>4. QED
      BY <2>1, <2>2, <2>3, Zenon DEF Order
  <1>7. /\ orders' = [orders EXCEPT ![id] = [order |-> s, level_it |-> k]]
        /\ levels' = [levels EXCEPT ![m][p] = left]
        /\ updated_levels' = Put(updated_levels, k, new)
    BY <1>2, <1>6, Zenon
  <1>8. \A x \in DOMAIN orders : Open(orders', x) = Open(orders, x)
    BY <1>6, <1>7, Zenon DEF Open
  <1>9. \A q \in DOMAIN updated_levels : id \notin Range(updated_levels[q].orders)
    <2>1. LinkedIn(levels[m], id)
      BY <1>5, <1>6, Zenon DEF LinkedIn, Linked
    <2>2. ~LinkedIn(updated_levels, id)
      BY <1>1, <1>5, <2>1 DEF Underway
    <2> HIDE DEF m
    <2>3. QED
      BY <1>3, <2>2 DEF QueuesOK, LinkedIn, Linked
  <1>10. VolumeIs(orders', left)
    <2>1. left.volume = Minus(levels[m][p].volume, Open(orders, id))
      BY <1>6 DEF PopFront, Open
    <2> HIDE DEF m, left, s, id
    <2>2. QED
      BY <1>4, <1>5, <1>8, <2>1, LeaveVolume
  <1>11. VolumeIs(orders', new)
    <2>1. /\ old \in Level /\ IsInjective(old.orders) /\ VolumeIs(orders, old)
          /\ Counts(orders, Range(old.orders)) /\ Range(old.orders) \subseteq DOMAIN orders
          /\ id \notin Range(old.orders)
      <3>1. CASE k \in DOMAIN updated_levels
        <4>1. /\ old = updated_levels[k] /\ VolumeIs(orders, updated_levels[k])
              /\ id \notin Range(updated_levels[k].orders)
          BY <1>9, <3>1, Zenon DEF LevelAt, VolumeInv, VolumesOK
        <4> HIDE DEF m, k, old
        <4>2. QED
          BY <1>1, <1>3, <3>1, <4>1, LevelCounts
      <3>2. CASE k \notin DOMAIN updated_levels
        BY <3>2, NewLevelTyped, NewVolume, EmptyQueue DEF LevelAt, Counts
      <3>3. QED
        BY <3>1, <3>2, Zenon
    <2>2. Open(orders', s.id) = s.open
      BY <1>5, <1>6, <1>8, Zenon DEF Open
    <2> HIDE DEF m, old, s, k, id
    <2>3. QED
      BY <1>6, <1>8, <2>1, <2>2, AddOrderVolume DEF new
  <1>12. ASSUME NEW n \in LevelMap, NEW q \in DOMAIN levels[n]
         PROVE  VolumeIs(orders', levels[n][q])
    <2>1. /\ Range(levels[n][q].orders) \subseteq DOMAIN orders
          /\ VolumeIs(orders, levels[n][q])
      BY <1>1, <1>3, <1>12, LevelCounts DEF VolumeInv, VolumesOK
    <2>2. QED
      BY <1>1, <1>3, <1>8, <1>12, <2>1, OthersKeepVolume
  <1>13. ASSUME NEW q \in DOMAIN updated_levels
         PROVE  VolumeIs(orders', updated_levels[q])
    <2>1. /\ Range(updated_levels[q].orders) \subseteq DOMAIN orders
          /\ VolumeIs(orders, updated_levels[q])
      BY <1>1, <1>3, <1>13, LevelCounts DEF VolumeInv, VolumesOK
    <2>2. QED
      BY <1>1, <1>3, <1>8, <1>13, <2>1, OthersKeepVolume
  <1>14. /\ DOMAIN levels'[m] = DOMAIN levels[m]
         /\ \A q \in DOMAIN levels'[m] : levels'[m][q] = IF q = p THEN left ELSE levels[m][q]
         /\ \A n \in LevelMap : n # m => levels'[n] = levels[n]
    BY <1>1, <1>7, Zenon DEF BookTyped
  <1> HIDE DEF m, k, new, left, id, s
  <1>15. \A n \in LevelMap : VolumesOK(orders', levels'[n])
    BY <1>1, <1>10, <1>12, <1>14 DEF VolumesOK
  <1>16. VolumesOK(orders', updated_levels')
    BY <1>7, <1>11, <1>13 DEF VolumesOK, Put
  <1>17. QED
    BY <1>15, <1>16 DEF VolumeInv

\* The temporary map takes the place of the emptied one.
LEMMA SwappedKeepsVolumes ==
    ASSUME IndexInv, VolumeInv, SwapTrailingLevels
    PROVE  VolumeInv'
  <1> DEFINE m == <<"trailing", Top.side>>
  <1>1. /\ m \in LevelMap
        /\ levels' = [levels EXCEPT ![m] = updated_levels]
        /\ updated_levels' = EmptyMap
        /\ orders' = orders
    BY UpdateFindsCall DEF SwapTrailingLevels, LevelMap
  <1>2. levels'[m] = updated_levels /\ \A n \in LevelMap : n # m => levels'[n] = levels[n]
    BY <1>1, Parts DEF BookTyped
  <1>3. DOMAIN EmptyMap = {}
    BY EmptyMapIsMap
  <1> HIDE DEF m
  <1>4. QED
    BY <1>1, <1>2, <1>3 DEF VolumeInv, VolumesOK

\* Every step keeps the volumes right.
LEMMA NextKeepsVolumes ==
    ASSUME IndexInv, VolumeInv, [Next]_vars
    PROVE  VolumeInv'
  <1>1. CASE UNCHANGED book
    BY <1>1 DEF book, VolumeInv
  <1>2. CASE Next
    <2>1. BookStep
      BY <1>2, BookSteps
    <2>2. QED
      BY <1>1, <2>1, InsertedKeepsVolumes, RemovedKeepsVolumes, ChangedKeepsVolumes,
         MovedKeepsVolumes, SwappedKeepsVolumes DEF BookStep
  <1>3. QED
    BY <1>1, <1>2 DEF vars, book

\* A book that was just made has no level.
LEMMA InitVolumes == Init => VolumeInv
    BY EmptyMapIsMap DEF Init, VolumeInv, VolumesOK

\* The inductive invariant of volumes: on top of IndexInv, every level of the six maps and
\* of the temporary one has the volume of its queue, also while a call is half done.
THEOREM VolumesInvariant == Spec => []VolumeInv
  <1>1. Init => VolumeInv
    BY InitVolumes
  <1>2. IndexInv /\ VolumeInv /\ [Next]_vars => VolumeInv'
    BY NextKeepsVolumes
  <1>3. QED
    BY <1>1, <1>2, IndexInvariant, PTL DEF Spec

\* The volume of every level is the open quantity of its orders, modulo the width of
\* uint64_t, whatever callers do.
THEOREM VolumesAgree == Spec => []VolumeConsistent
  <1>1. VolumeInv => VolumeConsistent
    <2> SUFFICES ASSUME VolumeInv, NEW m \in LevelMap, NEW l \in LevelsOf(m)
                 PROVE  l[2].volume = OpenTotal(l[2]) % (MaxU64 + 1)
      BY DEF VolumeConsistent
    <2>1. VolumeIs(orders, l[2])
      BY DEF LevelsOf, VolumeInv, VolumesOK
    <2>2. OpenTotal(l[2]) = Total(orders, Range(l[2].orders))
      BY DEF OpenTotal, Total
    <2>3. QED
      BY <2>1, <2>2 DEF VolumeIs, Width
  <1>2. QED
    BY <1>1, VolumesInvariant, PTL

\* The open quantities of the orders of one level add up to a uint64_t.
VolumesFit ==
    \A m \in LevelMap : \A l \in LevelsOf(m) : OpenTotal(l[2]) <= MaxU64

\* Then a level covers what an order in it has open.
LEMMA FitCovers ==
    ASSUME IndexInv, VolumeInv, VolumesFit, Still, NEW id \in DOMAIN orders,
           NEW amount \in Nat, amount <= orders[id].order.open
    PROVE  VolumeCovers(levels[MapOf(orders[id].order)][orders[id].level_it], amount)
  <1> DEFINE m == MapOf(orders[id].order)
             k == orders[id].level_it
             ids == Range(levels[m][k].orders)
  <1>1. m \in LevelMap /\ k \in DOMAIN levels[m] /\ id \in ids
    BY WhereLinked
  <1>2. BookTyped /\ IsMap(levels[m], U64, Level) /\ QueuesOK(m, levels[m])
    BY <1>1, Parts DEF Still, BookTyped
  <1>3. IsFiniteSet(ids) /\ Counts(orders, ids)
    <2> HIDE DEF m, k
    <2>1. QED
      BY <1>1, <1>2, LevelCounts, QueueFinite
  <1> HIDE DEF ids
  <1>4. Total(orders, ids) \in Nat /\ orders[id].order.open <= Total(orders, ids)
    BY <1>1, <1>3, TotalTyped DEF Open
  <1>5. Total(orders, ids) <= MaxU64
    <2>1. <<k, levels[m][k]>> \in LevelsOf(m)
      BY <1>1 DEF LevelsOf
    <2>2. OpenTotal(levels[m][k]) <= MaxU64
      BY <1>1, <2>1 DEF VolumesFit
    <2>3. OpenTotal(levels[m][k]) = Total(orders, ids)
      BY DEF OpenTotal, Total, ids
    <2>4. QED
      BY <2>2, <2>3
  <1>6. levels[m][k].volume = Total(orders, ids)
    <2>1. Total(orders, ids) \in U64
      BY <1>4, <1>5, MaxU64Assumption DEF U64
    <2>2. levels[m][k].volume = Total(orders, ids) % Width
      BY <1>1 DEF VolumeInv, VolumesOK, VolumeIs, ids
    <2>3. QED
      BY <2>1, <2>2, SmallRemainder
  <1>7. orders[id].order.open \in Nat
    BY <1>2, EntryTyped DEF Order, U64
  <1>8. levels[m][k].volume >= amount
    BY <1>4, <1>6, <1>7
  <1>9. QED
    BY <1>8 DEF VolumeCovers

\* cancelOrder and executeOrder take off a level what the order has open, at most.
LEMMA RequestsNotAbort ==
    ASSUME CallerContract, IndexInv, VolumeInv, VolumesFit, NoAssertionFails, Request
    PROVE  NoAssertionFails'
  <1>1. ASSUME NEW id \in DOMAIN orders, NEW quantity \in CancelQuantities,
               CancelOrder(id, quantity)
        PROVE  ~aborted'
    <2> DEFINE before == orders[id].order
               amount == Minus(before.open, SetQuantity(before, quantity).open)
    <2>1. Still /\ quantity <= before.open
      BY <1>1, StillAt DEF CancelOrder
    <2>2. before \in Order /\ quantity \in U64 /\ before.open \in U64
      BY <2>1, EntryToLevel, InputsAssumption DEF Order
    <2>3. amount = before.open - quantity
      BY <2>1, <2>2 DEF SetQuantity, Order, Minus
    <2>4. amount \in Nat /\ amount <= before.open
      BY <2>1, <2>2, <2>3 DEF U64
    <2> HIDE DEF amount
    <2>5. VolumeCovers(levels[MapOf(before)][orders[id].level_it], amount)
      BY <2>1, <2>4, FitCovers
    <2>6. QED
      BY <1>1, <2>5 DEF CancelOrder, amount, NoAssertionFails
  <1>2. ASSUME NEW id \in DOMAIN orders, NEW quantity \in ExecuteQuantities, NEW price,
               Idle, ExecuteAt(id, quantity, price)
        PROVE  ~aborted'
    <2> DEFINE before == orders[id].order
               amount == Lesser(quantity, before.open)
    <2>1. Still /\ before \in Order /\ quantity \in U64 /\ before.open \in U64
      BY <1>2, StillAt, EntryToLevel, InputsAssumption DEF Order
    <2>2. amount \in Nat /\ amount <= before.open
      BY <2>1 DEF Lesser, U64
    <2> HIDE DEF amount
    <2>3. VolumeCovers(levels[MapOf(before)][orders[id].level_it], amount)
      BY <2>1, <2>2, FitCovers
    <2>4. QED
      BY <1>2, <2>3 DEF ExecuteAt, amount, NoAssertionFails
  <1>3. QED
    BY <1>1, <1>2, Zenon DEF Request, AddOrder, DeleteOrder, ModifyOrder, Delete, ExecuteOrder,
       ExecuteOrderAtPrice, NoAssertionFails

\* match takes off a level what the resting order has open, at most; an order is
\* inserted only by the call that holds the one copy of it.
LEMMA StepsNotAbort ==
    ASSUME IndexInv, VolumeInv, VolumesFit, Apart, NoAssertionFails, Step
    PROVE  NoAssertionFails'
  <1>1. ASSUME AddPendingStop \/ KillOrder \/ EndMatch
        PROVE  Top.order \in Order /\ last_traded_price \in U64
               /\ Top.order.id \notin DOMAIN orders
    <2>1. /\ stack \in Seq(Frame) /\ stack # <<>> /\ Carries(Top) /\ Top = Head(stack)
          /\ Top.order \in Order /\ last_traded_price \in U64
      BY <1>1, CarrierState DEF AddPendingStop, KillOrder, EndMatch
    <2>2. QED
      BY <2>1, ReturnDistinct DEF Apart
  <1>2. CASE AddPendingStop
    <2> DEFINE s == WithStopPrice(Top.order)
    <2>1. s.id \notin DOMAIN orders
      BY <1>1, <1>2, WithStopPriceTyped
    <2>2. Insert(s, <<BeginActivation>>, <<Added(Top.order)>>)
      BY <1>2 DEF AddPendingStop
    <2> HIDE DEF s
    <2>3. QED
      BY <2>1, <2>2 DEF Insert, NoAssertionFails
  <1>3. CASE KillOrder \/ EndMatch
    BY <1>1, <1>3 DEF KillOrder, EndMatch, Complete, Insert, NoAssertionFails
  <1>4. CASE Match
    <2> DEFINE incoming == Top.order
               m == Contra(incoming)
    <2>1. Still /\ BookTyped /\ incoming \in Order
      BY <1>4, CallFindsIndex, Parts DEF Match
    <2>2. m \in LevelMap
      BY <2>1 DEF Contra, Opposite, LevelMap, Side
    <2>3. PICK p \in DOMAIN levels[m] : Trade(p)
      BY <1>4 DEF Match
    <2> DEFINE id       == Head(levels[m][p].orders)
               resting  == orders[id].order
               quantity == Lesser(incoming.open, resting.open)
    <2>4. id \in DOMAIN orders /\ resting \in Order /\ MapOf(resting) = m
      BY <2>1, <2>2, FrontToEntry
    <2>5. p = orders[id].level_it
      <3>1. levels[m][p].orders # <<>> /\ levels[m][p].orders \in Seq(OrderId)
        BY <2>1, <2>2, LevelTyped DEF Still, NonEmpty
      <3>2. id \in Range(levels[m][p].orders)
        BY <3>1, TailQueue, <2>1, <2>2 DEF Still, QueuesOK
      <3> HIDE DEF m, id
      <3>3. QED
        BY <2>1, <2>2, <2>4, <3>2, WhereLinked
    <2>6. quantity \in Nat /\ quantity <= resting.open
      <3>1. incoming.open \in U64 /\ resting.open \in U64
        BY <2>1, <2>4 DEF Order
      <3> HIDE DEF incoming, resting
      <3>2. QED
        BY <3>1 DEF Lesser, U64
    <2>7. Trade(p) /\ VolumeCovers(levels[m][p], quantity) => ~aborted'
      BY Zenon DEF Trade, NoAssertionFails
    <2> HIDE DEF m, id, quantity
    <2>8. VolumeCovers(levels[m][p], quantity)
      BY <2>1, <2>4, <2>5, <2>6, FitCovers
    <2>9. QED
      BY <2>3, <2>7, <2>8 DEF NoAssertionFails
  <1>5. QED
    BY <1>2, <1>3, <1>4, Zenon
    DEF Step, AddToMarket, AddReachedStop, CheckLiquidity, StartActivation, ActivateStopOrder,
        Delete, EndScan, ReissueOrder, MoveTrailingStop, SwapTrailingLevels, KeepTrailingLevels,
        NoAssertionFails

\* As long as callers keep to the contract, and what is open at one price adds up to a
\* uint64_t, no assertion of level.cpp fails and no order is linked twice.
THEOREM AssertionsHold ==
    ASSUME CallerContract
    PROVE  Spec /\ []VolumesFit => []NoAssertionFails
  <1>1. Init => NoAssertionFails /\ Apart
    BY InitCopies DEF Init, NoAssertionFails
  <1>2. IndexInv /\ VolumeInv /\ VolumesFit /\ Apart /\ NoAssertionFails /\ [Next]_vars
          => NoAssertionFails'
    BY RequestsNotAbort, StepsNotAbort DEF Next, vars, NoAssertionFails
  <1>3. IndexInv /\ Apart /\ [Next]_vars => Apart'
    BY NextKeepsCopies
  <1>4. QED
    BY <1>1, <1>2, <1>3, IndexInvariant, VolumesInvariant, PTL DEF Spec
=============================================================================
