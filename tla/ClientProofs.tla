---------------------------- MODULE ClientProofs ----------------------------
(***************************************************************************)
(* The book implements Exchange: through every nested call it does to the  *)
(* orders of its clients what was promised and nothing else.               *)
(*                                                                         *)
(* Of the state a client sees the orders, by id.  Each is in one place     *)
(* (CallProofs), so what is seen is a function of the set of copies, and   *)
(* a step is understood by the copy it replaces.  ClientInv adds what the  *)
(* calls know of the orders they hold.                                     *)
(***************************************************************************)
EXTENDS CallProofs

\* The copies held by the calls of a stack, and by the book.
Carried(s) == {s[i].order : i \in {j \in DOMAIN s : Carries(s[j])}}
InBook(index) == {index[id].order : id \in DOMAIN index}

Unique(copies) == \A c, d \in copies : c.id = d.id => c = d

\* What a client sees of a set of copies.
Seen(copies) ==
    [id \in {o.id : o \in {c \in copies : c.open # 0}} |->
        AsSeen(CHOOSE o \in copies : o.id = id)]

\* open and executed together are never more than the order's first quantity.
Sound(o) == o.executed + o.open <= MaxU64

\* Calls of match hold limit orders, or market orders with the price that takes any
\* other; activateStopOrder holds an order that was a stop order in the book.
FrameOK(f) ==
    /\ Carries(f) => Sound(f.order)
    /\ f.pc \in {"check", "match"} => Kind(f.order) = "limit" /\ Priced(f.order) = f.order
    /\ f.pc = "reissue" => Kind(f.order) # "limit"

\* And a call of match or activateStopOrder is never the outermost.
StackOK(s) ==
    \A i \in DOMAIN s :
        /\ FrameOK(s[i])
        /\ s[i].pc \in {"check", "match", "reissue"} => i # Len(s)

\* Only limit orders of which something is open rest with the limit orders.
OrderOK(o) == Sound(o) /\ (Kind(o) = "limit" => o.type = "LIMIT" /\ o.open # 0)

OrdersOK(index) == \A id \in DOMAIN index : OrderOK(index[id].order)

ClientInv == StackOK(stack) /\ OrdersOK(orders)

-----------------------------------------------------------------------------
(* Copies                                                                  *)

\* The orders a client sees are those in the book and those that calls hold.
LEMMA AliveIsSeen ==
    /\ Alive = Seen(InBook(orders) \union Carried(stack))
    /\ Alive' = Seen(InBook(orders') \union Carried(stack'))
    BY DEF Alive, Copies, InFlight, Seen, InBook, Carried, Carries

\* The order of an entry is in the book under its id.
IdsRight(index) == \A id \in DOMAIN index : index[id].order.id = id

\* When calls hold distinct orders, none of the book, no id has two copies.
LEMMA CopiesUnique ==
    ASSUME NEW index, IdsRight(index), NEW s, Distinct(s, DOMAIN index)
    PROVE  Unique(InBook(index) \union Carried(s))
  <1> SUFFICES ASSUME NEW c \in InBook(index) \union Carried(s),
                      NEW d \in InBook(index) \union Carried(s), c.id = d.id
               PROVE  c = d
    BY DEF Unique
  <1>1. c \in InBook(index) => c.id \in DOMAIN index /\ c = index[c.id].order
    BY DEF InBook, IdsRight
  <1>2. d \in InBook(index) => d.id \in DOMAIN index /\ d = index[d.id].order
    BY DEF InBook, IdsRight
  <1>3. c \in Carried(s) => c.id \notin DOMAIN index
    BY DEF Carried, Distinct
  <1>4. d \in Carried(s) => d.id \notin DOMAIN index
    BY DEF Carried, Distinct
  <1>5. CASE c \in Carried(s) /\ d \in Carried(s)
    <2>1. PICK i \in DOMAIN s : Carries(s[i]) /\ c = s[i].order
      BY <1>5 DEF Carried
    <2>2. PICK j \in DOMAIN s : Carries(s[j]) /\ d = s[j].order
      BY <1>5 DEF Carried
    <2>3. i = j
      BY <2>1, <2>2 DEF Distinct
    <2>4. QED
      BY <2>1, <2>2, <2>3
  <1>6. QED
    BY <1>1, <1>2, <1>3, <1>4, <1>5

\* The function a client sees.
LEMMA SeenIs ==
    ASSUME NEW cs, Unique(cs)
    PROVE  /\ \A c \in cs : c.open # 0 <=> c.id \in DOMAIN Seen(cs)
           /\ \A c \in cs : c.open # 0 => Seen(cs)[c.id] = AsSeen(c)
           /\ \A id \in DOMAIN Seen(cs) : \E c \in cs : c.id = id /\ c.open # 0
           /\ Seen(cs) = [id \in DOMAIN Seen(cs) |-> Seen(cs)[id]]
  <1>1. DOMAIN Seen(cs) = {c.id : c \in {d \in cs : d.open # 0}}
    BY DEF Seen
  <1>2. ASSUME NEW c \in cs, c.id \in DOMAIN Seen(cs)
        PROVE  c.open # 0 /\ Seen(cs)[c.id] = AsSeen(c)
    <2>1. PICK d \in cs : d.open # 0 /\ d.id = c.id
      BY <1>1, <1>2
    <2>2. d = c
      BY <2>1 DEF Unique
    <2>3. (CHOOSE o \in cs : o.id = c.id) = c
      BY DEF Unique
    <2>4. QED
      BY <1>1, <1>2, <2>1, <2>2, <2>3 DEF Seen
  <1>3. \A c \in cs : c.open # 0 => c.id \in DOMAIN Seen(cs)
    BY <1>1
  <1>4. \A id \in DOMAIN Seen(cs) : \E c \in cs : c.id = id /\ c.open # 0
    BY <1>1
  <1>5. Seen(cs) = [id \in DOMAIN Seen(cs) |-> Seen(cs)[id]]
    BY DEF Seen
  <1>6. QED
    BY <1>2, <1>3, <1>4, <1>5

\* A function with the open orders of a set of copies is what is seen of it.
LEMMA SeenEquals ==
    ASSUME NEW cs, Unique(cs), NEW f, f = [id \in DOMAIN f |-> f[id]],
           \A c \in cs : c.open # 0 => c.id \in DOMAIN f /\ f[c.id] = AsSeen(c),
           \A id \in DOMAIN f : \E c \in cs : c.id = id /\ c.open # 0
    PROVE  Seen(cs) = f
  <1> DEFINE g == Seen(cs)
  <1>1. /\ \A c \in cs : c.open # 0 => c.id \in DOMAIN g /\ g[c.id] = AsSeen(c)
        /\ \A id \in DOMAIN g : \E c \in cs : c.id = id /\ c.open # 0
        /\ g = [id \in DOMAIN g |-> g[id]]
    BY SeenIs
  <1> HIDE DEF g
  <1>2. DOMAIN g = DOMAIN f
    BY <1>1
  <1>3. \A id \in DOMAIN f : g[id] = f[id]
    BY <1>1, <1>2
  <1>4. g = f
    BY <1>1, <1>2, <1>3
  <1>5. QED
    BY <1>4 DEF g

\* No copy of the order is among them.
Fresh(id, cs) == \A c \in cs : c.id # id

\* A copy with an id of its own may join.
LEMMA OneMore ==
    ASSUME NEW cs, Unique(cs), NEW c, Fresh(c.id, cs)
    PROVE  Unique(cs \union {c})
    BY DEF Unique, Fresh

\* The copy of an order changes.
LEMMA SeenReplaced ==
    ASSUME NEW cs, Unique(cs), NEW c, NEW d, c.id = d.id, Fresh(c.id, cs), c.open # 0
    PROVE  /\ c.id \in DOMAIN Seen(cs \union {c})
           /\ Seen(cs \union {c})[c.id] = AsSeen(c)
           /\ Seen(cs \union {d})
                = Promise!Open([Seen(cs \union {c}) EXCEPT ![c.id] = AsSeen(d)])
  <1> DEFINE f == Seen(cs \union {c})
             g == [f EXCEPT ![c.id] = AsSeen(d)]
             h == Promise!Open(g)
  <1>1. Unique(cs \union {c}) /\ Unique(cs \union {d})
    BY OneMore
  <1>2. /\ \A x \in cs \union {c} : x.open # 0 => x.id \in DOMAIN f /\ f[x.id] = AsSeen(x)
        /\ \A id \in DOMAIN f : \E x \in cs \union {c} : x.id = id /\ x.open # 0
    BY <1>1, SeenIs
  <1> HIDE DEF f
  <1>3. DOMAIN g = DOMAIN f /\ g[c.id] = AsSeen(d) /\ \A id \in DOMAIN f : id # c.id => g[id] = f[id]
    BY <1>2
  <1> HIDE DEF g
  <1>4. \A x : AsSeen(x).open = x.open
    BY DEF AsSeen
  <1>5. \A id \in DOMAIN f : id # c.id => f[id].open # 0
    BY <1>2, <1>4
  <1>6. /\ h = [id \in DOMAIN h |-> h[id]]
        /\ DOMAIN h = {id \in DOMAIN f : id # c.id \/ d.open # 0}
        /\ \A id \in DOMAIN h : h[id] = g[id]
    BY <1>3, <1>4, <1>5 DEF Promise!Open
  <1> HIDE DEF h
  <1>7. \A x \in cs \union {d} : x.open # 0 => x.id \in DOMAIN h /\ h[x.id] = AsSeen(x)
    BY <1>2, <1>3, <1>6 DEF Fresh
  <1>8. \A id \in DOMAIN h : \E x \in cs \union {d} : x.id = id /\ x.open # 0
    BY <1>2, <1>6
  <1>9. Seen(cs \union {d}) = h
    BY <1>1, <1>6, <1>7, <1>8, SeenEquals
  <1>10. QED
    BY <1>2, <1>9 DEF f, g, h

\* It changes in what the client does not see.
LEMMA SeenSame ==
    ASSUME NEW cs, Unique(cs), NEW c, NEW d, c.id = d.id, Fresh(c.id, cs), AsSeen(c) = AsSeen(d)
    PROVE  Seen(cs \union {d}) = Seen(cs \union {c})
  <1> DEFINE f == Seen(cs \union {c})
  <1>1. Unique(cs \union {c}) /\ Unique(cs \union {d})
    BY OneMore
  <1>2. c.open = d.open
    BY DEF AsSeen
  <1>3. /\ f = [id \in DOMAIN f |-> f[id]]
        /\ \A x \in cs \union {c} : x.open # 0 => x.id \in DOMAIN f /\ f[x.id] = AsSeen(x)
        /\ \A id \in DOMAIN f : \E x \in cs \union {c} : x.id = id /\ x.open # 0
    BY <1>1, SeenIs
  <1> HIDE DEF f
  <1>4. \A x \in cs \union {d} : x.open # 0 => x.id \in DOMAIN f /\ f[x.id] = AsSeen(x)
    BY <1>2, <1>3
  <1>5. \A id \in DOMAIN f : \E x \in cs \union {d} : x.id = id /\ x.open # 0
    BY <1>2, <1>3
  <1>6. Seen(cs \union {d}) = f
    BY <1>1, <1>3, <1>4, <1>5, SeenEquals
  <1>7. QED
    BY <1>6 DEF f

\* A copy of which nothing is open is not seen.
LEMMA SeenClosed ==
    ASSUME NEW cs, Unique(cs), NEW c, Fresh(c.id, cs), c.open = 0
    PROVE  Seen(cs \union {c}) = Seen(cs)
  <1> DEFINE f == Seen(cs)
  <1>1. Unique(cs \union {c})
    BY OneMore
  <1>2. /\ f = [id \in DOMAIN f |-> f[id]]
        /\ \A x \in cs : x.open # 0 => x.id \in DOMAIN f /\ f[x.id] = AsSeen(x)
        /\ \A id \in DOMAIN f : \E x \in cs : x.id = id /\ x.open # 0
    BY SeenIs
  <1> HIDE DEF f
  <1>3. Seen(cs \union {c}) = f
    BY <1>1, <1>2, SeenEquals
  <1>4. QED
    BY <1>3 DEF f

\* An open copy is gone.
LEMMA SeenWithout ==
    ASSUME NEW cs, Unique(cs), NEW c, Fresh(c.id, cs), c.open # 0
    PROVE  /\ c.id \in DOMAIN Seen(cs \union {c})
           /\ Seen(cs \union {c})[c.id] = AsSeen(c)
           /\ c.id \notin DOMAIN Seen(cs)
           /\ Seen(cs) = [id \in DOMAIN Seen(cs \union {c}) \ {c.id} |-> Seen(cs \union {c})[id]]
  <1> DEFINE f == Seen(cs \union {c})
             g == [id \in DOMAIN f \ {c.id} |-> f[id]]
  <1>1. Unique(cs \union {c})
    BY OneMore
  <1>2. /\ \A x \in cs \union {c} : x.open # 0 => x.id \in DOMAIN f /\ f[x.id] = AsSeen(x)
        /\ \A id \in DOMAIN f : \E x \in cs \union {c} : x.id = id /\ x.open # 0
    BY <1>1, SeenIs
  <1> HIDE DEF f
  <1>3. DOMAIN g = DOMAIN f \ {c.id} /\ g = [id \in DOMAIN g |-> g[id]] /\ \A id \in DOMAIN g : g[id] = f[id]
    OBVIOUS
  <1> HIDE DEF g
  <1>4. \A x \in cs : x.open # 0 => x.id \in DOMAIN g /\ g[x.id] = AsSeen(x)
    BY <1>2, <1>3 DEF Fresh
  <1>5. \A id \in DOMAIN g : \E x \in cs : x.id = id /\ x.open # 0
    BY <1>2, <1>3
  <1>6. Seen(cs) = g
    BY <1>3, <1>4, <1>5, SeenEquals
  <1>7. QED
    BY <1>2, <1>3, <1>6 DEF f, g

\* The calls of a stack and its copies.
LEMMA CarriedPush ==
    ASSUME NEW s \in Seq(Frame), NEW f \in Frame
    PROVE  /\ Carries(f) => Carried(<<f>> \o s) = Carried(s) \union {f.order}
           /\ ~Carries(f) => Carried(<<f>> \o s) = Carried(s)
  <1> DEFINE t == <<f>> \o s
  <1>1. /\ DOMAIN t = 1 .. Len(s) + 1 /\ DOMAIN s = 1 .. Len(s) /\ Len(s) \in Nat
        /\ t[1] = f
        /\ \A i \in DOMAIN t : i # 1 => i - 1 \in DOMAIN s /\ t[i] = s[i - 1]
        /\ \A i \in DOMAIN s : i + 1 \in DOMAIN t /\ t[i + 1] = s[i]
    OBVIOUS
  <1> HIDE DEF t
  <1>2. ASSUME NEW o
        PROVE  o \in Carried(t) <=> o \in Carried(s) \/ (Carries(f) /\ o = f.order)
    <2>1. CASE o \in Carried(t)
      <3>1. PICK i \in DOMAIN t : Carries(t[i]) /\ o = t[i].order
        BY <2>1 DEF Carried
      <3>2. QED
        BY <1>1, <3>1 DEF Carried
    <2>2. CASE o \in Carried(s)
      <3>1. PICK i \in DOMAIN s : Carries(s[i]) /\ o = s[i].order
        BY <2>2 DEF Carried
      <3>2. i + 1 \in DOMAIN t /\ t[i + 1] = s[i]
        BY <1>1
      <3>3. QED
        BY <2>2, <3>1, <3>2 DEF Carried
    <2>3. CASE Carries(f) /\ o = f.order
      <3>1. 1 \in DOMAIN t /\ t[1] = f
        BY <1>1
      <3>2. QED
        BY <2>3, <3>1 DEF Carried
    <2>4. QED
      BY <2>1, <2>2, <2>3
  <1>3. QED
    BY <1>2 DEF t

\* A call that returns takes its order with it.
LEMMA CarriedPop ==
    ASSUME NEW s \in Seq(Frame), s # <<>>
    PROVE  /\ Carries(Head(s)) => Carried(s) = Carried(Tail(s)) \union {Head(s).order}
           /\ ~Carries(Head(s)) => Carried(s) = Carried(Tail(s))
  <1> DEFINE f == Head(s)
             t == Tail(s)
  <1>1. f \in Frame /\ t \in Seq(Frame) /\ s = <<f>> \o t
    OBVIOUS
  <1> HIDE DEF f, t
  <1>2. /\ Carries(f) => Carried(<<f>> \o t) = Carried(t) \union {f.order}
        /\ ~Carries(f) => Carried(<<f>> \o t) = Carried(t)
    BY <1>1, CarriedPush
  <1>3. /\ Carries(f) => Carried(s) = Carried(t) \union {f.order}
        /\ ~Carries(f) => Carried(s) = Carried(t)
    BY <1>1, <1>2
  <1>4. QED
    BY <1>3 DEF f, t

-----------------------------------------------------------------------------
(* Orders                                                                  *)

View == [side : Side, stop : BOOLEAN, limit : U64, rests : BOOLEAN, open : U64, executed : U64]

\* What a client sees of an order.
LEMMA SeenTyped == ASSUME NEW o \in Order PROVE AsSeen(o) \in View
    BY MaxU64Assumption DEF View, AsSeen, Order, U64

\* Orders that agree in every field a client sees are the same to it.
LEMMA SameView ==
    ASSUME NEW v \in View, NEW w \in View, v.side = w.side, v.stop = w.stop,
           v.limit = w.limit, v.rests = w.rests, v.open = w.open, v.executed = w.executed
    PROVE  v = w
    BY DEF View

\* Orders that differ in what is open and executed.
LEMMA SeenRest ==
    ASSUME NEW o \in Order, NEW x \in Order,
           x.side = o.side, x.type = o.type, x.tif = o.tif, x.price = o.price
    PROVE  AsSeen(x) = [AsSeen(o) EXCEPT !.open = x.open, !.executed = x.executed]
  <1> DEFINE v == AsSeen(x)
             u == AsSeen(o)
             w == [u EXCEPT !.open = x.open, !.executed = x.executed]
  <1>1. Kind(x) = Kind(o) /\ AtAnyPrice(x) = AtAnyPrice(o)
    BY DEF Kind, AtAnyPrice
  <1>2. /\ v.side = u.side /\ v.stop = u.stop /\ v.limit = u.limit /\ v.rests = u.rests
        /\ v.open = x.open /\ v.executed = x.executed
    BY <1>1 DEF AsSeen
  <1>3. v \in View /\ u \in View /\ x.open \in U64 /\ x.executed \in U64
    BY SeenTyped DEF Order
  <1> HIDE DEF v, u
  <1>4. /\ w \in View /\ w.side = u.side /\ w.stop = u.stop /\ w.limit = u.limit
        /\ w.rests = u.rests /\ w.open = x.open /\ w.executed = x.executed
    BY <1>3 DEF View
  <1> HIDE DEF w
  <1>5. v = w
    BY <1>2, <1>3, <1>4, SameView
  <1>6. QED
    BY <1>5 DEF v, u, w

\* Order::execute: what is executed is no longer open.
LEMMA ExecuteSeen ==
    ASSUME NEW o \in Order, NEW p \in U64, NEW q \in U64, Sound(o), q <= o.open
    PROVE  /\ AsSeen(Execute(o, p, q)) = Promise!Filled(AsSeen(o), q)
           /\ Sound(Execute(o, p, q)) /\ Execute(o, p, q).id = o.id
           /\ Execute(o, p, q).open = o.open - q
  <1> DEFINE x == Execute(o, p, q)
  <1>1. /\ o.open \in Nat /\ o.executed \in Nat /\ q \in Nat /\ MaxU64 \in Nat
        /\ o.executed + o.open <= MaxU64
    BY MaxU64Assumption DEF Order, U64, Sound
  <1>2. Minus(o.open, q) = o.open - q /\ Plus(o.executed, q) = o.executed + q
    BY <1>1 DEF Minus, Plus
  <1>3. /\ x.open = o.open - q /\ x.executed = o.executed + q
        /\ x.id = o.id /\ x.side = o.side /\ x.type = o.type /\ x.tif = o.tif /\ x.price = o.price
    BY <1>2 DEF Execute, Order
  <1> HIDE DEF x
  <1>4. Sound(x)
    BY <1>1, <1>3 DEF Sound
  <1>5. x \in Order
    BY ExecuteTyped, WidthAssumption DEF x
  <1>6. /\ AsSeen(x) = [AsSeen(o) EXCEPT !.open = x.open, !.executed = x.executed]
        /\ AsSeen(o).open = o.open /\ AsSeen(o).executed = o.executed
    BY <1>3, <1>5, SeenRest, Zenon DEF AsSeen
  <1>7. AsSeen(x) = Promise!Filled(AsSeen(o), q)
    BY <1>3, <1>6 DEF Promise!Filled
  <1>8. QED
    BY <1>3, <1>4, <1>7 DEF x

\* Order::setQuantity, when it does not add to what is open.
LEMMA SetQuantitySeen ==
    ASSUME NEW o \in Order, NEW q \in U64, Sound(o), q <= o.open
    PROVE  /\ AsSeen(SetQuantity(o, q)) = [AsSeen(o) EXCEPT !.open = q]
           /\ Sound(SetQuantity(o, q)) /\ SetQuantity(o, q).id = o.id
  <1> DEFINE x == SetQuantity(o, q)
  <1>1. /\ x.open = q /\ x.executed = o.executed
        /\ x.id = o.id /\ x.side = o.side /\ x.type = o.type /\ x.tif = o.tif /\ x.price = o.price
    BY DEF SetQuantity, Order
  <1> HIDE DEF x
  <1>2. Sound(x)
    BY <1>1, MaxU64Assumption DEF Sound, Order, U64
  <1>3. AsSeen(x) = [AsSeen(o) EXCEPT !.open = q]
    BY <1>1 DEF AsSeen, Kind, AtAnyPrice
  <1>4. QED
    BY <1>1, <1>2, <1>3 DEF x

\* The price addMarketOrder puts into a market order.
LEMMA PricedSeen ==
    ASSUME NEW o \in Order
    PROVE  /\ AsSeen(Priced(o)) = AsSeen(o) /\ Kind(Priced(o)) = Kind(o)
           /\ Priced(Priced(o)) = Priced(o) /\ Priced(o).id = o.id
           /\ Sound(o) => Sound(Priced(o))
  <1> DEFINE x == Priced(o)
  <1>1. /\ x.open = o.open /\ x.executed = o.executed
        /\ x.id = o.id /\ x.side = o.side /\ x.type = o.type /\ x.tif = o.tif
        /\ o.type # "MARKET" => x.price = o.price
        /\ Priced(x) = x
    BY DEF Priced, Order
  <1> HIDE DEF x
  <1>2. Kind(x) = Kind(o) /\ AsSeen(x) = AsSeen(o)
    BY <1>1 DEF AsSeen, Kind, AtAnyPrice
  <1>3. QED
    BY <1>1, <1>2 DEF x, Sound

\* A client does not see stop prices.
LEMMA StopPriceSeen ==
    ASSUME last_traded_price \in U64, NEW o \in Order
    PROVE  /\ AsSeen(CalculateStopPrice(o)) = AsSeen(o)
           /\ AsSeen(WithStopPrice(o)) = AsSeen(o) /\ Kind(WithStopPrice(o)) = Kind(o)
           /\ Sound(o) => Sound(CalculateStopPrice(o)) /\ Sound(WithStopPrice(o))
  <1> DEFINE x == CalculateStopPrice(o)
  <1>1. /\ x.open = o.open /\ x.executed = o.executed
        /\ x.side = o.side /\ x.type = o.type /\ x.tif = o.tif /\ x.price = o.price
    BY DEF CalculateStopPrice, Order
  <1> HIDE DEF x
  <1>2. Kind(x) = Kind(o) /\ AsSeen(x) = AsSeen(o)
    BY <1>1 DEF AsSeen, Kind, AtAnyPrice
  <1>3. QED
    BY <1>1, <1>2 DEF x, Sound, WithStopPrice

\* A stop order goes to the market.
OnMarket(v) == [v EXCEPT !.stop = FALSE]

\* A stop order that is set off becomes an order on the market (activateStopOrder).
LEMMA TriggeredSeen ==
    ASSUME NEW o \in Order, Kind(o) # "limit"
    PROVE  /\ AsSeen(Triggered(o)) = OnMarket(AsSeen(o)) /\ Triggered(o).open = o.open
           /\ AsSeen(o).stop /\ Kind(Triggered(o)) = "limit"
           /\ Sound(o) => Sound(Triggered(o))
  <1> DEFINE x == Triggered(o)
             v == AsSeen(x)
             u == AsSeen(o)
             w == [u EXCEPT !.stop = FALSE]
  <1>1. /\ x.open = o.open /\ x.executed = o.executed
        /\ x.side = o.side /\ x.tif = o.tif /\ x.price = o.price
        /\ x.type = IF o.type \in {"STOP", "TRAILING_STOP"} THEN "MARKET" ELSE "LIMIT"
    BY DEF Triggered, Order
  <1>2. o.type \in {"STOP", "STOP_LIMIT", "TRAILING_STOP", "TRAILING_STOP_LIMIT"}
    BY DEF Kind, Order, OrderType
  <1>3. x \in Order
    BY TriggeredTyped
  <1> HIDE DEF x
  <1>4. Kind(x) = "limit" /\ AtAnyPrice(x) = AtAnyPrice(o)
    BY <1>1, <1>2 DEF Kind, AtAnyPrice
  <1>5. /\ v.side = u.side /\ ~v.stop /\ u.stop /\ v.limit = u.limit /\ v.rests = u.rests
        /\ v.open = u.open /\ v.executed = u.executed
    BY <1>1, <1>4 DEF AsSeen
  <1>6. v \in View /\ u \in View
    BY <1>3, SeenTyped
  <1> HIDE DEF v, u
  <1>7. /\ w \in View /\ w.side = u.side /\ ~w.stop /\ w.limit = u.limit
        /\ w.rests = u.rests /\ w.open = u.open /\ w.executed = u.executed
        /\ w.stop = v.stop
    BY <1>5, <1>6 DEF View
  <1> HIDE DEF w
  <1>8. v = w
    BY <1>5, <1>6, <1>7, SameView
  <1>9. QED
    BY <1>1, <1>4, <1>5, <1>8 DEF x, v, u, w, Sound, OnMarket

-----------------------------------------------------------------------------
(* Where the copy of an order is                                           *)

\* An entry that is dropped takes its order out of the book.
LEMMA BookWithout ==
    ASSUME NEW index, NEW id \in DOMAIN index
    PROVE  InBook(index) = InBook(Drop(index, id)) \union {index[id].order}
    BY DEF InBook, Drop

\* An entry that is put brings its order into the book.
LEMMA BookWith ==
    ASSUME NEW index, NEW id, NEW e
    PROVE  InBook(Put(index, id, e)) = InBook(Drop(index, id)) \union {e.order}
    BY DEF InBook, Drop, Put

\* An entry that is changed replaces its order.
LEMMA BookChanged ==
    ASSUME NEW index, NEW new, NEW id \in DOMAIN index, DOMAIN new = DOMAIN index,
           \A i \in DOMAIN index : i # id => new[i] = index[i]
    PROVE  InBook(new) = InBook(Drop(index, id)) \union {new[id].order}
    BY DEF InBook, Drop

\* Dropping an id that is not there changes nothing.
LEMMA NothingToDrop ==
    ASSUME NEW index, NEW id, id \notin DOMAIN index
    PROVE  InBook(Drop(index, id)) = InBook(index)
    BY DEF InBook, Drop

\* Every entry holds the order of its id, in whatever state the call is.
LEMMA EntriesRight ==
    ASSUME IndexInv
    PROVE  IdsRight(orders) /\ orders \in [DOMAIN orders -> Entry]
           /\ \A id \in DOMAIN orders : orders[id].order \in Order
  <1>1. BookTyped
    BY Parts
  <1>2. orders \in [DOMAIN orders -> Entry] /\ \A id \in DOMAIN orders : orders[id].order \in Order
    BY <1>1, EntryTyped DEF BookTyped, IsMap
  <1>3. IdsRight(orders)
    BY DEF IndexInv, Still, Underway, Indexed, IdsRight
  <1>4. QED
    BY <1>2, <1>3

\* The copy c, and those of the other orders.
Parted(others, c) == Unique(others) /\ Fresh(c.id, others) /\ Alive = Seen(others \union {c})

\* The order of an entry, and all other copies.
LEMMA EntryParted ==
    ASSUME IndexInv, Apart, NEW id \in DOMAIN orders
    PROVE  Parted(InBook(Drop(orders, id)) \union Carried(stack), orders[id].order)
  <1> DEFINE others == InBook(Drop(orders, id)) \union Carried(stack)
             c      == orders[id].order
  <1>1. IdsRight(orders) /\ c.id = id
    BY EntriesRight DEF IdsRight
  <1>2. InBook(orders) \union Carried(stack) = others \union {c}
    BY BookWithout
  <1>3. Unique(InBook(orders) \union Carried(stack))
    BY <1>1, CopiesUnique DEF Apart
  <1>4. Unique(others)
    BY <1>2, <1>3 DEF Unique
  <1>5. \A o \in InBook(Drop(orders, id)) : o.id # id
    BY <1>1 DEF InBook, Drop, IdsRight
  <1>6. \A o \in Carried(stack) : o.id # id
    BY DEF Carried, Apart, Distinct
  <1>7. Fresh(c.id, others)
    BY <1>1, <1>5, <1>6 DEF Fresh
  <1>8. QED
    BY <1>2, <1>4, <1>7, AliveIsSeen DEF Parted

\* The order the innermost call holds, and all other copies.
LEMMA CallParted ==
    ASSUME IndexInv, Apart, stack # <<>>, Carries(Top)
    PROVE  Parted(InBook(orders) \union Carried(Tail(stack)), Top.order)
  <1> DEFINE others == InBook(orders) \union Carried(Tail(stack))
             c      == Top.order
  <1>1. IdsRight(orders) /\ stack \in Seq(Frame) /\ Tail(stack) \in Seq(Frame)
    BY EntriesRight, Parts DEF GoodStack
  <1>2. /\ Distinct(Tail(stack), DOMAIN orders) /\ c.id \notin DOMAIN orders
        /\ Distinct(Tail(stack), DOMAIN orders \union {c.id})
    BY <1>1, ReturnDistinct DEF Apart, Top
  <1>3. Unique(others)
    BY <1>1, <1>2, CopiesUnique
  <1>4. InBook(orders) \union Carried(stack) = others \union {c}
    BY <1>1, CarriedPop DEF Top
  <1>5. \A o \in InBook(orders) : o.id # c.id
    BY <1>1, <1>2 DEF InBook, IdsRight
  <1>6. \A o \in Carried(Tail(stack)) : o.id # c.id
    BY <1>2 DEF Carried, Distinct
  <1>7. Fresh(c.id, others)
    BY <1>5, <1>6 DEF Fresh
  <1>8. QED
    BY <1>3, <1>4, <1>7, AliveIsSeen DEF Parted

\* A copy takes the place of another.
LEMMA AliveReplaced ==
    ASSUME NEW others, NEW c, NEW d, Parted(others, c), c.id = d.id, Alive' = Seen(others \union {d})
    PROVE  /\ c.open # 0 =>
                /\ c.id \in DOMAIN Alive /\ Alive[c.id] = AsSeen(c)
                /\ Alive' = Promise!Open([Alive EXCEPT ![c.id] = AsSeen(d)])
           /\ AsSeen(c) = AsSeen(d) => Alive' = Alive
           /\ c.open = 0 /\ d.open = 0 => Alive' = Alive
  <1>1. Unique(others) /\ Fresh(c.id, others) /\ Fresh(d.id, others) /\ Alive = Seen(others \union {c})
    BY DEF Parted
  <1>2. ASSUME c.open # 0
        PROVE  /\ c.id \in DOMAIN Alive /\ Alive[c.id] = AsSeen(c)
               /\ Alive' = Promise!Open([Alive EXCEPT ![c.id] = AsSeen(d)])
    <2>1. /\ c.id \in DOMAIN Seen(others \union {c}) /\ Seen(others \union {c})[c.id] = AsSeen(c)
          /\ Seen(others \union {d})
               = Promise!Open([Seen(others \union {c}) EXCEPT ![c.id] = AsSeen(d)])
      BY <1>1, <1>2, SeenReplaced
    <2>2. QED
      BY <1>1, <1>2, <2>1
  <1>3. ASSUME AsSeen(c) = AsSeen(d)
        PROVE  Alive' = Alive
    BY <1>1, <1>3, SeenSame
  <1>4. ASSUME c.open = 0, d.open = 0
        PROVE  Alive' = Alive
    BY <1>1, <1>4, SeenClosed
  <1>5. QED
    BY <1>2, <1>3, <1>4

\* A copy goes.
LEMMA AliveWithout ==
    ASSUME NEW others, NEW c, Parted(others, c), Alive' = Seen(others)
    PROVE  /\ c.open # 0 =>
                /\ c.id \in DOMAIN Alive /\ Alive[c.id] = AsSeen(c)
                /\ Alive' = Promise!Without(c.id)
           /\ c.open = 0 => Alive' = Alive
  <1>1. Unique(others) /\ Fresh(c.id, others) /\ Alive = Seen(others \union {c})
    BY DEF Parted
  <1>2. CASE c.open # 0
    <2>1. /\ c.id \in DOMAIN Seen(others \union {c}) /\ Seen(others \union {c})[c.id] = AsSeen(c)
          /\ Seen(others) = [id \in DOMAIN Seen(others \union {c}) \ {c.id} |->
                                Seen(others \union {c})[id]]
      BY <1>1, <1>2, SeenWithout
    <2>2. QED
      BY <1>1, <1>2, <2>1 DEF Promise!Without
  <1>3. CASE c.open = 0
    BY <1>1, <1>3, SeenClosed
  <1>4. QED
    BY <1>2, <1>3

-----------------------------------------------------------------------------
(* Stacks of calls that know their orders                                  *)

\* A call that knows its order may be made.
LEMMA StackPushed ==
    ASSUME NEW s \in Seq(Frame), NEW f \in Frame, StackOK(s), FrameOK(f),
           f.pc \in {"check", "match", "reissue"} => s # <<>>
    PROVE  StackOK(<<f>> \o s)
  <1> DEFINE t == <<f>> \o s
  <1>1. /\ DOMAIN t = 1 .. Len(s) + 1 /\ DOMAIN s = 1 .. Len(s) /\ Len(s) \in Nat
        /\ Len(t) = Len(s) + 1 /\ t[1] = f /\ (s # <<>> => Len(s) # 0)
        /\ \A i \in DOMAIN t : i # 1 => i - 1 \in DOMAIN s /\ t[i] = s[i - 1]
    OBVIOUS
  <1> HIDE DEF t
  <1>2. QED
    BY <1>1 DEF StackOK, t

\* Below the innermost call are calls that know their orders.
LEMMA StackPopped ==
    ASSUME NEW s \in Seq(Frame), s # <<>>, StackOK(s)
    PROVE  /\ StackOK(Tail(s)) /\ Tail(s) \in Seq(Frame)
           /\ Head(s) \in Frame /\ FrameOK(Head(s))
           /\ Head(s).pc \in {"check", "match", "reissue"} => Tail(s) # <<>>
  <1> DEFINE t == Tail(s)
  <1>1. /\ DOMAIN s = 1 .. Len(s) /\ DOMAIN t = 1 .. Len(s) - 1 /\ Len(s) \in Nat /\ Len(s) # 0
        /\ Head(s) = s[1] /\ Len(t) = Len(s) - 1 /\ t \in Seq(Frame) /\ Head(s) \in Frame
        /\ \A i \in DOMAIN t : i + 1 \in DOMAIN s /\ t[i] = s[i + 1]
        /\ (t = <<>> => Len(s) = 1)
    OBVIOUS
  <1> HIDE DEF t
  <1>2. QED
    BY <1>1 DEF StackOK, t

\* Calls that hold no order.
LEMMA IdleFrames ==
    ASSUME last_traded_price \in U64, NEW side \in Side, NEW activated \in BOOLEAN
    PROVE  \A f \in {BeginActivation, Scan("stop", side, activated),
                     Scan("trailing", side, activated), Update(side, activated)} :
             f \in Frame /\ ~Carries(f) /\ FrameOK(f)
                /\ f.pc \notin {"check", "match", "reissue"}
  <1>1. \A f \in {BeginActivation, Scan("stop", side, activated),
                  Scan("trailing", side, activated), Update(side, activated)} :
             f.pc \in {"begin", "scan", "update"}
    BY DEF BeginActivation, Scan, Update
  <1>2. BeginActivation \in Frame
    BY DEF BeginActivation, Frame, BeginFrame
  <1>3. \A f \in {BeginActivation, Scan("stop", side, activated),
                  Scan("trailing", side, activated), Update(side, activated)} : f \in Frame
    BY <1>2, ScansTyped DEF Busy
  <1>4. QED
    BY <1>1, <1>3 DEF Carries, FrameOK

\* Calls of addOrder and match.
LEMMA OrderFrames ==
    ASSUME NEW o \in Order, Sound(o)
    PROVE  /\ AddFrame(o) \in Frame /\ Carries(AddFrame(o)) /\ FrameOK(AddFrame(o))
           /\ AddFrame(o).order = o /\ AddFrame(o).pc \notin {"check", "match", "reissue"}
           /\ Kind(o) = "limit" =>
                /\ MatchFrame(o) \in Frame /\ Carries(MatchFrame(o)) /\ FrameOK(MatchFrame(o))
                /\ MatchFrame(o).order = Priced(o) /\ MatchFrame(o).order.id = o.id
           /\ Kind(o) # "limit" =>
                LET again == [pc |-> "reissue", order |-> o, available |-> 0] IN
                again \in Frame /\ Carries(again) /\ FrameOK(again)
  <1>1. /\ AddFrame(o) \in Frame /\ MatchFrame(o) \in Frame
        /\ [pc |-> "reissue", order |-> o, available |-> 0] \in Frame
    BY FramesTyped DEF Busy
  <1>2. /\ AddFrame(o).order = o /\ AddFrame(o).pc = "add"
        /\ MatchFrame(o).order = Priced(o) /\ MatchFrame(o).pc \in {"check", "match"}
    BY DEF AddFrame, MatchFrame
  <1>3. /\ Sound(Priced(o)) /\ Kind(Priced(o)) = Kind(o) /\ Priced(Priced(o)) = Priced(o)
        /\ Priced(o).id = o.id
    BY PricedSeen
  <1>4. QED
    BY <1>1, <1>2, <1>3 DEF Carries, FrameOK

\* A call holding an order, on top of one that holds none.
LEMMA CarriedTwo ==
    ASSUME NEW s \in Seq(Frame), NEW f \in Frame, NEW g \in Frame, Carries(f), ~Carries(g),
           StackOK(s), FrameOK(f), FrameOK(g), g.pc \notin {"check", "match", "reissue"}
    PROVE  /\ Carried(<<f, g>> \o s) = Carried(s) \union {f.order}
           /\ StackOK(<<f, g>> \o s) /\ <<f, g>> \o s \in Seq(Frame) /\ <<f, g>> \o s # <<>>
  <1>1. <<f, g>> \o s = <<f>> \o (<<g>> \o s) /\ <<g>> \o s \in Seq(Frame) /\ <<g>> \o s # <<>>
    BY TwoCalls
  <1>2. StackOK(<<g>> \o s) /\ Carried(<<g>> \o s) = Carried(s)
    BY StackPushed, CarriedPush
  <1>3. /\ StackOK(<<f>> \o (<<g>> \o s))
        /\ Carried(<<f>> \o (<<g>> \o s)) = Carried(s) \union {f.order}
    BY <1>1, <1>2, StackPushed, CarriedPush
  <1>4. <<f>> \o (<<g>> \o s) \in Seq(Frame) /\ <<f>> \o (<<g>> \o s) # <<>>
    BY <1>1
  <1>5. QED
    BY <1>1, <1>3, <1>4

\* The innermost call of a stack, which holds an order.
LEMMA Carrier ==
    ASSUME IndexInv, Apart, ClientInv, NEW pc \in {"add", "check", "match", "reissue"}, At(pc)
    PROVE  /\ stack \in Seq(Frame) /\ stack # <<>> /\ Top.pc = pc /\ Carries(Top)
           /\ Tail(stack) \in Seq(Frame) /\ StackOK(Tail(stack))
           /\ pc # "add" => Tail(stack) # <<>>
           /\ Top \in OrderFrame /\ Top.order \in Order /\ Sound(Top.order) /\ FrameOK(Top)
           /\ last_traded_price \in U64
           /\ Parted(InBook(orders) \union Carried(Tail(stack)), Top.order)
  <1>1. /\ stack \in Seq(Frame) /\ stack # <<>> /\ Top = Head(stack) /\ Carries(Top)
        /\ Tail(stack) \in Seq(Frame) /\ Top \in OrderFrame /\ Top.order \in Order
        /\ last_traded_price \in U64 /\ Top.pc = pc
    BY CarrierState DEF At
  <1>2. StackOK(Tail(stack)) /\ FrameOK(Top) /\ (pc # "add" => Tail(stack) # <<>>)
    BY <1>1, StackPopped DEF ClientInv
  <1>3. Sound(Top.order)
    BY <1>1, <1>2 DEF FrameOK
  <1>4. QED
    BY <1>1, <1>2, <1>3, CallParted

-----------------------------------------------------------------------------
(* Steps of the promise                                                    *)

Promised == [Promise!Next]_(Promise!vars)

\* Nothing a client sees changes.
LEMMA Unseen ==
    ASSUME Alive' = Alive, last_traded_price' = last_traded_price,
           stack # <<>> <=> stack' # <<>>
    PROVE  Promised
    BY DEF Promised, Promise!vars

\* Only the last call of a request returns.
LEMMA Finished ==
    ASSUME Alive' = Alive, last_traded_price' = last_traded_price, stack # <<>>
    PROVE  Promised
  <1>1. CASE stack' = <<>>
    BY <1>1 DEF Promised, Promise!Next, Promise!Finish
  <1>2. CASE stack' # <<>>
    BY <1>2, Unseen
  <1>3. QED
    BY <1>1, <1>2

\* All orders seen are open.
LEMMA AliveOpen ==
    ASSUME NEW others, NEW c, Parted(others, c)
    PROVE  /\ Alive = [id \in DOMAIN Alive |-> Alive[id]]
           /\ \A id \in DOMAIN Alive : Alive[id].open # 0
  <1>1. Unique(others \union {c}) /\ Alive = Seen(others \union {c})
    BY OneMore DEF Parted
  <1>2. /\ \A id \in DOMAIN Alive : \E d \in others \union {c} : d.id = id /\ d.open # 0
        /\ \A d \in others \union {c} : d.open # 0 => Alive[d.id] = AsSeen(d)
        /\ Alive = [id \in DOMAIN Alive |-> Alive[id]]
    BY <1>1, SeenIs
  <1>3. \A d : AsSeen(d).open = d.open
    BY DEF AsSeen
  <1>4. QED
    BY <1>2, <1>3

\* An order goes to the market.
LEMMA Triggers ==
    ASSUME NEW others, NEW c, NEW d, Parted(others, c), c.id = d.id, Alive' = Seen(others \union {d}),
           AsSeen(c).stop, AsSeen(d) = OnMarket(AsSeen(c)), c.open = d.open,
           last_traded_price' = last_traded_price, stack # <<>>, stack' # <<>>
    PROVE  Promised
  <1>1. /\ c.open # 0 =>
              /\ c.id \in DOMAIN Alive /\ Alive[c.id] = AsSeen(c)
              /\ Alive' = Promise!Open([Alive EXCEPT ![c.id] = AsSeen(d)])
        /\ c.open = 0 => Alive' = Alive
    BY AliveReplaced
  <1>2. /\ \A id \in DOMAIN Alive : Alive[id].open # 0
        /\ AsSeen(d).open = d.open
    BY AliveOpen DEF AsSeen
  <1>3. CASE c.open = 0
    BY <1>1, <1>3, Unseen
  <1>4. CASE c.open # 0
    <2> DEFINE f == [Alive EXCEPT ![c.id].stop = FALSE]
    <2>1. f = [Alive EXCEPT ![c.id] = AsSeen(d)]
      BY <1>1, <1>4 DEF OnMarket
    <2>2. DOMAIN f = DOMAIN Alive /\ \A id \in DOMAIN f : f[id].open # 0
      BY <1>1, <1>2, <1>4, <2>1
    <2>3. f = [id \in DOMAIN f |-> f[id]]
      OBVIOUS
    <2> HIDE DEF f
    <2>4. Alive' = Promise!Open(f)
      BY <1>1, <1>4, <2>1
    <2>5. {id \in DOMAIN f : f[id].open # 0} = DOMAIN f
      BY <2>2
    <2>6. Promise!Open(f) = f
      BY <2>3, <2>5 DEF Promise!Open
    <2>7. Promise!Trigger(c.id)
      BY <1>1, <1>4, <2>4, <2>6 DEF Promise!Trigger, f
    <2>8. QED
      BY <1>1, <1>4, <2>7 DEF Promised, Promise!Next
  <1>5. QED
    BY <1>3, <1>4

\* What is left of an order that may not rest is given up.
LEMMA GivesUp ==
    ASSUME NEW others, NEW c, Parted(others, c), Alive' = Seen(others),
           c.open # 0 => ~AsSeen(c).stop /\ ~AsSeen(c).rests,
           last_traded_price' = last_traded_price, stack # <<>>, stack' # <<>>
    PROVE  Promised
  <1>1. CASE c.open = 0
    <2>1. Alive' = Alive
      BY <1>1, AliveWithout
    <2>2. QED
      BY <2>1, Unseen
  <1>2. CASE c.open # 0
    <2>1. c.id \in DOMAIN Alive /\ Alive[c.id] = AsSeen(c) /\ Alive' = Promise!Without(c.id)
      BY <1>2, AliveWithout
    <2>2. Promise!GiveUp(c.id)
      BY <1>2, <2>1 DEF Promise!GiveUp
    <2>3. QED
      BY <2>1, <2>2 DEF Promised, Promise!Next
  <1>3. QED
    BY <1>1, <1>2

-----------------------------------------------------------------------------
(* The steps of addOrder and match                                         *)

\* The invariant in the next state, said of the primed variables.
LEMMA NextInv == ClientInv' <=> StackOK(stack') /\ OrdersOK(orders')
    BY DEF ClientInv, StackOK, OrdersOK, FrameOK, OrderOK, Sound, Carries

\* An order is handed to match.
LEMMA ToMatch ==
    ASSUME IndexInv, Apart, ClientInv, NEW pc \in {"add", "check", "match", "reissue"}, At(pc),
           NEW o \in Order, Sound(o), Kind(o) = "limit", o.id = Top.order.id,
           \/ AsSeen(o) = AsSeen(Top.order)
           \/ /\ AsSeen(Top.order).stop /\ AsSeen(o) = OnMarket(AsSeen(Top.order))
              /\ o.open = Top.order.open,
           orders' = orders, last_traded_price' = last_traded_price,
           \/ stack' = <<MatchFrame(o), BeginActivation>> \o Tail(stack)
           \/ pc # "add" /\ stack' = <<MatchFrame(o)>> \o Tail(stack)
    PROVE  Promised /\ ClientInv'
  <1> DEFINE others == InBook(orders) \union Carried(Tail(stack))
             frame  == MatchFrame(o)
  <1>1. /\ stack # <<>> /\ Tail(stack) \in Seq(Frame) /\ StackOK(Tail(stack))
        /\ pc # "add" => Tail(stack) # <<>>
        /\ Parted(others, Top.order) /\ last_traded_price \in U64
    BY Carrier
  <1>2. /\ frame \in Frame /\ Carries(frame) /\ FrameOK(frame) /\ frame.order = Priced(o)
        /\ frame.order.id = o.id
    BY OrderFrames
  <1>3. /\ BeginActivation \in Frame /\ ~Carries(BeginActivation) /\ FrameOK(BeginActivation)
        /\ BeginActivation.pc \notin {"check", "match", "reissue"}
    BY <1>1, IdleFrames, "SELL" \in Side, TRUE \in BOOLEAN DEF Side
  <1>4. AsSeen(Priced(o)) = AsSeen(o) /\ Priced(o).open = o.open
    BY PricedSeen DEF Priced, Order
  <1> HIDE DEF frame
  <1>5. StackOK(stack') /\ Carried(stack') = Carried(Tail(stack)) \union {frame.order} /\ stack' # <<>>
    <2>1. CASE stack' = <<frame, BeginActivation>> \o Tail(stack)
      BY <1>1, <1>2, <1>3, <2>1, CarriedTwo
    <2>2. CASE pc # "add" /\ stack' = <<frame>> \o Tail(stack)
      <3>1. <<frame>> \o Tail(stack) # <<>>
        BY <1>1, <1>2
      <3>2. QED
        BY <1>1, <1>2, <2>2, <3>1, CarriedPush, StackPushed
    <2>3. QED
      BY <2>1, <2>2 DEF frame
  <1>6. Alive' = Seen(others \union {frame.order})
    <2>1. InBook(orders') \union Carried(stack') = others \union {frame.order}
      BY <1>5
    <2>2. QED
      BY <2>1, AliveIsSeen
  <1> HIDE DEF others
  <1>7. Promised
    <2>1. CASE AsSeen(o) = AsSeen(Top.order)
      <3>1. Top.order.id = frame.order.id /\ AsSeen(Top.order) = AsSeen(frame.order)
        BY <1>2, <1>4, <2>1
      <3>2. Alive' = Alive
        BY <1>1, <1>6, <3>1, AliveReplaced
      <3>3. QED
        BY <1>1, <1>5, <3>2, Unseen
    <2>2. CASE /\ AsSeen(Top.order).stop /\ AsSeen(o) = OnMarket(AsSeen(Top.order))
               /\ o.open = Top.order.open
      BY <1>1, <1>2, <1>4, <1>5, <1>6, <2>2, Triggers
    <2>3. QED
      BY <2>1, <2>2
  <1>8. QED
    BY <1>5, <1>7, NextInv DEF ClientInv

\* addMarketOrder and addLimitOrder change nothing a client sees.
LEMMA AddToMarketPromised ==
    ASSUME IndexInv, Apart, ClientInv, AddToMarket
    PROVE  Promised /\ ClientInv'
  <1>1. /\ At("add") /\ Kind(Top.order) = "limit" /\ orders' = orders
        /\ last_traded_price' = last_traded_price
        /\ stack' = <<MatchFrame(Top.order), BeginActivation>> \o Tail(stack)
    BY DEF AddToMarket, Proceed, book, prices
  <1>2. Top.order \in Order /\ Sound(Top.order)
    BY <1>1, Carrier
  <1>3. QED
    BY <1>1, <1>2, ToMatch

\* A stop order that is due when it arrives goes to the market.
LEMMA AddReachedStopPromised ==
    ASSUME IndexInv, Apart, ClientInv, AddReachedStop
    PROVE  Promised /\ ClientInv'
  <1> DEFINE o == Top.order
             s == WithStopPrice(o)
             d == Triggered(s)
  <1>1. /\ At("add") /\ Kind(o) # "limit" /\ orders' = orders
        /\ last_traded_price' = last_traded_price
        /\ stack' = <<MatchFrame(d), BeginActivation>> \o Tail(stack)
    BY DEF AddReachedStop, Proceed, book, prices
  <1>2. o \in Order /\ Sound(o) /\ last_traded_price \in U64
    BY <1>1, Carrier
  <1>3. /\ s \in Order /\ s.id = o.id /\ Sound(s) /\ AsSeen(s) = AsSeen(o) /\ Kind(s) # "limit"
    BY <1>1, <1>2, WithStopPriceTyped, StopPriceSeen
  <1>4. s.open = o.open
    BY <1>3 DEF AsSeen
  <1> HIDE DEF s
  <1>5. /\ d \in Order /\ d.id = s.id /\ Sound(d) /\ Kind(d) = "limit" /\ d.open = s.open
        /\ AsSeen(d) = OnMarket(AsSeen(s)) /\ AsSeen(s).stop
    BY <1>3, TriggeredTyped, TriggeredSeen
  <1> HIDE DEF d
  <1>6. QED
    BY <1>1, <1>3, <1>4, <1>5, ToMatch

\* A stop order that was activated goes to the market.
LEMMA ReissueOrderPromised ==
    ASSUME IndexInv, Apart, ClientInv, ReissueOrder
    PROVE  Promised /\ ClientInv'
  <1> DEFINE o == Top.order
             d == Triggered(o)
  <1>1. /\ At("reissue") /\ orders' = orders /\ last_traded_price' = last_traded_price
        /\ stack' = <<MatchFrame(d)>> \o Tail(stack)
    BY DEF ReissueOrder, Becomes, Proceed, book, prices
  <1>2. o \in Order /\ Sound(o) /\ Kind(o) # "limit"
    BY <1>1, Carrier DEF FrameOK
  <1>3. /\ d \in Order /\ d.id = o.id /\ Sound(d) /\ Kind(d) = "limit" /\ d.open = o.open
        /\ AsSeen(d) = OnMarket(AsSeen(o)) /\ AsSeen(o).stop
    BY <1>2, TriggeredTyped, TriggeredSeen
  <1> HIDE DEF d
  <1>4. QED
    BY <1>1, <1>3, ToMatch

\* canMatchOrder changes no order.
LEMMA CheckLiquidityPromised ==
    ASSUME IndexInv, Apart, ClientInv, CheckLiquidity
    PROVE  Promised /\ ClientInv'
  <1> DEFINE others == InBook(orders) \union Carried(Tail(stack))
  <1>1. /\ stack # <<>> /\ Tail(stack) \in Seq(Frame) /\ StackOK(Tail(stack))
        /\ Tail(stack) # <<>> /\ Top \in OrderFrame /\ FrameOK(Top) /\ Top.pc = "check"
        /\ Parted(others, Top.order)
    BY Carrier DEF CheckLiquidity
  <1>2. PICK available :
          stack' = <<[Top EXCEPT !.available = available,
                                 !.pc = IF available >= Top.order.open THEN "match" ELSE "check"]>>
                     \o Tail(stack)
    BY Zenon DEF CheckLiquidity, Becomes, Proceed
  <1> DEFINE pc    == IF available >= Top.order.open THEN "match" ELSE "check"
             frame == [Top EXCEPT !.available = available, !.pc = pc]
  <1>3. orders' = orders /\ last_traded_price' = last_traded_price
    BY DEF CheckLiquidity, book, prices
  <1>4. frame.order = Top.order /\ frame.pc = pc
    BY <1>1 DEF OrderFrame
  <1>5. frame \in Frame
    <2>1. IndexInv'
      BY StepKeepsIndex DEF Step
    <2>2. stack' \in Seq(Frame)
      BY <2>1, PartsPrime DEF GoodStack
    <2>3. frame = stack'[1] /\ 1 \in DOMAIN stack'
      BY <1>1, <1>2, <2>2
    <2>4. QED
      BY <2>2, <2>3
  <1>6. Carries(frame) /\ FrameOK(frame)
    BY <1>1, <1>4 DEF Carries, FrameOK
  <1> HIDE DEF frame
  <1>7. StackOK(stack') /\ Carried(stack') = Carried(Tail(stack)) \union {Top.order} /\ stack' # <<>>
    <2>1. stack' = <<frame>> \o Tail(stack)
      BY <1>2 DEF frame
    <2>2. <<frame>> \o Tail(stack) # <<>>
      BY <1>1, <1>5
    <2>3. QED
      BY <1>1, <1>4, <1>5, <1>6, <2>1, <2>2, CarriedPush, StackPushed
  <1>8. Alive' = Alive
    <2>1. InBook(orders') \union Carried(stack') = others \union {Top.order}
      BY <1>3, <1>7
    <2>2. QED
      BY <1>1, <2>1, AliveIsSeen DEF Parted
  <1>9. QED
    BY <1>1, <1>3, <1>7, <1>8, Unseen, NextInv DEF ClientInv

\* A failed assertion, or a step that concerns levels only.
LEMMA NothingMoves ==
    ASSUME ClientInv, orders' = orders, stack' = stack, last_traded_price' = last_traded_price
    PROVE  Promised /\ ClientInv'
  <1>1. InBook(orders') \union Carried(stack') = InBook(orders) \union Carried(stack)
    OBVIOUS
  <1>2. Alive' = Alive
    BY <1>1, AliveIsSeen
  <1>3. QED
    BY <1>2, Unseen, NextInv DEF ClientInv

\* The order a call holds goes into the book.
LEMMA Inserts ==
    ASSUME IndexInv, Apart, ClientInv, NEW pc \in {"add", "check", "match"}, At(pc),
           NEW o \in Order, o.id = Top.order.id, OrderOK(o), AsSeen(o) = AsSeen(Top.order),
           NEW events,
           \/ pc # "add" /\ Insert(o, <<>>, events)
           \/ Insert(o, <<BeginActivation>>, events)
    PROVE  Promised /\ ClientInv'
  <1> DEFINE others == InBook(orders) \union Carried(Tail(stack))
             e      == [order |-> o, level_it |-> KeyOf(o)]
  <1>1. /\ stack # <<>> /\ Tail(stack) \in Seq(Frame) /\ StackOK(Tail(stack))
        /\ pc # "add" => Tail(stack) # <<>>
        /\ Parted(others, Top.order) /\ last_traded_price \in U64
    BY Carrier
  <1>2. /\ BeginActivation \in Frame /\ ~Carries(BeginActivation) /\ FrameOK(BeginActivation)
        /\ BeginActivation.pc \notin {"check", "match", "reissue"}
    BY <1>1, IdleFrames, "SELL" \in Side, TRUE \in BOOLEAN DEF Side
  <1>3. CASE UNCHANGED <<orders, stack, last_traded_price>>
    BY <1>3, NothingMoves
  <1>4. CASE /\ o.id \notin DOMAIN orders /\ orders' = Put(orders, o.id, e)
             /\ last_traded_price' = last_traded_price
             /\ \/ pc # "add" /\ stack' = <<>> \o Tail(stack)
                \/ stack' = <<BeginActivation>> \o Tail(stack)
    <2>1. InBook(orders') = InBook(orders) \union {o}
      <3>1. InBook(orders') = InBook(Drop(orders, o.id)) \union {e.order}
        BY <1>4, BookWith
      <3>2. QED
        BY <1>4, <3>1, NothingToDrop
    <2>2. stack' # <<>> /\ StackOK(stack') /\ Carried(stack') = Carried(Tail(stack))
      <3>1. CASE pc # "add" /\ stack' = <<>> \o Tail(stack)
        <4>1. stack' = Tail(stack)
          BY <1>1, <3>1
        <4>2. QED
          BY <1>1, <3>1, <4>1
      <3>2. CASE stack' = <<BeginActivation>> \o Tail(stack)
        <4>1. <<BeginActivation>> \o Tail(stack) # <<>>
          BY <1>1, <1>2
        <4>2. QED
          BY <1>1, <1>2, <3>2, <4>1, CarriedPush, StackPushed
      <3>3. QED
        BY <1>4, <3>1, <3>2
    <2>3. InBook(orders') \union Carried(stack') = others \union {o}
      BY <2>1, <2>2
    <2>4. Alive' = Seen(others \union {o})
      BY <2>3, AliveIsSeen
    <2>5. Alive' = Alive
      BY <1>1, <2>4, AliveReplaced
    <2>6. OrdersOK(orders')
      BY <1>4 DEF ClientInv, OrdersOK, Put
    <2>7. QED
      BY <1>1, <1>4, <2>2, <2>5, <2>6, Unseen, NextInv
  <1>5. QED
    BY <1>3, <1>4 DEF Insert, Abort, Proceed, book, prices

\* A stop order that waits moves from the call into the book.
LEMMA AddPendingStopPromised ==
    ASSUME IndexInv, Apart, ClientInv, AddPendingStop
    PROVE  Promised /\ ClientInv'
  <1> DEFINE o == Top.order
             s == WithStopPrice(o)
  <1>1. /\ At("add") /\ Kind(o) # "limit" /\ Insert(s, <<BeginActivation>>, <<Added(o)>>)
    BY DEF AddPendingStop
  <1>2. o \in Order /\ Sound(o) /\ last_traded_price \in U64
    BY <1>1, Carrier
  <1>3. /\ s \in Order /\ s.id = o.id /\ Sound(s) /\ AsSeen(s) = AsSeen(o) /\ Kind(s) # "limit"
    BY <1>1, <1>2, WithStopPriceTyped, StopPriceSeen
  <1>4. OrderOK(s)
    BY <1>3 DEF OrderOK
  <1> HIDE DEF s
  <1>5. QED
    BY <1>1, <1>3, <1>4, Inserts

\* What match has left of an order rests, or is given up.
LEMMA CompletePromised ==
    ASSUME IndexInv, Apart, ClientInv, KillOrder \/ EndMatch
    PROVE  Promised /\ ClientInv'
  <1> DEFINE o      == Top.order
             others == InBook(orders) \union Carried(Tail(stack))
             rests  == o.type = "LIMIT" /\ o.open # 0 /\ o.tif \notin {"IOC", "FOK"}
  <1>1. PICK pc \in {"check", "match"} : At(pc)
    BY DEF KillOrder, EndMatch
  <1>2. /\ stack # <<>> /\ Tail(stack) \in Seq(Frame) /\ StackOK(Tail(stack)) /\ Tail(stack) # <<>>
        /\ o \in Order /\ Sound(o) /\ FrameOK(Top) /\ Top.pc = pc /\ Parted(others, o)
    BY <1>1, Carrier
  <1>3. Kind(o) = "limit"
    BY <1>2 DEF FrameOK
  <1>4. Complete(o)
    BY DEF KillOrder, EndMatch
  <1>5. CASE rests /\ Insert(o, <<>>, <<>>)
    <2>1. OrderOK(o)
      BY <1>2, <1>5 DEF OrderOK
    <2>2. QED
      BY <1>1, <1>2, <1>5, <2>1, Inserts
  <1>6. CASE ~rests /\ stack' = <<>> \o Tail(stack) /\ UNCHANGED <<orders, last_traded_price>>
    <2>1. stack' = Tail(stack)
      BY <1>2, <1>6
    <2>2. Alive' = Seen(others)
      <3>1. InBook(orders') \union Carried(stack') = others
        BY <1>6, <2>1
      <3>2. QED
        BY <3>1, AliveIsSeen
    <2>3. o.open # 0 => ~AsSeen(o).stop /\ ~AsSeen(o).rests
      <3>1. o.type \in {"MARKET", "LIMIT"}
        BY <1>2, <1>3 DEF Kind, Order, OrderType
      <3>2. QED
        BY <1>3, <1>6, <3>1 DEF AsSeen, AtAnyPrice
    <2>4. Promised
      BY <1>2, <1>6, <2>1, <2>2, <2>3, GivesUp
    <2>5. QED
      BY <1>2, <1>6, <2>1, <2>4, NextInv DEF ClientInv
  <1>7. QED
    BY <1>4, <1>5, <1>6 DEF Complete, Proceed, book, prices

-----------------------------------------------------------------------------
(* Trades                                                                  *)

\* Copies of two orders, and those of the others.
Two(others, c, d) ==
    Unique(others) /\ c.id # d.id /\ Fresh(c.id, others) /\ Fresh(d.id, others)

\* Two copies change.
LEMMA SeenTwo ==
    ASSUME NEW cs, NEW c, NEW d, NEW x, NEW y, Two(cs, c, d), x.id = c.id, y.id = d.id,
           c.open # 0, d.open # 0
    PROVE  /\ c.id \in DOMAIN Seen(cs \union {c, d}) /\ Seen(cs \union {c, d})[c.id] = AsSeen(c)
           /\ d.id \in DOMAIN Seen(cs \union {c, d}) /\ Seen(cs \union {c, d})[d.id] = AsSeen(d)
           /\ Seen(cs \union {x, y})
                = Promise!Open([Seen(cs \union {c, d}) EXCEPT ![c.id] = AsSeen(x),
                                                               ![d.id] = AsSeen(y)])
  <1> DEFINE f == Seen(cs \union {c, d})
             g == [f EXCEPT ![c.id] = AsSeen(x), ![d.id] = AsSeen(y)]
             h == Promise!Open(g)
  <1>1. Unique(cs \union {c, d}) /\ Unique(cs \union {x, y})
    BY DEF Two, Unique, Fresh
  <1>2. /\ \A z \in cs \union {c, d} : z.open # 0 => z.id \in DOMAIN f /\ f[z.id] = AsSeen(z)
        /\ \A id \in DOMAIN f : \E z \in cs \union {c, d} : z.id = id /\ z.open # 0
    BY <1>1, SeenIs
  <1> HIDE DEF f
  <1>3. /\ c.id \in DOMAIN f /\ f[c.id] = AsSeen(c) /\ d.id \in DOMAIN f /\ f[d.id] = AsSeen(d)
        /\ c.id # d.id /\ Fresh(c.id, cs) /\ Fresh(d.id, cs)
    BY <1>2 DEF Two
  <1>4. /\ DOMAIN g = DOMAIN f /\ g[c.id] = AsSeen(x) /\ g[d.id] = AsSeen(y)
        /\ \A id \in DOMAIN f : id # c.id /\ id # d.id => g[id] = f[id]
    BY <1>3
  <1> HIDE DEF g
  <1>5. \A z : AsSeen(z).open = z.open
    BY DEF AsSeen
  <1>6. /\ h = [id \in DOMAIN h |-> h[id]]
        /\ DOMAIN h = {id \in DOMAIN g : g[id].open # 0}
        /\ \A id \in DOMAIN h : h[id] = g[id]
    BY DEF Promise!Open
  <1> HIDE DEF h
  <1>7. \A z \in cs \union {x, y} : z.open # 0 => z.id \in DOMAIN h /\ h[z.id] = AsSeen(z)
    <2>1. \A z \in {x, y} : z.open # 0 => z.id \in DOMAIN h /\ h[z.id] = AsSeen(z)
      BY <1>3, <1>4, <1>5, <1>6
    <2>2. \A z \in cs : z.open # 0 => z.id \in DOMAIN g /\ g[z.id] = AsSeen(z)
      BY <1>2, <1>3, <1>4 DEF Fresh
    <2>3. \A z \in cs : z.open # 0 => z.id \in DOMAIN h /\ h[z.id] = AsSeen(z)
      BY <1>5, <1>6, <2>2
    <2>4. QED
      BY <2>1, <2>3
  <1>8. \A id \in DOMAIN h : \E z \in cs \union {x, y} : z.id = id /\ z.open # 0
    <2> SUFFICES ASSUME NEW id \in DOMAIN h
                 PROVE  \E z \in cs \union {x, y} : z.id = id /\ z.open # 0
      OBVIOUS
    <2>1. CASE id = c.id
      BY <1>4, <1>5, <1>6, <2>1
    <2>2. CASE id = d.id
      BY <1>4, <1>5, <1>6, <2>2
    <2>3. CASE id # c.id /\ id # d.id
      BY <1>2, <1>4, <1>6, <2>3
    <2>4. QED
      BY <2>1, <2>2, <2>3
  <1>9. Seen(cs \union {x, y}) = h
    BY <1>1, <1>6, <1>7, <1>8, SeenEquals
  <1>10. QED
    BY <1>3, <1>9 DEF f, g, h

\* What a client sees when two orders change.
LEMMA AliveTwo ==
    ASSUME NEW others, NEW c, NEW d, NEW x, NEW y, Two(others, c, d), x.id = c.id, y.id = d.id,
           c.open # 0, d.open # 0,
           Alive = Seen(others \union {c, d}), Alive' = Seen(others \union {x, y})
    PROVE  /\ c.id \in DOMAIN Alive /\ Alive[c.id] = AsSeen(c)
           /\ d.id \in DOMAIN Alive /\ Alive[d.id] = AsSeen(d)
           /\ Alive' = Promise!Open([Alive EXCEPT ![c.id] = AsSeen(x), ![d.id] = AsSeen(y)])
  <1>1. /\ c.id \in DOMAIN Seen(others \union {c, d}) /\ Seen(others \union {c, d})[c.id] = AsSeen(c)
        /\ d.id \in DOMAIN Seen(others \union {c, d}) /\ Seen(others \union {c, d})[d.id] = AsSeen(d)
        /\ Seen(others \union {x, y})
             = Promise!Open([Seen(others \union {c, d}) EXCEPT ![c.id] = AsSeen(x),
                                                               ![d.id] = AsSeen(y)])
    BY SeenTwo
  <1>2. QED
    BY <1>1

\* The order of an entry changes, and goes when nothing is open.
LEMMA SettleSeen ==
    ASSUME IndexInv, ClientInv, NEW frames \in Seq(Frame), frames # <<>>, StackOK(frames),
           NEW o, o.id \in DOMAIN orders, Sound(o), Kind(o) = "limit" => o.type = "LIMIT",
           NEW p, NEW amount, NEW events, Settle(o, p, amount, events, frames)
    PROVE  /\ o.open = 0 => InBook(orders') = InBook(Drop(orders, o.id))
           /\ o.open # 0 => InBook(orders') = InBook(Drop(orders, o.id)) \union {o}
           /\ Carried(stack') = Carried(frames) /\ StackOK(stack') /\ stack' # <<>>
           /\ OrdersOK(orders')
  <1>1. BeginActivation \in Frame /\ ~Carries(BeginActivation) /\ FrameOK(BeginActivation)
        /\ BeginActivation.pc \notin {"check", "match", "reissue"}
    BY DEF BeginActivation, Frame, BeginFrame, Carries, FrameOK
  <1>2. orders \in [DOMAIN orders -> Entry] /\ OrdersOK(orders)
    BY EntriesRight DEF ClientInv
  <1>3. CASE o.open = 0 /\ orders' = Drop(orders, o.id) /\ stack' = <<BeginActivation>> \o frames
    <2>1. <<BeginActivation>> \o frames # <<>>
      BY <1>1
    <2>2. StackOK(stack') /\ Carried(stack') = Carried(frames)
      BY <1>1, <1>3, CarriedPush, StackPushed
    <2>3. OrdersOK(orders')
      BY <1>2, <1>3 DEF OrdersOK, Drop
    <2>4. QED
      BY <1>3, <2>1, <2>2, <2>3
  <1>4. CASE o.open # 0 /\ orders' = [orders EXCEPT ![o.id].order = o] /\ stack' = frames
    <2>1. /\ DOMAIN orders' = DOMAIN orders /\ orders'[o.id].order = o
          /\ \A id \in DOMAIN orders : id # o.id => orders'[id] = orders[id]
      BY <1>2, <1>4 DEF Entry
    <2>2. InBook(orders') = InBook(Drop(orders, o.id)) \union {o}
      BY <2>1 DEF InBook, Drop
    <2>3. OrderOK(o)
      BY <1>4 DEF OrderOK
    <2>4. OrdersOK(orders')
      BY <1>2, <2>1, <2>3 DEF OrdersOK
    <2>5. QED
      BY <1>4, <2>2, <2>4
  <1>5. QED
    BY <1>3, <1>4 DEF Settle

\* The limit of an order that match holds is its price; so is that of a resting order.
LEMMA LimitIsPrice ==
    ASSUME NEW o \in Order, Kind(o) = "limit", Priced(o) = o \/ o.type = "LIMIT"
    PROVE  /\ AsSeen(o).limit = o.price /\ ~AsSeen(o).stop /\ AsSeen(o).side = o.side
           /\ AsSeen(o).open = o.open
  <1>1. o.type = "LIMIT" \/ (o.type = "MARKET" /\ Priced(o) = o)
    BY DEF Kind, Order, OrderType
  <1>2. o.type = "MARKET" => o.price = IF o.side = "SELL" THEN 0 ELSE MaxU64
    BY <1>1 DEF Priced, Order
  <1>3. QED
    BY <1>1, <1>2 DEF AsSeen, AtAnyPrice

\* std::min
LEMMA LesserIs ==
    ASSUME NEW a \in U64, NEW b \in U64
    PROVE  /\ Lesser(a, b) \in U64 /\ Lesser(a, b) \in {a, b}
           /\ Lesser(a, b) <= a /\ Lesser(a, b) <= b
    BY DEF Lesser, U64

\* An incoming order v and a resting order w may trade, at the limit of w.
MayTrade(v, w, quantity) ==
    /\ ~v.stop /\ ~w.stop
    /\ quantity \in {v.open, w.open} /\ quantity <= v.open /\ quantity <= w.open
    /\ w.limit <= w.limit   \* it is a number
    /\ \/ v.side = "BUY" /\ w.side = "SELL" /\ w.limit <= v.limit
       \/ v.side = "SELL" /\ w.side = "BUY" /\ v.limit <= w.limit

\* A trade as a client sees it: incoming order c becomes x, resting order d becomes y.
LEMMA Trades ==
    ASSUME NEW others, NEW c, NEW d, NEW x, NEW y, Two(others, c, d), x.id = c.id, y.id = d.id,
           c.open # 0, d.open # 0,
           Alive = Seen(others \union {c, d}), Alive' = Seen(others \union {x, y})
    PROVE  \A quantity :
             /\ MayTrade(AsSeen(c), AsSeen(d), quantity)
             /\ AsSeen(x) = Promise!Filled(AsSeen(c), quantity)
             /\ AsSeen(y) = Promise!Filled(AsSeen(d), quantity)
             /\ last_traded_price' = AsSeen(d).limit /\ stack # <<>> /\ stack' # <<>>
             => Promised
  <1>1. /\ c.id \in DOMAIN Alive /\ Alive[c.id] = AsSeen(c)
        /\ d.id \in DOMAIN Alive /\ Alive[d.id] = AsSeen(d)
        /\ Alive' = Promise!Open([Alive EXCEPT ![c.id] = AsSeen(x), ![d.id] = AsSeen(y)])
    BY AliveTwo
  <1> TAKE quantity
  <1> HAVE /\ MayTrade(AsSeen(c), AsSeen(d), quantity)
           /\ AsSeen(x) = Promise!Filled(AsSeen(c), quantity)
           /\ AsSeen(y) = Promise!Filled(AsSeen(d), quantity)
           /\ last_traded_price' = AsSeen(d).limit /\ stack # <<>> /\ stack' # <<>>
  <1>2. c.id # d.id
    BY DEF Two
  <1>3. CASE AsSeen(c).side = "BUY"
    <2>1. Alive' = Promise!Open([Alive EXCEPT ![c.id] = Promise!Filled(@, quantity),
                                              ![d.id] = Promise!Filled(@, quantity)])
      BY <1>1, <1>2
    <2>2. Promise!Trade(c.id, d.id)
      BY <1>1, <1>3, <2>1 DEF Promise!Trade, MayTrade
    <2>3. QED
      BY <1>1, <2>2 DEF Promised, Promise!Next
  <1>4. CASE AsSeen(c).side # "BUY"
    <2>1. Alive' = Promise!Open([Alive EXCEPT ![d.id] = Promise!Filled(@, quantity),
                                              ![c.id] = Promise!Filled(@, quantity)])
      <3>1. [Alive EXCEPT ![c.id] = AsSeen(x), ![d.id] = AsSeen(y)]
              = [Alive EXCEPT ![d.id] = AsSeen(y), ![c.id] = AsSeen(x)]
        BY <1>1, <1>2
      <3>2. QED
        BY <1>1, <1>2, <3>1
    <2>2. Promise!Trade(d.id, c.id)
      <3>1. AsSeen(c).side = "SELL" /\ AsSeen(d).side = "BUY"
        BY <1>4 DEF MayTrade
      <3>2. QED
        BY <1>1, <2>1, <3>1 DEF Promise!Trade, MayTrade
    <2>3. QED
      BY <1>1, <2>2 DEF Promised, Promise!Next
  <1>5. QED
    BY <1>3, <1>4

\* One iteration of match is a trade of two orders at a price both accept.
LEMMA MatchPromised ==
    ASSUME IndexInv, Apart, ClientInv, Match
    PROVE  Promised /\ ClientInv'
  <1> DEFINE c == Top.order
             m == Contra(c)
  <1>1. /\ stack \in Seq(Frame) /\ stack # <<>> /\ Tail(stack) \in Seq(Frame) /\ StackOK(Tail(stack))
        /\ Tail(stack) # <<>> /\ Top \in OrderFrame /\ c \in Order /\ Sound(c) /\ FrameOK(Top)
        /\ Top.pc = "match" /\ Carries(Top) /\ c.open # 0
        /\ Parted(InBook(orders) \union Carried(Tail(stack)), c)
    BY Carrier DEF Match
  <1>2. PICK p \in DOMAIN levels[m] : Crosses(p, c) /\ Trade(p)
    BY DEF Match, BestCrossing
  <1> DEFINE id       == Head(levels[m][p].orders)
             d        == orders[id].order
             quantity == Lesser(c.open, d.open)
             x        == Execute(c, d.price, quantity)
             y        == Execute(d, d.price, quantity)
             frame    == [Top EXCEPT !.order = x]
             frames   == <<frame>> \o Tail(stack)
             others   == InBook(Drop(orders, id)) \union Carried(Tail(stack))
  <1>3. /\ id \in DOMAIN orders /\ d \in Order /\ d.id = id /\ MapOf(d) = m /\ d.price = p
        /\ Kind(d) = "limit" /\ d.side = Opposite(c.side)
    <2>1. Still /\ m \in LevelMap
      BY <1>1, CallFindsIndex DEF Match, Contra, Opposite, LevelMap, Side
    <2>2. id \in DOMAIN orders /\ d \in Order /\ d.id = id /\ MapOf(d) = m
      BY <1>2, <2>1, FrontToEntry
    <2>3. KeyOf(d) = p
      <3>1. levels[m][p].orders \in Seq(OrderId) /\ levels[m][p].orders # <<>>
        BY <1>2, <2>1, Parts, LevelTyped DEF Still, NonEmpty
      <3>2. id \in Range(levels[m][p].orders)
        BY <3>1, TailQueue, <1>2, <2>1 DEF Still, QueuesOK
      <3>3. QED
        BY <1>2, <2>1, <3>2 DEF Still, QueuesOK
    <2>4. QED
      BY <2>2, <2>3 DEF MapOf, KeyOf, Contra
  <1>4. Sound(d) /\ d.type = "LIMIT" /\ d.open # 0
    BY <1>3 DEF ClientInv, OrdersOK, OrderOK
  <1>5. Kind(c) = "limit" /\ Priced(c) = c
    BY <1>1 DEF FrameOK
  <1>6. quantity \in U64 /\ quantity <= c.open /\ quantity <= d.open /\ d.price \in U64
    <2>1. c.open \in U64 /\ d.open \in U64 /\ d.price \in U64
      BY <1>1, <1>3 DEF Order
    <2>2. QED
      BY <2>1, LesserIs
  <1>7. /\ Sound(x) /\ x.id = c.id /\ x \in Order /\ SamePlace(x, c)
        /\ Sound(y) /\ y.id = d.id /\ y \in Order /\ SamePlace(y, d)
        /\ AsSeen(x) = Promise!Filled(AsSeen(c), quantity)
        /\ AsSeen(y) = Promise!Filled(AsSeen(d), quantity)
    BY <1>1, <1>3, <1>4, <1>6, ExecuteSeen, ExecuteTyped, WidthAssumption, Zenon
  <1>8. \/ UNCHANGED <<orders, stack, last_traded_price>>
        \/ last_traded_price' = d.price /\ \E events : Settle(y, p, quantity, events, frames)
    BY <1>2, Zenon DEF Trade, Abort, book, prices
  <1>9. /\ Unique(others) /\ Fresh(c.id, others) /\ Fresh(d.id, others) /\ c.id # d.id
        /\ Alive = Seen(others \union {c, d})
    <2>1. InBook(orders) = InBook(Drop(orders, id)) \union {d}
      BY <1>3, BookWithout, Zenon
    <2>2. /\ Unique(InBook(orders) \union Carried(Tail(stack)))
          /\ Fresh(c.id, InBook(orders) \union Carried(Tail(stack)))
          /\ Alive = Seen((InBook(orders) \union Carried(Tail(stack))) \union {c})
      BY <1>1 DEF Parted
    <2>3. Unique(others) /\ Fresh(c.id, others) /\ c.id # d.id
      BY <2>1, <2>2, Zenon DEF Unique, Fresh
    <2>4. (InBook(orders) \union Carried(Tail(stack))) \union {c} = others \union {c, d}
      BY <2>1
    <2>5. Fresh(d.id, others)
      <3>1. Parted(InBook(Drop(orders, id)) \union Carried(stack), d)
        BY <1>3, EntryParted
      <3>2. Carried(Tail(stack)) \subseteq Carried(stack)
        BY <1>1, CarriedPop DEF Top
      <3>3. QED
        BY <3>1, <3>2, Zenon DEF Parted, Fresh
    <2>6. QED
      BY <2>2, <2>3, <2>4, <2>5, Zenon
  <1> HIDE DEF m, d, x, y
  <1>10. MayTrade(AsSeen(c), AsSeen(d), quantity) /\ AsSeen(d).limit = d.price
    <2>1. /\ AsSeen(c).limit = c.price /\ ~AsSeen(c).stop /\ AsSeen(c).side = c.side
          /\ AsSeen(c).open = c.open
          /\ AsSeen(d).limit = d.price /\ ~AsSeen(d).stop /\ AsSeen(d).side = d.side
          /\ AsSeen(d).open = d.open
      BY <1>1, <1>3, <1>4, <1>5, LimitIsPrice
    <2>2. /\ quantity \in {c.open, d.open} /\ quantity <= c.open /\ quantity <= d.open
          /\ d.price <= d.price
      BY <1>6 DEF Lesser, U64
    <2> HIDE DEF quantity
    <2>3. \/ c.side = "BUY" /\ d.side = "SELL" /\ d.price <= c.price
          \/ c.side = "SELL" /\ d.side = "BUY" /\ c.price <= d.price
      <3>1. c.side \in Side /\ d.price \in U64 /\ c.price \in U64
        BY <1>1, <1>3 DEF Order
      <3>2. Crosses(d.price, c) /\ d.side = Opposite(c.side)
        BY <1>2, <1>3
      <3>3. QED
        BY <3>1, <3>2 DEF Crosses, Opposite, Side, U64
    <2>4. QED
      BY <2>1, <2>2, <2>3 DEF MayTrade
  <1> HIDE DEF quantity
  <1>11. frame \in Frame /\ frame.order = x /\ frame.pc = "match"
    BY <1>1, <1>7 DEF OrderFrame, Frame
  <1>12. Carries(frame) /\ FrameOK(frame)
    <2>1. Kind(x) = "limit" /\ Priced(x) = x
      BY <1>1, <1>5, <1>7 DEF SamePlace, Kind, Priced, Order
    <2>2. QED
      BY <1>7, <1>11, <2>1 DEF Carries, FrameOK
  <1> HIDE DEF frame
  <1>13. /\ frames \in Seq(Frame) /\ frames # <<>> /\ StackOK(frames)
         /\ Carried(frames) = Carried(Tail(stack)) \union {x}
    <2>1. frames \in Seq(Frame) /\ frames # <<>>
      BY <1>1, <1>11
    <2>2. StackOK(frames)
      BY <1>1, <1>11, <1>12, StackPushed
    <2>3. Carried(frames) = Carried(Tail(stack)) \union {x}
      BY <1>1, <1>11, <1>12, CarriedPush
    <2>4. QED
      BY <2>1, <2>2, <2>3
  <1> HIDE DEF frames
  <1>14. CASE UNCHANGED <<orders, stack, last_traded_price>>
    BY <1>14, NothingMoves
  <1>15. ASSUME last_traded_price' = d.price, NEW events, Settle(y, p, quantity, events, frames)
         PROVE  Promised /\ ClientInv'
    <2>1. y.id \in DOMAIN orders /\ y.type = "LIMIT"
      BY <1>3, <1>4, <1>7 DEF SamePlace
    <2>2. /\ y.open = 0 => InBook(orders') = InBook(Drop(orders, y.id))
          /\ y.open # 0 => InBook(orders') = InBook(Drop(orders, y.id)) \union {y}
          /\ Carried(stack') = Carried(frames) /\ StackOK(stack') /\ stack' # <<>>
          /\ OrdersOK(orders')
      BY <1>7, <1>13, <1>15, <2>1, SettleSeen
    <2>3. \/ InBook(orders') \union Carried(stack') = others \union {x, y}
          \/ y.open = 0 /\ InBook(orders') \union Carried(stack') = others \union {x}
      BY <1>3, <1>7, <1>13, <2>2
    <2>4. Alive' = Seen(others \union {x, y})
      <3>1. CASE InBook(orders') \union Carried(stack') = others \union {x, y}
        BY <3>1, AliveIsSeen
      <3>2. CASE y.open = 0 /\ InBook(orders') \union Carried(stack') = others \union {x}
        <4>1. Unique(others \union {x}) /\ Fresh(y.id, others \union {x})
          BY <1>7, <1>9, OneMore DEF Fresh
        <4>2. Seen((others \union {x}) \union {y}) = Seen(others \union {x})
          BY <3>2, <4>1, SeenClosed
        <4>3. (others \union {x}) \union {y} = others \union {x, y}
          OBVIOUS
        <4>4. QED
          BY <3>2, <4>2, <4>3, AliveIsSeen
      <3>3. QED
        BY <2>3, <3>1, <3>2
    <2> HIDE DEF others
    <2>5. Two(others, c, d) /\ Alive = Seen(others \union {c, d})
      BY <1>9 DEF Two
    <2>6. Promised
      <3>1. /\ c.open # 0 /\ d.open # 0 /\ x.id = c.id /\ y.id = d.id
            /\ last_traded_price' = AsSeen(d).limit /\ stack # <<>>
        BY <1>1, <1>4, <1>7, <1>10, <1>15
      <3>2. QED
        BY <1>7, <1>10, <2>2, <2>4, <2>5, <3>1, Trades
    <2>7. QED
      BY <2>2, <2>6, NextInv
  <1>16. QED
    BY <1>8, <1>14, <1>15

-----------------------------------------------------------------------------
(* The steps of activateStopOrders                                         *)

\* A client does not notice that copies change places.
LEMMA SameCopies ==
    ASSUME InBook(orders') \union Carried(stack') = InBook(orders) \union Carried(stack)
    PROVE  Alive' = Alive
    BY AliveIsSeen

\* Scans carry nothing and move nothing.
LEMMA ScanPromised ==
    ASSUME IndexInv, ClientInv,
           StartActivation \/ EndScan \/ SwapTrailingLevels \/ KeepTrailingLevels
    PROVE  Promised /\ ClientInv'
  <1>1. /\ stack \in Seq(Frame) /\ stack # <<>> /\ Tail(stack) \in Seq(Frame)
        /\ ~Carries(Head(stack)) /\ StackOK(Tail(stack))
    <2>1. /\ stack \in Seq(Frame) /\ stack # <<>>
          /\ Head(stack).pc \in {"begin", "scan", "update"}
      BY Parts DEF GoodStack, StartActivation, EndScan, SwapTrailingLevels, KeepTrailingLevels, At, Top
    <2>2. StackOK(Tail(stack)) /\ Tail(stack) \in Seq(Frame)
      BY <2>1, StackPopped DEF ClientInv
    <2>3. QED
      BY <2>1, <2>2 DEF Carries
  <1>2. orders' = orders /\ last_traded_price' = last_traded_price
    BY DEF StartActivation, EndScan, SwapTrailingLevels, KeepTrailingLevels, book, prices
  <1>3. Carried(stack) = Carried(Tail(stack))
    BY <1>1, CarriedPop
  <1>4. \/ stack' = <<>> \o Tail(stack)
        \/ \E f : stack' = <<f>> \o Tail(stack) /\ ~Carries(f)
    <2>1. /\ ~Carries(BeginActivation)
          /\ \A kind, side, activated :
               ~Carries(Scan(kind, side, activated)) /\ ~Carries(Update(side, activated))
      BY DEF BeginActivation, Scan, Update, Carries
    <2>2. CASE StartActivation
      BY <2>1, <2>2 DEF StartActivation, Becomes, Proceed
    <2>3. CASE EndScan
      BY <2>1, <2>3 DEF EndScan, Becomes, Proceed
    <2>4. CASE SwapTrailingLevels \/ KeepTrailingLevels
      <3>1. stack' = AfterUpdate(Top) \o Tail(stack)
        BY <2>4 DEF SwapTrailingLevels, KeepTrailingLevels, Proceed
      <3>2. \/ AfterUpdate(Top) = <<Scan("stop", "SELL", FALSE)>>
            \/ AfterUpdate(Top) = <<BeginActivation>>
            \/ AfterUpdate(Top) = <<>>
        BY DEF AfterUpdate
      <3>3. QED
        BY <2>1, <3>1, <3>2
    <2>5. QED
      BY <2>2, <2>3, <2>4
  <1>5. StackOK(stack') /\ Carried(stack') = Carried(Tail(stack))
    <2>1. CASE stack' = <<>> \o Tail(stack)
      <3>1. stack' = Tail(stack)
        BY <1>1, <2>1
      <3>2. QED
        BY <1>1, <3>1
    <2>2. ASSUME NEW f, stack' = <<f>> \o Tail(stack), ~Carries(f)
          PROVE  StackOK(stack') /\ Carried(stack') = Carried(Tail(stack))
      <3>1. stack' \in Seq(Frame)
        BY StepKeepsIndex, PartsPrime DEF Step, GoodStack
      <3>2. f = stack'[1] /\ 1 \in DOMAIN stack'
        BY <1>1, <2>2, <3>1
      <3>3. f \in Frame
        BY <3>1, <3>2
      <3>4. FrameOK(f) /\ f.pc \notin {"check", "match", "reissue"}
        BY <2>2 DEF FrameOK, Carries
      <3>5. StackOK(<<f>> \o Tail(stack)) /\ Carried(<<f>> \o Tail(stack)) = Carried(Tail(stack))
        BY <1>1, <2>2, <3>3, <3>4, StackPushed, CarriedPush
      <3>6. QED
        BY <2>2, <3>5
    <2>3. QED
      BY <1>4, <2>1, <2>2
  <1>6. InBook(orders') \union Carried(stack') = InBook(orders) \union Carried(stack)
    BY <1>2, <1>3, <1>5
  <1>7. Alive' = Alive
    BY <1>6, SameCopies
  <1>8. Promised
    BY <1>1, <1>2, <1>7, Finished
  <1>9. QED
    BY <1>2, <1>5, <1>8, NextInv DEF ClientInv

\* A trailing stop order changes its stop price only.
LEMMA MoveTrailingStopPromised ==
    ASSUME IndexInv, Apart, ClientInv, MoveTrailingStop
    PROVE  Promised /\ ClientInv'
  <1> DEFINE m == <<"trailing", Top.side>>
  <1>1. /\ BookTyped /\ ControlTyped /\ stack # <<>> /\ Top.pc = "update" /\ Top.side \in Side
    BY UpdateFindsCall, Zenon DEF MoveTrailingStop
  <1>2. Underway /\ last_traded_price \in U64 /\ m \in LevelMap
    BY <1>1, StillUnderway, Zenon DEF IndexInv, MoveTrailingStop, ControlTyped, LevelMap
  <1>3. PICK p \in DOMAIN levels[m] :
          /\ levels[m][p].orders # <<>>
          /\ LET o == orders[Head(levels[m][p].orders)].order
                 s == CalculateStopPrice(o)
             IN  orders' = [orders EXCEPT ![o.id] = [order |-> s, level_it |-> s.stop]]
    BY Zenon DEF MoveTrailingStop
  <1> DEFINE id == Head(levels[m][p].orders)
             o  == orders[id].order
             s  == CalculateStopPrice(o)
  <1>4. id \in DOMAIN orders /\ o \in Order /\ o.id = id /\ MapOf(o) = m
    <2>1. id \in Range(levels[m][p].orders)
      BY <1>1, <1>2, <1>3, LevelTyped, TailQueue, Zenon DEF Underway, QueuesOK
    <2>2. id \in DOMAIN orders /\ MapOf(o) = m
      BY <1>2, <2>1 DEF Underway, QueuesOK
    <2>3. QED
      BY <2>2, EntriesRight DEF IdsRight
  <1>5. /\ s.id = o.id /\ AsSeen(s) = AsSeen(o) /\ Kind(s) = Kind(o)
        /\ Sound(o) => Sound(s)
    <2>1. s.id = id /\ Kind(s) = Kind(o)
      BY <1>2, <1>4, CalculateStopPriceTyped
    <2>2. QED
      BY <1>2, <1>4, <2>1, StopPriceSeen
  <1>6. Kind(o) = "trailing" /\ Sound(o)
    BY <1>4 DEF MapOf, ClientInv, OrdersOK, OrderOK
  <1>7. /\ DOMAIN orders' = DOMAIN orders /\ orders'[id].order = s
        /\ \A i \in DOMAIN orders : i # id => orders'[i] = orders[i]
    BY <1>3, <1>4, Zenon
  <1>8. stack' = stack /\ last_traded_price' = last_traded_price
    BY Zenon DEF MoveTrailingStop, prices
  <1> HIDE DEF s, o, id
  <1>9. InBook(orders') = InBook(Drop(orders, id)) \union {s}
    BY <1>4, <1>7, BookChanged
  <1>10. OrdersOK(orders')
    <2>1. OrderOK(s)
      BY <1>5, <1>6 DEF OrderOK
    <2>2. QED
      BY <1>7, <2>1 DEF ClientInv, OrdersOK
  <1>11. Alive' = Alive
    <2> DEFINE others == InBook(Drop(orders, id)) \union Carried(stack)
    <2>1. Parted(others, o)
      BY <1>4, EntryParted DEF o
    <2>2. InBook(orders') \union Carried(stack') = others \union {s}
      BY <1>8, <1>9
    <2>3. Alive' = Seen(others \union {s})
      BY <2>2, AliveIsSeen
    <2> HIDE DEF others
    <2>4. QED
      BY <1>5, <2>1, <2>3, AliveReplaced
  <1>12. QED
    BY <1>1, <1>8, <1>10, <1>11, Unseen, NextInv DEF ClientInv

\* An order that is to be activated leaves the book for a call.
LEMMA ActivateStopOrderPromised ==
    ASSUME IndexInv, Apart, ClientInv, ActivateStopOrder
    PROVE  Promised /\ ClientInv'
  <1> DEFINE m == <<Top.kind, Top.side>>
  <1>1. /\ Still /\ Top \in ScanFrame /\ stack \in Seq(Frame) /\ stack # <<>> /\ Top.pc = "scan"
        /\ Top = Head(stack)
    BY CallFindsIndex, Parts DEF ActivateStopOrder, GoodStack, Top
  <1>2. m \in LevelMap /\ Top.kind # "limit"
    BY <1>1 DEF ScanFrame, LevelMap
  <1>3. PICK p \in DOMAIN levels[m] :
          LET id == Head(levels[m][p].orders) IN
          Delete(id, << [pc |-> "reissue", order |-> orders[id].order, available |-> 0],
                        [Top EXCEPT !.activated = TRUE] >> \o Tail(stack))
    BY Zenon DEF ActivateStopOrder
  <1> DEFINE id    == Head(levels[m][p].orders)
             d     == orders[id].order
             again == [pc |-> "reissue", order |-> d, available |-> 0]
             scan  == [Top EXCEPT !.activated = TRUE]
  <1>4. id \in DOMAIN orders /\ d \in Order /\ d.id = id /\ Kind(d) # "limit"
    <2> HIDE DEF m
    <2>1. id \in DOMAIN orders /\ d \in Order /\ d.id = id /\ MapOf(d) = m
      BY <1>1, <1>2, FrontToEntry
    <2>2. Kind(d) = Top.kind
      BY <2>1 DEF m, MapOf
    <2>3. QED
      BY <1>2, <2>1, <2>2
  <1>5. Sound(d)
    BY <1>4 DEF ClientInv, OrdersOK, OrderOK
  <1>6. again \in Frame /\ Carries(again) /\ FrameOK(again) /\ again.order = d
    BY <1>4, <1>5, OrderFrames
  <1>7. scan \in Frame /\ ~Carries(scan) /\ FrameOK(scan) /\ scan.pc \notin {"check", "match", "reissue"}
    BY <1>1, Zenon DEF ScanFrame, Frame, Carries, FrameOK
  <1>8. /\ stack' = <<BeginActivation>> \o (<<again, scan>> \o Tail(stack))
        /\ orders' = Drop(orders, id) /\ last_traded_price' = last_traded_price
    BY <1>3, Zenon DEF Delete, prices
  <1>9. InBook(orders) = InBook(orders') \union {d}
    BY <1>4, <1>8, BookWithout, Zenon
  <1> HIDE DEF id, d, again, scan
  <1>10. Tail(stack) \in Seq(Frame) /\ StackOK(Tail(stack)) /\ Carried(stack) = Carried(Tail(stack))
    <2>1. Tail(stack) \in Seq(Frame) /\ StackOK(Tail(stack))
      BY <1>1, StackPopped DEF ClientInv
    <2>2. ~Carries(Head(stack))
      BY <1>1 DEF Carries
    <2>3. QED
      BY <1>1, <2>1, <2>2, CarriedPop
  <1> DEFINE frames == <<again, scan>> \o Tail(stack)
  <1>11. /\ Carried(frames) = Carried(Tail(stack)) \union {d}
         /\ StackOK(frames) /\ frames \in Seq(Frame)
    BY <1>6, <1>7, <1>10, CarriedTwo
  <1> HIDE DEF frames
  <1>12. StackOK(stack') /\ Carried(stack') = Carried(frames) /\ stack' # <<>>
    <2>1. BeginActivation \in Frame /\ ~Carries(BeginActivation) /\ FrameOK(BeginActivation)
          /\ BeginActivation.pc \notin {"check", "match", "reissue"}
      BY DEF BeginActivation, Frame, BeginFrame, Carries, FrameOK
    <2>2. <<BeginActivation>> \o frames # <<>>
      BY <1>11, <2>1
    <2>3. QED
      BY <1>8, <1>11, <2>1, <2>2, StackPushed, CarriedPush DEF frames
  <1>13. InBook(orders') \union Carried(stack') = InBook(orders) \union Carried(stack)
    BY <1>9, <1>10, <1>11, <1>12
  <1>14. Alive' = Alive
    BY <1>13, SameCopies
  <1>15. OrdersOK(orders')
    BY <1>8 DEF ClientInv, OrdersOK, Drop
  <1>16. QED
    BY <1>1, <1>8, <1>12, <1>14, <1>15, Unseen, NextInv

\* Every step of a call is one change that a client may expect, or none.
LEMMA StepPromised ==
    ASSUME IndexInv, Apart, ClientInv, Step
    PROVE  Promised /\ ClientInv'
    BY AddToMarketPromised, AddReachedStopPromised, AddPendingStopPromised, CheckLiquidityPromised,
       CompletePromised, MatchPromised, ScanPromised, MoveTrailingStopPromised,
       ActivateStopOrderPromised, ReissueOrderPromised DEF Step

-----------------------------------------------------------------------------
(* The requests                                                            *)

\* No call is in progress when a request comes.
LEMMA IdleState ==
    ASSUME IndexInv, ClientInv, Idle
    PROVE  /\ Still /\ stack = <<>> /\ Carried(stack) = {} /\ StackOK(<<>>)
           /\ <<>> \in Seq(Frame) /\ IdsRight(orders) /\ Alive = Seen(InBook(orders))
  <1>1. Still /\ stack = <<>>
    BY StillAt DEF Idle
  <1>2. Carried(stack) = {} /\ StackOK(<<>>)
    BY <1>1 DEF Carried, ClientInv
  <1>3. InBook(orders) \union Carried(stack) = InBook(orders)
    BY <1>2
  <1>4. Alive = Seen(InBook(orders))
    BY <1>3, AliveIsSeen
  <1>5. QED
    BY <1>1, <1>2, <1>4, EntriesRight

\* A request about an order of which nothing is open.
LEMMA Ignored ==
    ASSUME Alive' = Alive, stack = <<>>, stack' # <<>>
    PROVE  Promised
    BY DEF Promised, Promise!Next, Promise!Ignore, Promise!Request

\* addOrder brings one order that was not there.
LEMMA AddOrderPromised ==
    ASSUME CallerContract, IndexInv, Apart, ClientInv, NEW o \in Tickets, AddOrder(o)
    PROVE  Promised /\ ClientInv'
  <1> DEFINE cs == InBook(orders)
  <1>1. /\ stack = <<>> /\ StackOK(<<>>) /\ <<>> \in Seq(Frame) /\ IdsRight(orders)
        /\ Carried(stack) = {} /\ Alive = Seen(cs)
    BY IdleState DEF AddOrder
  <1>2. /\ stack' = <<AddFrame(o)>> /\ orders' = orders /\ last_traded_price' = last_traded_price
        /\ o.id \notin DOMAIN orders
    BY DEF AddOrder, book, prices
  <1>3. /\ o \in Order /\ o.executed = 0 /\ o.open \in Nat
        /\ Sound(o)
    BY InputsAssumption, MaxU64Assumption DEF Order, U64, Sound
  <1> DEFINE frame == AddFrame(o)
  <1>4. /\ frame \in Frame /\ Carries(frame) /\ FrameOK(frame) /\ frame.order = o
        /\ frame.pc \notin {"check", "match", "reissue"}
    BY <1>3, OrderFrames
  <1> HIDE DEF frame
  <1>5. StackOK(stack') /\ Carried(stack') = {o} /\ stack' # <<>>
    <2>1. <<frame>> \o <<>> = <<frame>> /\ <<frame>> # <<>>
      BY <1>4
    <2>2. StackOK(<<frame>> \o <<>>) /\ Carried(<<frame>> \o <<>>) = Carried(<<>>) \union {o}
      BY <1>1, <1>4, StackPushed, CarriedPush
    <2>3. QED
      BY <1>1, <1>2, <2>1, <2>2 DEF frame
  <1>6. Unique(cs) /\ Fresh(o.id, cs)
    <2>1. Unique(InBook(orders) \union Carried(stack))
      BY <1>1, CopiesUnique DEF Apart
    <2>2. QED
      BY <1>1, <1>2, <2>1 DEF InBook, IdsRight, Fresh
  <1>7. Alive' = Seen(cs \union {o})
    <2>1. InBook(orders') \union Carried(stack') = cs \union {o}
      BY <1>2, <1>5
    <2>2. QED
      BY <2>1, AliveIsSeen
  <1> HIDE DEF cs
  <1>8. Promised
    <2>1. CASE o.open = 0
      <3>1. Seen(cs \union {o}) = Seen(cs)
        BY <1>6, <2>1, SeenClosed
      <3>2. QED
        BY <1>1, <1>5, <1>7, <3>1, Ignored
    <2>2. CASE o.open # 0
      <3>1. /\ o.id \in DOMAIN Seen(cs \union {o}) /\ Seen(cs \union {o})[o.id] = AsSeen(o)
            /\ o.id \notin DOMAIN Seen(cs)
            /\ Seen(cs) = [id \in DOMAIN Seen(cs \union {o}) \ {o.id} |-> Seen(cs \union {o})[id]]
        BY <1>6, <2>2, SeenWithout
      <3>2. /\ o.id \in DOMAIN Alive' /\ Alive'[o.id] = AsSeen(o) /\ o.id \notin DOMAIN Alive
            /\ Alive = [id \in DOMAIN Alive' \ {o.id} |-> Alive'[id]]
        BY <1>1, <1>7, <3>1
      <3>3. Promise!Only(o.id)
        BY <3>2 DEF Promise!Only
      <3>4. Promise!AnOrder(AsSeen(o)) /\ AsSeen(o).executed = 0
        BY <1>3, <2>2 DEF Promise!AnOrder, AsSeen
      <3>5. Promise!Add
        BY <1>1, <1>2, <1>5, <3>2, <3>3, <3>4 DEF Promise!Add, Promise!Request
      <3>6. QED
        BY <3>5 DEF Promised, Promise!Next
    <2>3. QED
      BY <2>1, <2>2
  <1>9. QED
    BY <1>2, <1>5, <1>8, NextInv DEF ClientInv

\* deleteOrder takes one order away.
LEMMA DeleteOrderPromised ==
    ASSUME IndexInv, Apart, ClientInv, NEW id \in DOMAIN orders, DeleteOrder(id)
    PROVE  Promised /\ ClientInv'
  <1> DEFINE c      == orders[id].order
             others == InBook(Drop(orders, id)) \union Carried(stack)
  <1>1. /\ stack = <<>> /\ StackOK(<<>>) /\ <<>> \in Seq(Frame) /\ IdsRight(orders)
        /\ Carried(stack) = {}
    BY IdleState DEF DeleteOrder
  <1>2. /\ stack' = <<BeginActivation>> \o <<>> /\ orders' = Drop(orders, id)
        /\ last_traded_price' = last_traded_price
    BY DEF DeleteOrder, Delete, prices
  <1>3. Parted(others, c) /\ c.id = id
    BY <1>1, EntryParted DEF IdsRight
  <1>4. StackOK(stack') /\ Carried(stack') = {} /\ stack' # <<>>
    <2>1. BeginActivation \in Frame /\ ~Carries(BeginActivation) /\ FrameOK(BeginActivation)
          /\ BeginActivation.pc \notin {"check", "match", "reissue"}
      BY DEF BeginActivation, Frame, BeginFrame, Carries, FrameOK
    <2>2. <<BeginActivation>> \o <<>> # <<>>
      BY <2>1
    <2>3. QED
      BY <1>1, <1>2, <2>1, <2>2, StackPushed, CarriedPush
  <1>5. Alive' = Seen(others)
    <2>1. InBook(orders') \union Carried(stack') = others
      BY <1>1, <1>2, <1>4
    <2>2. QED
      BY <2>1, AliveIsSeen
  <1> HIDE DEF others, c
  <1>6. Promised
    <2>1. CASE c.open = 0
      <3>1. Alive' = Alive
        BY <1>3, <1>5, <2>1, AliveWithout
      <3>2. QED
        BY <1>1, <1>4, <3>1, Ignored
    <2>2. CASE c.open # 0
      <3>1. id \in DOMAIN Alive /\ Alive' = Promise!Without(id)
        BY <1>3, <1>5, <2>2, AliveWithout
      <3>2. Promise!TakeBack(id)
        BY <1>1, <1>2, <1>4, <3>1 DEF Promise!TakeBack, Promise!Request
      <3>3. QED
        BY <3>1, <3>2 DEF Promised, Promise!Next
    <2>3. QED
      BY <2>1, <2>2
  <1>7. OrdersOK(orders')
    BY <1>2 DEF ClientInv, OrdersOK, Drop
  <1>8. QED
    BY <1>4, <1>6, <1>7, NextInv

\* The order id of f is v now, and has the id new.
Renamed(f, id, new, v) ==
    [i \in (DOMAIN f \ {id}) \union {new} |-> IF i = new THEN v ELSE f[i]]

\* A copy takes the place of that of another order, or of the same.
LEMMA SeenRenamed ==
    ASSUME NEW cs, Unique(cs), NEW c, NEW d, Fresh(c.id, cs), Fresh(d.id, cs),
           c.open # 0, d.open # 0
    PROVE  /\ c.id \in DOMAIN Seen(cs \union {c}) /\ Seen(cs \union {c})[c.id] = AsSeen(c)
           /\ d.id \in DOMAIN Seen(cs \union {d}) /\ Seen(cs \union {d})[d.id] = AsSeen(d)
           /\ d.id \notin DOMAIN Seen(cs \union {c}) \ {c.id}
           /\ Seen(cs \union {d}) = Renamed(Seen(cs \union {c}), c.id, d.id, AsSeen(d))
  <1> DEFINE f == Seen(cs \union {c})
             g == Seen(cs \union {d})
             r == Seen(cs)
             h == Renamed(f, c.id, d.id, AsSeen(d))
  <1>1. /\ c.id \in DOMAIN f /\ f[c.id] = AsSeen(c) /\ c.id \notin DOMAIN r
        /\ r = [id \in DOMAIN f \ {c.id} |-> f[id]]
    BY SeenWithout
  <1>2. /\ d.id \in DOMAIN g /\ g[d.id] = AsSeen(d) /\ d.id \notin DOMAIN r
        /\ r = [id \in DOMAIN g \ {d.id} |-> g[id]]
    BY SeenWithout
  <1>3. g = [id \in DOMAIN g |-> g[id]]
    BY DEF Seen
  <1> HIDE DEF f, g, r
  <1>4. DOMAIN r = DOMAIN f \ {c.id} /\ \A id \in DOMAIN r : r[id] = f[id]
    BY <1>1
  <1>5. DOMAIN r = DOMAIN g \ {d.id} /\ \A id \in DOMAIN r : r[id] = g[id]
    BY <1>2
  <1>6. /\ h = [id \in DOMAIN h |-> h[id]] /\ DOMAIN h = DOMAIN r \union {d.id}
        /\ h[d.id] = AsSeen(d) /\ \A id \in DOMAIN r : id # d.id => h[id] = f[id]
    BY <1>4 DEF Renamed
  <1> HIDE DEF h
  <1>7. DOMAIN g = DOMAIN h /\ \A id \in DOMAIN g : g[id] = h[id]
    BY <1>2, <1>4, <1>5, <1>6
  <1>8. g = h
    BY <1>3, <1>6, <1>7
  <1>9. QED
    BY <1>1, <1>2, <1>4, <1>8 DEF f, g, h

\* Another id and another price.
Modified(o, new_id, price) == [o EXCEPT !.id = new_id, !.price = price]

\* What a client sees of a modified order.
LEMMA ModifiedSeen ==
    ASSUME NEW o \in Order, NEW new_id \in OrderId, NEW price \in U64
    PROVE  /\ Modified(o, new_id, price) \in Order /\ Modified(o, new_id, price).id = new_id
           /\ Modified(o, new_id, price).open = o.open
           /\ Sound(o) => Sound(Modified(o, new_id, price))
           /\ AsSeen(Modified(o, new_id, price))
                = [AsSeen(o) EXCEPT !.limit = AsSeen(Modified(o, new_id, price)).limit]
  <1> DEFINE x == Modified(o, new_id, price)
  <1>1. /\ x \in Order /\ x.id = new_id /\ x.open = o.open /\ x.executed = o.executed
        /\ x.side = o.side /\ x.type = o.type /\ x.tif = o.tif
    BY DEF Modified, Order
  <1> HIDE DEF x
  <1> DEFINE v == AsSeen(x)
             u == AsSeen(o)
             w == [u EXCEPT !.limit = v.limit]
  <1>2. v \in View /\ u \in View
    BY <1>1, SeenTyped
  <1>3. /\ v.side = u.side /\ v.stop = u.stop /\ v.rests = u.rests
        /\ v.open = u.open /\ v.executed = u.executed
    BY <1>1 DEF AsSeen, Kind, AtAnyPrice
  <1> HIDE DEF v, u
  <1>4. /\ w \in View /\ w.side = u.side /\ w.stop = u.stop /\ w.limit = v.limit
        /\ w.rests = u.rests /\ w.open = u.open /\ w.executed = u.executed
    BY <1>2 DEF View
  <1> HIDE DEF w
  <1>5. v = w
    BY <1>2, <1>3, <1>4, SameView
  <1>6. QED
    BY <1>1, <1>5 DEF Sound, v, u, w, x

\* modifyOrder replaces one order by one of another id and price.
LEMMA ModifyOrderPromised ==
    ASSUME CallerContract, IndexInv, Apart, ClientInv, NEW id \in DOMAIN orders,
           NEW new_id \in OrderId, NEW price \in ModifyPrices, ModifyOrder(id, new_id, price)
    PROVE  Promised /\ ClientInv'
  <1> DEFINE c      == orders[id].order
             d      == Modified(c, new_id, price)
             others == InBook(Drop(orders, id)) \union Carried(stack)
  <1>1. /\ stack = <<>> /\ StackOK(<<>>) /\ <<>> \in Seq(Frame) /\ IdsRight(orders)
        /\ Carried(stack) = {} /\ c \in Order
    BY IdleState, EntriesRight DEF ModifyOrder
  <1>2. /\ stack' = <<BeginActivation>> \o <<AddFrame(d), BeginActivation>>
        /\ orders' = Drop(orders, id) /\ last_traded_price' = last_traded_price
        /\ new_id \notin DOMAIN orders \ {id}
    BY DEF ModifyOrder, Delete, Modified, prices
  <1>3. Parted(others, c) /\ c.id = id
    BY <1>1, EntryParted DEF IdsRight
  <1>4. Sound(c)
    BY DEF ClientInv, OrdersOK, OrderOK
  <1>5. /\ d \in Order /\ d.id = new_id /\ d.open = c.open /\ Sound(d)
        /\ AsSeen(d) = [AsSeen(c) EXCEPT !.limit = AsSeen(d).limit]
    <2>1. price \in U64
      BY InputsAssumption
    <2>2. QED
      BY <1>1, <1>4, <2>1, ModifiedSeen
  <1> HIDE DEF d
  <1> DEFINE frame == AddFrame(d)
  <1>6. /\ frame \in Frame /\ Carries(frame) /\ FrameOK(frame) /\ frame.order = d
        /\ frame.pc \notin {"check", "match", "reissue"}
    BY <1>5, OrderFrames
  <1> HIDE DEF frame
  <1>7. StackOK(stack') /\ Carried(stack') = {d} /\ stack' # <<>>
    <2>1. BeginActivation \in Frame /\ ~Carries(BeginActivation) /\ FrameOK(BeginActivation)
          /\ BeginActivation.pc \notin {"check", "match", "reissue"}
      BY DEF BeginActivation, Frame, BeginFrame, Carries, FrameOK
    <2> DEFINE s == <<frame, BeginActivation>>
    <2>2. s \o <<>> = s
      BY <1>6, <2>1
    <2>3. Carried(s \o <<>>) = Carried(<<>>) \union {d} /\ StackOK(s \o <<>>) /\ s \o <<>> \in Seq(Frame)
      BY <1>1, <1>6, <2>1, CarriedTwo
    <2> HIDE DEF s
    <2>4. Carried(s) = {d} /\ StackOK(s) /\ s \in Seq(Frame)
      BY <1>1, <2>2, <2>3
    <2>5. StackOK(<<BeginActivation>> \o s) /\ Carried(<<BeginActivation>> \o s) = {d}
      BY <2>1, <2>4, StackPushed, CarriedPush
    <2>6. <<BeginActivation>> \o s # <<>>
      BY <2>1, <2>4
    <2>7. QED
      BY <1>2, <2>5, <2>6 DEF s, frame
  <1>8. Alive' = Seen(others \union {d})
    <2>1. InBook(orders') \union Carried(stack') = others \union {d}
      BY <1>1, <1>2, <1>7
    <2>2. QED
      BY <2>1, AliveIsSeen
  <1>9. Unique(others) /\ Fresh(c.id, others) /\ Fresh(d.id, others) /\ Alive = Seen(others \union {c})
    <2>1. Fresh(d.id, others)
      BY <1>1, <1>2, <1>5 DEF Fresh, InBook, Drop, IdsRight
    <2>2. QED
      BY <1>3, <2>1 DEF Parted
  <1> HIDE DEF others, c
  <1>10. Promised
    <2>1. CASE c.open = 0
      <3>1. Seen(others \union {d}) = Seen(others) /\ Seen(others \union {c}) = Seen(others)
        BY <1>5, <1>9, <2>1, SeenClosed
      <3>2. QED
        BY <1>1, <1>7, <1>8, <1>9, <3>1, Ignored
    <2>2. CASE c.open # 0
      <3>1. /\ c.id \in DOMAIN Seen(others \union {c}) /\ Seen(others \union {c})[c.id] = AsSeen(c)
            /\ d.id \in DOMAIN Seen(others \union {d}) /\ Seen(others \union {d})[d.id] = AsSeen(d)
            /\ d.id \notin DOMAIN Seen(others \union {c}) \ {c.id}
            /\ Seen(others \union {d}) = Renamed(Seen(others \union {c}), c.id, d.id, AsSeen(d))
        <4>1. d.open # 0
          BY <1>5, <2>2
        <4>2. QED
          BY <1>9, <2>2, <4>1, SeenRenamed
      <3>2. /\ id \in DOMAIN Alive /\ Alive[id] = AsSeen(c)
            /\ d.id \in DOMAIN Alive' /\ Alive'[d.id] = AsSeen(d)
            /\ d.id \notin DOMAIN Alive \ {id}
            /\ Alive' = Renamed(Alive, id, d.id, AsSeen(d))
        BY <1>3, <1>8, <1>9, <3>1
      <3>3. AsSeen(d) = [Alive[id] EXCEPT !.limit = Alive'[d.id].limit]
        BY <1>5, <3>2
      <3>4. Alive' = [i \in (DOMAIN Alive \ {id}) \union {d.id} |->
                         IF i = d.id THEN [Alive[id] EXCEPT !.limit = Alive'[d.id].limit] ELSE Alive[i]]
        BY <3>2, <3>3 DEF Renamed
      <3>5. Promise!Replace(id)
        BY <1>1, <1>2, <1>7, <3>2, <3>4 DEF Promise!Replace, Promise!Request
      <3>6. QED
        BY <3>2, <3>5 DEF Promised, Promise!Next
    <2>3. QED
      BY <2>1, <2>2
  <1>11. OrdersOK(orders')
    BY <1>2 DEF ClientInv, OrdersOK, Drop
  <1>12. QED
    BY <1>7, <1>10, <1>11, NextInv

\* A request that changes what is open of an order.
LEMMA Settles ==
    ASSUME IndexInv, Apart, ClientInv, Idle, NEW id \in DOMAIN orders,
           NEW o, o.id = id, Sound(o), Kind(o) = "limit" => o.type = "LIMIT",
           NEW p, NEW amount, NEW events, Settle(o, p, amount, events, <<BeginActivation>>)
    PROVE  /\ stack = <<>> /\ stack' # <<>> /\ ClientInv'
           /\ orders[id].order.open # 0 =>
                /\ id \in DOMAIN Alive /\ Alive[id] = AsSeen(orders[id].order)
                /\ Alive' = Promise!Open([Alive EXCEPT ![id] = AsSeen(o)])
           /\ orders[id].order.open = 0 /\ o.open = 0 => Alive' = Alive
  <1> DEFINE c      == orders[id].order
             others == InBook(Drop(orders, id)) \union Carried(stack)
             frames == <<BeginActivation>>
  <1>1. /\ stack = <<>> /\ StackOK(<<>>) /\ <<>> \in Seq(Frame) /\ IdsRight(orders)
        /\ Carried(stack) = {}
    BY IdleState
  <1>2. Parted(others, c) /\ c.id = id
    BY <1>1, EntryParted DEF IdsRight
  <1>3. frames \in Seq(Frame) /\ frames # <<>> /\ StackOK(frames) /\ Carried(frames) = {}
    <2>1. BeginActivation \in Frame /\ ~Carries(BeginActivation) /\ FrameOK(BeginActivation)
          /\ BeginActivation.pc \notin {"check", "match", "reissue"}
      BY DEF BeginActivation, Frame, BeginFrame, Carries, FrameOK
    <2>2. <<BeginActivation>> \o <<>> = frames /\ frames \in Seq(Frame) /\ frames # <<>>
      BY <2>1
    <2>3. StackOK(<<BeginActivation>> \o <<>>) /\ Carried(<<BeginActivation>> \o <<>>) = Carried(<<>>)
      BY <1>1, <2>1, StackPushed, CarriedPush
    <2>4. QED
      BY <1>1, <2>2, <2>3
  <1> HIDE DEF frames
  <1>4. /\ o.open = 0 => InBook(orders') = InBook(Drop(orders, o.id))
        /\ o.open # 0 => InBook(orders') = InBook(Drop(orders, o.id)) \union {o}
        /\ Carried(stack') = Carried(frames) /\ StackOK(stack') /\ stack' # <<>>
        /\ OrdersOK(orders')
    <2>1. Settle(o, p, amount, events, frames)
      BY DEF frames
    <2>2. QED
      BY <1>3, <2>1, SettleSeen
  <1>5. Alive' = Seen(others \union {o})
    <2>1. CASE o.open # 0
      <3>1. InBook(orders') \union Carried(stack') = others \union {o}
        BY <1>1, <1>3, <1>4, <2>1
      <3>2. QED
        BY <3>1, AliveIsSeen
    <2>2. CASE o.open = 0
      <3>1. InBook(orders') \union Carried(stack') = others
        BY <1>1, <1>3, <1>4, <2>2
      <3>2. Unique(others) /\ Fresh(o.id, others)
        BY <1>2 DEF Parted
      <3>3. Seen(others \union {o}) = Seen(others)
        BY <2>2, <3>2, SeenClosed
      <3>4. QED
        BY <3>1, <3>3, AliveIsSeen
    <2>3. QED
      BY <2>1, <2>2
  <1> HIDE DEF others, c
  <1>6. /\ c.open # 0 =>
             /\ c.id \in DOMAIN Alive /\ Alive[c.id] = AsSeen(c)
             /\ Alive' = Promise!Open([Alive EXCEPT ![c.id] = AsSeen(o)])
        /\ c.open = 0 /\ o.open = 0 => Alive' = Alive
    BY <1>2, <1>5, AliveReplaced
  <1>7. QED
    BY <1>1, <1>2, <1>4, <1>6, NextInv DEF c

\* cancelOrder leaves less of one order, or nothing.
LEMMA CancelOrderPromised ==
    ASSUME CallerContract, IndexInv, Apart, ClientInv, NEW id \in DOMAIN orders,
           NEW quantity \in CancelQuantities, CancelOrder(id, quantity)
    PROVE  Promised /\ ClientInv'
  <1> DEFINE c      == orders[id].order
             o      == SetQuantity(c, quantity)
             amount == Minus(c.open, o.open)
             events == <<Updated(o)>>
             p      == orders[id].level_it
  <1>1. /\ Idle /\ quantity <= c.open
        /\ \/ Abort
           \/ /\ Settle(o, p, amount, events, <<BeginActivation>>)
              /\ last_traded_price' = last_traded_price
    BY DEF CancelOrder, prices
  <1>2. /\ c \in Order /\ c.id = id /\ Sound(c) /\ (Kind(c) = "limit" => c.type = "LIMIT")
        /\ quantity \in U64 /\ c.open \in U64 /\ quantity \in Nat /\ c.open \in Nat
    <2>1. c \in Order /\ c.id = id /\ quantity \in U64
      BY EntriesRight, InputsAssumption DEF IdsRight
    <2>2. QED
      BY <2>1 DEF ClientInv, OrdersOK, OrderOK, Order, U64
  <1>3. /\ o.id = id /\ Sound(o) /\ AsSeen(o) = [AsSeen(c) EXCEPT !.open = quantity]
        /\ SamePlace(o, c) /\ o.open = quantity
    <2>1. AsSeen(o) = [AsSeen(c) EXCEPT !.open = quantity] /\ Sound(o) /\ o.id = c.id
      BY <1>1, <1>2, SetQuantitySeen
    <2>2. SamePlace(o, c)
      BY <1>2, SetQuantityTyped
    <2>3. o.open = quantity
      BY <1>2 DEF SetQuantity, Order
    <2> HIDE DEF o, c
    <2>4. QED
      BY <1>2, <2>1, <2>2, <2>3
  <1>4. Kind(o) = "limit" => o.type = "LIMIT"
    BY <1>2, <1>3 DEF SamePlace, Kind
  <1> HIDE DEF o, amount, events, p
  <1>5. CASE Abort
    BY <1>5, NothingMoves DEF Abort, book, prices
  <1>6. CASE /\ Settle(o, p, amount, events, <<BeginActivation>>)
             /\ last_traded_price' = last_traded_price
    <2>1. /\ stack = <<>> /\ stack' # <<>> /\ ClientInv'
          /\ c.open # 0 =>
               /\ id \in DOMAIN Alive /\ Alive[id] = AsSeen(c)
               /\ Alive' = Promise!Open([Alive EXCEPT ![id] = AsSeen(o)])
          /\ c.open = 0 /\ o.open = 0 => Alive' = Alive
      BY <1>1, <1>3, <1>4, <1>6, Settles
    <2> HIDE DEF c
    <2>2. CASE c.open = 0
      <3>1. o.open = 0
        BY <1>1, <1>2, <1>3, <2>2
      <3>2. QED
        BY <2>1, <2>2, <3>1, Ignored
    <2>3. CASE c.open # 0
      <3>1. id \in DOMAIN Alive /\ Alive[id] = AsSeen(c)
        BY <2>1, <2>3
      <3>2. Alive' = Promise!Open([Alive EXCEPT ![id].open = quantity])
        BY <1>3, <2>1, <2>3
      <3>3. quantity \in 0 .. Alive[id].open
        BY <1>1, <1>2, <3>1 DEF AsSeen
      <3>4. Promise!Reduce(id)
        BY <1>6, <2>1, <3>2, <3>3 DEF Promise!Reduce, Promise!Request
      <3>5. Promised
        BY <3>1, <3>4 DEF Promised, Promise!Next
      <3>6. QED
        BY <2>1, <3>5
    <2>4. QED
      BY <2>2, <2>3
  <1>7. QED
    BY <1>1, <1>5, <1>6

\* Both executeOrder fill some of one order.
LEMMA ExecuteAtPromised ==
    ASSUME IndexInv, Apart, ClientInv, NEW id \in DOMAIN orders, Idle,
           NEW quantity \in U64, NEW price \in U64, ExecuteAt(id, quantity, price)
    PROVE  Promised /\ ClientInv'
  <1> DEFINE c      == orders[id].order
             amount == Lesser(quantity, c.open)
             o      == Execute(c, price, amount)
             events == <<Executed(o)>>
             p      == orders[id].level_it
  <1>1. \/ Abort
        \/ Settle(o, p, amount, events, <<BeginActivation>>)
    BY DEF ExecuteAt
  <1>2. /\ c \in Order /\ c.id = id /\ Sound(c) /\ (Kind(c) = "limit" => c.type = "LIMIT")
        /\ c.open \in U64 /\ c.open \in Nat
    <2>1. c \in Order /\ c.id = id
      BY EntriesRight DEF IdsRight
    <2>2. QED
      BY <2>1 DEF ClientInv, OrdersOK, OrderOK, Order, U64
  <1>3. amount \in U64 /\ amount <= c.open /\ amount \in Nat
    BY <1>2, LesserIs DEF U64
  <1>4. /\ o.id = id /\ Sound(o) /\ AsSeen(o) = Promise!Filled(AsSeen(c), amount)
        /\ SamePlace(o, c) /\ o.open = c.open - amount
    BY <1>2, <1>3, ExecuteSeen, ExecuteTyped, WidthAssumption
  <1>5. Kind(o) = "limit" => o.type = "LIMIT"
    BY <1>2, <1>4 DEF SamePlace, Kind
  <1> HIDE DEF o, amount, events, p
  <1>6. CASE Abort
    BY <1>6, NothingMoves DEF Abort, book, prices
  <1>7. CASE Settle(o, p, amount, events, <<BeginActivation>>)
    <2>1. /\ stack = <<>> /\ stack' # <<>> /\ ClientInv'
          /\ c.open # 0 =>
               /\ id \in DOMAIN Alive /\ Alive[id] = AsSeen(c)
               /\ Alive' = Promise!Open([Alive EXCEPT ![id] = AsSeen(o)])
          /\ c.open = 0 /\ o.open = 0 => Alive' = Alive
      BY <1>4, <1>5, <1>7, Settles
    <2> HIDE DEF c
    <2>2. CASE c.open = 0
      <3>1. o.open = 0
        BY <1>3, <1>4, <2>2
      <3>2. QED
        BY <2>1, <2>2, <3>1, Ignored
    <2>3. CASE c.open # 0
      <3>1. id \in DOMAIN Alive /\ Alive[id] = AsSeen(c)
        BY <2>1, <2>3
      <3>2. Alive' = Promise!Open([Alive EXCEPT ![id] = Promise!Filled(@, amount)])
        BY <1>4, <2>1, <2>3
      <3>3. amount \in 0 .. Alive[id].open
        BY <1>2, <1>3, <3>1 DEF AsSeen
      <3>4. Promise!ExecuteElsewhere(id)
        BY <2>1, <3>2, <3>3 DEF Promise!ExecuteElsewhere, Promise!Request
      <3>5. Promised
        BY <3>1, <3>4 DEF Promised, Promise!Next
      <3>6. QED
        BY <2>1, <3>5
    <2>4. QED
      BY <2>2, <2>3
  <1>8. QED
    BY <1>1, <1>6, <1>7

\* Every request does what a client asked for.
LEMMA RequestPromised ==
    ASSUME CallerContract, IndexInv, Apart, ClientInv, Request
    PROVE  Promised /\ ClientInv'
  <1>1. ASSUME NEW o \in Tickets, AddOrder(o)
        PROVE  Promised /\ ClientInv'
    BY <1>1, AddOrderPromised
  <1>2. ASSUME NEW id \in DOMAIN orders, DeleteOrder(id)
        PROVE  Promised /\ ClientInv'
    BY <1>2, DeleteOrderPromised
  <1>3. ASSUME NEW id \in DOMAIN orders, NEW new_id \in OrderId, NEW price \in ModifyPrices,
               ModifyOrder(id, new_id, price)
        PROVE  Promised /\ ClientInv'
    BY <1>3, ModifyOrderPromised
  <1>4. ASSUME NEW id \in DOMAIN orders, NEW quantity \in CancelQuantities, CancelOrder(id, quantity)
        PROVE  Promised /\ ClientInv'
    BY <1>4, CancelOrderPromised
  <1>5. ASSUME NEW id \in DOMAIN orders, NEW quantity \in ExecuteQuantities, ExecuteOrder(id, quantity)
        PROVE  Promised /\ ClientInv'
    <2>1. orders[id].order.price \in U64
      BY EntriesRight DEF Order
    <2>2. QED
      BY <1>5, <2>1, InputsAssumption, ExecuteAtPromised DEF ExecuteOrder
  <1>6. ASSUME NEW id \in DOMAIN orders, NEW quantity \in ExecuteQuantities, NEW price \in ExecutePrices,
               ExecuteOrderAtPrice(id, quantity, price)
        PROVE  Promised /\ ClientInv'
    BY <1>6, InputsAssumption, ExecuteAtPromised DEF ExecuteOrderAtPrice
  <1>7. QED
    BY <1>1, <1>2, <1>3, <1>4, <1>5, <1>6 DEF Request

-----------------------------------------------------------------------------
\* At the start there are no orders.
LEMMA InitPromised ==
    ASSUME Init
    PROVE  Promise!Init /\ ClientInv
  <1>1. Carried(stack) = {} /\ InBook(orders) = {}
    BY EmptyMapIsMap DEF Init, Carried, InBook
  <1>2. Alive = Seen({})
    <2>1. InBook(orders) \union Carried(stack) = {}
      BY <1>1
    <2>2. QED
      BY <2>1, AliveIsSeen
  <1>3. Seen({}) = [id \in {} |-> id]
    <2> DEFINE f == Seen({})
               g == [id \in {} |-> id]
    <2>1. DOMAIN f = {} /\ f = [id \in DOMAIN f |-> f[id]]
      BY DEF Seen
    <2>2. DOMAIN g = {} /\ g = [id \in DOMAIN g |-> g[id]]
      OBVIOUS
    <2> HIDE DEF f, g
    <2>3. f = g
      BY <2>1, <2>2
    <2>4. QED
      BY <2>3 DEF f, g
  <1>4. last_traded_price = 0 /\ (stack # <<>>) = FALSE
    BY DEF Init
  <1>5. ClientInv
    BY EmptyMapIsMap DEF Init, ClientInv, StackOK, OrdersOK
  <1>6. QED
    BY <1>2, <1>3, <1>4, <1>5 DEF Promise!Init

\* As long as callers keep to the contract, the book implements Exchange: whatever its
\* calls are nested in one another, clients see two orders trade at a price both accept,
\* a stop order go to the market, an order that may not rest given up, and nothing else.
THEOREM ClientsServed ==
    ASSUME CallerContract
    PROVE  Spec => KeepsPromise
  <1>1. Init => Promise!Init /\ Apart /\ ClientInv
    BY InitPromised, InitCopies
  <1>2. IndexInv /\ Apart /\ ClientInv /\ [Next]_vars => Apart' /\ ClientInv' /\ Promised
    <2> SUFFICES ASSUME IndexInv, Apart, ClientInv, [Next]_vars
                 PROVE  Apart' /\ ClientInv' /\ Promised
      OBVIOUS
    <2>1. Apart'
      BY NextKeepsCopies
    <2>2. CASE Request
      BY <2>1, <2>2, RequestPromised
    <2>3. CASE Step
      BY <2>1, <2>3, StepPromised
    <2>4. CASE UNCHANGED vars
      BY <2>1, <2>4, NothingMoves DEF vars
    <2>5. QED
      BY <2>2, <2>3, <2>4 DEF Next
  <1>3. QED
    BY <1>1, <1>2, IndexInvariant, PTL DEF Spec, KeepsPromise, Promise!Spec, Promised
=============================================================================
