----------------------------- MODULE CallProofs -----------------------------
(***************************************************************************)
(* What the nesting of calls preserves, for any number of nested calls: an *)
(* order is in one place, the recursion is as deep as there are orders     *)
(* half way through it, and what activateStopOrders was called for is done *)
(* when the request returns.                                               *)
(*                                                                         *)
(* A call either takes an order out of the book and hands it to the call   *)
(* it makes, or puts the order it holds into the book and returns; the     *)
(* lemmas about stacks below are what it does to the copies.  That it is   *)
(* the same order, the index has to tell: IndexInv of OrderBookProofs.     *)
(***************************************************************************)
EXTENDS OrderBookProofs, FiniteSetTheorems

\* Does a call hold a copy of an order?
Carries(frame) == frame.pc \in {"add", "check", "match", "reissue"}

\* The calls of stack s hold copies of distinct orders, whose ids are not in "ids".
Distinct(s, ids) ==
    \A i \in DOMAIN s : Carries(s[i]) =>
        /\ s[i].order.id \notin ids
        /\ \A j \in DOMAIN s : Carries(s[j]) /\ s[j].order.id = s[i].order.id => i = j

\* The property said of the predicate that the lemmas about stacks are about.
LEMMA CopiesAreDistinct == OneCopyOfEachOrder <=> Distinct(stack, DOMAIN orders)
    BY DEF OneCopyOfEachOrder, InFlight, Distinct, Carries

-----------------------------------------------------------------------------
(* Stacks                                                                  *)

\* Fewer orders in the book.
LEMMA FewerIds ==
    ASSUME NEW s, NEW ids, NEW fewer \in SUBSET ids, Distinct(s, ids)
    PROVE  Distinct(s, fewer)
    BY DEF Distinct

\* A call that holds no copy is made.
LEMMA CallDistinct ==
    ASSUME NEW s \in Seq(Frame), NEW ids, NEW f \in Frame, ~Carries(f), Distinct(s, ids)
    PROVE  Distinct(<<f>> \o s, ids)
  <1> DEFINE t == <<f>> \o s
  <1>1. /\ DOMAIN t = 1 .. Len(s) + 1 /\ DOMAIN s = 1 .. Len(s) /\ Len(s) \in Nat
        /\ t[1] = f
        /\ \A i \in DOMAIN t : i # 1 => i - 1 \in DOMAIN s /\ t[i] = s[i - 1]
    OBVIOUS
  <1> HIDE DEF t
  <1>2. QED
    BY <1>1 DEF Distinct, t

\* A call that holds a copy is made.
LEMMA CarryDistinct ==
    ASSUME NEW s \in Seq(Frame), NEW ids, NEW f \in Frame, f.order.id \notin ids,
           Distinct(s, ids \union {f.order.id})
    PROVE  Distinct(<<f>> \o s, ids)
  <1> DEFINE t == <<f>> \o s
  <1>1. /\ DOMAIN t = 1 .. Len(s) + 1 /\ DOMAIN s = 1 .. Len(s) /\ Len(s) \in Nat
        /\ t[1] = f
        /\ \A i \in DOMAIN t : i # 1 => i - 1 \in DOMAIN s /\ t[i] = s[i - 1]
    OBVIOUS
  <1> HIDE DEF t
  <1>2. \A i \in DOMAIN s : Carries(s[i]) => s[i].order.id \notin ids /\ s[i].order.id # f.order.id
    BY DEF Distinct
  <1>3. QED
    BY <1>1, <1>2 DEF Distinct, t

\* The innermost call returns.
LEMMA ReturnDistinct ==
    ASSUME NEW s \in Seq(Frame), s # <<>>, NEW ids, Distinct(s, ids)
    PROVE  /\ Distinct(Tail(s), ids)
           /\ Carries(Head(s)) =>
                /\ Head(s).order.id \notin ids
                /\ Distinct(Tail(s), ids \union {Head(s).order.id})
  <1> DEFINE t == Tail(s)
  <1>1. /\ DOMAIN s = 1 .. Len(s) /\ DOMAIN t = 1 .. Len(s) - 1 /\ Len(s) \in Nat /\ Len(s) # 0
        /\ Head(s) = s[1]
        /\ \A i \in DOMAIN t : i + 1 \in DOMAIN s /\ i + 1 # 1 /\ t[i] = s[i + 1]
    OBVIOUS
  <1> HIDE DEF t
  <1>2. Distinct(t, ids)
    BY <1>1 DEF Distinct
  <1>3. Carries(Head(s)) =>
          /\ Head(s).order.id \notin ids
          /\ \A i \in DOMAIN t : Carries(t[i]) => t[i].order.id # Head(s).order.id
    BY <1>1 DEF Distinct
  <1>4. QED
    BY <1>2, <1>3 DEF Distinct, t

\* The innermost call goes on, with the same order or none.
LEMMA BecomesDistinct ==
    ASSUME NEW s \in Seq(Frame), s # <<>>, NEW ids, Distinct(s, ids), NEW f \in Frame,
           Carries(f) => Carries(Head(s)) /\ f.order.id = Head(s).order.id
    PROVE  Distinct(<<f>> \o Tail(s), ids)
  <1>1. Tail(s) \in Seq(Frame)
    OBVIOUS
  <1>2. QED
    BY <1>1, ReturnDistinct, CallDistinct, CarryDistinct

\* Two calls at once, the second of which holds no copy.
LEMMA TwoCalls ==
    ASSUME NEW s \in Seq(Frame), NEW f \in Frame, NEW g \in Frame
    PROVE  <<f, g>> \o s = <<f>> \o (<<g>> \o s) /\ <<g>> \o s \in Seq(Frame)
  <1>1. <<f>> \in Seq(Frame) /\ <<g>> \in Seq(Frame) /\ <<f, g>> \in Seq(Frame)
    BY ShortSeq
  <1>2. <<f, g>> = <<f>> \o <<g>>
    <2> DEFINE u == <<f>> \o <<g>>
    <2>1. u \in Seq(Frame) /\ Len(u) = 2 /\ u[1] = f /\ u[2] = g
      BY <1>1
    <2> HIDE DEF u
    <2>2. u = <<f, g>>
      BY <2>1, <1>1, SeqEqual, \A i \in 1 .. 2 : i = 1 \/ i = 2, Len(<<f, g>>) = 2
    <2>3. QED
      BY <2>2 DEF u
  <1>3. QED
    BY <1>1, <1>2, ConcatAssociative, ConcatProperties

\* The innermost call makes two, the first of which goes on with its order.
LEMMA HandOver ==
    ASSUME NEW s \in Seq(Frame), s # <<>>, NEW ids, Distinct(s, ids),
           NEW f \in Frame, NEW g \in Frame, ~Carries(g),
           Carries(f) => Carries(Head(s)) /\ f.order.id = Head(s).order.id
    PROVE  Distinct(<<f, g>> \o Tail(s), ids)
  <1>1. Tail(s) \in Seq(Frame) /\ <<f, g>> \o Tail(s) = <<f>> \o (<<g>> \o Tail(s))
        /\ <<g>> \o Tail(s) \in Seq(Frame)
    BY TwoCalls
  <1>2. Distinct(<<g>> \o Tail(s), ids)
    BY <1>1, ReturnDistinct, CallDistinct
  <1>3. CASE ~Carries(f)
    BY <1>1, <1>2, <1>3, CallDistinct
  <1>4. CASE Carries(f)
    <2>1. f.order.id \notin ids /\ Distinct(Tail(s), ids \union {f.order.id})
      BY <1>4, ReturnDistinct
    <2>2. Distinct(<<g>> \o Tail(s), ids \union {f.order.id})
      BY <1>1, <2>1, CallDistinct
    <2>3. QED
      BY <1>1, <2>1, <2>2, CarryDistinct
  <1>5. QED
    BY <1>3, <1>4

-----------------------------------------------------------------------------
(* Calls that carry an order pass it on                                    *)

Apart == Distinct(stack, DOMAIN orders)

\* The frames of the calls of addOrder, match and activateStopOrder, and of those
\* that hold no order.
LEMMA FramesCarry ==
    ASSUME NEW o \in Order
    PROVE  /\ BeginActivation \in Frame /\ ~Carries(BeginActivation)
           /\ AddFrame(o) \in Frame /\ AddFrame(o).order.id = o.id
           /\ MatchFrame(o) \in Frame /\ MatchFrame(o).order.id = o.id
  <1>1. Priced(o).id = o.id
    BY DEF Priced, Order
  <1>2. QED
    BY <1>1, FramesTyped DEF Busy, BeginActivation, Carries, AddFrame, MatchFrame

\* The state of a call that holds an order.
LEMMA CarrierState ==
    ASSUME IndexInv, NEW pc \in {"add", "check", "match", "reissue"}, At(pc)
    PROVE  /\ stack \in Seq(Frame) /\ stack # <<>> /\ Top = Head(stack) /\ Carries(Top)
           /\ Tail(stack) \in Seq(Frame) /\ Top \in OrderFrame /\ Top.order \in Order
           /\ last_traded_price \in U64
  <1>1. /\ stack \in Seq(Frame) /\ stack # <<>> /\ Top.pc = pc
        /\ Top \in OrderFrame /\ Top.order \in Order /\ ControlTyped
    BY Parts, CallFindsIndex DEF GoodStack
  <1>2. QED
    BY <1>1 DEF Top, Carries, ControlTyped

\* addMarketOrder, addLimitOrder and addStopOrder hand the order to match.
LEMMA AddKeepsCopies ==
    ASSUME IndexInv, Apart, AddToMarket \/ AddReachedStop
    PROVE  Apart'
  <1>1. /\ stack \in Seq(Frame) /\ stack # <<>> /\ Top = Head(stack) /\ Carries(Top)
        /\ Top.order \in Order /\ last_traded_price \in U64
    BY CarrierState DEF AddToMarket, AddReachedStop
  <1>2. PICK o \in Order : /\ o.id = Top.order.id /\ orders' = orders
                           /\ stack' = <<MatchFrame(o), BeginActivation>> \o Tail(stack)
    <2>1. CASE AddToMarket
      BY <1>1, <2>1 DEF AddToMarket, Proceed, book
    <2>2. CASE AddReachedStop
      <3> DEFINE s == WithStopPrice(Top.order)
      <3>1. s \in Order /\ s.id = Top.order.id
        BY <1>1, WithStopPriceTyped
      <3>2. Triggered(s) \in Order /\ Triggered(s).id = Top.order.id
        BY <3>1, TriggeredTyped
      <3>3. orders' = orders /\ stack' = <<MatchFrame(Triggered(s)), BeginActivation>> \o Tail(stack)
        BY <2>2 DEF AddReachedStop, Proceed, book
      <3>4. QED
        BY <3>2, <3>3
    <2>3. QED
      BY <2>1, <2>2
  <1>3. QED
    BY <1>1, <1>2, FramesCarry, HandOver DEF Apart

\* canMatchOrder keeps the order; activateStopOrder hands it to match.
LEMMA SameOrderKeepsCopies ==
    ASSUME IndexInv, Apart, CheckLiquidity \/ ReissueOrder
    PROVE  Apart'
  <1>1. /\ stack \in Seq(Frame) /\ stack # <<>> /\ Top = Head(stack) /\ Carries(Top)
        /\ Top \in OrderFrame /\ Top.order \in Order
    BY CarrierState, Zenon DEF CheckLiquidity, ReissueOrder
  <1>2. IndexInv' /\ orders' = orders
    BY StepKeepsIndex, Zenon DEF Step, CheckLiquidity, ReissueOrder, book
  <1>3. PICK f : f.order.id = Top.order.id /\ stack' = <<f>> \o Tail(stack)
    <2>1. CASE CheckLiquidity
      BY <1>1, <2>1, Zenon DEF CheckLiquidity, Becomes, Proceed, OrderFrame
    <2>2. CASE ReissueOrder
      <3>1. Triggered(Top.order) \in Order /\ Triggered(Top.order).id = Top.order.id
        BY <1>1, TriggeredTyped
      <3>2. MatchFrame(Triggered(Top.order)).order.id = Top.order.id
        BY <3>1, FramesCarry
      <3>3. QED
        BY <2>2, <3>2 DEF ReissueOrder, Becomes, Proceed
    <2>3. QED
      BY <2>1, <2>2, Zenon
  <1>4. f \in Frame
    <2>1. stack' \in Seq(Frame) /\ Tail(stack) \in Seq(Frame)
      BY <1>1, <1>2, PartsPrime DEF GoodStack
    <2>2. f = stack'[1] /\ 1 \in DOMAIN stack'
      BY <1>3, <2>1
    <2>3. QED
      BY <2>1, <2>2
  <1>5. QED
    BY <1>1, <1>2, <1>3, <1>4, BecomesDistinct DEF Apart

\* A call that puts its order into the book returns, or only activates stop orders.
LEMMA InsertKeepsCopies ==
    ASSUME Apart, stack \in Seq(Frame), stack # <<>>, Carries(Head(stack)),
           NEW o, o.id = Head(stack).order.id, BeginActivation \in Frame, NEW events,
           Insert(o, <<>>, events) \/ Insert(o, <<BeginActivation>>, events)
    PROVE  Apart'
  <1>1. CASE UNCHANGED <<orders, stack>>
    BY <1>1 DEF Apart, Distinct, Carries
  <1>2. CASE /\ orders' = Put(orders, o.id, [order |-> o, level_it |-> KeyOf(o)])
             /\ stack' = <<>> \o Tail(stack) \/ stack' = <<BeginActivation>> \o Tail(stack)
    <2>1. DOMAIN orders' = DOMAIN orders \union {o.id}
      BY <1>2 DEF Put
    <2>2. Distinct(Tail(stack), DOMAIN orders') /\ Tail(stack) \in Seq(Frame)
      BY <2>1, ReturnDistinct DEF Apart
    <2>3. Distinct(<<BeginActivation>> \o Tail(stack), DOMAIN orders')
      BY <2>2, CallDistinct DEF BeginActivation, Carries
    <2>4. <<>> \o Tail(stack) = Tail(stack)
      BY <2>2
    <2>5. QED
      BY <1>2, <2>2, <2>3, <2>4 DEF Apart
  <1>3. QED
    BY <1>1, <1>2 DEF Insert, Abort, Proceed, book

\* addStopOrder inserts the order it holds.
LEMMA AddPendingStopKeepsCopies ==
    ASSUME IndexInv, Apart, AddPendingStop
    PROVE  Apart'
  <1> DEFINE s == WithStopPrice(Top.order)
  <1>1. /\ stack \in Seq(Frame) /\ stack # <<>> /\ Top = Head(stack) /\ Carries(Top)
        /\ Top.order \in Order /\ last_traded_price \in U64
    BY CarrierState DEF AddPendingStop
  <1>2. s.id = Top.order.id
    BY <1>1, WithStopPriceTyped
  <1>3. Insert(s, <<BeginActivation>>, <<Added(Top.order)>>)
    BY DEF AddPendingStop
  <1>4. BeginActivation \in Frame
    BY <1>1, FramesCarry
  <1> HIDE DEF s
  <1>5. QED
    BY <1>1, <1>2, <1>3, <1>4, InsertKeepsCopies

\* addMarketOrder and addLimitOrder insert what match has left, or give it up.
LEMMA CompleteKeepsCopies ==
    ASSUME IndexInv, Apart, KillOrder \/ EndMatch
    PROVE  Apart'
  <1>1. /\ stack \in Seq(Frame) /\ stack # <<>> /\ Top = Head(stack) /\ Carries(Top)
        /\ Tail(stack) \in Seq(Frame) /\ Top.order \in Order
    BY CarrierState DEF KillOrder, EndMatch
  <1>2. BeginActivation \in Frame
    BY <1>1, FramesCarry
  <1>3. CASE Insert(Top.order, <<>>, <<>>)
    BY <1>1, <1>2, <1>3, InsertKeepsCopies
  <1>4. CASE stack' = <<>> \o Tail(stack) /\ orders' = orders
    <2>1. stack' = Tail(stack)
      BY <1>1, <1>4
    <2>2. QED
      BY <1>1, <1>4, <2>1, ReturnDistinct DEF Apart
  <1>5. QED
    BY <1>3, <1>4 DEF KillOrder, EndMatch, Complete, Proceed, book

\* The change of a resting order removes at most that order.
LEMMA SettleKeepsCopies ==
    ASSUME NEW frames \in Seq(Frame), Distinct(frames, DOMAIN orders), BeginActivation \in Frame,
           NEW o, NEW p, NEW amount, NEW events, Settle(o, p, amount, events, frames)
    PROVE  Apart'
  <1>1. DOMAIN orders' \in SUBSET DOMAIN orders
    BY DEF Settle, Drop
  <1>2. stack' = frames \/ stack' = <<BeginActivation>> \o frames
    BY DEF Settle
  <1>3. Distinct(frames, DOMAIN orders')
    BY <1>1, FewerIds
  <1>4. Distinct(<<BeginActivation>> \o frames, DOMAIN orders')
    BY <1>3, CallDistinct DEF BeginActivation, Carries
  <1>5. QED
    BY <1>2, <1>3, <1>4 DEF Apart

\* The incoming order of match is the same after a trade.
LEMMA MatchKeepsCopies ==
    ASSUME IndexInv, Apart, Match
    PROVE  Apart'
  <1>1. /\ stack \in Seq(Frame) /\ stack # <<>> /\ Top = Head(stack) /\ Carries(Top)
        /\ Tail(stack) \in Seq(Frame) /\ Top \in OrderFrame /\ Top.order \in Order
    BY CarrierState DEF Match
  <1>2. BeginActivation \in Frame
    BY <1>1, FramesCarry
  <1> DEFINE m == Contra(Top.order)
  <1>3. PICK p \in DOMAIN levels[m] : Trade(p)
    BY DEF Match
  <1> DEFINE resting  == orders[Head(levels[m][p].orders)].order
             quantity == Lesser(Top.order.open, resting.open)
             filled   == Execute(Top.order, resting.price, quantity)
             hit      == Execute(resting, resting.price, quantity)
             frame    == [Top EXCEPT !.order = filled]
  <1>4. resting \in Order
    <2>1. m \in LevelMap
      BY <1>1 DEF Contra, Opposite, LevelMap, Side, Order
    <2>2. Still
      BY CallFindsIndex DEF Match
    <2>3. QED
      BY <2>1, <2>2, FrontToEntry
  <1>5. quantity \in U64 /\ resting.price \in U64
    BY <1>1, <1>4, U64Closed, Zenon DEF Order
  <1>6. filled \in Order /\ filled.id = Top.order.id
    <2>1. filled \in Order /\ SamePlace(filled, Top.order)
      BY <1>1, <1>5, ExecuteTyped, WidthAssumption, Zenon
    <2>2. QED
      BY <2>1, Zenon DEF SamePlace
  <1>7. \/ UNCHANGED <<orders, stack>>
        \/ \E events : Settle(hit, p, quantity, events, <<frame>> \o Tail(stack))
    BY <1>3, Zenon DEF Trade, Abort, book
  <1> HIDE DEF m, resting, quantity, filled, hit
  <1>8. frame \in Frame /\ frame.order.id = Top.order.id
    BY <1>1, <1>6 DEF OrderFrame, Frame
  <1> HIDE DEF frame
  <1>9. Distinct(<<frame>> \o Tail(stack), DOMAIN orders) /\ <<frame>> \o Tail(stack) \in Seq(Frame)
    BY <1>1, <1>8, BecomesDistinct DEF Apart
  <1>10. CASE UNCHANGED <<orders, stack>>
    BY <1>10 DEF Apart, Distinct, Carries
  <1>11. QED
    BY <1>2, <1>7, <1>9, <1>10, SettleKeepsCopies

\* activateStopOrder takes the order out of the book before it carries it.
LEMMA ActivateStopOrderKeepsCopies ==
    ASSUME IndexInv, Apart, ActivateStopOrder
    PROVE  Apart'
  <1> DEFINE m == <<Top.kind, Top.side>>
  <1>1. Still /\ Top \in ScanFrame /\ stack \in Seq(Frame) /\ stack # <<>> /\ Top.pc = "scan"
    BY CallFindsIndex, Parts DEF ActivateStopOrder, GoodStack
  <1>2. m \in LevelMap
    BY <1>1 DEF ScanFrame, LevelMap
  <1>3. PICK p \in DOMAIN levels[m] :
          LET id == Head(levels[m][p].orders) IN
          Delete(id, << [pc |-> "reissue", order |-> orders[id].order, available |-> 0],
                        [Top EXCEPT !.activated = TRUE] >> \o Tail(stack))
    BY Zenon DEF ActivateStopOrder
  <1> DEFINE id     == Head(levels[m][p].orders)
             again  == [pc |-> "reissue", order |-> orders[id].order, available |-> 0]
             scan   == [Top EXCEPT !.activated = TRUE]
             left   == DOMAIN orders \ {id}
  <1>4. id \in DOMAIN orders /\ orders[id].order \in Order /\ orders[id].order.id = id
    BY <1>1, <1>2, FrontToEntry
  <1>5. again \in Frame /\ again.order.id = id
    BY <1>4, FramesTyped DEF Busy
  <1>6. scan \in Frame /\ ~Carries(scan)
    BY <1>1 DEF ScanFrame, Frame, Carries
  <1>7. stack' = <<BeginActivation>> \o (<<again, scan>> \o Tail(stack)) /\ DOMAIN orders' = left
    BY <1>3, Zenon DEF Delete, Drop
  <1> HIDE DEF id, again, scan
  <1>8. Tail(stack) \in Seq(Frame) /\ Distinct(Tail(stack), DOMAIN orders)
    <2>1. Tail(stack) \in Seq(Frame)
      BY <1>1
    <2>2. Distinct(stack, DOMAIN orders)
      BY DEF Apart
    <2>3. QED
      BY <1>1, <2>1, <2>2, ReturnDistinct
  <1>9. /\ <<again, scan>> \o Tail(stack) = <<again>> \o (<<scan>> \o Tail(stack))
        /\ <<scan>> \o Tail(stack) \in Seq(Frame)
    BY <1>5, <1>6, <1>8, TwoCalls
  <1>10. Distinct(<<scan>> \o Tail(stack), left \union {id})
    BY <1>4, <1>6, <1>8, CallDistinct, left \union {id} = DOMAIN orders
  <1>11. Distinct(<<again>> \o (<<scan>> \o Tail(stack)), left)
    BY <1>5, <1>9, <1>10, CarryDistinct
  <1>12. <<again>> \o (<<scan>> \o Tail(stack)) \in Seq(Frame)
    BY <1>5, <1>9
  <1>13. BeginActivation \in Frame /\ ~Carries(BeginActivation)
    BY <1>4, FramesCarry
  <1>14. Distinct(<<BeginActivation>> \o (<<again>> \o (<<scan>> \o Tail(stack))), left)
    BY <1>11, <1>12, <1>13, CallDistinct
  <1>15. QED
    BY <1>7, <1>9, <1>14 DEF Apart

\* The steps of activateStopOrders that move no order between the book and a call.
LEMMA ScanKeepsCopies ==
    ASSUME IndexInv, Apart,
           StartActivation \/ EndScan \/ MoveTrailingStop \/ SwapTrailingLevels \/ KeepTrailingLevels
    PROVE  Apart'
  <1>1. /\ stack \in Seq(Frame) /\ stack # <<>> /\ Tail(stack) \in Seq(Frame)
        /\ Distinct(stack, DOMAIN orders) /\ Distinct(Tail(stack), DOMAIN orders)
    <2>1. stack \in Seq(Frame) /\ stack # <<>> /\ Distinct(stack, DOMAIN orders)
      BY Parts, Zenon DEF GoodStack, Apart, StartActivation, EndScan, MoveTrailingStop,
                   SwapTrailingLevels, KeepTrailingLevels, At
    <2>2. Tail(stack) \in Seq(Frame)
      BY <2>1
    <2>3. QED
      BY <2>1, <2>2, ReturnDistinct, Zenon
  <1>2. DOMAIN orders' = DOMAIN orders
    BY Zenon DEF StartActivation, EndScan, MoveTrailingStop, SwapTrailingLevels,
                 KeepTrailingLevels, book
  <1>3. \/ stack' = stack
        \/ stack' = <<>> \o Tail(stack)
        \/ \E f : stack' = <<f>> \o Tail(stack) /\ ~Carries(f)
    <2>1. /\ ~Carries(BeginActivation)
          /\ \A kind, side, activated :
               ~Carries(Scan(kind, side, activated)) /\ ~Carries(Update(side, activated))
      BY DEF BeginActivation, Scan, Update, Carries
    <2>2. CASE StartActivation
      BY <2>1, <2>2 DEF StartActivation, Becomes, Proceed
    <2>3. CASE EndScan
      BY <2>1, <2>3 DEF EndScan, Becomes, Proceed
    <2>4. CASE SwapTrailingLevels \/ KeepTrailingLevels
      <3>1. stack' = AfterUpdate(Top) \o Tail(stack)
        BY <2>4 DEF SwapTrailingLevels, KeepTrailingLevels, Proceed
      <3>2. \/ AfterUpdate(Top) = <<Scan("stop", "SELL", FALSE)>>
            \/ AfterUpdate(Top) = <<BeginActivation>>
            \/ AfterUpdate(Top) = <<>>
        BY Zenon DEF AfterUpdate
      <3>3. QED
        BY <2>1, <3>1, <3>2
    <2>5. CASE MoveTrailingStop
      BY <2>5, Zenon DEF MoveTrailingStop
    <2>6. QED
      BY <2>2, <2>3, <2>4, <2>5
  <1>4. CASE stack' = stack
    BY <1>1, <1>2, <1>4 DEF Apart
  <1>5. CASE stack' = <<>> \o Tail(stack)
    <2>1. stack' = Tail(stack)
      BY <1>1, <1>5
    <2>2. QED
      BY <1>1, <1>2, <2>1 DEF Apart
  <1>6. ASSUME NEW f, stack' = <<f>> \o Tail(stack), ~Carries(f)
        PROVE  Apart'
    <2>1. stack' \in Seq(Frame)
      BY StepKeepsIndex, PartsPrime DEF Step, GoodStack
    <2>2. f = stack'[1] /\ 1 \in DOMAIN stack'
      BY <1>1, <1>6, <2>1
    <2>3. f \in Frame
      BY <2>1, <2>2
    <2>4. QED
      BY <1>1, <1>2, <1>6, <2>3, CallDistinct DEF Apart
  <1>7. QED
    BY <1>3, <1>4, <1>5, <1>6

\* Every step of a call keeps an order in one place.
LEMMA StepKeepsCopies ==
    ASSUME IndexInv, Apart, Step
    PROVE  Apart'
    BY AddKeepsCopies, AddPendingStopKeepsCopies, SameOrderKeepsCopies, CompleteKeepsCopies,
       MatchKeepsCopies, ActivateStopOrderKeepsCopies, ScanKeepsCopies DEF Step

-----------------------------------------------------------------------------
(* The requests                                                            *)

\* A stack without copies.
LEMMA NoCopies ==
    ASSUME NEW s, NEW ids, \A i \in DOMAIN s : ~Carries(s[i])
    PROVE  Distinct(s, ids)
    BY DEF Distinct

\* addOrder and modifyOrder carry an order whose id is new: that the caller sees to.
LEMMA AddRequestKeepsCopies ==
    ASSUME IndexInv, CallerContract, NEW o \in Tickets, AddOrder(o)
    PROVE  Apart'
  <1>1. stack' = <<AddFrame(o)>> /\ orders' = orders /\ o.id \notin DOMAIN orders
    BY DEF AddOrder, book
  <1>2. AddFrame(o).order.id = o.id
    BY InputsAssumption, FramesCarry
  <1>3. QED
    BY <1>1, <1>2 DEF Apart, Distinct

\* modifyOrder takes the order out before it gives the copy a new id, a free one.
LEMMA ModifyKeepsCopies ==
    ASSUME IndexInv, CallerContract, NEW id \in DOMAIN orders, NEW new_id \in OrderId,
           NEW price \in ModifyPrices, ModifyOrder(id, new_id, price)
    PROVE  Apart'
  <1> DEFINE o == [orders[id].order EXCEPT !.id = new_id, !.price = price]
  <1>1. o \in Order /\ o.id = new_id
    <2>1. Still
      BY StillAt DEF ModifyOrder
    <2>2. orders[id].order \in Order /\ price \in U64
      BY <2>1, EntryToLevel, InputsAssumption
    <2>3. QED
      BY <2>2 DEF Order
  <1>2. Delete(id, <<AddFrame(o), BeginActivation>>) /\ new_id \notin DOMAIN orders \ {id}
    BY DEF ModifyOrder
  <1> HIDE DEF o
  <1>3. /\ stack' = <<BeginActivation>> \o <<AddFrame(o), BeginActivation>>
        /\ o.id \notin DOMAIN orders'
    BY <1>1, <1>2 DEF Delete, Drop
  <1>4. /\ AddFrame(o) \in Frame /\ AddFrame(o).order.id = o.id
        /\ BeginActivation \in Frame /\ ~Carries(BeginActivation)
    BY <1>1, FramesCarry
  <1>5. Distinct(<<AddFrame(o), BeginActivation>>, DOMAIN orders')
    BY <1>3, <1>4 DEF Distinct
  <1>6. <<AddFrame(o), BeginActivation>> \in Seq(Frame)
    BY <1>4, ShortSeq
  <1>7. Distinct(<<BeginActivation>> \o <<AddFrame(o), BeginActivation>>, DOMAIN orders')
    BY <1>4, <1>5, <1>6, CallDistinct
  <1>8. QED
    BY <1>3, <1>7 DEF Apart

\* The other requests carry no order.
LEMMA OtherRequestKeepsCopies ==
    ASSUME IndexInv, NEW id \in DOMAIN orders,
           \/ DeleteOrder(id)
           \/ \E quantity \in CancelQuantities : CancelOrder(id, quantity)
           \/ \E quantity \in ExecuteQuantities :
                \/ ExecuteOrder(id, quantity)
                \/ \E price \in ExecutePrices : ExecuteOrderAtPrice(id, quantity, price)
    PROVE  Apart'
  <1>1. BeginActivation \in Frame /\ ~Carries(BeginActivation)
    BY DEF BeginActivation, Frame, BeginFrame, Carries
  <1>2. Distinct(<<>>, DOMAIN orders') /\ <<BeginActivation>> \in Seq(Frame)
    BY <1>1, NoCopies, ShortSeq
  <1>3. Distinct(<<BeginActivation>>, DOMAIN orders)
    BY <1>1, NoCopies
  <1>4. CASE DeleteOrder(id)
    <2>1. stack' = <<BeginActivation>> \o <<>>
      BY <1>4 DEF DeleteOrder, Delete
    <2>2. <<BeginActivation>> \o <<>> = <<BeginActivation>>
      BY <1>2
    <2>3. QED
      BY <1>1, <2>1, <2>2, NoCopies DEF Apart
  <1>5. CASE stack = <<>> /\ stack' = <<>>
    BY <1>2, <1>5 DEF Apart
  <1>6. ASSUME NEW o, NEW p, NEW amount, NEW events,
               Settle(o, p, amount, events, <<BeginActivation>>)
        PROVE  Apart'
    BY <1>1, <1>2, <1>3, <1>6, SettleKeepsCopies
  <1>7. ASSUME NEW quantity, CancelOrder(id, quantity)
        PROVE  Apart'
    BY <1>5, <1>6, <1>7 DEF CancelOrder, Abort, Idle
  <1>8. ASSUME NEW quantity, NEW price, Idle, ExecuteAt(id, quantity, price)
        PROVE  Apart'
    BY <1>5, <1>6, <1>8 DEF ExecuteAt, Abort, Idle
  <1>9. QED
    BY <1>4, <1>7, <1>8 DEF ExecuteOrder, ExecuteOrderAtPrice

\* So does every step.
LEMMA NextKeepsCopies ==
    ASSUME CallerContract, IndexInv, Apart, [Next]_vars
    PROVE  Apart'
  <1>1. CASE Request
    BY <1>1, AddRequestKeepsCopies, ModifyKeepsCopies, OtherRequestKeepsCopies DEF Request
  <1>2. CASE Step
    BY <1>2, StepKeepsCopies
  <1>3. CASE UNCHANGED vars
    BY <1>3 DEF vars, Apart, Distinct, Carries
  <1>4. QED
    BY <1>1, <1>2, <1>3 DEF Next

\* Nothing is in progress at first.
LEMMA InitCopies == Init => Apart
    BY NoCopies DEF Init, Apart

-----------------------------------------------------------------------------
\* As long as callers keep live ids distinct, an order is in one place: whatever calls
\* are nested in one another, no two of them hold copies of one order, and none holds
\* a copy of an order that is in the book.
THEOREM OneCopy ==
    ASSUME CallerContract
    PROVE  Spec => []OneCopyOfEachOrder
  <1>1. Init => Apart
    BY InitCopies
  <1>2. IndexInv /\ Apart /\ [Next]_vars => Apart'
    BY NextKeepsCopies
  <1>3. Apart => OneCopyOfEachOrder
    BY CopiesAreDistinct DEF Apart
  <1>4. QED
    BY <1>1, <1>2, <1>3, IndexInvariant, PTL DEF Spec

-----------------------------------------------------------------------------
(* The depth of the recursion.  Below the innermost call, calls that hold  *)
(* an order and calls that hold none take turns: deleteOrder and           *)
(* activateStopOrders run for an order some call has in its hands, and     *)
(* activateStopOrders takes one order at a time.  So the calls without an  *)
(* order, but for the two a request leaves at the bottom, are no more than *)
(* the orders on their way.                                                *)

\* Under a call that holds no order is one that does, except at the bottom; and
\* addOrder has at most one call to return to.
Alternate(s) ==
    \A i \in DOMAIN s :
        /\ ~Carries(s[i]) /\ i < Len(s) - 1 => Carries(s[i + 1])
        /\ s[i].pc = "add" => i >= Len(s) - 1

\* A call that holds no order may be put on top.
Ready(s) == Len(s) > 1 => Carries(Head(s))

-----------------------------------------------------------------------------
(* Counting                                                                *)

\* Calls that take turns are at most twice as many as those that hold an order, and two.
LEMMA TurnsBoundDepth ==
    ASSUME NEW s \in Seq(Frame), Alternate(s)
    PROVE  Len(s) <= 2 * Cardinality({i \in DOMAIN s : Carries(s[i])}) + 2
  <1> DEFINE n     == Len(s)
             carry == {i \in DOMAIN s : Carries(s[i])}
             plain == {i \in 1 .. n - 2 : ~Carries(s[i])}
             next  == [i \in plain |-> i + 1]
  <1>1. n \in Nat /\ DOMAIN s = 1 .. n
    OBVIOUS
  <1>2. IsFiniteSet(carry) /\ Cardinality(carry) \in Nat
    <2>1. IsFiniteSet(1 .. n) /\ carry \in SUBSET (1 .. n)
      BY <1>1, FS_Interval
    <2>2. QED
      BY <2>1, FS_Subset, FS_CardinalityType
  <1>3. IsFiniteSet(plain) /\ Cardinality(plain) \in Nat /\ Cardinality(plain) <= Cardinality(carry)
    <2>1. next \in [plain -> carry]
      BY <1>1 DEF Alternate
    <2>2. next \in Injection(plain, carry)
      BY <2>1, <1>1 DEF Injection, IsInjective
    <2>3. IsFiniteSet(plain) /\ Cardinality(plain) <= Cardinality(carry)
      BY <2>2, <1>2, FS_Injection
    <2>4. QED
      BY <2>3, FS_CardinalityType
  <1>4. n <= Cardinality(plain \union carry) + 2
    <2> DEFINE both == (plain \union carry) \intersect (1 .. n - 2)
    <2>1. both = 1 .. n - 2
      BY <1>1
    <2>2. n - 2 >= 1 => Cardinality(both) = n - 2
      <3>1. n - 2 \in Int /\ 1 \in Int
        BY <1>1
      <3>2. Cardinality(1 .. n - 2) = IF 1 > n - 2 THEN 0 ELSE (n - 2) - 1 + 1
        BY <3>1, FS_Interval
      <3>3. n - 2 >= 1 => Cardinality(1 .. n - 2) = n - 2
        BY <3>1, <3>2
      <3>4. QED
        BY <2>1, <3>3
    <2>3. IsFiniteSet(plain \union carry) /\ both \in SUBSET (plain \union carry)
      BY <1>2, <1>3, FS_Union
    <2>4. Cardinality(both) <= Cardinality(plain \union carry) /\ Cardinality(plain \union carry) \in Nat
      BY <2>3, FS_Subset, FS_CardinalityType
    <2>5. QED
      BY <2>2, <2>4, <1>1
  <1>5. Cardinality(plain \union carry) <= Cardinality(plain) + Cardinality(carry)
    <2>1. /\ Cardinality(plain \union carry) =
               Cardinality(plain) + Cardinality(carry) - Cardinality(plain \intersect carry)
          /\ Cardinality(plain \intersect carry) = 0
      <3>1. plain \intersect carry = {}
        OBVIOUS
      <3>2. QED
        BY <1>2, <1>3, <3>1, FS_Union, FS_EmptySet
    <2>2. QED
      BY <2>1, <1>2, <1>3
  <1>6. Cardinality(plain \union carry) \in Nat
    BY <1>2, <1>3, FS_Union, FS_CardinalityType
  <1>7. QED
    BY <1>1, <1>2, <1>3, <1>4, <1>5, <1>6

-----------------------------------------------------------------------------
(* Stacks                                                                  *)

\* A call is made.
LEMMA CallAlternates ==
    ASSUME NEW s \in Seq(Frame), Alternate(s), NEW f \in Frame,
           Carries(f) \/ Ready(s), f.pc = "add" => Len(s) <= 1
    PROVE  /\ Alternate(<<f>> \o s)
           /\ Carries(f) => Ready(<<f>> \o s)
           /\ <<f>> \o s \in Seq(Frame)
  <1> DEFINE t == <<f>> \o s
  <1>1. /\ t \in Seq(Frame) /\ Len(s) \in Nat /\ Len(t) = Len(s) + 1
        /\ DOMAIN t = 1 .. Len(s) + 1 /\ DOMAIN s = 1 .. Len(s)
        /\ Head(t) = f /\ t[1] = f /\ (s # <<>> => Head(s) = s[1])
        /\ \A i \in DOMAIN t : i # 1 => i - 1 \in DOMAIN s /\ t[i] = s[i - 1]
    OBVIOUS
  <1> HIDE DEF t
  <1>2. ASSUME NEW i \in DOMAIN t
        PROVE  /\ ~Carries(t[i]) /\ i < Len(t) - 1 => Carries(t[i + 1])
               /\ t[i].pc = "add" => i >= Len(t) - 1
    <2>1. CASE i = 1
      <3>1. Len(s) > 1 => t[2] = Head(s)
        BY <1>1
      <3>2. QED
        BY <2>1, <3>1, <1>1 DEF Ready
    <2>2. CASE i # 1
      <3>1. i - 1 \in DOMAIN s /\ t[i] = s[i - 1] /\ i \in Nat
        BY <1>1, <2>2
      <3>2. i < Len(t) - 1 => t[i + 1] = s[i] /\ i - 1 < Len(s) - 1
        BY <1>1, <3>1
      <3>3. /\ ~Carries(s[i - 1]) /\ i - 1 < Len(s) - 1 => Carries(s[(i - 1) + 1])
            /\ s[i - 1].pc = "add" => i - 1 >= Len(s) - 1
        BY <3>1 DEF Alternate
      <3>4. QED
        BY <1>1, <3>1, <3>2, <3>3
    <2>3. QED
      BY <2>1, <2>2
  <1>3. QED
    BY <1>1, <1>2 DEF Alternate, Ready, t

\* The innermost call returns.
LEMMA ReturnAlternates ==
    ASSUME NEW s \in Seq(Frame), s # <<>>, Alternate(s)
    PROVE  /\ Tail(s) \in Seq(Frame)
           /\ Alternate(Tail(s))
           /\ ~Carries(Head(s)) => Ready(Tail(s))
           /\ Head(s).pc = "add" => Len(Tail(s)) <= 1
  <1> DEFINE t == Tail(s)
  <1>1. /\ t \in Seq(Frame) /\ Len(s) \in Nat \ {0} /\ Len(t) = Len(s) - 1
        /\ DOMAIN t = 1 .. Len(s) - 1 /\ DOMAIN s = 1 .. Len(s)
        /\ Head(s) = s[1] /\ (t # <<>> => Head(t) = t[1])
        /\ \A i \in DOMAIN t : i + 1 \in DOMAIN s /\ t[i] = s[i + 1]
    OBVIOUS
  <1> HIDE DEF t
  <1>2. ASSUME NEW i \in DOMAIN t
        PROVE  /\ ~Carries(t[i]) /\ i < Len(t) - 1 => Carries(t[i + 1])
               /\ t[i].pc = "add" => i >= Len(t) - 1
    <2>1. i + 1 \in DOMAIN s /\ t[i] = s[i + 1] /\ i \in Nat
      BY <1>1
    <2>2. i < Len(t) - 1 => t[i + 1] = s[(i + 1) + 1] /\ i + 1 < Len(s) - 1
      BY <1>1, <2>1
    <2>3. /\ ~Carries(s[i + 1]) /\ i + 1 < Len(s) - 1 => Carries(s[(i + 1) + 1])
          /\ s[i + 1].pc = "add" => i + 1 >= Len(s) - 1
      BY <2>1 DEF Alternate
    <2>4. QED
      BY <1>1, <2>1, <2>2, <2>3
  <1>3. ~Carries(s[1]) /\ Len(t) > 1 => Carries(t[1])
    <2>1. 1 \in DOMAIN s /\ (Len(t) > 1 => t[1] = s[1 + 1] /\ 1 < Len(s) - 1)
      BY <1>1
    <2>2. ~Carries(s[1]) /\ 1 < Len(s) - 1 => Carries(s[1 + 1])
      BY <2>1 DEF Alternate
    <2>3. QED
      BY <2>1, <2>2
  <1>4. s[1].pc = "add" => Len(t) <= 1
    <2>1. 1 \in DOMAIN s
      BY <1>1
    <2>2. s[1].pc = "add" => 1 >= Len(s) - 1
      BY <2>1 DEF Alternate
    <2>3. QED
      BY <1>1, <2>2
  <1>5. Len(t) > 1 => Head(t) = t[1]
    BY <1>1
  <1>6. Alternate(t)
    BY <1>2 DEF Alternate
  <1>7. ~Carries(Head(s)) => Ready(t)
    BY <1>1, <1>3, <1>5 DEF Ready
  <1>8. QED
    BY <1>1, <1>4, <1>6, <1>7 DEF t

\* The innermost call goes on; with an order if it held none, only as the next call does.
LEMMA BecomesAlternates ==
    ASSUME NEW s \in Seq(Frame), s # <<>>, Alternate(s), NEW f \in Frame,
           Carries(f) \/ ~Carries(Head(s)), f.pc # "add"
    PROVE  /\ Alternate(<<f>> \o Tail(s))
           /\ Carries(f) => Ready(<<f>> \o Tail(s))
           /\ <<f>> \o Tail(s) \in Seq(Frame)
    BY ReturnAlternates, CallAlternates

\* At the bottom, whatever is not addOrder may be called.
LEMMA BottomAlternates ==
    ASSUME NEW s \in Seq(Frame), Len(s) <= 1, Alternate(s), NEW f \in Frame, ~Carries(f)
    PROVE  Alternate(<<f>> \o s) /\ <<f>> \o s \in Seq(Frame)
  <1>1. Ready(s) /\ f.pc # "add"
    BY DEF Ready, Carries
  <1>2. QED
    BY <1>1, CallAlternates

\* Nothing is called, or one call without an order.
LEMMA ShortAlternates ==
    /\ Alternate(<<>>)
    /\ \A f : Alternate(<<f>>)
    BY DEF Alternate

Turns == Alternate(stack)

\* Calls that take turns are at most twice as many as orders, and two.
LEMMA DepthBound ==
    ASSUME stack \in Seq(Frame), Turns
    PROVE  StackBounded
    BY TurnsBoundDepth DEF Turns, StackBounded, InFlight, Carries

-----------------------------------------------------------------------------
(* The steps                                                               *)

\* addMarketOrder, addLimitOrder and addStopOrder hand the order to match: addOrder is
\* at the bottom.
LEMMA AddKeepsTurns ==
    ASSUME IndexInv, Turns, AddToMarket \/ AddReachedStop
    PROVE  Turns'
  <1>1. /\ stack \in Seq(Frame) /\ stack # <<>> /\ Top = Head(stack) /\ Top.pc = "add"
        /\ Top.order \in Order /\ last_traded_price \in U64
    BY CarrierState DEF AddToMarket, AddReachedStop, At
  <1>2. PICK o \in Order : stack' = <<MatchFrame(o), BeginActivation>> \o Tail(stack)
    <2>1. CASE AddToMarket
      BY <1>1, <2>1 DEF AddToMarket, Proceed
    <2>2. CASE AddReachedStop
      <3>1. WithStopPrice(Top.order) \in Order
        BY <1>1, WithStopPriceTyped
      <3>2. Triggered(WithStopPrice(Top.order)) \in Order
        BY <3>1, TriggeredTyped
      <3>3. QED
        BY <2>2, <3>2 DEF AddReachedStop, Proceed
    <2>3. QED
      BY <2>1, <2>2
  <1>3. /\ BeginActivation \in Frame /\ ~Carries(BeginActivation)
        /\ MatchFrame(o) \in Frame /\ Carries(MatchFrame(o)) /\ MatchFrame(o).pc # "add"
    BY FramesCarry DEF MatchFrame, Carries
  <1>4. Tail(stack) \in Seq(Frame) /\ Alternate(Tail(stack)) /\ Len(Tail(stack)) <= 1
    BY <1>1, ReturnAlternates DEF Turns
  <1>5. Alternate(<<BeginActivation>> \o Tail(stack)) /\ <<BeginActivation>> \o Tail(stack) \in Seq(Frame)
    BY <1>3, <1>4, BottomAlternates
  <1>6. Alternate(<<MatchFrame(o)>> \o (<<BeginActivation>> \o Tail(stack)))
    BY <1>3, <1>5, CallAlternates
  <1>7. stack' = <<MatchFrame(o)>> \o (<<BeginActivation>> \o Tail(stack))
    BY <1>2, <1>3, <1>4, TwoCalls
  <1>8. QED
    BY <1>6, <1>7 DEF Turns

\* A stop order that waits leaves its call nothing but the activation.
LEMMA AddPendingStopKeepsTurns ==
    ASSUME IndexInv, Turns, AddPendingStop
    PROVE  Turns'
  <1>1. stack \in Seq(Frame) /\ stack # <<>> /\ Head(stack).pc = "add" /\ Top.order \in Order
    BY CarrierState DEF AddPendingStop, At, Top
  <1>2. stack' = stack \/ stack' = <<BeginActivation>> \o Tail(stack)
    BY DEF AddPendingStop, Insert, Abort, Proceed
  <1>3. Tail(stack) \in Seq(Frame) /\ Alternate(Tail(stack)) /\ Len(Tail(stack)) <= 1
    BY <1>1, ReturnAlternates DEF Turns
  <1>4. Alternate(<<BeginActivation>> \o Tail(stack))
    BY <1>1, <1>3, FramesCarry, BottomAlternates
  <1>5. QED
    BY <1>2, <1>4 DEF Turns

\* match goes on, and deletes a resting order it has filled.
LEMMA MatchKeepsTurns ==
    ASSUME IndexInv, Turns, Match
    PROVE  Turns'
  <1>1. /\ stack \in Seq(Frame) /\ stack # <<>> /\ Top = Head(stack) /\ Carries(Top)
        /\ Tail(stack) \in Seq(Frame) /\ Top \in OrderFrame /\ Top.order \in Order
        /\ Top.pc = "match"
    BY CarrierState DEF Match, At
  <1>2. IndexInv'
    BY StepKeepsIndex DEF Step
  <1>3. PICK f : /\ f.pc = "match"
                 /\ \/ stack' = stack
                    \/ stack' = <<f>> \o Tail(stack)
                    \/ stack' = <<BeginActivation>> \o (<<f>> \o Tail(stack))
                 /\ f \in OrderFrame
    <2> DEFINE m == Contra(Top.order)
    <2>1. PICK p \in DOMAIN levels[m] : Trade(p)
      BY DEF Match
    <2> DEFINE resting  == orders[Head(levels[m][p].orders)].order
               quantity == Lesser(Top.order.open, resting.open)
               filled   == Execute(Top.order, resting.price, quantity)
               hit      == Execute(resting, resting.price, quantity)
               frame    == [Top EXCEPT !.order = filled]
    <2>2. resting \in Order
      <3>1. m \in LevelMap
        BY <1>1 DEF Contra, Opposite, LevelMap, Side, Order
      <3>2. Still
        BY CallFindsIndex DEF Match
      <3>3. QED
        BY <3>1, <3>2, FrontToEntry
    <2>3. quantity \in U64 /\ resting.price \in U64
      BY <1>1, <2>2, U64Closed, Zenon DEF Order
    <2>4. filled \in Order
      BY <1>1, <2>3, ExecuteTyped, WidthAssumption, Zenon
    <2>5. \/ stack' = stack
          \/ \E events : Settle(hit, p, quantity, events, <<frame>> \o Tail(stack))
      BY <2>1, Zenon DEF Trade, Abort
    <2> HIDE DEF m, resting, quantity, filled, hit
    <2>6. frame \in OrderFrame /\ frame.pc = "match"
      BY <1>1, <2>4 DEF OrderFrame
    <2>7. QED
      BY <2>5, <2>6 DEF Settle
  <1>4. f \in Frame /\ Carries(f) /\ f.pc # "add"
    BY <1>3 DEF Frame, Carries
  <1>5. /\ Alternate(<<f>> \o Tail(stack)) /\ Ready(<<f>> \o Tail(stack))
        /\ <<f>> \o Tail(stack) \in Seq(Frame)
    BY <1>1, <1>4, BecomesAlternates DEF Turns
  <1>6. BeginActivation \in Frame /\ BeginActivation.pc # "add"
    BY <1>1, FramesCarry DEF BeginActivation
  <1>7. Alternate(<<BeginActivation>> \o (<<f>> \o Tail(stack)))
    BY <1>5, <1>6, CallAlternates, Zenon
  <1>8. QED
    BY <1>3, <1>5, <1>7 DEF Turns

\* activateStopOrder deletes an order and keeps it in its hands.
LEMMA ActivateStopOrderKeepsTurns ==
    ASSUME IndexInv, Turns, ActivateStopOrder
    PROVE  Turns'
  <1> DEFINE m == <<Top.kind, Top.side>>
  <1>1. /\ Still /\ Top \in ScanFrame /\ stack \in Seq(Frame) /\ stack # <<>> /\ Top.pc = "scan"
        /\ Top = Head(stack)
    BY CallFindsIndex, Parts, Zenon DEF ActivateStopOrder, GoodStack, Top
  <1>2. m \in LevelMap
    BY <1>1 DEF ScanFrame, LevelMap
  <1>3. PICK p \in DOMAIN levels[m] :
          LET id == Head(levels[m][p].orders) IN
          Delete(id, << [pc |-> "reissue", order |-> orders[id].order, available |-> 0],
                        [Top EXCEPT !.activated = TRUE] >> \o Tail(stack))
    BY DEF ActivateStopOrder
  <1> DEFINE id     == Head(levels[m][p].orders)
             again  == [pc |-> "reissue", order |-> orders[id].order, available |-> 0]
             scan   == [Top EXCEPT !.activated = TRUE]
  <1>4. orders[id].order \in Order
    BY <1>1, <1>2, FrontToEntry
  <1>5. again \in Frame /\ Carries(again) /\ again.pc # "add"
    BY <1>4, FramesTyped DEF Busy, Carries
  <1>6. scan \in Frame /\ ~Carries(scan) /\ ~Carries(Top) /\ scan.pc # "add"
    BY <1>1, Zenon DEF ScanFrame, Frame, Carries
  <1>7. stack' = <<BeginActivation>> \o (<<again, scan>> \o Tail(stack))
    BY <1>3, Zenon DEF Delete
  <1> HIDE DEF id, again, scan
  <1>8. Alternate(<<scan>> \o Tail(stack)) /\ <<scan>> \o Tail(stack) \in Seq(Frame)
    BY <1>1, <1>6, BecomesAlternates DEF Turns
  <1>9. /\ Alternate(<<again>> \o (<<scan>> \o Tail(stack)))
        /\ Ready(<<again>> \o (<<scan>> \o Tail(stack)))
        /\ <<again>> \o (<<scan>> \o Tail(stack)) \in Seq(Frame)
    BY <1>5, <1>8, CallAlternates
  <1>10. BeginActivation \in Frame /\ BeginActivation.pc # "add"
    BY <1>4, FramesCarry DEF BeginActivation
  <1>11. Alternate(<<BeginActivation>> \o (<<again>> \o (<<scan>> \o Tail(stack))))
    BY <1>9, <1>10, CallAlternates
  <1>12. <<again, scan>> \o Tail(stack) = <<again>> \o (<<scan>> \o Tail(stack))
    BY <1>1, <1>5, <1>6, TwoCalls
  <1>13. QED
    BY <1>7, <1>11, <1>12, Zenon DEF Turns

\* The other steps: the innermost call goes on, with an order if it had one, or returns.
LEMMA GoOnKeepsTurns ==
    ASSUME IndexInv, Turns,
           \/ CheckLiquidity \/ KillOrder \/ EndMatch \/ StartActivation \/ EndScan \/ ReissueOrder
           \/ MoveTrailingStop \/ SwapTrailingLevels \/ KeepTrailingLevels
    PROVE  Turns'
  <1>1. stack \in Seq(Frame) /\ stack # <<>> /\ Top = Head(stack) /\ Tail(stack) \in Seq(Frame)
    <2>1. stack \in Seq(Frame) /\ stack # <<>>
      BY Parts, Zenon DEF GoodStack, CheckLiquidity, KillOrder, EndMatch, StartActivation, EndScan,
                   ReissueOrder, MoveTrailingStop, SwapTrailingLevels, KeepTrailingLevels, At
    <2>2. QED
      BY <2>1 DEF Top
  <1>2. stack' \in Seq(Frame)
    BY StepKeepsIndex, PartsPrime DEF Step, GoodStack
  <1>3. \/ stack' = stack
        \/ stack' = <<>> \o Tail(stack)
        \/ \E f : /\ stack' = <<f>> \o Tail(stack)
                  /\ Carries(f) \/ ~Carries(Top)
                  /\ f.pc # "add"
    <2>1. CASE KillOrder \/ EndMatch
      BY <2>1 DEF KillOrder, EndMatch, Complete, Insert, Abort, Proceed
    <2>2. CASE CheckLiquidity
      <3>1. Top \in OrderFrame
        BY <2>2, CarrierState, Zenon DEF CheckLiquidity
      <3> DEFINE next(available) == IF available >= Top.order.open THEN "match" ELSE "check"
      <3>2. PICK available :
              stack' = <<[Top EXCEPT !.available = available, !.pc = next(available)]>> \o Tail(stack)
        BY <2>2, Zenon DEF CheckLiquidity, Becomes, Proceed
      <3>3. next(available) \in {"match", "check"}
        OBVIOUS
      <3> HIDE DEF next
      <3> DEFINE f == [Top EXCEPT !.available = available, !.pc = next(available)]
      <3>4. f.pc = next(available) /\ stack' = <<f>> \o Tail(stack)
        BY <3>1, <3>2 DEF OrderFrame
      <3> HIDE DEF f
      <3>5. QED
        BY <3>3, <3>4 DEF Carries
    <2>3. CASE ReissueOrder
      <3> DEFINE f == MatchFrame(Triggered(Top.order))
      <3>1. stack' = <<f>> \o Tail(stack)
        BY <2>3 DEF ReissueOrder, Becomes, Proceed
      <3>2. Carries(f) /\ f.pc # "add"
        BY DEF MatchFrame, Carries
      <3>3. QED
        BY <3>1, <3>2
    <2>4. ASSUME StartActivation \/ EndScan \/ SwapTrailingLevels \/ KeepTrailingLevels
          PROVE  /\ ~Carries(Top)
                 /\ \/ stack' = <<>> \o Tail(stack)
                    \/ \E f : stack' = <<f>> \o Tail(stack) /\ f.pc # "add"
      <3>1. ~Carries(Top)
        BY <2>4 DEF StartActivation, EndScan, SwapTrailingLevels, KeepTrailingLevels, At, Carries
      <3>2. /\ BeginActivation.pc # "add"
            /\ \A kind, side, activated :
                 Scan(kind, side, activated).pc # "add" /\ Update(side, activated).pc # "add"
        BY DEF BeginActivation, Scan, Update
      <3>3. CASE StartActivation
        BY <3>1, <3>2, <3>3 DEF StartActivation, Becomes, Proceed
      <3>4. CASE EndScan
        <4> DEFINE f == IF Top.kind = "stop" THEN Scan("trailing", Top.side, Top.activated)
                                             ELSE Update(Opposite(Top.side), Top.activated)
        <4>1. stack' = <<f>> \o Tail(stack)
          BY <3>4 DEF EndScan, Becomes, Proceed
        <4>2. f.pc # "add"
          BY <3>2
        <4> HIDE DEF f
        <4>3. QED
          BY <3>1, <4>1, <4>2
      <3>5. CASE SwapTrailingLevels \/ KeepTrailingLevels
        <4>1. stack' = AfterUpdate(Top) \o Tail(stack)
          BY <3>5 DEF SwapTrailingLevels, KeepTrailingLevels, Proceed
        <4>2. \/ AfterUpdate(Top) = <<Scan("stop", "SELL", FALSE)>>
              \/ AfterUpdate(Top) = <<BeginActivation>>
              \/ AfterUpdate(Top) = <<>>
          BY DEF AfterUpdate
        <4>3. QED
          BY <3>1, <3>2, <4>1, <4>2
      <3>6. QED
        BY <2>4, <3>3, <3>4, <3>5
    <2>5. CASE MoveTrailingStop
      BY <2>5, Zenon DEF MoveTrailingStop
    <2>6. QED
      BY <2>1, <2>2, <2>3, <2>4, <2>5
  <1>4. CASE stack' = stack
    BY <1>4 DEF Turns
  <1>5. CASE stack' = <<>> \o Tail(stack)
    <2>1. stack' = Tail(stack)
      BY <1>1, <1>5
    <2>2. QED
      BY <1>1, <2>1, ReturnAlternates DEF Turns
  <1>6. ASSUME NEW f, stack' = <<f>> \o Tail(stack), Carries(f) \/ ~Carries(Top), f.pc # "add"
        PROVE  Turns'
    <2>1. f = stack'[1] /\ 1 \in DOMAIN stack'
      BY <1>1, <1>2, <1>6
    <2>2. f \in Frame
      BY <1>2, <2>1
    <2>3. QED
      BY <1>1, <1>6, <2>2, BecomesAlternates DEF Turns
  <1>7. QED
    BY <1>3, <1>4, <1>5, <1>6

\* Every step of a call leaves calls that take turns.
LEMMA StepKeepsTurns ==
    ASSUME IndexInv, Turns, Step
    PROVE  Turns'
    BY AddKeepsTurns, AddPendingStopKeepsTurns, MatchKeepsTurns, ActivateStopOrderKeepsTurns,
       GoOnKeepsTurns DEF Step

-----------------------------------------------------------------------------
(* The requests                                                            *)

\* A request leaves at most an activateStopOrders over another one or over addOrder.
LEMMA RequestKeepsTurns ==
    ASSUME IndexInv, Turns, Request
    PROVE  Turns'
  <1> DEFINE begin == BeginActivation
  <1>1. Alternate(<<>>) /\ (\A f : Alternate(<<f>>)) /\ begin \in Frame /\ ~Carries(begin)
        /\ begin.pc # "add"
    BY ShortAlternates DEF BeginActivation, Frame, BeginFrame, Carries
  <1>2. /\ <<begin>> \in Seq(Frame) /\ Len(<<begin>>) <= 1
        /\ <<>> \in Seq(Frame) /\ Len(<<>>) <= 1
    BY <1>1, ShortSeq
  <1>3. Alternate(<<begin>> \o <<>>) /\ Alternate(<<begin>> \o <<begin>>)
    BY <1>1, <1>2, BottomAlternates
  <1>4. ASSUME NEW o, NEW p, NEW amount, NEW events, Settle(o, p, amount, events, <<begin>>)
        PROVE  Turns'
    <2>1. stack' = <<begin>> \/ stack' = <<begin>> \o <<begin>>
      BY <1>4 DEF Settle
    <2>2. QED
      BY <1>1, <1>3, <2>1 DEF Turns
  <1>5. CASE UNCHANGED stack
    BY <1>5 DEF Turns
  <1>6. ASSUME NEW o \in Tickets, AddOrder(o)
        PROVE  Turns'
    BY <1>1, <1>6 DEF AddOrder, Turns
  <1>7. ASSUME NEW id \in DOMAIN orders, DeleteOrder(id)
        PROVE  Turns'
    BY <1>3, <1>7 DEF DeleteOrder, Delete, Turns
  <1>8. ASSUME NEW id \in DOMAIN orders, NEW new_id \in OrderId, NEW price \in ModifyPrices,
               ModifyOrder(id, new_id, price)
        PROVE  Turns'
    <2> DEFINE o == [orders[id].order EXCEPT !.id = new_id, !.price = price]
    <2>1. o \in Order
      <3>1. Still
        BY <1>8, StillAt DEF ModifyOrder
      <3>2. orders[id].order \in Order /\ price \in U64
        BY <3>1, EntryToLevel, InputsAssumption
      <3>3. QED
        BY <3>2 DEF Order
    <2>2. stack' = <<begin>> \o <<AddFrame(o), begin>>
      BY <1>8 DEF ModifyOrder, Delete
    <2> HIDE DEF o
    <2>3. AddFrame(o) \in Frame /\ AddFrame(o).pc = "add" /\ Carries(AddFrame(o))
      BY <2>1, FramesCarry DEF AddFrame, Carries
    <2> DEFINE s == <<AddFrame(o), begin>>
    <2>4. s \in Seq(Frame) /\ Len(s) = 2 /\ Head(s) = AddFrame(o) /\ DOMAIN s = {1, 2}
          /\ s[1] = AddFrame(o)
      BY <1>1, <2>3, ShortSeq
    <2>5. s[2] = begin
      OBVIOUS
    <2> HIDE DEF s
    <2>6. Alternate(s) /\ Ready(s)
      BY <1>1, <2>3, <2>4, <2>5 DEF Alternate, Ready
    <2>7. Alternate(<<begin>> \o s)
      BY <1>1, <2>4, <2>6, CallAlternates
    <2>8. QED
      BY <2>2, <2>7 DEF Turns, s
  <1>9. ASSUME NEW id, NEW quantity, CancelOrder(id, quantity)
        PROVE  Turns'
    BY <1>4, <1>5, <1>9 DEF CancelOrder, Abort
  <1>10. ASSUME NEW id, NEW quantity, NEW price, ExecuteAt(id, quantity, price)
         PROVE  Turns'
    BY <1>4, <1>5, <1>10 DEF ExecuteAt, Abort
  <1>11. QED
    BY <1>6, <1>7, <1>8, <1>9, <1>10 DEF Request, ExecuteOrder, ExecuteOrderAtPrice

-----------------------------------------------------------------------------
\* However many stop orders go off inside one another, the call stack holds at most two
\* calls for each order on its way and two: whatever callers do, the depth of the
\* recursion of match, deleteOrder and activateStopOrders is bounded by the orders there
\* are.
THEOREM DepthBounded == Spec => []StackBounded
  <1>1. Init => Turns
    BY ShortAlternates DEF Init, Turns
  <1>2. IndexInv /\ Turns /\ [Next]_vars => Turns'
    <2>1. UNCHANGED vars /\ Turns => Turns'
      BY DEF vars, Turns
    <2>2. QED
      BY <2>1, RequestKeepsTurns, StepKeepsTurns DEF Next
  <1>3. IndexInv /\ Turns => StackBounded
    BY Parts, DepthBound DEF GoodStack
  <1>4. QED
    BY <1>1, <1>2, <1>3, IndexInvariant, PTL DEF Spec

-----------------------------------------------------------------------------
(* Sell stop orders are settled.  All nested calls return to the call a    *)
(* request leaves at the bottom of the stack, and that one knows what has  *)
(* happened above it by one bit: it has activated an order.  As long as it *)
(* has not, nothing has run above it, so that the price it has read is the *)
(* market price and what it has found no longer due is not due.            *)

\* No sell stop order of these kinds is due.
NoneDue(kinds) ==
    \A id \in DOMAIN orders :
        orders[id].order.side = "SELL" /\ Kind(orders[id].order) \in kinds => ~Due(id)

\* What the outermost call knows when it is the only one.
Outermost(f) ==
    /\ f.pc \in {"add", "begin", "scan", "update"}
    /\ f.pc = "scan" /\ f.side = "SELL" /\ ~f.activated =>
         /\ f.last = MarketPrice("SELL")
         /\ f.kind = "trailing" => NoneDue({"stop"})
    /\ f.pc = "update" /\ f.side = "BUY" /\ ~f.activated => NoneDue({"stop", "trailing"})

\* The outermost call while it waits for another one.
Waits(f) ==
    /\ f.pc \in {"add", "begin", "scan"}
    /\ f.pc = "scan" /\ f.side = "SELL" => f.activated

SettledInv ==
    /\ stack = <<>> => NoneDue({"stop", "trailing"})
    /\ Len(stack) = 1 => Outermost(stack[1])
    /\ Len(stack) > 1 => Waits(stack[Len(stack)])

\* Every order of the book is a limit order, a stop order or a trailing stop order.
LEMMA KindIs ==
    ASSUME NEW o
    PROVE  Kind(o) \in {"limit", "stop", "trailing"}
    BY DEF Kind

\* What the invariant says of a book whose calls have returned.
LEMMA SettledIsSettled ==
    ASSUME SettledInv
    PROVE  SellStopsSettled
    BY KindIs DEF SettledInv, SellStopsSettled, NoneDue, Due, Idle

\* A call that waits knows nothing it could be wrong about when it goes on.
LEMMA WaitsOutermost ==
    ASSUME NEW f, Waits(f)
    PROVE  Outermost(f)'
    BY DEF Waits, Outermost

-----------------------------------------------------------------------------
(* Stacks                                                                  *)

\* A call is the only one, or others wait for it.
LEMMA AloneOrNot ==
    ASSUME NEW s \in Seq(Frame), s # <<>>
    PROVE  /\ Tail(s) \in Seq(Frame) /\ Head(s) = s[1] /\ s[1] \in Frame
           /\ \/ Len(s) = 1 /\ Tail(s) = <<>>
              \/ /\ Len(s) > 1 /\ Tail(s) # <<>>
                 /\ Tail(s)[Len(Tail(s))] = s[Len(s)]
  <1>1. Len(s) \in Nat /\ Len(s) # 0 /\ Head(s) = s[1] /\ s[1] \in Frame
    OBVIOUS
  <1>2. /\ Tail(s) \in Seq(Frame) /\ Len(Tail(s)) = Len(s) - 1
        /\ \A i \in 1 .. Len(Tail(s)) : Tail(s)[i] = s[i + 1]
    BY HeadTailProperties
  <1> DEFINE t == Tail(s)
  <1> HIDE DEF t
  <1>3. t \in Seq(Frame) /\ Len(t) = Len(s) - 1 /\ \A i \in 1 .. Len(t) : t[i] = s[i + 1]
    BY <1>2 DEF t
  <1>4. CASE Len(s) = 1
    <2>1. t = <<>>
      BY <1>3, <1>4
    <2>2. QED
      BY <1>1, <1>2, <1>4, <2>1 DEF t
  <1>5. CASE Len(s) > 1
    <2>1. t # <<>> /\ t[Len(t)] = s[Len(s)]
      BY <1>1, <1>3, <1>5
    <2>2. QED
      BY <1>1, <1>2, <1>5, <2>1 DEF t
  <1>6. Len(s) = 1 \/ Len(s) > 1
    <2>1. PICK n \in Nat : n = Len(s) /\ n # 0
      BY <1>1
    <2>2. n = 1 \/ n > 1
      BY <2>1
    <2>3. QED
      BY <2>1, <2>2
  <1>7. QED
    BY <1>4, <1>5, <1>6

\* The call a call returns to, and what is left below it.
LEMMA BottomOf ==
    ASSUME NEW s \in Seq(Frame), NEW t \in Seq(Frame), t # <<>>
    PROVE  /\ s \o t \in Seq(Frame) /\ s \o t # <<>>
           /\ (s \o t)[Len(s \o t)] = t[Len(t)]
           /\ Len(s \o t) >= Len(t)
    OBVIOUS

\* While other calls wait for the innermost one, whatever it does leaves the
\* outermost one alone.
LEMMA NestedSettled ==
    ASSUME SettledInv, stack \in Seq(Frame), Len(stack) > 1,
           NEW frames \in Seq(Frame), stack' = frames \o Tail(stack)
    PROVE  SettledInv'
  <1>1. /\ Tail(stack) \in Seq(Frame) /\ Tail(stack) # <<>>
        /\ Tail(stack)[Len(Tail(stack))] = stack[Len(stack)]
    <2>1. stack # <<>> /\ Len(stack) # 1
      OBVIOUS
    <2>2. QED
      BY <2>1, AloneOrNot
  <1>2. PICK bottom : bottom = stack[Len(stack)]
    OBVIOUS
  <1>3. Waits(bottom)
    BY <1>2 DEF SettledInv
  <1>5. stack' \in Seq(Frame) /\ stack' # <<>> /\ stack'[Len(stack')] = bottom
    BY <1>1, <1>2, BottomOf
  <1>6. Outermost(bottom)'
    BY <1>3, WaitsOutermost
  <1>7. Len(stack') > 1 => Waits(stack'[Len(stack')])
    BY <1>3, <1>5
  <1>8. Len(stack') = 1 => Outermost(stack[1])'
    BY <1>5, <1>6
  <1>9. QED
    BY <1>5, <1>7, <1>8 DEF SettledInv, Waits

\* One call is left.
LEMMA OneCallSettled ==
    ASSUME NEW f, stack' = <<f>>, Outermost(f)'
    PROVE  SettledInv'
  <1>1. Len(stack') = 1 /\ stack' # <<>> /\ stack'[1] = f
    OBVIOUS
  <1>2. QED
    BY <1>1 DEF SettledInv

\* A call waits for others.
LEMMA WaitingSettled ==
    ASSUME NEW s \in Seq(Frame), s # <<>>, NEW f \in Frame, Waits(f), stack' = s \o <<f>>
    PROVE  SettledInv'
  <1>1. Len(stack') > 1 /\ stack'[Len(stack')] = f
    OBVIOUS
  <1>2. QED
    BY <1>1 DEF SettledInv, Waits

\* The innermost call, when others wait for it and when none does.
LEMMA InnermostCall ==
    ASSUME IndexInv, SettledInv, NEW pc, At(pc)
    PROVE  /\ stack \in Seq(Frame) /\ stack # <<>> /\ Tail(stack) \in Seq(Frame)
           /\ Top.pc = pc
           /\ \/ Len(stack) > 1 /\ Tail(stack) # <<>>
              \/ /\ Len(stack) = 1 /\ Tail(stack) = <<>>
                 /\ Outermost(Top) /\ pc \in {"add", "begin", "scan", "update"}
           /\ Top \in Frame /\ last_traded_price \in U64
           /\ pc = "scan" => Top \in ScanFrame
           /\ pc = "update" => Top \in UpdateFrame /\ Top.side \in Side
  <1>1. /\ stack \in Seq(Frame) /\ stack # <<>> /\ GoodStack(stack) /\ Top.pc = pc
        /\ last_traded_price \in U64
    BY Parts DEF GoodStack, At, ControlTyped
  <1>2. Top \in Frame /\ (pc = "scan" => Top \in ScanFrame) /\ (pc = "update" => Top \in UpdateFrame)
    BY <1>1, TopTyped
  <1>3. CASE Len(stack) = 1 /\ Tail(stack) = <<>>
    <2>1. Outermost(Top)
      BY <1>1, <1>3, AloneOrNot DEF SettledInv, Top
    <2>2. QED
      BY <1>1, <1>2, <1>3, <2>1 DEF Outermost, UpdateFrame
  <1>4. CASE Len(stack) > 1 /\ Tail(stack) # <<>>
    BY <1>1, <1>2, <1>4, AloneOrNot DEF UpdateFrame
  <1>5. QED
    BY <1>1, <1>3, <1>4, AloneOrNot

-----------------------------------------------------------------------------
(* The steps                                                               *)

\* activateStopOrders is called for any order and at any price.
LEMMA BeginWaits ==
    /\ BeginActivation \in Frame /\ Waits(BeginActivation)
    /\ Outermost(BeginActivation) /\ Outermost(BeginActivation)'
    BY DEF BeginActivation, Frame, BeginFrame, Waits, Outermost

\* addOrder is the outermost call, and leaves activateStopOrders to be called.
LEMMA AddKeepsSettled ==
    ASSUME IndexInv, SettledInv, AddToMarket \/ AddReachedStop
    PROVE  SettledInv'
  <1>1. PICK o : o \in Order /\ stack' = <<MatchFrame(o), BeginActivation>> \o Tail(stack)
    <2>1. At("add") /\ Top.order \in Order /\ last_traded_price \in U64
      BY CallFindsIndex DEF AddToMarket, AddReachedStop, ControlTyped
    <2>2. WithStopPrice(Top.order) \in Order
      BY <2>1, WithStopPriceTyped
    <2>3. Triggered(WithStopPrice(Top.order)) \in Order
      BY <2>2, TriggeredTyped
    <2>4. QED
      BY <2>1, <2>3 DEF AddToMarket, AddReachedStop, Proceed
  <1>2. MatchFrame(o) \in Frame /\ BeginActivation \in Frame
    BY <1>1, FramesCarry
  <1>3. At("add")
    BY DEF AddToMarket, AddReachedStop
  <1> DEFINE f == MatchFrame(o)
  <1> HIDE DEF f
  <1>4. <<f, BeginActivation>> \in Seq(Frame) /\ <<f>> \in Seq(Frame) /\ <<f>> # <<>>
    BY <1>2, ShortSeq DEF f
  <1>5. CASE Len(stack) > 1
    BY <1>1, <1>3, <1>4, <1>5, InnermostCall, NestedSettled DEF f
  <1>6. CASE Tail(stack) = <<>>
    <2>1. stack' = <<f, BeginActivation>> \o <<>>
      BY <1>1, <1>6 DEF f
    <2>2. stack' = <<f>> \o <<BeginActivation>>
      BY <1>4, <2>1
    <2>3. QED
      BY <1>2, <1>4, <2>2, BeginWaits, WaitingSettled
  <1>7. QED
    BY <1>3, <1>5, <1>6, InnermostCall

\* A failed assertion changes no call and no order.
LEMMA AbortKeepsSettled ==
    ASSUME SettledInv, Abort
    PROVE  SettledInv'
    BY DEF SettledInv, Abort, Outermost, Waits, NoneDue, Due, Reached, MarketPrice, book, prices

\* A stop order that waits is not due, or the activation to come will see it.
LEMMA AddPendingStopKeepsSettled ==
    ASSUME IndexInv, SettledInv, AddPendingStop
    PROVE  SettledInv'
  <1>1. At("add") /\ (Abort \/ stack' = <<BeginActivation>> \o Tail(stack))
    BY DEF AddPendingStop, Insert, Proceed
  <1>2. <<BeginActivation>> \in Seq(Frame)
    BY BeginWaits
  <1>3. CASE Abort
    BY <1>3, AbortKeepsSettled
  <1>4. CASE stack' = <<BeginActivation>> \o Tail(stack) /\ Len(stack) > 1
    BY <1>1, <1>2, <1>4, InnermostCall, NestedSettled
  <1>5. CASE stack' = <<BeginActivation>> \o Tail(stack) /\ Tail(stack) = <<>>
    <2>1. stack' = <<BeginActivation>>
      BY <1>2, <1>5, ConcatEmptySeq
    <2>2. QED
      BY <2>1, BeginWaits, OneCallSettled
  <1>6. QED
    BY <1>1, <1>3, <1>4, <1>5, InnermostCall

\* The calls that hold an order below addOrder are never the outermost ones.
LEMMA OrderCallsKeepSettled ==
    ASSUME IndexInv, SettledInv,
           CheckLiquidity \/ KillOrder \/ Match \/ EndMatch \/ ReissueOrder
    PROVE  SettledInv'
  <1>1. PICK pc \in {"check", "match", "reissue"} : At(pc)
    BY Zenon DEF CheckLiquidity, KillOrder, Match, EndMatch, ReissueOrder
  <1>2. stack \in Seq(Frame) /\ Tail(stack) \in Seq(Frame) /\ Len(stack) > 1 /\ Tail(stack) # <<>>
    BY <1>1, InnermostCall
  <1>3. stack' \in Seq(Frame)
    BY StepKeepsIndex, PartsPrime DEF Step, GoodStack
  <1>4. \/ Abort
        \/ stack' = <<>> \o Tail(stack)
        \/ \E f : stack' = <<f>> \o Tail(stack)
        \/ \E f : stack' = <<BeginActivation>> \o (<<f>> \o Tail(stack))
    <2>1. CASE CheckLiquidity \/ ReissueOrder
      BY <2>1, Zenon DEF CheckLiquidity, ReissueOrder, Becomes, Proceed
    <2>2. CASE KillOrder \/ EndMatch
      BY <2>2 DEF KillOrder, EndMatch, Complete, Insert, Proceed
    <2>3. CASE Match
      <3>1. PICK p : Trade(p)
        BY <2>3 DEF Match
      <3>2. QED
        BY <3>1, Zenon DEF Trade, Settle
    <2>4. QED
      BY <2>1, <2>2, <2>3
  <1>5. CASE Abort
    BY <1>5, AbortKeepsSettled
  <1>6. CASE stack' = <<>> \o Tail(stack)
    <2>1. <<>> \in Seq(Frame)
      OBVIOUS
    <2>2. QED
      BY <1>2, <1>6, <2>1, NestedSettled
  <1>7. ASSUME NEW f, stack' = <<f>> \o Tail(stack)
        PROVE  SettledInv'
    <2>1. f = stack'[1] /\ 1 \in DOMAIN stack'
      BY <1>2, <1>3, <1>7
    <2>2. <<f>> \in Seq(Frame)
      BY <1>3, <2>1, ShortSeq
    <2>3. QED
      BY <1>2, <1>7, <2>2, NestedSettled
  <1>8. ASSUME NEW f, stack' = <<BeginActivation>> \o (<<f>> \o Tail(stack))
        PROVE  SettledInv'
    <2>1. f = stack'[2] /\ 2 \in DOMAIN stack'
      BY <1>2, <1>3, <1>8
    <2>2. f \in Frame /\ BeginActivation \in Frame
      BY <1>3, <2>1, BeginWaits
    <2>3. stack' = <<BeginActivation, f>> \o Tail(stack) /\ <<BeginActivation, f>> \in Seq(Frame)
      BY <1>2, <1>8, <2>2, ShortSeq, TwoCalls
    <2>4. QED
      BY <1>2, <2>3, NestedSettled
  <1>9. QED
    BY <1>4, <1>5, <1>6, <1>7, <1>8

\* A call of activateStopOrders that goes on as another one, or returns, knowing as
\* much as it has to.
LEMMA GoesOnSettled ==
    ASSUME IndexInv, SettledInv, IndexInv', NEW pc, At(pc), NEW f,
           stack' = <<f>> \o Tail(stack), Len(stack) = 1 => Outermost(f)'
    PROVE  SettledInv'
  <1>1. stack' \in Seq(Frame) /\ Tail(stack) \in Seq(Frame) /\ stack \in Seq(Frame)
    BY InnermostCall, PartsPrime DEF GoodStack
  <1>2. f = stack'[1] /\ 1 \in DOMAIN stack'
    BY <1>1
  <1>3. <<f>> \in Seq(Frame)
    BY <1>1, <1>2, ShortSeq
  <1>4. CASE Len(stack) > 1
    BY <1>1, <1>3, <1>4, NestedSettled
  <1>5. CASE Len(stack) = 1 /\ Tail(stack) = <<>>
    <2>1. stack' = <<f>>
      BY <1>3, <1>5, ConcatEmptySeq
    <2>2. QED
      BY <1>5, <2>1, OneCallSettled
  <1>6. QED
    BY <1>4, <1>5, InnermostCall

\* A scan reads the price of the moment it starts.
LEMMA StartActivationKeepsSettled ==
    ASSUME IndexInv, SettledInv, StartActivation
    PROVE  SettledInv'
  <1>1. PICK f : f = Scan("stop", "BUY", FALSE)
    OBVIOUS
  <1>2. At("begin") /\ stack' = <<f>> \o Tail(stack)
    BY <1>1 DEF StartActivation, Becomes, Proceed
  <1>3. Outermost(f)'
    BY <1>1 DEF Scan, Outermost
  <1>4. IndexInv'
    BY StartActivationKeepsIndex
  <1>5. QED
    BY <1>2, <1>3, <1>4, GoesOnSettled

\* A scan that finds no level it may activate leaves no stop order that is due: the
\* entry of every stop order leads to its level.
LEMMA EndScanNoneDue ==
    ASSUME IndexInv, EndScan, Top.side = "SELL", Top.last = MarketPrice("SELL")
    PROVE  NoneDue({Top.kind})
  <1>1. Still /\ Top \in ScanFrame
    BY CallFindsIndex DEF EndScan
  <1>2. SUFFICES ASSUME NEW id \in DOMAIN orders, orders[id].order.side = "SELL",
                        Kind(orders[id].order) = Top.kind
                 PROVE  ~Due(id)
    BY DEF NoneDue
  <1>3. MapOf(orders[id].order) = <<Top.kind, Top.side>>
    BY <1>2 DEF MapOf
  <1>4. KeyOf(orders[id].order) \in DOMAIN levels[<<Top.kind, Top.side>>]
    BY <1>1, <1>3 DEF Still, LinkedIn, Linked
  <1>5. KeyOf(orders[id].order) = orders[id].order.stop
    BY <1>1, <1>2 DEF KeyOf, ScanFrame
  <1>6. ~(orders[id].order.stop >= MarketPrice("SELL"))
    BY <1>4, <1>5 DEF EndScan, Eligible
  <1>7. orders[id].order.stop \in U64 /\ MarketPrice("SELL") \in U64
    BY EntryTyped, Parts, MarketPriceTyped DEF Order, ControlTyped, Side
  <1>8. QED
    BY <1>2, <1>6, <1>7, MaxU64Assumption DEF Due, Reached, U64

\* The outermost activation ends only when its last pass has activated nothing.
LEMMA EndScanKeepsSettled ==
    ASSUME IndexInv, SettledInv, EndScan
    PROVE  SettledInv'
  <1>1. PICK f : f = IF Top.kind = "stop" THEN Scan("trailing", Top.side, Top.activated)
                                          ELSE Update(Opposite(Top.side), Top.activated)
    OBVIOUS
  <1>2. At("scan") /\ stack' = <<f>> \o Tail(stack) /\ Top \in ScanFrame
    BY <1>1, CallFindsIndex DEF EndScan, Becomes, Proceed
  <1>3. UNCHANGED <<orders, last_traded_price>>
    BY DEF EndScan, book, prices
  <1>4. ASSUME Len(stack) = 1
        PROVE  Outermost(f)'
    <2>1. Outermost(Top)
      BY <1>2, <1>4, InnermostCall
    <2>2. \A kinds : NoneDue(kinds) => NoneDue(kinds)'
      BY <1>3 DEF NoneDue, Due, Reached, MarketPrice
    <2>3. MarketPrice("SELL")' = MarketPrice("SELL")
      BY <1>3 DEF MarketPrice
    <2>4. CASE Top.activated \/ Top.side = "BUY"
      BY <1>1, <2>4 DEF Outermost, Scan, Update, Opposite
    <2>5. CASE ~Top.activated /\ Top.side = "SELL"
      <3>1. /\ Top.last = MarketPrice("SELL")
            /\ Top.kind = "trailing" => NoneDue({"stop"})
        BY <1>2, <2>1, <2>5 DEF Outermost, At
      <3>2. NoneDue({Top.kind})
        BY <2>5, <3>1, EndScanNoneDue
      <3>3. CASE Top.kind = "stop"
        <4>1. f = Scan("trailing", "SELL", FALSE)
          BY <1>1, <1>2, <2>5, <3>3 DEF ScanFrame
        <4>2. NoneDue({"stop"})'
          BY <2>2, <3>2, <3>3
        <4>3. QED
          BY <2>3, <4>1, <4>2 DEF Outermost, Scan
      <3>4. CASE Top.kind = "trailing"
        <4>1. f = Update("BUY", FALSE)
          BY <1>1, <1>2, <2>5, <3>4 DEF ScanFrame, Opposite
        <4>2. NoneDue({"stop", "trailing"})
          BY <3>1, <3>2, <3>4 DEF NoneDue
        <4>3. NoneDue({"stop", "trailing"})'
          BY <2>2, <4>2
        <4>4. QED
          BY <4>1, <4>3 DEF Outermost, Update
      <3>5. QED
        BY <1>2, <3>3, <3>4 DEF ScanFrame
    <2>6. QED
      BY <1>2, <2>4, <2>5 DEF ScanFrame, Side
  <1>5. IndexInv'
    BY EndScanKeepsIndex
  <1>6. QED
    BY <1>2, <1>4, <1>5, GoesOnSettled

\* The call that activates an order notes that it has, before others run above it.
LEMMA ActivateStopOrderKeepsSettled ==
    ASSUME IndexInv, SettledInv, ActivateStopOrder
    PROVE  SettledInv'
  <1>1. PICK f, g : /\ stack' = <<BeginActivation>> \o (<<f, g>> \o Tail(stack))
                    /\ g = [Top EXCEPT !.activated = TRUE]
    BY Zenon DEF ActivateStopOrder, Delete
  <1>2. /\ stack \in Seq(Frame) /\ stack # <<>> /\ Tail(stack) \in Seq(Frame)
        /\ Top \in ScanFrame /\ BeginActivation \in Frame
        /\ stack' \in Seq(Frame)
    BY InnermostCall, BeginWaits, ActivateStopOrderKeepsIndex, PartsPrime, Zenon
       DEF ActivateStopOrder, GoodStack
  <1>3. g \in Frame /\ Waits(g)
    BY <1>1, <1>2 DEF ScanFrame, Frame, Waits
  <1>4. f = stack'[2] /\ 2 \in DOMAIN stack'
    BY <1>1, <1>2, <1>3
  <1>5. f \in Frame
    BY <1>2, <1>4
  <1> DEFINE s == <<BeginActivation, f>>
  <1>6. s \in Seq(Frame) /\ s # <<>> /\ <<g>> \in Seq(Frame)
    BY <1>2, <1>3, <1>5, ShortSeq
  <1>7. stack' = s \o (<<g>> \o Tail(stack)) /\ stack' = (s \o <<g>>) \o Tail(stack)
    <2>1. /\ <<g>> \o Tail(stack) \in Seq(Frame)
          /\ stack' = <<BeginActivation>> \o (<<f>> \o (<<g>> \o Tail(stack)))
      BY <1>1, <1>2, <1>3, <1>5, TwoCalls, ZenonT(30)
    <2>2. stack' = s \o (<<g>> \o Tail(stack))
      BY <1>2, <1>5, <2>1, TwoCalls
    <2>3. QED
      BY <1>2, <1>6, <2>2, ConcatAssociative
  <1>8. CASE Len(stack) > 1
    <2>1. s \o <<g>> \in Seq(Frame)
      BY <1>6, ConcatProperties
    <2>2. QED
      BY <1>2, <1>7, <1>8, <2>1, NestedSettled
  <1>9. CASE Tail(stack) = <<>>
    <2>1. stack' = s \o <<g>>
      BY <1>6, <1>7, <1>9, ConcatEmptySeq
    <2> HIDE DEF s
    <2>2. QED
      BY <1>3, <1>6, <2>1, WaitingSettled
  <1>10. QED
    BY <1>8, <1>9, InnermostCall DEF ActivateStopOrder

\* A trailing stop order that is moved is of the side whose stops are updated.
LEMMA MoveTrailingStopKeepsSettled ==
    ASSUME IndexInv, SettledInv, MoveTrailingStop
    PROVE  SettledInv'
  <1>1. At("update") /\ stack' = stack /\ last_traded_price' = last_traded_price
    BY Zenon DEF MoveTrailingStop, prices
  <1>2. stack \in Seq(Frame) /\ stack # <<>> /\ Top.side \in Side
    BY <1>1, InnermostCall
  <1>3. CASE Len(stack) > 1
    BY <1>1, <1>2, <1>3 DEF SettledInv, Waits
  <1>4. ASSUME Top.side = "BUY", NEW kinds, NoneDue(kinds)
        PROVE  NoneDue(kinds)'
    <2> DEFINE m == <<"trailing", "BUY">>
    <2>1. PICK id, s : /\ id \in DOMAIN orders
                       /\ s.side = "BUY"
                       /\ orders' = [orders EXCEPT ![id] = [order |-> s, level_it |-> s.stop]]
      <3>1. PICK p \in DOMAIN levels[m] :
              LET o == orders[Head(levels[m][p].orders)].order
                  s == CalculateStopPrice(o)
              IN  /\ levels[m][p].orders # <<>>
                  /\ orders' = [orders EXCEPT ![o.id] = [order |-> s, level_it |-> s.stop]]
        BY <1>4, Zenon DEF MoveTrailingStop
      <3> DEFINE id == Head(levels[m][p].orders)
      <3>2. BookTyped /\ ControlTyped /\ Underway
        BY UpdateFindsCall, StillUnderway, Zenon DEF IndexInv, MoveTrailingStop
      <3>3. m \in LevelMap
        BY DEF LevelMap, Side
      <3>4. id \in Range(levels[m][p].orders)
        BY <3>1, <3>2, <3>3, LevelTyped, TailQueue DEF Underway, QueuesOK
      <3>5. id \in DOMAIN orders /\ MapOf(orders[id].order) = m /\ orders[id].order.id = id
        BY <3>2, <3>3, <3>4 DEF Underway, QueuesOK, Indexed
      <3>6. MapOf(CalculateStopPrice(orders[id].order)) = m
        BY <3>2, <3>5, EntryTyped, CalculateStopPriceTyped DEF ControlTyped
      <3>7. CalculateStopPrice(orders[id].order).side = "BUY"
        BY <3>6 DEF MapOf
      <3>8. QED
        BY <3>1, <3>5, <3>7, Zenon
    <2>2. QED
      BY <1>1, <1>4, <2>1 DEF NoneDue, Due, Reached, MarketPrice
  <1>5. CASE Len(stack) = 1 /\ Outermost(Top)
    <2>1. PICK f : f = Top
      OBVIOUS
    <2>2. stack' = <<f>>
      <3>1. f = stack[1]
        BY <1>2, <2>1, AloneOrNot DEF Top
      <3>2. QED
        BY <1>1, <1>2, <1>5, <3>1
    <2>3. Outermost(f)'
      <3>1. f.pc = "update"
        BY <1>1, <2>1 DEF At
      <3>2. CASE f.side = "BUY" /\ ~f.activated
        BY <1>4, <1>5, <2>1, <3>1, <3>2 DEF Outermost
      <3>3. CASE ~(f.side = "BUY" /\ ~f.activated)
        BY <3>1, <3>3 DEF Outermost
      <3>4. QED
        BY <3>2, <3>3
    <2>4. QED
      BY <2>2, <2>3, OneCallSettled
  <1>6. QED
    BY <1>1, <1>3, <1>5, InnermostCall

\* The last update of trailing stops ends the loop only if no order was activated.
LEMMA UpdateKeepsSettled ==
    ASSUME IndexInv, SettledInv, SwapTrailingLevels \/ KeepTrailingLevels
    PROVE  SettledInv'
  <1>1. /\ At("update") /\ stack' = AfterUpdate(Top) \o Tail(stack)
        /\ UNCHANGED <<orders, last_traded_price>>
    BY DEF SwapTrailingLevels, KeepTrailingLevels, Proceed, book, prices
  <1>2. IndexInv'
    BY SwapTrailingLevelsKeepsIndex, KeepTrailingLevelsKeepsIndex
  <1>3. stack \in Seq(Frame) /\ Tail(stack) \in Seq(Frame) /\ Top.side \in Side
    BY <1>1, InnermostCall
  <1>4. CASE AfterUpdate(Top) = <<Scan("stop", "SELL", FALSE)>>
    <2>1. PICK f : f = Scan("stop", "SELL", FALSE)
      OBVIOUS
    <2>2. MarketPrice("SELL")' = MarketPrice("SELL")
      BY <1>1 DEF MarketPrice
    <2>3. Outermost(f)'
      BY <2>1, <2>2 DEF Outermost, Scan
    <2>4. QED
      BY <1>1, <1>2, <1>4, <2>1, <2>3, GoesOnSettled
  <1>5. CASE AfterUpdate(Top) = <<BeginActivation>>
    BY <1>1, <1>2, <1>5, BeginWaits, GoesOnSettled
  <1>6. CASE AfterUpdate(Top) = <<>> /\ Top.side = "BUY" /\ ~Top.activated
    <2>1. <<>> \in Seq(Frame)
      OBVIOUS
    <2>2. CASE Len(stack) > 1
      BY <1>1, <1>3, <1>6, <2>1, <2>2, NestedSettled
    <2>3. CASE Len(stack) = 1 /\ Tail(stack) = <<>> /\ Outermost(Top)
      <3>1. NoneDue({"stop", "trailing"})
        BY <1>1, <1>6, <2>3 DEF Outermost, At
      <3>2. NoneDue({"stop", "trailing"})'
        BY <1>1, <3>1 DEF NoneDue, Due, Reached, MarketPrice
      <3>3. stack' = <<>>
        BY <1>1, <1>6, <2>1, <2>3, ConcatEmptySeq
      <3>4. QED
        BY <3>2, <3>3 DEF SettledInv
    <2>4. QED
      BY <1>1, <2>2, <2>3, InnermostCall
  <1>7. QED
    BY <1>3, <1>4, <1>5, <1>6 DEF AfterUpdate, Side

\* Every step of a call keeps what is known of the outermost activation.
LEMMA StepKeepsSettled ==
    ASSUME IndexInv, SettledInv, Step
    PROVE  SettledInv'
    BY AddKeepsSettled, AddPendingStopKeepsSettled, OrderCallsKeepSettled,
       StartActivationKeepsSettled, EndScanKeepsSettled, ActivateStopOrderKeepsSettled,
       MoveTrailingStopKeepsSettled, UpdateKeepsSettled DEF Step

\* A request leaves addOrder or activateStopOrders as the outermost call.
LEMMA RequestKeepsSettled ==
    ASSUME IndexInv, SettledInv, Request
    PROVE  SettledInv'
  <1> DEFINE begin == BeginActivation
  <1>1. begin \in Frame /\ Waits(begin) /\ Outermost(begin)' /\ <<begin>> \in Seq(Frame)
    BY BeginWaits, ShortSeq
  <1> HIDE DEF begin
  <1>2. <<begin>> # <<>> /\ <<begin>> \o <<>> = <<begin>>
    BY <1>1, ConcatEmptySeq
  <1>3. CASE stack' = <<begin>>
    BY <1>1, <1>3, OneCallSettled DEF begin
  <1>4. CASE stack' = <<begin>> \o <<begin>>
    BY <1>1, <1>2, <1>4, WaitingSettled
  <1>5. CASE Abort
    BY <1>5, AbortKeepsSettled
  <1>6. ASSUME NEW o, NEW p, NEW amount, NEW events, Settle(o, p, amount, events, <<begin>>)
        PROVE  SettledInv'
    BY <1>3, <1>4, <1>6 DEF Settle, begin
  <1>7. ASSUME NEW o \in Tickets, AddOrder(o)
        PROVE  SettledInv'
    <2>1. stack' = <<AddFrame(o)>> /\ Outermost(AddFrame(o))'
      BY <1>7 DEF AddOrder, AddFrame, Outermost
    <2>2. QED
      BY <2>1, OneCallSettled
  <1>8. ASSUME NEW id \in DOMAIN orders, DeleteOrder(id)
        PROVE  SettledInv'
    BY <1>2, <1>3, <1>8 DEF DeleteOrder, Delete, begin
  <1>9. ASSUME NEW id \in DOMAIN orders, NEW new_id \in OrderId, NEW price \in ModifyPrices,
               ModifyOrder(id, new_id, price)
        PROVE  SettledInv'
    <2>1. PICK f : stack' = <<begin>> \o <<f, begin>>
      BY <1>9 DEF ModifyOrder, Delete, begin
    <2>2. f = stack'[2] /\ 2 \in DOMAIN stack'
      BY <2>1
    <2>3. stack' \in Seq(Frame)
      BY <1>9, ModifyOrderKeepsIndex, PartsPrime DEF GoodStack
    <2>4. f \in Frame
      BY <2>2, <2>3
    <2>5. <<begin, f>> \in Seq(Frame) /\ <<begin, f>> # <<>>
      BY <1>1, <2>4, ShortSeq
    <2>6. stack' = <<begin, f>> \o <<begin>>
      BY <1>1, <2>1, <2>4
    <2>7. QED
      BY <1>1, <2>5, <2>6, WaitingSettled
  <1>10. ASSUME NEW id, NEW quantity, CancelOrder(id, quantity)
         PROVE  SettledInv'
    BY <1>5, <1>6, <1>10 DEF CancelOrder, begin
  <1>11. ASSUME NEW id, NEW quantity, NEW price, ExecuteAt(id, quantity, price)
         PROVE  SettledInv'
    BY <1>5, <1>6, <1>11 DEF ExecuteAt, begin
  <1>12. QED
    BY <1>7, <1>8, <1>9, <1>10, <1>11 DEF Request, ExecuteOrder, ExecuteOrderAtPrice

\* When a request is done no sell stop order that is due is left, whatever the calls it
\* led to did above one another: the loop of activateStopOrders ends only when a scan of
\* the sell stops, at the market price of that moment, has found none.
THEOREM SellStopsAreSettled == Spec => []SellStopsSettled
  <1>1. Init => SettledInv
    BY DEF Init, SettledInv, NoneDue, EmptyMap
  <1>2. IndexInv /\ SettledInv /\ [Next]_vars => SettledInv'
    <2>1. UNCHANGED vars /\ SettledInv => SettledInv'
      BY DEF vars, SettledInv, Outermost, Waits, NoneDue, Due, Reached, MarketPrice
    <2>2. QED
      BY <2>1, RequestKeepsSettled, StepKeepsSettled DEF Next
  <1>3. SettledInv => SellStopsSettled
    BY SettledIsSettled
  <1>4. QED
    BY <1>1, <1>2, <1>3, IndexInvariant, PTL DEF Spec
=============================================================================
