--------------------------- MODULE ListenerProofs ---------------------------
(***************************************************************************)
(* A listener that is told of nothing but the events has the book.         *)
(*                                                                         *)
(* An order is reported before its state settles: match reports orders     *)
(* that may rest, be filled or be given up later, and a stop order that    *)
(* goes to the market is reported deleted and updated after.  So, between  *)
(* two steps, what the listener knows are the orders in the book and those *)
(* that calls of match hold (HeardInv).  A step reports up to three        *)
(* events, about one order or about the two of a trade, and puts right     *)
(* what the listener knows of each of them (HearRight).                    *)
(***************************************************************************)
EXTENDS Listener, ClientProofs

-----------------------------------------------------------------------------
(* The events of one step                                                  *)

\* The function by which FoldLeft is defined, for the events of "es".
IsFold(iter, h, es) ==
    iter = [s \in SUBSET DOMAIN es |->
        IF s = {} THEN h ELSE Hear(iter[s \ {Max(s)}], es[Max(s)])]

\* The fold of the library is the function that IsFold describes.
LEMMA FoldIs ==
    ASSUME NEW h, NEW es
    PROVE  FoldLeft(Hear, h, es) = (CHOOSE iter : IsFold(iter, h, es))[DOMAIN es]
    BY DEF FoldLeft, MapThenFoldSet, IsFold

\* What a listener knows after the events of "es".
Heard(h, es) == FoldLeft(Hear, h, es)

\* The last of at most three.
LEMMA LastOfThree ==
    ASSUME NEW s \in SUBSET (1 .. 3)
    PROVE  /\ 3 \in s => Max(s) = 3
           /\ 3 \notin s /\ 2 \in s => Max(s) = 2
           /\ 3 \notin s /\ 2 \notin s /\ 1 \in s => Max(s) = 1
           /\ 3 \notin s /\ 2 \notin s /\ 1 \notin s => s = {}
  <1>1. \A x \in s : x = 1 \/ x = 2 \/ x = 3
    OBVIOUS
  <1>2. ASSUME NEW m \in s, \A y \in s : m >= y
        PROVE  Max(s) = m
    <2>1. \E x \in s : \A y \in s : x >= y
      BY <1>2
    <2>1a. Max(s) = CHOOSE x \in s : \A y \in s : x >= y
      BY DEF Max
    <2>1b. Max(s) \in s /\ \A y \in s : Max(s) >= y
      BY <2>1, <2>1a
    <2>2. Max(s) >= m /\ m >= Max(s)
      BY <1>2, <2>1b
    <2>3. m \in 1 .. 3 /\ Max(s) \in 1 .. 3
      BY <2>1b
    <2> DEFINE last == Max(s)
    <2> HIDE DEF last
    <2>4. last >= m /\ m >= last /\ last \in 1 .. 3
      BY <2>2, <2>3 DEF last
    <2>5. last = m
      BY <2>3, <2>4
    <2>6. QED
      BY <2>5 DEF last
  <1>3. 3 \in s => \A y \in s : 3 >= y
    BY <1>1
  <1>4. 3 \notin s => \A y \in s : 2 >= y
    BY <1>1
  <1>5. 3 \notin s /\ 2 \notin s => \A y \in s : 1 >= y
    BY <1>1
  <1>6. QED
    BY <1>1, <1>2, <1>3, <1>4, <1>5

\* Up to three events are handled one by one.
LEMMA FoldExists ==
    ASSUME NEW h, NEW es, DOMAIN es \subseteq 1 .. 3
    PROVE  \E iter : IsFold(iter, h, es)
  <1> DEFINE One(s)   == IF 1 \in s THEN Hear(h, es[1]) ELSE h
             Two2(s)   == IF 2 \in s THEN Hear(One(s), es[2]) ELSE One(s)
             Three(s) == IF 3 \in s THEN Hear(Two2(s), es[3]) ELSE Two2(s)
             iter     == [s \in SUBSET DOMAIN es |-> Three(s)]
  <1>1. ASSUME NEW s \in SUBSET DOMAIN es
        PROVE  iter[s] = IF s = {} THEN h ELSE Hear(iter[s \ {Max(s)}], es[Max(s)])
    <2>1. s \in SUBSET (1 .. 3) /\ \A x : s \ {x} \in SUBSET DOMAIN es
      OBVIOUS
    <2>2. \A t \in SUBSET DOMAIN es : iter[t] = Three(t)
      OBVIOUS
    <2> HIDE DEF iter
    <2>3. CASE 3 \in s
      <3>1. Max(s) = 3 /\ s # {}
        BY <2>1, <2>3, LastOfThree
      <3>2. Three(s) = Hear(Two2(s), es[3]) /\ Three(s \ {3}) = Two2(s)
        BY <2>3
      <3> HIDE DEF Three, Two2
      <3>3. QED
        BY <2>1, <2>2, <3>1, <3>2
    <2>4. CASE 3 \notin s /\ 2 \in s
      <3>1. Max(s) = 2 /\ s # {}
        BY <2>1, <2>4, LastOfThree
      <3>2. Three(s) = Hear(One(s), es[2]) /\ Three(s \ {2}) = One(s)
        BY <2>4
      <3> HIDE DEF Three, One
      <3>3. QED
        BY <2>1, <2>2, <3>1, <3>2
    <2>5. CASE 3 \notin s /\ 2 \notin s /\ 1 \in s
      <3>1. Max(s) = 1 /\ s # {}
        BY <2>1, <2>5, LastOfThree
      <3>2. Three(s) = Hear(h, es[1]) /\ Three(s \ {1}) = h
        BY <2>5
      <3> HIDE DEF Three
      <3>3. QED
        BY <2>1, <2>2, <3>1, <3>2
    <2>6. CASE 3 \notin s /\ 2 \notin s /\ 1 \notin s
      <3>1. s = {} /\ Three(s) = h
        BY <2>1, <2>6, LastOfThree
      <3> HIDE DEF Three
      <3>2. QED
        BY <2>2, <3>1
    <2>7. QED
      BY <2>3, <2>4, <2>5, <2>6
  <1>2. iter = [s \in SUBSET DOMAIN es |-> iter[s]]
    OBVIOUS
  <1> HIDE DEF iter
  <1>3. IsFold(iter, h, es)
    BY <1>1, <1>2 DEF IsFold
  <1>4. QED
    BY <1>3

\* Fold of the first n.
LEMMA FoldSteps ==
    ASSUME NEW h, NEW es, NEW n \in 0 .. 3, DOMAIN es = 1 .. n
    PROVE  \E iter : /\ Heard(h, es) = iter[1 .. n]
                     /\ iter[{}] = h
                     /\ \A k \in 1 .. n : iter[1 .. k] = Hear(iter[1 .. (k - 1)], es[k])
  <1>1. DOMAIN es \subseteq 1 .. 3
    OBVIOUS
  <1>2. PICK iter : IsFold(iter, h, es) /\ Heard(h, es) = iter[DOMAIN es]
    BY <1>1, FoldIs, FoldExists DEF Heard
  <1>3. \A s \in SUBSET (1 .. n) :
          iter[s] = IF s = {} THEN h ELSE Hear(iter[s \ {Max(s)}], es[Max(s)])
    BY <1>2 DEF IsFold
  <1>4. ASSUME NEW k \in 1 .. n
        PROVE  iter[1 .. k] = Hear(iter[1 .. (k - 1)], es[k])
    <2>1. 1 .. k \in SUBSET (1 .. 3) /\ 1 .. k \in SUBSET (1 .. n) /\ k \in 1 .. 3
      OBVIOUS
    <2>2. Max(1 .. k) = k
      BY <2>1, LastOfThree
    <2>3. 1 .. k # {} /\ (1 .. k) \ {k} = 1 .. (k - 1)
      OBVIOUS
    <2>4. QED
      BY <1>3, <2>1, <2>2, <2>3
  <1>5. iter[{}] = h
    BY <1>3
  <1>6. QED
    BY <1>2, <1>4, <1>5

\* The same, with the names of the parts bound.
LEMMA StepsOf ==
    \A h, es : \A n \in 0 .. 3 : DOMAIN es = 1 .. n =>
        \E iter : /\ Heard(h, es) = iter[1 .. n]
                  /\ iter[{}] = h
                  /\ \A k \in 1 .. n : iter[1 .. k] = Hear(iter[1 .. (k - 1)], es[k])
    BY FoldSteps

\* A step that reports nothing changes nothing for a listener.
LEMMA HearNone ==
    ASSUME NEW h
    PROVE  Heard(h, <<>>) = h
  <1>1. 0 \in 0 .. 3 /\ DOMAIN <<>> = 1 .. 0 /\ 1 .. 0 = {}
    OBVIOUS
  <1>2. \E iter : Heard(h, <<>>) = iter[1 .. 0] /\ iter[{}] = h
    <2> DEFINE es == <<>>
    <2>1. DOMAIN es = 1 .. 0
      BY <1>1
    <2> HIDE DEF es
    <2>2. \E iter : Heard(h, es) = iter[1 .. 0] /\ iter[{}] = h
      BY <1>1, <2>1, StepsOf
    <2>3. QED
      BY <2>2 DEF es
  <1>3. QED
    BY <1>1, <1>2

\* A step that reports one event is heard as that event.
LEMMA HearOne ==
    ASSUME NEW h, NEW a
    PROVE  Heard(h, <<a>>) = Hear(h, a)
  <1>1. 1 \in 0 .. 3 /\ DOMAIN <<a>> = 1 .. 1 /\ 1 .. 0 = {} /\ 1 \in 1 .. 1 /\ <<a>>[1] = a
    OBVIOUS
  <1>2. PICK iter : /\ Heard(h, <<a>>) = iter[1 .. 1]
                    /\ iter[{}] = h
                    /\ \A k \in 1 .. 1 : iter[1 .. k] = Hear(iter[1 .. (k - 1)], <<a>>[k])
    <2> DEFINE es == <<a>>
    <2>1. DOMAIN es = 1 .. 1
      BY <1>1
    <2> HIDE DEF es
    <2>2. \E iter : /\ Heard(h, es) = iter[1 .. 1]
                    /\ iter[{}] = h
                    /\ \A k \in 1 .. 1 : iter[1 .. k] = Hear(iter[1 .. (k - 1)], es[k])
      BY <1>1, <2>1, StepsOf
    <2>3. QED
      BY <2>2 DEF es
  <1>3. iter[1 .. 1] = Hear(iter[1 .. 0], a)
    BY <1>1, <1>2
  <1>4. QED
    BY <1>1, <1>2, <1>3

\* Two events of a step are heard in the order they were reported.
LEMMA HearTwo ==
    ASSUME NEW h, NEW a, NEW b
    PROVE  Heard(h, <<a, b>>) = Hear(Hear(h, a), b)
  <1>1. /\ 2 \in 0 .. 3 /\ DOMAIN <<a, b>> = 1 .. 2 /\ 1 .. 0 = {} /\ 1 \in 1 .. 2 /\ 2 \in 1 .. 2
        /\ <<a, b>>[1] = a /\ <<a, b>>[2] = b
    OBVIOUS
  <1>2. PICK iter : /\ Heard(h, <<a, b>>) = iter[1 .. 2]
                    /\ iter[{}] = h
                    /\ \A k \in 1 .. 2 : iter[1 .. k] = Hear(iter[1 .. (k - 1)], <<a, b>>[k])
    <2> DEFINE es == <<a, b>>
    <2>1. DOMAIN es = 1 .. 2
      BY <1>1
    <2> HIDE DEF es
    <2>2. \E iter : /\ Heard(h, es) = iter[1 .. 2]
                    /\ iter[{}] = h
                    /\ \A k \in 1 .. 2 : iter[1 .. k] = Hear(iter[1 .. (k - 1)], es[k])
      BY <1>1, <2>1, StepsOf
    <2>3. QED
      BY <2>2 DEF es
  <1>3. iter[1 .. 1] = Hear(iter[1 .. 0], a) /\ iter[1 .. 2] = Hear(iter[1 .. 1], b)
    BY <1>1, <1>2
  <1>4. QED
    BY <1>1, <1>2, <1>3

\* So are three, the most that any step reports.
LEMMA HearThree ==
    ASSUME NEW h, NEW a, NEW b, NEW c
    PROVE  Heard(h, <<a, b, c>>) = Hear(Hear(Hear(h, a), b), c)
  <1>1. /\ 3 \in 0 .. 3 /\ DOMAIN <<a, b, c>> = 1 .. 3 /\ 1 .. 0 = {}
        /\ 1 \in 1 .. 3 /\ 2 \in 1 .. 3 /\ 3 \in 1 .. 3
        /\ <<a, b, c>>[1] = a /\ <<a, b, c>>[2] = b /\ <<a, b, c>>[3] = c
    OBVIOUS
  <1>2. PICK iter : /\ Heard(h, <<a, b, c>>) = iter[1 .. 3]
                    /\ iter[{}] = h
                    /\ \A k \in 1 .. 3 : iter[1 .. k] = Hear(iter[1 .. (k - 1)], <<a, b, c>>[k])
    <2> DEFINE es == <<a, b, c>>
    <2>1. DOMAIN es = 1 .. 3
      BY <1>1
    <2> HIDE DEF es
    <2>2. \E iter : /\ Heard(h, es) = iter[1 .. 3]
                    /\ iter[{}] = h
                    /\ \A k \in 1 .. 3 : iter[1 .. k] = Hear(iter[1 .. (k - 1)], es[k])
      BY <1>1, <2>1, StepsOf
    <2>3. QED
      BY <2>2 DEF es
  <1>3. /\ iter[1 .. 1] = Hear(iter[1 .. 0], a) /\ iter[1 .. 2] = Hear(iter[1 .. 1], b)
        /\ iter[1 .. 3] = Hear(iter[1 .. 2], c)
    BY <1>1, <1>2
  <1>4. QED
    BY <1>1, <1>2, <1>3

-----------------------------------------------------------------------------
(* What a listener has been told                                           *)

\* The listener knows the orders of "cs" as a client sees them, and no others.
Knows(h, cs) ==
    /\ DOMAIN h = {c.id : c \in cs}
    /\ \A c \in cs : AsSeen(h[c.id]) = AsSeen(c)

\* The same, but for what it knows of one more order.
KnowsBut(h, cs, id) ==
    /\ Fresh(id, cs)
    /\ DOMAIN h \ {id} = {c.id : c \in cs}
    /\ \A c \in cs : AsSeen(h[c.id]) = AsSeen(c)

\* Who knows an order and the others knows the others.
LEMMA KnowsMore ==
    ASSUME NEW h, NEW cs, NEW c, Fresh(c.id, cs), Knows(h, cs \union {c})
    PROVE  KnowsBut(h, cs, c.id)
    BY DEF Knows, KnowsBut, Fresh

\* Who knows orders of other ids knows all but the one of this id.
LEMMA KnowsNothing ==
    ASSUME NEW h, NEW cs, NEW id, Fresh(id, cs), Knows(h, cs)
    PROVE  KnowsBut(h, cs, id)
    BY DEF Knows, KnowsBut, Fresh

\* An event about the order puts right what the listener knows of it.
LEMMA HearRight ==
    ASSUME NEW h, NEW cs, NEW event, KnowsBut(h, cs, event.order.id)
    PROVE  /\ KnowsBut(Hear(h, event), cs, event.order.id)
           /\ event.kind = "Deleted" => Knows(Hear(h, event), cs)
           /\ event.kind # "Deleted" => Knows(Hear(h, event), cs \union {event.order})
  <1> DEFINE id == event.order.id
             g  == Hear(h, event)
  <1>1. Fresh(id, cs) /\ DOMAIN h \ {id} = {c.id : c \in cs} /\ \A c \in cs : c.id # id
    BY DEF KnowsBut, Fresh
  <1>2. \A c \in cs : AsSeen(h[c.id]) = AsSeen(c) /\ c.id \in DOMAIN h
    BY <1>1 DEF KnowsBut
  <1>3. CASE event.kind = "Deleted"
    <2>1. g = Drop(h, id)
      BY <1>3 DEF Hear
    <2>2. DOMAIN g = DOMAIN h \ {id} /\ \A x \in DOMAIN g : g[x] = h[x]
      BY <2>1 DEF Drop
    <2> HIDE DEF g, id
    <2>3. Knows(g, cs) /\ KnowsBut(g, cs, id)
      BY <1>1, <1>2, <2>2 DEF Knows, KnowsBut
    <2>4. QED
      BY <1>3, <2>3 DEF g, id
  <1>4. CASE event.kind # "Deleted"
    <2>1. g = Put(h, id, event.order)
      BY <1>4 DEF Hear
    <2>2. /\ DOMAIN g = DOMAIN h \union {id} /\ g[id] = event.order
          /\ \A x \in DOMAIN h : x # id => g[x] = h[x]
      BY <2>1 DEF Put
    <2>3. event.order.id = id
      OBVIOUS
    <2> HIDE DEF g, id
    <2>4. \A c \in cs : AsSeen(g[c.id]) = AsSeen(c)
      BY <1>1, <1>2, <2>2
    <2>5. DOMAIN g = {c.id : c \in cs} \union {id} /\ DOMAIN g \ {id} = {c.id : c \in cs}
      BY <1>1, <2>2
    <2>6. Knows(g, cs \union {event.order})
      BY <2>2, <2>3, <2>4, <2>5 DEF Knows
    <2>7. KnowsBut(g, cs, id)
      BY <1>1, <2>4, <2>5 DEF KnowsBut
    <2>8. QED
      BY <1>4, <2>6, <2>7 DEF g, id
  <1>5. QED
    BY <1>3, <1>4

\* A copy that looks the same.
LEMMA KnowsSame ==
    ASSUME NEW h, NEW cs, NEW c, NEW d, Knows(h, cs \union {c}), c.id = d.id, AsSeen(c) = AsSeen(d)
    PROVE  Knows(h, cs \union {d})
    BY DEF Knows

-----------------------------------------------------------------------------
(* The copies a listener is told of: the orders in the book, and those     *)
(* match holds.  An order that addOrder or activateStopOrder holds has not *)
(* been reported yet, or has been reported deleted.                        *)

Matching(frame) == frame.pc \in {"check", "match"}
Matched(s) == {s[i].order : i \in {j \in DOMAIN s : Matching(s[j])}}

HeardInv == Knows(heard, InBook(orders) \union Matched(stack))

\* The invariant in the next state, said of the primed variables.
LEMMA NextHeard == HeardInv' <=> Knows(heard', InBook(orders') \union Matched(stack'))
    BY DEF HeardInv, Knows, InBook, Matched, Matching, AsSeen, Kind, AtAnyPrice

\* A call of match or canMatchOrder holds an order.
LEMMA MatchingCarries == ASSUME NEW f, Matching(f) PROVE Carries(f)
    BY DEF Matching, Carries

\* The orders such calls hold are among those that calls hold.
LEMMA MatchedCarried == ASSUME NEW s PROVE Matched(s) \subseteq Carried(s)
    BY DEF Matched, Carried, Matching, Carries

\* A call of match that is made brings the order it was given.
LEMMA MatchedPush ==
    ASSUME NEW s \in Seq(Frame), NEW f \in Frame
    PROVE  /\ Matching(f) => Matched(<<f>> \o s) = Matched(s) \union {f.order}
           /\ ~Matching(f) => Matched(<<f>> \o s) = Matched(s)
  <1> DEFINE t == <<f>> \o s
  <1>1. /\ DOMAIN t = 1 .. Len(s) + 1 /\ DOMAIN s = 1 .. Len(s) /\ Len(s) \in Nat
        /\ t[1] = f
        /\ \A i \in DOMAIN t : i # 1 => i - 1 \in DOMAIN s /\ t[i] = s[i - 1]
        /\ \A i \in DOMAIN s : i + 1 \in DOMAIN t /\ t[i + 1] = s[i]
    OBVIOUS
  <1> HIDE DEF t
  <1>2. ASSUME NEW o
        PROVE  o \in Matched(t) <=> o \in Matched(s) \/ (Matching(f) /\ o = f.order)
    <2>1. CASE o \in Matched(t)
      <3>1. PICK i \in DOMAIN t : Matching(t[i]) /\ o = t[i].order
        BY <2>1 DEF Matched
      <3>2. QED
        BY <1>1, <3>1 DEF Matched
    <2>2. CASE o \in Matched(s)
      <3>1. PICK i \in DOMAIN s : Matching(s[i]) /\ o = s[i].order
        BY <2>2 DEF Matched
      <3>2. i + 1 \in DOMAIN t /\ t[i + 1] = s[i]
        BY <1>1
      <3>3. QED
        BY <2>2, <3>1, <3>2 DEF Matched
    <2>3. CASE Matching(f) /\ o = f.order
      <3>1. 1 \in DOMAIN t /\ t[1] = f
        BY <1>1
      <3>2. QED
        BY <2>3, <3>1 DEF Matched
    <2>4. QED
      BY <2>1, <2>2, <2>3
  <1>3. QED
    BY <1>2 DEF t

\* A call of match that returns takes its order with it.
LEMMA MatchedPop ==
    ASSUME NEW s \in Seq(Frame), s # <<>>
    PROVE  /\ Matching(Head(s)) => Matched(s) = Matched(Tail(s)) \union {Head(s).order}
           /\ ~Matching(Head(s)) => Matched(s) = Matched(Tail(s))
  <1> DEFINE f == Head(s)
             t == Tail(s)
  <1>1. f \in Frame /\ t \in Seq(Frame) /\ s = <<f>> \o t
    OBVIOUS
  <1> HIDE DEF f, t
  <1>2. /\ Matching(f) => Matched(<<f>> \o t) = Matched(t) \union {f.order}
        /\ ~Matching(f) => Matched(<<f>> \o t) = Matched(t)
    BY <1>1, MatchedPush
  <1>3. /\ Matching(f) => Matched(s) = Matched(t) \union {f.order}
        /\ ~Matching(f) => Matched(s) = Matched(t)
    BY <1>1, <1>2
  <1>4. QED
    BY <1>3 DEF f, t

\* A call on top of one that is not of match.
LEMMA MatchedTwo ==
    ASSUME NEW s \in Seq(Frame), NEW f \in Frame, NEW g \in Frame, ~Matching(g)
    PROVE  /\ Matching(f) => Matched(<<f, g>> \o s) = Matched(s) \union {f.order}
           /\ ~Matching(f) => Matched(<<f, g>> \o s) = Matched(s)
           /\ <<f, g>> \o s \in Seq(Frame)
  <1>1. <<f, g>> \o s = <<f>> \o (<<g>> \o s) /\ <<g>> \o s \in Seq(Frame)
    BY TwoCalls
  <1>2. Matched(<<g>> \o s) = Matched(s)
    BY MatchedPush
  <1>3. <<f>> \o (<<g>> \o s) \in Seq(Frame)
    BY <1>1
  <1>4. QED
    BY <1>1, <1>2, <1>3, MatchedPush, ZenonT(30)

\* The frames the calls are made of.
LEMMA FramesMatch ==
    ASSUME NEW o \in Order
    PROVE  /\ BeginActivation \in Frame /\ ~Matching(BeginActivation)
           /\ AddFrame(o) \in Frame /\ ~Matching(AddFrame(o))
           /\ MatchFrame(o) \in Frame /\ Matching(MatchFrame(o)) /\ MatchFrame(o).order = Priced(o)
           /\ LET again == [pc |-> "reissue", order |-> o, available |-> 0] IN
              again \in Frame /\ ~Matching(again)
    BY FramesTyped DEF Busy, BeginActivation, Matching, AddFrame, MatchFrame

-----------------------------------------------------------------------------
(* What the listener knows when a step begins                              *)

Hears == IF aborted' THEN UNCHANGED heard ELSE Listen

\* Events are heard unless an assertion fails.
LEMMA HeardEvents ==
    ASSUME Hears, ~aborted'
    PROVE  heard' = Heard(heard, emitted')
    BY DEF Hears, Listen, Heard

\* Steps that report nothing and leave every copy as it was.
LEMMA NothingHeard ==
    ASSUME HeardInv, Hears, emitted' = <<>>,
           InBook(orders') \union Matched(stack') = InBook(orders) \union Matched(stack)
    PROVE  HeardInv'
  <1>1. heard' = heard
    <2>1. CASE aborted'
      BY <2>1 DEF Hears
    <2>2. CASE ~aborted'
      <3>1. heard' = Heard(heard, <<>>)
        BY <2>2, HeardEvents
      <3>2. QED
        BY <3>1, HearNone
    <2>3. QED
      BY <2>1, <2>2
  <1>2. QED
    BY <1>1, NextHeard DEF HeardInv

\* Nor does a failed assertion.
LEMMA AbortHeard ==
    ASSUME HeardInv, Hears, Abort
    PROVE  HeardInv'
  <1>1. heard' = heard /\ orders' = orders /\ stack' = stack
    BY DEF Hears, Abort, book
  <1>2. QED
    BY <1>1, NextHeard DEF HeardInv

\* The innermost call holds an order.
LEMMA CallKnown ==
    ASSUME IndexInv, Apart, HeardInv, NEW pc \in {"add", "check", "match", "reissue"}, At(pc)
    PROVE  /\ stack \in Seq(Frame) /\ stack # <<>> /\ Tail(stack) \in Seq(Frame)
           /\ Top \in OrderFrame /\ Top.order \in Order /\ Top.pc = pc
           /\ last_traded_price \in U64 /\ ~aborted /\ Top.order.id \notin DOMAIN orders
           /\ KnowsBut(heard, InBook(orders) \union Matched(Tail(stack)), Top.order.id)
           /\ pc \in {"check", "match"} =>
                /\ Knows(heard, (InBook(orders) \union Matched(Tail(stack))) \union {Top.order})
                /\ InBook(orders) \union Matched(stack)
                      = (InBook(orders) \union Matched(Tail(stack))) \union {Top.order}
           /\ pc \in {"add", "reissue"} =>
                Knows(heard, InBook(orders) \union Matched(Tail(stack)))
  <1> DEFINE others == InBook(orders) \union Matched(Tail(stack))
  <1>1. /\ stack \in Seq(Frame) /\ stack # <<>> /\ Top = Head(stack) /\ Carries(Top)
        /\ Tail(stack) \in Seq(Frame) /\ Top \in OrderFrame /\ Top.order \in Order
        /\ last_traded_price \in U64 /\ Top.pc = pc /\ ~aborted
    BY CarrierState DEF At
  <1>2. Top.order.id \notin DOMAIN orders
    BY <1>1, ReturnDistinct DEF Apart
  <1>3. Fresh(Top.order.id, others)
    <2>1. Fresh(Top.order.id, InBook(orders) \union Carried(Tail(stack)))
      BY <1>1, CallParted DEF Parted
    <2>2. QED
      BY <2>1, MatchedCarried DEF Fresh
  <1>4. CASE pc \in {"check", "match"}
    <2>1. Matched(stack) = Matched(Tail(stack)) \union {Top.order}
      BY <1>1, <1>4, MatchedPop DEF Matching
    <2>2. Knows(heard, others \union {Top.order}) /\ InBook(orders) \union Matched(stack) = others \union {Top.order}
      <3>1. InBook(orders) \union Matched(stack) = others \union {Top.order}
        BY <2>1
      <3>2. QED
        BY <3>1 DEF HeardInv
    <2> HIDE DEF others
    <2>3. KnowsBut(heard, others, Top.order.id)
      BY <1>3, <2>2, KnowsMore
    <2>4. QED
      BY <1>1, <1>2, <1>4, <2>2, <2>3 DEF others
  <1>5. CASE pc \in {"add", "reissue"}
    <2>1. Matched(stack) = Matched(Tail(stack))
      BY <1>1, <1>5, MatchedPop DEF Matching
    <2>2. Knows(heard, others)
      BY <2>1 DEF HeardInv
    <2> HIDE DEF others
    <2>3. KnowsBut(heard, others, Top.order.id)
      BY <1>3, <2>2, KnowsNothing
    <2>4. QED
      BY <1>1, <1>2, <1>5, <2>2, <2>3 DEF others
  <1>6. QED
    BY <1>4, <1>5

\* An order rests in the book.
LEMMA EntryKnown ==
    ASSUME IndexInv, Apart, HeardInv, NEW id \in DOMAIN orders
    PROVE  /\ orders[id].order \in Order /\ orders[id].order.id = id
           /\ KnowsBut(heard, InBook(Drop(orders, id)) \union Matched(stack), id)
           /\ Knows(heard, (InBook(Drop(orders, id)) \union Matched(stack)) \union {orders[id].order})
           /\ InBook(orders) \union Matched(stack)
                = (InBook(Drop(orders, id)) \union Matched(stack)) \union {orders[id].order}
  <1> DEFINE others == InBook(Drop(orders, id)) \union Matched(stack)
             c      == orders[id].order
  <1>1. c \in Order /\ c.id = id
    BY EntriesRight DEF IdsRight
  <1>2. Fresh(id, others)
    <2>1. Fresh(id, InBook(Drop(orders, id)) \union Carried(stack))
      BY <1>1, EntryParted DEF Parted
    <2>2. QED
      BY <2>1, MatchedCarried DEF Fresh
  <1>3. InBook(orders) \union Matched(stack) = others \union {c}
    BY BookWithout
  <1>4. Knows(heard, others \union {c})
    BY <1>3 DEF HeardInv
  <1>5. KnowsBut(heard, others, id)
    <2> HIDE DEF others, c
    <2>1. QED
      BY <1>1, <1>2, <1>4, KnowsMore
  <1>6. QED
    BY <1>1, <1>3, <1>4, <1>5

-----------------------------------------------------------------------------
(* Deletions and changes of resting orders                                 *)

\* One more event.
LEMMA AppendTwo ==
    ASSUME NEW a, NEW b
    PROVE  Append(<<a>>, b) = <<a, b>>
  <1> DEFINE u == Append(<<a>>, b)
  <1>1. <<a>> \in Seq({a, b}) /\ <<a, b>> \in Seq({a, b}) /\ b \in {a, b}
    OBVIOUS
  <1>2. u \in Seq({a, b}) /\ Len(u) = 2 /\ u[1] = a /\ u[2] = b
    BY <1>1
  <1> HIDE DEF u
  <1>3. u = <<a, b>>
    BY <1>1, <1>2, SeqEqual, \A i \in 1 .. 2 : i = 1 \/ i = 2, Len(<<a, b>>) = 2
  <1>4. QED
    BY <1>3 DEF u

\* A third event of a step.
LEMMA AppendThree ==
    ASSUME NEW a, NEW b, NEW c
    PROVE  Append(<<a, b>>, c) = <<a, b, c>>
  <1> DEFINE u == Append(<<a, b>>, c)
  <1>1. <<a, b>> \in Seq({a, b, c}) /\ <<a, b, c>> \in Seq({a, b, c}) /\ c \in {a, b, c}
    OBVIOUS
  <1>2. u \in Seq({a, b, c}) /\ Len(u) = 3 /\ u[1] = a /\ u[2] = b /\ u[3] = c
    BY <1>1
  <1> HIDE DEF u
  <1>3. u = <<a, b, c>>
    BY <1>1, <1>2, SeqEqual, \A i \in 1 .. 3 : i = 1 \/ i = 2 \/ i = 3, Len(<<a, b, c>>) = 3
  <1>4. QED
    BY <1>3 DEF u

\* No call, no order.
LEMMA MatchedNone == Matched(<<>>) = {}
    BY DEF Matched

\* deleteOrder reports the order deleted and begins an activation.
LEMMA DeleteHeard ==
    ASSUME IndexInv, Apart, HeardInv, Hears, ~aborted, NEW id \in DOMAIN orders,
           NEW frames \in Seq(Frame), Matched(frames) = Matched(stack), Delete(id, frames)
    PROVE  HeardInv'
  <1> DEFINE o      == orders[id].order
             others == InBook(Drop(orders, id)) \union Matched(stack)
             event  == Deleted(o)
  <1>1. /\ orders' = Drop(orders, id) /\ emitted' = <<event>> /\ ~aborted'
        /\ stack' = <<BeginActivation>> \o frames
    BY DEF Delete
  <1>2. o \in Order /\ o.id = id /\ KnowsBut(heard, others, id)
    BY EntryKnown
  <1>3. event.kind = "Deleted" /\ event.order = o /\ event.order.id = id
    BY <1>2 DEF Deleted
  <1> HIDE DEF event, others
  <1>4. heard' = Hear(heard, event)
    BY <1>1, HeardEvents, HearOne
  <1>5. Knows(Hear(heard, event), others)
    BY <1>2, <1>3, HearRight
  <1>6. Matched(stack') = Matched(stack)
    BY <1>1, <1>2, FramesMatch, MatchedPush
  <1>7. InBook(orders') \union Matched(stack') = others
    BY <1>1, <1>6 DEF others
  <1>8. QED
    BY <1>4, <1>5, <1>7, NextHeard

\* Settle keeps the changed order in the book, or reports it deleted.
LEMMA SettleBook ==
    ASSUME IndexInv, NEW frames \in Seq(Frame), NEW o, o.id \in DOMAIN orders,
           NEW p, NEW amount, NEW events, Settle(o, p, amount, events, frames)
    PROVE  /\ o.open = 0 => /\ InBook(orders') = InBook(Drop(orders, o.id))
                            /\ emitted' = Append(events, Deleted(o))
           /\ o.open # 0 => /\ InBook(orders') = InBook(Drop(orders, o.id)) \union {o}
                            /\ emitted' = events
           /\ Matched(stack') = Matched(frames)
  <1>1. BeginActivation \in Frame /\ ~Matching(BeginActivation)
    BY DEF BeginActivation, Frame, BeginFrame, Matching
  <1>2. orders \in [DOMAIN orders -> Entry]
    BY EntriesRight
  <1>3. CASE /\ o.open = 0 /\ orders' = Drop(orders, o.id) /\ stack' = <<BeginActivation>> \o frames
             /\ emitted' = Append(events, Deleted(o))
    BY <1>1, <1>3, MatchedPush
  <1>4. CASE /\ o.open # 0 /\ orders' = [orders EXCEPT ![o.id].order = o] /\ stack' = frames
             /\ emitted' = events
    <2>1. /\ DOMAIN orders' = DOMAIN orders /\ orders'[o.id].order = o
          /\ \A id \in DOMAIN orders : id # o.id => orders'[id] = orders[id]
      BY <1>2, <1>4 DEF Entry
    <2>2. InBook(orders') = InBook(Drop(orders, o.id)) \union {o}
      BY <2>1, ZenonT(30) DEF InBook, Drop
    <2>3. QED
      BY <1>4, <2>2
  <1>5. QED
    BY <1>3, <1>4 DEF Settle

\* When the listener knows the changed order, it knows the book.
LEMMA SettledHeard ==
    ASSUME NEW o, NEW h, NEW cs, NEW frames,
           cs = InBook(Drop(orders, o.id)) \union Matched(frames),
           Knows(h, cs \union {o}), KnowsBut(h, cs, o.id),
           o.open = 0 => /\ InBook(orders') = InBook(Drop(orders, o.id))
                         /\ heard' = Hear(h, Deleted(o)),
           o.open # 0 => /\ InBook(orders') = InBook(Drop(orders, o.id)) \union {o}
                         /\ heard' = h,
           Matched(stack') = Matched(frames)
    PROVE  HeardInv'
  <1>1. CASE o.open = 0
    <2> DEFINE event == Deleted(o)
    <2>1. event.kind = "Deleted" /\ event.order.id = o.id
      BY DEF Deleted
    <2>2. heard' = Hear(h, event) /\ InBook(orders') \union Matched(stack') = cs
      BY <1>1
    <2> HIDE DEF event
    <2>3. Knows(Hear(h, event), cs)
      BY <2>1, HearRight
    <2>4. QED
      BY <2>2, <2>3, NextHeard
  <1>2. CASE o.open # 0
    <2>1. heard' = h /\ InBook(orders') \union Matched(stack') = cs \union {o}
      BY <1>2
    <2>2. QED
      BY <2>1, NextHeard
  <1>3. QED
    BY <1>1, <1>2

\* cancelOrder and executeOrder report the order, then settle it.
LEMMA ChangeHeard ==
    ASSUME IndexInv, Apart, HeardInv, Hears, ~aborted, stack = <<>>,
           NEW o, o.id \in DOMAIN orders, NEW event, event \in {Updated(o), Executed(o)},
           NEW p, NEW amount, Settle(o, p, amount, <<event>>, <<BeginActivation>>),
           aborted' = aborted
    PROVE  HeardInv'
  <1> DEFINE others == InBook(Drop(orders, o.id)) \union Matched(stack)
             frames == <<BeginActivation>>
             gone   == Deleted(o)
  <1>1. KnowsBut(heard, others, o.id)
    BY EntryKnown
  <1>2. event.kind # "Deleted" /\ event.order = o
    BY DEF Updated, Executed
  <1>3. /\ Knows(Hear(heard, event), others \union {o})
        /\ KnowsBut(Hear(heard, event), others, o.id)
    <2> HIDE DEF others
    <2>1. QED
      BY <1>1, <1>2, HearRight
  <1>4. frames \in Seq(Frame) /\ Matched(frames) = Matched(stack)
    <2>1. BeginActivation \in Frame /\ ~Matching(BeginActivation)
      BY DEF BeginActivation, Frame, BeginFrame, Matching
    <2>2. <<>> \in Seq(Frame) /\ <<BeginActivation>> \in Seq(Frame)
          /\ <<BeginActivation>> \o <<>> = <<BeginActivation>>
      BY <2>1
    <2>3. QED
      BY <2>1, <2>2, MatchedPush
  <1>5. /\ o.open = 0 => /\ InBook(orders') = InBook(Drop(orders, o.id))
                         /\ emitted' = Append(<<event>>, gone)
        /\ o.open # 0 => /\ InBook(orders') = InBook(Drop(orders, o.id)) \union {o}
                         /\ emitted' = <<event>>
        /\ Matched(stack') = Matched(frames)
    BY <1>4, SettleBook
  <1>6. Append(<<event>>, gone) = <<event, gone>>
    BY AppendTwo
  <1>7. o.open = 0 => heard' = Hear(Hear(heard, event), gone)
    <2> HIDE DEF gone
    <2>1. QED
      BY <1>5, <1>6, HeardEvents, HearTwo
  <1>8. o.open # 0 => heard' = Hear(heard, event)
    BY <1>5, HeardEvents, HearOne
  <1>9. others = InBook(Drop(orders, o.id)) \union Matched(frames)
    BY <1>4
  <1> HIDE DEF others, frames
  <1>10. QED
    BY <1>3, <1>5, <1>7, <1>8, <1>9, SettledHeard

-----------------------------------------------------------------------------
(* The requests                                                            *)

\* Between requests no call holds an order.
LEMMA IdleKnown ==
    ASSUME Idle
    PROVE  stack = <<>> /\ ~aborted /\ Matched(stack) = {}
    BY MatchedNone DEF Idle

\* addOrder reports nothing before it knows what becomes of the order.
LEMMA AddOrderHeard ==
    ASSUME HeardInv, Hears, NEW o \in Tickets, AddOrder(o)
    PROVE  HeardInv'
  <1>1. /\ stack' = <<AddFrame(o)>> /\ emitted' = <<>> /\ orders' = orders /\ Matched(stack) = {}
    BY IdleKnown DEF AddOrder, book
  <1>2. o \in Order
    BY InputsAssumption
  <1>3. Matched(stack') = {}
    <2>1. AddFrame(o) \in Frame /\ ~Matching(AddFrame(o))
      BY <1>2, FramesMatch
    <2>2. <<>> \in Seq(Frame) /\ <<AddFrame(o)>> \o <<>> = <<AddFrame(o)>>
      BY <2>1
    <2>3. QED
      BY <1>1, <2>1, <2>2, MatchedPush, MatchedNone
  <1>4. InBook(orders') \union Matched(stack') = InBook(orders) \union Matched(stack)
    BY <1>1, <1>3
  <1>5. QED
    BY <1>1, <1>4, NothingHeard

\* deleteOrder reports the deletion of the order it takes out.
LEMMA DeleteOrderHeard ==
    ASSUME IndexInv, Apart, HeardInv, Hears, NEW id \in DOMAIN orders, DeleteOrder(id)
    PROVE  HeardInv'
  <1>1. stack = <<>> /\ ~aborted /\ Delete(id, <<>>) /\ <<>> \in Seq(Frame)
    BY IdleKnown DEF DeleteOrder
  <1>2. QED
    BY <1>1, DeleteHeard

\* modifyOrder reports the deletion of the old order; the new one is on its way.
LEMMA ModifyOrderHeard ==
    ASSUME IndexInv, Apart, HeardInv, Hears, NEW id \in DOMAIN orders, NEW new_id \in OrderId,
           NEW price \in ModifyPrices, ModifyOrder(id, new_id, price)
    PROVE  HeardInv'
  <1> DEFINE new    == [orders[id].order EXCEPT !.id = new_id, !.price = price]
             frames == <<AddFrame(new), BeginActivation>>
  <1>1. ~aborted /\ Delete(id, frames) /\ Matched(stack) = {}
    BY IdleKnown DEF ModifyOrder
  <1>2. new \in Order
    <2>1. price \in U64 /\ orders[id].order \in Order
      BY InputsAssumption, EntriesRight
    <2>2. QED
      BY <2>1 DEF Order
  <1>3. frames \in Seq(Frame) /\ Matched(frames) = {}
    <2>1. /\ AddFrame(new) \in Frame /\ ~Matching(AddFrame(new))
          /\ BeginActivation \in Frame /\ ~Matching(BeginActivation)
      BY <1>2, FramesMatch
    <2>2. <<>> \in Seq(Frame) /\ frames \in Seq(Frame) /\ frames \o <<>> = frames
      BY <2>1
    <2>3. Matched(frames \o <<>>) = Matched(<<>>)
      BY <2>1, <2>2, MatchedTwo, ZenonT(30)
    <2>4. QED
      BY <2>2, <2>3, MatchedNone
  <1> HIDE DEF frames
  <1>4. QED
    BY <1>1, <1>3, DeleteHeard

\* cancelOrder reports an update, or a deletion when nothing is left.
LEMMA CancelOrderHeard ==
    ASSUME IndexInv, Apart, HeardInv, Hears, NEW id \in DOMAIN orders, NEW quantity,
           CancelOrder(id, quantity)
    PROVE  HeardInv'
  <1> DEFINE before    == orders[id].order
             cancelled == SetQuantity(before, quantity)
             amount    == Minus(before.open, cancelled.open)
             price     == orders[id].level_it
  <1>1. stack = <<>> /\ ~aborted
    BY IdleKnown DEF CancelOrder
  <1>2. cancelled.id = id
    <2>1. before \in Order /\ before.id = id
      BY EntryKnown
    <2>2. QED
      BY <2>1 DEF SetQuantity, Order
  <1>3. \/ /\ Settle(cancelled, price, amount, <<Updated(cancelled)>>, <<BeginActivation>>)
           /\ aborted' = aborted
        \/ Abort
    BY DEF CancelOrder
  <1> HIDE DEF cancelled, amount, price
  <1>4. QED
    BY <1>1, <1>2, <1>3, ChangeHeard, AbortHeard

\* An execution does not change whose order it is.
LEMMA ExecuteId ==
    ASSUME NEW o \in Order, NEW p, NEW q
    PROVE  Execute(o, p, q).id = o.id
    BY DEF Execute, Order

\* Both executeOrder report the execution, and what is left of the order.
LEMMA ExecuteAtHeard ==
    ASSUME IndexInv, Apart, HeardInv, Hears, Idle, NEW id \in DOMAIN orders, NEW quantity, NEW price,
           ExecuteAt(id, quantity, price)
    PROVE  HeardInv'
  <1> DEFINE before == orders[id].order
             amount == Lesser(quantity, before.open)
             after  == Execute(before, price, amount)
             key    == orders[id].level_it
  <1>1. stack = <<>> /\ ~aborted
    BY IdleKnown
  <1>2. after.id = id
    <2>1. before \in Order /\ before.id = id
      BY EntryKnown
    <2> HIDE DEF before, amount
    <2>2. QED
      BY <2>1, ExecuteId
  <1>3. \/ /\ Settle(after, key, amount, <<Executed(after)>>, <<BeginActivation>>)
           /\ aborted' = aborted
        \/ Abort
    BY DEF ExecuteAt
  <1> HIDE DEF after, amount, key
  <1>4. QED
    BY <1>1, <1>2, <1>3, ChangeHeard, AbortHeard

\* Every request leaves a listener with what it should know.
LEMMA RequestHeard ==
    ASSUME IndexInv, Apart, HeardInv, Hears, Request
    PROVE  HeardInv'
  <1>1. CASE \E o \in Tickets : AddOrder(o)
    BY <1>1, AddOrderHeard
  <1>2. ASSUME NEW id \in DOMAIN orders, DeleteOrder(id)
        PROVE  HeardInv'
    BY <1>2, DeleteOrderHeard
  <1>3. ASSUME NEW id \in DOMAIN orders, NEW new_id \in OrderId, NEW price \in ModifyPrices,
               ModifyOrder(id, new_id, price)
        PROVE  HeardInv'
    BY <1>3, ModifyOrderHeard
  <1>4. ASSUME NEW id \in DOMAIN orders, NEW quantity, CancelOrder(id, quantity)
        PROVE  HeardInv'
    BY <1>4, CancelOrderHeard
  <1>5. ASSUME NEW id \in DOMAIN orders, NEW quantity, ExecuteOrder(id, quantity)
        PROVE  HeardInv'
    BY <1>5, ExecuteAtHeard DEF ExecuteOrder
  <1>6. ASSUME NEW id \in DOMAIN orders, NEW quantity, NEW price, ExecuteOrderAtPrice(id, quantity, price)
        PROVE  HeardInv'
    BY <1>6, ExecuteAtHeard DEF ExecuteOrderAtPrice
  <1>7. QED
    BY <1>1, <1>2, <1>3, <1>4, <1>5, <1>6 DEF Request

-----------------------------------------------------------------------------
(* The steps of addOrder and match                                         *)

\* match gets an order the listener knows.
LEMMA ToMatchHeard ==
    ASSUME IndexInv, Tail(stack) \in Seq(Frame), NEW o \in Order,
           Knows(heard', (InBook(orders) \union Matched(Tail(stack))) \union {o}),
           orders' = orders,
           \/ stack' = <<MatchFrame(o), BeginActivation>> \o Tail(stack)
           \/ stack' = <<MatchFrame(o)>> \o Tail(stack)
    PROVE  HeardInv'
  <1> DEFINE others == InBook(orders) \union Matched(Tail(stack))
             frame  == MatchFrame(o)
             x      == Priced(o)
  <1>1. /\ frame \in Frame /\ Matching(frame) /\ frame.order = x
        /\ BeginActivation \in Frame /\ ~Matching(BeginActivation)
    BY FramesMatch
  <1>2. x.id = o.id /\ AsSeen(x) = AsSeen(o)
    BY PricedSeen
  <1> HIDE DEF frame, x
  <1>3. Matched(stack') = Matched(Tail(stack)) \union {x}
    <2>1. CASE stack' = <<frame, BeginActivation>> \o Tail(stack)
      BY <1>1, <2>1, MatchedTwo
    <2>2. CASE stack' = <<frame>> \o Tail(stack)
      BY <1>1, <2>2, MatchedPush
    <2>3. QED
      BY <2>1, <2>2 DEF frame
  <1>4. InBook(orders') \union Matched(stack') = others \union {x}
    BY <1>3
  <1> HIDE DEF others
  <1>5. PICK h : h = heard'
    OBVIOUS
  <1>6. Knows(h, others \union {o})
    BY <1>5 DEF others
  <1>7. Knows(h, others \union {x})
    BY <1>2, <1>6, KnowsSame
  <1>8. QED
    BY <1>4, <1>5, <1>7, NextHeard

\* addMarketOrder and addLimitOrder report the order and go on to match it.
LEMMA AddToMarketHeard ==
    ASSUME IndexInv, Apart, HeardInv, Hears, AddToMarket
    PROVE  HeardInv'
  <1> DEFINE o      == Top.order
             others == InBook(orders) \union Matched(Tail(stack))
             event  == Added(o)
  <1>1. /\ Tail(stack) \in Seq(Frame) /\ o \in Order /\ ~aborted /\ KnowsBut(heard, others, o.id)
    BY CallKnown DEF AddToMarket
  <1>2. /\ stack' = <<MatchFrame(o), BeginActivation>> \o Tail(stack) /\ orders' = orders
        /\ emitted' = <<event>> /\ ~aborted'
    BY <1>1 DEF AddToMarket, Proceed, book
  <1>3. event.kind # "Deleted" /\ event.order = o
    BY DEF Added
  <1> HIDE DEF event, others
  <1>4. heard' = Hear(heard, event)
    BY <1>2, HeardEvents, HearOne
  <1>5. Knows(heard', others \union {o})
    BY <1>1, <1>3, <1>4, HearRight
  <1>6. QED
    BY <1>1, <1>2, <1>5, ToMatchHeard DEF others

\* A stop order that is due when it arrives is reported as what it becomes.
LEMMA AddReachedStopHeard ==
    ASSUME IndexInv, Apart, HeardInv, Hears, AddReachedStop
    PROVE  HeardInv'
  <1> DEFINE o      == Top.order
             t      == Triggered(WithStopPrice(o))
             others == InBook(orders) \union Matched(Tail(stack))
             first  == Added(o)
             second == Updated(t)
  <1>1. /\ Tail(stack) \in Seq(Frame) /\ o \in Order /\ ~aborted /\ KnowsBut(heard, others, o.id)
        /\ last_traded_price \in U64
    BY CallKnown DEF AddReachedStop
  <1>2. /\ stack' = <<MatchFrame(t), BeginActivation>> \o Tail(stack) /\ orders' = orders
        /\ emitted' = <<first, second>> /\ ~aborted'
    BY <1>1 DEF AddReachedStop, Proceed, book
  <1>3. t \in Order /\ t.id = o.id
    BY <1>1, WithStopPriceTyped, TriggeredTyped
  <1>4. /\ first.kind # "Deleted" /\ first.order = o
        /\ second.kind # "Deleted" /\ second.order = t
    BY DEF Added, Updated
  <1> HIDE DEF first, second, others, t
  <1>5. heard' = Hear(Hear(heard, first), second)
    BY <1>2, HeardEvents, HearTwo
  <1>6. KnowsBut(Hear(heard, first), others, o.id)
    BY <1>1, <1>4, HearRight
  <1>7. Knows(heard', others \union {t})
    BY <1>3, <1>4, <1>5, <1>6, HearRight
  <1>8. QED
    BY <1>1, <1>2, <1>3, <1>7, ToMatchHeard DEF others

\* An activated stop order is reported again, after it was reported deleted.
LEMMA ReissueOrderHeard ==
    ASSUME IndexInv, Apart, HeardInv, Hears, ReissueOrder
    PROVE  HeardInv'
  <1> DEFINE t      == Triggered(Top.order)
             others == InBook(orders) \union Matched(Tail(stack))
             event  == Updated(t)
  <1>1. /\ Tail(stack) \in Seq(Frame) /\ Top.order \in Order /\ ~aborted
        /\ KnowsBut(heard, others, Top.order.id)
    BY CallKnown DEF ReissueOrder
  <1>2. /\ stack' = <<MatchFrame(t)>> \o Tail(stack) /\ orders' = orders
        /\ emitted' = <<event>> /\ ~aborted'
    BY <1>1 DEF ReissueOrder, Becomes, Proceed, book
  <1>3. t \in Order /\ t.id = Top.order.id
    BY <1>1, TriggeredTyped
  <1>4. event.kind # "Deleted" /\ event.order = t
    BY DEF Updated
  <1> HIDE DEF event, others, t
  <1>5. heard' = Hear(heard, event)
    BY <1>2, HeardEvents, HearOne
  <1>6. Knows(heard', others \union {t})
    BY <1>1, <1>3, <1>4, <1>5, HearRight
  <1>7. QED
    BY <1>1, <1>2, <1>3, <1>6, ToMatchHeard DEF others

\* A stop order that waits is reported and put into the book.
LEMMA AddPendingStopHeard ==
    ASSUME IndexInv, Apart, HeardInv, Hears, AddPendingStop
    PROVE  HeardInv'
  <1> DEFINE o      == Top.order
             s      == WithStopPrice(o)
             others == InBook(orders) \union Matched(Tail(stack))
             event  == Added(o)
  <1>1. /\ Tail(stack) \in Seq(Frame) /\ o \in Order /\ ~aborted /\ KnowsBut(heard, others, o.id)
        /\ last_traded_price \in U64 /\ o.id \notin DOMAIN orders
    BY CallKnown DEF AddPendingStop
  <1>2. s.id = o.id /\ AsSeen(s) = AsSeen(o)
    BY <1>1, WithStopPriceTyped, StopPriceSeen
  <1>3. Insert(s, <<BeginActivation>>, <<event>>)
    BY DEF AddPendingStop
  <1> HIDE DEF s, event, others
  <1>4. /\ stack' = <<BeginActivation>> \o Tail(stack) /\ emitted' = <<event>> /\ ~aborted'
        /\ orders' = Put(orders, s.id, [order |-> s, level_it |-> KeyOf(s)])
    BY <1>1, <1>2, <1>3 DEF Insert, Proceed
  <1>5. event.kind # "Deleted" /\ event.order = o
    BY DEF Added, event
  <1>6. heard' = Hear(heard, event)
    BY <1>4, HeardEvents, HearOne
  <1>7. Knows(Hear(heard, event), others \union {o})
    BY <1>1, <1>5, HearRight
  <1>8. Knows(Hear(heard, event), others \union {s})
    BY <1>2, <1>7, KnowsSame
  <1>9. InBook(orders') = InBook(orders) \union {s}
    BY <1>1, <1>2, <1>4, BookWith, NothingToDrop
  <1>10. Matched(stack') = Matched(Tail(stack))
    BY <1>1, <1>4, FramesMatch, MatchedPush
  <1>11. InBook(orders') \union Matched(stack') = others \union {s}
    BY <1>9, <1>10 DEF others
  <1>12. QED
    BY <1>6, <1>8, <1>11, NextHeard

\* canMatchOrder changes what it has found, not the order.
LEMMA CheckLiquidityHeard ==
    ASSUME IndexInv, Apart, HeardInv, Hears, CheckLiquidity
    PROVE  HeardInv'
  <1>1. /\ Tail(stack) \in Seq(Frame) /\ Top \in OrderFrame
        /\ InBook(orders) \union Matched(stack)
             = (InBook(orders) \union Matched(Tail(stack))) \union {Top.order}
    BY CallKnown DEF CheckLiquidity
  <1>2. PICK available :
          stack' = <<[Top EXCEPT !.available = available,
                                 !.pc = IF available >= Top.order.open THEN "match" ELSE "check"]>>
                     \o Tail(stack)
    BY Zenon DEF CheckLiquidity, Becomes, Proceed
  <1> DEFINE pc    == IF available >= Top.order.open THEN "match" ELSE "check"
             frame == [Top EXCEPT !.available = available, !.pc = pc]
  <1>3. frame.order = Top.order /\ frame.pc \in {"check", "match"}
    BY <1>1 DEF OrderFrame
  <1>4. orders' = orders /\ emitted' = <<>>
    BY DEF CheckLiquidity, book
  <1>5. frame \in Frame
    <2>1. IndexInv'
      BY StepKeepsIndex DEF Step
    <2>2. stack' \in Seq(Frame)
      BY <2>1, PartsPrime DEF GoodStack
    <2>3. frame = stack'[1] /\ 1 \in DOMAIN stack'
      BY <1>1, <1>2, <2>2
    <2>4. QED
      BY <2>2, <2>3
  <1> HIDE DEF frame
  <1>6. Matched(stack') = Matched(Tail(stack)) \union {Top.order}
    <2>1. stack' = <<frame>> \o Tail(stack) /\ Matching(frame)
      BY <1>2, <1>3 DEF frame, Matching
    <2>2. QED
      BY <1>1, <1>3, <1>5, <2>1, MatchedPush, ZenonT(30)
  <1>7. QED
    BY <1>1, <1>4, <1>6, NothingHeard

\* What match has left of an order rests, or is reported deleted.
LEMMA CompleteHeard ==
    ASSUME IndexInv, Apart, HeardInv, Hears, KillOrder \/ EndMatch
    PROVE  HeardInv'
  <1> DEFINE o      == Top.order
             others == InBook(orders) \union Matched(Tail(stack))
             event  == Deleted(o)
  <1>1. PICK pc \in {"check", "match"} : At(pc)
    BY DEF KillOrder, EndMatch
  <1>2. /\ Tail(stack) \in Seq(Frame) /\ o \in Order /\ ~aborted /\ KnowsBut(heard, others, o.id)
        /\ o.id \notin DOMAIN orders /\ InBook(orders) \union Matched(stack) = others \union {o}
    BY <1>1, CallKnown
  <1>3. <<>> \o Tail(stack) = Tail(stack)
    BY <1>2
  <1>4. \/ Insert(o, <<>>, <<>>)
        \/ /\ stack' = <<>> \o Tail(stack) /\ orders' = orders /\ emitted' = <<event>>
           /\ aborted' = aborted
    BY DEF KillOrder, EndMatch, Complete, Proceed, book
  <1>5. CASE Insert(o, <<>>, <<>>)
    <2>1. /\ stack' = Tail(stack) /\ emitted' = <<>>
          /\ orders' = Put(orders, o.id, [order |-> o, level_it |-> KeyOf(o)])
      BY <1>2, <1>3, <1>5 DEF Insert, Proceed
    <2>2. InBook(orders') = InBook(orders) \union {o}
      BY <1>2, <2>1, BookWith, NothingToDrop
    <2>3. InBook(orders') \union Matched(stack') = InBook(orders) \union Matched(stack)
      BY <1>2, <2>1, <2>2
    <2>4. QED
      BY <2>1, <2>3, NothingHeard
  <1>6. CASE /\ stack' = <<>> \o Tail(stack) /\ orders' = orders /\ emitted' = <<event>>
             /\ aborted' = aborted
    <2>1. event.kind = "Deleted" /\ event.order = o
      BY DEF Deleted
    <2>2. stack' = Tail(stack) /\ ~aborted'
      BY <1>2, <1>3, <1>6
    <2>3. InBook(orders') \union Matched(stack') = others
      BY <1>6, <2>2
    <2> HIDE DEF event, others
    <2>4. heard' = Hear(heard, event)
      BY <1>6, <2>2, HeardEvents, HearOne
    <2>5. Knows(Hear(heard, event), others)
      BY <1>2, <2>1, HearRight
    <2>6. QED
      BY <2>3, <2>4, <2>5, NextHeard
  <1>7. QED
    BY <1>4, <1>5, <1>6

-----------------------------------------------------------------------------
(* Trades                                                                  *)

\* Both orders of a trade are reported, one after the other.
LEMMA HearBoth ==
    ASSUME NEW h, NEW cs, NEW c, NEW d, NEW x, NEW y, x.id = c.id, y.id = d.id,
           Fresh(c.id, cs \union {d}), Fresh(d.id, cs \union {c}), Knows(h, (cs \union {d}) \union {c}),
           NEW a, NEW b, a.kind # "Deleted", a.order = x, b.kind # "Deleted", b.order = y
    PROVE  /\ KnowsBut(Hear(Hear(h, a), b), cs \union {x}, y.id)
           /\ KnowsBut(Hear(Hear(h, a), b), cs \union {y}, x.id)
           /\ Knows(Hear(Hear(h, a), b), (cs \union {x}) \union {y})
  <1> DEFINE h1 == Hear(h, a)
             h2 == Hear(h1, b)
  <1>1. KnowsBut(h, cs \union {d}, x.id)
    BY KnowsMore
  <1>2. Knows(h1, (cs \union {d}) \union {x})
    BY <1>1, HearRight
  <1>3. (cs \union {d}) \union {x} = (cs \union {x}) \union {d}
    OBVIOUS
  <1>4. Fresh(d.id, cs \union {x}) /\ Fresh(x.id, cs \union {y})
    BY DEF Fresh
  <1> HIDE DEF h1
  <1>5. KnowsBut(h1, cs \union {x}, d.id)
    BY <1>2, <1>3, <1>4, KnowsMore
  <1>6. /\ KnowsBut(h2, cs \union {x}, y.id)
        /\ Knows(h2, (cs \union {x}) \union {y})
    BY <1>5, HearRight
  <1>7. (cs \union {x}) \union {y} = (cs \union {y}) \union {x}
    OBVIOUS
  <1> HIDE DEF h2
  <1>8. KnowsBut(h2, cs \union {y}, x.id)
    BY <1>4, <1>6, <1>7, KnowsMore
  <1>9. QED
    BY <1>6, <1>8 DEF h1, h2

\* A trade reports both executions, and the deletion of what was filled.
LEMMA MatchHeard ==
    ASSUME IndexInv, Apart, HeardInv, Hears, Match
    PROVE  HeardInv'
  <1> DEFINE c == Top.order
             m == Contra(c)
  <1>1. /\ stack \in Seq(Frame) /\ stack # <<>> /\ Tail(stack) \in Seq(Frame)
        /\ Top \in OrderFrame /\ c \in Order /\ Top.pc = "match" /\ ~aborted
        /\ KnowsBut(heard, InBook(orders) \union Matched(Tail(stack)), c.id)
        /\ Knows(heard, (InBook(orders) \union Matched(Tail(stack))) \union {c})
        /\ InBook(orders) \union Matched(stack)
             = (InBook(orders) \union Matched(Tail(stack))) \union {c}
    BY CallKnown DEF Match
  <1>2. PICK p \in DOMAIN levels[m] : Trade(p)
    BY DEF Match
  <1> DEFINE id       == Head(levels[m][p].orders)
             d        == orders[id].order
             quantity == Lesser(c.open, d.open)
             x        == Execute(c, d.price, quantity)
             y        == Execute(d, d.price, quantity)
             frame    == [Top EXCEPT !.order = x]
             frames   == <<frame>> \o Tail(stack)
             cs       == InBook(Drop(orders, id)) \union Matched(Tail(stack))
             first    == Executed(x)
             second   == Executed(y)
             gone     == Deleted(y)
             events   == IF c.side = "BUY" THEN <<first, second>> ELSE <<second, first>>
  <1>3. id \in DOMAIN orders /\ d \in Order /\ d.id = id
    <2>1. Still /\ m \in LevelMap
      BY <1>1, CallFindsIndex DEF Match, Contra, Opposite, LevelMap, Side
    <2>2. QED
      BY <1>2, <2>1, FrontToEntry
  <1>4. x \in Order /\ x.id = c.id /\ y.id = d.id
    <2>1. c.open \in U64 /\ d.open \in U64 /\ d.price \in U64 /\ quantity \in U64
      BY <1>1, <1>3, LesserIs DEF Order
    <2> HIDE DEF id, d, quantity
    <2>2. QED
      BY <1>1, <1>3, <2>1, ExecuteTyped, ExecuteId, WidthAssumption
  <1>5. \/ Abort
        \/ Settle(y, p, quantity, events, frames) /\ aborted' = aborted
    BY <1>2, Zenon DEF Trade
  <1>6. frame \in Frame /\ Matching(frame) /\ frame.order = x
    <2> HIDE DEF x
    <2>1. QED
      BY <1>1, <1>4, Zenon DEF OrderFrame, Frame, Matching
  <1>7. frames \in Seq(Frame) /\ Matched(frames) = Matched(Tail(stack)) \union {x}
    <2> HIDE DEF frame, x
    <2>1. Matched(<<frame>> \o Tail(stack)) = Matched(Tail(stack)) \union {x}
      BY <1>1, <1>6, MatchedPush
    <2>2. <<frame>> \o Tail(stack) \in Seq(Frame)
      BY <1>1, <1>6
    <2>3. QED
      BY <2>1, <2>2
  <1>8. InBook(orders) \union Matched(Tail(stack)) = cs \union {d}
    BY <1>3, BookWithout
  <1>9. Fresh(c.id, cs \union {d}) /\ Fresh(d.id, cs \union {c})
    <2>1. KnowsBut(heard, InBook(Drop(orders, id)) \union Matched(stack), id)
      BY <1>3, EntryKnown
    <2>2. Matched(stack) = Matched(Tail(stack)) \union {c}
      BY <1>1, MatchedPop DEF Matching, Top
    <2>3. QED
      BY <1>1, <1>3, <1>8, <2>1, <2>2, Zenon DEF KnowsBut
  <1>10. Knows(heard, (cs \union {d}) \union {c}) /\ Knows(heard, (cs \union {c}) \union {d})
    <2>1. (cs \union {d}) \union {c} = (cs \union {c}) \union {d}
      OBVIOUS
    <2>2. QED
      BY <1>1, <1>8, <2>1, Zenon
  <1>11. /\ first.kind # "Deleted" /\ first.order = x
         /\ second.kind # "Deleted" /\ second.order = y
    BY DEF Executed
  <1>12. InBook(Drop(orders, y.id)) \union Matched(frames) = cs \union {x}
    BY <1>3, <1>4, <1>7, Zenon
  <1>13. y.id \in DOMAIN orders
    BY <1>3, <1>4
  <1> HIDE DEF id, d, quantity, x, y, frames, cs, first, second, gone, events
  <1> DEFINE h == IF c.side = "BUY" THEN Hear(Hear(heard, first), second)
                                    ELSE Hear(Hear(heard, second), first)
  <1>14. Knows(h, (cs \union {x}) \union {y}) /\ KnowsBut(h, cs \union {x}, y.id)
    <2>1. CASE c.side = "BUY"
      BY <1>4, <1>9, <1>10, <1>11, <2>1, HearBoth
    <2>2. CASE c.side # "BUY"
      <3>1. /\ Knows(h, (cs \union {y}) \union {x}) /\ KnowsBut(h, cs \union {x}, y.id)
        BY <1>4, <1>9, <1>10, <1>11, <2>2, HearBoth
      <3>2. (cs \union {x}) \union {y} = (cs \union {y}) \union {x}
        OBVIOUS
      <3>3. QED
        BY <3>1, <3>2
    <2>3. QED
      BY <2>1, <2>2
  <1>15. CASE Settle(y, p, quantity, events, frames) /\ aborted' = aborted
    <2>1. /\ y.open = 0 => /\ InBook(orders') = InBook(Drop(orders, y.id))
                           /\ emitted' = Append(events, gone)
          /\ y.open # 0 => /\ InBook(orders') = InBook(Drop(orders, y.id)) \union {y}
                           /\ emitted' = events
          /\ Matched(stack') = Matched(frames)
      BY <1>7, <1>13, <1>15, SettleBook DEF gone
    <2>2. ~aborted'
      BY <1>1, <1>15
    <2>3. y.open = 0 => heard' = Hear(h, gone)
      <3>1. CASE c.side = "BUY"
        BY <2>1, <2>2, <3>1, AppendThree, HeardEvents, HearThree DEF events
      <3>2. CASE c.side # "BUY"
        BY <2>1, <2>2, <3>2, AppendThree, HeardEvents, HearThree DEF events
      <3>3. QED
        BY <3>1, <3>2
    <2>4. y.open # 0 => heard' = h
      BY <2>1, <2>2, HeardEvents, HearTwo DEF events
    <2> HIDE DEF h
    <2>5. QED
      BY <1>12, <1>14, <2>1, <2>3, <2>4, SettledHeard DEF gone
  <1>16. QED
    BY <1>5, <1>15, AbortHeard

-----------------------------------------------------------------------------
(* The steps of activateStopOrders                                         *)

\* Scans carry nothing and move nothing.
LEMMA ScanHeard ==
    ASSUME IndexInv, HeardInv, Hears,
           StartActivation \/ EndScan \/ SwapTrailingLevels \/ KeepTrailingLevels
    PROVE  HeardInv'
  <1>1. /\ stack \in Seq(Frame) /\ stack # <<>> /\ Tail(stack) \in Seq(Frame)
        /\ ~Matching(Head(stack))
    <2>1. /\ stack \in Seq(Frame) /\ stack # <<>>
          /\ Head(stack).pc \in {"begin", "scan", "update"}
      BY Parts DEF GoodStack, StartActivation, EndScan, SwapTrailingLevels, KeepTrailingLevels, At, Top
    <2>2. QED
      BY <2>1 DEF Matching
  <1>2. orders' = orders /\ emitted' = <<>>
    BY DEF StartActivation, EndScan, SwapTrailingLevels, KeepTrailingLevels, book
  <1>3. Matched(stack) = Matched(Tail(stack))
    BY <1>1, MatchedPop
  <1>4. \/ stack' = <<>> \o Tail(stack)
        \/ \E f : stack' = <<f>> \o Tail(stack) /\ ~Matching(f)
    <2>1. /\ ~Matching(BeginActivation)
          /\ \A kind, side, activated :
               ~Matching(Scan(kind, side, activated)) /\ ~Matching(Update(side, activated))
      BY DEF BeginActivation, Scan, Update, Matching
    <2>2. CASE StartActivation
      BY <2>1, <2>2 DEF StartActivation, Becomes, Proceed
    <2>3. CASE EndScan
      BY <2>1, <2>3 DEF EndScan, Becomes, Proceed
    <2>4. CASE SwapTrailingLevels \/ KeepTrailingLevels
      <3>1. stack' = AfterUpdate(Top) \o Tail(stack)
        BY <2>4 DEF SwapTrailingLevels, KeepTrailingLevels, Proceed
      <3>2. \/ AfterUpdate(Top) = <<Scan("stop", "SELL", FALSE)>>
            \/ AfterUpdate(Top) = <<BeginActivation>>
            \/ AfterUpdate(Top) = <<>>
        BY DEF AfterUpdate
      <3>3. QED
        BY <2>1, <3>1, <3>2
    <2>5. QED
      BY <2>2, <2>3, <2>4
  <1>5. Matched(stack') = Matched(Tail(stack))
    <2>1. CASE stack' = <<>> \o Tail(stack)
      <3>1. stack' = Tail(stack)
        BY <1>1, <2>1
      <3>2. QED
        BY <3>1
    <2>2. ASSUME NEW f, stack' = <<f>> \o Tail(stack), ~Matching(f)
          PROVE  Matched(stack') = Matched(Tail(stack))
      <3>1. stack' \in Seq(Frame)
        BY StepKeepsIndex, PartsPrime DEF Step, GoodStack
      <3>2. f = stack'[1] /\ 1 \in DOMAIN stack'
        BY <1>1, <2>2, <3>1
      <3>3. f \in Frame
        BY <3>1, <3>2
      <3>4. QED
        BY <1>1, <2>2, <3>3, MatchedPush
    <2>3. QED
      BY <1>4, <2>1, <2>2
  <1>6. InBook(orders') \union Matched(stack') = InBook(orders) \union Matched(stack)
    BY <1>2, <1>3, <1>5
  <1>7. QED
    BY <1>2, <1>6, NothingHeard

\* A trailing stop order is reported with its new stop price.
LEMMA MoveTrailingStopHeard ==
    ASSUME IndexInv, Apart, HeardInv, Hears, MoveTrailingStop
    PROVE  HeardInv'
  <1> DEFINE m == <<"trailing", Top.side>>
  <1>1. /\ BookTyped /\ ControlTyped /\ stack # <<>> /\ Top.pc = "update" /\ Top.side \in Side
    BY UpdateFindsCall, Zenon DEF MoveTrailingStop
  <1>2. Underway /\ last_traded_price \in U64 /\ m \in LevelMap
    BY <1>1, StillUnderway, Zenon DEF IndexInv, MoveTrailingStop, ControlTyped, LevelMap
  <1>3. PICK p \in DOMAIN levels[m] :
          /\ levels[m][p].orders # <<>>
          /\ LET o == orders[Head(levels[m][p].orders)].order
                 s == CalculateStopPrice(o)
             IN  /\ orders' = [orders EXCEPT ![o.id] = [order |-> s, level_it |-> s.stop]]
                 /\ emitted' = <<Updated(s)>>
    BY Zenon DEF MoveTrailingStop
  <1> DEFINE id    == Head(levels[m][p].orders)
             o     == orders[id].order
             s     == CalculateStopPrice(o)
             event == Updated(s)
             cs    == InBook(Drop(orders, id)) \union Matched(stack)
  <1>4. id \in DOMAIN orders
    <2>1. id \in Range(levels[m][p].orders)
      BY <1>1, <1>2, <1>3, LevelTyped, TailQueue, Zenon DEF Underway, QueuesOK
    <2>2. QED
      BY <1>2, <2>1 DEF Underway, QueuesOK
  <1>5. o \in Order /\ o.id = id /\ KnowsBut(heard, cs, id)
    BY <1>4, EntryKnown
  <1>6. s.id = id
    BY <1>2, <1>5, CalculateStopPriceTyped
  <1>7. /\ DOMAIN orders' = DOMAIN orders /\ orders'[id].order = s
        /\ \A i \in DOMAIN orders : i # id => orders'[i] = orders[i]
    BY <1>3, <1>4, <1>5, Zenon
  <1>8. stack' = stack /\ emitted' = <<event>> /\ ~aborted'
    BY <1>3, Zenon DEF MoveTrailingStop, At
  <1>9. event.kind # "Deleted" /\ event.order = s
    BY DEF Updated
  <1> HIDE DEF event, s, o, id, cs
  <1>10. InBook(orders') = InBook(Drop(orders, id)) \union {s}
    BY <1>4, <1>7, BookChanged
  <1>11. InBook(orders') \union Matched(stack') = cs \union {s}
    BY <1>8, <1>10 DEF cs
  <1>12. heard' = Hear(heard, event)
    BY <1>8, HeardEvents, HearOne
  <1>13. Knows(Hear(heard, event), cs \union {s})
    BY <1>5, <1>6, <1>9, HearRight
  <1>14. QED
    BY <1>11, <1>12, <1>13, NextHeard

\* A stop order that is activated is reported deleted.
LEMMA ActivateStopOrderHeard ==
    ASSUME IndexInv, Apart, HeardInv, Hears, ActivateStopOrder
    PROVE  HeardInv'
  <1> DEFINE m == <<Top.kind, Top.side>>
  <1>1. /\ Still /\ Top \in ScanFrame /\ stack \in Seq(Frame) /\ stack # <<>> /\ Top.pc = "scan"
        /\ Top = Head(stack) /\ ~aborted
    BY CallFindsIndex, Parts, Zenon DEF ActivateStopOrder, GoodStack, Top, At
  <1>2. m \in LevelMap
    BY <1>1 DEF ScanFrame, LevelMap
  <1>3. PICK p \in DOMAIN levels[m] :
          LET id == Head(levels[m][p].orders) IN
          Delete(id, << [pc |-> "reissue", order |-> orders[id].order, available |-> 0],
                        [Top EXCEPT !.activated = TRUE] >> \o Tail(stack))
    BY Zenon DEF ActivateStopOrder
  <1> DEFINE id     == Head(levels[m][p].orders)
             d      == orders[id].order
             again  == [pc |-> "reissue", order |-> d, available |-> 0]
             scan   == [Top EXCEPT !.activated = TRUE]
             frames == <<again, scan>> \o Tail(stack)
  <1>4. id \in DOMAIN orders /\ d \in Order
    <2> HIDE DEF m
    <2>1. QED
      BY <1>1, <1>2, FrontToEntry
  <1>5. again \in Frame /\ ~Matching(again)
    BY <1>4, FramesMatch
  <1>6. scan \in Frame /\ ~Matching(scan)
    BY <1>1 DEF ScanFrame, Frame, Matching
  <1>7. Tail(stack) \in Seq(Frame) /\ Matched(stack) = Matched(Tail(stack))
    <2>1. ~Matching(Head(stack)) /\ Tail(stack) \in Seq(Frame)
      BY <1>1 DEF Matching
    <2>2. QED
      BY <1>1, <2>1, MatchedPop
  <1>8. Delete(id, frames)
    BY <1>3
  <1>9. frames \in Seq(Frame) /\ Matched(frames) = Matched(stack)
    <2> HIDE DEF again, scan
    <2>1. QED
      BY <1>5, <1>6, <1>7, MatchedTwo, ZenonT(30)
  <1> HIDE DEF id, frames
  <1>10. QED
    BY <1>1, <1>4, <1>8, <1>9, DeleteHeard

\* Every step of a call leaves a listener with what it should know.
LEMMA StepHeard ==
    ASSUME IndexInv, Apart, HeardInv, Hears, Step
    PROVE  HeardInv'
    BY AddToMarketHeard, AddReachedStopHeard, AddPendingStopHeard, CheckLiquidityHeard,
       CompleteHeard, MatchHeard, ScanHeard, MoveTrailingStopHeard, ActivateStopOrderHeard,
       ReissueOrderHeard DEF Step

-----------------------------------------------------------------------------
\* At the start there is nothing to know.
LEMMA InitHeard ==
    ASSUME ListenerInit
    PROVE  HeardInv
  <1>1. InBook(orders) \union Matched(stack) = {}
    BY EmptyMapIsMap, MatchedNone DEF ListenerInit, Init, InBook
  <1>2. DOMAIN heard = {}
    BY EmptyMapIsMap DEF ListenerInit
  <1>3. QED
    BY <1>1, <1>2 DEF HeardInv, Knows

\* Between requests what a listener should know is the book.
LEMMA IdleHeard ==
    ASSUME IndexInv, HeardInv
    PROVE  CopyIsTheBook
  <1>1. SUFFICES ASSUME Idle
                 PROVE  /\ DOMAIN heard = DOMAIN orders
                        /\ \A id \in DOMAIN orders : AsSeen(heard[id]) = AsSeen(orders[id].order)
    BY DEF CopyIsTheBook
  <1>2. Knows(heard, InBook(orders))
    <2>1. InBook(orders) \union Matched(stack) = InBook(orders)
      BY <1>1, IdleKnown
    <2>2. QED
      BY <2>1 DEF HeardInv
  <1>3. \A id \in DOMAIN orders : orders[id].order.id = id
    BY EntriesRight DEF IdsRight
  <1>4. DOMAIN heard = {c.id : c \in InBook(orders)}
        /\ \A c \in InBook(orders) : AsSeen(heard[c.id]) = AsSeen(c)
    BY <1>2 DEF Knows
  <1>5. \A id \in DOMAIN orders : orders[id].order \in InBook(orders)
    BY DEF InBook
  <1>6. \A c \in InBook(orders) : c.id \in DOMAIN orders
    BY <1>3 DEF InBook
  <1>7. DOMAIN heard = DOMAIN orders
    <2>1. \A id \in DOMAIN heard : id \in DOMAIN orders
      BY <1>4, <1>6
    <2>2. \A id \in DOMAIN orders : id \in DOMAIN heard
      BY <1>3, <1>4, <1>5
    <2>3. QED
      BY <2>1, <2>2
  <1>8. ASSUME NEW id \in DOMAIN orders
        PROVE  AsSeen(heard[id]) = AsSeen(orders[id].order)
    <2> DEFINE c == orders[id].order
    <2>1. c \in InBook(orders) /\ c.id = id
      BY <1>3, <1>5
    <2> HIDE DEF c
    <2>2. AsSeen(heard[c.id]) = AsSeen(c)
      BY <1>4, <2>1
    <2>3. QED
      BY <2>1, <2>2 DEF c
  <1>9. QED
    BY <1>7, <1>8

\* As long as callers keep live ids distinct, a listener that keeps a copy of the book by
\* nothing but the events has the book between any two requests: no event is missing,
\* repeated or out of order, however deep activateStopOrders re-entered match.
THEOREM ListenerHasTheBook ==
    ASSUME CallerContract
    PROVE  ListenerSpec => []CopyIsTheBook
  <1>1. ListenerInit => Init /\ HeardInv
    BY InitHeard DEF ListenerInit
  <1>2. [ListenerNext]_<<vars, heard>> => [Next]_vars
    BY DEF ListenerNext
  <1>3. IndexInv /\ Apart /\ HeardInv /\ [ListenerNext]_<<vars, heard>> => HeardInv'
    <2> SUFFICES ASSUME IndexInv, Apart, HeardInv, [ListenerNext]_<<vars, heard>>
                 PROVE  HeardInv'
      OBVIOUS
    <2>1. CASE ListenerNext
      BY <2>1, RequestHeard, StepHeard DEF ListenerNext, Hears, Next
    <2>2. CASE UNCHANGED <<vars, heard>>
      BY <2>2, NextHeard DEF vars, HeardInv
    <2>3. QED
      BY <2>1, <2>2
  <1>4. IndexInv /\ Apart /\ [Next]_vars => Apart'
    BY NextKeepsCopies
  <1>5. Init => Apart
    BY InitCopies
  <1>6. IndexInv /\ HeardInv => CopyIsTheBook
    BY IdleHeard
  <1>7. QED
    BY <1>1, <1>2, <1>3, <1>4, <1>5, <1>6, IndexInvariant, PTL DEF ListenerSpec, Spec
=============================================================================
