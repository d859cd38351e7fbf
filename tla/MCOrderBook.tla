---------------------------- MODULE MCOrderBook ----------------------------
(***************************************************************************)
(* Instances of the order book for TLC.  The ids are interchangeable, so   *)
(* the safety runs use symmetry; each run picks a set of tickets small     *)
(* enough to explore every schedule of requests over them.                 *)
(***************************************************************************)
EXTENDS OrderBookProperties, TLC

CONSTANTS a, b, c, d

TwoIds == {a, b}
ThreeIds == {a, b, c}
FourIds == {a, b, c, d}
Symmetry2 == Permutations(TwoIds)
Symmetry3 == Permutations(ThreeIds)
Symmetry4 == Permutations(FourIds)

None == {}
One == {1}
ZeroOne == {0, 1}
OneTwo == {1, 2}
Two == {2}
Four == {4}
ThreeFour == {3, 4}
OneToFour == 1 .. 4

Limits(prices_, quantities, tifs) ==
    {LimitOrder(id, side, price, quantity, tif) :
        id \in OrderId, side \in Side, price \in prices_, quantity \in quantities, tif \in tifs}

Markets(quantities, tifs) ==
    {MarketOrder(id, side, quantity, tif) :
        id \in OrderId, side \in Side, quantity \in quantities, tif \in tifs}

Stops(stops, quantities) ==
    {StopOrder(id, side, stop, quantity, "GTC") :
        id \in OrderId, side \in Side, stop \in stops, quantity \in quantities}

StopLimits(prices_, stops, tifs) ==
    {StopLimitOrder(id, side, price, stop, 1, tif) :
        id \in OrderId, side \in Side, price \in prices_, stop \in stops, tif \in tifs}

Trailing(trails) ==
    {TrailingStopOrder(id, side, trail, 1, "GTC") :
        id \in OrderId, side \in Side, trail \in trails}

TrailingLimits(prices_, trails) ==
    {TrailingStopLimitOrder(id, side, price, trail, 1, "GTC") :
        id \in OrderId, side \in Side, price \in prices_, trail \in trails}

\* Limit and market orders of every time in force.
LimitTickets ==
    Limits({1, 2}, {1, 2}, {"GTC"}) \union Limits({1}, {2}, {"FOK", "IOC"})
        \union Limits({2}, {2}, {"FOK"}) \union Markets({2}, {"GTC"})

\* Levels deep enough for one order to survive trades with both stop orders, which
\* wait between the price and the level.
LadderTickets == Limits({1, 4}, {4}, {"GTC"}) \union Stops({2, 3}, {1})

\* Every kind of order, and quantities that add up to more than MaxU64.
MisuseTickets ==
    Limits({1, 2}, {1, 3}, {"GTC"}) \union Limits({1}, {2}, {"FOK"})
        \union Stops({2}, {1}) \union Trailing({1})

\* Stop orders of every kind, set off by trades between limit orders.
StopTickets ==
    Limits({2, 4}, {1, 2}, {"GTC"}) \union Stops({2, 3}, {1})
        \union StopLimits({3}, {3}, {"GTC"}) \union Trailing({1})

\* Fill-or-kill orders, and stop orders that set off one another by trades with a
\* limit order that is large enough to survive them, so that no deletion of it
\* activates the next.
CompletionTickets ==
    Limits({1}, {3}, {"GTC"}) \union Limits({2}, {2}, {"FOK"})
        \union Stops({2}, {1}) \union StopLimits({1}, {3}, {"FOK"}) \union Trailing({1})

TrailingTickets ==
    Limits({2, 3, 4}, {1}, {"GTC"}) \union Trailing({1, 2}) \union TrailingLimits({3}, {1})
============================================================================
