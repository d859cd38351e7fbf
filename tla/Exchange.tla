------------------------------ MODULE Exchange ------------------------------
(***************************************************************************)
(* What a client may expect of the book of one symbol, whatever data       *)
(* structures it uses and however it recurses.                             *)
(*                                                                         *)
(* Orders are alive from the request that adds them until nothing of them  *)
(* is open, or the client takes them back, or, for an order that may not   *)
(* rest, until the book gives up on it.  While the book works on a request *)
(* two orders may trade, a stop order may go to the market, and nothing    *)
(* else happens: in particular no other order disappears.                  *)
(***************************************************************************)
EXTENDS Integers

VARIABLES
    alive,      \* id -> the order, for every order of which something is open
    market,     \* the price of the last trade
    working     \* is a request in progress?

vars == <<alive, market, working>>

\* side; stop: waits for its stop price; limit: the worst price it accepts; rests:
\* may wait in the book; open, executed: how much of it is left, and traded.
AnOrder(o) ==
    /\ DOMAIN o = {"side", "stop", "limit", "rests", "open", "executed"}
    /\ o.open > 0 /\ o.executed >= 0

Open(orders) == [id \in {i \in DOMAIN orders : orders[i].open # 0} |-> orders[id]]

Without(id) == [i \in DOMAIN alive \ {id} |-> alive[i]]

\* The order id is the only one that may differ.
Only(id) == \A i \in (DOMAIN alive \union DOMAIN alive') \ {id} :
    i \in DOMAIN alive /\ i \in DOMAIN alive' /\ alive'[i] = alive[i]

Filled(o, quantity) == [o EXCEPT !.open = @ - quantity, !.executed = @ + quantity]

-----------------------------------------------------------------------------
(* Requests.                                                               *)

Request == ~working /\ working'

Add ==
    /\ Request
    /\ \E id \in DOMAIN alive' \ DOMAIN alive :
         /\ Only(id)
         /\ AnOrder(alive'[id]) /\ alive'[id].executed = 0
    /\ market' = market

TakeBack(id) ==
    /\ Request
    /\ alive' = Without(id)
    /\ market' = market

\* Another id and another price; what was traded stays traded.
Replace(id) ==
    /\ Request
    /\ \E new \in DOMAIN alive' :
         /\ new \notin DOMAIN alive \ {id}
         /\ alive' = [i \in (DOMAIN alive \ {id}) \union {new} |->
                         IF i = new THEN [alive[id] EXCEPT !.limit = alive'[new].limit] ELSE alive[i]]
    /\ market' = market

Reduce(id) ==
    /\ Request
    /\ \E quantity \in 0 .. alive[id].open : alive' = Open([alive EXCEPT ![id].open = quantity])
    /\ market' = market

\* A request about an order of which nothing is open.
Ignore == Request /\ alive' = alive

\* The client reports a trade made elsewhere, at any price.
ExecuteElsewhere(id) ==
    /\ Request
    /\ \E quantity \in 0 .. alive[id].open :
         alive' = Open([alive EXCEPT ![id] = Filled(@, quantity)])

-----------------------------------------------------------------------------
(* What the book does of its own.                                          *)

\* A buyer and a seller trade what the smaller of them has open, at the limit of one
\* of them and at no worse price for the other.
Trade(buy, sell) ==
    /\ working /\ working'
    /\ alive[buy].side = "BUY" /\ alive[sell].side = "SELL"
    /\ ~alive[buy].stop /\ ~alive[sell].stop
    /\ market' \in {alive[buy].limit, alive[sell].limit}
    /\ alive[sell].limit <= market' /\ market' <= alive[buy].limit
    /\ \E quantity \in {alive[buy].open, alive[sell].open} :
         /\ quantity <= alive[buy].open /\ quantity <= alive[sell].open
         /\ alive' = Open([alive EXCEPT ![buy] = Filled(@, quantity), ![sell] = Filled(@, quantity)])

\* A stop order goes to the market.
Trigger(id) ==
    /\ working /\ working'
    /\ alive[id].stop
    /\ alive' = [alive EXCEPT ![id].stop = FALSE]
    /\ market' = market

\* The rest of an order that may not wait.
GiveUp(id) ==
    /\ working /\ working'
    /\ ~alive[id].stop /\ ~alive[id].rests
    /\ alive' = Without(id)
    /\ market' = market

Finish == working /\ ~working' /\ UNCHANGED <<alive, market>>

-----------------------------------------------------------------------------
Init == alive = [id \in {} |-> id] /\ market = 0 /\ working = FALSE

Next ==
    \/ Add \/ Ignore \/ Finish
    \/ \E id \in DOMAIN alive :
         \/ TakeBack(id) \/ Replace(id) \/ Reduce(id) \/ ExecuteElsewhere(id)
         \/ Trigger(id) \/ GiveUp(id)
         \/ \E other \in DOMAIN alive : Trade(id, other)

Spec == Init /\ [][Next]_vars
=============================================================================
