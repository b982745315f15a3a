--------------------------- MODULE PriceTimeBook ---------------------------
(***************************************************************************)
(* What a limit order book promises, with no levels, queues or index: the  *)
(* live orders are a set.  While some live buy order and some live sell    *)
(* order overlap in price, the best of each side trade: best price first,  *)
(* then earliest arrival, the smaller quantity, at the price of the one    *)
(* that was there first.  A canceled order is gone at once.                *)
(***************************************************************************)
EXTENDS Integers, Sequences

CONSTANTS Ids, Prices, Quantities, MaxOrders

VARIABLES
    live,    \* the live orders
    taken,   \* the ids that a new order may not have
    clock,   \* the arrivals so far
    trades   \* the trades since the latest order was offered

vars == <<live, taken, clock, trades>>

Init == live = {} /\ taken = {} /\ clock = 0 /\ trades = <<>>

Buys  == {o \in live : o.isBuy}
Sells == live \ Buys

\* a is served before b, both on one side.
Before(a, b) ==
    \/ a.level # b.level /\ (a.isBuy <=> a.level > b.level)
    \/ a.level = b.level /\ a.arrival < b.arrival

Best(side) == {a \in side : \A b \in side : a = b \/ Before(a, b)}

Overlap == \E buy \in Buys, sell \in Sells : buy.level >= sell.level

Add(order) ==
    /\ ~Overlap /\ order.id \notin taken /\ clock < MaxOrders
    /\ order.arrival = clock
    /\ live' = live \cup {order}
    /\ taken' = taken \cup {order.id}
    /\ clock' = clock + 1
    /\ trades' = <<>>

Reject ==
    /\ taken # {}
    /\ trades' = <<>>
    /\ UNCHANGED <<live, taken, clock>>

\* The id of a canceled order stays taken.
Cancel(order) ==
    /\ ~Overlap
    /\ live' = live \ {order}
    /\ UNCHANGED <<taken, clock, trades>>

\* What is left of an order, if anything is.
Rest(order, size) ==
    IF order.quantity = size THEN {} ELSE {[order EXCEPT !.quantity = @ - size]}

TradeOf(buy, sell) ==
    LET size     == IF buy.quantity < sell.quantity THEN buy.quantity ELSE sell.quantity
        existing == IF buy.arrival < sell.arrival THEN buy ELSE sell
        newest   == IF buy.arrival < sell.arrival THEN sell ELSE buy
    IN /\ live' = (live \ {buy, sell}) \cup Rest(buy, size) \cup Rest(sell, size)
       /\ taken' = taken \ {o.id : o \in {x \in {buy, sell} : x.quantity = size}}
       /\ trades' = Append(trades,
            [existing |-> existing.id, aggressor |-> newest.id,
             aggressorIsBuy |-> newest.isBuy, level |-> existing.level, size |-> size])
       /\ UNCHANGED clock

Trade == \E buy \in Best(Buys), sell \in Best(Sells) :
    buy.level >= sell.level /\ TradeOf(buy, sell)

Next ==
    \/ \E id \in Ids, isBuy \in BOOLEAN, level \in Prices, quantity \in Quantities :
         Add([id |-> id, isBuy |-> isBuy, level |-> level,
              quantity |-> quantity, arrival |-> clock])
    \/ Reject
    \/ \E order \in live : Cancel(order)
    \/ Trade

Spec     == Init /\ [][Next]_vars
FairSpec == Spec /\ WF_vars(Trade)
=============================================================================
