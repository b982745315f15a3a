----------------------------- MODULE Orderbook -----------------------------
(***************************************************************************)
(* The limit order book: two maps from price to a queue of resting orders  *)
(* and an index from order id to metadata.  AddOrder rests the order and   *)
(* then matches the best levels against each other until the book is       *)
(* uncrossed; CancelOrder only marks the order in the index, and matching  *)
(* discards marked orders when they come to the front of a best level.     *)
(*                                                                         *)
(* A call of AddOrder is one Add step and then the steps of match(), one   *)
(* per iteration of its loops.  A resting order keeps its id and quantity; *)
(* its side and its level are where it rests.                              *)
(***************************************************************************)
EXTENDS Integers, Sequences, FiniteSets, Functions

CONSTANTS
    Ids,        \* order ids
    Prices,     \* price levels
    Quantities, \* order quantities
    MaxOrders   \* bound: how many orders are ever accepted

ASSUME OrderAssumption ==
    /\ Prices \subseteq Int
    /\ Quantities \subseteq Nat
    /\ MaxOrders \in Nat

VARIABLES
    bids,      \* price -> queue of resting buy orders
    asks,      \* price -> queue of resting sell orders
    orders,    \* id -> [level, priority, canceled]
    priority,  \* curr_priority_
    matching,  \* inside match()
    trades,    \* the trades of the latest AddOrder, in order
    incoming   \* history: the order of the latest AddOrder, {} if it was refused

book == <<bids, asks>>
vars == <<bids, asks, orders, priority, matching, trades, incoming>>

Order    == [id : Ids, quantity : Nat]
Metadata == [level : Prices, priority : Nat, canceled : BOOLEAN]
Trade    == [existing : Ids, aggressor : Ids, aggressorIsBuy : BOOLEAN,
             level : Prices, size : Nat]
Request  == [id : Ids, level : Prices, isBuy : BOOLEAN, quantity : Nat]

\* f is a map from some of the keys K to values in V.
IsMap(f, K, V) == DOMAIN f \subseteq K /\ f \in [DOMAIN f -> V]

TypeOK ==
    /\ IsMap(bids, Prices, Seq(Order))
    /\ IsMap(asks, Prices, Seq(Order))
    /\ IsMap(orders, Ids, Metadata)
    /\ priority \in Nat
    /\ matching \in BOOLEAN
    /\ trades \in Seq(Trade)
    /\ incoming \in SUBSET Request

Init ==
    /\ bids = <<>>
    /\ asks = <<>>
    /\ orders = <<>>
    /\ priority = 0
    /\ matching = FALSE
    /\ trades = <<>>
    /\ incoming = {}

-----------------------------------------------------------------------------
(* Maps and queues.                                                        *)

Put(map, key, value) ==
    [k \in DOMAIN map \cup {key} |-> IF k = key THEN value ELSE map[k]]
Erase(map, keys) == Restrict(map, DOMAIN map \ keys)

\* Mutant: push_front.
PushFront(levels, level, order) ==
    Put(levels, level,
        IF level \in DOMAIN levels THEN <<order>> \o levels[level] ELSE <<order>>)

\* bids_[level].push_back(order)
PushBack(levels, level, order) ==
    Put(levels, level,
        IF level \in DOMAIN levels THEN Append(levels[level], order) ELSE <<order>>)

PopFront(levels, level) == [levels EXCEPT ![level] = Tail(@)]

\* bids_.begin() and asks_.begin(): the highest bid, the lowest ask.
BestBid == CHOOSE p \in DOMAIN bids : \A q \in DOMAIN bids : p >= q
\* Mutant: both maps are ordered by std::greater.
HighestAsk == CHOOSE p \in DOMAIN asks : \A q \in DOMAIN asks : p >= q

BestAsk == CHOOSE p \in DOMAIN asks : \A q \in DOMAIN asks : p <= q

-----------------------------------------------------------------------------
(* The public operations.                                                  *)

AddOrder(id, level, isBuy, quantity) ==
    /\ ~matching /\ id \notin DOMAIN orders /\ priority < MaxOrders
    /\ LET order == [id |-> id, quantity |-> quantity] IN
         IF isBuy
           THEN bids' = PushBack(bids, level, order) /\ UNCHANGED asks
           ELSE asks' = PushBack(asks, level, order) /\ UNCHANGED bids
    /\ orders' = Put(orders, id, [level |-> level, priority |-> priority, canceled |-> FALSE])
    /\ priority' = priority + 1
    /\ matching' = TRUE
    /\ trades' = <<>>
    /\ incoming' = {[id |-> id, level |-> level, isBuy |-> isBuy, quantity |-> quantity]}

\* AddOrder with an id the index still holds: return {}
AddDuplicate(id) ==
    /\ ~matching /\ id \in DOMAIN orders
    /\ trades' = <<>>
    /\ incoming' = {}
    /\ UNCHANGED <<book, orders, priority, matching>>

CancelOrder(id) ==
    /\ ~matching /\ id \in DOMAIN orders
    /\ orders' = [orders EXCEPT ![id].canceled = TRUE]
    /\ UNCHANGED <<book, priority, matching, trades, incoming>>

-----------------------------------------------------------------------------
(* match().                                                                *)

\* Mutant: equal prices do not trade.
StrictlyCrossed == /\ DOMAIN bids # {} /\ DOMAIN asks # {}
                   /\ BestBid > BestAsk

Crossed == /\ DOMAIN bids # {} /\ DOMAIN asks # {}
           /\ BestBid >= BestAsk

\* The inner loop runs while both best levels hold orders.
BothSides == matching /\ Crossed /\ bids[BestBid] # <<>> /\ asks[BestAsk] # <<>>
Bid == Head(bids[BestBid])
Ask == Head(asks[BestAsk])

DropCanceledBid ==
    /\ BothSides /\ orders[Bid.id].canceled
    /\ bids' = PopFront(bids, BestBid)
    /\ UNCHANGED <<asks, orders, priority, matching, trades, incoming>>

DropCanceledAsk ==
    /\ BothSides /\ ~orders[Bid.id].canceled /\ orders[Ask.id].canceled
    /\ asks' = PopFront(asks, BestAsk)
    /\ UNCHANGED <<bids, orders, priority, matching, trades, incoming>>

\* Mutant: the front order always leaves.
FillAndPop(levels, level, size) == PopFront(levels, level)

\* Order::Fill of the front order of a level, which leaves when nothing of it
\* is left.
FillFront(levels, level, size) ==
    IF Head(levels[level]).quantity = size
      THEN PopFront(levels, level)
      ELSE [levels EXCEPT ![level][1].quantity = @ - size]

\* Mutant: the older order is the aggressor.
BidIsOlder == orders[Bid.id].priority < orders[Ask.id].priority

BidIsAggressor == orders[Bid.id].priority > orders[Ask.id].priority
\* Mutant: std::max.
LargerSize == IF Bid.quantity < Ask.quantity THEN Ask.quantity ELSE Bid.quantity

FillSize == IF Bid.quantity < Ask.quantity THEN Bid.quantity ELSE Ask.quantity

\* The two orders, by priority.
Aggressor == IF BidIsAggressor THEN Bid.id ELSE Ask.id
Existing  == IF orders[Bid.id].priority < orders[Ask.id].priority THEN Bid.id ELSE Ask.id

\* The ids that leave the index.  Mutant: a filled order stays.
NoneGone == {}
Gone     == {o.id : o \in {x \in {Bid, Ask} : x.quantity = FillSize}}

Fill ==
    /\ BothSides /\ ~orders[Bid.id].canceled /\ ~orders[Ask.id].canceled
    /\ bids' = FillFront(bids, BestBid, FillSize)
    /\ asks' = FillFront(asks, BestAsk, FillSize)
    /\ orders' = Erase(orders, Gone)
    /\ trades' = Append(trades,
         [existing |-> Existing, aggressor |-> Aggressor,
          aggressorIsBuy |-> Aggressor = Bid.id,
          level |-> orders[Existing].level, size |-> FillSize])
    /\ UNCHANGED <<priority, matching, incoming>>

\* The end of the outer loop's body: the best levels leave when empty.
EraseLevels ==
    /\ matching /\ Crossed /\ ~BothSides
    /\ bids' = Erase(bids, {p \in {BestBid} : bids[p] = <<>>})
    /\ asks' = Erase(asks, {p \in {BestAsk} : asks[p] = <<>>})
    /\ UNCHANGED <<orders, priority, matching, trades, incoming>>

Return ==
    /\ matching /\ ~Crossed
    /\ matching' = FALSE
    /\ UNCHANGED <<book, orders, priority, trades, incoming>>

Match == DropCanceledBid \/ DropCanceledAsk \/ Fill \/ EraseLevels \/ Return

Next ==
    \/ \E id \in Ids, level \in Prices, isBuy \in BOOLEAN, quantity \in Quantities :
         AddOrder(id, level, isBuy, quantity)
    \/ \E id \in Ids : AddDuplicate(id) \/ CancelOrder(id)
    \/ Match

Spec == Init /\ [][Next]_vars

\* A call of AddOrder runs to its end.
FairSpec == Spec /\ WF_vars(Match)

-----------------------------------------------------------------------------
(* Properties.                                                             *)

\* The orders resting on one side, with their level.
Resting(levels) ==
    UNION {{[level |-> p, id |-> levels[p][i].id, quantity |-> levels[p][i].quantity] :
              i \in DOMAIN levels[p]} : p \in DOMAIN levels}
RestingIds == {o.id : o \in Resting(bids) \cup Resting(asks)}

\* The index and the book agree: every resting order is indexed under its
\* level, so that no lookup of match() creates an entry; an id rests once; and
\* an id that is indexed but rests nowhere is that of a canceled order.
IndexAgrees ==
    /\ \A o \in Resting(bids) \cup Resting(asks) :
         o.id \in DOMAIN orders /\ orders[o.id].level = o.level
    /\ \A o1, o2 \in Resting(bids) : o1.id = o2.id => o1 = o2
    /\ \A o1, o2 \in Resting(asks) : o1.id = o2.id => o1 = o2
    /\ \A o1 \in Resting(bids), o2 \in Resting(asks) : o1.id # o2.id
    /\ \A id \in DOMAIN orders \ RestingIds : orders[id].canceled

\* Every queue is in order of arrival, so that serving the front is time
\* priority.
ArrivalOrder == \A levels \in {bids, asks} : \A p \in DOMAIN levels :
    \A i, j \in DOMAIN levels[p] :
        i < j => orders[levels[p][i].id].priority < orders[levels[p][j].id].priority

\* Between calls no two levels overlap, not even levels that only hold
\* canceled orders, and no level is empty.
UncrossedBetweenCalls == ~matching =>
    /\ \A b \in DOMAIN bids, a \in DOMAIN asks : b < a
    /\ \A p \in DOMAIN bids : bids[p] # <<>>
    /\ \A p \in DOMAIN asks : asks[p] # <<>>

\* In every trade the aggressor is the order being added, on its own side, and
\* the price is that of the other order and no worse than its limit.
AggressorIsIncoming == \A i \in DOMAIN trades :
    /\ incoming # {}
    /\ \A r \in incoming :
         /\ trades[i].aggressor = r.id /\ trades[i].existing # r.id
         /\ trades[i].aggressorIsBuy = r.isBuy
         /\ IF r.isBuy THEN trades[i].level <= r.level ELSE trades[i].level >= r.level

\* What an order asked for is what was traded plus what rests of it.
QuantityConserved == \A r \in incoming :
    LET Left == {o \in Resting(bids) \cup Resting(asks) : o.id = r.id /\ ~orders[r.id].canceled}
        Filled == FoldFunction(LAMBDA trade, sum : sum + trade.size, 0, trades)
    IN \/ \E o \in Left : r.quantity = Filled + o.quantity
       \/ Left = {} /\ r.quantity = Filled
       \/ r.id \in DOMAIN orders /\ orders[r.id].canceled

\* The order live in the abstract book for each resting order that is not
\* canceled.
LiveOn(levels, isBuy) ==
    {[id |-> o.id, isBuy |-> isBuy, level |-> o.level, quantity |-> o.quantity,
      arrival |-> orders[o.id].priority] :
        o \in {x \in Resting(levels) : ~orders[x.id].canceled}}

Ideal == INSTANCE PriceTimeBook WITH
    live  <- LiveOn(bids, TRUE) \cup LiveOn(asks, FALSE),
    taken <- DOMAIN orders,
    clock <- priority

\* The book with lazy cancellation trades exactly as one that removes canceled
\* orders at once, and a call of AddOrder returns only after every trade that
\* was due.
ImplementsPriceTime == Ideal!FairSpec
=============================================================================
