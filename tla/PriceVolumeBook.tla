--------------------------- MODULE PriceVolumeBook ---------------------------
(***************************************************************************)
(* LimitOrderBook of leetcode/stl_datastructures/lbo.cpp.  An order that   *)
(* rests is put in a COPY of the list of its price, which is destroyed on  *)
(* return, and orders_ keeps that copy's end().  So the lists of the book  *)
(* stay empty: matching against a side that has a price, or cancelling a   *)
(* resting order, uses an iterator of no list, which is undefined.         *)
(***************************************************************************)
EXTENDS Integers, Sequences, Functions

CONSTANTS
    BookPrices, BookVolumes,   \* of orders
    MaxPlaced                  \* bound on the number of orders

ASSUME BookAssumption == BookVolumes \in SUBSET Int /\ MaxPlaced \in Nat

VARIABLES
    bids, asks,               \* the prices that have a list
    bidvolumes, askvolumes,   \* bidvolumes_, askvolumes_; 0 where there is no entry
    orders,                   \* the ids in orders_
    placed,                   \* the orders placed so far; the next id is their number
    returned,                 \* what the last call returned
    bookUndefined             \* a call used an iterator that is not valid

bookVars == <<bids, asks, bidvolumes, askvolumes, orders, placed, returned, bookUndefined>>

BookInit ==
    /\ bids = {} /\ asks = {} /\ orders = {} /\ placed = <<>>
    /\ bidvolumes = [p \in BookPrices |-> 0] /\ askvolumes = [p \in BookPrices |-> 0]
    /\ returned = 0 /\ bookUndefined = FALSE

Id == Len(placed)

\* The first order of the best price is looked at although there is none.
NothingToMatch(opposite, volume) == volume > 0 /\ opposite # {}

\* placebid_
PlaceBid(price, volume) ==
    /\ IF volume = 0 THEN UNCHANGED <<bids, bidvolumes>>
       ELSE /\ bids' = bids \cup {price}
            /\ bidvolumes' = [bidvolumes EXCEPT ![price] = @ + volume]
    /\ UNCHANGED <<asks, askvolumes>>

\* placeask_
PlaceAsk(price, volume) ==
    /\ IF volume = 0 THEN UNCHANGED <<asks, askvolumes>>
       ELSE /\ asks' = asks \cup {price}
            /\ askvolumes' = [askvolumes EXCEPT ![price] = @ + volume]
    /\ UNCHANGED <<bids, bidvolumes>>

\* PlaceOrder returns the next id, which orders_ gets if the order rests.
PlaceOrder(price, volume, buy) ==
    /\ Len(placed) < MaxPlaced
    /\ placed' = Append(placed, [price |-> price, volume |-> volume, buy |-> buy])
    /\ IF NothingToMatch(IF buy THEN asks ELSE bids, volume)
         THEN bookUndefined' = TRUE /\ UNCHANGED <<bids, asks, bidvolumes, askvolumes, orders, returned>>
         ELSE /\ IF buy THEN PlaceBid(price, volume) ELSE PlaceAsk(price, volume)
              /\ orders' = IF volume = 0 THEN orders ELSE orders \cup {Id}
              /\ returned' = Id /\ UNCHANGED bookUndefined

\* CancelOrder of an unknown id returns -1; cancelorder_ dereferences and
\* erases the iterator kept, which is never valid.
CancelBookOrder(id) ==
    /\ IF id \in orders THEN bookUndefined' = TRUE /\ UNCHANGED returned
                         ELSE returned' = -1 /\ UNCHANGED bookUndefined
    /\ UNCHANGED <<bids, asks, bidvolumes, askvolumes, orders, placed>>

\* GetPriceVolume
PriceVolume(price, buy) == IF buy THEN bidvolumes[price] ELSE askvolumes[price]

BookNext ==
    /\ ~bookUndefined
    /\ \/ \E price \in BookPrices, volume \in BookVolumes, buy \in BOOLEAN : PlaceOrder(price, volume, buy)
       \/ \E id \in 0 .. MaxPlaced : CancelBookOrder(id)

-----------------------------------------------------------------------------
\* What the orders os add up to at price on a side.
VolumeOf(o, price, buy) == IF o.price = price /\ (o.buy <=> buy) THEN o.volume ELSE 0
VolumePlaced(os, price, buy) == SumFunction([i \in DOMAIN os |-> VolumeOf(os[i], price, buy)])

\* As long as orders rest on one side only and none that rests is cancelled, the
\* volume of a price is the total of the orders placed there; the first order
\* for the other side finds no order to match and its behaviour is undefined.
VolumesAddUp ==
    /\ ~bookUndefined =>
         /\ \A price \in BookPrices, buy \in BOOLEAN :
              PriceVolume(price, buy) = VolumePlaced(placed, price, buy)
         /\ \A i, j \in DOMAIN placed :
              i < j /\ placed[i].buy # placed[j].buy => placed[i].volume = 0 \/ placed[j].volume <= 0
    /\ \A id \in orders : placed[id + 1].volume # 0
=============================================================================
