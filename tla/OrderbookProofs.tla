-------------------------- MODULE OrderbookProofs --------------------------
(***************************************************************************)
(* The properties of the order book for all ids, prices, quantities and    *)
(* numbers of orders.  BookIInv says, position by position, where the      *)
(* orders of the index rest, what may be empty while the best levels are   *)
(* matched, and that only the order being added can cross the other side.  *)
(* The refinement of PriceTimeBook follows from it, and, with the sum of   *)
(* the sizes of the trades, that no quantity is lost.                      *)
(***************************************************************************)
EXTENDS Orderbook, FiniteSetTheorems, WellFoundedInduction, TLAPS

Levels == {levels \in UNION {[P -> Seq(Order)] : P \in SUBSET Prices} : IsFiniteSet(DOMAIN levels)}
Index  == UNION {[I -> Metadata] : I \in SUBSET Ids}

\* Every order is indexed under the level it rests at.
Placed(levels, index) == \A p \in DOMAIN levels : \A i \in 1 .. Len(levels[p]) :
    levels[p][i].id \in DOMAIN index /\ index[levels[p][i].id].level = p

\* Every queue is in order of arrival.
Queued(levels, index) == \A p \in DOMAIN levels : \A i, j \in 1 .. Len(levels[p]) :
    i < j => index[levels[p][i].id].priority < index[levels[p][j].id].priority

Rests(levels, id) == \E p \in DOMAIN levels : \E i \in 1 .. Len(levels[p]) : levels[p][i].id = id

\* No order is on both sides.
OneSide(L, M) == \A id \in Ids : ~(Rests(L, id) /\ Rests(M, id))

\* N is L with orders gone from the fronts, or levels gone.
Shrunk(N, L) ==
    /\ DOMAIN N \subseteq DOMAIN L
    /\ \A p \in DOMAIN N : \E k \in Nat :
         /\ Len(N[p]) + k = Len(L[p])
         /\ \A i \in 1 .. Len(N[p]) : N[p][i].id = L[p][i + k].id

\* The map N is L without the keys K.
Without(N, L, K) == DOMAIN N = DOMAIN L \ K /\ \A k \in DOMAIN N : N[k] = L[k]

\* The map N is L with v for the key k.
With(N, L, k, v) == /\ DOMAIN N = DOMAIN L \cup {k} /\ N[k] = v
                    /\ \A x \in DOMAIN L : x # k => N[x] = L[x]

\* N is L with o at the back of level p.
Pushed(N, L, p, o) ==
    /\ DOMAIN N = DOMAIN L \cup {p}
    /\ \A q \in DOMAIN L : q # p => N[q] = L[q]
    /\ p \in DOMAIN L => /\ Len(N[p]) = Len(L[p]) + 1 /\ N[p][Len(L[p]) + 1] = o
                        /\ \A i \in 1 .. Len(L[p]) : N[p][i] = L[p][i]
    /\ p \notin DOMAIN L => Len(N[p]) = 1 /\ N[p][1] = o

-----------------------------------------------------------------------------
(* The best level exists.                                                  *)

\* Every set of naturals that is not empty has a least member.
LEMMA Smallest ==
    ASSUME NEW S \in SUBSET Nat, S # {}
    PROVE  \E x \in S : \A y \in S : x <= y
<1> DEFINE R == {ss \in Nat \X Nat : ss[1] < ss[2]}
<1>1. OpToRel(<, Nat) = R
  BY DEF OpToRel
<1>2. IsWellFoundedOn(R, Nat)
  BY <1>1, NatLessThanWellFounded
<1>3. \A x, y \in Nat : x < y => <<x, y>> \in R
  OBVIOUS
<1>4. \E x \in S : \A y \in S : ~(<<y, x>> \in R)
  <2> HIDE DEF R
  <2> QED
    BY <1>2, WFMin
<1>5. PICK x \in S : \A y \in S : ~(<<y, x>> \in R)
  BY <1>4
<1>6. \A y \in S : ~(y < x)
  BY <1>3, <1>5
<1> QED
  BY <1>6

\* The element with the fewest others in front of it.
LEMMA Foremost ==
    ASSUME NEW S, IsFiniteSet(S), S # {}, NEW ahead \in [S -> SUBSET S],
           \A x, y \in S : y \in ahead[x] => ahead[y] \subseteq ahead[x] /\ y \notin ahead[y]
    PROVE  \E x \in S : ahead[x] = {}
<1>1. \A x \in S : IsFiniteSet(ahead[x]) /\ Cardinality(ahead[x]) \in Nat
  BY FS_Subset, FS_CardinalityType
<1> DEFINE Sizes == {Cardinality(ahead[x]) : x \in S}
<1>2. Sizes \in SUBSET Nat /\ Sizes # {}
  BY <1>1
<1>3. PICK n \in Sizes : \A m \in Sizes : n <= m
  <2> HIDE DEF Sizes
  <2> QED
    BY <1>2, Smallest
<1>4. PICK x \in S : n = Cardinality(ahead[x])
  OBVIOUS
<1>5. ASSUME NEW y \in ahead[x] PROVE FALSE
  <2>1. y \in S /\ ahead[y] \subseteq ahead[x] /\ y \notin ahead[y]
    OBVIOUS
  <2>2. Cardinality(ahead[x]) <= Cardinality(ahead[y])
    BY <1>3, <1>4, <2>1
  <2>3. /\ Cardinality(ahead[y]) <= Cardinality(ahead[x])
        /\ Cardinality(ahead[x]) = Cardinality(ahead[y]) => ahead[x] = ahead[y]
    BY <1>1, <2>1, FS_Subset
  <2>4. ahead[x] = ahead[y]
    BY <1>1, <2>1, <2>2, <2>3
  <2> QED
    BY <2>1, <2>4
<1> QED
  BY <1>5

\* A finite set of prices has a highest one.
LEMMA Highest ==
    ASSUME NEW S \in SUBSET Int, IsFiniteSet(S), S # {}
    PROVE  \E x \in S : \A y \in S : x >= y
<1> DEFINE ahead == [x \in S |-> {y \in S : y > x}]
<1>1. ahead \in [S -> SUBSET S]
  OBVIOUS
<1>2. \A x, y \in S : y \in ahead[x] => ahead[y] \subseteq ahead[x] /\ y \notin ahead[y]
  <2> SUFFICES ASSUME NEW x \in S, NEW y \in S, y \in ahead[x]
               PROVE  ahead[y] \subseteq ahead[x] /\ y \notin ahead[y]
    OBVIOUS
  <2>1. y > x
    OBVIOUS
  <2>2. \A z \in S : z > y => z > x
    BY <2>1
  <2>3. ahead[x] = {z \in S : z > x} /\ ahead[y] = {z \in S : z > y}
    OBVIOUS
  <2> HIDE DEF ahead
  <2>4. ahead[y] \subseteq ahead[x]
    BY <2>2, <2>3
  <2>5. ~(y > y)
    OBVIOUS
  <2> QED
    BY <2>3, <2>4, <2>5
<1>3. PICK x \in S : ahead[x] = {}
  <2> HIDE DEF ahead
  <2> QED
    BY <1>1, <1>2, Foremost
<1>4. \A y \in S : ~(y > x)
  BY <1>3
<1> QED
  BY <1>4

\* A finite set of prices has a lowest one.
LEMMA Lowest ==
    ASSUME NEW S \in SUBSET Int, IsFiniteSet(S), S # {}
    PROVE  \E x \in S : \A y \in S : x <= y
<1> DEFINE ahead == [x \in S |-> {y \in S : y < x}]
<1>1. ahead \in [S -> SUBSET S]
  OBVIOUS
<1>2. \A x, y \in S : y \in ahead[x] => ahead[y] \subseteq ahead[x] /\ y \notin ahead[y]
  <2> SUFFICES ASSUME NEW x \in S, NEW y \in S, y \in ahead[x]
               PROVE  ahead[y] \subseteq ahead[x] /\ y \notin ahead[y]
    OBVIOUS
  <2>1. y < x
    OBVIOUS
  <2>2. \A z \in S : z < y => z < x
    BY <2>1
  <2>3. ahead[x] = {z \in S : z < x} /\ ahead[y] = {z \in S : z < y}
    OBVIOUS
  <2> HIDE DEF ahead
  <2>4. ahead[y] \subseteq ahead[x]
    BY <2>2, <2>3
  <2>5. ~(y < y)
    OBVIOUS
  <2> QED
    BY <2>3, <2>4, <2>5
<1>3. PICK x \in S : ahead[x] = {}
  <2> HIDE DEF ahead
  <2> QED
    BY <1>1, <1>2, Foremost
<1>4. \A y \in S : ~(y < x)
  BY <1>3
<1> QED
  BY <1>4

\* bids_.begin() and asks_.begin() are the best prices of their side.
LEMMA BestIsBest ==
    ASSUME bids \in Levels, asks \in Levels
    PROVE  /\ DOMAIN bids # {} => /\ BestBid \in DOMAIN bids
                                  /\ \A q \in DOMAIN bids : BestBid >= q
           /\ DOMAIN asks # {} => /\ BestAsk \in DOMAIN asks
                                  /\ \A q \in DOMAIN asks : BestAsk <= q
<1>1. /\ DOMAIN bids \in SUBSET Int /\ IsFiniteSet(DOMAIN bids)
      /\ DOMAIN asks \in SUBSET Int /\ IsFiniteSet(DOMAIN asks)
  BY OrderAssumption DEF Levels
<1>2. DOMAIN bids # {} => \E p \in DOMAIN bids : \A q \in DOMAIN bids : p >= q
  BY <1>1, Highest
<1>3. DOMAIN asks # {} => \E p \in DOMAIN asks : \A q \in DOMAIN asks : p <= q
  BY <1>1, Lowest
<1> QED
  BY <1>2, <1>3 DEF BestBid, BestAsk
-----------------------------------------------------------------------------
(* What the operations on levels do.                                       *)

\* What a map of levels is, and that an empty queue is one of length 0.
LEMMA LevelsAre ==
    ASSUME NEW L \in Levels
    PROVE  /\ DOMAIN L \subseteq Prices /\ DOMAIN L \subseteq Int /\ IsFiniteSet(DOMAIN L)
           /\ \A p \in DOMAIN L : /\ L[p] \in Seq(Order) /\ Len(L[p]) \in Nat
                                  /\ L[p] = <<>> <=> Len(L[p]) = 0
           /\ \A p \in DOMAIN L : \A i \in 1 .. Len(L[p]) :
                /\ L[p][i] \in Order /\ L[p][i].id \in Ids /\ L[p][i].quantity \in Nat
<1>1. /\ DOMAIN L \subseteq Prices /\ DOMAIN L \subseteq Int /\ IsFiniteSet(DOMAIN L)
      /\ \A p \in DOMAIN L : L[p] \in Seq(Order)
  BY OrderAssumption DEF Levels
<1>2. \A s \in Seq(Order) : /\ Len(s) \in Nat /\ s = <<>> <=> Len(s) = 0
                            /\ \A i \in 1 .. Len(s) : s[i] \in Order
  OBVIOUS
<1>3. \A o \in Order : o.id \in Ids /\ o.quantity \in Nat
  BY DEF Order
<1> QED
  BY <1>1, <1>2, <1>3

\* A function from finitely many prices to queues is a map of levels.
LEMMA LevelsFrom ==
    ASSUME NEW P \in SUBSET Prices, IsFiniteSet(P), NEW N \in [P -> Seq(Order)]
    PROVE  N \in Levels /\ DOMAIN N = P
BY DEF Levels

\* orders.push_back: the order comes last at its level, which is made if need be.
LEMMA PushBackIs ==
    ASSUME NEW L \in Levels, NEW p \in Prices, NEW o \in Order, NEW N, N = PushBack(L, p, o)
    PROVE  N \in Levels /\ Pushed(N, L, p, o)
<1>1. /\ DOMAIN L \subseteq Prices /\ IsFiniteSet(DOMAIN L)
      /\ \A q \in DOMAIN L : L[q] \in Seq(Order)
  BY LevelsAre
<1> DEFINE s == IF p \in DOMAIN L THEN Append(L[p], o) ELSE <<o>>
<1>2. s \in Seq(Order)
  BY <1>1
<1>3. N = [q \in DOMAIN L \cup {p} |-> IF q = p THEN s ELSE L[q]]
  BY DEF PushBack, Put
<1>4. IsFiniteSet(DOMAIN L \cup {p}) /\ DOMAIN L \cup {p} \in SUBSET Prices
  BY <1>1, FS_AddElement
<1>5. N \in [DOMAIN L \cup {p} -> Seq(Order)]
  <2> HIDE DEF s
  <2> QED
    BY <1>1, <1>2, <1>3
<1>6. N \in Levels /\ DOMAIN N = DOMAIN L \cup {p}
  BY <1>4, <1>5, LevelsFrom
<1>7. N[p] = s /\ \A q \in DOMAIN L : q # p => N[q] = L[q]
  BY <1>3
<1>8. p \in DOMAIN L => /\ Len(s) = Len(L[p]) + 1 /\ s[Len(L[p]) + 1] = o
                        /\ \A i \in 1 .. Len(L[p]) : s[i] = L[p][i]
  BY <1>1
<1>9. p \notin DOMAIN L => Len(s) = 1 /\ s[1] = o
  OBVIOUS
<1> HIDE DEF s
<1> QED
  BY <1>6, <1>7, <1>8, <1>9 DEF Pushed

\* Nothing gone is a case of Shrunk.
LEMMA SameShrunk ==
    ASSUME NEW L \in Levels
    PROVE  Shrunk(L, L)
<1>1. \A p \in DOMAIN L : Len(L[p]) + 0 = Len(L[p]) /\ \A i \in 1 .. Len(L[p]) : L[p][i].id = L[p][i + 0].id
  BY LevelsAre
<1> QED
  BY <1>1 DEF Shrunk

\* orders.pop_front takes the first order of one level, and no other.
LEMMA PopFrontIs ==
    ASSUME NEW L \in Levels, NEW p \in DOMAIN L, L[p] # <<>>, NEW N, N = PopFront(L, p)
    PROVE  /\ N \in Levels /\ DOMAIN N = DOMAIN L /\ Shrunk(N, L)
           /\ \A q \in DOMAIN L : q # p => N[q] = L[q]
           /\ Len(N[p]) = Len(L[p]) - 1
           /\ \A i \in 1 .. Len(N[p]) : N[p][i] = L[p][i + 1]
<1>1. /\ DOMAIN L \subseteq Prices /\ IsFiniteSet(DOMAIN L)
      /\ \A q \in DOMAIN L : L[q] \in Seq(Order) /\ Len(L[q]) \in Nat
  BY LevelsAre
<1>2. /\ Tail(L[p]) \in Seq(Order) /\ Len(Tail(L[p])) = Len(L[p]) - 1
      /\ \A i \in 1 .. Len(Tail(L[p])) : Tail(L[p])[i] = L[p][i + 1]
  BY <1>1
<1>3. L \in [DOMAIN L -> Seq(Order)]
  BY DEF Levels
<1>4. N = [L EXCEPT ![p] = Tail(L[p])]
  BY DEF PopFront
<1>5. /\ N \in [DOMAIN L -> Seq(Order)] /\ N[p] = Tail(L[p])
      /\ \A q \in DOMAIN L : q # p => N[q] = L[q]
  BY <1>2, <1>3, <1>4
<1>6. N \in Levels /\ DOMAIN N = DOMAIN L
  BY <1>1, <1>5, LevelsFrom
<1>7. ASSUME NEW q \in DOMAIN L
      PROVE  \E k \in Nat : /\ Len(N[q]) + k = Len(L[q])
                            /\ \A i \in 1 .. Len(N[q]) : N[q][i].id = L[q][i + k].id
  <2>1. CASE q = p
    <3>1. Len(N[p]) + 1 = Len(L[p]) /\ \A i \in 1 .. Len(N[p]) : N[p][i].id = L[p][i + 1].id
      BY <1>1, <1>2, <1>5
    <3> QED
      BY <2>1, <3>1
  <2>2. CASE q # p
    <3>1. Len(N[q]) + 0 = Len(L[q]) /\ \A i \in 1 .. Len(N[q]) : N[q][i].id = L[q][i + 0].id
      BY <1>1, <1>5, <2>2
    <3> QED
      BY <3>1
  <2> QED
    BY <2>1, <2>2
<1>8. Shrunk(N, L)
  BY <1>6, <1>7 DEF Shrunk
<1> QED
  BY <1>2, <1>5, <1>6, <1>8

\* Order::Fill keeps the id of the front order, or takes it out.
LEMMA FillFrontIs ==
    ASSUME NEW L \in Levels, NEW p \in DOMAIN L, L[p] # <<>>,
           NEW size \in Nat, size <= L[p][1].quantity, NEW N, N = FillFront(L, p, size)
    PROVE  /\ N \in Levels /\ DOMAIN N = DOMAIN L /\ Shrunk(N, L)
           /\ \A q \in DOMAIN L : q # p => N[q] = L[q]
           /\ L[p][1].quantity = size => /\ Len(N[p]) = Len(L[p]) - 1
                                         /\ \A i \in 1 .. Len(N[p]) : N[p][i] = L[p][i + 1]
           /\ L[p][1].quantity # size => /\ Len(N[p]) = Len(L[p])
                                         /\ \A i \in 1 .. Len(N[p]) : N[p][i].id = L[p][i].id
<1>1. /\ DOMAIN L \subseteq Prices /\ IsFiniteSet(DOMAIN L)
      /\ \A q \in DOMAIN L : L[q] \in Seq(Order) /\ Len(L[q]) \in Nat
      /\ L[p] = <<>> <=> Len(L[p]) = 0
  BY LevelsAre
<1>2. L[p][1] \in Order /\ Head(L[p]) = L[p][1]
  BY <1>1
<1>3. CASE L[p][1].quantity = size
  <2>1. N = PopFront(L, p)
    BY <1>2, <1>3 DEF FillFront
  <2> QED
    BY <1>3, <2>1, PopFrontIs
<1>4. CASE L[p][1].quantity # size
  <2> DEFINE o == [L[p][1] EXCEPT !.quantity = L[p][1].quantity - size]
             s == [L[p] EXCEPT ![1] = o]
  <2>1. o \in Order /\ o.id = L[p][1].id
    BY <1>2 DEF Order
  <2>3. L \in [DOMAIN L -> Seq(Order)]
    BY DEF Levels
  <2>4. N = [L EXCEPT ![p] = s]
    BY <1>2, <1>4 DEF FillFront
  <2> HIDE DEF o
  <2>5. /\ s \in Seq(Order) /\ Len(s) = Len(L[p])
        /\ \A i \in 1 .. Len(s) : s[i].id = L[p][i].id
    BY <1>1, <1>2, <2>1
  <2> HIDE DEF s
  <2>6. /\ N \in [DOMAIN L -> Seq(Order)] /\ N[p] = s
        /\ \A q \in DOMAIN L : q # p => N[q] = L[q]
    BY <2>3, <2>4, <2>5
  <2>7. N \in Levels /\ DOMAIN N = DOMAIN L
    BY <1>1, <2>6, LevelsFrom
  <2>8. ASSUME NEW q \in DOMAIN L
        PROVE  \E k \in Nat : /\ Len(N[q]) + k = Len(L[q])
                              /\ \A i \in 1 .. Len(N[q]) : N[q][i].id = L[q][i + k].id
    <3>1. Len(N[p]) + 0 = Len(L[p]) /\ \A i \in 1 .. Len(N[p]) : N[p][i].id = L[p][i + 0].id
      BY <1>1, <2>5, <2>6
    <3>2. q # p => Len(N[q]) + 0 = Len(L[q]) /\ \A i \in 1 .. Len(N[q]) : N[q][i].id = L[q][i + 0].id
      BY <1>1, <2>6
    <3> QED
      BY <3>1, <3>2
  <2>9. Shrunk(N, L)
    BY <2>7, <2>8 DEF Shrunk
  <2> QED
    BY <1>4, <2>5, <2>6, <2>7, <2>9
<1> QED
  BY <1>3, <1>4

\* Erasing levels leaves the others as they are.
LEMMA EraseIs ==
    ASSUME NEW L \in Levels, NEW P, NEW N, N = Erase(L, P)
    PROVE  N \in Levels /\ Shrunk(N, L) /\ Without(N, L, P)
<1>1. DOMAIN L \subseteq Prices /\ IsFiniteSet(DOMAIN L)
  BY LevelsAre
<1>2. N = [p \in DOMAIN L \ P |-> L[p]]
  BY DEF Erase, Restrict
<1>3. IsFiniteSet(DOMAIN L \ P) /\ DOMAIN L \ P \in SUBSET Prices
  BY <1>1, FS_Subset
<1>4. N \in [DOMAIN L \ P -> Seq(Order)]
  BY <1>2, LevelsAre
<1>5. N \in Levels /\ DOMAIN N = DOMAIN L \ P
  BY <1>3, <1>4, LevelsFrom
<1>6. \A p \in DOMAIN N : N[p] = L[p]
  BY <1>2
<1>7. Shrunk(L, L)
  BY SameShrunk
<1>8. Shrunk(N, L)
  BY <1>5, <1>6, <1>7 DEF Shrunk
<1> QED
  BY <1>5, <1>6, <1>8 DEF Without

-----------------------------------------------------------------------------
(* What an operation leaves of the agreement with the index.               *)

\* The members of an index entry.
LEMMA IndexIs ==
    ASSUME NEW O \in Index
    PROVE  /\ DOMAIN O \subseteq Ids
           /\ \A id \in DOMAIN O : /\ O[id] \in Metadata /\ O[id].level \in Prices
                                  /\ O[id].priority \in Nat /\ O[id].canceled \in BOOLEAN
BY DEF Index, Metadata

\* Orders that stay keep their level and their place in the order of arrival.
LEMMA ShrinkKeeps ==
    ASSUME NEW L \in Levels, NEW N \in Levels, NEW O, NEW M,
           Shrunk(N, L), Placed(L, O), Queued(L, O),
           \A p \in DOMAIN N : \A i \in 1 .. Len(N[p]) :
               N[p][i].id \in DOMAIN M /\ M[N[p][i].id] = O[N[p][i].id]
    PROVE  Placed(N, M) /\ Queued(N, M)
<1>1. ASSUME NEW p \in DOMAIN N
      PROVE  \E k \in Nat : /\ p \in DOMAIN L /\ Len(N[p]) + k = Len(L[p])
                            /\ Len(N[p]) \in Nat /\ Len(L[p]) \in Nat
                            /\ \A i \in 1 .. Len(N[p]) : N[p][i].id = L[p][i + k].id
  BY LevelsAre DEF Shrunk
<1>2. Placed(N, M)
  <2> SUFFICES ASSUME NEW p \in DOMAIN N, NEW i \in 1 .. Len(N[p])
               PROVE  N[p][i].id \in DOMAIN M /\ M[N[p][i].id].level = p
    BY DEF Placed
  <2>1. PICK k \in Nat : /\ p \in DOMAIN L /\ Len(N[p]) + k = Len(L[p])
                         /\ Len(N[p]) \in Nat /\ Len(L[p]) \in Nat
                         /\ \A j \in 1 .. Len(N[p]) : N[p][j].id = L[p][j + k].id
    BY <1>1
  <2>2. i + k \in 1 .. Len(L[p])
    BY <2>1
  <2>3. O[L[p][i + k].id].level = p
    BY <2>1, <2>2 DEF Placed
  <2> QED
    BY <2>1, <2>3
<1>3. Queued(N, M)
  <2> SUFFICES ASSUME NEW p \in DOMAIN N, NEW i \in 1 .. Len(N[p]), NEW j \in 1 .. Len(N[p]), i < j
               PROVE  M[N[p][i].id].priority < M[N[p][j].id].priority
    BY DEF Queued
  <2>1. PICK k \in Nat : /\ p \in DOMAIN L /\ Len(N[p]) + k = Len(L[p])
                         /\ Len(N[p]) \in Nat /\ Len(L[p]) \in Nat
                         /\ \A n \in 1 .. Len(N[p]) : N[p][n].id = L[p][n + k].id
    BY <1>1
  <2>2. i + k \in 1 .. Len(L[p]) /\ j + k \in 1 .. Len(L[p]) /\ i + k < j + k
    BY <2>1
  <2>3. O[L[p][i + k].id].priority < O[L[p][j + k].id].priority
    BY <2>1, <2>2 DEF Queued
  <2> QED
    BY <2>1, <2>3
<1> QED
  BY <1>2, <1>3

\* What rests after orders have gone rested before.
LEMMA ShrinkRests ==
    ASSUME NEW L \in Levels, NEW N \in Levels, Shrunk(N, L), NEW id, Rests(N, id)
    PROVE  Rests(L, id)
<1>0. PICK p \in DOMAIN N : \E i \in 1 .. Len(N[p]) : N[p][i].id = id
  BY DEF Rests
<1>1. PICK i \in 1 .. Len(N[p]) : N[p][i].id = id
  BY <1>0
<1>2. PICK k \in Nat : /\ p \in DOMAIN L /\ Len(N[p]) + k = Len(L[p])
                       /\ Len(N[p]) \in Nat /\ Len(L[p]) \in Nat
                       /\ N[p][i].id = L[p][i + k].id
  BY LevelsAre DEF Shrunk
<1>3. i + k \in 1 .. Len(L[p])
  BY <1>2
<1> QED
  BY <1>1, <1>2, <1>3 DEF Rests

\* An id rests at one place of a side.
LEMMA RestsOnce ==
    ASSUME NEW L \in Levels, NEW O \in Index, Placed(L, O), Queued(L, O),
           NEW p \in DOMAIN L, NEW i \in 1 .. Len(L[p]),
           NEW q \in DOMAIN L, NEW j \in 1 .. Len(L[q]), L[p][i].id = L[q][j].id
    PROVE  p = q /\ i = j
<1>1. p = q /\ L[p][i].id \in DOMAIN O
  BY DEF Placed
<1>2. O[L[p][i].id].priority \in Nat
  BY <1>1, IndexIs
<1>3. ~(i < j) /\ ~(j < i)
  BY <1>1, <1>2 DEF Queued
<1>4. i \in Int /\ j \in Int
  BY LevelsAre
<1> QED
  BY <1>1, <1>3, <1>4

\* The front order of a level that lost only it rests nowhere.
LEMMA FrontIsGone ==
    ASSUME NEW L \in Levels, NEW N \in Levels, NEW O \in Index, Placed(L, O), Queued(L, O),
           NEW p \in DOMAIN L, L[p] # <<>>, DOMAIN N = DOMAIN L,
           \A q \in DOMAIN L : q # p => N[q] = L[q],
           Len(N[p]) = Len(L[p]) - 1, \A i \in 1 .. Len(N[p]) : N[p][i] = L[p][i + 1]
    PROVE  /\ ~Rests(N, L[p][1].id)
           /\ \A id : Rests(L, id) /\ id # L[p][1].id => Rests(N, id)
<1>1. \A q \in DOMAIN L : Len(L[q]) \in Nat
  BY LevelsAre
<1>2. Len(L[p]) >= 1 /\ 1 \in 1 .. Len(L[p])
  BY LevelsAre
<1>3. ASSUME NEW q \in DOMAIN N, NEW i \in 1 .. Len(N[q]), N[q][i].id = L[p][1].id PROVE FALSE
  <2>1. CASE q = p
    <3>1. i + 1 \in 1 .. Len(L[p]) /\ L[p][i + 1].id = L[p][1].id
      BY <1>1, <1>3, <2>1
    <3>2. i + 1 = 1
      BY <1>2, <3>1, RestsOnce
    <3> QED
      BY <1>1, <2>1, <3>2
  <2>2. CASE q # p
    <3>1. i \in 1 .. Len(L[q]) /\ L[q][i].id = L[p][1].id
      BY <1>3, <2>2
    <3> QED
      BY <1>2, <2>2, <3>1, RestsOnce
  <2> QED
    BY <2>1, <2>2
<1>4. ASSUME NEW q \in DOMAIN L, NEW i \in 1 .. Len(L[q]), L[q][i].id # L[p][1].id
      PROVE  Rests(N, L[q][i].id)
  <2>1. CASE q = p
    <3>1. i - 1 \in 1 .. Len(N[p]) /\ (i - 1) + 1 = i
      BY <1>1, <1>4, <2>1
    <3>2. N[p][i - 1] = L[p][i]
      BY <3>1
    <3> QED
      BY <2>1, <3>1, <3>2 DEF Rests
  <2>2. CASE q # p
    BY <2>2 DEF Rests
  <2> QED
    BY <2>1, <2>2
<1>5. ~Rests(N, L[p][1].id)
  BY <1>3 DEF Rests
<1>6. ASSUME NEW id, Rests(L, id), id # L[p][1].id PROVE Rests(N, id)
  <2>1. PICK q \in DOMAIN L : \E i \in 1 .. Len(L[q]) : L[q][i].id = id
    BY <1>6 DEF Rests
  <2> QED
    BY <1>4, <1>6, <2>1
<1> QED
  BY <1>5, <1>6

\* A level whose orders keep their ids rests the same ids.
LEMMA SameRest ==
    ASSUME NEW L \in Levels, NEW N \in Levels, NEW p \in DOMAIN L, DOMAIN N = DOMAIN L,
           \A q \in DOMAIN L : q # p => N[q] = L[q],
           Len(N[p]) = Len(L[p]), \A i \in 1 .. Len(N[p]) : N[p][i].id = L[p][i].id,
           NEW id, Rests(L, id)
    PROVE  Rests(N, id)
<1>0. PICK q \in DOMAIN L : \E i \in 1 .. Len(L[q]) : L[q][i].id = id
  BY DEF Rests
<1>1. PICK i \in 1 .. Len(L[q]) : L[q][i].id = id
  BY <1>0
<1>2. i \in 1 .. Len(N[q]) /\ N[q][i].id = id
  BY <1>1
<1> QED
  BY <1>2 DEF Rests

-----------------------------------------------------------------------------
(* The inductive invariant.                                                *)

BookTypes ==
    /\ bids \in Levels /\ asks \in Levels /\ orders \in Index
    /\ priority \in Nat /\ matching \in BOOLEAN
    /\ trades \in Seq(Trade) /\ incoming \in SUBSET Request

\* The index O, which has given n priorities, is that of the orders resting on
\* the sides L and M, and of canceled ones.
Agree(L, M, O, n) ==
    /\ Placed(L, O) /\ Placed(M, O)
    /\ Queued(L, O) /\ Queued(M, O)
    /\ OneSide(L, M)
    /\ \A id \in DOMAIN O : O[id].canceled \/ Rests(L, id) \/ Rests(M, id)
    /\ \A id \in DOMAIN O : O[id].priority < n

BookAgrees == Agree(bids, asks, orders, priority)

Newest(O, id) == \A x \in DOMAIN O \ {id} : O[x].priority < O[id].priority

\* An empty level is the best of its side and about to be erased.
EmptyIsBest ==
    /\ \A p \in DOMAIN bids : bids[p] = <<>> => matching /\ Crossed /\ p = BestBid
    /\ \A p \in DOMAIN asks : asks[p] = <<>> => matching /\ Crossed /\ p = BestAsk

Uncrossed == ~matching => \A b \in DOMAIN bids, a \in DOMAIN asks : b < a

\* A level of the limit of r, which holds at most r.
HoldsOnly(levels, p, r) ==
    p = r.level /\ \A i \in 1 .. Len(levels[p]) : levels[p][i].id = r.id

\* While the book is matched only the latest order, the incoming one, crosses.
IncomingCrosses(r) ==
    /\ incoming = {r}
    /\ r.id \in DOMAIN orders => Newest(orders, r.id)
    /\ \A b \in DOMAIN bids, a \in DOMAIN asks : b >= a =>
         IF r.isBuy THEN HoldsOnly(bids, b, r) ELSE HoldsOnly(asks, a, r)
OnlyIncomingCrosses == matching => \E r \in Request : IncomingCrosses(r)

BookIInv ==
    /\ BookTypes /\ BookAgrees /\ EmptyIsBest /\ Uncrossed
    /\ OnlyIncomingCrosses /\ AggressorIsIncoming

\* The empty book.
LEMMA InitEstablishesBookIInv == Init => BookIInv
<1> SUFFICES ASSUME Init PROVE BookIInv
  OBVIOUS
<1>1. DOMAIN bids = {} /\ DOMAIN asks = {} /\ DOMAIN orders = {} /\ trades = <<>>
  BY DEF Init
<1>2. bids \in Levels /\ asks \in Levels
  <2>1. <<>> \in [{} -> Seq(Order)]
    OBVIOUS
  <2> QED
    BY <2>1, FS_EmptySet, LevelsFrom DEF Init
<1>3. orders \in Index
  <2>1. <<>> \in [{} -> Metadata]
    OBVIOUS
  <2> QED
    BY <2>1 DEF Init, Index
<1>4. BookTypes
  <2>1. priority \in Nat /\ incoming \in SUBSET Request
    BY DEF Init
  <2>2. matching \in BOOLEAN
    BY DEF Init
  <2>3. trades \in Seq(Trade)
    BY DEF Init
  <2> QED
    BY <1>2, <1>3, <2>1, <2>2, <2>3 DEF BookTypes
<1>5. BookAgrees
  BY <1>1 DEF BookAgrees, Agree, Placed, Queued, OneSide, Rests
<1>6. EmptyIsBest /\ Uncrossed
  BY <1>1 DEF EmptyIsBest, Uncrossed
<1>7. OnlyIncomingCrosses /\ AggressorIsIncoming
  BY DEF Init, OnlyIncomingCrosses, AggressorIsIncoming
<1> QED
  BY <1>4, <1>5, <1>6, <1>7 DEF BookIInv

-----------------------------------------------------------------------------
(* The public operations.                                                  *)

\* push_back makes the one order rest that it adds.
LEMMA BackRests ==
    ASSUME NEW L \in Levels, NEW p \in Prices, NEW o \in Order, NEW N, N = PushBack(L, p, o), NEW id
    PROVE  Rests(N, id) <=> Rests(L, id) \/ id = o.id
<1>0. N \in Levels /\ Pushed(N, L, p, o)
  BY PushBackIs
<1>1. /\ DOMAIN N = DOMAIN L \cup {p}
      /\ \A q \in DOMAIN L : q # p => N[q] = L[q]
      /\ p \in DOMAIN L =>
           /\ Len(N[p]) = Len(L[p]) + 1 /\ N[p][Len(L[p]) + 1] = o
           /\ \A i \in 1 .. Len(L[p]) : N[p][i] = L[p][i]
      /\ p \notin DOMAIN L => Len(N[p]) = 1 /\ N[p][1] = o
  BY <1>0 DEF Pushed
<1>2. \A q \in DOMAIN L : Len(L[q]) \in Nat
  BY LevelsAre
<1>3. ASSUME NEW q \in DOMAIN N, NEW i \in 1 .. Len(N[q])
      PROVE  Rests(L, N[q][i].id) \/ N[q][i].id = o.id
  <2>1. CASE q # p
    BY <1>1, <2>1 DEF Rests
  <2>2. CASE q = p /\ p \in DOMAIN L
    <3>1. \A j \in 1 .. Len(N[p]) : j = Len(L[p]) + 1 \/ j \in 1 .. Len(L[p])
      BY <1>1, <1>2, <2>2
    <3>2. \A j \in 1 .. Len(N[p]) : Rests(L, N[p][j].id) \/ N[p][j].id = o.id
      BY <1>1, <2>2, <3>1 DEF Rests
    <3> QED
      BY <2>2, <3>2
  <2>3. CASE q = p /\ p \notin DOMAIN L
    <3>0. Len(N[p]) = 1 /\ N[p][1] = o
      BY <1>1, <2>3
    <3>1. \A j \in 1 .. Len(N[p]) : N[p][j].id = o.id
      BY <3>0
    <3> QED
      BY <2>3, <3>1
  <2> QED
    BY <2>1, <2>2, <2>3
<1>4. ASSUME NEW q \in DOMAIN L, NEW i \in 1 .. Len(L[q])
      PROVE  Rests(N, L[q][i].id)
  <2>1. i \in 1 .. Len(N[q]) /\ N[q][i] = L[q][i]
    BY <1>1, <1>2
  <2> QED
    BY <1>1, <2>1 DEF Rests
<1>5. Rests(N, o.id)
  <2>1. \E i \in 1 .. Len(N[p]) : N[p][i] = o
    BY <1>1, <1>2
  <2> QED
    BY <1>1, <2>1 DEF Rests
<1>6. Rests(N, id) => Rests(L, id) \/ id = o.id
  BY <1>3 DEF Rests
<1>7. Rests(L, id) => Rests(N, id)
  <2> SUFFICES ASSUME Rests(L, id) PROVE Rests(N, id)
    OBVIOUS
  <2>1. PICK q \in DOMAIN L : \E i \in 1 .. Len(L[q]) : L[q][i].id = id
    BY DEF Rests
  <2> QED
    BY <1>4, <2>1
<1> QED
  BY <1>5, <1>6, <1>7

\* The side the order is added to.
LEMMA BackAgrees ==
    ASSUME NEW L \in Levels, NEW O \in Index, Placed(L, O), Queued(L, O),
           NEW p \in Prices, NEW o \in Order, o.id \notin DOMAIN O, NEW n \in Nat,
           \A id \in DOMAIN O : O[id].priority < n, NEW N, N = PushBack(L, p, o),
           NEW m, m.level = p, m.priority = n, NEW M, M = Put(O, o.id, m)
    PROVE  Placed(N, M) /\ Queued(N, M)
<1>0. N \in Levels /\ Pushed(N, L, p, o)
  BY PushBackIs
<1>1. /\ DOMAIN N = DOMAIN L \cup {p}
      /\ \A q \in DOMAIN L : q # p => N[q] = L[q]
      /\ p \in DOMAIN L =>
           /\ Len(N[p]) = Len(L[p]) + 1 /\ N[p][Len(L[p]) + 1] = o
           /\ \A i \in 1 .. Len(L[p]) : N[p][i] = L[p][i]
      /\ p \notin DOMAIN L => Len(N[p]) = 1 /\ N[p][1] = o
  BY <1>0 DEF Pushed
<1>2. /\ DOMAIN M = DOMAIN O \cup {o.id} /\ \A id \in DOMAIN O : M[id] = O[id]
      /\ M[o.id].level = p /\ M[o.id].priority = n
  BY DEF Put
<1>3. \A q \in DOMAIN L : Len(L[q]) \in Nat
  BY LevelsAre
<1>4. ASSUME NEW q \in DOMAIN N, NEW i \in 1 .. Len(N[q])
      PROVE  \/ q \in DOMAIN L /\ i \in 1 .. Len(L[q]) /\ N[q][i] = L[q][i]
             \/ q = p /\ i = Len(N[q]) /\ N[q][i] = o
  <2>1. CASE q # p
    BY <1>1, <2>1
  <2>2. CASE q = p /\ p \in DOMAIN L
    <3>1. \A j \in 1 .. Len(N[p]) : j = Len(L[p]) + 1 \/ j \in 1 .. Len(L[p])
      BY <1>1, <1>3, <2>2
    <3>2. \A j \in 1 .. Len(N[p]) :
            \/ j \in 1 .. Len(L[p]) /\ N[p][j] = L[p][j]
            \/ j = Len(N[p]) /\ N[p][j] = o
      BY <1>1, <2>2, <3>1
    <3> QED
      BY <2>2, <3>2
  <2>3. CASE q = p /\ p \notin DOMAIN L
    <3>0. Len(N[p]) = 1 /\ N[p][1] = o
      BY <1>1, <2>3
    <3>1. \A j \in 1 .. Len(N[p]) : j = Len(N[p]) /\ N[p][j] = o
      BY <3>0
    <3> QED
      BY <2>3, <3>1
  <2> QED
    BY <2>1, <2>2, <2>3
<1>5. Placed(N, M)
  <2> SUFFICES ASSUME NEW q \in DOMAIN N, NEW i \in 1 .. Len(N[q])
               PROVE  N[q][i].id \in DOMAIN M /\ M[N[q][i].id].level = q
    BY DEF Placed
  <2>1. CASE q \in DOMAIN L /\ i \in 1 .. Len(L[q]) /\ N[q][i] = L[q][i]
    <3>1. L[q][i].id \in DOMAIN O /\ O[L[q][i].id].level = q
      BY <2>1 DEF Placed
    <3> QED
      BY <1>2, <2>1, <3>1
  <2>2. CASE q = p /\ i = Len(N[q]) /\ N[q][i] = o
    BY <1>2, <2>2
  <2> QED
    BY <1>4, <2>1, <2>2
<1>6. Queued(N, M)
  <2> SUFFICES ASSUME NEW q \in DOMAIN N, NEW i \in 1 .. Len(N[q]), NEW j \in 1 .. Len(N[q]), i < j
               PROVE  M[N[q][i].id].priority < M[N[q][j].id].priority
    BY DEF Queued
  <2>1. q \in DOMAIN L /\ i \in 1 .. Len(L[q]) /\ N[q][i] = L[q][i]
    <3>1. Len(N[q]) \in Nat
      BY <1>0, LevelsAre
    <3>2. i # Len(N[q])
      BY <3>1
    <3> QED
      BY <1>4, <3>2
  <2>2. L[q][i].id \in DOMAIN O
    BY <2>1 DEF Placed
  <2>3. CASE j \in 1 .. Len(L[q]) /\ N[q][j] = L[q][j]
    <3>1. L[q][j].id \in DOMAIN O
      BY <2>1, <2>3 DEF Placed
    <3>2. O[L[q][i].id].priority < O[L[q][j].id].priority
      BY <2>1, <2>3 DEF Queued
    <3> QED
      BY <1>2, <2>1, <2>2, <2>3, <3>1, <3>2
  <2>4. CASE N[q][j] = o
    BY <1>2, <2>1, <2>2, <2>4
  <2> QED
    BY <1>4, <2>3, <2>4
<1> QED
  BY <1>5, <1>6

\* The other side, and what a new index entry does not touch.
LEMMA EntryAgrees ==
    ASSUME NEW L, NEW O \in Index, Placed(L, O), Queued(L, O), NEW M,
           \A id \in DOMAIN O : /\ id \in DOMAIN M
                                /\ M[id].level = O[id].level /\ M[id].priority = O[id].priority
    PROVE  Placed(L, M) /\ Queued(L, M)
<1>1. \A p \in DOMAIN L : \A i \in 1 .. Len(L[p]) : L[p][i].id \in DOMAIN O
  BY DEF Placed
<1>2. Placed(L, M)
  BY <1>1 DEF Placed
<1>3. Queued(L, M)
  BY <1>1 DEF Queued
<1> QED
  BY <1>2, <1>3

\* orders_.emplace adds one entry and leaves the others alone.
LEMMA PutIs ==
    ASSUME NEW O \in Index, NEW id \in Ids, NEW m \in Metadata, NEW M, M = Put(O, id, m)
    PROVE  M \in Index /\ With(M, O, id, m)
<1>1. DOMAIN O \cup {id} \in SUBSET Ids
  BY IndexIs
<1>2. M = [x \in DOMAIN O \cup {id} |-> IF x = id THEN m ELSE O[x]]
  BY DEF Put
<1>3. M \in [DOMAIN O \cup {id} -> Metadata]
  BY <1>2, IndexIs
<1> QED
  BY <1>1, <1>2, <1>3 DEF Index, With

\* What AddOrder does to the side of the order, L, and to the other, M.
LEMMA AddedAgrees ==
    ASSUME NEW L \in Levels, NEW M \in Levels, NEW O \in Index, NEW n \in Nat, Agree(L, M, O, n),
           NEW p \in Prices, NEW o \in Order, o.id \notin DOMAIN O,
           NEW N, N = PushBack(L, p, o),
           NEW m \in Metadata, m.level = p, m.priority = n, NEW I, I = Put(O, o.id, m)
    PROVE  I \in Index /\ Agree(N, M, I, n + 1) /\ Newest(I, o.id)
<1>1. o.id \in Ids
  BY DEF Order
<1>2. /\ I \in Index /\ DOMAIN I = DOMAIN O \cup {o.id} /\ I[o.id] = m
      /\ \A id \in DOMAIN O : I[id] = O[id]
  <2>1. I \in Index /\ With(I, O, o.id, m)
    BY <1>1, PutIs
  <2> QED
    BY <2>1 DEF With
<1>3. /\ Placed(L, O) /\ Placed(M, O) /\ Queued(L, O) /\ Queued(M, O) /\ OneSide(L, M)
      /\ \A id \in DOMAIN O : O[id].canceled \/ Rests(L, id) \/ Rests(M, id)
      /\ \A id \in DOMAIN O : O[id].priority < n
  BY DEF Agree
<1>4. Placed(N, I) /\ Queued(N, I)
  BY <1>3, BackAgrees
<1>5. \A id \in DOMAIN O : /\ id \in DOMAIN I
                           /\ I[id].level = O[id].level /\ I[id].priority = O[id].priority
  BY <1>2
<1>6. Placed(M, I) /\ Queued(M, I)
  BY <1>3, <1>5, EntryAgrees
<1>7. \A id : Rests(N, id) <=> Rests(L, id) \/ id = o.id
  BY BackRests
<1>8. ~Rests(M, o.id)
  BY <1>3 DEF Rests, Placed
<1>9. OneSide(N, M)
  BY <1>3, <1>7, <1>8 DEF OneSide
<1>10. \A id \in DOMAIN I : I[id].canceled \/ Rests(N, id) \/ Rests(M, id)
  BY <1>2, <1>3, <1>7
<1>11. I[o.id].priority = n
  BY <1>2
<1>12. \A id \in DOMAIN I \ {o.id} : I[id].priority < n
  BY <1>2, <1>3
<1>13. Newest(I, o.id)
  BY <1>11, <1>12 DEF Newest
<1>14. \A id \in DOMAIN I : I[id].priority \in Nat
  BY <1>2, IndexIs
<1>15. \A id \in DOMAIN I : I[id].priority < n + 1
  <2>1. \A id \in DOMAIN I : I[id].priority = n \/ I[id].priority < n
    BY <1>11, <1>12
  <2>2. \A k \in Nat : k = n \/ k < n => k < n + 1
    OBVIOUS
  <2> QED
    BY <1>14, <2>1, <2>2
<1> QED
  BY <1>2, <1>4, <1>6, <1>9, <1>10, <1>13, <1>15 DEF Agree

\* The agreement does not tell the sides apart.
LEMMA AgreeEitherWay == ASSUME NEW L, NEW M, NEW O, NEW n, Agree(L, M, O, n) PROVE Agree(M, L, O, n)
BY DEF Agree, OneSide

\* AddOrder: the new order is the last of its level and the only one that can cross.
LEMMA AddOrderKeeps ==
    ASSUME BookIInv, NEW id \in Ids, NEW level \in Prices, NEW isBuy \in BOOLEAN,
           NEW quantity \in Quantities, AddOrder(id, level, isBuy, quantity)
    PROVE  BookIInv'
<1> DEFINE o == [id |-> id, quantity |-> quantity]
           r == [id |-> id, level |-> level, isBuy |-> isBuy, quantity |-> quantity]
           m == [level |-> level, priority |-> priority, canceled |-> FALSE]
<1>1. o \in Order /\ o.id = id /\ r \in Request /\ r.id = id /\ r.level = level /\ r.isBuy = isBuy
  BY OrderAssumption DEF Order, Request
<1>2. /\ ~matching /\ id \notin DOMAIN orders
      /\ isBuy => bids' = PushBack(bids, level, o) /\ asks' = asks
      /\ ~isBuy => asks' = PushBack(asks, level, o) /\ bids' = bids
      /\ orders' = Put(orders, id, [level |-> level, priority |-> priority, canceled |-> FALSE])
      /\ priority' = priority + 1 /\ matching' = TRUE /\ trades' = <<>> /\ incoming' = {r}
  BY DEF AddOrder
<1>3. BookTypes /\ BookAgrees /\ EmptyIsBest /\ Uncrossed
  BY DEF BookIInv
<1>4. m \in Metadata /\ m.level = level /\ m.priority = priority /\ orders' = Put(orders, id, m)
  BY <1>2, <1>3 DEF Metadata, BookTypes
<1> HIDE DEF o, r, m
<1>5. /\ isBuy => bids' \in Levels /\ Pushed(bids', bids, level, o)
      /\ ~isBuy => asks' \in Levels /\ Pushed(asks', asks, level, o)
  BY <1>1, <1>2, <1>3, PushBackIs DEF BookTypes
<1>6. isBuy => orders' \in Index /\ Agree(bids', asks, orders', priority + 1) /\ Newest(orders', id)
  BY <1>1, <1>2, <1>3, <1>4, AddedAgrees DEF BookTypes, BookAgrees
<1>7. ~isBuy => orders' \in Index /\ Agree(asks', bids, orders', priority + 1) /\ Newest(orders', id)
  BY <1>1, <1>2, <1>3, <1>4, AddedAgrees, AgreeEitherWay DEF BookTypes, BookAgrees
<1>8. BookTypes'
  BY <1>1, <1>2, <1>3, <1>5, <1>6, <1>7 DEF BookTypes
<1>9. BookAgrees'
  BY <1>2, <1>6, <1>7, AgreeEitherWay DEF BookAgrees
<1>10. ASSUME NEW L \in Levels, NEW N \in Levels, Pushed(N, L, level, o),
             \A p \in DOMAIN L : L[p] # <<>>
      PROVE  \A p \in DOMAIN N : N[p] # <<>>
  <2>1. /\ \A p \in DOMAIN L : Len(L[p]) \in Nat /\ (L[p] = <<>> <=> Len(L[p]) = 0)
        /\ \A p \in DOMAIN N : Len(N[p]) \in Nat /\ (N[p] = <<>> <=> Len(N[p]) = 0)
    BY LevelsAre
  <2>2. Len(N[level]) > 0
    BY <1>10, <2>1 DEF Pushed
  <2> QED
    BY <1>10, <2>1, <2>2 DEF Pushed
<1>11. EmptyIsBest'
  <2>1. (\A p \in DOMAIN bids : bids[p] # <<>>) /\ (\A p \in DOMAIN asks : asks[p] # <<>>)
    BY <1>2, <1>3 DEF EmptyIsBest
  <2>2. (\A p \in DOMAIN bids' : bids'[p] # <<>>) /\ (\A p \in DOMAIN asks' : asks'[p] # <<>>)
    BY <1>2, <1>3, <1>5, <1>10, <2>1 DEF BookTypes
  <2> QED
    BY <2>2 DEF EmptyIsBest
<1>12. Uncrossed'
  BY <1>2 DEF Uncrossed
<1>13. OnlyIncomingCrosses'
  <2>1. \A b \in DOMAIN bids, a \in DOMAIN asks : ~(b >= a)
    <3>1. \A b \in DOMAIN bids, a \in DOMAIN asks : b < a /\ b \in Int /\ a \in Int
      BY <1>2, <1>3, LevelsAre DEF Uncrossed, BookTypes
    <3> QED
      BY <3>1
  <2>2. Newest(orders', id)
    BY <1>6, <1>7
  <2>3. ASSUME NEW b \in DOMAIN bids', NEW a \in DOMAIN asks', b >= a
        PROVE  IF r.isBuy THEN HoldsOnly(bids', b, r) ELSE HoldsOnly(asks', a, r)
    <3>1. CASE isBuy
      <4>1. b = level /\ b \notin DOMAIN bids
        BY <1>2, <1>5, <2>1, <2>3, <3>1 DEF Pushed
      <4>2. Len(bids'[b]) = 1 /\ bids'[b][1] = o
        BY <1>5, <3>1, <4>1 DEF Pushed
      <4>3. \A i \in 1 .. Len(bids'[b]) : bids'[b][i].id = id
        BY <1>1, <4>2
      <4> QED
        BY <1>1, <3>1, <4>1, <4>3 DEF HoldsOnly
    <3>2. CASE ~isBuy
      <4>1. a = level /\ a \notin DOMAIN asks
        BY <1>2, <1>5, <2>1, <2>3, <3>2 DEF Pushed
      <4>2. Len(asks'[a]) = 1 /\ asks'[a][1] = o
        BY <1>5, <3>2, <4>1 DEF Pushed
      <4>3. \A i \in 1 .. Len(asks'[a]) : asks'[a][i].id = id
        BY <1>1, <4>2
      <4> QED
        BY <1>1, <3>2, <4>1, <4>3 DEF HoldsOnly
    <3> QED
      BY <3>1, <3>2
  <2>4. /\ incoming' = {r} /\ Newest(orders', r.id)
        /\ \A b \in DOMAIN bids', a \in DOMAIN asks' : b >= a =>
             IF r.isBuy THEN HoldsOnly(bids', b, r) ELSE HoldsOnly(asks', a, r)
    BY <1>1, <1>2, <2>2, <2>3
  <2> QED
    BY <1>1, <2>4 DEF OnlyIncomingCrosses, IncomingCrosses
<1>14. AggressorIsIncoming'
  <2>1. DOMAIN trades' = {}
    BY <1>2
  <2> QED
    BY <2>1 DEF AggressorIsIncoming
<1> QED
  BY <1>8, <1>9, <1>11, <1>12, <1>13, <1>14 DEF BookIInv

\* AddOrder with an id in use changes no order.
LEMMA AddDuplicateKeeps ==
    ASSUME BookIInv, NEW id \in Ids, AddDuplicate(id)
    PROVE  BookIInv'
<1>1. /\ bids' = bids /\ asks' = asks /\ orders' = orders /\ priority' = priority
      /\ matching' = matching /\ ~matching /\ trades' = <<>> /\ incoming' = {}
  BY DEF AddDuplicate, book
<1>2. BookTypes /\ BookAgrees /\ EmptyIsBest /\ Uncrossed
  BY DEF BookIInv
<1>3. BookTypes'
  BY <1>1, <1>2 DEF BookTypes
<1>4. BookAgrees' /\ EmptyIsBest' /\ Uncrossed' /\ OnlyIncomingCrosses'
  BY <1>1, <1>2 DEF BookAgrees, EmptyIsBest, Uncrossed, OnlyIncomingCrosses, Crossed, BestBid, BestAsk
<1>5. AggressorIsIncoming'
  <2>1. DOMAIN trades' = {}
    BY <1>1
  <2> QED
    BY <2>1 DEF AggressorIsIncoming
<1> QED
  BY <1>3, <1>4, <1>5 DEF BookIInv

\* CancelOrder sets a flag, and leaves the order where it rests.
LEMMA CancelOrderKeeps ==
    ASSUME BookIInv, NEW id \in Ids, CancelOrder(id)
    PROVE  BookIInv'
<1>1. /\ bids' = bids /\ asks' = asks /\ priority' = priority
      /\ matching' = matching /\ ~matching /\ trades' = trades /\ incoming' = incoming
      /\ id \in DOMAIN orders /\ orders' = [orders EXCEPT ![id].canceled = TRUE]
  BY DEF CancelOrder, book
<1>2. BookTypes /\ BookAgrees /\ EmptyIsBest /\ Uncrossed /\ AggressorIsIncoming
  BY DEF BookIInv
<1>3. orders \in [DOMAIN orders -> Metadata] /\ DOMAIN orders \in SUBSET Ids
  BY <1>2, IndexIs DEF BookTypes, Index
<1>4. [orders[id] EXCEPT !.canceled = TRUE] \in Metadata
  BY <1>1, <1>3 DEF Metadata
<1>5. /\ orders' \in [DOMAIN orders -> Metadata]
      /\ \A x \in DOMAIN orders : x # id => orders'[x] = orders[x]
      /\ orders'[id] = [orders[id] EXCEPT !.canceled = TRUE]
  BY <1>1, <1>3, <1>4
<1>6. /\ orders'[id].level = orders[id].level /\ orders'[id].priority = orders[id].priority
      /\ orders'[id].canceled
  BY <1>1, <1>3, <1>5 DEF Metadata
<1>7. BookTypes'
  BY <1>1, <1>2, <1>3, <1>5 DEF BookTypes, Index
<1>8. \A x \in DOMAIN orders : /\ x \in DOMAIN orders' /\ orders'[x].level = orders[x].level
                               /\ orders'[x].priority = orders[x].priority
  BY <1>5, <1>6
<1>9. Placed(bids, orders') /\ Queued(bids, orders') /\ Placed(asks, orders') /\ Queued(asks, orders')
  BY <1>2, <1>8, EntryAgrees DEF BookTypes, BookAgrees, Agree
<1>10. \A x \in DOMAIN orders' : orders'[x].canceled \/ Rests(bids, x) \/ Rests(asks, x)
  BY <1>2, <1>5, <1>6 DEF BookAgrees, Agree
<1>11. \A x \in DOMAIN orders' : orders'[x].priority < priority
  BY <1>2, <1>5, <1>8 DEF BookAgrees, Agree
<1>12. BookAgrees'
  BY <1>1, <1>2, <1>9, <1>10, <1>11 DEF BookAgrees, Agree
<1>13. EmptyIsBest' /\ Uncrossed' /\ OnlyIncomingCrosses'
  BY <1>1, <1>2 DEF EmptyIsBest, Uncrossed, OnlyIncomingCrosses, Crossed, BestBid, BestAsk
<1>14. AggressorIsIncoming'
  BY <1>1, <1>2 DEF AggressorIsIncoming
<1> QED
  BY <1>7, <1>12, <1>13, <1>14 DEF BookIInv

-----------------------------------------------------------------------------
(* match().                                                                *)

\* The fronts of the best levels while both hold orders.
LEMMA FrontsAre ==
    ASSUME BookIInv, BothSides
    PROVE  /\ BestBid \in DOMAIN bids /\ BestAsk \in DOMAIN asks
           /\ BestBid \in Int /\ BestAsk \in Int /\ BestBid >= BestAsk
           /\ bids[BestBid] # <<>> /\ Bid = bids[BestBid][1] /\ 1 \in 1 .. Len(bids[BestBid])
           /\ asks[BestAsk] # <<>> /\ Ask = asks[BestAsk][1] /\ 1 \in 1 .. Len(asks[BestAsk])
           /\ Bid.quantity \in Nat /\ Ask.quantity \in Nat
           /\ Bid.id \in Ids /\ Ask.id \in Ids
           /\ Bid.id \in DOMAIN orders /\ orders[Bid.id].level = BestBid
           /\ Ask.id \in DOMAIN orders /\ orders[Ask.id].level = BestAsk
           /\ Bid.id # Ask.id /\ Rests(bids, Bid.id) /\ Rests(asks, Ask.id)
<1>1. bids \in Levels /\ asks \in Levels
  BY DEF BookIInv, BookTypes
<1>2. /\ DOMAIN bids # {} /\ DOMAIN asks # {} /\ BestBid >= BestAsk
      /\ bids[BestBid] # <<>> /\ asks[BestAsk] # <<>>
  BY DEF BothSides, Crossed
<1>3. BestBid \in DOMAIN bids /\ BestAsk \in DOMAIN asks
  BY <1>1, <1>2, BestIsBest
<1>4. BestBid \in Int /\ BestAsk \in Int
  BY <1>1, <1>3, LevelsAre
<1>5. \A L \in Levels : \A p \in DOMAIN L : L[p] # <<>> =>
        /\ Head(L[p]) = L[p][1] /\ 1 \in 1 .. Len(L[p])
        /\ L[p][1].id \in Ids /\ L[p][1].quantity \in Nat
  <2> SUFFICES ASSUME NEW L \in Levels, NEW p \in DOMAIN L, L[p] # <<>>
               PROVE  /\ Head(L[p]) = L[p][1] /\ 1 \in 1 .. Len(L[p])
                      /\ L[p][1].id \in Ids /\ L[p][1].quantity \in Nat
    OBVIOUS
  <2>1. L[p] \in Seq(Order)
    BY LevelsAre
  <2>2. Head(L[p]) = L[p][1] /\ 1 \in 1 .. Len(L[p])
    BY <2>1
  <2> QED
    BY <2>2, LevelsAre
<1>6. /\ Bid = bids[BestBid][1] /\ 1 \in 1 .. Len(bids[BestBid])
      /\ Bid.id \in Ids /\ Bid.quantity \in Nat
  BY <1>1, <1>2, <1>3, <1>5 DEF Bid
<1>7. /\ Ask = asks[BestAsk][1] /\ 1 \in 1 .. Len(asks[BestAsk])
      /\ Ask.id \in Ids /\ Ask.quantity \in Nat
  BY <1>1, <1>2, <1>3, <1>5 DEF Ask
<1>8. Placed(bids, orders) /\ Placed(asks, orders) /\ OneSide(bids, asks)
  BY DEF BookIInv, BookAgrees, Agree
<1>9. /\ Bid.id \in DOMAIN orders /\ orders[Bid.id].level = BestBid
      /\ Ask.id \in DOMAIN orders /\ orders[Ask.id].level = BestAsk
  BY <1>3, <1>6, <1>7, <1>8 DEF Placed
<1>10. Rests(bids, Bid.id) /\ Rests(asks, Ask.id)
  BY <1>3, <1>6, <1>7 DEF Rests
<1>11. Bid.id # Ask.id
  BY <1>6, <1>8, <1>10 DEF OneSide
<1> QED
  BY <1>2, <1>3, <1>4, <1>6, <1>7, <1>9, <1>10, <1>11

\* An iteration of the inner loop keeps the prices, and shortens the best levels.
LEMMA InnerKeeps ==
    ASSUME BookIInv, BothSides,
           matching' = matching, incoming' = incoming,
           bids' \in Levels, DOMAIN bids' = DOMAIN bids, Shrunk(bids', bids),
           \A p \in DOMAIN bids : p # BestBid => bids'[p] = bids[p],
           asks' \in Levels, DOMAIN asks' = DOMAIN asks, Shrunk(asks', asks),
           \A p \in DOMAIN asks : p # BestAsk => asks'[p] = asks[p],
           DOMAIN orders' \subseteq DOMAIN orders,
           \A id \in DOMAIN orders' : orders'[id] = orders[id]
    PROVE  EmptyIsBest' /\ Uncrossed' /\ OnlyIncomingCrosses'
<1>1. matching /\ matching'
  BY DEF BothSides
<1>2. BestBid' = BestBid /\ BestAsk' = BestAsk
  BY DEF BestBid, BestAsk
<1>3. Crossed /\ Crossed'
  BY <1>2 DEF BothSides, Crossed
<1>4. EmptyIsBest'
  BY <1>1, <1>2, <1>3 DEF EmptyIsBest, BookIInv
<1>5. Uncrossed'
  BY <1>1 DEF Uncrossed
<1>6. ASSUME NEW L \in Levels, NEW N \in Levels, Shrunk(N, L),
             NEW p \in DOMAIN N, NEW r, HoldsOnly(L, p, r)
      PROVE  HoldsOnly(N, p, r)
  <2>1. PICK k \in Nat : /\ Len(N[p]) + k = Len(L[p])
                         /\ \A i \in 1 .. Len(N[p]) : N[p][i].id = L[p][i + k].id
    BY <1>6 DEF Shrunk
  <2>2. Len(N[p]) \in Nat
    BY LevelsAre
  <2>3. \A i \in 1 .. Len(N[p]) : i + k \in 1 .. Len(L[p])
    BY <2>1, <2>2
  <2> QED
    BY <1>6, <2>1, <2>3 DEF HoldsOnly
<1>7. PICK r \in Request : IncomingCrosses(r)
  BY <1>1 DEF BookIInv, OnlyIncomingCrosses
<1>8. r.id \in DOMAIN orders' => Newest(orders', r.id)
  BY <1>7 DEF IncomingCrosses, Newest
<1>9. ASSUME NEW b \in DOMAIN bids', NEW a \in DOMAIN asks', b >= a
      PROVE  IF r.isBuy THEN HoldsOnly(bids', b, r) ELSE HoldsOnly(asks', a, r)
  <2>1. IF r.isBuy THEN HoldsOnly(bids, b, r) ELSE HoldsOnly(asks, a, r)
    BY <1>7, <1>9 DEF IncomingCrosses
  <2>2. bids \in Levels /\ asks \in Levels
    BY DEF BookIInv, BookTypes
  <2> QED
    BY <1>6, <2>1, <2>2
<1>10. OnlyIncomingCrosses'
  BY <1>7, <1>8, <1>9 DEF OnlyIncomingCrosses, IncomingCrosses
<1> QED
  BY <1>4, <1>5, <1>10

\* A canceled order may leave the front of its level: its entry stays.
LEMMA DropAgrees ==
    ASSUME NEW L \in Levels, NEW M \in Levels, NEW O \in Index, NEW n, Agree(L, M, O, n),
           NEW p \in DOMAIN L, L[p] # <<>>, O[L[p][1].id].canceled, NEW N, N = PopFront(L, p)
    PROVE  Agree(N, M, O, n)
<1>1. /\ Placed(L, O) /\ Placed(M, O) /\ Queued(L, O) /\ Queued(M, O) /\ OneSide(L, M)
      /\ \A id \in DOMAIN O : O[id].canceled \/ Rests(L, id) \/ Rests(M, id)
      /\ \A id \in DOMAIN O : O[id].priority < n
  BY DEF Agree
<1>2. /\ N \in Levels /\ DOMAIN N = DOMAIN L /\ Shrunk(N, L)
      /\ \A q \in DOMAIN L : q # p => N[q] = L[q]
      /\ Len(N[p]) = Len(L[p]) - 1 /\ \A i \in 1 .. Len(N[p]) : N[p][i] = L[p][i + 1]
  BY PopFrontIs
<1>3. \A q \in DOMAIN N : \A i \in 1 .. Len(N[q]) : N[q][i].id \in DOMAIN O
  <2> SUFFICES ASSUME NEW q \in DOMAIN N, NEW i \in 1 .. Len(N[q]) PROVE N[q][i].id \in DOMAIN O
    OBVIOUS
  <2>1. Rests(N, N[q][i].id)
    BY DEF Rests
  <2>2. Rests(L, N[q][i].id)
    BY <1>2, <2>1, ShrinkRests
  <2> QED
    BY <1>1, <2>2 DEF Rests, Placed
<1>4. Placed(N, O) /\ Queued(N, O)
  BY <1>1, <1>2, <1>3, ShrinkKeeps
<1>5. OneSide(N, M)
  BY <1>1, <1>2, ShrinkRests DEF OneSide
<1>6. \A id : Rests(L, id) /\ id # L[p][1].id => Rests(N, id)
  BY <1>1, <1>2, FrontIsGone
<1>7. \A id \in DOMAIN O : O[id].canceled \/ Rests(N, id) \/ Rests(M, id)
  BY <1>1, <1>6
<1> QED
  BY <1>1, <1>4, <1>5, <1>7 DEF Agree

\* The branch of match() for a canceled bid.
LEMMA DropCanceledBidKeeps ==
    ASSUME BookIInv, DropCanceledBid
    PROVE  BookIInv'
<1>1. /\ BothSides /\ orders[Bid.id].canceled /\ bids' = PopFront(bids, BestBid)
      /\ asks' = asks /\ orders' = orders /\ priority' = priority
      /\ matching' = matching /\ trades' = trades /\ incoming' = incoming
  BY DEF DropCanceledBid
<1>2. BookTypes /\ BookAgrees /\ AggressorIsIncoming
  BY DEF BookIInv
<1>3. BestBid \in DOMAIN bids /\ bids[BestBid] # <<>> /\ Bid = bids[BestBid][1]
  BY <1>1, FrontsAre
<1>4. /\ bids' \in Levels /\ DOMAIN bids' = DOMAIN bids /\ Shrunk(bids', bids)
      /\ \A p \in DOMAIN bids : p # BestBid => bids'[p] = bids[p]
  BY <1>1, <1>2, <1>3, PopFrontIs DEF BookTypes
<1>5. BookTypes'
  BY <1>1, <1>2, <1>4 DEF BookTypes
<1>6. BookAgrees'
  <2>1. Agree(bids', asks, orders, priority)
    BY <1>1, <1>2, <1>3, DropAgrees DEF BookTypes, BookAgrees
  <2> QED
    BY <1>1, <2>1 DEF BookAgrees
<1>7. Shrunk(asks, asks)
  BY <1>2, SameShrunk DEF BookTypes
<1>8. EmptyIsBest' /\ Uncrossed' /\ OnlyIncomingCrosses'
  BY <1>1, <1>2, <1>4, <1>5, <1>7, InnerKeeps DEF BookTypes
<1>9. AggressorIsIncoming'
  BY <1>1, <1>2 DEF AggressorIsIncoming
<1> QED
  BY <1>5, <1>6, <1>8, <1>9 DEF BookIInv

\* The branch of match() for a canceled ask.
LEMMA DropCanceledAskKeeps ==
    ASSUME BookIInv, DropCanceledAsk
    PROVE  BookIInv'
<1>1. /\ BothSides /\ orders[Ask.id].canceled /\ asks' = PopFront(asks, BestAsk)
      /\ bids' = bids /\ orders' = orders /\ priority' = priority
      /\ matching' = matching /\ trades' = trades /\ incoming' = incoming
  BY DEF DropCanceledAsk
<1>2. BookTypes /\ BookAgrees /\ AggressorIsIncoming
  BY DEF BookIInv
<1>3. BestAsk \in DOMAIN asks /\ asks[BestAsk] # <<>> /\ Ask = asks[BestAsk][1]
  BY <1>1, FrontsAre
<1>4. /\ asks' \in Levels /\ DOMAIN asks' = DOMAIN asks /\ Shrunk(asks', asks)
      /\ \A p \in DOMAIN asks : p # BestAsk => asks'[p] = asks[p]
  BY <1>1, <1>2, <1>3, PopFrontIs DEF BookTypes
<1>5. BookTypes'
  BY <1>1, <1>2, <1>4 DEF BookTypes
<1>6. BookAgrees'
  <2>1. Agree(asks, bids, orders, priority)
    BY <1>2, AgreeEitherWay DEF BookAgrees
  <2>2. Agree(asks', bids, orders, priority)
    BY <1>1, <1>2, <1>3, <2>1, DropAgrees DEF BookTypes
  <2> QED
    BY <1>1, <2>2, AgreeEitherWay DEF BookAgrees
<1>7. Shrunk(bids, bids)
  BY <1>2, SameShrunk DEF BookTypes
<1>8. EmptyIsBest' /\ Uncrossed' /\ OnlyIncomingCrosses'
  BY <1>1, <1>2, <1>4, <1>5, <1>7, InnerKeeps DEF BookTypes
<1>9. AggressorIsIncoming'
  BY <1>1, <1>2 DEF AggressorIsIncoming
<1> QED
  BY <1>5, <1>6, <1>8, <1>9 DEF BookIInv

\* orders_.erase takes entries out and leaves the others.
LEMMA EraseIndexIs ==
    ASSUME NEW O \in Index, NEW I, NEW M, M = Erase(O, I)
    PROVE  M \in Index /\ Without(M, O, I)
<1>1. M = [id \in DOMAIN O \ I |-> O[id]]
  BY DEF Erase, Restrict
<1>2. M \in [DOMAIN O \ I -> Metadata] /\ DOMAIN O \ I \in SUBSET Ids
  BY <1>1, IndexIs
<1> QED
  BY <1>1, <1>2 DEF Index, Without

\* Filling takes the front order out when nothing is left of it, and no other.
LEMMA FilledRests ==
    ASSUME NEW L \in Levels, NEW O \in Index, Placed(L, O), Queued(L, O),
           NEW p \in DOMAIN L, L[p] # <<>>,
           NEW size \in Nat, size <= L[p][1].quantity, NEW N, N = FillFront(L, p, size), NEW id
    PROVE  Rests(N, id) <=> Rests(L, id) /\ ~(id = L[p][1].id /\ L[p][1].quantity = size)
<1>1. /\ N \in Levels /\ DOMAIN N = DOMAIN L /\ Shrunk(N, L)
      /\ \A q \in DOMAIN L : q # p => N[q] = L[q]
      /\ L[p][1].quantity = size => /\ Len(N[p]) = Len(L[p]) - 1
                                    /\ \A i \in 1 .. Len(N[p]) : N[p][i] = L[p][i + 1]
      /\ L[p][1].quantity # size => /\ Len(N[p]) = Len(L[p])
                                    /\ \A i \in 1 .. Len(N[p]) : N[p][i].id = L[p][i].id
  BY FillFrontIs
<1>2. Rests(N, id) => Rests(L, id)
  BY <1>1, ShrinkRests
<1>3. CASE L[p][1].quantity = size
  <2>1. /\ ~Rests(N, L[p][1].id)
        /\ \A x : Rests(L, x) /\ x # L[p][1].id => Rests(N, x)
    BY <1>1, <1>3, FrontIsGone
  <2> QED
    BY <1>2, <1>3, <2>1
<1>4. CASE L[p][1].quantity # size
  <2>1. Rests(L, id) => Rests(N, id)
    BY <1>1, <1>4, SameRest
  <2> QED
    BY <1>2, <1>4, <2>1
<1> QED
  BY <1>3, <1>4

\* Orders that rest keep their place in an index that still has them.
LEMMA FilledAgrees ==
    ASSUME NEW L \in Levels, NEW N \in Levels, NEW O \in Index, NEW M, Shrunk(N, L),
           Placed(L, O), Queued(L, O),
           \A id \in DOMAIN M : M[id] = O[id],
           \A id \in DOMAIN O : Rests(N, id) => id \in DOMAIN M
    PROVE  Placed(N, M) /\ Queued(N, M)
<1>1. ASSUME NEW p \in DOMAIN N, NEW i \in 1 .. Len(N[p])
      PROVE  N[p][i].id \in DOMAIN M /\ M[N[p][i].id] = O[N[p][i].id]
  <2>1. Rests(N, N[p][i].id)
    BY DEF Rests
  <2>2. Rests(L, N[p][i].id)
    BY <2>1, ShrinkRests
  <2>3. N[p][i].id \in DOMAIN O
    BY <2>2 DEF Rests, Placed
  <2> QED
    BY <2>1, <2>3
<1> QED
  BY <1>1, ShrinkKeeps

\* The branch of match() that trades: one of the two orders is the incoming one.
LEMMA FillKeeps ==
    ASSUME BookIInv, Fill
    PROVE  BookIInv'
<1> DEFINE trade == [existing |-> Existing, aggressor |-> Aggressor,
                     aggressorIsBuy |-> Aggressor = Bid.id,
                     level |-> orders[Existing].level, size |-> FillSize]
<1>1. /\ BothSides
      /\ bids' = FillFront(bids, BestBid, FillSize) /\ asks' = FillFront(asks, BestAsk, FillSize)
      /\ orders' = Erase(orders, Gone) /\ trades' = Append(trades, trade)
      /\ priority' = priority /\ matching' = matching /\ incoming' = incoming
  BY DEF Fill
<1>2. BookTypes /\ BookAgrees /\ AggressorIsIncoming
  BY DEF BookIInv
<1>3. /\ BestBid \in DOMAIN bids /\ BestAsk \in DOMAIN asks
      /\ BestBid \in Int /\ BestAsk \in Int /\ BestBid >= BestAsk
      /\ bids[BestBid] # <<>> /\ Bid = bids[BestBid][1] /\ 1 \in 1 .. Len(bids[BestBid])
      /\ asks[BestAsk] # <<>> /\ Ask = asks[BestAsk][1] /\ 1 \in 1 .. Len(asks[BestAsk])
      /\ Bid.quantity \in Nat /\ Ask.quantity \in Nat
      /\ Bid.id \in Ids /\ Ask.id \in Ids
      /\ Bid.id \in DOMAIN orders /\ orders[Bid.id].level = BestBid
      /\ Ask.id \in DOMAIN orders /\ orders[Ask.id].level = BestAsk
      /\ Bid.id # Ask.id /\ Rests(bids, Bid.id) /\ Rests(asks, Ask.id)
  BY <1>1, FrontsAre
<1>4. FillSize \in Nat /\ FillSize <= Bid.quantity /\ FillSize <= Ask.quantity
  BY <1>3 DEF FillSize
<1>5. bids \in Levels /\ asks \in Levels /\ orders \in Index
  BY <1>2 DEF BookTypes
<1>6. /\ Placed(bids, orders) /\ Placed(asks, orders)
      /\ Queued(bids, orders) /\ Queued(asks, orders) /\ OneSide(bids, asks)
      /\ \A id \in DOMAIN orders : orders[id].canceled \/ Rests(bids, id) \/ Rests(asks, id)
      /\ \A id \in DOMAIN orders : orders[id].priority < priority
  BY <1>2 DEF BookAgrees, Agree
<1>7. /\ bids' \in Levels /\ DOMAIN bids' = DOMAIN bids /\ Shrunk(bids', bids)
      /\ \A p \in DOMAIN bids : p # BestBid => bids'[p] = bids[p]
  BY <1>1, <1>3, <1>4, <1>5, FillFrontIs
<1>8. /\ asks' \in Levels /\ DOMAIN asks' = DOMAIN asks /\ Shrunk(asks', asks)
      /\ \A p \in DOMAIN asks : p # BestAsk => asks'[p] = asks[p]
  BY <1>1, <1>3, <1>4, <1>5, FillFrontIs
<1>9. /\ orders' \in Index /\ DOMAIN orders' = DOMAIN orders \ Gone
      /\ \A id \in DOMAIN orders' : orders'[id] = orders[id]
  <2>1. orders' \in Index /\ Without(orders', orders, Gone)
    BY <1>1, <1>5, EraseIndexIs
  <2> QED
    BY <2>1 DEF Without
<1>10. \A id : id \in Gone <=> (id = Bid.id /\ Bid.quantity = FillSize)
                               \/ (id = Ask.id /\ Ask.quantity = FillSize)
  BY DEF Gone
<1>11. \A id : Rests(bids', id) <=> Rests(bids, id) /\ ~(id = Bid.id /\ Bid.quantity = FillSize)
  BY <1>1, <1>3, <1>4, <1>5, <1>6, FilledRests
<1>12. \A id : Rests(asks', id) <=> Rests(asks, id) /\ ~(id = Ask.id /\ Ask.quantity = FillSize)
  BY <1>1, <1>3, <1>4, <1>5, <1>6, FilledRests
<1>13. ~Rests(bids, Ask.id) /\ ~Rests(asks, Bid.id)
  BY <1>3, <1>6 DEF OneSide
<1>14. /\ Placed(bids', orders') /\ Queued(bids', orders')
       /\ Placed(asks', orders') /\ Queued(asks', orders')
  <2>1. \A id \in DOMAIN orders : Rests(bids', id) \/ Rests(asks', id) => id \in DOMAIN orders'
    BY <1>9, <1>10, <1>11, <1>12, <1>13
  <2> QED
    BY <1>5, <1>6, <1>7, <1>8, <1>9, <2>1, FilledAgrees
<1>15. OneSide(bids', asks')
  BY <1>6, <1>11, <1>12 DEF OneSide
<1>16. /\ \A id \in DOMAIN orders' : orders'[id].canceled \/ Rests(bids', id) \/ Rests(asks', id)
       /\ \A id \in DOMAIN orders' : orders'[id].priority < priority
  BY <1>6, <1>9, <1>10, <1>11, <1>12
<1>17. BookAgrees'
  BY <1>1, <1>14, <1>15, <1>16 DEF BookAgrees, Agree
<1>18. /\ Existing \in {Bid.id, Ask.id} /\ Aggressor \in {Bid.id, Ask.id}
       /\ orders[Existing].level \in Prices
  BY <1>3, <1>5, IndexIs DEF Existing, Aggressor
<1>19. trade \in Trade /\ trade.existing = Existing /\ trade.aggressor = Aggressor
       /\ trade.level = orders[Existing].level /\ trade.aggressorIsBuy = (Aggressor = Bid.id)
  BY <1>3, <1>4, <1>18 DEF Trade
<1> HIDE DEF trade
<1>20. BookTypes'
  BY <1>1, <1>2, <1>7, <1>8, <1>9, <1>19 DEF BookTypes
<1>21. EmptyIsBest' /\ Uncrossed' /\ OnlyIncomingCrosses'
  BY <1>1, <1>7, <1>8, <1>9, InnerKeeps
<1>22. PICK r \in Request : IncomingCrosses(r)
  BY <1>1 DEF BookIInv, OnlyIncomingCrosses, BothSides
<1>23. orders[Bid.id].priority \in Nat /\ orders[Ask.id].priority \in Nat
  BY <1>3, <1>5, IndexIs
<1>24. /\ Aggressor = r.id /\ Existing # r.id /\ (Aggressor = Bid.id) = r.isBuy
       /\ IF r.isBuy THEN orders[Existing].level <= r.level ELSE orders[Existing].level >= r.level
  <2>1. CASE r.isBuy
    <3>1. HoldsOnly(bids, BestBid, r)
      BY <1>3, <1>22, <2>1 DEF IncomingCrosses
    <3>2. Bid.id = r.id /\ r.level = BestBid
      BY <1>3, <3>1 DEF HoldsOnly
    <3>3. orders[Ask.id].priority < orders[Bid.id].priority
      BY <1>3, <1>22, <3>2 DEF IncomingCrosses, Newest
    <3>4. Aggressor = Bid.id /\ Existing = Ask.id
      BY <1>23, <3>3 DEF Aggressor, BidIsAggressor, Existing
    <3> QED
      BY <1>3, <2>1, <3>2, <3>4
  <2>2. CASE ~r.isBuy
    <3>1. HoldsOnly(asks, BestAsk, r)
      BY <1>3, <1>22, <2>2 DEF IncomingCrosses
    <3>2. Ask.id = r.id /\ r.level = BestAsk
      BY <1>3, <3>1 DEF HoldsOnly
    <3>3. orders[Bid.id].priority < orders[Ask.id].priority
      BY <1>3, <1>22, <3>2 DEF IncomingCrosses, Newest
    <3>4. Aggressor = Ask.id /\ Existing = Bid.id
      BY <1>23, <3>3 DEF Aggressor, BidIsAggressor, Existing
    <3>5. (Aggressor = Bid.id) = r.isBuy
      BY <1>3, <2>2, <3>4 DEF Request
    <3> QED
      BY <1>3, <2>2, <3>2, <3>4, <3>5
  <2> QED
    BY <2>1, <2>2
<1>25. AggressorIsIncoming'
  <2>1. incoming' = {r}
    BY <1>1, <1>22 DEF IncomingCrosses
  <2>2. ASSUME NEW i \in DOMAIN trades', NEW q \in incoming'
        PROVE  /\ trades'[i].aggressor = q.id /\ trades'[i].existing # q.id
               /\ trades'[i].aggressorIsBuy = q.isBuy
               /\ IF q.isBuy THEN trades'[i].level <= q.level ELSE trades'[i].level >= q.level
    <3>1. (i \in DOMAIN trades /\ trades'[i] = trades[i]) \/ trades'[i] = trade
      BY <1>1, <1>2, <1>19 DEF BookTypes
    <3>2. CASE i \in DOMAIN trades /\ trades'[i] = trades[i]
      BY <1>1, <1>2, <3>2 DEF AggressorIsIncoming
    <3>3. CASE trades'[i] = trade
      BY <1>19, <1>24, <2>1, <3>3
    <3> QED
      BY <3>1, <3>2, <3>3
  <2> QED
    BY <2>1, <2>2 DEF AggressorIsIncoming
<1> QED
  BY <1>17, <1>20, <1>21, <1>25 DEF BookIInv

\* The end of an iteration of the outer loop takes out the levels it emptied.
LEMMA EraseLevelsKeeps ==
    ASSUME BookIInv, EraseLevels
    PROVE  BookIInv'
<1> DEFINE B == {p \in {BestBid} : bids[p] = <<>>}
           A == {p \in {BestAsk} : asks[p] = <<>>}
<1>1. /\ matching /\ Crossed /\ bids' = Erase(bids, B) /\ asks' = Erase(asks, A)
      /\ orders' = orders /\ priority' = priority
      /\ matching' = matching /\ trades' = trades /\ incoming' = incoming
  BY DEF EraseLevels
<1>2. BookTypes /\ BookAgrees /\ EmptyIsBest /\ OnlyIncomingCrosses /\ AggressorIsIncoming
  BY DEF BookIInv
<1>3. bids \in Levels /\ asks \in Levels
  BY <1>2 DEF BookTypes
<1>4. /\ \A p \in DOMAIN bids : p \in B <=> bids[p] = <<>>
      /\ \A p \in DOMAIN asks : p \in A <=> asks[p] = <<>>
  BY <1>2 DEF EmptyIsBest
<1> HIDE DEF B, A
<1>5. /\ bids' \in Levels /\ DOMAIN bids' = DOMAIN bids \ B /\ Shrunk(bids', bids)
      /\ \A p \in DOMAIN bids' : bids'[p] = bids[p]
  <2>1. bids' \in Levels /\ Shrunk(bids', bids) /\ Without(bids', bids, B)
    BY <1>1, <1>3, EraseIs
  <2> QED
    BY <2>1 DEF Without
<1>6. /\ asks' \in Levels /\ DOMAIN asks' = DOMAIN asks \ A /\ Shrunk(asks', asks)
      /\ \A p \in DOMAIN asks' : asks'[p] = asks[p]
  <2>1. asks' \in Levels /\ Shrunk(asks', asks) /\ Without(asks', asks, A)
    BY <1>1, <1>3, EraseIs
  <2> QED
    BY <2>1 DEF Without
<1>7. BookTypes'
  BY <1>1, <1>2, <1>5, <1>6 DEF BookTypes
<1>8. ASSUME NEW L \in Levels, NEW N \in Levels, NEW P, DOMAIN N = DOMAIN L \ P,
             \A p \in DOMAIN N : N[p] = L[p], \A p \in DOMAIN L : p \in P <=> L[p] = <<>>, NEW id
      PROVE  Rests(N, id) <=> Rests(L, id)
  <2>1. \A p \in DOMAIN L : \A i \in 1 .. Len(L[p]) : p \in DOMAIN N
    BY <1>8, LevelsAre
  <2> QED
    BY <1>8, <2>1 DEF Rests
<1>9. \A id : (Rests(bids', id) <=> Rests(bids, id)) /\ (Rests(asks', id) <=> Rests(asks, id))
  BY <1>3, <1>4, <1>5, <1>6, <1>8
<1>10. /\ Placed(bids, orders) /\ Placed(asks, orders)
       /\ Queued(bids, orders) /\ Queued(asks, orders) /\ OneSide(bids, asks)
       /\ \A id \in DOMAIN orders : orders[id].canceled \/ Rests(bids, id) \/ Rests(asks, id)
       /\ \A id \in DOMAIN orders : orders[id].priority < priority
  BY <1>2 DEF BookAgrees, Agree
<1>11. BookAgrees'
  <2>1. Placed(bids', orders) /\ Queued(bids', orders)
    BY <1>5, <1>10 DEF Placed, Queued
  <2>2. Placed(asks', orders) /\ Queued(asks', orders)
    BY <1>6, <1>10 DEF Placed, Queued
  <2>3. OneSide(bids', asks')
    BY <1>9, <1>10 DEF OneSide
  <2>4. \A id \in DOMAIN orders : orders[id].canceled \/ Rests(bids', id) \/ Rests(asks', id)
    BY <1>9, <1>10
  <2> QED
    BY <1>1, <1>10, <2>1, <2>2, <2>3, <2>4 DEF BookAgrees, Agree
<1>12. EmptyIsBest'
  BY <1>4, <1>5, <1>6 DEF EmptyIsBest
<1>13. Uncrossed'
  BY <1>1 DEF Uncrossed
<1>14. OnlyIncomingCrosses'
  <2>1. PICK r \in Request : IncomingCrosses(r)
    BY <1>1, <1>2 DEF OnlyIncomingCrosses
  <2>2. ASSUME NEW b \in DOMAIN bids', NEW a \in DOMAIN asks', b >= a
        PROVE  IF r.isBuy THEN HoldsOnly(bids', b, r) ELSE HoldsOnly(asks', a, r)
    BY <1>5, <1>6, <2>1, <2>2 DEF IncomingCrosses, HoldsOnly
  <2> QED
    BY <1>1, <2>1, <2>2 DEF OnlyIncomingCrosses, IncomingCrosses
<1>15. AggressorIsIncoming'
  BY <1>1, <1>2 DEF AggressorIsIncoming
<1> QED
  BY <1>7, <1>11, <1>12, <1>13, <1>14, <1>15 DEF BookIInv

\* A book whose best prices do not overlap does not overlap at all.
LEMMA NotCrossedIsUncrossed ==
    ASSUME bids \in Levels, asks \in Levels, ~Crossed
    PROVE  \A b \in DOMAIN bids, a \in DOMAIN asks : b < a
<1> SUFFICES ASSUME NEW b \in DOMAIN bids, NEW a \in DOMAIN asks PROVE b < a
  OBVIOUS
<1>1. /\ BestBid \in DOMAIN bids /\ BestBid >= b
      /\ BestAsk \in DOMAIN asks /\ BestAsk <= a
  BY BestIsBest
<1>2. b \in Int /\ a \in Int /\ BestBid \in Int /\ BestAsk \in Int
  BY <1>1, LevelsAre
<1>3. ~(BestBid >= BestAsk)
  BY DEF Crossed
<1> QED
  BY <1>1, <1>2, <1>3

\* match() returns only when the best prices do not cross.
LEMMA ReturnKeeps ==
    ASSUME BookIInv, Return
    PROVE  BookIInv'
<1>1. /\ ~Crossed /\ bids' = bids /\ asks' = asks /\ orders' = orders /\ priority' = priority
      /\ matching' = FALSE /\ trades' = trades /\ incoming' = incoming
  BY DEF Return, book
<1>2. BookTypes /\ BookAgrees /\ EmptyIsBest /\ AggressorIsIncoming
  BY DEF BookIInv
<1>3. BookTypes'
  BY <1>1, <1>2 DEF BookTypes
<1>4. BookAgrees'
  BY <1>1, <1>2 DEF BookAgrees
<1>5. EmptyIsBest'
  BY <1>1, <1>2 DEF EmptyIsBest
<1>6. Uncrossed'
  BY <1>1, <1>2, NotCrossedIsUncrossed DEF Uncrossed, BookTypes
<1>7. OnlyIncomingCrosses'
  BY <1>1 DEF OnlyIncomingCrosses
<1>8. AggressorIsIncoming'
  BY <1>1, <1>2 DEF AggressorIsIncoming
<1> QED
  BY <1>3, <1>4, <1>5, <1>6, <1>7, <1>8 DEF BookIInv

\* A step of no variable.
LEMMA StutterKeeps ==
    ASSUME BookIInv, UNCHANGED vars
    PROVE  BookIInv'
<1>1. /\ bids' = bids /\ asks' = asks /\ orders' = orders /\ priority' = priority
      /\ matching' = matching /\ trades' = trades /\ incoming' = incoming
  BY DEF vars
<1>2. BookTypes /\ BookAgrees /\ EmptyIsBest /\ Uncrossed /\ OnlyIncomingCrosses /\ AggressorIsIncoming
  BY DEF BookIInv
<1>3. BookTypes' /\ BookAgrees'
  BY <1>1, <1>2 DEF BookTypes, BookAgrees
<1>4. EmptyIsBest' /\ Uncrossed' /\ OnlyIncomingCrosses'
  BY <1>1, <1>2 DEF EmptyIsBest, Uncrossed, OnlyIncomingCrosses, IncomingCrosses, Crossed, BestBid, BestAsk
<1>5. AggressorIsIncoming'
  BY <1>1, <1>2 DEF AggressorIsIncoming
<1> QED
  BY <1>3, <1>4, <1>5 DEF BookIInv

-----------------------------------------------------------------------------
(* The theorems.                                                           *)

\* The invariant holds in every reachable state.
LEMMA BookInvariant == Spec => []BookIInv
<1>1. Init => BookIInv
  BY InitEstablishesBookIInv
<1>2. BookIInv /\ [Next]_vars => BookIInv'
  <2> SUFFICES ASSUME BookIInv, [Next]_vars PROVE BookIInv'
    OBVIOUS
  <2>1. ASSUME NEW id \in Ids, NEW level \in Prices, NEW isBuy \in BOOLEAN, NEW quantity \in Quantities,
               AddOrder(id, level, isBuy, quantity)
        PROVE  BookIInv'
    BY <2>1, AddOrderKeeps
  <2>2. ASSUME NEW id \in Ids, AddDuplicate(id) \/ CancelOrder(id) PROVE BookIInv'
    BY <2>2, AddDuplicateKeeps, CancelOrderKeeps
  <2>3. CASE Match
    BY <2>3, DropCanceledBidKeeps, DropCanceledAskKeeps, FillKeeps, EraseLevelsKeeps, ReturnKeeps DEF Match
  <2>4. CASE UNCHANGED vars
    BY <2>4, StutterKeeps
  <2> QED
    BY <2>1, <2>2, <2>3, <2>4 DEF Next
<1> QED
  BY <1>1, <1>2, PTL DEF Spec

\* The types of the book's variables, for every set of ids, prices and quantities.
THEOREM BookTypeCorrect == Spec => []TypeOK
<1>1. BookIInv => TypeOK
  <2> SUFFICES ASSUME BookTypes PROVE TypeOK
    BY DEF BookIInv
  <2>1. IsMap(bids, Prices, Seq(Order)) /\ IsMap(asks, Prices, Seq(Order)) /\ IsMap(orders, Ids, Metadata)
    BY DEF BookTypes, Levels, Index, IsMap
  <2> QED
    BY <2>1 DEF BookTypes, TypeOK
<1> QED
  BY <1>1, BookInvariant, PTL

\* A member of Resting has a place in a queue.
LEMMA RestingAre ==
    ASSUME NEW L \in Levels, NEW o \in Resting(L)
    PROVE  /\ o.level \in DOMAIN L
           /\ \E i \in 1 .. Len(L[o.level]) : L[o.level][i].id = o.id /\ L[o.level][i].quantity = o.quantity
           /\ o = [level |-> o.level, id |-> o.id, quantity |-> o.quantity]
<1>1. \A p \in DOMAIN L : DOMAIN L[p] = 1 .. Len(L[p])
  BY LevelsAre
<1>2. PICK p \in DOMAIN L : \E i \in 1 .. Len(L[p]) :
        o = [level |-> p, id |-> L[p][i].id, quantity |-> L[p][i].quantity]
  BY <1>1 DEF Resting
<1> QED
  BY <1>2

\* An id with a place in a queue is that of a member of Resting.
LEMMA RestsIsResting ==
    ASSUME NEW L \in Levels, NEW id, Rests(L, id)
    PROVE  \E o \in Resting(L) : o.id = id
<1>1. PICK p \in DOMAIN L : \E i \in 1 .. Len(L[p]) : L[p][i].id = id
  BY DEF Rests
<1>2. PICK i \in 1 .. Len(L[p]) : L[p][i].id = id
  BY <1>1
<1>3. DOMAIN L[p] = 1 .. Len(L[p])
  BY LevelsAre
<1>4. [level |-> p, id |-> L[p][i].id, quantity |-> L[p][i].quantity] \in Resting(L)
  BY <1>3 DEF Resting
<1> QED
  BY <1>2, <1>4

\* An id rests at one place, with one quantity.
LEMMA RestOnce ==
    ASSUME NEW L \in Levels, NEW O \in Index, Placed(L, O), Queued(L, O),
           NEW o1 \in Resting(L), NEW o2 \in Resting(L), o1.id = o2.id
    PROVE  o1 = o2
<1>1. /\ o1.level \in DOMAIN L /\ o2.level \in DOMAIN L
      /\ o1 = [level |-> o1.level, id |-> o1.id, quantity |-> o1.quantity]
      /\ o2 = [level |-> o2.level, id |-> o2.id, quantity |-> o2.quantity]
  BY RestingAre
<1>2. PICK i \in 1 .. Len(L[o1.level]) : L[o1.level][i].id = o1.id /\ L[o1.level][i].quantity = o1.quantity
  BY RestingAre
<1>3. PICK j \in 1 .. Len(L[o2.level]) : L[o2.level][j].id = o2.id /\ L[o2.level][j].quantity = o2.quantity
  BY RestingAre
<1>4. o1.level = o2.level /\ i = j
  BY <1>1, <1>2, <1>3, RestsOnce
<1>5. o1.quantity = o2.quantity
  BY <1>2, <1>3, <1>4
<1> QED
  BY <1>1, <1>4, <1>5

\* The index and the levels agree, for every number of orders and prices: no
\* lookup of match() makes an entry, an id rests once, and an entry without a
\* resting order is that of a canceled one.
THEOREM IndexAndLevelsAgree == Spec => []IndexAgrees
<1>1. BookIInv => IndexAgrees
  <2> SUFFICES ASSUME BookIInv PROVE IndexAgrees
    OBVIOUS
  <2>1. bids \in Levels /\ asks \in Levels /\ orders \in Index
    BY DEF BookIInv, BookTypes
  <2>2. /\ Placed(bids, orders) /\ Placed(asks, orders)
        /\ Queued(bids, orders) /\ Queued(asks, orders) /\ OneSide(bids, asks)
        /\ \A id \in DOMAIN orders : orders[id].canceled \/ Rests(bids, id) \/ Rests(asks, id)
    BY DEF BookIInv, BookAgrees, Agree
  <2>3. ASSUME NEW L \in Levels, Placed(L, orders), NEW o \in Resting(L)
        PROVE  o.id \in DOMAIN orders /\ orders[o.id].level = o.level /\ Rests(L, o.id)
    <3>1. o.level \in DOMAIN L /\ \E i \in 1 .. Len(L[o.level]) : L[o.level][i].id = o.id
      BY RestingAre
    <3> QED
      BY <2>3, <3>1 DEF Placed, Rests
  <2>4. \A o \in Resting(bids) \cup Resting(asks) : o.id \in DOMAIN orders /\ orders[o.id].level = o.level
    BY <2>1, <2>2, <2>3
  <2>5. /\ \A o1, o2 \in Resting(bids) : o1.id = o2.id => o1 = o2
        /\ \A o1, o2 \in Resting(asks) : o1.id = o2.id => o1 = o2
    BY <2>1, <2>2, RestOnce
  <2>6. \A o1 \in Resting(bids), o2 \in Resting(asks) : o1.id # o2.id
    <3> SUFFICES ASSUME NEW o1 \in Resting(bids), NEW o2 \in Resting(asks), o1.id = o2.id PROVE FALSE
      OBVIOUS
    <3>1. Rests(bids, o1.id) /\ Rests(asks, o1.id) /\ o1.id \in DOMAIN orders
      BY <2>1, <2>2, <2>3
    <3> QED
      BY <2>1, <2>2, <3>1, IndexIs DEF OneSide
  <2>7. \A id \in DOMAIN orders \ RestingIds : orders[id].canceled
    <3> SUFFICES ASSUME NEW id \in DOMAIN orders, ~orders[id].canceled PROVE id \in RestingIds
      OBVIOUS
    <3>1. Rests(bids, id) \/ Rests(asks, id)
      BY <2>2
    <3>2. \E o \in Resting(bids) \cup Resting(asks) : o.id = id
      BY <2>1, <3>1, RestsIsResting
    <3> QED
      BY <3>2 DEF RestingIds
  <2> QED
    BY <2>4, <2>5, <2>6, <2>7 DEF IndexAgrees
<1> QED
  BY <1>1, BookInvariant, PTL

\* Every queue is in order of arrival, however orders come, fill and are
\* canceled.
THEOREM QueuesKeepArrivalOrder == Spec => []ArrivalOrder
<1>1. BookIInv => ArrivalOrder
  <2> SUFFICES ASSUME BookIInv, NEW L \in {bids, asks}, NEW p \in DOMAIN L,
                      NEW i \in DOMAIN L[p], NEW j \in DOMAIN L[p], i < j
               PROVE  orders[L[p][i].id].priority < orders[L[p][j].id].priority
    BY DEF ArrivalOrder
  <2>1. L \in Levels /\ Queued(L, orders)
    BY DEF BookIInv, BookTypes, BookAgrees, Agree
  <2>2. DOMAIN L[p] = 1 .. Len(L[p])
    BY <2>1, LevelsAre
  <2> QED
    BY <2>1, <2>2 DEF Queued
<1> QED
  BY <1>1, BookInvariant, PTL

\* AddOrder returns an uncrossed book without empty levels.
THEOREM BookIsUncrossed == Spec => []UncrossedBetweenCalls
<1>1. BookIInv => UncrossedBetweenCalls
  BY DEF BookIInv, Uncrossed, EmptyIsBest, UncrossedBetweenCalls
<1> QED
  BY <1>1, BookInvariant, PTL

\* Every trade is one of the order being added with another, within its limit.
THEOREM TradesAreOfTheIncomingOrder == Spec => []AggressorIsIncoming
<1>1. BookIInv => AggressorIsIncoming
  BY DEF BookIInv
<1> QED
  BY <1>1, BookInvariant, PTL

-----------------------------------------------------------------------------
(* The refinement: every step of the book is an addition, a refusal, a     *)
(* cancellation or a trade of PriceTimeBook, or leaves the abstract book   *)
(* unchanged.  What each operation does to the set of resting orders comes *)
(* first, then what it does to the live ones.                              *)

\* The order o resting at level p.
At(p, o) == [level |-> p, id |-> o.id, quantity |-> o.quantity]

\* The abstract order of a resting one.
Abstract(o, O, isBuy) ==
    [id |-> o.id, isBuy |-> isBuy, level |-> o.level, quantity |-> o.quantity,
     arrival |-> O[o.id].priority]

Live(L, O, isBuy) == {Abstract(o, O, isBuy) : o \in {x \in Resting(L) : ~O[x.id].canceled}}

-----------------------------------------------------------------------------
(* The resting orders.                                                     *)

\* Resting, order by order.
LEMMA RestingIs ==
    ASSUME NEW L \in Levels, NEW x
    PROVE  x \in Resting(L) <=> \E p \in DOMAIN L : \E i \in 1 .. Len(L[p]) : x = At(p, L[p][i])
<1>1. \A p \in DOMAIN L : DOMAIN L[p] = 1 .. Len(L[p])
  BY LevelsAre
<1> QED
  BY <1>1 DEF Resting, At

\* push_back adds one resting order.
LEMMA PushResting ==
    ASSUME NEW L \in Levels, NEW p \in Prices, NEW o \in Order, NEW N, N = PushBack(L, p, o)
    PROVE  Resting(N) = Resting(L) \cup {At(p, o)}
<1>0. N \in Levels /\ Pushed(N, L, p, o)
  BY PushBackIs
<1>1. /\ DOMAIN N = DOMAIN L \cup {p}
      /\ \A q \in DOMAIN L : q # p => N[q] = L[q]
      /\ p \in DOMAIN L =>
           /\ Len(N[p]) = Len(L[p]) + 1 /\ N[p][Len(L[p]) + 1] = o
           /\ \A i \in 1 .. Len(L[p]) : N[p][i] = L[p][i]
      /\ p \notin DOMAIN L => Len(N[p]) = 1 /\ N[p][1] = o
  BY <1>0 DEF Pushed
<1>2. \A q \in DOMAIN L : Len(L[q]) \in Nat
  BY LevelsAre
<1>3. ASSUME NEW q \in DOMAIN N, NEW i \in 1 .. Len(N[q])
      PROVE  At(q, N[q][i]) \in Resting(L) \cup {At(p, o)}
  <2>1. CASE q # p
    <3>1. q \in DOMAIN L /\ N[q] = L[q]
      BY <1>1, <2>1
    <3> QED
      BY <3>1, RestingIs
  <2>2. CASE q = p /\ p \in DOMAIN L
    <3>1. \A j \in 1 .. Len(N[p]) : j = Len(L[p]) + 1 \/ j \in 1 .. Len(L[p])
      BY <1>1, <1>2, <2>2
    <3>2. \A j \in 1 .. Len(L[p]) : At(p, L[p][j]) \in Resting(L)
      BY <2>2, RestingIs
    <3>3. \A j \in 1 .. Len(N[p]) : At(p, N[p][j]) \in Resting(L) \cup {At(p, o)}
      BY <1>1, <2>2, <3>1, <3>2
    <3> QED
      BY <2>2, <3>3
  <2>3. CASE q = p /\ p \notin DOMAIN L
    <3>0. Len(N[p]) = 1 /\ N[p][1] = o
      BY <1>1, <2>3
    <3>1. \A j \in 1 .. Len(N[p]) : N[p][j] = o
      BY <3>0
    <3> QED
      BY <2>3, <3>1
  <2> QED
    BY <2>1, <2>2, <2>3
<1>4. ASSUME NEW q \in DOMAIN L, NEW i \in 1 .. Len(L[q])
      PROVE  At(q, L[q][i]) \in Resting(N)
  <2>1. q \in DOMAIN N /\ i \in 1 .. Len(N[q]) /\ N[q][i] = L[q][i]
    BY <1>1, <1>2
  <2>2. At(q, N[q][i]) \in Resting(N)
    BY <1>0, <2>1, RestingIs
  <2> QED
    BY <2>1, <2>2
<1>5. At(p, o) \in Resting(N)
  <2>1. p \in DOMAIN N /\ \E i \in 1 .. Len(N[p]) : N[p][i] = o
    BY <1>1, <1>2
  <2> QED
    BY <1>0, <2>1, RestingIs
<1>6. \A x \in Resting(N) : x \in Resting(L) \cup {At(p, o)}
  BY <1>0, <1>3, RestingIs
<1>7. \A x \in Resting(L) : x \in Resting(N)
  BY <1>4, RestingIs
<1> QED
  BY <1>5, <1>6, <1>7

\* An order rests once, so that the front order of a level is nowhere else.
LEMMA FrontRestsOnce ==
    ASSUME NEW L \in Levels, NEW O \in Index, Placed(L, O), Queued(L, O),
           NEW p \in DOMAIN L, L[p] # <<>>,
           NEW q \in DOMAIN L, NEW i \in 1 .. Len(L[q]), q # p \/ i # 1
    PROVE  L[q][i].id # L[p][1].id /\ At(q, L[q][i]) # At(p, L[p][1])
<1>1. 1 \in 1 .. Len(L[p])
  BY LevelsAre
<1>2. L[q][i].id # L[p][1].id
  BY <1>1, RestsOnce
<1>3. At(q, L[q][i]).id = L[q][i].id /\ At(p, L[p][1]).id = L[p][1].id
  BY DEF At
<1> QED
  BY <1>2, <1>3

\* The resting orders that are not at the front of level p stay where they are.
LEMMA BehindFront ==
    ASSUME NEW L \in Levels, NEW O \in Index, Placed(L, O), Queued(L, O),
           NEW p \in DOMAIN L, L[p] # <<>>, NEW x
    PROVE  x \in Resting(L) \ {At(p, L[p][1])} <=>
             \E q \in DOMAIN L : \E i \in 1 .. Len(L[q]) : (q # p \/ i # 1) /\ x = At(q, L[q][i])
<1>1. ASSUME x \in Resting(L) \ {At(p, L[p][1])}
      PROVE  \E q \in DOMAIN L : \E i \in 1 .. Len(L[q]) : (q # p \/ i # 1) /\ x = At(q, L[q][i])
  <2>1. PICK q \in DOMAIN L : \E i \in 1 .. Len(L[q]) : x = At(q, L[q][i])
    BY <1>1, RestingIs
  <2>2. PICK i \in 1 .. Len(L[q]) : x = At(q, L[q][i])
    BY <2>1
  <2>3. q # p \/ i # 1
    BY <1>1, <2>2
  <2> QED
    BY <2>2, <2>3
<1>2. ASSUME NEW q \in DOMAIN L, NEW i \in 1 .. Len(L[q]), q # p \/ i # 1, x = At(q, L[q][i])
      PROVE  x \in Resting(L) \ {At(p, L[p][1])}
  <2>1. x \in Resting(L)
    BY <1>2, RestingIs
  <2>2. x # At(p, L[p][1])
    BY <1>2, FrontRestsOnce
  <2> QED
    BY <2>1, <2>2
<1> QED
  BY <1>1, <1>2

\* pop_front removes one resting order.
LEMMA PopResting ==
    ASSUME NEW L \in Levels, NEW O \in Index, Placed(L, O), Queued(L, O),
           NEW p \in DOMAIN L, L[p] # <<>>, NEW N, N = PopFront(L, p)
    PROVE  Resting(N) = Resting(L) \ {At(p, L[p][1])}
<1>1. /\ N \in Levels /\ DOMAIN N = DOMAIN L
      /\ \A q \in DOMAIN L : q # p => N[q] = L[q]
      /\ Len(N[p]) = Len(L[p]) - 1 /\ \A i \in 1 .. Len(N[p]) : N[p][i] = L[p][i + 1]
  BY PopFrontIs
<1>2. \A q \in DOMAIN L : Len(L[q]) \in Nat
  BY LevelsAre
<1>3. ASSUME NEW q \in DOMAIN L, NEW i \in 1 .. Len(N[q])
      PROVE  \E j \in 1 .. Len(L[q]) : (q # p \/ j # 1) /\ N[q][i] = L[q][j]
  <2>1. \A j \in 1 .. Len(N[p]) : j + 1 \in 1 .. Len(L[p]) /\ j + 1 # 1 /\ N[p][j] = L[p][j + 1]
    BY <1>1, <1>2
  <2>2. \A j \in 1 .. Len(N[p]) : \E k \in 1 .. Len(L[p]) : k # 1 /\ N[p][j] = L[p][k]
    BY <2>1
  <2>3. CASE q = p
    BY <2>2, <2>3
  <2>4. CASE q # p
    BY <1>1, <2>4
  <2> QED
    BY <2>3, <2>4
<1>4. ASSUME NEW q \in DOMAIN L, NEW j \in 1 .. Len(L[q]), q # p \/ j # 1
      PROVE  \E i \in 1 .. Len(N[q]) : N[q][i] = L[q][j]
  <2>1. \A k \in 1 .. Len(L[p]) : k # 1 => k - 1 \in 1 .. Len(N[p]) /\ N[p][k - 1] = L[p][(k - 1) + 1]
                                            /\ (k - 1) + 1 = k
    BY <1>1, <1>2
  <2>2. \A k \in 1 .. Len(L[p]) : k # 1 => \E i \in 1 .. Len(N[p]) : N[p][i] = L[p][k]
    BY <2>1
  <2>3. CASE q = p
    BY <1>4, <2>2, <2>3
  <2>4. CASE q # p
    BY <1>1, <2>4
  <2> QED
    BY <2>3, <2>4
<1>5. ASSUME NEW x \in Resting(N) PROVE x \in Resting(L) \ {At(p, L[p][1])}
  <2>1. \E q \in DOMAIN L : \E i \in 1 .. Len(N[q]) : x = At(q, N[q][i])
    BY <1>1, RestingIs
  <2>2. \E q \in DOMAIN L : \E j \in 1 .. Len(L[q]) : (q # p \/ j # 1) /\ x = At(q, L[q][j])
    BY <1>3, <2>1
  <2> QED
    BY <2>2, BehindFront
<1>6. ASSUME NEW x \in Resting(L) \ {At(p, L[p][1])} PROVE x \in Resting(N)
  <2>1. \E q \in DOMAIN L : \E j \in 1 .. Len(L[q]) : (q # p \/ j # 1) /\ x = At(q, L[q][j])
    BY BehindFront
  <2>2. \E q \in DOMAIN L : \E i \in 1 .. Len(N[q]) : x = At(q, N[q][i])
    <3>1. PICK q \in DOMAIN L : \E j \in 1 .. Len(L[q]) : (q # p \/ j # 1) /\ x = At(q, L[q][j])
      BY <2>1
    <3>2. PICK j \in 1 .. Len(L[q]) : (q # p \/ j # 1) /\ x = At(q, L[q][j])
      BY <3>1
    <3>3. \E i \in 1 .. Len(N[q]) : N[q][i] = L[q][j]
      BY <1>4, <3>2
    <3> QED
      BY <3>2, <3>3
  <2> QED
    BY <1>1, <2>2, RestingIs
<1> QED
  BY <1>5, <1>6

\* A resting order with size less of it.
Reduced(x, size) == [level |-> x.level, id |-> x.id, quantity |-> x.quantity - size]

\* Filling the front order replaces it by its rest, if there is one.
LEMMA FillResting ==
    ASSUME NEW L \in Levels, NEW O \in Index, Placed(L, O), Queued(L, O),
           NEW p \in DOMAIN L, L[p] # <<>>,
           NEW size \in Nat, NEW N, N = FillFront(L, p, size), size <= L[p][1].quantity
    PROVE  Resting(N) = (Resting(L) \ {At(p, L[p][1])}) \cup
             (IF L[p][1].quantity = size THEN {} ELSE {Reduced(At(p, L[p][1]), size)})
<1>1. L[p] \in Seq(Order) /\ Len(L[p]) \in Nat /\ 1 \in 1 .. Len(L[p]) /\ L[p][1] \in Order
  BY LevelsAre
<1>2. Head(L[p]) = L[p][1]
  BY <1>1
<1>3. CASE L[p][1].quantity = size
  <2>1. N = PopFront(L, p)
    BY <1>2, <1>3 DEF FillFront
  <2>2. Resting(N) = Resting(L) \ {At(p, L[p][1])}
    BY <2>1, PopResting
  <2> QED
    BY <1>3, <2>2
<1>4. CASE L[p][1].quantity # size
  <2> DEFINE o == [L[p][1] EXCEPT !.quantity = L[p][1].quantity - size]
             s == [L[p] EXCEPT ![1] = o]
  <2>1. At(p, o) = Reduced(At(p, L[p][1]), size)
    BY <1>1 DEF Order, At, Reduced
  <2>2. L \in [DOMAIN L -> Seq(Order)]
    BY DEF Levels
  <2>3. N = [L EXCEPT ![p] = s]
    BY <1>2, <1>4 DEF FillFront
  <2> HIDE DEF o
  <2>4. Len(s) = Len(L[p]) /\ s[1] = o /\ \A i \in 1 .. Len(L[p]) : i # 1 => s[i] = L[p][i]
    BY <1>1
  <2> HIDE DEF s
  <2>5. N[p] = s /\ \A q \in DOMAIN L : q # p => N[q] = L[q]
    BY <2>2, <2>3
  <2>6. N \in Levels /\ DOMAIN N = DOMAIN L
    BY FillFrontIs
  <2>7. /\ \A q \in DOMAIN L : Len(N[q]) = Len(L[q]) /\ N[p][1] = o
        /\ \A q \in DOMAIN L : \A i \in 1 .. Len(L[q]) : q # p \/ i # 1 => N[q][i] = L[q][i]
    BY <2>4, <2>5
  <2>8. ASSUME NEW x \in Resting(N), x # At(p, o) PROVE x \in Resting(L) \ {At(p, L[p][1])}
    <3>1. PICK q \in DOMAIN L : \E i \in 1 .. Len(N[q]) : x = At(q, N[q][i])
      BY <2>6, RestingIs
    <3>2. PICK i \in 1 .. Len(L[q]) : x = At(q, N[q][i])
      BY <2>7, <3>1
    <3>3. q # p \/ i # 1
      BY <2>7, <2>8, <3>2
    <3>4. x = At(q, L[q][i])
      BY <2>7, <3>2, <3>3
    <3> QED
      BY <3>3, <3>4, BehindFront
  <2>9. ASSUME NEW x \in Resting(L) \ {At(p, L[p][1])} PROVE x \in Resting(N)
    <3>1. PICK q \in DOMAIN L : \E j \in 1 .. Len(L[q]) : (q # p \/ j # 1) /\ x = At(q, L[q][j])
      BY BehindFront
    <3>2. PICK j \in 1 .. Len(L[q]) : (q # p \/ j # 1) /\ x = At(q, L[q][j])
      BY <3>1
    <3>3. j \in 1 .. Len(N[q]) /\ x = At(q, N[q][j])
      BY <2>7, <3>2
    <3> QED
      BY <2>6, <3>3, RestingIs
  <2>10. At(p, o) \in Resting(N)
    <3>1. 1 \in 1 .. Len(N[p]) /\ N[p][1] = o
      BY <1>1, <2>7
    <3> QED
      BY <2>6, <3>1, RestingIs
  <2>11. Resting(N) = (Resting(L) \ {At(p, L[p][1])}) \cup {At(p, o)}
    BY <2>8, <2>9, <2>10
  <2> QED
    BY <1>4, <2>1, <2>11
<1> QED
  BY <1>3, <1>4

\* Erasing empty levels removes no resting order.
LEMMA EraseResting ==
    ASSUME NEW L \in Levels, NEW P, \A p \in DOMAIN L : p \in P => L[p] = <<>>,
           NEW N, N = Erase(L, P)
    PROVE  Resting(N) = Resting(L)
<1>1. N \in Levels /\ Without(N, L, P)
  BY EraseIs
<1>2. \A p \in DOMAIN L : \A i \in 1 .. Len(L[p]) : p \in DOMAIN N
  BY <1>1, LevelsAre DEF Without
<1>3. ASSUME NEW x \in Resting(N) PROVE x \in Resting(L)
  BY <1>1, RestingIs DEF Without
<1>4. ASSUME NEW x \in Resting(L) PROVE x \in Resting(N)
  <2>1. PICK p \in DOMAIN L : \E i \in 1 .. Len(L[p]) : x = At(p, L[p][i])
    BY RestingIs
  <2>2. p \in DOMAIN N /\ N[p] = L[p]
    BY <1>1, <1>2, <2>1 DEF Without
  <2> QED
    BY <1>1, <2>1, <2>2, RestingIs
<1> QED
  BY <1>3, <1>4

-----------------------------------------------------------------------------
(* The live orders.                                                        *)

Buying  == TRUE
Selling == FALSE
LiveOrders == Live(bids, orders, Buying) \cup Live(asks, orders, Selling)

\* The abstract book is about LiveOrders.
LEMMA LiveOrdersAre ==
    /\ LiveOn(bids, TRUE) \cup LiveOn(asks, FALSE) = LiveOrders
    /\ (LiveOn(bids, TRUE) \cup LiveOn(asks, FALSE))' = LiveOrders'
<1>1. LiveOn(bids, TRUE) = Live(bids, orders, Buying) /\ LiveOn(asks, FALSE) = Live(asks, orders, Selling)
  BY DEF LiveOn, Live, Abstract, Buying, Selling
<1>2. LiveOn(bids, TRUE)' = Live(bids, orders, Buying)' /\ LiveOn(asks, FALSE)' = Live(asks, orders, Selling)'
  BY DEF LiveOn, Live, Abstract, Buying, Selling
<1> QED
  BY <1>1, <1>2 DEF LiveOrders

\* Live, order by order.
LEMMA LiveIs ==
    ASSUME NEW L, NEW O, NEW isBuy, NEW x
    PROVE  x \in Live(L, O, isBuy) <=> \E o \in Resting(L) : ~O[o.id].canceled /\ x = Abstract(o, O, isBuy)
BY DEF Live

\* The fields of an abstract order.
LEMMA AbstractIs ==
    ASSUME NEW o, NEW O, NEW isBuy
    PROVE  /\ Abstract(o, O, isBuy).id = o.id /\ Abstract(o, O, isBuy).isBuy = isBuy
           /\ Abstract(o, O, isBuy).level = o.level /\ Abstract(o, O, isBuy).quantity = o.quantity
           /\ Abstract(o, O, isBuy).arrival = O[o.id].priority
BY DEF Abstract

\* The entry and the place of a resting order.
LEMMA EntryIs ==
    ASSUME NEW L \in Levels, NEW O \in Index, Placed(L, O), NEW o \in Resting(L)
    PROVE  /\ o.id \in DOMAIN O /\ O[o.id].level = o.level /\ Rests(L, o.id)
           /\ O[o.id].priority \in Nat /\ o.level \in DOMAIN L /\ o.level \in Int
           /\ o.id \in Ids /\ o.level \in Prices /\ o.quantity \in Nat
           /\ o = [level |-> o.level, id |-> o.id, quantity |-> o.quantity]
<1>1. PICK p \in DOMAIN L : \E i \in 1 .. Len(L[p]) : o = At(p, L[p][i])
  BY RestingIs
<1>2. PICK i \in 1 .. Len(L[p]) : o = At(p, L[p][i])
  BY <1>1
<1>3. o.level = p /\ o.id = L[p][i].id /\ o.quantity = L[p][i].quantity
  BY <1>2 DEF At
<1>4. o.id \in DOMAIN O /\ O[o.id].level = p /\ Rests(L, o.id)
  BY <1>3 DEF Placed, Rests
<1>5. p \in Int /\ p \in Prices /\ L[p][i].id \in Ids /\ L[p][i].quantity \in Nat
  BY LevelsAre
<1>6. O[o.id].priority \in Nat
  BY <1>4, IndexIs
<1> QED
  BY <1>2, <1>3, <1>4, <1>5, <1>6 DEF At

\* The live orders depend on the resting ones and on their entries only.
LEMMA LiveSame ==
    ASSUME NEW L, NEW N, Resting(N) = Resting(L), NEW O, NEW M, NEW isBuy,
           \A o \in Resting(L) : M[o.id] = O[o.id]
    PROVE  Live(N, M, isBuy) = Live(L, O, isBuy)
<1>1. \A o \in Resting(L) : Abstract(o, M, isBuy) = Abstract(o, O, isBuy)
  BY DEF Abstract
<1>2. \A x : x \in Live(N, M, isBuy) <=> x \in Live(L, O, isBuy)
  BY <1>1, LiveIs
<1> QED
  BY <1>2

\* What the invariant says of the resting orders.
LEMMA SidesAre ==
    ASSUME BookIInv
    PROVE  /\ bids \in Levels /\ asks \in Levels /\ orders \in Index /\ priority \in Nat
           /\ Placed(bids, orders) /\ Placed(asks, orders)
           /\ Queued(bids, orders) /\ Queued(asks, orders) /\ OneSide(bids, asks)
BY DEF BookIInv, BookTypes, BookAgrees, Agree

\* A live order is the only one of its id.
LEMMA LiveOnce ==
    ASSUME BookIInv, NEW x \in LiveOrders, NEW y \in LiveOrders, x.id = y.id
    PROVE  x = y
<1>1. /\ bids \in Levels /\ asks \in Levels /\ orders \in Index
      /\ Placed(bids, orders) /\ Placed(asks, orders)
      /\ Queued(bids, orders) /\ Queued(asks, orders) /\ OneSide(bids, asks)
  BY SidesAre
<1>2. ASSUME NEW L \in Levels, Placed(L, orders), Queued(L, orders), NEW isBuy,
             x \in Live(L, orders, isBuy), y \in Live(L, orders, isBuy)
      PROVE  x = y
  <2>1. PICK o1 \in Resting(L) : x = Abstract(o1, orders, isBuy)
    BY <1>2, LiveIs
  <2>2. PICK o2 \in Resting(L) : y = Abstract(o2, orders, isBuy)
    BY <1>2, LiveIs
  <2>3. o1.id = o2.id
    BY <2>1, <2>2, AbstractIs
  <2>4. o1 = o2
    BY <1>1, <1>2, <2>3, RestOnce
  <2> QED
    BY <2>1, <2>2, <2>4
<1>3. ASSUME NEW u \in Live(bids, orders, Buying), NEW w \in Live(asks, orders, Selling)
      PROVE  u.id # w.id
  <2>1. PICK o1 \in Resting(bids) : u = Abstract(o1, orders, Buying)
    BY <1>3, LiveIs
  <2>2. PICK o2 \in Resting(asks) : w = Abstract(o2, orders, Selling)
    BY <1>3, LiveIs
  <2>3. u.id = o1.id /\ w.id = o2.id
    BY <2>1, <2>2, AbstractIs
  <2>4. Rests(bids, o1.id) /\ Rests(asks, o2.id) /\ o1.id \in Ids
    BY <1>1, EntryIs
  <2> QED
    BY <1>1, <2>3, <2>4 DEF OneSide
<1> QED
  BY <1>1, <1>2, <1>3 DEF LiveOrders

\* The side of a live order is the one it rests on.
LEMMA SideIs ==
    ASSUME NEW x \in LiveOrders
    PROVE  /\ x.isBuy \in BOOLEAN
           /\ x.isBuy <=> x \in Live(bids, orders, Buying)
           /\ ~x.isBuy <=> x \in Live(asks, orders, Selling)
<1>1. ASSUME NEW L, NEW isBuy, NEW y \in Live(L, orders, isBuy) PROVE y.isBuy = isBuy
  <2>1. PICK o \in Resting(L) : y = Abstract(o, orders, isBuy)
    BY LiveIs
  <2> QED
    BY <2>1, AbstractIs
<1>2. x \in Live(bids, orders, Buying) => x.isBuy = Buying
  BY <1>1
<1>3. x \in Live(asks, orders, Selling) => x.isBuy = Selling
  BY <1>1
<1>4. x \in Live(bids, orders, Buying) \/ x \in Live(asks, orders, Selling)
  BY DEF LiveOrders
<1>5. x.isBuy = Buying \/ x.isBuy = Selling
  BY <1>2, <1>3, <1>4
<1> QED
  BY <1>2, <1>3, <1>4, <1>5 DEF Buying, Selling

\* The abstract book's sides are those of the levels.
LEMMA BuysAndSells ==
    /\ Ideal!Buys = Live(bids, orders, Buying)
    /\ Ideal!Sells \subseteq Live(asks, orders, Selling)
<1>1. \A x \in LiveOrders : x.isBuy <=> x \in Live(bids, orders, Buying)
  BY SideIs
<1>2. Ideal!Buys = {x \in LiveOrders : x.isBuy}
  BY LiveOrdersAre DEF Ideal!Buys
<1>3. Ideal!Buys = Live(bids, orders, Buying)
  BY <1>1, <1>2 DEF LiveOrders
<1> QED
  BY <1>3, LiveOrdersAre DEF Ideal!Sells, LiveOrders

\* No live orders overlap between calls.
LEMMA NoOverlap ==
    ASSUME BookIInv, ~matching
    PROVE  ~Ideal!Overlap
<1>1. /\ bids \in Levels /\ asks \in Levels /\ orders \in Index
      /\ Placed(bids, orders) /\ Placed(asks, orders)
  BY SidesAre
<1>2. ASSUME NEW buy \in Live(bids, orders, Buying), NEW sell \in Live(asks, orders, Selling)
      PROVE  ~(buy.level >= sell.level)
  <2>1. PICK b \in Resting(bids) : buy = Abstract(b, orders, Buying)
    BY LiveIs
  <2>2. PICK a \in Resting(asks) : sell = Abstract(a, orders, Selling)
    BY LiveIs
  <2>3. buy.level = b.level /\ sell.level = a.level
    BY <2>1, <2>2, AbstractIs
  <2>4. b.level \in DOMAIN bids /\ b.level \in Int /\ a.level \in DOMAIN asks /\ a.level \in Int
    BY <1>1, EntryIs
  <2>5. b.level < a.level
    BY <2>4 DEF BookIInv, Uncrossed
  <2> QED
    BY <2>3, <2>4, <2>5
<1> QED
  BY <1>2, BuysAndSells DEF Ideal!Overlap

-----------------------------------------------------------------------------
(* The steps of the book are steps of the abstract one.                    *)

\* push_back adds one live order.
LEMMA PushedLive ==
    ASSUME NEW L \in Levels, NEW O \in Index, Placed(L, O), NEW p \in Prices,
           NEW o \in Order, o.id \notin DOMAIN O, NEW N, N = PushBack(L, p, o),
           NEW m, ~m.canceled, NEW M, With(M, O, o.id, m), NEW isBuy
    PROVE  Live(N, M, isBuy) = Live(L, O, isBuy) \cup {Abstract(At(p, o), M, isBuy)}
<1>1. Resting(N) = Resting(L) \cup {At(p, o)}
  BY PushResting
<1>2. \A x \in Resting(L) : M[x.id] = O[x.id]
  BY EntryIs DEF With
<1>3. Live(L, M, isBuy) = Live(L, O, isBuy)
  BY <1>2, LiveSame
<1>4. ~M[At(p, o).id].canceled
  BY DEF With, At
<1>5. \A x : x \in Live(N, M, isBuy) <=> x \in Live(L, M, isBuy) \/ x = Abstract(At(p, o), M, isBuy)
  BY <1>1, <1>4, LiveIs
<1> QED
  BY <1>3, <1>5

\* A new index entry changes no live order of the other side.
LEMMA OthersLive ==
    ASSUME NEW L \in Levels, NEW O \in Index, Placed(L, O), NEW k, k \notin DOMAIN O,
           NEW m, NEW M, With(M, O, k, m), NEW isBuy
    PROVE  Live(L, M, isBuy) = Live(L, O, isBuy)
<1>1. \A x \in Resting(L) : M[x.id] = O[x.id]
  BY EntryIs DEF With
<1> QED
  BY <1>1, LiveSame

\* AddOrder is Add of the abstract book.
LEMMA AddOrderAdds ==
    ASSUME BookIInv, NEW id \in Ids, NEW level \in Prices, NEW isBuy \in BOOLEAN,
           NEW quantity \in Quantities, AddOrder(id, level, isBuy, quantity)
    PROVE  Ideal!Next
<1> DEFINE o == [id |-> id, quantity |-> quantity]
           m == [level |-> level, priority |-> priority, canceled |-> FALSE]
           order == [id |-> id, isBuy |-> isBuy, level |-> level, quantity |-> quantity,
                     arrival |-> priority]
<1>1. o \in Order /\ o.id = id /\ o.quantity = quantity
  BY OrderAssumption DEF Order
<1>2. /\ ~matching /\ id \notin DOMAIN orders /\ priority < MaxOrders
      /\ isBuy => bids' = PushBack(bids, level, o) /\ asks' = asks
      /\ ~isBuy => asks' = PushBack(asks, level, o) /\ bids' = bids
      /\ orders' = Put(orders, id, m) /\ priority' = priority + 1 /\ trades' = <<>>
  BY DEF AddOrder
<1>3. /\ bids \in Levels /\ asks \in Levels /\ orders \in Index /\ priority \in Nat
      /\ Placed(bids, orders) /\ Placed(asks, orders)
  BY SidesAre
<1>4. m \in Metadata /\ m.priority = priority /\ ~m.canceled
  BY <1>3 DEF Metadata
<1>5. order.arrival = priority /\ order.id = id
  OBVIOUS
<1>6. isBuy => order = [id |-> id, isBuy |-> Buying, level |-> level, quantity |-> quantity,
                        arrival |-> priority]
  BY DEF Buying
<1>7. ~isBuy => order = [id |-> id, isBuy |-> Selling, level |-> level, quantity |-> quantity,
                         arrival |-> priority]
  BY DEF Selling
<1> HIDE DEF o, m
<1>8. With(orders', orders, id, m)
  BY <1>2, <1>3, <1>4, PutIs
<1>9. \A side : Abstract(At(level, o), orders', side) =
                  [id |-> id, isBuy |-> side, level |-> level, quantity |-> quantity, arrival |-> priority]
  BY <1>1, <1>4, <1>8 DEF Abstract, At, With
<1> HIDE DEF order
<1>10. LiveOrders' = LiveOrders \cup {order}
  <2>1. CASE isBuy
    <3>1. Live(bids', orders', Buying) =
           Live(bids, orders, Buying) \cup {Abstract(At(level, o), orders', Buying)}
      BY <1>1, <1>2, <1>3, <1>4, <1>8, <2>1, PushedLive
    <3>2. Abstract(At(level, o), orders', Buying) = order
      BY <1>6, <1>9, <2>1
    <3>3. Live(asks', orders', Selling) = Live(asks, orders, Selling)
      BY <1>2, <1>3, <1>8, <2>1, OthersLive
    <3> QED
      BY <3>1, <3>2, <3>3 DEF LiveOrders, Buying, Selling
  <2>2. CASE ~isBuy
    <3>1. Live(asks', orders', Selling) = Live(asks, orders, Selling) \cup {Abstract(At(level, o), orders', Selling)}
      BY <1>1, <1>2, <1>3, <1>4, <1>8, <2>2, PushedLive
    <3>2. Abstract(At(level, o), orders', Selling) = order
      BY <1>7, <1>9, <2>2
    <3>3. Live(bids', orders', Buying) = Live(bids, orders, Buying)
      BY <1>2, <1>3, <1>8, <2>2, OthersLive
    <3> QED
      BY <3>1, <3>2, <3>3 DEF LiveOrders, Buying, Selling
  <2> QED
    BY <2>1, <2>2
<1>11. DOMAIN orders' = DOMAIN orders \cup {order.id}
  BY <1>5, <1>8 DEF With
<1>12. Ideal!Add(order)
  BY <1>2, <1>5, <1>10, <1>11, NoOverlap, LiveOrdersAre DEF Ideal!Add
<1> QED
  BY <1>12 DEF Ideal!Next, order

\* AddOrder with an id in use is a refusal there.
LEMMA AddDuplicateRejects ==
    ASSUME BookIInv, NEW id \in Ids, AddDuplicate(id)
    PROVE  Ideal!Next
<1>1. /\ bids' = bids /\ asks' = asks /\ orders' = orders /\ priority' = priority
      /\ trades' = <<>> /\ DOMAIN orders # {}
  BY DEF AddDuplicate, book
<1>2. LiveOrders' = LiveOrders
  BY <1>1 DEF LiveOrders, Buying, Selling
<1>3. Ideal!Reject
  BY <1>1, <1>2, LiveOrdersAre DEF Ideal!Reject
<1> QED
  BY <1>3 DEF Ideal!Next

\* A step that leaves the live orders, the index' ids, the clock and the trades
\* alone.
LEMMA NoAbstractStep ==
    ASSUME LiveOrders' = LiveOrders, DOMAIN orders' = DOMAIN orders, priority' = priority,
           trades' = trades
    PROVE  UNCHANGED Ideal!vars
BY LiveOrdersAre DEF Ideal!vars

\* M is the index O with id canceled, whatever becomes of its other members.
Canceled(M, O, id) == M[id].canceled /\ \A k \in DOMAIN O : k # id => M[k] = O[k]

\* Canceling leaves the live orders but those of the id.
LEMMA CanceledLive ==
    ASSUME NEW L \in Levels, NEW O \in Index, Placed(L, O), NEW id \in DOMAIN O,
           NEW M, Canceled(M, O, id), NEW isBuy, NEW x
    PROVE  x \in Live(L, M, isBuy) <=> x \in Live(L, O, isBuy) /\ x.id # id
<1>2. \A k \in DOMAIN O : k # id => M[k] = O[k]
  BY DEF Canceled
<1>3. M[id].canceled
  BY DEF Canceled
<1>4. \A o \in Resting(L) : o.id \in DOMAIN O
  BY EntryIs
<1>5. \A o \in Resting(L) : o.id # id => Abstract(o, M, isBuy) = Abstract(o, O, isBuy)
                                        /\ M[o.id].canceled = O[o.id].canceled
  BY <1>2, <1>4 DEF Abstract
<1>6. ASSUME x \in Live(L, M, isBuy) PROVE x \in Live(L, O, isBuy) /\ x.id # id
  <2>1. PICK o \in Resting(L) : ~M[o.id].canceled /\ x = Abstract(o, M, isBuy)
    BY <1>6, LiveIs
  <2>2. o.id # id
    BY <1>3, <2>1
  <2>3. x = Abstract(o, O, isBuy) /\ ~O[o.id].canceled
    BY <1>5, <2>1, <2>2
  <2>4. x.id = o.id
    BY <2>3, AbstractIs
  <2> QED
    BY <2>2, <2>3, <2>4, LiveIs
<1>7. ASSUME x \in Live(L, O, isBuy), x.id # id PROVE x \in Live(L, M, isBuy)
  <2>1. PICK o \in Resting(L) : ~O[o.id].canceled /\ x = Abstract(o, O, isBuy)
    BY <1>7, LiveIs
  <2>2. o.id # id
    BY <1>7, <2>1, AbstractIs
  <2>3. x = Abstract(o, M, isBuy) /\ ~M[o.id].canceled
    BY <1>5, <2>1, <2>2
  <2> QED
    BY <2>3, LiveIs
<1> QED
  BY <1>6, <1>7

\* CancelOrder cancels there, or does nothing if the order is canceled already.
LEMMA CancelOrderCancels ==
    ASSUME BookIInv, NEW id \in Ids, CancelOrder(id)
    PROVE  Ideal!Next \/ UNCHANGED Ideal!vars
<1>1. /\ ~matching /\ id \in DOMAIN orders /\ orders' = [orders EXCEPT ![id].canceled = TRUE]
      /\ bids' = bids /\ asks' = asks /\ priority' = priority /\ trades' = trades
  BY DEF CancelOrder, book
<1>2. /\ bids \in Levels /\ asks \in Levels /\ orders \in Index
      /\ Placed(bids, orders) /\ Placed(asks, orders)
  BY SidesAre
<1>3. Canceled(orders', orders, id)
  <2>1. orders \in [DOMAIN orders -> Metadata]
    BY <1>2 DEF Index
  <2>2. orders'[id] = [orders[id] EXCEPT !.canceled = TRUE]
    BY <1>1, <2>1
  <2>3. orders'[id].canceled
    BY <1>1, <2>1, <2>2 DEF Metadata
  <2>4. \A k \in DOMAIN orders : k # id => orders'[k] = orders[k]
    BY <1>1, <2>1
  <2> QED
    BY <2>3, <2>4 DEF Canceled
<1>4. \A x : /\ x \in Live(bids, orders', Buying) <=> x \in Live(bids, orders, Buying) /\ x.id # id
             /\ x \in Live(asks, orders', Selling) <=> x \in Live(asks, orders, Selling) /\ x.id # id
  BY <1>1, <1>2, <1>3, CanceledLive
<1>5. LiveOrders' = {x \in LiveOrders : x.id # id}
  <2>1. LiveOrders' = Live(bids, orders', Buying) \cup Live(asks, orders', Selling)
    BY <1>1 DEF LiveOrders, Buying, Selling
  <2> QED
    BY <1>4, <2>1 DEF LiveOrders
<1>6. DOMAIN orders' = DOMAIN orders
  BY <1>1, <1>2 DEF Index
<1>7. CASE \E c \in LiveOrders : c.id = id
  <2>1. PICK c \in LiveOrders : c.id = id
    BY <1>7
  <2>2. LiveOrders' = LiveOrders \ {c}
    BY <1>5, <2>1, LiveOnce
  <2>3. Ideal!Cancel(c)
    BY <1>1, <1>6, <2>2, NoOverlap, LiveOrdersAre DEF Ideal!Cancel
  <2> QED
    BY <2>1, <2>3, LiveOrdersAre DEF Ideal!Next
<1>8. CASE ~\E c \in LiveOrders : c.id = id
  <2>1. LiveOrders' = LiveOrders
    BY <1>5, <1>8
  <2> QED
    BY <1>1, <1>6, <2>1, NoAbstractStep
<1> QED
  BY <1>7, <1>8

\* Taking out a canceled order changes no live one.
LEMMA PoppedLive ==
    ASSUME NEW L \in Levels, NEW O \in Index, Placed(L, O), Queued(L, O),
           NEW p \in DOMAIN L, L[p] # <<>>, O[L[p][1].id].canceled,
           NEW N, N = PopFront(L, p), NEW isBuy
    PROVE  Live(N, O, isBuy) = Live(L, O, isBuy)
<1>1. Resting(N) = Resting(L) \ {At(p, L[p][1])}
  BY PopResting
<1>2. O[At(p, L[p][1]).id].canceled
  BY DEF At
<1>3. \A x : x \in Live(N, O, isBuy) <=> x \in Live(L, O, isBuy)
  BY <1>1, <1>2, LiveIs
<1> QED
  BY <1>3

\* Dropping a canceled order does not show in the abstract book.
LEMMA InnerDropIsSilent ==
    ASSUME BookIInv, DropCanceledBid \/ DropCanceledAsk
    PROVE  UNCHANGED Ideal!vars
<1>1. /\ bids \in Levels /\ asks \in Levels /\ orders \in Index
      /\ Placed(bids, orders) /\ Placed(asks, orders)
      /\ Queued(bids, orders) /\ Queued(asks, orders)
  BY SidesAre
<1>2. BothSides /\ orders' = orders /\ priority' = priority /\ trades' = trades
  BY DEF DropCanceledBid, DropCanceledAsk
<1>3. /\ BestBid \in DOMAIN bids /\ bids[BestBid] # <<>> /\ Bid = bids[BestBid][1]
      /\ BestAsk \in DOMAIN asks /\ asks[BestAsk] # <<>> /\ Ask = asks[BestAsk][1]
  BY <1>2, FrontsAre
<1>4. CASE DropCanceledBid
  <2>1. orders[Bid.id].canceled /\ bids' = PopFront(bids, BestBid) /\ asks' = asks
    BY <1>4 DEF DropCanceledBid
  <2>2. Live(bids', orders, Buying) = Live(bids, orders, Buying)
    BY <1>1, <1>3, <2>1, PoppedLive
  <2>3. LiveOrders' = LiveOrders
    BY <1>2, <2>1, <2>2 DEF LiveOrders, Buying, Selling
  <2> QED
    BY <1>2, <2>3, NoAbstractStep
<1>5. CASE DropCanceledAsk
  <2>1. orders[Ask.id].canceled /\ asks' = PopFront(asks, BestAsk) /\ bids' = bids
    BY <1>5 DEF DropCanceledAsk
  <2>2. Live(asks', orders, Selling) = Live(asks, orders, Selling)
    BY <1>1, <1>3, <2>1, PoppedLive
  <2>3. LiveOrders' = LiveOrders
    BY <1>2, <2>1, <2>2 DEF LiveOrders, Buying, Selling
  <2> QED
    BY <1>2, <2>3, NoAbstractStep
<1> QED
  BY <1>4, <1>5

\* Erasing empty levels does not show either.
LEMMA EraseLevelsIsSilent ==
    ASSUME BookIInv, EraseLevels
    PROVE  UNCHANGED Ideal!vars
<1> DEFINE B == {p \in {BestBid} : bids[p] = <<>>}
           A == {p \in {BestAsk} : asks[p] = <<>>}
<1>1. /\ bids' = Erase(bids, B) /\ asks' = Erase(asks, A)
      /\ orders' = orders /\ priority' = priority /\ trades' = trades
  BY DEF EraseLevels
<1>2. bids \in Levels /\ asks \in Levels
  BY SidesAre
<1>3. (\A p \in B : bids[p] = <<>>) /\ (\A p \in A : asks[p] = <<>>)
  OBVIOUS
<1> HIDE DEF B, A
<1>4. Resting(bids') = Resting(bids)
  BY <1>1, <1>2, <1>3, EraseResting
<1>5. Resting(asks') = Resting(asks)
  BY <1>1, <1>2, <1>3, EraseResting
<1>6. /\ Live(bids', orders, Buying) = Live(bids, orders, Buying)
      /\ Live(asks', orders, Selling) = Live(asks, orders, Selling)
  BY <1>4, <1>5, LiveSame
<1>7. LiveOrders' = LiveOrders
  BY <1>1, <1>6 DEF LiveOrders, Buying, Selling
<1> QED
  BY <1>1, <1>7, NoAbstractStep

\* Nor does the return of match().
LEMMA ReturnIsSilent ==
    ASSUME Return \/ UNCHANGED vars
    PROVE  UNCHANGED Ideal!vars
<1>1. bids' = bids /\ asks' = asks /\ orders' = orders /\ priority' = priority /\ trades' = trades
  BY DEF Return, vars, book
<1>2. LiveOrders' = LiveOrders
  BY <1>1 DEF LiveOrders, Buying, Selling
<1> QED
  BY <1>1, <1>2, NoAbstractStep

\* Of the orders resting on L, the ids G are at most that of the front order of
\* level p, and only when it is filled.
OnlyFrontGoes(L, p, size, G) ==
    \A id \in G : Rests(L, id) => id = L[p][1].id /\ L[p][1].quantity = size

\* Filling replaces the front order by what is left of it.
LEMMA FilledLive ==
    ASSUME NEW L \in Levels, NEW O \in Index, Placed(L, O), Queued(L, O),
           NEW p \in DOMAIN L, L[p] # <<>>, ~O[L[p][1].id].canceled,
           NEW size \in Nat, size <= L[p][1].quantity, NEW N, N = FillFront(L, p, size),
           NEW G, OnlyFrontGoes(L, p, size, G),
           NEW M, Without(M, O, G), NEW isBuy,
           NEW a, a = Abstract(At(p, L[p][1]), O, isBuy)
    PROVE  /\ a \in Live(L, O, isBuy)
           /\ Live(N, M, isBuy) = (Live(L, O, isBuy) \ {a}) \cup Ideal!Rest(a, size)
<1> DEFINE front == At(p, L[p][1])
           left  == IF L[p][1].quantity = size THEN {} ELSE {Reduced(front, size)}
<1>1. front.id = L[p][1].id /\ front.quantity = L[p][1].quantity
  BY DEF At
<1>2. front \in Resting(L)
  <2>1. 1 \in 1 .. Len(L[p])
    BY LevelsAre
  <2> QED
    BY <2>1, RestingIs
<1>3. a \in Live(L, O, isBuy)
  BY <1>1, <1>2, LiveIs
<1>4. Resting(N) = (Resting(L) \ {front}) \cup left
  BY FillResting
<1>5. a = Abstract(front, O, isBuy)
  OBVIOUS
<1>6. \A x \in left : /\ x.id = L[p][1].id /\ L[p][1].quantity # size
                      /\ Abstract(x, O, isBuy) = [a EXCEPT !.quantity = a.quantity - size]
  BY <1>1, <1>5 DEF Abstract, Reduced
<1>7. Ideal!Rest(a, size) = {Abstract(x, O, isBuy) : x \in left}
  <2>1. a.quantity = L[p][1].quantity
    BY <1>1, <1>5, AbstractIs
  <2>2. CASE L[p][1].quantity = size
    BY <2>1, <2>2 DEF Ideal!Rest
  <2>3. CASE L[p][1].quantity # size
    <3>1. Ideal!Rest(a, size) = {[a EXCEPT !.quantity = a.quantity - size]}
      BY <2>1, <2>3 DEF Ideal!Rest
    <3>2. left = {Reduced(front, size)}
      BY <2>3
    <3> HIDE DEF front, left
    <3> QED
      BY <1>6, <3>1, <3>2
  <2> QED
    BY <2>2, <2>3
<1> HIDE DEF front, left
<1>8. \A o \in Resting(L) : o.id \in DOMAIN O /\ Rests(L, o.id)
  BY EntryIs
<1>9. ASSUME NEW o \in Resting(L), o # front
      PROVE  M[o.id] = O[o.id] /\ o.id # L[p][1].id
  <2>1. o.id # front.id
    BY <1>2, <1>9, RestOnce
  <2>2. o.id \notin G
    BY <1>1, <1>8, <2>1 DEF OnlyFrontGoes
  <2> QED
    BY <1>1, <1>8, <2>1, <2>2 DEF Without
<1>10. ASSUME NEW o \in left PROVE M[o.id] = O[o.id] /\ ~M[o.id].canceled
  <2>1. o.id = front.id /\ L[p][1].quantity # size
    BY <1>1, <1>6
  <2>2. o.id \notin G /\ o.id \in DOMAIN O
    BY <1>1, <1>2, <1>8, <2>1 DEF OnlyFrontGoes
  <2> QED
    BY <1>1, <2>1, <2>2 DEF Without
<1>11. \A o \in Resting(N) : Abstract(o, M, isBuy) = Abstract(o, O, isBuy) /\ M[o.id] = O[o.id]
  BY <1>4, <1>9, <1>10 DEF Abstract
<1>12. ASSUME NEW o \in Resting(L), o # front PROVE Abstract(o, O, isBuy) # a
  BY <1>1, <1>5, <1>9, <1>12, AbstractIs
<1>13. ASSUME NEW x \in Live(N, M, isBuy)
       PROVE  x \in (Live(L, O, isBuy) \ {a}) \cup Ideal!Rest(a, size)
  <2>1. PICK o \in Resting(N) : ~M[o.id].canceled /\ x = Abstract(o, M, isBuy)
    BY LiveIs
  <2>2. ~O[o.id].canceled /\ x = Abstract(o, O, isBuy)
    BY <1>11, <2>1
  <2>3. CASE o \in left
    BY <1>7, <2>2, <2>3
  <2>4. CASE o \in Resting(L) /\ o # front
    BY <1>12, <2>2, <2>4, LiveIs
  <2> QED
    BY <1>4, <2>3, <2>4
<1>14. ASSUME NEW x \in Live(L, O, isBuy), x # a PROVE x \in Live(N, M, isBuy)
  <2>1. PICK o \in Resting(L) : ~O[o.id].canceled /\ x = Abstract(o, O, isBuy)
    BY LiveIs
  <2>2. o # front /\ o \in Resting(N)
    BY <1>4, <1>5, <1>14, <2>1
  <2>3. ~M[o.id].canceled /\ x = Abstract(o, M, isBuy)
    BY <1>11, <2>1, <2>2
  <2> QED
    BY <2>2, <2>3, LiveIs
<1>15. ASSUME NEW x \in Ideal!Rest(a, size) PROVE x \in Live(N, M, isBuy)
  <2>1. PICK o \in left : x = Abstract(o, O, isBuy)
    BY <1>7
  <2>2. o \in Resting(N) /\ ~M[o.id].canceled /\ x = Abstract(o, M, isBuy)
    BY <1>4, <1>10, <1>11, <2>1
  <2> QED
    BY <2>2, LiveIs
<1> QED
  BY <1>3, <1>13, <1>14, <1>15

\* A live order other than that of the front of a best level is served later.
LEMMA FrontIsBefore ==
    ASSUME NEW L \in Levels, NEW O \in Index, Placed(L, O), Queued(L, O),
           NEW p \in DOMAIN L, L[p] # <<>>, NEW isBuy \in BOOLEAN,
           \A q \in DOMAIN L : IF isBuy THEN p >= q ELSE p <= q,
           NEW a, a = Abstract(At(p, L[p][1]), O, isBuy),
           NEW b \in Live(L, O, isBuy), b # a
    PROVE  Ideal!Before(a, b)
<1>1. PICK o \in Resting(L) : b = Abstract(o, O, isBuy)
  BY LiveIs
<1>2. PICK q \in DOMAIN L : \E i \in 1 .. Len(L[q]) : o = At(q, L[q][i])
  BY RestingIs
<1>3. PICK i \in 1 .. Len(L[q]) : o = At(q, L[q][i])
  BY <1>2
<1>4. q # p \/ i # 1
  BY <1>1, <1>3
<1>5. /\ a.level = p /\ a.isBuy = isBuy /\ a.arrival = O[L[p][1].id].priority
      /\ b.level = q /\ b.arrival = O[L[q][i].id].priority
  BY <1>1, <1>3 DEF Abstract, At
<1>6. p \in Int /\ q \in Int
  BY LevelsAre
<1>7. CASE q # p
  <2>1. isBuy <=> p > q
    BY <1>6, <1>7
  <2> QED
    BY <1>5, <1>7, <2>1 DEF Ideal!Before
<1>8. CASE q = p
  <2>1. \A j \in 1 .. Len(L[p]) : j # 1 => O[L[p][1].id].priority < O[L[p][j].id].priority
    <3>1. Len(L[p]) \in Nat
      BY LevelsAre
    <3>2. \A j \in 1 .. Len(L[p]) : j # 1 => 1 < j /\ 1 \in 1 .. Len(L[p])
      BY <3>1
    <3> QED
      BY <3>2 DEF Queued
  <2>2. O[L[p][1].id].priority < O[L[q][i].id].priority
    BY <1>4, <1>8, <2>1
  <2> QED
    BY <1>5, <1>8, <2>2 DEF Ideal!Before
<1> QED
  BY <1>7, <1>8

\* Of two orders that meet, one is the latest.
LEMMA PrioritiesDiffer ==
    ASSUME BookIInv, BothSides
    PROVE  /\ orders[Bid.id].priority \in Nat /\ orders[Ask.id].priority \in Nat
           /\ orders[Bid.id].priority # orders[Ask.id].priority
<1>1. /\ BestBid \in DOMAIN bids /\ BestAsk \in DOMAIN asks /\ BestBid >= BestAsk
      /\ Bid = bids[BestBid][1] /\ 1 \in 1 .. Len(bids[BestBid])
      /\ Ask = asks[BestAsk][1] /\ 1 \in 1 .. Len(asks[BestAsk])
      /\ Bid.id \in DOMAIN orders /\ Ask.id \in DOMAIN orders /\ Bid.id # Ask.id
  BY FrontsAre
<1>2. orders[Bid.id].priority \in Nat /\ orders[Ask.id].priority \in Nat
  BY <1>1, IndexIs, SidesAre
<1>3. PICK r \in Request : IncomingCrosses(r)
  BY DEF BookIInv, OnlyIncomingCrosses, BothSides
<1>4. Bid.id = r.id \/ Ask.id = r.id
  <2>1. IF r.isBuy THEN HoldsOnly(bids, BestBid, r) ELSE HoldsOnly(asks, BestAsk, r)
    BY <1>1, <1>3 DEF IncomingCrosses
  <2> QED
    BY <1>1, <2>1 DEF HoldsOnly
<1>5. Newest(orders, r.id)
  BY <1>1, <1>3, <1>4 DEF IncomingCrosses
<1> QED
  BY <1>1, <1>2, <1>4, <1>5 DEF Newest

\* A fill is the trade the abstract book demands.
LEMMA FillTrades ==
    ASSUME BookIInv, Fill
    PROVE  Ideal!Next
<1> DEFINE buy  == Abstract(At(BestBid, bids[BestBid][1]), orders, Buying)
           sell == Abstract(At(BestAsk, asks[BestAsk][1]), orders, Selling)
<1>1. /\ BothSides /\ ~orders[Bid.id].canceled /\ ~orders[Ask.id].canceled
      /\ bids' = FillFront(bids, BestBid, FillSize) /\ asks' = FillFront(asks, BestAsk, FillSize)
      /\ orders' = Erase(orders, Gone) /\ priority' = priority
      /\ trades' = Append(trades,
           [existing |-> Existing, aggressor |-> Aggressor,
            aggressorIsBuy |-> Aggressor = Bid.id,
            level |-> orders[Existing].level, size |-> FillSize])
  BY DEF Fill
<1>2. /\ bids \in Levels /\ asks \in Levels /\ orders \in Index
      /\ Placed(bids, orders) /\ Placed(asks, orders)
      /\ Queued(bids, orders) /\ Queued(asks, orders) /\ OneSide(bids, asks)
  BY SidesAre
<1>3. /\ BestBid \in DOMAIN bids /\ BestAsk \in DOMAIN asks
      /\ BestBid \in Int /\ BestAsk \in Int /\ BestBid >= BestAsk
      /\ bids[BestBid] # <<>> /\ Bid = bids[BestBid][1]
      /\ asks[BestAsk] # <<>> /\ Ask = asks[BestAsk][1]
      /\ Bid.quantity \in Nat /\ Ask.quantity \in Nat /\ Bid.id \in Ids /\ Ask.id \in Ids
      /\ orders[Bid.id].level = BestBid /\ orders[Ask.id].level = BestAsk
      /\ Bid.id # Ask.id /\ Rests(bids, Bid.id) /\ Rests(asks, Ask.id)
  BY <1>1, FrontsAre
<1>4. FillSize \in Nat /\ FillSize <= Bid.quantity /\ FillSize <= Ask.quantity
  BY <1>3 DEF FillSize
<1>5. /\ buy.id = Bid.id /\ buy.level = BestBid /\ buy.quantity = Bid.quantity
      /\ buy.arrival = orders[Bid.id].priority /\ buy.isBuy = Buying
      /\ sell.id = Ask.id /\ sell.level = BestAsk /\ sell.quantity = Ask.quantity
      /\ sell.arrival = orders[Ask.id].priority /\ sell.isBuy = Selling
  BY <1>3 DEF Abstract, At
<1>6. \A id \in Gone : /\ Rests(bids, id) => id = Bid.id /\ Bid.quantity = FillSize
                       /\ Rests(asks, id) => id = Ask.id /\ Ask.quantity = FillSize
  BY <1>2, <1>3 DEF Gone, OneSide
<1>7. Without(orders', orders, Gone)
  BY <1>1, <1>2, EraseIndexIs
<1> HIDE DEF buy, sell
<1>8. /\ buy \in Live(bids, orders, Buying)
      /\ Live(bids', orders', Buying) = (Live(bids, orders, Buying) \ {buy}) \cup Ideal!Rest(buy, FillSize)
  <2>1. /\ bids[BestBid] # <<>> /\ ~orders[bids[BestBid][1].id].canceled
        /\ FillSize <= bids[BestBid][1].quantity /\ bids' = FillFront(bids, BestBid, FillSize)
    BY <1>1, <1>3, <1>4
  <2>2. OnlyFrontGoes(bids, BestBid, FillSize, Gone)
    BY <1>3, <1>6 DEF OnlyFrontGoes
  <2>3. buy = Abstract(At(BestBid, bids[BestBid][1]), orders, Buying)
    BY DEF buy
  <2> QED
    BY <1>2, <1>3, <1>4, <1>7, <2>1, <2>2, <2>3, FilledLive
<1>9. /\ sell \in Live(asks, orders, Selling)
      /\ Live(asks', orders', Selling) = (Live(asks, orders, Selling) \ {sell}) \cup Ideal!Rest(sell, FillSize)
  <2>1. /\ asks[BestAsk] # <<>> /\ ~orders[asks[BestAsk][1].id].canceled
        /\ FillSize <= asks[BestAsk][1].quantity /\ asks' = FillFront(asks, BestAsk, FillSize)
    BY <1>1, <1>3, <1>4
  <2>2. OnlyFrontGoes(asks, BestAsk, FillSize, Gone)
    BY <1>3, <1>6 DEF OnlyFrontGoes
  <2>3. sell = Abstract(At(BestAsk, asks[BestAsk][1]), orders, Selling)
    BY DEF sell
  <2> QED
    BY <1>2, <1>3, <1>4, <1>7, <2>1, <2>2, <2>3, FilledLive
<1>10. /\ buy \in LiveOrders /\ sell \in LiveOrders
       /\ buy \notin Live(asks, orders, Selling) /\ sell \notin Live(bids, orders, Buying)
  <2>1. buy \in LiveOrders /\ sell \in LiveOrders
    BY <1>8, <1>9 DEF LiveOrders
  <2> QED
    BY <1>8, <1>9, <2>1, SideIs
<1>11. LiveOrders' = (LiveOrders \ {buy, sell}) \cup Ideal!Rest(buy, FillSize) \cup Ideal!Rest(sell, FillSize)
  <2>1. LiveOrders' = Live(bids', orders', Buying) \cup Live(asks', orders', Selling)
    BY DEF LiveOrders, Buying, Selling
  <2> QED
    BY <1>8, <1>9, <1>10, <2>1 DEF LiveOrders
<1>12. buy \in Ideal!Best(Ideal!Buys)
  <2>1. \A q \in DOMAIN bids : BestBid >= q
    BY <1>2, <1>3, BestIsBest
  <2>2. \A b \in Live(bids, orders, Buying) : buy = b \/ Ideal!Before(buy, b)
    <3> SUFFICES ASSUME NEW b \in Live(bids, orders, Buying), b # buy PROVE Ideal!Before(buy, b)
      OBVIOUS
    <3>1. Buying \in BOOLEAN /\ \A q \in DOMAIN bids : IF Buying THEN BestBid >= q ELSE BestBid <= q
      BY <2>1 DEF Buying
    <3> QED
      BY <1>2, <1>3, <3>1, FrontIsBefore DEF buy
  <2> QED
    BY <1>8, <2>2, BuysAndSells DEF Ideal!Best
<1>13. sell \in Ideal!Best(Ideal!Sells)
  <2>1. \A q \in DOMAIN asks : BestAsk <= q
    BY <1>2, <1>3, BestIsBest
  <2>2. \A b \in Live(asks, orders, Selling) : sell = b \/ Ideal!Before(sell, b)
    <3> SUFFICES ASSUME NEW b \in Live(asks, orders, Selling), b # sell PROVE Ideal!Before(sell, b)
      OBVIOUS
    <3>1. Selling \in BOOLEAN /\ \A q \in DOMAIN asks : IF Selling THEN BestAsk >= q ELSE BestAsk <= q
      BY <2>1 DEF Selling
    <3> QED
      BY <1>2, <1>3, <3>1, FrontIsBefore DEF sell
  <2>3. sell \in Ideal!Sells
    BY <1>10, BuysAndSells, LiveOrdersAre DEF Ideal!Sells
  <2> QED
    BY <2>2, <2>3, BuysAndSells DEF Ideal!Best
<1>14. DOMAIN orders' = DOMAIN orders \ {o.id : o \in {x \in {buy, sell} : x.quantity = FillSize}}
  <2>1. Gone = {o.id : o \in {x \in {buy, sell} : x.quantity = FillSize}}
    BY <1>5 DEF Gone
  <2> QED
    BY <1>7, <2>1 DEF Without
<1> DEFINE size     == IF buy.quantity < sell.quantity THEN buy.quantity ELSE sell.quantity
           existing == IF buy.arrival < sell.arrival THEN buy ELSE sell
           newest   == IF buy.arrival < sell.arrival THEN sell ELSE buy
<1>15. size = FillSize
  BY <1>5 DEF FillSize
<1>16. existing.id = Existing /\ existing.level = orders[Existing].level
  BY <1>3, <1>5 DEF Existing
<1>17. newest.id = Aggressor /\ newest.isBuy = (Aggressor = Bid.id)
  <2>1. /\ orders[Bid.id].priority \in Nat /\ orders[Ask.id].priority \in Nat
        /\ orders[Bid.id].priority # orders[Ask.id].priority
    BY <1>1, PrioritiesDiffer
  <2>2. CASE buy.arrival < sell.arrival
    <3>1. newest = sell /\ Aggressor = Ask.id
      BY <1>5, <2>1, <2>2 DEF Aggressor, BidIsAggressor
    <3>2. sell.isBuy = (Aggressor = Bid.id)
      BY <1>3, <1>5, <3>1 DEF Selling
    <3> QED
      BY <1>5, <3>1, <3>2
  <2>3. CASE ~(buy.arrival < sell.arrival)
    <3>1. newest = buy /\ Aggressor = Bid.id
      BY <1>5, <2>1, <2>3 DEF Aggressor, BidIsAggressor
    <3>2. buy.isBuy = (Aggressor = Bid.id)
      BY <1>5, <3>1 DEF Buying
    <3> QED
      BY <1>5, <3>1, <3>2
  <2> QED
    BY <2>2, <2>3
<1> HIDE DEF existing, newest
<1>18. trades' = Append(trades,
         [existing |-> existing.id, aggressor |-> newest.id,
          aggressorIsBuy |-> newest.isBuy, level |-> existing.level, size |-> FillSize])
  BY <1>1, <1>16, <1>17
<1>19. Ideal!TradeOf(buy, sell)
  BY <1>1, <1>11, <1>14, <1>15, <1>18, LiveOrdersAre DEF Ideal!TradeOf, existing, newest
<1>20. Ideal!Trade
  BY <1>3, <1>5, <1>12, <1>13, <1>19 DEF Ideal!Trade
<1> QED
  BY <1>20 DEF Ideal!Next

\* The book with lazy cancellation only makes the steps of the abstract one: it
\* trades best price first and then earliest arrival, at the price of the order
\* that was there first, for all ids, prices and quantities.  (That every trade
\* that is due is made is left to TLC.)
THEOREM TradesByPriceAndTime == Spec => Ideal!Spec
<1>1. Init => Ideal!Init
  <2> SUFFICES ASSUME Init PROVE Ideal!Init
    OBVIOUS
  <2>1. Resting(bids) = {} /\ Resting(asks) = {}
    BY DEF Init, Resting
  <2>2. LiveOrders = {}
    BY <2>1 DEF LiveOrders, Live
  <2>3. DOMAIN orders = {} /\ priority = 0 /\ trades = <<>>
    BY DEF Init
  <2> QED
    BY <2>2, <2>3, LiveOrdersAre DEF Ideal!Init
<1>2. BookIInv /\ [Next]_vars => [Ideal!Next]_Ideal!vars
  <2> SUFFICES ASSUME BookIInv, [Next]_vars PROVE Ideal!Next \/ UNCHANGED Ideal!vars
    OBVIOUS
  <2>1. ASSUME NEW id \in Ids, NEW level \in Prices, NEW isBuy \in BOOLEAN, NEW quantity \in Quantities,
               AddOrder(id, level, isBuy, quantity)
        PROVE  Ideal!Next
    BY <2>1, AddOrderAdds
  <2>2. ASSUME NEW id \in Ids, AddDuplicate(id) \/ CancelOrder(id)
        PROVE  Ideal!Next \/ UNCHANGED Ideal!vars
    BY <2>2, AddDuplicateRejects, CancelOrderCancels
  <2>3. CASE Match
    BY <2>3, InnerDropIsSilent, FillTrades, EraseLevelsIsSilent, ReturnIsSilent DEF Match
  <2>4. CASE UNCHANGED vars
    BY <2>4, ReturnIsSilent
  <2> QED
    BY <2>1, <2>2, <2>3, <2>4 DEF Next
<1> QED
  BY <1>1, <1>2, BookInvariant, PTL DEF Spec, Ideal!Spec

-----------------------------------------------------------------------------
(* What was traded adds up.                                                *)

\* The sizes of the trades s, as QuantityConserved adds them.
Total(s) == FoldFunction(LAMBDA trade, sum : sum + trade.size, 0, s)

\* g adds up w over the subsets of D, whichever member is taken first.
Adds(g, D, w) ==
    /\ g \in [SUBSET D -> Nat] /\ g[{}] = 0
    /\ \A T \in SUBSET D : \A x \in T : g[T] = w[x] + g[T \ {x}]

\* Naturals are added in any order.
LEMMA EitherFirst == ASSUME NEW a \in Nat, NEW b \in Nat, NEW c \in Nat PROVE a + (b + c) = b + (a + c)
OBVIOUS

\* A family of sets that is not empty has a smallest one, when they are finite.
LEMMA SmallestSet ==
    ASSUME NEW F, F # {}, \A D \in F : IsFiniteSet(D)
    PROVE  \E D \in F : \A C \in F : Cardinality(D) <= Cardinality(C)
<1> DEFINE Sizes == {Cardinality(D) : D \in F}
<1>1. Sizes \in SUBSET Nat /\ Sizes # {}
  BY FS_CardinalityType
<1>2. PICK n \in Sizes : \A m \in Sizes : n <= m
  <2> HIDE DEF Sizes
  <2> QED
    BY <1>1, Smallest
<1> QED
  BY <1>2

\* A set without a member of it is not as large.
LEMMA SmallerSet ==
    ASSUME NEW D, IsFiniteSet(D), NEW x \in D
    PROVE  IsFiniteSet(D \ {x}) /\ ~(Cardinality(D) <= Cardinality(D \ {x}))
<1>1. Cardinality(D \ {x}) = Cardinality(D) - 1 /\ IsFiniteSet(D \ {x})
  BY FS_RemoveElement
<1>2. Cardinality(D) \in Nat
  BY FS_CardinalityType
<1> QED
  BY <1>1, <1>2

\* The naturals of a finite set add up, in any order.
LEMMA SumExists ==
    ASSUME NEW E, IsFiniteSet(E), NEW w \in [E -> Nat]
    PROVE  \E g : Adds(g, E, w)
<1> DEFINE Bad == {D \in SUBSET E : ~\E g : Adds(g, D, w)}
<1>1. \A D \in SUBSET E : IsFiniteSet(D)
  BY FS_Subset
<1>2. SUFFICES ASSUME E \in Bad PROVE FALSE
  OBVIOUS
<1>3. PICK D \in Bad : \A C \in Bad : Cardinality(D) <= Cardinality(C)
  <2>1. Bad # {} /\ \A D \in Bad : IsFiniteSet(D)
    BY <1>1, <1>2
  <2> HIDE DEF Bad
  <2> QED
    BY <2>1, SmallestSet
<1>4. D # {}
  <2>1. Adds([T \in SUBSET {} |-> 0], {}, w)
    BY DEF Adds
  <2> QED
    BY <2>1
<1>5. PICK x \in D : TRUE
  BY <1>4
<1>6. D \ {x} \notin Bad
  <2>1. ~(Cardinality(D) <= Cardinality(D \ {x}))
    BY <1>1, SmallerSet
  <2> HIDE DEF Bad
  <2> QED
    BY <1>3, <2>1
<1>7. PICK g : Adds(g, D \ {x}, w)
  BY <1>6
<1> DEFINE h == [T \in SUBSET D |-> IF x \in T THEN w[x] + g[T \ {x}] ELSE g[T]]
<1>8. w[x] \in Nat /\ \A T \in SUBSET D : T \ {x} \in SUBSET (D \ {x}) /\ g[T \ {x}] \in Nat
  BY <1>7 DEF Adds
<1>9. h \in [SUBSET D -> Nat]
  <2>1. \A T \in SUBSET D : x \notin T => g[T] \in Nat
    BY <1>7 DEF Adds
  <2> QED
    BY <1>8, <2>1
<1>10. h[{}] = 0
  BY <1>7 DEF Adds
<1>11. ASSUME NEW T \in SUBSET D, NEW y \in T PROVE h[T] = w[y] + h[T \ {y}]
  <2>1. T \ {y} \in SUBSET D
    OBVIOUS
  <2>2. CASE y = x
    <3>1. h[T] = w[x] + g[T \ {x}] /\ h[T \ {x}] = g[T \ {x}]
      BY <2>1, <2>2
    <3> HIDE DEF h
    <3> QED
      BY <2>2, <3>1
  <2>3. CASE y # x /\ x \in T
    <3> DEFINE rest == g[(T \ {x}) \ {y}]
    <3>1. h[T] = w[x] + g[T \ {x}] /\ h[T \ {y}] = w[x] + g[(T \ {y}) \ {x}]
      BY <2>1, <2>3
    <3>2. (T \ {y}) \ {x} = (T \ {x}) \ {y}
      OBVIOUS
    <3>3. g[T \ {x}] = w[y] + rest
      BY <1>7, <1>8, <2>3 DEF Adds
    <3>4. w[y] \in Nat /\ w[x] \in Nat /\ rest \in Nat
      BY <1>7, <1>8 DEF Adds
    <3>5. h[T] = w[x] + (w[y] + rest) /\ h[T \ {y}] = w[x] + rest
      <4> HIDE DEF h
      <4> QED
        BY <3>1, <3>2, <3>3
    <3> HIDE DEF h, rest
    <3>6. w[x] + (w[y] + rest) = w[y] + (w[x] + rest)
      BY <3>4, EitherFirst
    <3> QED
      BY <3>5, <3>6
  <2>4. CASE x \notin T
    <3>1. h[T] = g[T] /\ h[T \ {y}] = g[T \ {y}]
      BY <2>1, <2>4
    <3>2. g[T] = w[y] + g[T \ {y}]
      BY <1>7, <2>4 DEF Adds
    <3> HIDE DEF h
    <3> QED
      BY <3>1, <3>2
  <2> QED
    BY <2>2, <2>3, <2>4
<1>12. Adds(h, D, w)
  <2> HIDE DEF h
  <2> QED
    BY <1>9, <1>10, <1>11 DEF Adds
<1> QED
  BY <1>12

\* The fold takes the members of the domain in the order of CHOOSE.
LEMMA TotalChooses ==
    ASSUME NEW s
    PROVE  Total(s) = (CHOOSE g : g = [T \in SUBSET DOMAIN s |->
             IF T = {} THEN 0 ELSE g[T \ {CHOOSE x \in T : TRUE}] + s[CHOOSE x \in T : TRUE].size])[DOMAIN s]
BY DEF Total, FoldFunction, FoldFunctionOnSet, MapThenFoldSet

\* Total is the sum of the sizes, whatever is taken first.
LEMMA TotalIs ==
    ASSUME NEW D, IsFiniteSet(D), NEW w \in [D -> Nat], NEW g, Adds(g, D, w),
           NEW s, DOMAIN s \subseteq D, \A i \in DOMAIN s : w[i] = s[i].size
    PROVE  Total(s) = g[DOMAIN s]
<1> DEFINE P == DOMAIN s
           first(T) == CHOOSE x \in T : TRUE
           Body(f) == [T \in SUBSET P |-> IF T = {} THEN 0 ELSE f[T \ {first(T)}] + s[first(T)].size]
           c == CHOOSE f : f = Body(f)
           r == [T \in SUBSET P |-> g[T]]
<1>1. Total(s) = c[P]
  BY TotalChooses
<1>2. ASSUME NEW T \in SUBSET P, T # {}
      PROVE  /\ first(T) \in T /\ T \ {first(T)} \in SUBSET P
             /\ g[T] = g[T \ {first(T)}] + s[first(T)].size
  <2>1. first(T) \in T
    BY <1>2
  <2> HIDE DEF first
  <2>2. /\ T \in SUBSET D /\ w[first(T)] \in Nat /\ g[T \ {first(T)}] \in Nat
        /\ w[first(T)] = s[first(T)].size
    BY <2>1 DEF Adds
  <2>3. g[T] = w[first(T)] + g[T \ {first(T)}]
    BY <2>1, <2>2 DEF Adds
  <2> QED
    BY <2>1, <2>2, <2>3
<1> HIDE DEF first
<1>3. r = Body(r)
  <2>1. g[{}] = 0
    BY DEF Adds
  <2>2. ASSUME NEW T \in SUBSET P
        PROVE  r[T] = (IF T = {} THEN 0 ELSE r[T \ {first(T)}] + s[first(T)].size)
    BY <1>2, <2>1
  <2> QED
    BY <2>2
<1>4. c = Body(c)
  <2> HIDE DEF Body, r
  <2> QED
    BY <1>3
<1> HIDE DEF c
<1>5. \A T \in SUBSET P : c[T] = (IF T = {} THEN 0 ELSE c[T \ {first(T)}] + s[first(T)].size)
  BY <1>4
<1>6. \A T \in SUBSET P : c[T] = g[T]
  <2> DEFINE Bad == {T \in SUBSET P : c[T] # g[T]}
  <2>1. \A T \in Bad : IsFiniteSet(T)
    BY FS_Subset
  <2>2. SUFFICES ASSUME Bad # {} PROVE FALSE
    OBVIOUS
  <2>3. PICK T \in Bad : \A C \in Bad : Cardinality(T) <= Cardinality(C)
    <3> HIDE DEF Bad
    <3> QED
      BY <2>1, <2>2, SmallestSet
  <2>4. T # {}
    BY <1>5, <2>3 DEF Adds
  <2>5. first(T) \in T /\ T \ {first(T)} \in SUBSET P
    BY <1>2, <2>4
  <2>6. T \ {first(T)} \notin Bad
    <3>1. ~(Cardinality(T) <= Cardinality(T \ {first(T)}))
      BY <2>1, <2>5, SmallerSet
    <3> HIDE DEF Bad
    <3> QED
      BY <2>3, <3>1
  <2>7. c[T \ {first(T)}] = g[T \ {first(T)}]
    BY <2>5, <2>6
  <2>8. c[T] = c[T \ {first(T)}] + s[first(T)].size
    BY <1>5, <2>4
  <2>9. g[T] = g[T \ {first(T)}] + s[first(T)].size
    BY <1>2, <2>4
  <2> QED
    BY <2>7, <2>8, <2>9
<1> QED
  BY <1>1, <1>6

\* One more trade adds its size.
LEMMA TotalGrows ==
    ASSUME NEW s \in Seq(Trade), NEW t \in Trade
    PROVE  Total(s) \in Nat /\ Total(Append(s, t)) = Total(s) + t.size
<1> DEFINE n == Len(s) + 1
           D == 1 .. n
           a == Append(s, t)
           w == [i \in D |-> a[i].size]
<1>1. Len(s) \in Nat /\ n \in Nat /\ DOMAIN s = 1 .. Len(s)
  OBVIOUS
<1>2. a \in Seq(Trade) /\ DOMAIN a = D /\ a[n] = t /\ \A i \in 1 .. Len(s) : a[i] = s[i]
  OBVIOUS
<1>3. \A i \in D : a[i] \in Trade
  BY <1>2
<1>4. \A x \in Trade : x.size \in Nat
  BY DEF Trade
<1> HIDE DEF a
<1>5. w \in [D -> Nat] /\ w[n] = t.size /\ n \in D
  BY <1>1, <1>2, <1>3, <1>4
<1>6. IsFiniteSet(D)
  BY <1>1, FS_Interval
<1>7. PICK g : Adds(g, D, w)
  <2> HIDE DEF w, D
  <2> QED
    BY <1>5, <1>6, SumExists
<1>8. D \ {n} = 1 .. Len(s) /\ 1 .. Len(s) \in SUBSET D
  BY <1>1
<1>9. Total(s) = g[1 .. Len(s)]
  <2>1. \A i \in 1 .. Len(s) : w[i] = s[i].size
    BY <1>2, <1>8
  <2> HIDE DEF w, D
  <2> QED
    BY <1>1, <1>5, <1>6, <1>7, <1>8, <2>1, TotalIs
<1>10. Total(a) = g[D]
  <2>1. DOMAIN a = D /\ \A i \in DOMAIN a : w[i] = a[i].size
    BY <1>2
  <2> HIDE DEF w, D
  <2>2. DOMAIN a \subseteq D
    BY <2>1
  <2>3. Total(a) = g[DOMAIN a]
    BY <1>5, <1>6, <1>7, <2>1, <2>2, TotalIs
  <2> QED
    BY <2>1, <2>3
<1> HIDE DEF w, D
<1>11. g[D] = w[n] + g[D \ {n}] /\ g[D \ {n}] \in Nat
  BY <1>5, <1>7, <1>8 DEF Adds
<1>12. t.size \in Nat
  BY <1>4
<1>13. g[D \ {n}] = Total(s) /\ w[n] = t.size
  BY <1>5, <1>8, <1>9
<1>14. Total(s) \in Nat /\ Total(a) = t.size + Total(s)
  BY <1>10, <1>11, <1>13
<1>15. Total(a) = Total(s) + t.size
  BY <1>12, <1>14
<1> QED
  BY <1>14, <1>15 DEF a

\* Nothing traded adds up to nothing.
LEMMA TotalOfNone == ASSUME NEW s, DOMAIN s = {} PROVE Total(s) = 0
<1> DEFINE D == {}
           w == [i \in D |-> 0]
           g == [T \in SUBSET D |-> 0]
<1>1. Adds(g, D, w) /\ w \in [D -> Nat] /\ g[{}] = 0
  BY DEF Adds
<1>2. IsFiniteSet(D)
  BY FS_EmptySet
<1>3. DOMAIN s \subseteq D /\ \A i \in DOMAIN s : w[i] = s[i].size
  OBVIOUS
<1> HIDE DEF w, g, D
<1>4. Total(s) = g[DOMAIN s]
  BY <1>1, <1>2, <1>3, TotalIs
<1> QED
  BY <1>1, <1>4

\* Of the request r, the trades T have filled what does not rest of it in R any
\* more, unless the index O says that it is canceled.
Covered(r, T, R, O) ==
    /\ r.id \in DOMAIN O /\ ~O[r.id].canceled =>
         \E o \in R : o.id = r.id /\ r.quantity = Total(T) + o.quantity
    /\ r.id \notin DOMAIN O => r.quantity = Total(T)

AllResting == Resting(bids) \cup Resting(asks)
Conserved  == \A r \in incoming : Covered(r, trades, AllResting, orders)

\* No trade has been made of an order that was just added.
LEMMA AddOrderConserves ==
    ASSUME BookIInv, NEW id \in Ids, NEW level \in Prices, NEW isBuy \in BOOLEAN,
           NEW quantity \in Quantities, AddOrder(id, level, isBuy, quantity)
    PROVE  Conserved'
<1> DEFINE order == [id |-> id, quantity |-> quantity]
           r == [id |-> id, level |-> level, isBuy |-> isBuy, quantity |-> quantity]
<1>1. order \in Order /\ quantity \in Nat
  BY OrderAssumption DEF Order
<1>2. /\ bids \in Levels /\ asks \in Levels
      /\ IF isBuy THEN bids' = PushBack(bids, level, order) ELSE asks' = PushBack(asks, level, order)
      /\ orders' = Put(orders, id, [level |-> level, priority |-> priority, canceled |-> FALSE])
      /\ trades' = <<>> /\ incoming' = {r}
  BY SidesAre DEF AddOrder
<1>3. At(level, order) \in AllResting'
  <2>1. CASE isBuy
    <3>1. Resting(bids)' = Resting(bids) \cup {At(level, order)}
      BY <1>1, <1>2, <2>1, PushResting
    <3> QED
      BY <3>1 DEF AllResting
  <2>2. CASE ~isBuy
    <3>1. Resting(asks)' = Resting(asks) \cup {At(level, order)}
      BY <1>1, <1>2, <2>2, PushResting
    <3> QED
      BY <3>1 DEF AllResting
  <2> QED
    BY <2>1, <2>2
<1>4. At(level, order).id = r.id /\ r.quantity = 0 + At(level, order).quantity /\ r.id = id
  BY <1>1 DEF At
<1>5. id \in DOMAIN orders'
  BY <1>2 DEF Put
<1>6. Total(trades') = 0
  <2>1. DOMAIN trades' = {}
    BY <1>2
  <2> QED
    BY <2>1, TotalOfNone
<1> HIDE DEF r, order
<1>7. Covered(r, trades', AllResting', orders')
  BY <1>3, <1>4, <1>5, <1>6 DEF Covered
<1> QED
  BY <1>2, <1>7 DEF Conserved

\* What keeps the trades, the entry of the latest order and the order where it
\* rests unless it is canceled, conserves.
LEMMA SameConserves ==
    ASSUME Conserved, UNCHANGED <<trades, incoming>>, DOMAIN orders' = DOMAIN orders,
           \A id \in DOMAIN orders : orders[id].canceled => orders'[id].canceled,
           \A o \in AllResting : orders[o.id].canceled \/ o \in AllResting'
    PROVE  Conserved'
<1> SUFFICES ASSUME NEW r \in incoming PROVE Covered(r, trades, AllResting', orders')
  BY DEF Conserved
<1>1. Covered(r, trades, AllResting, orders)
  BY DEF Conserved
<1> QED
  BY <1>1 DEF Covered

\* Dropping a canceled order conserves: it was not counted.
LEMMA DropConserves ==
    ASSUME BookIInv, Conserved, DropCanceledBid \/ DropCanceledAsk
    PROVE  Conserved'
<1>1. /\ bids \in Levels /\ asks \in Levels /\ orders \in Index
      /\ Placed(bids, orders) /\ Placed(asks, orders)
      /\ Queued(bids, orders) /\ Queued(asks, orders)
  BY SidesAre
<1>2. BothSides
  BY DEF DropCanceledBid, DropCanceledAsk
<1>3. /\ BestBid \in DOMAIN bids /\ BestAsk \in DOMAIN asks
      /\ bids[BestBid] # <<>> /\ Bid = bids[BestBid][1]
      /\ asks[BestAsk] # <<>> /\ Ask = asks[BestAsk][1]
  BY <1>2, FrontsAre
<1>4. \A p, o : At(p, o).id = o.id
  BY DEF At
<1>5. UNCHANGED <<orders, trades, incoming>>
  BY DEF DropCanceledBid, DropCanceledAsk
<1>6. \A o \in AllResting : orders[o.id].canceled \/ o \in AllResting'
  <2>1. CASE DropCanceledBid
    <3>1. bids' = PopFront(bids, BestBid) /\ asks' = asks /\ orders[Bid.id].canceled
      BY <2>1 DEF DropCanceledBid
    <3>2. Resting(bids') = Resting(bids) \ {At(BestBid, Bid)}
      BY <1>1, <1>3, <3>1, PopResting
    <3>3. AllResting' = Resting(bids') \cup Resting(asks)
      BY <3>1 DEF AllResting
    <3> QED
      BY <1>4, <3>1, <3>2, <3>3 DEF AllResting
  <2>2. CASE DropCanceledAsk
    <3>1. asks' = PopFront(asks, BestAsk) /\ bids' = bids /\ orders[Ask.id].canceled
      BY <2>2 DEF DropCanceledAsk
    <3>2. Resting(asks') = Resting(asks) \ {At(BestAsk, Ask)}
      BY <1>1, <1>3, <3>1, PopResting
    <3>3. AllResting' = Resting(bids) \cup Resting(asks')
      BY <3>1 DEF AllResting
    <3> QED
      BY <1>4, <3>1, <3>2, <3>3 DEF AllResting
  <2> QED
    BY <2>1, <2>2
<1> QED
  BY <1>5, <1>6, SameConserves

\* A fill of size from the front of level p leaves the rest of it there.
LEMMA FrontIsReduced ==
    ASSUME NEW L \in Levels, NEW O \in Index, Placed(L, O), Queued(L, O),
           NEW p \in DOMAIN L, L[p] # <<>>,
           NEW size \in Nat, NEW N, N = FillFront(L, p, size), size <= L[p][1].quantity
    PROVE  /\ At(p, L[p][1]) \in Resting(L)
           /\ L[p][1].quantity # size => \E o \in Resting(N) : o.id = L[p][1].id
                                           /\ o.quantity = L[p][1].quantity - size
<1>1. 1 \in 1 .. Len(L[p])
  BY LevelsAre
<1>2. At(p, L[p][1]) \in Resting(L)
  BY <1>1, RestingIs
<1>3. ASSUME L[p][1].quantity # size
      PROVE  Reduced(At(p, L[p][1]), size) \in Resting(N)
  BY <1>3, FillResting
<1>4. /\ Reduced(At(p, L[p][1]), size).id = L[p][1].id
      /\ Reduced(At(p, L[p][1]), size).quantity = L[p][1].quantity - size
  BY DEF Reduced, At
<1> QED
  BY <1>2, <1>3, <1>4

\* While two orders meet, the latest one is one of them.
LEMMA IncomingMeets ==
    ASSUME BookIInv, BothSides
    PROVE  \E r \in Request : incoming = {r} /\ r.id \in {Bid.id, Ask.id}
<1>1. /\ BestBid \in DOMAIN bids /\ BestAsk \in DOMAIN asks /\ BestBid >= BestAsk
      /\ Bid = bids[BestBid][1] /\ 1 \in 1 .. Len(bids[BestBid])
      /\ Ask = asks[BestAsk][1] /\ 1 \in 1 .. Len(asks[BestAsk])
  BY FrontsAre
<1>2. PICK r \in Request : IncomingCrosses(r)
  BY DEF BookIInv, OnlyIncomingCrosses, BothSides
<1>3. IF r.isBuy THEN HoldsOnly(bids, BestBid, r) ELSE HoldsOnly(asks, BestAsk, r)
  BY <1>1, <1>2 DEF IncomingCrosses
<1>4. r.id \in {Bid.id, Ask.id}
  BY <1>1, <1>3 DEF HoldsOnly
<1> QED
  BY <1>2, <1>4 DEF IncomingCrosses

\* A fill moves its size from what rests of the latest order to what was traded.
LEMMA FillConserves ==
    ASSUME BookIInv, Conserved, Fill
    PROVE  Conserved'
<1>1. /\ BothSides /\ ~orders[Bid.id].canceled /\ ~orders[Ask.id].canceled
      /\ bids' = FillFront(bids, BestBid, FillSize) /\ asks' = FillFront(asks, BestAsk, FillSize)
      /\ orders' = Erase(orders, Gone) /\ incoming' = incoming
  BY DEF Fill
<1>2. /\ bids \in Levels /\ asks \in Levels /\ orders \in Index
      /\ Placed(bids, orders) /\ Placed(asks, orders)
      /\ Queued(bids, orders) /\ Queued(asks, orders) /\ OneSide(bids, asks)
  BY SidesAre
<1>3. /\ BestBid \in DOMAIN bids /\ BestAsk \in DOMAIN asks
      /\ bids[BestBid] # <<>> /\ Bid = bids[BestBid][1]
      /\ asks[BestAsk] # <<>> /\ Ask = asks[BestAsk][1]
      /\ Bid.quantity \in Nat /\ Ask.quantity \in Nat /\ Bid.id \in Ids /\ Ask.id \in Ids
      /\ Bid.id \in DOMAIN orders /\ Ask.id \in DOMAIN orders
      /\ Bid.id # Ask.id /\ Rests(bids, Bid.id) /\ Rests(asks, Ask.id)
  BY <1>1, FrontsAre
<1>4. FillSize \in Nat /\ FillSize <= Bid.quantity /\ FillSize <= Ask.quantity
  BY <1>3 DEF FillSize
<1>5. Total(trades) \in Nat /\ Total(trades') = Total(trades) + FillSize
  <2>1. trades \in Seq(Trade) /\ trades' \in Seq(Trade)
    BY FillKeeps DEF BookIInv, BookTypes
  <2>2. PICK t : trades' = Append(trades, t) /\ t.size = FillSize
    BY DEF Fill
  <2>3. t \in Trade
    <3>1. trades'[Len(trades) + 1] = t /\ Len(trades) + 1 \in 1 .. Len(trades')
      BY <2>1, <2>2
    <3> QED
      BY <2>1, <3>1
  <2> QED
    BY <2>1, <2>2, <2>3, TotalGrows
<1>6. /\ At(BestBid, Bid) \in Resting(bids)
      /\ Bid.quantity # FillSize => \E o \in AllResting' : o.id = Bid.id /\ o.quantity = Bid.quantity - FillSize
  BY <1>1, <1>2, <1>3, <1>4, FrontIsReduced DEF AllResting
<1>7. /\ At(BestAsk, Ask) \in Resting(asks)
      /\ Ask.quantity # FillSize => \E o \in AllResting' : o.id = Ask.id /\ o.quantity = Ask.quantity - FillSize
  BY <1>1, <1>2, <1>3, <1>4, FrontIsReduced DEF AllResting
<1>8. \A o \in AllResting : /\ o.id = Bid.id => o.quantity = Bid.quantity
                            /\ o.id = Ask.id => o.quantity = Ask.quantity
  <2>1. \A o \in Resting(bids) : Rests(bids, o.id) /\ o.id \in Ids
    BY <1>2, EntryIs
  <2>2. \A o \in Resting(asks) : Rests(asks, o.id) /\ o.id \in Ids
    BY <1>2, EntryIs
  <2>3. \A o \in Resting(bids) : o.id = Bid.id => o = At(BestBid, Bid)
    <3>1. At(BestBid, Bid).id = Bid.id
      BY DEF At
    <3> QED
      BY <1>2, <1>6, <3>1, RestOnce
  <2>4. \A o \in Resting(asks) : o.id = Ask.id => o = At(BestAsk, Ask)
    <3>1. At(BestAsk, Ask).id = Ask.id
      BY DEF At
    <3> QED
      BY <1>2, <1>7, <3>1, RestOnce
  <2>5. At(BestBid, Bid).quantity = Bid.quantity /\ At(BestAsk, Ask).quantity = Ask.quantity
    BY DEF At
  <2>6. \A o \in Resting(bids) : o.id # Ask.id
    BY <1>2, <1>3, <2>1 DEF OneSide
  <2>7. \A o \in Resting(asks) : o.id # Bid.id
    BY <1>2, <1>3, <2>2 DEF OneSide
  <2> QED
    BY <2>3, <2>4, <2>5, <2>6, <2>7 DEF AllResting
<1>9. /\ Bid.id \in Gone <=> Bid.quantity = FillSize
      /\ Ask.id \in Gone <=> Ask.quantity = FillSize
  BY <1>3 DEF Gone
<1>10. Without(orders', orders, Gone)
  BY <1>1, <1>2, EraseIndexIs
<1>11. PICK r \in Request : incoming = {r} /\ r.id \in {Bid.id, Ask.id}
  BY <1>1, IncomingMeets
<1>12. Covered(r, trades, AllResting, orders)
  BY <1>11 DEF Conserved
<1>13. ASSUME NEW x \in {Bid, Ask}, r.id = x.id
       PROVE  Covered(r, trades', AllResting', orders')
  <2>1. PICK o \in AllResting : o.id = r.id /\ r.quantity = Total(trades) + o.quantity
    BY <1>1, <1>3, <1>12, <1>13 DEF Covered
  <2>2. r.quantity = Total(trades) + x.quantity
    <3>1. o.id = x.id
      BY <1>13, <2>1
    <3>2. o.quantity = x.quantity
      BY <1>8, <3>1
    <3> QED
      BY <2>1, <3>2
  <2>3. x.quantity \in Nat /\ FillSize <= x.quantity
    BY <1>3, <1>4
  <2>4. CASE x.quantity = FillSize
    <3>1. r.id \notin DOMAIN orders'
      BY <1>3, <1>9, <1>10, <1>13, <2>4 DEF Without
    <3>2. r.quantity = Total(trades')
      BY <1>5, <2>2, <2>4
    <3> QED
      BY <3>1, <3>2 DEF Covered
  <2>5. CASE x.quantity # FillSize
    <3>1. r.id \in DOMAIN orders'
      BY <1>3, <1>9, <1>10, <1>13, <2>5 DEF Without
    <3>2. PICK y \in AllResting' : y.id = r.id /\ y.quantity = x.quantity - FillSize
      BY <1>6, <1>7, <1>13, <2>5
    <3>3. r.quantity = Total(trades') + y.quantity
      BY <1>4, <1>5, <2>2, <2>3, <3>2
    <3> QED
      BY <3>1, <3>2, <3>3 DEF Covered
  <2> QED
    BY <2>4, <2>5
<1>14. Covered(r, trades', AllResting', orders')
  BY <1>11, <1>13
<1> QED
  BY <1>1, <1>11, <1>14 DEF Conserved

\* Erasing empty levels conserves.
LEMMA EraseLevelsConserves ==
    ASSUME BookIInv, Conserved, EraseLevels
    PROVE  Conserved'
<1>1. bids \in Levels /\ asks \in Levels
  BY SidesAre
<1>2. /\ bids' = Erase(bids, {p \in {BestBid} : bids[p] = <<>>})
      /\ asks' = Erase(asks, {p \in {BestAsk} : asks[p] = <<>>})
      /\ UNCHANGED <<orders, trades, incoming>>
  BY DEF EraseLevels
<1>3. Resting(bids') = Resting(bids) /\ Resting(asks') = Resting(asks)
  BY <1>1, <1>2, EraseResting
<1>4. AllResting' = AllResting
  BY <1>3 DEF AllResting
<1> QED
  BY <1>2, <1>4, SameConserves

\* Cancelling marks one entry and moves no order.
LEMMA CancelOrderConserves ==
    ASSUME BookIInv, Conserved, NEW id \in Ids, CancelOrder(id)
    PROVE  Conserved'
<1>1. /\ orders' = [orders EXCEPT ![id].canceled = TRUE]
      /\ UNCHANGED <<bids, asks, trades, incoming>>
  BY DEF CancelOrder, book
<1>2. AllResting' = AllResting
  BY <1>1 DEF AllResting
<1>3. orders \in Index
  BY SidesAre
<1>4. \A k \in DOMAIN orders : orders[k] \in Metadata
  BY <1>3 DEF Index
<1>5. DOMAIN orders' = DOMAIN orders
  BY <1>1
<1>6. \A k \in DOMAIN orders : orders[k].canceled => orders'[k].canceled
  BY <1>1, <1>4 DEF Metadata
<1> QED
  BY <1>1, <1>2, <1>5, <1>6, SameConserves

\* What an order asked for is what was traded of it plus what rests of it,
\* whatever the two sides hold and however often it is filled.
THEOREM QuantityIsConserved == Spec => []QuantityConserved
<1>1. Init => Conserved
  BY DEF Init, Conserved
<1>2. BookIInv /\ Conserved /\ [Next]_vars => Conserved'
  <2> SUFFICES ASSUME BookIInv, Conserved, [Next]_vars PROVE Conserved'
    OBVIOUS
  <2>1. ASSUME NEW id \in Ids, NEW level \in Prices, NEW isBuy \in BOOLEAN, NEW quantity \in Quantities,
               AddOrder(id, level, isBuy, quantity)
        PROVE  Conserved'
    BY <2>1, AddOrderConserves
  <2>2. ASSUME NEW id \in Ids, AddDuplicate(id) PROVE Conserved'
    BY <2>2 DEF AddDuplicate, Conserved
  <2>3. ASSUME NEW id \in Ids, CancelOrder(id) PROVE Conserved'
    BY <2>3, CancelOrderConserves
  <2>4. CASE Match
    <3>1. CASE Return
      BY <3>1 DEF Return, book, Conserved, AllResting
    <3> QED
      BY <2>4, <3>1, DropConserves, FillConserves, EraseLevelsConserves DEF Match
  <2>5. CASE UNCHANGED vars
    BY <2>5 DEF vars, Conserved, AllResting
  <2> QED
    BY <2>1, <2>2, <2>3, <2>4, <2>5 DEF Next
<1>3. BookIInv /\ Conserved => QuantityConserved
  <2> SUFFICES ASSUME BookIInv, Conserved, NEW r \in incoming
               PROVE  LET Left == {o \in AllResting : o.id = r.id /\ ~orders[r.id].canceled}
                      IN \/ \E o \in Left : r.quantity = Total(trades) + o.quantity
                         \/ Left = {} /\ r.quantity = Total(trades)
                         \/ r.id \in DOMAIN orders /\ orders[r.id].canceled
    BY DEF QuantityConserved, Total, AllResting
  <2>1. Covered(r, trades, AllResting, orders)
    BY DEF Conserved
  <2>2. \A o \in AllResting : o.id \in DOMAIN orders
    BY SidesAre, EntryIs DEF AllResting
  <2> QED
    BY <2>1, <2>2 DEF Covered
<1> QED
  BY <1>1, <1>2, <1>3, BookInvariant, PTL DEF Spec
=============================================================================
