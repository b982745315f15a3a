------------------------- MODULE CustomVectorProofs -------------------------
(***************************************************************************)
(* The properties of custom::vector for every set of vectors, buffers and  *)
(* values.  VecIInv adds to independence and leaks what vectors outside    *)
(* their lifetime look like.  The balance of lifetimes is inductive once   *)
(* it is stated buffer by buffer (Balanced), next to VecIInv.              *)
(***************************************************************************)
EXTENDS CustomVector, SequenceTheorems, TLAPS

Cell == Values \cup {Raw}

\* What the properties leave unsaid: vectors outside their lifetime own nothing,
\* and replaced storage stays allocated.
OutsideLifetime ==
    /\ \A v \in Vectors \ constructed : vec[v] = Moved
    /\ \A v \in Vectors : ~Initialized(v) => vec[v] = Moved
    /\ abandoned \subseteq allocated

VecIInv == TypeOK /\ OutsideLifetime /\ StorageIndependent /\ OnlyCopyAssignLeaks

-----------------------------------------------------------------------------
\* Cells without an element.
LEMMA RawCellsAre ==
    ASSUME NEW n \in Nat
    PROVE  /\ RawCells(n) \in Seq(Cell) /\ Len(RawCells(n)) = n
           /\ \A k \in 1 .. n : RawCells(n)[k] = Raw
BY IsASeq DEF RawCells, Cell

\* The first cells hold elems, and the others no element.
LEMMA FilledIs ==
    ASSUME NEW n \in Nat, NEW elems \in Seq(Cell)
    PROVE  /\ Filled(elems, n) \in Seq(Cell) /\ Len(Filled(elems, n)) = n
           /\ \A k \in 1 .. n : Filled(elems, n)[k] = IF k <= Len(elems) THEN elems[k] ELSE Raw
<1>1. \A k \in 1 .. n : (IF k <= Len(elems) THEN elems[k] ELSE Raw) \in Cell
  BY ElementOfSeq, LenProperties DEF Cell
<1> QED
  BY <1>1, IsASeq DEF Filled

\* Destroying elements changes no length.
LEMMA DestroyedIs ==
    ASSUME TypeOK, NEW b \in Buffers, NEW n \in Nat
    PROVE  /\ Destroyed(b, n) \in Seq(Cell) /\ Len(Destroyed(b, n)) = Len(cells[b])
           /\ \A k \in 1 .. Len(cells[b]) : Destroyed(b, n)[k] = IF k <= n THEN Raw ELSE cells[b][k]
<1>1. cells[b] \in Seq(Cell)
  BY DEF TypeOK, Cell
<1>2. DOMAIN cells[b] = 1 .. Len(cells[b]) /\ Len(cells[b]) \in Nat
  BY <1>1, LenProperties
<1>3. \A k \in 1 .. Len(cells[b]) : (IF k <= n THEN Raw ELSE cells[b][k]) \in Cell
  BY <1>1, ElementOfSeq DEF Cell
<1> QED
  BY <1>2, <1>3, IsASeq DEF Destroyed

\* A vector has as many elements as last says: those of its first cells.
LEMMA ContentsIs ==
    ASSUME TypeOK, StorageIndependent, OutsideLifetime, NEW v \in Vectors
    PROVE  /\ Contents(v) \in Seq(Cell) /\ Len(Contents(v)) = vec[v].last
           /\ Initialized(v) => \A k \in 1 .. vec[v].last : Contents(v)[k] = cells[vec[v].first][k]
<1>1. CASE Initialized(v)
  <2>1. v \in constructed /\ vec[v].first \in Buffers /\ vec[v].last \in Nat
    BY <1>1, VectorAssumption DEF OutsideLifetime, Initialized, Moved, TypeOK
  <2>2. cells[vec[v].first] \in Seq(Cell) /\ vec[v].last <= Len(cells[vec[v].first])
    BY <2>1, <1>1 DEF StorageIndependent, TypeOK, Cell
  <2>3. \A k \in 1 .. vec[v].last : cells[vec[v].first][k] \in Cell
    BY <2>1, <2>2, ElementOfSeq, LenProperties
  <2> HIDE DEF Cell
  <2> DEFINE s == cells[vec[v].first]
             n == vec[v].last
  <2>4. /\ SubSeq(s, 1, n) \in Seq(Cell)
        /\ Len(SubSeq(s, 1, n)) = IF 1 <= n THEN n - 1 + 1 ELSE 0
        /\ \A i \in 1 .. n - 1 + 1 : SubSeq(s, 1, n)[i] = s[1 + i - 1]
    <3> HIDE DEF s
    <3>1. \A i \in 1 .. n : s[i] \in Cell
      BY <2>3 DEF s
    <3>2. n \in Int /\ 1 \in Int
      BY <2>1
    <3> HIDE DEF n
    <3> QED
      BY <3>1, <3>2, SubSeqProperties
  <2> QED
    BY <1>1, <2>1, <2>4 DEF Contents
<1>2. CASE ~Initialized(v)
  BY <1>2, EmptySeq DEF Contents, OutsideLifetime, Moved
<1> QED
  BY <1>1, <1>2

\* A copy that throws has copied fewer elements than there are.
LEMMA PartialIs ==
    ASSUME TypeOK, StorageIndependent, OutsideLifetime, NEW v \in Vectors,
           NEW elems \in Partial(Contents(v))
    PROVE  elems \in Seq(Cell) /\ Len(elems) <= vec[v].last
<1> DEFINE s == Contents(v)
<1>1. s \in Seq(Cell) /\ Len(s) = vec[v].last /\ Len(s) \in Nat
  BY ContentsIs, LenProperties
<1>2. PICK k \in 0 .. Len(s) - 1 : elems = SubSeq(s, 1, k)
  BY DEF Partial
<1>3. \A i \in 1 .. k : s[i] \in Cell
  BY <1>1, <1>2, ElementOfSeq
<1>4. SubSeq(s, 1, k) \in Seq(Cell) /\ Len(SubSeq(s, 1, k)) = IF 1 <= k THEN k - 1 + 1 ELSE 0
  <2>1. k \in Int /\ 1 \in Int
    BY <1>1, <1>2
  <2> HIDE DEF s, Cell
  <2> QED
    BY <1>3, <2>1, SubSeqProperties
<1> QED
  BY <1>1, <1>2, <1>4

-----------------------------------------------------------------------------
\* No vector is constructed at first.
LEMMA InitEstablishesVecIInv == ASSUME Init PROVE VecIInv
<1>1. \A v \in Vectors : ~Initialized(v)
  BY DEF Init, Initialized, Moved
<1>2. <<>> \in Seq(Cell)
  BY EmptySeq
<1>3. Moved \in [first : Buffers \cup {NULL}, last : Nat, end : 0 .. MaxCapacity]
  BY VectorAssumption DEF Moved
<1>4. TypeOK
  BY <1>2, <1>3 DEF Init, TypeOK, Cell
<1> QED
  BY <1>1, <1>4 DEF Init, VecIInv, OutsideLifetime, StorageIndependent, OnlyCopyAssignLeaks

\* What every action needs of a vector with storage.
LEMMA StorageIs ==
    ASSUME VecIInv, NEW v \in Vectors, Initialized(v)
    PROVE  /\ v \in constructed /\ vec[v].first \in allocated /\ vec[v].first \in Buffers
           /\ vec[v].last \in Nat /\ vec[v].end \in 0 .. MaxCapacity
           /\ vec[v].last <= vec[v].end /\ vec[v].end = Len(cells[vec[v].first])
           /\ vec[v].first \notin abandoned
           /\ \A w \in Vectors \ {v} : vec[w].first # vec[v].first
<1>1. v \in constructed /\ vec[v].first \in Buffers
  BY VectorAssumption DEF VecIInv, TypeOK, OutsideLifetime, Initialized, Moved
<1>2. /\ vec[v].last \in Nat /\ vec[v].end \in 0 .. MaxCapacity
  BY DEF VecIInv, TypeOK
<1>3. /\ vec[v].first \in allocated /\ vec[v].last <= vec[v].end
      /\ vec[v].end = Len(cells[vec[v].first])
      /\ \A w \in constructed \ {v} : vec[w].first # vec[v].first
  BY <1>1 DEF VecIInv, StorageIndependent
<1>4. \A w \in Vectors \ {v} : vec[w].first # vec[v].first
  BY <1>3 DEF VecIInv, OutsideLifetime, Initialized, Moved
<1>5. vec[v].first \notin abandoned
  BY <1>1, <1>3 DEF VecIInv, OnlyCopyAssignLeaks
<1> QED
  BY <1>1, <1>2, <1>3, <1>4, <1>5

\* A vector without storage is as if moved from.
LEMMA NoStorageIs ==
    ASSUME VecIInv, NEW v \in Vectors, ~Initialized(v)
    PROVE  vec[v].first = NULL /\ vec[v].last = 0 /\ vec[v].end = 0
BY DEF VecIInv, OutsideLifetime, Moved

\* A new vector owns a new buffer.
LEMMA ConstructKeeps ==
    ASSUME VecIInv, NEW v \in Vectors, NEW b \in Buffers, Construct(v, b)
    PROVE  VecIInv'
<1> USE DEF Construct, Fresh, history
<1>1. RawCells(1) \in Seq(Cell) /\ Len(RawCells(1)) = 1
  BY RawCellsAre
<1>2. b \notin allocated /\ b # NULL /\ b \notin abandoned /\ \A w \in Vectors : vec[w].first # b
  BY StorageIs, VectorAssumption DEF Initialized, VecIInv, OutsideLifetime
<1>3. TypeOK'
  <2>1. [first |-> b, last |-> 0, end |-> 1] \in [first : Buffers \cup {NULL}, last : Nat, end : 0 .. MaxCapacity]
    BY VectorAssumption
  <2> QED
    BY <1>1, <2>1 DEF VecIInv, TypeOK, Cell
<1>4. OutsideLifetime'
  BY <1>2 DEF VecIInv, TypeOK, OutsideLifetime, Initialized
<1>5. StorageIndependent'
  <2>1. vec'[v] = [first |-> b, last |-> 0, end |-> 1] /\ \A w \in Vectors \ {v} : vec'[w] = vec[w]
    BY DEF VecIInv, TypeOK
  <2>2. Len(cells'[b]) = 1 /\ \A c \in Buffers \ {b} : cells'[c] = cells[c]
    BY <1>1 DEF VecIInv, TypeOK
  <2>3. v \notin constructed /\ constructed' = constructed \cup {v} /\ allocated' = allocated \cup {b}
    OBVIOUS
  <2>4. SUFFICES ASSUME NEW u \in constructed', Initialized(u)'
                 PROVE  /\ vec'[u].first \in allocated'
                        /\ vec'[u].last <= vec'[u].end /\ vec'[u].end = Len(cells'[vec'[u].first])
                        /\ \A w \in constructed' \ {u} : vec'[w].first # vec'[u].first
    BY DEF StorageIndependent
  <2>5. CASE u = v
    BY <1>2, <2>1, <2>2, <2>3, <2>5 DEF VecIInv, TypeOK
  <2>6. CASE u # v
    <3>1. u \in Vectors /\ Initialized(u) /\ vec'[u] = vec[u]
      BY <2>1, <2>3, <2>4, <2>6 DEF Initialized, VecIInv, TypeOK
    <3> QED
      BY <1>2, <2>1, <2>2, <2>3, <3>1, StorageIs DEF VecIInv, TypeOK
  <2> QED
    BY <2>5, <2>6
<1>6. OnlyCopyAssignLeaks'
  BY <1>2 DEF VecIInv, TypeOK, OnlyCopyAssignLeaks
<1> QED
  BY <1>3, <1>4, <1>5, <1>6 DEF VecIInv

\* One vector exchanges its storage for a new buffer b of n cells, whose
\* first k cells are its elements; the old storage stays allocated and
\* abandoned, or goes.
LEMMA RelocateKeeps ==
    ASSUME VecIInv, NEW v \in Vectors, NEW b \in Buffers, NEW n \in Nat, NEW elems \in Seq(Cell),
           v \in constructed, Len(elems) <= n, Relocate(v, b, n, elems),
           UNCHANGED <<constructed, history>>
    PROVE  VecIInv'
<1> USE DEF Relocate, Fresh, history
<1>1. Filled(elems, n) \in Seq(Cell) /\ Len(Filled(elems, n)) = n
  BY FilledIs
<1>2. b \notin allocated /\ b # NULL /\ b \notin abandoned /\ \A w \in Vectors : vec[w].first # b
  BY StorageIs, VectorAssumption DEF Initialized, VecIInv, OutsideLifetime
<1>3. \A c \in Buffers : cells'[c] \in Seq(Cell) /\ (c # b => Len(cells'[c]) = Len(cells[c]))
  <2> TAKE c \in Buffers
  <2>1. c = vec[v].first => Destroyed(c, vec[v].last) \in Seq(Cell) /\ Len(Destroyed(c, vec[v].last)) = Len(cells[c])
    BY DestroyedIs DEF VecIInv, TypeOK
  <2>2. cells[c] \in Seq(Cell)
    BY DEF VecIInv, TypeOK, Cell
  <2> QED
    BY <1>1, <1>2, <2>1, <2>2
<1>4. cells'[b] = Filled(elems, n)
  BY <1>2
<1>5. Len(elems) \in Nat
  BY LenProperties
<1>6. TypeOK'
  <2>1. [first |-> b, last |-> Len(elems), end |-> n] \in [first : Buffers \cup {NULL}, last : Nat, end : 0 .. MaxCapacity]
    BY <1>5, VectorAssumption
  <2>2. cells' \in [Buffers -> Seq(Cell)]
    <3>1. cells' = [c \in Buffers |-> cells'[c]]
      OBVIOUS
    <3> QED
      BY <3>1, <1>3
  <2>3. vec' \in [Vectors -> [first : Buffers \cup {NULL}, last : Nat, end : 0 .. MaxCapacity]]
    BY <2>1 DEF VecIInv, TypeOK
  <2> QED
    BY <2>2, <2>3 DEF VecIInv, TypeOK, Cell
<1>7. vec'[v] = [first |-> b, last |-> Len(elems), end |-> n] /\ \A w \in Vectors \ {v} : vec'[w] = vec[w]
  BY DEF VecIInv, TypeOK
<1>8. vec[v].first \in Buffers => vec[v].first \notin abandoned /\ \A w \in Vectors \ {v} : vec[w].first # vec[v].first
  BY StorageIs, VectorAssumption DEF Initialized
<1>9. OutsideLifetime'
  BY <1>2, <1>7, <1>8 DEF VecIInv, TypeOK, OutsideLifetime, Initialized
<1>10. StorageIndependent'
  BY <1>1, <1>2, <1>3, <1>4, <1>5, <1>7, <1>8 DEF VecIInv, TypeOK, StorageIndependent, Initialized
<1>11. OnlyCopyAssignLeaks'
  BY <1>2, <1>7, <1>8 DEF VecIInv, TypeOK, OnlyCopyAssignLeaks
<1> QED
  BY <1>6, <1>9, <1>10, <1>11 DEF VecIInv

\* reserve moves the elements to a larger buffer.
LEMMA ReserveKeeps ==
    ASSUME VecIInv, NEW v \in Vectors, NEW b \in Buffers, NEW n \in Nat, Reserve(v, b, n)
    PROVE  VecIInv'
<1>1. Contents(v) \in Seq(Cell) /\ Len(Contents(v)) = vec[v].last
  BY ContentsIs DEF VecIInv
<1>2. vec[v].last <= n
  BY StorageIs, NoStorageIs DEF Reserve, Relocate
<1> QED
  BY <1>1, <1>2, RelocateKeeps DEF Reserve

\* push_back of a full vector makes room for one more element at least.
LEMMA PushBackGrowsKeeps ==
    ASSUME VecIInv, NEW v \in Vectors, NEW x \in Values, NEW b \in Buffers, PushBackGrows(v, x, b)
    PROVE  VecIInv'
<1>1. Contents(v) \in Seq(Cell) /\ Len(Contents(v)) = vec[v].last
  BY ContentsIs DEF VecIInv
<1>2. x \in Cell
  BY DEF Cell
<1>3. Append(Contents(v), x) \in Seq(Cell) /\ Len(Append(Contents(v), x)) = vec[v].last + 1
  <2> HIDE DEF Cell
  <2> QED
    BY <1>1, <1>2, AppendProperties
<1>4. Grown(v) \in Nat /\ vec[v].last + 1 <= Grown(v)
  <2>1. vec[v].last = vec[v].end /\ Grown(v) = IF vec[v].end = 0 THEN 1 ELSE vec[v].end * 2
    BY DEF PushBackGrows, Grown
  <2>2. vec[v].end \in Nat
    BY VectorAssumption DEF VecIInv, TypeOK
  <2> QED
    BY <2>1, <2>2
<1> QED
  BY <1>3, <1>4, RelocateKeeps DEF PushBackGrows

\* A copy that throws during reserve writes only to the new buffer.
LEMMA ReserveThrowsKeeps ==
    ASSUME VecIInv, NEW v \in Vectors, NEW b \in Buffers, NEW n \in Nat, ReserveThrows(v, b, n)
    PROVE  VecIInv'
<1> USE DEF ReserveThrows, Fresh, history
<1>1. PICK elems \in Partial(Contents(v)) : cells' = [cells EXCEPT ![b] = Filled(elems, n)]
  OBVIOUS
<1>2. elems \in Seq(Cell)
  BY PartialIs, <1>1 DEF VecIInv
<1>3. Filled(elems, n) \in Seq(Cell)
  BY <1>2, FilledIs
<1>4. b \notin allocated /\ b # NULL /\ \A w \in Vectors : vec[w].first # b
  BY StorageIs, VectorAssumption DEF Initialized, VecIInv, OutsideLifetime
<1>5. TypeOK' /\ OutsideLifetime' /\ OnlyCopyAssignLeaks'
  BY <1>1, <1>3 DEF VecIInv, TypeOK, OutsideLifetime, OnlyCopyAssignLeaks, Initialized, Cell
<1>6. StorageIndependent'
  BY <1>1, <1>4 DEF VecIInv, TypeOK, StorageIndependent, Initialized
<1> QED
  BY <1>5, <1>6 DEF VecIInv

\* Setting last leaves the other fields.
LEMMA LastReplaced ==
    ASSUME TypeOK, NEW v \in Vectors, NEW n \in Nat
    PROVE  [vec EXCEPT ![v].last = n]
             = [vec EXCEPT ![v] = [first |-> vec[v].first, last |-> n, end |-> vec[v].end]]
<1>1. vec[v] \in [first : Buffers \cup {NULL}, last : Nat, end : 0 .. MaxCapacity]
  BY DEF TypeOK
<1>2. [vec[v] EXCEPT !.last = n] = [first |-> vec[v].first, last |-> n, end |-> vec[v].end]
  BY <1>1
<1> QED
  BY <1>2

\* push_back within the capacity writes inside the storage.
LEMMA PushBackKeeps ==
    ASSUME VecIInv, NEW v \in Vectors, NEW x \in Values, PushBack(v, x)
    PROVE  VecIInv'
<1> USE DEF PushBack, history
<1> DEFINE b == vec[v].first
           k == vec[v].last + 1
<1>1. Initialized(v)
  BY NoStorageIs
<1>2. b \in Buffers /\ k \in 1 .. Len(cells[b]) /\ cells[b] \in Seq(Cell) /\ x \in Cell
  BY <1>1, StorageIs, VectorAssumption DEF VecIInv, TypeOK, Cell
<1>3. [cells[b] EXCEPT ![k] = x] \in Seq(Cell) /\ Len([cells[b] EXCEPT ![k] = x]) = Len(cells[b])
  <2> HIDE DEF b, k, Cell
  <2> QED
    BY <1>2, ExceptSeq
<1>4. cells' = [cells EXCEPT ![b] = [cells[b] EXCEPT ![k] = x]]
  OBVIOUS
<1>5. vec' = [vec EXCEPT ![v] = [first |-> b, last |-> k, end |-> vec[v].end]]
  <2>1. vec[v].last \in Nat /\ k \in Nat
    BY DEF VecIInv, TypeOK
  <2>2. vec' = [vec EXCEPT ![v].last = k]
    OBVIOUS
  <2> HIDE DEF k, b
  <2>3. vec' = [vec EXCEPT ![v] = [first |-> vec[v].first, last |-> k, end |-> vec[v].end]]
    BY <2>1, <2>2, LastReplaced DEF VecIInv
  <2> QED
    BY <2>3 DEF b
<1>6. k <= vec[v].end /\ vec[v].end \in 0 .. MaxCapacity /\ k \in Nat
  BY <1>1, StorageIs, VectorAssumption
<1> HIDE DEF k
<1>7. TypeOK'
  <2>1. cells' \in [Buffers -> Seq(Cell)]
    <3> HIDE DEF Cell, b
    <3>1. cells \in [Buffers -> Seq(Cell)]
      BY DEF VecIInv, TypeOK, Cell
    <3> QED
      BY <3>1, <1>3, <1>4
  <2>2. vec' \in [Vectors -> [first : Buffers \cup {NULL}, last : Nat, end : 0 .. MaxCapacity]]
    <3>1. [first |-> b, last |-> k, end |-> vec[v].end]
            \in [first : Buffers \cup {NULL}, last : Nat, end : 0 .. MaxCapacity]
      BY <1>2, <1>6
    <3>2. vec \in [Vectors -> [first : Buffers \cup {NULL}, last : Nat, end : 0 .. MaxCapacity]]
      BY DEF VecIInv, TypeOK
    <3> HIDE DEF b
    <3> QED
      BY <3>1, <3>2, <1>5
  <2> QED
    BY <2>1, <2>2 DEF VecIInv, TypeOK, Cell
<1>8. vec'[v] = [first |-> b, last |-> k, end |-> vec[v].end] /\ \A w \in Vectors \ {v} : vec'[w] = vec[w]
  BY <1>5 DEF VecIInv, TypeOK
<1>9. \A c \in Buffers : Len(cells'[c]) = Len(cells[c])
  BY <1>2, <1>3, <1>4 DEF VecIInv, TypeOK
<1>10. OutsideLifetime' /\ OnlyCopyAssignLeaks'
  BY <1>1, <1>8, StorageIs DEF VecIInv, TypeOK, OutsideLifetime, OnlyCopyAssignLeaks, Initialized
<1>11. StorageIndependent'
  BY <1>1, <1>6, <1>8, <1>9, StorageIs DEF VecIInv, TypeOK, StorageIndependent, Initialized
<1> QED
  BY <1>7, <1>10, <1>11 DEF VecIInv

\* The pointers stay and at most elements go: the storage of every vector is as
\* long as it was.
LEMMA ShrinkKeeps ==
    ASSUME VecIInv, NEW v \in Vectors, NEW n \in Nat, Initialized(v), n <= vec[v].last,
           vec' = [vec EXCEPT ![v] = [first |-> vec[v].first, last |-> n, end |-> vec[v].end]],
           cells' \in [Buffers -> Seq(Cell)],
           \A c \in Buffers : Len(cells'[c]) = Len(cells[c]),
           UNCHANGED <<constructed, allocated, history>>
    PROVE  VecIInv'
<1> USE DEF history
<1>1. v \in constructed /\ n \in Nat /\ n <= vec[v].end
  BY StorageIs, VectorAssumption
<1>2. TypeOK'
  BY DEF VecIInv, TypeOK, Cell
<1>3. vec'[v] = [first |-> vec[v].first, last |-> n, end |-> vec[v].end]
      /\ \A w \in Vectors \ {v} : vec'[w] = vec[w]
  BY DEF VecIInv, TypeOK
<1>4. OutsideLifetime' /\ OnlyCopyAssignLeaks'
  BY <1>1, <1>3 DEF VecIInv, TypeOK, OutsideLifetime, OnlyCopyAssignLeaks, Initialized
<1>5. StorageIndependent'
  BY <1>1, <1>3, StorageIs DEF VecIInv, TypeOK, StorageIndependent, Initialized
<1> QED
  BY <1>2, <1>4, <1>5 DEF VecIInv

\* pop_back of a vector with elements.
LEMMA PopBackKeeps ==
    ASSUME VecIInv, NEW v \in Vectors, PopBack(v)
    PROVE  VecIInv'
<1> USE DEF PopBack, NonEmpty, DestroyLast
<1> DEFINE b == vec[v].first
           k == vec[v].last
<1>1. Initialized(v)
  BY DEF Contents
<1>2. Contents(v) \in Seq(Cell) /\ Len(Contents(v)) = k
  BY ContentsIs DEF VecIInv
<1>3. k # 0
  <2> HIDE DEF Cell
  <2> QED
    BY <1>2, EmptySeq
<1>4. b \in Buffers /\ k \in 1 .. Len(cells[b]) /\ cells[b] \in Seq(Cell) /\ Raw \in Cell
  BY <1>1, <1>3, StorageIs, VectorAssumption DEF VecIInv, TypeOK, Cell
<1>5. [cells[b] EXCEPT ![k] = Raw] \in Seq(Cell) /\ Len([cells[b] EXCEPT ![k] = Raw]) = Len(cells[b])
  <2> HIDE DEF b, k, Cell
  <2> QED
    BY <1>4, ExceptSeq
<1>6. cells' = [cells EXCEPT ![b] = [cells[b] EXCEPT ![k] = Raw]]
  OBVIOUS
<1>7. vec' = [vec EXCEPT ![v] = [first |-> vec[v].first, last |-> k - 1, end |-> vec[v].end]]
  <2>1. k - 1 \in Nat
    BY <1>4
  <2>2. vec' = [vec EXCEPT ![v].last = k - 1]
    OBVIOUS
  <2> QED
    BY <2>1, <2>2, LastReplaced DEF VecIInv
<1>8. cells' \in [Buffers -> Seq(Cell)] /\ \A c \in Buffers : Len(cells'[c]) = Len(cells[c])
  BY <1>4, <1>5, <1>6 DEF VecIInv, TypeOK, Cell
<1>9. k - 1 \in Nat /\ k - 1 <= k
  BY <1>4
<1> QED
  BY <1>1, <1>7, <1>8, <1>9, ShrinkKeeps

\* Every buffer is as long after the elements of v were destroyed.
LEMMA OwnDestroyedIs ==
    ASSUME VecIInv, NEW v \in Vectors, NEW c \in Buffers
    PROVE  OwnDestroyed(v, c) \in Seq(Cell) /\ Len(OwnDestroyed(v, c)) = Len(cells[c])
<1>1. cells[c] \in Seq(Cell) /\ vec[v].last \in Nat
  BY DEF VecIInv, TypeOK, Cell
<1> QED
  BY <1>1, DestroyedIs DEF OwnDestroyed, VecIInv

\* clear keeps the storage.
LEMMA ClearKeeps ==
    ASSUME VecIInv, NEW v \in Vectors, Clear(v)
    PROVE  VecIInv'
<1> USE DEF Clear
<1>1. vec[v].first \in Buffers /\ vec[v].last \in Nat
  BY StorageIs
<1>2. vec' = [vec EXCEPT ![v] = [first |-> vec[v].first, last |-> 0, end |-> vec[v].end]]
  BY LastReplaced DEF VecIInv
<1>3. cells' \in [Buffers -> Seq(Cell)] /\ \A c \in Buffers : Len(cells'[c]) = Len(cells[c])
  BY <1>1, DestroyedIs DEF VecIInv, TypeOK, Cell
<1>4. 0 \in Nat /\ 0 <= vec[v].last /\ Initialized(v) /\ UNCHANGED <<constructed, allocated, history>>
  BY <1>1
<1> HIDE DEF Clear
<1> QED
  BY <1>2, <1>3, <1>4, ShrinkKeeps

\* A new buffer b holds a copy of other, which v now owns; what v held before,
\* if anything, is destroyed, and its storage left where it is.
LEMMA CopyFromGives ==
    ASSUME VecIInv, NEW v \in Vectors, NEW other \in Vectors, NEW b \in Buffers, CopyFrom(v, other, b)
    PROVE  /\ cells' \in [Buffers -> Seq(Cell)] /\ Len(cells'[b]) = vec[other].last
           /\ \A c \in Buffers \ {b} : Len(cells'[c]) = Len(cells[c])
           /\ b \notin allocated /\ b # NULL /\ b \notin abandoned
           /\ \A w \in Vectors : vec[w].first # b
           /\ vec[other].last \in 0 .. MaxCapacity
           /\ vec' \in [Vectors -> [first : Buffers \cup {NULL}, last : Nat, end : 0 .. MaxCapacity]]
           /\ vec'[v] = [first |-> b, last |-> vec[other].last, end |-> vec[other].last]
           /\ \A w \in Vectors \ {v} : vec'[w] = vec[w]
           /\ allocated' = allocated \cup {b}
<1> USE DEF CopyFrom, Fresh
<1>1. Contents(other) \in Seq(Cell) /\ Len(Contents(other)) = vec[other].last
  BY ContentsIs DEF VecIInv
<1>2. cells' \in [Buffers -> Seq(Cell)] /\ \A c \in Buffers \ {b} : Len(cells'[c]) = Len(cells[c])
  <2>1. cells' = [c \in Buffers |-> IF c = b THEN Contents(other) ELSE OwnDestroyed(v, c)]
    OBVIOUS
  <2> HIDE DEF Cell, CopyFrom
  <2> QED
    BY <1>1, <2>1, OwnDestroyedIs
<1>3. b \notin allocated /\ b # NULL /\ b \notin abandoned /\ \A w \in Vectors : vec[w].first # b
  BY StorageIs, VectorAssumption DEF Initialized, VecIInv, OutsideLifetime
<1>4. vec[other].last \in 0 .. MaxCapacity
  BY StorageIs, NoStorageIs, VectorAssumption
<1>5. [first |-> b, last |-> vec[other].last, end |-> vec[other].last]
        \in [first : Buffers \cup {NULL}, last : Nat, end : 0 .. MaxCapacity]
  BY <1>4
<1>6. vec \in [Vectors -> [first : Buffers \cup {NULL}, last : Nat, end : 0 .. MaxCapacity]]
  BY DEF VecIInv, TypeOK
<1> QED
  BY <1>1, <1>2, <1>3, <1>4, <1>5, <1>6

\* A copy that throws changes only what the buffers hold, not their length where
\* it matters.
LEMMA CopyFromThrowsKeeps ==
    ASSUME VecIInv, NEW v \in Vectors, NEW other \in Vectors, NEW b \in Buffers,
           CopyFromThrows(v, other, b), UNCHANGED <<constructed, history>>
    PROVE  VecIInv'
<1> USE DEF history
<1>1. /\ b \in Buffers \ allocated /\ UNCHANGED <<vec, allocated>>
      /\ \E elems \in Partial(Contents(other)) :
           cells' = [c \in Buffers |->
                       IF c = b THEN Filled(elems, vec[other].last) ELSE OwnDestroyed(v, c)]
  BY DEF CopyFromThrows, Fresh
<1>2. PICK elems \in Partial(Contents(other)) :
           cells' = [c \in Buffers |->
                       IF c = b THEN Filled(elems, vec[other].last) ELSE OwnDestroyed(v, c)]
  BY <1>1
<1>3. elems \in Seq(Cell) /\ vec[other].last \in Nat
  BY <1>2, PartialIs DEF VecIInv, TypeOK
<1>4. Filled(elems, vec[other].last) \in Seq(Cell)
  BY <1>3, FilledIs
<1>5. cells' \in [Buffers -> Seq(Cell)] /\ \A c \in Buffers \ {b} : Len(cells'[c]) = Len(cells[c])
  <2> HIDE DEF Cell
  <2> QED
    BY <1>2, <1>4, OwnDestroyedIs
<1>6. \A w \in Vectors : vec[w].first # b
  BY <1>1, StorageIs, VectorAssumption DEF Initialized
<1>7. TypeOK' /\ OutsideLifetime' /\ OnlyCopyAssignLeaks'
  BY <1>1, <1>5 DEF VecIInv, TypeOK, OutsideLifetime, OnlyCopyAssignLeaks, Initialized, Cell
<1>8. StorageIndependent'
  BY <1>1, <1>5, <1>6 DEF VecIInv, TypeOK, StorageIndependent, Initialized
<1> QED
  BY <1>7, <1>8 DEF VecIInv

\* Whether v was constructed before or not, after a copy that does not throw it
\* is the only owner of its buffer.
LEMMA CopyFromKeeps ==
    ASSUME VecIInv, NEW v \in Vectors, NEW other \in Vectors, NEW b \in Buffers,
           CopyFrom(v, other, b),
           constructed' = constructed \cup {v}, copyThrows' = copyThrows,
           abandoned' = IF Initialized(v) THEN abandoned \cup {vec[v].first} ELSE abandoned
    PROVE  VecIInv'
<1>1. /\ cells' \in [Buffers -> Seq(Cell)] /\ Len(cells'[b]) = vec[other].last
      /\ \A c \in Buffers \ {b} : Len(cells'[c]) = Len(cells[c])
      /\ b \notin allocated /\ b # NULL /\ b \notin abandoned
      /\ \A w \in Vectors : vec[w].first # b
      /\ vec[other].last \in 0 .. MaxCapacity
      /\ vec' \in [Vectors -> [first : Buffers \cup {NULL}, last : Nat, end : 0 .. MaxCapacity]]
      /\ vec'[v] = [first |-> b, last |-> vec[other].last, end |-> vec[other].last]
      /\ \A w \in Vectors \ {v} : vec'[w] = vec[w]
      /\ allocated' = allocated \cup {b}
  BY CopyFromGives
<1>2. Initialized(v) =>
        /\ v \in constructed /\ vec[v].first \in allocated /\ vec[v].first \in Buffers
        /\ \A w \in Vectors \ {v} : vec[w].first # vec[v].first
  BY StorageIs
<1>3. TypeOK'
  BY <1>1, <1>2 DEF VecIInv, TypeOK, Cell
<1>4. OutsideLifetime'
  <2>1. \A w \in Vectors \ constructed' : vec'[w] = Moved
    BY <1>1 DEF VecIInv, OutsideLifetime
  <2>2. \A w \in Vectors : vec'[w].first = NULL => vec'[w] = Moved
    BY <1>1 DEF VecIInv, OutsideLifetime, Initialized
  <2>3. abandoned' \subseteq allocated'
    BY <1>1, <1>2 DEF VecIInv, OutsideLifetime
  <2> QED
    BY <2>1, <2>2, <2>3 DEF OutsideLifetime, Initialized
<1>5. OnlyCopyAssignLeaks'
  <2>1. CASE Initialized(v)
    <3>1. SUFFICES ASSUME NEW c \in allocated'
                   PROVE  c \in abandoned' <=> ~\E w \in constructed' : vec'[w].first = c
      BY DEF OnlyCopyAssignLeaks
    <3>2. CASE c = b
      BY <1>1, <1>2, <2>1, <3>2 DEF VecIInv, TypeOK
    <3>3. CASE c = vec[v].first
      BY <1>1, <1>2, <2>1, <3>3 DEF VecIInv, TypeOK
    <3>4. CASE c # b /\ c # vec[v].first
      <4>1. c \in allocated /\ (c \in abandoned' <=> c \in abandoned)
        BY <1>1, <2>1, <3>4
      <4>2. (\E w \in constructed' : vec'[w].first = c) <=> \E w \in constructed : vec[w].first = c
        <5>1. constructed \subseteq Vectors /\ constructed' = constructed \cup {v}
          BY DEF VecIInv, TypeOK
        <5>2. vec'[v].first # c /\ \A w \in Vectors \ {v} : vec'[w].first = vec[w].first
          BY <1>1, <3>4
        <5> QED
          BY <5>1, <5>2, <3>4
      <4> QED
        BY <4>1, <4>2 DEF VecIInv, OnlyCopyAssignLeaks
    <3> QED
      BY <3>2, <3>3, <3>4
  <2>2. CASE ~Initialized(v)
    <3>1. vec[v].first = NULL
      BY <2>2, NoStorageIs
    <3>2. SUFFICES ASSUME NEW c \in allocated'
                   PROVE  c \in abandoned <=> ~\E w \in constructed' : vec'[w].first = c
      BY <2>2 DEF OnlyCopyAssignLeaks
    <3>3. CASE c = b
      BY <1>1, <3>3 DEF VecIInv, TypeOK
    <3>4. CASE c # b
      <4>1. c \in allocated /\ c # NULL
        BY <1>1, <3>4, VectorAssumption DEF VecIInv, TypeOK
      <4>2. (\E w \in constructed' : vec'[w].first = c) <=> \E w \in constructed : vec[w].first = c
        <5>1. constructed \subseteq Vectors /\ constructed' = constructed \cup {v}
          BY DEF VecIInv, TypeOK
        <5>2. vec'[v].first # c /\ vec[v].first # c
              /\ \A w \in Vectors \ {v} : vec'[w].first = vec[w].first
          BY <1>1, <3>1, <3>4, <4>1
        <5> QED
          BY <5>1, <5>2
      <4> QED
        BY <4>1, <4>2 DEF VecIInv, OnlyCopyAssignLeaks
    <3> QED
      BY <3>3, <3>4
  <2> QED
    BY <2>1, <2>2
<1>6. StorageIndependent'
  <2>1. SUFFICES ASSUME NEW u \in constructed', Initialized(u)'
                 PROVE  /\ vec'[u].first \in allocated'
                        /\ vec'[u].last <= vec'[u].end /\ vec'[u].end = Len(cells'[vec'[u].first])
                        /\ \A w \in constructed' \ {u} : vec'[w].first # vec'[u].first
    BY DEF StorageIndependent
  <2>2. CASE u = v
    BY <1>1, <2>2 DEF VecIInv, TypeOK
  <2>3. CASE u # v
    <3>1. u \in Vectors /\ Initialized(u) /\ vec'[u] = vec[u]
      BY <1>1, <2>1, <2>3 DEF Initialized, VecIInv, TypeOK
    <3>2. /\ vec[u].first \in allocated /\ vec[u].first \in Buffers
          /\ vec[u].last <= vec[u].end /\ vec[u].end = Len(cells[vec[u].first])
          /\ \A w \in Vectors \ {u} : vec[w].first # vec[u].first
      BY <3>1, StorageIs
    <3>3. vec[u].first # b /\ \A w \in Vectors \ {u} : vec'[w].first # vec[u].first
      BY <1>1, <3>2
    <3>4. constructed' \subseteq Vectors
      BY DEF VecIInv, TypeOK
    <3> QED
      BY <1>1, <3>1, <3>2, <3>3, <3>4
  <2> QED
    BY <2>2, <2>3
<1> QED
  BY <1>3, <1>4, <1>5, <1>6 DEF VecIInv

\* The copy constructor, which may throw.
LEMMA CopyConstructKeeps ==
    ASSUME VecIInv, NEW v \in Vectors, NEW other \in Vectors, NEW b \in Buffers,
           CopyConstruct(v, other, b)
    PROVE  VecIInv'
<1>1. v \notin constructed /\ UNCHANGED history
  BY DEF CopyConstruct
<1>2. ~Initialized(v)
  BY <1>1, StorageIs
<1>3. CASE CopyFrom(v, other, b) /\ constructed' = constructed \cup {v}
  BY <1>1, <1>2, <1>3, CopyFromKeeps DEF history
<1>4. CASE CopyFromThrows(v, other, b) /\ UNCHANGED constructed
  BY <1>1, <1>4, CopyFromThrowsKeeps
<1> QED
  BY <1>3, <1>4 DEF CopyConstruct

\* Copy assignment, which may throw.
LEMMA CopyAssignKeeps ==
    ASSUME VecIInv, NEW v \in Vectors, NEW other \in Vectors, NEW b \in Buffers,
           CopyAssign(v, other, b)
    PROVE  VecIInv'
<1>1. v \in constructed /\ Initialized(v) /\ UNCHANGED <<copyThrows, constructed>>
  BY DEF CopyAssign
<1>2. CASE CopyFrom(v, other, b) /\ abandoned' = abandoned \cup {vec[v].first}
  <2>1. constructed' = constructed \cup {v}
    BY <1>1
  <2> QED
    BY <1>1, <1>2, <2>1, CopyFromKeeps
<1>3. CASE CopyFromThrows(v, other, b) /\ UNCHANGED abandoned
  BY <1>1, <1>3, CopyFromThrowsKeeps DEF history
<1> QED
  BY <1>2, <1>3 DEF CopyAssign

\* The move constructor: one buffer changes its owner.
LEMMA MoveConstructKeeps ==
    ASSUME VecIInv, NEW v \in Vectors, NEW other \in Vectors, MoveConstruct(v, other)
    PROVE  VecIInv'
<1>1. /\ v \notin constructed /\ other \in constructed /\ v # other
      /\ vec' = [vec EXCEPT ![v] = vec[other], ![other] = Moved]
      /\ constructed' = constructed \cup {v}
      /\ UNCHANGED <<cells, allocated, abandoned, copyThrows>>
  BY DEF MoveConstruct, StealFrom, history
<1>2. Moved \in [first : Buffers \cup {NULL}, last : Nat, end : 0 .. MaxCapacity] /\ Moved.first = NULL
  BY VectorAssumption DEF Moved
<1>3. vec'[v] = vec[other] /\ vec'[other] = Moved /\ \A w \in Vectors \ {v, other} : vec'[w] = vec[w]
  BY <1>1 DEF VecIInv, TypeOK
<1>4. vec[v].first = NULL
  BY <1>1, StorageIs, NoStorageIs
<1>5. TypeOK'
  BY <1>1, <1>2 DEF VecIInv, TypeOK
<1>6. OutsideLifetime'
  BY <1>1, <1>2, <1>3 DEF VecIInv, TypeOK, OutsideLifetime, Initialized
<1>7. OnlyCopyAssignLeaks'
  <2>1. SUFFICES ASSUME NEW c \in allocated'
                 PROVE  c \in abandoned' <=> ~\E w \in constructed' : vec'[w].first = c
    BY DEF OnlyCopyAssignLeaks
  <2>2. c \in allocated /\ c \in Buffers /\ c # NULL /\ c # vec[v].first
    BY <1>1, <1>4, VectorAssumption DEF VecIInv, TypeOK
  <2>3. (\E w \in constructed' : vec'[w].first = c) <=> \E w \in constructed : vec[w].first = c
    BY <1>1, <1>2, <1>3, <2>2 DEF VecIInv, TypeOK
  <2> QED
    BY <1>1, <2>2, <2>3 DEF VecIInv, OnlyCopyAssignLeaks
<1>8. StorageIndependent'
  BY <1>1, <1>2, <1>3, StorageIs DEF VecIInv, TypeOK, StorageIndependent, Initialized
<1> QED
  BY <1>5, <1>6, <1>7, <1>8 DEF VecIInv

\* v gives up its storage, which is deleted, and takes that of other.
LEMMA ReleaseGives ==
    ASSUME VecIInv, NEW v \in Vectors, ReleaseStorage(v)
    PROVE  /\ cells' \in [Buffers -> Seq(Cell)]
           /\ \A c \in Buffers : Len(cells'[c]) = Len(cells[c])
           /\ allocated' = allocated \ {vec[v].first}
           /\ \A w \in Vectors \ {v} : Initialized(w) => vec[w].first # vec[v].first
           /\ vec[v].first \notin abandoned
<1>1. cells' = [c \in Buffers |-> OwnDestroyed(v, c)] /\ allocated' = allocated \ {vec[v].first}
  BY DEF ReleaseStorage
<1>2. cells' \in [Buffers -> Seq(Cell)] /\ \A c \in Buffers : Len(cells'[c]) = Len(cells[c])
  <2> HIDE DEF Cell
  <2> QED
    BY <1>1, OwnDestroyedIs
<1>3. \A w \in Vectors \ {v} : Initialized(w) => vec[w].first # vec[v].first
  BY StorageIs
<1>4. vec[v].first \notin abandoned
  <2>1. CASE Initialized(v)
    BY <2>1, StorageIs
  <2>2. CASE ~Initialized(v)
    BY <2>2, NoStorageIs, VectorAssumption DEF VecIInv, TypeOK
  <2> QED
    BY <2>1, <2>2
<1> QED
  BY <1>1, <1>2, <1>3, <1>4

\* Move assignment.
LEMMA MoveAssignKeeps ==
    ASSUME VecIInv, NEW v \in Vectors, NEW other \in Vectors, MoveAssign(v, other)
    PROVE  VecIInv'
<1>1. /\ v \in constructed /\ other \in constructed /\ v # other /\ Initialized(v)
      /\ ReleaseStorage(v)
      /\ vec' = [vec EXCEPT ![v] = vec[other], ![other] = Moved]
      /\ UNCHANGED <<constructed, abandoned, copyThrows>>
  BY DEF MoveAssign, StealFrom, history
<1>2. Moved \in [first : Buffers \cup {NULL}, last : Nat, end : 0 .. MaxCapacity] /\ Moved.first = NULL
  BY VectorAssumption DEF Moved
<1>3. vec'[v] = vec[other] /\ vec'[other] = Moved /\ \A w \in Vectors \ {v, other} : vec'[w] = vec[w]
  BY <1>1 DEF VecIInv, TypeOK
<1>4. /\ cells' \in [Buffers -> Seq(Cell)]
      /\ \A c \in Buffers : Len(cells'[c]) = Len(cells[c])
      /\ allocated' = allocated \ {vec[v].first}
      /\ \A w \in Vectors \ {v} : Initialized(w) => vec[w].first # vec[v].first
      /\ vec[v].first \notin abandoned
  BY <1>1, ReleaseGives
<1>5. TypeOK'
  BY <1>1, <1>2, <1>4 DEF VecIInv, TypeOK, Cell
<1>6. OutsideLifetime'
  BY <1>1, <1>2, <1>3, <1>4 DEF VecIInv, TypeOK, OutsideLifetime, Initialized
<1>7. OnlyCopyAssignLeaks'
  <2>1. SUFFICES ASSUME NEW c \in allocated'
                 PROVE  c \in abandoned' <=> ~\E w \in constructed' : vec'[w].first = c
    BY DEF OnlyCopyAssignLeaks
  <2>2. c \in allocated /\ c \in Buffers /\ c # NULL /\ c # vec[v].first
    BY <1>1, <1>4, VectorAssumption DEF VecIInv, TypeOK
  <2>3. (\E w \in constructed' : vec'[w].first = c) <=> \E w \in constructed : vec[w].first = c
    BY <1>1, <1>2, <1>3, <2>2 DEF VecIInv, TypeOK
  <2> QED
    BY <1>1, <2>2, <2>3 DEF VecIInv, OnlyCopyAssignLeaks
<1>8. StorageIndependent'
  <2>1. SUFFICES ASSUME NEW u \in constructed', Initialized(u)'
                 PROVE  /\ vec'[u].first \in allocated'
                        /\ vec'[u].last <= vec'[u].end /\ vec'[u].end = Len(cells'[vec'[u].first])
                        /\ \A w \in constructed' \ {u} : vec'[w].first # vec'[u].first
    BY DEF StorageIndependent
  <2>2. PICK f \in Vectors \ {v} :
          /\ Initialized(f) /\ vec'[u] = vec[f]
          /\ IF u = v THEN f = other ELSE f = u /\ u # other
    BY <1>1, <1>2, <1>3, <2>1 DEF VecIInv, TypeOK, Initialized
  <2>3. /\ vec[f].first \in allocated /\ vec[f].first \in Buffers
        /\ vec[f].last <= vec[f].end /\ vec[f].end = Len(cells[vec[f].first])
        /\ \A w \in Vectors \ {f} : vec[w].first # vec[f].first
    BY <2>2, StorageIs
  <2>4. \A w \in Vectors \ {u} : vec'[w].first # vec[f].first
    <3> SUFFICES ASSUME NEW w \in Vectors \ {u} PROVE vec'[w].first # vec[f].first
      OBVIOUS
    <3>1. CASE w = other
      BY <1>2, <1>3, <2>3, <3>1, VectorAssumption
    <3>2. CASE w = v
      <4>1. vec'[w] = vec[other] /\ f = u /\ f # other
        BY <1>3, <2>2, <3>2
      <4> QED
        BY <2>3, <4>1
    <3>3. CASE w \notin {v, other}
      <4>1. vec'[w] = vec[w] /\ w # f
        BY <1>3, <2>2, <3>3
      <4> QED
        BY <2>3, <4>1
    <3> QED
      BY <3>1, <3>2, <3>3
  <2> QED
    BY <1>1, <1>4, <2>2, <2>3, <2>4 DEF VecIInv, TypeOK
<1> QED
  BY <1>5, <1>6, <1>7, <1>8 DEF VecIInv

\* The destructor.
LEMMA DestructKeeps ==
    ASSUME VecIInv, NEW v \in Vectors, Destruct(v)
    PROVE  VecIInv'
<1>1. /\ v \in constructed /\ ReleaseStorage(v)
      /\ vec' = [vec EXCEPT ![v] = Moved] /\ constructed' = constructed \ {v}
      /\ UNCHANGED <<abandoned, copyThrows>>
  BY DEF Destruct, history
<1>2. Moved \in [first : Buffers \cup {NULL}, last : Nat, end : 0 .. MaxCapacity] /\ Moved.first = NULL
  BY VectorAssumption DEF Moved
<1>3. vec'[v] = Moved /\ \A w \in Vectors \ {v} : vec'[w] = vec[w]
  BY <1>1 DEF VecIInv, TypeOK
<1>4. /\ cells' \in [Buffers -> Seq(Cell)]
      /\ \A c \in Buffers : Len(cells'[c]) = Len(cells[c])
      /\ allocated' = allocated \ {vec[v].first}
      /\ \A w \in Vectors \ {v} : Initialized(w) => vec[w].first # vec[v].first
      /\ vec[v].first \notin abandoned
  BY <1>1, ReleaseGives
<1>5. TypeOK'
  BY <1>1, <1>2, <1>4 DEF VecIInv, TypeOK, Cell
<1>6. OutsideLifetime'
  BY <1>1, <1>2, <1>3, <1>4 DEF VecIInv, TypeOK, OutsideLifetime, Initialized
<1>7. OnlyCopyAssignLeaks'
  <2>1. SUFFICES ASSUME NEW c \in allocated'
                 PROVE  c \in abandoned' <=> ~\E w \in constructed' : vec'[w].first = c
    BY DEF OnlyCopyAssignLeaks
  <2>2. c \in allocated /\ c \in Buffers /\ c # NULL /\ c # vec[v].first
    BY <1>1, <1>4, VectorAssumption DEF VecIInv, TypeOK
  <2>3. (\E w \in constructed' : vec'[w].first = c) <=> \E w \in constructed : vec[w].first = c
    BY <1>1, <1>2, <1>3, <2>2 DEF VecIInv, TypeOK
  <2> QED
    BY <1>1, <2>2, <2>3 DEF VecIInv, OnlyCopyAssignLeaks
<1>8. StorageIndependent'
  <2>1. SUFFICES ASSUME NEW u \in constructed', Initialized(u)'
                 PROVE  /\ vec'[u].first \in allocated'
                        /\ vec'[u].last <= vec'[u].end /\ vec'[u].end = Len(cells'[vec'[u].first])
                        /\ \A w \in constructed' \ {u} : vec'[w].first # vec'[u].first
    BY DEF StorageIndependent
  <2>2. u \in Vectors \ {v} /\ Initialized(u) /\ vec'[u] = vec[u]
    BY <1>1, <1>3, <2>1 DEF VecIInv, TypeOK, Initialized
  <2>3. /\ vec[u].first \in allocated /\ vec[u].first \in Buffers
        /\ vec[u].last <= vec[u].end /\ vec[u].end = Len(cells[vec[u].first])
        /\ \A w \in Vectors \ {u} : vec[w].first # vec[u].first
    BY <2>2, StorageIs
  <2> QED
    BY <1>1, <1>3, <1>4, <2>2, <2>3 DEF VecIInv, TypeOK
<1> QED
  BY <1>5, <1>6, <1>7, <1>8 DEF VecIInv

-----------------------------------------------------------------------------
(* Lifetimes.                                                              *)

\* Buffer b has one owner, which says how many of its cells hold an element, or
\* none, and then no cell does.
Balanced(b) ==
    \/ \E v \in constructed :
          /\ vec[v].first = b
          /\ \A k \in 1 .. Len(cells[b]) : cells[b][k] # Raw <=> k <= vec[v].last
    \/ /\ \A v \in constructed : vec[v].first # b
       /\ \A k \in 1 .. Len(cells[b]) : cells[b][k] = Raw

AllBalanced == \A b \in Buffers : Balanced(b)

\* One owner at most and a balance per buffer are the balance of all.
LEMMA BalancedIsBalance ==
    ASSUME VecIInv, AllBalanced
    PROVE  LifetimesBalance
<1> SUFFICES ASSUME NEW b \in Buffers, NEW k \in DOMAIN cells[b]
             PROVE  cells[b][k] # Raw <=> \E v \in constructed : vec[v].first = b /\ k <= vec[v].last
  BY DEF LifetimesBalance
<1>1. k \in 1 .. Len(cells[b])
  BY LenProperties DEF VecIInv, TypeOK
<1>2. CASE \E v \in constructed : vec[v].first = b
  <2>1. PICK v \in constructed :
          vec[v].first = b /\ \A i \in 1 .. Len(cells[b]) : cells[b][i] # Raw <=> i <= vec[v].last
    BY <1>2 DEF AllBalanced, Balanced
  <2>2. \A w \in constructed \ {v} : vec[w].first # b
    BY <2>1, VectorAssumption DEF VecIInv, StorageIndependent, Initialized
  <2> QED
    BY <1>1, <2>1, <2>2
<1>3. CASE \A v \in constructed : vec[v].first # b
  BY <1>1, <1>3 DEF AllBalanced, Balanced
<1> QED
  BY <1>2, <1>3

\* The storage of v, and what its elements are.
LEMMA OwnedCells ==
    ASSUME VecIInv, AllBalanced, NEW v \in Vectors, Initialized(v)
    PROVE  \A k \in 1 .. Len(cells[vec[v].first]) : cells[vec[v].first][k] # Raw <=> k <= vec[v].last
<1>1. v \in constructed /\ vec[v].first \in Buffers /\ \A w \in Vectors \ {v} : vec[w].first # vec[v].first
  BY StorageIs
<1>2. constructed \subseteq Vectors
  BY DEF VecIInv, TypeOK
<1> QED
  BY <1>1, <1>2 DEF AllBalanced, Balanced

\* What a vector contains are elements.
LEMMA ElementsAre ==
    ASSUME VecIInv, AllBalanced, NEW v \in Vectors
    PROVE  \A k \in 1 .. Len(Contents(v)) : Contents(v)[k] # Raw
<1>1. Len(Contents(v)) = vec[v].last
  BY ContentsIs DEF VecIInv
<1>2. CASE Initialized(v)
  <2>1. vec[v].last <= Len(cells[vec[v].first]) /\ vec[v].last \in Nat
    BY <1>2, StorageIs
  <2>2. \A k \in 1 .. vec[v].last : Contents(v)[k] = cells[vec[v].first][k]
    BY <1>2, ContentsIs DEF VecIInv
  <2>3. Len(cells[vec[v].first]) \in Nat
    BY <1>2, StorageIs, VectorAssumption
  <2> QED
    BY <1>1, <1>2, <2>1, <2>2, <2>3, OwnedCells
<1>3. CASE ~Initialized(v)
  BY <1>1, <1>3, NoStorageIs
<1> QED
  BY <1>2, <1>3

\* After its elements were destroyed, no cell of the storage of v holds one.
LEMMA DestroyedIsRaw ==
    ASSUME VecIInv, AllBalanced, NEW v \in Vectors, Initialized(v)
    PROVE  LET d == Destroyed(vec[v].first, vec[v].last)
           IN  \A k \in 1 .. Len(d) : d[k] = Raw
<1>1. vec[v].first \in Buffers /\ vec[v].last \in Nat
  BY StorageIs
<1> QED
  BY <1>1, DestroyedIs, OwnedCells DEF VecIInv

\* A buffer no one wrote to and that keeps its owner.
LEMMA UntouchedKeeps ==
    ASSUME NEW b \in Buffers, Balanced(b), cells'[b] = cells[b],
           \A w \in constructed : vec[w].first = b =>
               w \in constructed' /\ vec'[w].first = b /\ vec'[w].last = vec[w].last,
           \A w \in constructed' : vec'[w].first = b => w \in constructed /\ vec[w].first = b
    PROVE  Balanced(b)'
BY DEF Balanced

\* A new vector has no element.
LEMMA ConstructBalances ==
    ASSUME VecIInv, AllBalanced, NEW v \in Vectors, NEW b \in Buffers, Construct(v, b)
    PROVE  AllBalanced'
<1> SUFFICES ASSUME NEW c \in Buffers PROVE Balanced(c)'
  BY DEF AllBalanced
<1>1. /\ v \notin constructed /\ constructed' = constructed \cup {v} /\ b \notin allocated
      /\ vec'[v] = [first |-> b, last |-> 0, end |-> 1] /\ \A w \in Vectors \ {v} : vec'[w] = vec[w]
      /\ cells'[b] = RawCells(1) /\ \A d \in Buffers \ {b} : cells'[d] = cells[d]
  BY DEF Construct, Fresh, VecIInv, TypeOK
<1>2. constructed \subseteq Vectors
  BY DEF VecIInv, TypeOK
<1>3. CASE c = b
  <2>1. Len(cells'[b]) = 1 /\ \A k \in 1 .. 1 : cells'[b][k] = Raw
    <3>1. 1 \in Nat
      OBVIOUS
    <3>2. Len(RawCells(1)) = 1 /\ \A k \in 1 .. 1 : RawCells(1)[k] = Raw
      BY <3>1, RawCellsAre
    <3> QED
      BY <1>1, <3>2
  <2>2. v \in constructed' /\ vec'[v].first = b /\ vec'[v].last = 0
    BY <1>1
  <2> QED
    BY <1>3, <2>1, <2>2 DEF Balanced
<1>4. CASE c # b
  <2>1. Balanced(c)
    BY DEF AllBalanced
  <2> QED
    BY <1>1, <1>2, <1>4, <2>1, UntouchedKeeps
<1> QED
  BY <1>3, <1>4

\* Elements that move to a new buffer leave none behind.
LEMMA RelocateBalances ==
    ASSUME VecIInv, AllBalanced, NEW v \in Vectors, NEW b \in Buffers, NEW n \in Nat,
           NEW elems \in Seq(Cell), v \in constructed, Len(elems) <= n, Relocate(v, b, n, elems),
           \A k \in 1 .. Len(elems) : elems[k] # Raw, constructed' = constructed
    PROVE  AllBalanced'
<1> SUFFICES ASSUME NEW c \in Buffers PROVE Balanced(c)'
  BY DEF AllBalanced
<1>1. constructed \subseteq Vectors
  BY DEF VecIInv, TypeOK
<1>2. b \notin allocated /\ \A w \in Vectors : vec[w].first # b
  BY StorageIs, VectorAssumption DEF Initialized, Relocate, Fresh
<1>3. /\ vec'[v] = [first |-> b, last |-> Len(elems), end |-> n]
      /\ \A w \in Vectors \ {v} : vec'[w] = vec[w]
  BY DEF Relocate, VecIInv, TypeOK
<1>4. /\ cells'[b] = Filled(elems, n)
      /\ vec[v].first \in Buffers => cells'[vec[v].first] = Destroyed(vec[v].first, vec[v].last)
      /\ \A d \in Buffers \ {b, vec[v].first} : cells'[d] = cells[d]
  BY <1>2 DEF Relocate
<1>5. CASE c = b
  <2>1. Len(cells'[b]) = n /\ \A k \in 1 .. n : cells'[b][k] # Raw <=> k <= Len(elems)
    <3>1. Len(elems) \in Nat
      BY LenProperties
    <3>2. /\ Len(Filled(elems, n)) = n
          /\ \A k \in 1 .. n : Filled(elems, n)[k] = IF k <= Len(elems) THEN elems[k] ELSE Raw
      BY FilledIs
    <3>3. \A k \in 1 .. n : Filled(elems, n)[k] # Raw <=> k <= Len(elems)
      BY <3>1, <3>2
    <3> QED
      BY <1>4, <3>2, <3>3
  <2>2. v \in constructed' /\ vec'[v].first = b /\ vec'[v].last = Len(elems)
    BY <1>3
  <2> QED
    BY <1>5, <2>1, <2>2 DEF Balanced
<1>6. CASE c = vec[v].first
  <2>1. Initialized(v)
    BY <1>6, VectorAssumption DEF Initialized
  <2>2. \A k \in 1 .. Len(cells'[c]) : cells'[c][k] = Raw
    BY <1>4, <1>6, <2>1, DestroyedIsRaw
  <2>3. \A w \in constructed' : vec'[w].first # c
    BY <1>1, <1>2, <1>3, <1>6, <2>1, StorageIs
  <2> QED
    BY <2>2, <2>3 DEF Balanced
<1>7. CASE c \notin {b, vec[v].first}
  <2>1. Balanced(c)
    BY DEF AllBalanced
  <2> QED
    BY <1>1, <1>3, <1>4, <1>7, <2>1, UntouchedKeeps
<1> QED
  BY <1>5, <1>6, <1>7

\* The elements after reserve are those before.
LEMMA ReserveBalances ==
    ASSUME VecIInv, AllBalanced, NEW v \in Vectors, NEW b \in Buffers, NEW n \in Nat, Reserve(v, b, n)
    PROVE  AllBalanced'
<1>1. Contents(v) \in Seq(Cell) /\ Len(Contents(v)) = vec[v].last
  BY ContentsIs DEF VecIInv
<1>2. vec[v].last <= n
  BY StorageIs, NoStorageIs DEF Reserve, Relocate
<1>3. v \in constructed /\ Relocate(v, b, n, Contents(v)) /\ constructed' = constructed
  BY DEF Reserve
<1> QED
  BY <1>1, <1>2, <1>3, ElementsAre, RelocateBalances

\* One more element after a push_back that grows.
LEMMA PushBackGrowsBalances ==
    ASSUME VecIInv, AllBalanced, NEW v \in Vectors, NEW x \in Values, NEW b \in Buffers,
           PushBackGrows(v, x, b)
    PROVE  AllBalanced'
<1>1. Contents(v) \in Seq(Cell) /\ Len(Contents(v)) = vec[v].last /\ vec[v].last \in Nat
  BY ContentsIs DEF VecIInv, TypeOK
<1>2. x \in Cell /\ x # Raw
  BY VectorAssumption DEF Cell
<1>3. /\ Append(Contents(v), x) \in Seq(Cell)
      /\ Len(Append(Contents(v), x)) = vec[v].last + 1
      /\ \A k \in 1 .. vec[v].last : Append(Contents(v), x)[k] = Contents(v)[k]
      /\ Append(Contents(v), x)[vec[v].last + 1] = x
  <2> HIDE DEF Cell
  <2> QED
    BY <1>1, <1>2, AppendProperties
<1>4. \A k \in 1 .. Len(Append(Contents(v), x)) : Append(Contents(v), x)[k] # Raw
  BY <1>1, <1>2, <1>3, ElementsAre
<1>5. Grown(v) \in Nat /\ vec[v].last + 1 <= Grown(v)
  <2>1. vec[v].last = vec[v].end /\ Grown(v) = IF vec[v].end = 0 THEN 1 ELSE vec[v].end * 2
    BY DEF PushBackGrows, Grown
  <2> QED
    BY <1>1, <2>1
<1>6. v \in constructed /\ Relocate(v, b, Grown(v), Append(Contents(v), x)) /\ constructed' = constructed
  BY DEF PushBackGrows
<1> QED
  BY <1>3, <1>4, <1>5, <1>6, RelocateBalances

\* The elements of v become the first n cells of its storage, and no other
\* buffer is written to.
LEMMA WithinStorageBalances ==
    ASSUME VecIInv, AllBalanced, NEW v \in Vectors, Initialized(v), NEW n \in Nat,
           vec' = [vec EXCEPT ![v].last = n], constructed' = constructed,
           \A d \in Buffers \ {vec[v].first} : cells'[d] = cells[d],
           \A k \in 1 .. Len(cells'[vec[v].first]) : cells'[vec[v].first][k] # Raw <=> k <= n
    PROVE  AllBalanced'
<1> SUFFICES ASSUME NEW c \in Buffers PROVE Balanced(c)'
  BY DEF AllBalanced
<1>1. vec' = [vec EXCEPT ![v] = [first |-> vec[v].first, last |-> n, end |-> vec[v].end]]
  BY LastReplaced DEF VecIInv
<1>2. /\ vec'[v] = [first |-> vec[v].first, last |-> n, end |-> vec[v].end]
      /\ \A w \in Vectors \ {v} : vec'[w] = vec[w]
  BY <1>1 DEF VecIInv, TypeOK
<1>3. constructed \subseteq Vectors /\ v \in constructed
  BY StorageIs DEF VecIInv, TypeOK
<1>4. CASE c = vec[v].first
  BY <1>2, <1>3, <1>4 DEF Balanced
<1>5. CASE c # vec[v].first
  <2>1. Balanced(c)
    BY DEF AllBalanced
  <2>2. cells'[c] = cells[c]
    BY <1>5
  <2>3. \A w \in constructed : vec[w].first = c =>
               w \in constructed' /\ vec'[w].first = c /\ vec'[w].last = vec[w].last
    BY <1>2, <1>3, <1>5
  <2>4. \A w \in constructed' : vec'[w].first = c => w \in constructed /\ vec[w].first = c
    BY <1>2, <1>3, <1>5
  <2> QED
    BY <2>1, <2>2, <2>3, <2>4, UntouchedKeeps
<1> QED
  BY <1>4, <1>5

\* One more element after a push_back in place.
LEMMA PushBackBalances ==
    ASSUME VecIInv, AllBalanced, NEW v \in Vectors, NEW x \in Values, PushBack(v, x)
    PROVE  AllBalanced'
<1> DEFINE b == vec[v].first
           n == vec[v].last + 1
<1>1. /\ vec[v].last # vec[v].end /\ constructed' = constructed
      /\ vec' = [vec EXCEPT ![v].last = n]
      /\ cells' = [cells EXCEPT ![b] = [cells[b] EXCEPT ![n] = x]]
  BY DEF PushBack
<1>2. Initialized(v)
  BY <1>1, NoStorageIs
<1>3. /\ b \in Buffers /\ n \in 1 .. Len(cells[b]) /\ n \in Nat
      /\ cells[b] \in Seq(Cell) /\ x \in Cell /\ x # Raw
  BY <1>1, <1>2, StorageIs, VectorAssumption DEF VecIInv, TypeOK, Cell
<1>4. \A k \in 1 .. Len(cells[b]) : cells[b][k] # Raw <=> k <= n - 1
  BY <1>2, <1>3, OwnedCells, StorageIs
<1>5. cells'[b] = [cells[b] EXCEPT ![n] = x] /\ \A d \in Buffers \ {b} : cells'[d] = cells[d]
  BY <1>1, <1>3 DEF VecIInv, TypeOK
<1>6. /\ Len([cells[b] EXCEPT ![n] = x]) = Len(cells[b])
      /\ \A k \in 1 .. Len(cells[b]) : [cells[b] EXCEPT ![n] = x][k] = IF k = n THEN x ELSE cells[b][k]
  <2>1. DOMAIN cells[b] = 1 .. Len(cells[b])
    BY <1>3, LenProperties
  <2> HIDE DEF b, n, Cell
  <2> QED
    BY <1>3, <2>1, ExceptSeq
<1>7. \A k \in 1 .. Len(cells'[b]) : cells'[b][k] # Raw <=> k <= n
  BY <1>3, <1>4, <1>5, <1>6
<1> HIDE DEF n
<1> QED
  BY <1>1, <1>2, <1>3, <1>5, <1>7, WithinStorageBalances

\* One element less, whose cell is raw again.
LEMMA PopBackBalances ==
    ASSUME VecIInv, AllBalanced, NEW v \in Vectors, PopBack(v)
    PROVE  AllBalanced'
<1> DEFINE b == vec[v].first
           n == vec[v].last
<1>1. /\ Initialized(v) /\ Contents(v) # <<>> /\ constructed' = constructed
      /\ vec' = [vec EXCEPT ![v].last = n - 1]
      /\ cells' = [cells EXCEPT ![b] = [cells[b] EXCEPT ![n] = Raw]]
  BY DEF PopBack, NonEmpty, DestroyLast, Contents
<1>2. Contents(v) \in Seq(Cell) /\ Len(Contents(v)) = n
  BY ContentsIs DEF VecIInv
<1>3. n # 0
  <2> HIDE DEF Cell
  <2> QED
    BY <1>1, <1>2, EmptySeq
<1>4. /\ b \in Buffers /\ n \in 1 .. Len(cells[b]) /\ n - 1 \in Nat
      /\ cells[b] \in Seq(Cell) /\ Raw \in Cell
  BY <1>1, <1>3, StorageIs, VectorAssumption DEF VecIInv, TypeOK, Cell
<1>5. \A k \in 1 .. Len(cells[b]) : cells[b][k] # Raw <=> k <= n
  BY <1>1, OwnedCells
<1>6. cells'[b] = [cells[b] EXCEPT ![n] = Raw] /\ \A d \in Buffers \ {b} : cells'[d] = cells[d]
  BY <1>1, <1>4 DEF VecIInv, TypeOK
<1>7. /\ Len([cells[b] EXCEPT ![n] = Raw]) = Len(cells[b])
      /\ \A k \in 1 .. Len(cells[b]) : [cells[b] EXCEPT ![n] = Raw][k] = IF k = n THEN Raw ELSE cells[b][k]
  <2>1. DOMAIN cells[b] = 1 .. Len(cells[b])
    BY <1>4, LenProperties
  <2> HIDE DEF b, n, Cell
  <2> QED
    BY <1>4, <2>1, ExceptSeq
<1>8. \A k \in 1 .. Len(cells'[b]) : cells'[b][k] # Raw <=> k <= n - 1
  BY <1>4, <1>5, <1>6, <1>7
<1> QED
  BY <1>1, <1>4, <1>6, <1>8, WithinStorageBalances

\* No element is left.
LEMMA ClearBalances ==
    ASSUME VecIInv, AllBalanced, NEW v \in Vectors, Clear(v)
    PROVE  AllBalanced'
<1>1. /\ Initialized(v) /\ constructed' = constructed /\ vec' = [vec EXCEPT ![v].last = 0]
      /\ cells' = [cells EXCEPT ![vec[v].first] = Destroyed(vec[v].first, vec[v].last)]
  BY DEF Clear
<1>2. vec[v].first \in Buffers
  BY <1>1, StorageIs
<1>3. /\ cells'[vec[v].first] = Destroyed(vec[v].first, vec[v].last)
      /\ \A d \in Buffers \ {vec[v].first} : cells'[d] = cells[d]
  BY <1>1, <1>2 DEF VecIInv, TypeOK
<1>4. \A k \in 1 .. Len(cells'[vec[v].first]) : cells'[vec[v].first][k] # Raw <=> k <= 0
  BY <1>1, <1>3, DestroyedIsRaw
<1>5. 0 \in Nat
  OBVIOUS
<1> QED
  BY <1>1, <1>3, <1>4, <1>5, WithinStorageBalances

\* What v held is destroyed: no cell of its storage holds an element.
LEMMA OwnDestroyedIsRaw ==
    ASSUME VecIInv, AllBalanced, NEW v \in Vectors
    PROVE  \A c \in Buffers :
             IF c = vec[v].first
               THEN \A k \in 1 .. Len(OwnDestroyed(v, c)) : OwnDestroyed(v, c)[k] = Raw
               ELSE OwnDestroyed(v, c) = cells[c]
<1> SUFFICES ASSUME NEW c \in Buffers, c = vec[v].first
             PROVE  \A k \in 1 .. Len(OwnDestroyed(v, c)) : OwnDestroyed(v, c)[k] = Raw
  BY DEF OwnDestroyed
<1>1. Initialized(v)
  BY VectorAssumption DEF Initialized
<1> QED
  BY <1>1, DestroyedIsRaw DEF OwnDestroyed

\* Copies that do not throw, into a vector that was constructed before or not.
LEMMA CopyFromBalances ==
    ASSUME VecIInv, AllBalanced, NEW v \in Vectors, NEW other \in Vectors, NEW b \in Buffers,
           CopyFrom(v, other, b), constructed' = constructed \cup {v}
    PROVE  AllBalanced'
<1> SUFFICES ASSUME NEW c \in Buffers PROVE Balanced(c)'
  BY DEF AllBalanced
<1>1. /\ Len(cells'[b]) = vec[other].last /\ vec[other].last \in Nat
      /\ b # NULL /\ \A w \in Vectors : vec[w].first # b
      /\ vec'[v] = [first |-> b, last |-> vec[other].last, end |-> vec[other].last]
      /\ \A w \in Vectors \ {v} : vec'[w] = vec[w]
  BY CopyFromGives
<1>2. cells'[b] = Contents(other) /\ \A d \in Buffers \ {b} : cells'[d] = OwnDestroyed(v, d)
  BY DEF CopyFrom
<1>3. constructed \subseteq Vectors
  BY DEF VecIInv, TypeOK
<1>4. CASE c = b
  <2>1. \A k \in 1 .. Len(cells'[b]) : cells'[b][k] # Raw <=> k <= vec[other].last
    BY <1>1, <1>2, ElementsAre
  <2> QED
    BY <1>1, <1>4, <2>1 DEF Balanced
<1>5. CASE c # b /\ c = vec[v].first
  <2>1. Initialized(v)
    BY <1>5, VectorAssumption DEF Initialized
  <2>2. \A k \in 1 .. Len(cells'[c]) : cells'[c][k] = Raw
    BY <1>2, <1>5, OwnDestroyedIsRaw
  <2>3. \A w \in constructed' : vec'[w].first # c
    BY <1>1, <1>3, <1>5, <2>1, StorageIs
  <2> QED
    BY <2>2, <2>3 DEF Balanced
<1>6. CASE c # b /\ c # vec[v].first
  <2>1. Balanced(c)
    BY DEF AllBalanced
  <2>2. cells'[c] = cells[c]
    BY <1>2, <1>6, OwnDestroyedIsRaw
  <2>3. \A w \in constructed : vec[w].first = c =>
               w \in constructed' /\ vec'[w].first = c /\ vec'[w].last = vec[w].last
    BY <1>1, <1>3, <1>6
  <2>4. \A w \in constructed' : vec'[w].first = c => w \in constructed /\ vec[w].first = c
    BY <1>1, <1>3, <1>6
  <2> QED
    BY <2>1, <2>2, <2>3, <2>4, UntouchedKeeps
<1> QED
  BY <1>4, <1>5, <1>6

\* v gets what other held, having held nothing or released its own storage.
LEMMA StealBalances ==
    ASSUME VecIInv, AllBalanced, NEW v \in Vectors, NEW other \in Vectors,
           v # other, other \in constructed, constructed' = constructed \cup {v},
           StealFrom(v, other), \A c \in Buffers : cells'[c] = OwnDestroyed(v, c)
    PROVE  AllBalanced'
<1> SUFFICES ASSUME NEW c \in Buffers PROVE Balanced(c)'
  BY DEF AllBalanced
<1>1. vec'[v] = vec[other] /\ vec'[other].first = NULL /\ \A w \in Vectors \ {v, other} : vec'[w] = vec[w]
  BY DEF StealFrom, Moved, VecIInv, TypeOK
<1>2. constructed \subseteq Vectors /\ c # NULL /\ Balanced(c)
  BY VectorAssumption DEF VecIInv, TypeOK, AllBalanced
<1>3. CASE c = vec[v].first
  <2>1. Initialized(v)
    BY <1>3, VectorAssumption DEF Initialized
  <2>2. \A k \in 1 .. Len(cells'[c]) : cells'[c][k] = Raw
    BY <1>3, OwnDestroyedIsRaw
  <2>3. \A w \in Vectors \ {v} : vec[w].first # c
    BY <1>3, <2>1, StorageIs
  <2>4. \A w \in constructed' : vec'[w].first # c
    BY <1>1, <1>2, <2>3
  <2> QED
    BY <2>2, <2>4 DEF Balanced
<1>4. CASE c # vec[v].first /\ c = vec[other].first
  <2>1. Initialized(other)
    BY <1>4, VectorAssumption DEF Initialized
  <2>2. cells'[c] = cells[c]
    BY <1>4, OwnDestroyedIsRaw
  <2>3. \A k \in 1 .. Len(cells[c]) : cells[c][k] # Raw <=> k <= vec[other].last
    BY <1>4, <2>1, OwnedCells
  <2> QED
    BY <1>1, <1>4, <2>2, <2>3 DEF Balanced
<1>5. CASE c # vec[v].first /\ c # vec[other].first
  <2>1. cells'[c] = cells[c]
    BY <1>5, OwnDestroyedIsRaw
  <2>2. \A w \in constructed : vec[w].first = c =>
               w \in constructed' /\ vec'[w].first = c /\ vec'[w].last = vec[w].last
    BY <1>1, <1>2, <1>5
  <2>3. \A w \in constructed' : vec'[w].first = c => w \in constructed /\ vec[w].first = c
    BY <1>1, <1>2, <1>5
  <2> QED
    BY <1>2, <2>1, <2>2, <2>3, UntouchedKeeps
<1> QED
  BY <1>3, <1>4, <1>5

\* Nothing is destroyed by the move constructor.
LEMMA MoveConstructBalances ==
    ASSUME VecIInv, AllBalanced, NEW v \in Vectors, NEW other \in Vectors, MoveConstruct(v, other)
    PROVE  AllBalanced'
<1>1. /\ v \notin constructed /\ other \in constructed /\ v # other
      /\ constructed' = constructed \cup {v} /\ StealFrom(v, other) /\ cells' = cells
  BY DEF MoveConstruct
<1>2. vec[v].first = NULL
  BY <1>1, StorageIs, NoStorageIs
<1>3. \A c \in Buffers : cells'[c] = OwnDestroyed(v, c)
  BY <1>1, <1>2, VectorAssumption DEF OwnDestroyed
<1> QED
  BY <1>1, <1>3, StealBalances

\* What the left side held is destroyed.
LEMMA MoveAssignBalances ==
    ASSUME VecIInv, AllBalanced, NEW v \in Vectors, NEW other \in Vectors, MoveAssign(v, other)
    PROVE  AllBalanced'
<1>1. /\ other \in constructed /\ v # other /\ constructed' = constructed \cup {v} /\ StealFrom(v, other)
  BY DEF MoveAssign
<1>2. \A c \in Buffers : cells'[c] = OwnDestroyed(v, c)
  BY DEF MoveAssign, ReleaseStorage
<1> QED
  BY <1>1, <1>2, StealBalances

\* Scope exit destroys what the vector held.
LEMMA DestructBalances ==
    ASSUME VecIInv, AllBalanced, NEW v \in Vectors, Destruct(v)
    PROVE  AllBalanced'
<1> SUFFICES ASSUME NEW c \in Buffers PROVE Balanced(c)'
  BY DEF AllBalanced
<1>1. constructed' = constructed \ {v} /\ \A w \in Vectors \ {v} : vec'[w] = vec[w]
  BY DEF Destruct, VecIInv, TypeOK
<1>2. constructed \subseteq Vectors /\ Balanced(c)
  BY DEF VecIInv, TypeOK, AllBalanced
<1>3. \A d \in Buffers : cells'[d] = OwnDestroyed(v, d)
  BY DEF Destruct, ReleaseStorage
<1>4. CASE c = vec[v].first
  <2>1. Initialized(v)
    BY <1>4, VectorAssumption DEF Initialized
  <2>2. \A k \in 1 .. Len(cells'[c]) : cells'[c][k] = Raw
    BY <1>3, <1>4, OwnDestroyedIsRaw
  <2>3. \A w \in Vectors \ {v} : vec[w].first # c
    BY <1>4, <2>1, StorageIs
  <2>4. \A w \in constructed' : vec'[w].first # c
    BY <1>1, <1>2, <2>3
  <2> QED
    BY <2>2, <2>4 DEF Balanced
<1>5. CASE c # vec[v].first
  <2>1. cells'[c] = cells[c]
    BY <1>3, <1>5, OwnDestroyedIsRaw
  <2>2. \A w \in constructed : vec[w].first = c =>
               w \in constructed' /\ vec'[w].first = c /\ vec'[w].last = vec[w].last
    BY <1>1, <1>2, <1>5
  <2>3. \A w \in constructed' : vec'[w].first = c => w \in constructed /\ vec[w].first = c
    BY <1>1, <1>2, <1>5
  <2> QED
    BY <1>2, <2>1, <2>2, <2>3, UntouchedKeeps
<1> QED
  BY <1>4, <1>5

-----------------------------------------------------------------------------
\* Every step keeps the invariant.
LEMMA NextKeepsVecIInv ==
    ASSUME VecIInv, Next
    PROVE  VecIInv'
<1>1. ASSUME NEW v \in Vectors, PopBack(v) \/ Clear(v) \/ Destruct(v) PROVE VecIInv'
  BY <1>1, PopBackKeeps, ClearKeeps, DestructKeeps
<1>2. ASSUME NEW v \in Vectors, NEW x \in Values, PushBack(v, x) PROVE VecIInv'
  BY <1>2, PushBackKeeps
<1>3. ASSUME NEW v \in Vectors, NEW b \in Buffers, Construct(v, b) PROVE VecIInv'
  BY <1>3, ConstructKeeps
<1>4. ASSUME NEW v \in Vectors, NEW b \in Buffers, NEW x \in Values, PushBackGrows(v, x, b) PROVE VecIInv'
  BY <1>4, PushBackGrowsKeeps
<1>5. ASSUME NEW v \in Vectors, NEW b \in Buffers, NEW n \in 1 .. MaxCapacity,
             Reserve(v, b, n) \/ ReserveThrows(v, b, n)
      PROVE  VecIInv'
  <2>1. n \in Nat
    BY VectorAssumption
  <2> QED
    BY <1>5, <2>1, ReserveKeeps, ReserveThrowsKeeps
<1>6. ASSUME NEW v \in Vectors, NEW other \in Vectors, MoveConstruct(v, other) \/ MoveAssign(v, other)
      PROVE  VecIInv'
  BY <1>6, MoveConstructKeeps, MoveAssignKeeps
<1>7. ASSUME NEW v \in Vectors, NEW other \in Vectors, NEW b \in Buffers,
             CopyConstruct(v, other, b) \/ CopyAssign(v, other, b)
      PROVE  VecIInv'
  BY <1>7, CopyConstructKeeps, CopyAssignKeeps
<1> QED
  BY <1>1, <1>2, <1>3, <1>4, <1>5, <1>6, <1>7 DEF Next

\* Every step of elements whose copies do not throw keeps the balance.
LEMMA NextBalances ==
    ASSUME VecIInv, ~copyThrows => AllBalanced, Next
    PROVE  ~copyThrows' => AllBalanced'
<1>1. copyThrows' = copyThrows
  BY DEF Next, PopBack, Clear, Destruct, PushBack, Construct, PushBackGrows, Reserve, ReserveThrows,
     MoveConstruct, MoveAssign, CopyConstruct, CopyAssign, history
<1> SUFFICES ASSUME ~copyThrows, AllBalanced PROVE AllBalanced'
  BY <1>1
<1>2. ASSUME NEW v \in Vectors, PopBack(v) \/ Clear(v) \/ Destruct(v) PROVE AllBalanced'
  BY <1>2, PopBackBalances, ClearBalances, DestructBalances
<1>3. ASSUME NEW v \in Vectors, NEW x \in Values, PushBack(v, x) PROVE AllBalanced'
  BY <1>3, PushBackBalances
<1>4. ASSUME NEW v \in Vectors, NEW b \in Buffers, Construct(v, b) PROVE AllBalanced'
  BY <1>4, ConstructBalances
<1>5. ASSUME NEW v \in Vectors, NEW b \in Buffers, NEW x \in Values, PushBackGrows(v, x, b)
      PROVE  AllBalanced'
  BY <1>5, PushBackGrowsBalances
<1>6. ASSUME NEW v \in Vectors, NEW b \in Buffers, NEW n \in 1 .. MaxCapacity,
             Reserve(v, b, n) \/ ReserveThrows(v, b, n)
      PROVE  AllBalanced'
  <2>1. n \in Nat /\ Reserve(v, b, n)
    BY <1>6, VectorAssumption DEF ReserveThrows
  <2> QED
    BY <2>1, ReserveBalances
<1>7. ASSUME NEW v \in Vectors, NEW other \in Vectors, MoveConstruct(v, other) \/ MoveAssign(v, other)
      PROVE  AllBalanced'
  BY <1>7, MoveConstructBalances, MoveAssignBalances
<1>8. ASSUME NEW v \in Vectors, NEW other \in Vectors, NEW b \in Buffers,
             CopyConstruct(v, other, b) \/ CopyAssign(v, other, b)
      PROVE  AllBalanced'
  <2>1. CopyFrom(v, other, b) /\ constructed' = constructed \cup {v}
    BY <1>8 DEF CopyConstruct, CopyAssign, CopyFromThrows
  <2> QED
    BY <2>1, CopyFromBalances
<1> QED
  BY <1>2, <1>3, <1>4, <1>5, <1>6, <1>7, <1>8 DEF Next

\* The invariant holds in every reachable state.
LEMMA VecInvariant == Spec => []VecIInv
<1>1. Init => VecIInv
  BY InitEstablishesVecIInv
<1>2. VecIInv /\ [Next]_vars => VecIInv'
  <2>1. VecIInv /\ UNCHANGED vars => VecIInv'
    BY DEF vars, VecIInv, TypeOK, OutsideLifetime, StorageIndependent, OnlyCopyAssignLeaks, Initialized
  <2> QED
    BY <2>1, NextKeepsVecIInv
<1> QED
  BY <1>1, <1>2, PTL DEF Spec

\* "Copies own independent storage", for every number of vectors, buffers and
\* values: whatever sequence of construction, growth, copies, moves, throws and
\* destruction runs, no two vectors share a buffer, and each vector's buffer is
\* allocated and as large as the vector says.
THEOREM CopiesAreIndependent == Spec => []StorageIndependent
<1>1. VecIInv => StorageIndependent
  BY DEF VecIInv
<1> QED
  BY <1>1, VecInvariant, PTL

\* operator=(const vector&) is the only member that leaks storage a vector owned,
\* and it always does.
THEOREM LeaksAreCopyAssignments == Spec => []OnlyCopyAssignLeaks
<1>1. VecIInv => OnlyCopyAssignLeaks
  BY DEF VecIInv
<1> QED
  BY <1>1, VecInvariant, PTL

\* "Construction, reallocation, removal, and scope exit balance lifetimes", for
\* elements whose copies do not throw: the cells that hold an element are those
\* between first and last of a constructed vector.
THEOREM LifetimesAreBalanced == Spec => []LifetimesBalanceWithoutThrows
<1> DEFINE Inv == ~copyThrows => AllBalanced
<1>1. Init => Inv
  <2> SUFFICES ASSUME Init PROVE AllBalanced
    OBVIOUS
  <2>1. constructed = {} /\ \A b \in Buffers : cells[b] = <<>>
    BY DEF Init
  <2>2. \A b \in Buffers : Len(cells[b]) = 0
    BY <2>1
  <2> QED
    BY <2>1, <2>2 DEF AllBalanced, Balanced
<1>2. VecIInv /\ VecIInv' /\ Inv /\ [Next]_vars => Inv'
  <2>1. VecIInv /\ Inv /\ UNCHANGED vars => Inv'
    BY DEF vars, AllBalanced, Balanced
  <2>2. VecIInv /\ Inv /\ Next => Inv'
    BY NextBalances
  <2> QED
    BY <2>1, <2>2
<1>3. VecIInv /\ Inv => LifetimesBalanceWithoutThrows
  BY BalancedIsBalance DEF LifetimesBalanceWithoutThrows
<1> HIDE DEF Inv
<1> QED
  BY <1>1, <1>2, <1>3, VecInvariant, PTL DEF Spec

\* The variables keep their types.
THEOREM VectorTypes == Spec => []TypeOK
<1>1. VecIInv => TypeOK
  BY DEF VecIInv
<1> QED
  BY <1>1, VecInvariant, PTL

-----------------------------------------------------------------------------
(* Other vectors.                                                          *)

\* A vector whose pointers and storage stay has the same elements.
LEMMA SameContents ==
    ASSUME NEW u \in Vectors, vec'[u] = vec[u],
           Initialized(u) => cells'[vec[u].first] = cells[vec[u].first]
    PROVE  Contents(u)' = Contents(u)
BY DEF Contents, Initialized

\* Only v and buffers no other vector owns change.
LEMMA OthersKeepContents ==
    ASSUME VecIInv, NEW v \in Vectors, \A w \in Vectors \ {v} : vec'[w] = vec[w],
           NEW b \in Buffers \cup {NULL}, b \notin allocated,
           \A c \in Buffers \ {b, vec[v].first} : cells'[c] = cells[c]
    PROVE  \A u \in Vectors \ {v} : Contents(u)' = Contents(u)
<1> SUFFICES ASSUME NEW u \in Vectors \ {v} PROVE Contents(u)' = Contents(u)
  OBVIOUS
<1>1. ASSUME Initialized(u) PROVE cells'[vec[u].first] = cells[vec[u].first]
  <2>1. vec[u].first \in Buffers /\ vec[u].first \in allocated /\ vec[v].first # vec[u].first
    BY <1>1, StorageIs
  <2> QED
    BY <2>1
<1> QED
  BY <1>1, SameContents

\* A member that is no move changes what one vector holds.
LEMMA OneChanges ==
    ASSUME VecIInv, NEW v \in Vectors,
           \/ PopBack(v) \/ Clear(v) \/ Destruct(v)
           \/ \E x \in Values : PushBack(v, x)
           \/ \E b \in Buffers :
                \/ Construct(v, b)
                \/ \E x \in Values : PushBackGrows(v, x, b)
                \/ \E n \in 1 .. MaxCapacity : Reserve(v, b, n) \/ ReserveThrows(v, b, n)
                \/ \E other \in Vectors : CopyConstruct(v, other, b) \/ CopyAssign(v, other, b)
    PROVE  \A u \in Vectors \ {v} : Contents(u)' = Contents(u)
<1>1. vec \in [Vectors -> [first : Buffers \cup {NULL}, last : Nat, end : 0 .. MaxCapacity]]
      /\ DOMAIN cells = Buffers /\ allocated \subseteq Buffers
  BY DEF VecIInv, TypeOK
<1>2. NULL \notin allocated
  BY <1>1, VectorAssumption
<1>3. CASE PopBack(v) \/ Clear(v) \/ Destruct(v) \/ \E x \in Values : PushBack(v, x)
  <2>1. \A w \in Vectors \ {v} : vec'[w] = vec[w]
    BY <1>1, <1>3 DEF PopBack, Clear, Destruct, PushBack
  <2>2. \A c \in Buffers \ {NULL, vec[v].first} : cells'[c] = cells[c]
    BY <1>1, <1>3 DEF PopBack, DestroyLast, Clear, Destruct, ReleaseStorage, OwnDestroyed, PushBack
  <2> QED
    BY <1>2, <2>1, <2>2, OthersKeepContents
<1>4. ASSUME NEW b \in Buffers,
             \/ Construct(v, b)
             \/ \E x \in Values : PushBackGrows(v, x, b)
             \/ \E n \in 1 .. MaxCapacity : Reserve(v, b, n) \/ ReserveThrows(v, b, n)
      PROVE  \A u \in Vectors \ {v} : Contents(u)' = Contents(u)
  <2>1. b \notin allocated
    BY <1>4 DEF Construct, PushBackGrows, Reserve, ReserveThrows, Relocate, Fresh
  <2>2. \A w \in Vectors \ {v} : vec'[w] = vec[w]
    BY <1>1, <1>4 DEF Construct, PushBackGrows, Reserve, ReserveThrows, Relocate
  <2>3. \A c \in Buffers \ {b, vec[v].first} : cells'[c] = cells[c]
    BY <1>1, <1>4 DEF Construct, PushBackGrows, Reserve, ReserveThrows, Relocate
  <2> QED
    BY <2>1, <2>2, <2>3, OthersKeepContents
<1>5. ASSUME NEW b \in Buffers, NEW other \in Vectors,
             CopyConstruct(v, other, b) \/ CopyAssign(v, other, b)
      PROVE  \A u \in Vectors \ {v} : Contents(u)' = Contents(u)
  <2>1. CopyFrom(v, other, b) \/ CopyFromThrows(v, other, b)
    BY <1>5 DEF CopyConstruct, CopyAssign
  <2>2. b \notin allocated
    BY <2>1 DEF CopyFrom, CopyFromThrows, Fresh
  <2>3. \A w \in Vectors \ {v} : vec'[w] = vec[w]
    BY <1>1, <2>1 DEF CopyFrom, CopyFromThrows
  <2>4. \A c \in Buffers \ {b, vec[v].first} : cells'[c] = cells[c]
    BY <2>1 DEF CopyFrom, CopyFromThrows, OwnDestroyed
  <2> QED
    BY <2>2, <2>3, <2>4, OthersKeepContents
<1> QED
  BY <1>3, <1>4, <1>5

\* A move gives v what other held and leaves other without elements.
LEMMA MovesContents ==
    ASSUME VecIInv, NEW v \in Vectors, NEW other \in Vectors,
           MoveConstruct(v, other) \/ MoveAssign(v, other)
    PROVE  /\ Contents(v)' = Contents(other) /\ Contents(other)' = <<>>
           /\ \A u \in Vectors \ {v, other} : Contents(u)' = Contents(u)
<1>1. v # other /\ StealFrom(v, other)
  BY DEF MoveConstruct, MoveAssign
<1>2. vec'[v] = vec[other] /\ vec'[other].first = NULL /\ \A w \in Vectors \ {v, other} : vec'[w] = vec[w]
  BY <1>1 DEF StealFrom, Moved, VecIInv, TypeOK
<1>3. \A c \in Buffers \ {vec[v].first} : cells'[c] = cells[c]
  BY DEF MoveConstruct, MoveAssign, ReleaseStorage, OwnDestroyed
<1>4. \A u \in Vectors \ {v} : Initialized(u) => cells'[vec[u].first] = cells[vec[u].first]
  <2> SUFFICES ASSUME NEW u \in Vectors \ {v}, Initialized(u) PROVE cells'[vec[u].first] = cells[vec[u].first]
    OBVIOUS
  <2>1. vec[u].first \in Buffers /\ vec[v].first # vec[u].first
    BY StorageIs
  <2> QED
    BY <1>3, <2>1
<1>5. Contents(v)' = Contents(other)
  BY <1>1, <1>2, <1>4 DEF Contents, Initialized
<1>6. Contents(other)' = <<>>
  BY <1>2 DEF Contents, Initialized
<1>7. \A u \in Vectors \ {v, other} : Contents(u)' = Contents(u)
  BY <1>2, <1>4, SameContents
<1> QED
  BY <1>5, <1>6, <1>7

\* No call on one vector changes what another holds, except that a move empties
\* the vector it moves from: every step changes one vector, or moves all of one
\* to another.
THEOREM OthersStay == Spec => OthersUntouched
<1> DEFINE Exchange == \A v, w \in Vectors :
             v # w /\ Contents(v)' # Contents(v) /\ Contents(w)' # Contents(w) =>
                 \/ Contents(v)' = Contents(w) /\ Contents(w)' = <<>>
                 \/ Contents(w)' = Contents(v) /\ Contents(v)' = <<>>
<1>1. VecIInv /\ Next => Exchange
  <2> SUFFICES ASSUME VecIInv, Next PROVE Exchange
    OBVIOUS
  <2>1. ASSUME NEW v \in Vectors, \A u \in Vectors \ {v} : Contents(u)' = Contents(u)
        PROVE  Exchange
    BY <2>1
  <2>2. ASSUME NEW v \in Vectors, NEW other \in Vectors,
               MoveConstruct(v, other) \/ MoveAssign(v, other)
        PROVE  Exchange
    BY <2>2, MovesContents
  <2>3. \/ \E v, other \in Vectors : MoveConstruct(v, other) \/ MoveAssign(v, other)
        \/ \E v \in Vectors : \A u \in Vectors \ {v} : Contents(u)' = Contents(u)
    BY OneChanges DEF Next
  <2> HIDE DEF Exchange
  <2> QED
    BY <2>1, <2>2, <2>3
<1>2. VecIInv /\ [Next]_vars => [Exchange]_vars
  BY <1>1
<1>3. [][Exchange]_vars => OthersUntouched
  BY DEF OthersUntouched
<1> HIDE DEF Exchange
<1> QED
  BY <1>2, <1>3, VecInvariant, PTL DEF Spec
=============================================================================
