---------------------------- MODULE CustomVector ----------------------------
(***************************************************************************)
(* custom::vector<Element>: storage from operator new, whose cells are raw *)
(* until an element is constructed in them.  A vector is three pointers;   *)
(* last and end are kept as their distance from first.  A vector that was  *)
(* moved from has no storage.                                              *)
(*                                                                         *)
(* Whether copying an element can throw depends on the element type, which *)
(* is fixed when the program starts (copyThrows).  An element type whose   *)
(* move may throw is copied when storage grows (move_if_noexcept), so      *)
(* copyThrows covers both.  When operator new throws, every operation      *)
(* leaves all vectors as they were: that is a stuttering step.             *)
(* A copy assignment that throws leaves the destroyed elements of its left *)
(* side inside the vector; they read as Raw from then on.                  *)
(***************************************************************************)
EXTENDS Naturals, Sequences, FiniteSets

CONSTANTS
    Vectors,       \* the vector variables of the program
    Buffers,       \* addresses operator new can return
    Values,        \* element values
    Raw,           \* what a cell without an element holds
    NULL,          \* nullptr
    MaxCapacity    \* bound on the capacity of a vector

ASSUME VectorAssumption ==
    /\ Raw \notin Values /\ NULL \notin Buffers
    /\ MaxCapacity \in Nat \ {0}

VARIABLES
    copyThrows,   \* whether the element's copy constructor may throw
    constructed,  \* the vectors inside their lifetime
    vec,          \* first, last and end of each vector
    cells,        \* what each buffer holds
    allocated,    \* the buffers allocated and not deleted
    abandoned     \* history: the buffers copy assignment replaced

history == <<copyThrows, abandoned>>
vars == <<copyThrows, constructed, vec, cells, allocated, abandoned>>

Moved == [first |-> NULL, last |-> 0, end |-> 0]

TypeOK ==
    /\ copyThrows \in BOOLEAN
    /\ constructed \subseteq Vectors
    /\ vec \in [Vectors -> [first : Buffers \cup {NULL}, last : Nat, end : 0 .. MaxCapacity]]
    /\ cells \in [Buffers -> Seq(Values \cup {Raw})]
    /\ allocated \subseteq Buffers
    /\ abandoned \subseteq Buffers

Init ==
    /\ copyThrows \in BOOLEAN
    /\ constructed = {}
    /\ vec = [v \in Vectors |-> Moved]
    /\ cells = [b \in Buffers |-> <<>>]
    /\ allocated = {}
    /\ abandoned = {}

-----------------------------------------------------------------------------
(* Storage.                                                                *)

Initialized(v) == vec[v].first # NULL
Contents(v)    == IF Initialized(v) THEN SubSeq(cells[vec[v].first], 1, vec[v].last) ELSE <<>>

RawCells(n) == [k \in 1 .. n |-> Raw]

\* The cells of a buffer of n cells after elems were constructed in the first.
Filled(elems, n) == [k \in 1 .. n |-> IF k <= Len(elems) THEN elems[k] ELSE Raw]

\* The cells of buffer b after its first n elements were destroyed.
Destroyed(b, n) == [k \in DOMAIN cells[b] |-> IF k <= n THEN Raw ELSE cells[b][k]]

Fresh(b) == b \in Buffers \ allocated

\* The construction of n elements that throws leaves some, but not all, of
\* them constructed.
Partial(elems) == {SubSeq(elems, 1, k) : k \in 0 .. Len(elems) - 1}

-----------------------------------------------------------------------------
(* Construction, growth and removal.                                       *)

\* vector()
Construct(v, b) ==
    /\ v \notin constructed /\ Fresh(b)
    /\ constructed' = constructed \cup {v}
    /\ vec' = [vec EXCEPT ![v] = [first |-> b, last |-> 0, end |-> 1]]
    /\ cells' = [cells EXCEPT ![b] = RawCells(1)]
    /\ allocated' = allocated \cup {b}
    /\ UNCHANGED history

\* reserve(n) for n above the capacity, with elems the elements afterwards:
\* they move to buffer b and the old buffer is deleted.
Relocate(v, b, n, elems) ==
    LET old == vec[v].first IN
    /\ n > vec[v].end /\ n <= MaxCapacity /\ Fresh(b)
    /\ vec' = [vec EXCEPT ![v] = [first |-> b, last |-> Len(elems), end |-> n]]
    /\ cells' = [c \in Buffers |->
                   CASE c = b   -> Filled(elems, n)
                     [] c = old -> Destroyed(old, vec[v].last)
                     [] OTHER   -> cells[c]]
    /\ allocated' = (allocated \cup {b}) \ {old}

Reserve(v, b, n) ==
    /\ v \in constructed
    /\ Relocate(v, b, n, Contents(v))
    /\ UNCHANGED <<constructed, history>>

\* A copy throws: what was constructed in the new buffer is not destroyed.
ReserveThrows(v, b, n) ==
    /\ copyThrows /\ v \in constructed
    /\ n > vec[v].end /\ n <= MaxCapacity /\ Fresh(b)
    /\ \E elems \in Partial(Contents(v)) : cells' = [cells EXCEPT ![b] = Filled(elems, n)]
    /\ UNCHANGED <<constructed, vec, allocated, history>>

\* The capacity push_back reserves when the vector is full.
Grown(v) == IF vec[v].end = 0 THEN 1 ELSE vec[v].end * 2

\* push_back of x, which may be an element of v: x is copied before v grows.
\* A copy that throws leaves v as it is, or only grown as by reserve.
PushBack(v, x) ==
    /\ v \in constructed /\ vec[v].last # vec[v].end
    /\ vec' = [vec EXCEPT ![v].last = @ + 1]
    /\ cells' = [cells EXCEPT ![vec[v].first][vec[v].last + 1] = x]
    /\ UNCHANGED <<constructed, allocated, history>>

PushBackGrows(v, x, b) ==
    /\ v \in constructed /\ vec[v].last = vec[v].end
    /\ Relocate(v, b, Grown(v), Append(Contents(v), x))
    /\ UNCHANGED <<constructed, history>>

\* Mutants: no destroy_at; no check that there is an element.
LeaveLast(v)   == UNCHANGED cells
DestroyLast(v) == cells' = [cells EXCEPT ![vec[v].first][vec[v].last] = Raw]
NonEmptyOrNot(v) == Initialized(v)
NonEmpty(v)      == Contents(v) # <<>>

PopBack(v) ==
    /\ v \in constructed /\ NonEmpty(v)
    /\ vec' = [vec EXCEPT ![v].last = @ - 1]
    /\ DestroyLast(v)
    /\ UNCHANGED <<constructed, allocated, history>>

Clear(v) ==
    /\ v \in constructed /\ Initialized(v)
    /\ vec' = [vec EXCEPT ![v].last = 0]
    /\ cells' = [cells EXCEPT ![vec[v].first] = Destroyed(vec[v].first, vec[v].last)]
    /\ UNCHANGED <<constructed, allocated, history>>

-----------------------------------------------------------------------------
(* Copies, moves and the destructor.                                       *)

\* The storage of v after the first loop of copy_from: what v held is destroyed
\* and its storage, if any, kept.
OwnDestroyed(v, b) ==
    IF b = vec[v].first THEN Destroyed(b, vec[v].last) ELSE cells[b]

\* Mutant: a shallow copy.
CopyPointers(v, other, b) ==
    /\ vec' = [vec EXCEPT ![v] = vec[other]]
    /\ cells' = [c \in Buffers |-> OwnDestroyed(v, c)]
    /\ UNCHANGED allocated

\* copy_from(other): v takes a new buffer, exactly as large as needed.
CopyFrom(v, other, b) ==
    LET n == vec[other].last IN
    /\ Fresh(b)
    /\ vec' = [vec EXCEPT ![v] = [first |-> b, last |-> n, end |-> n]]
    /\ cells' = [c \in Buffers |-> IF c = b THEN Contents(other) ELSE OwnDestroyed(v, c)]
    /\ allocated' = allocated \cup {b}

\* Some copy throws: the elements of v are gone, but its pointers stay.
CopyFromThrows(v, other, b) ==
    /\ copyThrows /\ Fresh(b)
    /\ \E elems \in Partial(Contents(other)) :
         cells' = [c \in Buffers |->
                     IF c = b THEN Filled(elems, vec[other].last) ELSE OwnDestroyed(v, c)]
    /\ UNCHANGED <<vec, allocated>>

CopyConstruct(v, other, b) ==
    /\ v \notin constructed /\ other \in constructed
    /\ \/ CopyFrom(v, other, b) /\ constructed' = constructed \cup {v}
       \/ CopyFromThrows(v, other, b) /\ UNCHANGED constructed
    /\ UNCHANGED history

\* operator=(const vector&).  Both assignments return at once, a stuttering
\* step, when v has no storage, as after it was moved from.
CopyAssign(v, other, b) ==
    /\ {v, other} \subseteq constructed /\ v # other /\ Initialized(v)
    /\ \/ CopyFrom(v, other, b) /\ abandoned' = abandoned \cup {vec[v].first}
       \/ CopyFromThrows(v, other, b) /\ UNCHANGED abandoned
    /\ UNCHANGED <<copyThrows, constructed>>

\* Mutant: the pointers of other are not exchanged with nullptr.
StealKeeping(v, other) == vec' = [vec EXCEPT ![v] = vec[other]]

StealFrom(v, other) == vec' = [vec EXCEPT ![v] = vec[other], ![other] = Moved]

MoveConstruct(v, other) ==
    /\ v \notin constructed /\ other \in constructed
    /\ StealFrom(v, other)
    /\ constructed' = constructed \cup {v}
    /\ UNCHANGED <<cells, allocated, history>>

\* Mutant: no operator delete.
KeepStorage(v) ==
    /\ cells' = [b \in Buffers |-> OwnDestroyed(v, b)]
    /\ UNCHANGED allocated

\* clear() and operator delete
ReleaseStorage(v) ==
    /\ cells' = [b \in Buffers |-> OwnDestroyed(v, b)]
    /\ allocated' = allocated \ {vec[v].first}

\* operator=(vector&&)
MoveAssign(v, other) ==
    /\ {v, other} \subseteq constructed /\ v # other /\ Initialized(v)
    /\ ReleaseStorage(v)
    /\ StealFrom(v, other)
    /\ UNCHANGED <<constructed, history>>

Destruct(v) ==
    /\ v \in constructed
    /\ ReleaseStorage(v)
    /\ vec' = [vec EXCEPT ![v] = Moved]
    /\ constructed' = constructed \ {v}
    /\ UNCHANGED history

Next ==
    \/ \E v \in Vectors :
         \/ PopBack(v) \/ Clear(v) \/ Destruct(v)
         \/ \E x \in Values : PushBack(v, x)
         \/ \E b \in Buffers :
              \/ Construct(v, b)
              \/ \E x \in Values : PushBackGrows(v, x, b)
              \/ \E n \in 1 .. MaxCapacity : Reserve(v, b, n) \/ ReserveThrows(v, b, n)
    \/ \E v, other \in Vectors :
         \/ MoveConstruct(v, other) \/ MoveAssign(v, other)
         \/ \E b \in Buffers : CopyConstruct(v, other, b) \/ CopyAssign(v, other, b)

Spec == Init /\ [][Next]_vars

-----------------------------------------------------------------------------
(* Properties.                                                             *)

\* "Construction, reallocation, removal, and scope exit balance lifetimes":
\* the cells that hold an element are exactly those between first and last of
\* a constructed vector.
LifetimesBalance == \A b \in Buffers : \A k \in DOMAIN cells[b] :
    cells[b][k] # Raw <=> \E v \in constructed : vec[v].first = b /\ k <= vec[v].last

\* That holds of elements whose copies do not throw, through any sequence of
\* construction, growth, copies, moves and destruction.
LifetimesBalanceWithoutThrows == ~copyThrows => LifetimesBalance

\* "Copies own independent storage": no two vectors share a buffer, and a
\* vector's buffer is allocated and as large as its end says, so that neither
\* growth nor a destructor frees or overruns another's storage.
StorageIndependent == \A v \in constructed : Initialized(v) =>
    /\ vec[v].first \in allocated
    /\ vec[v].last <= vec[v].end /\ vec[v].end = Len(cells[vec[v].first])
    /\ \A w \in constructed \ {v} : vec[w].first # vec[v].first

\* Storage that no vector owns was replaced by a copy assignment, which never
\* deletes the storage it replaces.
OnlyCopyAssignLeaks ==
    \A b \in allocated : b \in abandoned <=> ~\E v \in constructed : vec[v].first = b

\* A step changes what one vector holds, or moves all that one holds to another
\* that was empty or was assigned to; no other vector notices.
OthersUntouched == [][\A v, w \in Vectors :
    v # w /\ Contents(v)' # Contents(v) /\ Contents(w)' # Contents(w) =>
        \/ Contents(v)' = Contents(w) /\ Contents(w)' = <<>>
        \/ Contents(w)' = Contents(v) /\ Contents(v)' = <<>>]_vars
=============================================================================
