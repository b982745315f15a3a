--------------------------- MODULE OwningPointers ---------------------------
(***************************************************************************)
(* The owning pointers of the repository: getcracked::unique_ptr and       *)
(* make_unique (get_cracked/cpp/memory_and_pointers/), whose copies throw, *)
(* and Auto_ptr4 (learncpp/22_move_semantics_and_smart_pointers/move.cpp), *)
(* whose copies allocate.  T's constructor, its assignment and operator    *)
(* new may throw.                                                          *)
(***************************************************************************)
CONSTANTS Pointers, Objects, Null, Absent

ASSUME PointerAssumption == Null # Absent /\ Null \notin Objects /\ Absent \notin Objects

VARIABLES
    class,      \* the class under test
    ptr,        \* ptr_ of each pointer; Absent: not constructed
    heap,       \* each object: not allocated yet, alive, deleted
    raw,        \* objects the caller took with release()
    thrown,     \* which copies have thrown so far
    outcome     \* of the last call: "ok", "threw" or, for good, "undefined"

ownVars == <<class, ptr, heap, raw, thrown, outcome>>

Classes == {"unique_ptr", "Auto_ptr4"}

OwnTypeOK ==
    /\ class \in Classes
    /\ ptr \in [Pointers -> Objects \cup {Null, Absent}]
    /\ heap \in [Objects -> {"free", "live", "deleted"}]
    /\ raw \subseteq Objects
    /\ thrown \subseteq {"construction", "assignment"}
    /\ outcome \in {"ok", "threw", "undefined"}

Unborn ==
    /\ ptr = [p \in Pointers |-> Absent]
    /\ heap = [o \in Objects |-> "free"]
    /\ raw = {} /\ thrown = {} /\ outcome = "ok"

OwnInit == class \in Classes /\ Unborn

-----------------------------------------------------------------------------
Constructed(p) == ptr[p] # Absent
Owns(p) == ptr[p] \in Objects
Dangles(p) == Owns(p) /\ heap[ptr[p]] = "deleted"
New(o) == heap[o] = "free"

\* delete ptr_: nothing for null, undefined for an object deleted before.
Deleted(p) == IF Owns(p) THEN [heap EXCEPT ![ptr[p]] = "deleted"] ELSE heap

Undef == outcome' = "undefined" /\ UNCHANGED <<class, ptr, heap, raw, thrown>>

-----------------------------------------------------------------------------
(* Both classes.                                                           *)

Default(p) ==
    /\ ~Constructed(p)
    /\ ptr' = [ptr EXCEPT ![p] = Null]
    /\ outcome' = "ok" /\ UNCHANGED <<class, heap, raw, thrown>>

\* unique_ptr(new T), Auto_ptr4(new T), make_unique.
ConstructNew(p, o) ==
    /\ ~Constructed(p) /\ New(o)
    /\ ptr' = [ptr EXCEPT ![p] = o]
    /\ heap' = [heap EXCEPT ![o] = "live"]
    /\ outcome' = "ok" /\ UNCHANGED <<class, raw, thrown>>

\* Mutant: the moved-from pointer keeps its object.
Copied(p, q) == [ptr EXCEPT ![p] = ptr[q]]

\* p takes what q owns, and q is left null.
Stolen(p, q) == [ptr EXCEPT ![p] = ptr[q], ![q] = Null]

MoveConstructOwner(p, q) ==
    /\ ~Constructed(p) /\ Constructed(q)
    /\ ptr' = Stolen(p, q)
    /\ outcome' = "ok" /\ UNCHANGED <<class, heap, raw, thrown>>

\* p deletes its own object and takes that of q; nothing if they are the same.
MoveAssignOwner(p, q) ==
    /\ p # q /\ Constructed(p) /\ Constructed(q)
    /\ IF Dangles(p)
         THEN Undef
         ELSE /\ ptr' = Stolen(p, q) /\ heap' = Deleted(p)
              /\ outcome' = "ok" /\ UNCHANGED <<class, raw, thrown>>

DestroyOwner(p) ==
    /\ Constructed(p)
    /\ IF Dangles(p)
         THEN Undef
         ELSE /\ ptr' = [ptr EXCEPT ![p] = Absent] /\ heap' = Deleted(p)
              /\ outcome' = "ok" /\ UNCHANGED <<class, raw, thrown>>

-----------------------------------------------------------------------------
(* unique_ptr only.                                                        *)

CopyRefused(p, q) ==
    /\ class = "unique_ptr" /\ Constructed(q)
    /\ outcome' = "threw" /\ UNCHANGED <<class, ptr, heap, raw, thrown>>

ReleaseOwner(p) ==
    /\ class = "unique_ptr" /\ Owns(p)
    /\ ptr' = [ptr EXCEPT ![p] = Null]
    /\ raw' = raw \cup {ptr[p]}
    /\ outcome' = "ok" /\ UNCHANGED <<class, heap, thrown>>

\* reset(nullptr), reset of what was released, reset(new T).
ResetOwner(p, target) ==
    /\ class = "unique_ptr" /\ Constructed(p)
    /\ target \in raw \cup {Null} \/ (target \in Objects /\ New(target))
    /\ ptr' = [ptr EXCEPT ![p] = target]
    /\ heap' = [o \in Objects |-> IF o = target THEN "live" ELSE Deleted(p)[o]]
    /\ raw' = raw \ {target}
    /\ outcome' = "ok" /\ UNCHANGED <<class, thrown>>

-----------------------------------------------------------------------------
(* Auto_ptr4 only, and the swap of move.cpp.                               *)

\* _ptr = new T; *_ptr = *a._ptr, with an empty or dangling a.
CopiesNothing(q) == ptr[q] = Null \/ Dangles(q)

\* If new throws nothing has happened; if the assignment throws the object is
\* lost, for the destructor of p does not run.
CopyConstructOwner(p, q, o) ==
    /\ class = "Auto_ptr4" /\ ~Constructed(p) /\ Constructed(q) /\ New(o)
    /\ \/ CopiesNothing(q) /\ Undef
       \/ /\ ~CopiesNothing(q)
          /\ heap' = [heap EXCEPT ![o] = "live"] /\ ptr' = [ptr EXCEPT ![p] = o]
          /\ outcome' = "ok" /\ UNCHANGED <<class, raw, thrown>>
       \/ /\ \/ heap' = heap
             \/ ~CopiesNothing(q) /\ heap' = [heap EXCEPT ![o] = "live"]
          /\ outcome' = "threw" /\ thrown' = thrown \cup {"construction"}
          /\ UNCHANGED <<class, ptr, raw>>

\* The old object is deleted first: if new throws then, p keeps its address.
CopyAssignOwner(p, q, o) ==
    /\ class = "Auto_ptr4" /\ p # q /\ Constructed(p) /\ Constructed(q) /\ New(o)
    /\ \/ (CopiesNothing(q) \/ Dangles(p)) /\ Undef
       \/ /\ ~CopiesNothing(q) /\ ~Dangles(p)
          /\ heap' = [Deleted(p) EXCEPT ![o] = "live"] /\ ptr' = [ptr EXCEPT ![p] = o]
          /\ \/ outcome' = "ok" /\ UNCHANGED thrown
             \/ outcome' = "threw" /\ thrown' = thrown \cup {"assignment"}
          /\ UNCHANGED <<class, raw>>
       \/ /\ ~Dangles(p)
          /\ heap' = Deleted(p)
          /\ outcome' = "threw" /\ thrown' = thrown \cup {"assignment"}
          /\ UNCHANGED <<class, ptr, raw>>

\* mainres = generateResource(): the temporary owns a new object and is stolen
\* from by the move assignment.
AssignGenerated(p, o) ==
    /\ class = "Auto_ptr4" /\ Constructed(p) /\ New(o)
    /\ IF Dangles(p)
         THEN Undef
         ELSE /\ ptr' = [ptr EXCEPT ![p] = o] /\ heap' = [Deleted(p) EXCEPT ![o] = "live"]
              /\ outcome' = "ok" /\ UNCHANGED <<class, raw, thrown>>

\* custom_swap: a is moved to tmp, b to a, tmp to b.
SwapOwners(p, q) ==
    /\ p # q /\ Constructed(p) /\ Constructed(q)
    /\ ptr' = [ptr EXCEPT ![p] = ptr[q], ![q] = ptr[p]]
    /\ outcome' = "ok" /\ UNCHANGED <<class, heap, raw, thrown>>

-----------------------------------------------------------------------------
OwnStep ==
    \/ \E p \in Pointers : Default(p) \/ DestroyOwner(p) \/ ReleaseOwner(p)
    \/ \E p \in Pointers, o \in Objects : ConstructNew(p, o) \/ AssignGenerated(p, o)
    \/ \E p \in Pointers, target \in Objects \cup {Null} : ResetOwner(p, target)
    \/ \E p, q \in Pointers :
          \/ MoveConstructOwner(p, q) \/ MoveAssignOwner(p, q)
          \/ CopyRefused(p, q) \/ SwapOwners(p, q)
          \/ \E o \in Objects : CopyConstructOwner(p, q, o) \/ CopyAssignOwner(p, q, o)

OwnNext == outcome # "undefined" /\ OwnStep

-----------------------------------------------------------------------------
\* No object has two owners: not two pointers, and not a pointer and a caller
\* that released it.
OneOwnerEach ==
    /\ \A p, q \in Pointers : p # q /\ Owns(p) => ptr[p] # ptr[q]
    /\ \A p \in Pointers : ptr[p] \notin raw

\* A pointer refers to a deleted object only after a copy assignment of
\* Auto_ptr4 threw, and a live object is lost only after a copy construction
\* threw; a pointer never refers to an object that was not made.
DanglesOnlyAfterThrow ==
    /\ \A p \in Pointers :
          Owns(p) => heap[ptr[p]] = "live" \/ (heap[ptr[p]] = "deleted" /\ "assignment" \in thrown)
    /\ \A o \in raw : heap[o] = "live"
    /\ \A o \in Objects :
          heap[o] = "live" =>
             o \in raw \/ (\E p \in Pointers : ptr[p] = o) \/ "construction" \in thrown

\* unique_ptr neither loses an object nor leaves one dangling.
UniquePtrIsSafe == class = "unique_ptr" => thrown = {} /\ outcome # "undefined"

OwnedOnce == OneOwnerEach /\ DanglesOnlyAfterThrow /\ UniquePtrIsSafe
=============================================================================
