--------------------------- MODULE SharedPointer ---------------------------
(***************************************************************************)
(* getcracked::SharedPointer<T>: a reference-counted owner whose control   *)
(* block (a count and a mutex) is shared by threads.  A member function    *)
(* that touches the control block takes several steps: take the mutex,     *)
(* load the count, store it and unlock; then, for the last owner, delete   *)
(* the object and delete the block.  What touches only handles of the      *)
(* calling thread is one step.                                             *)
(*                                                                         *)
(* A SharedPointer variable is a handle.  Each thread also has one slot,   *)
(* named by the thread itself: it is the local `tmp' of copy assignment    *)
(* and reset, and then the locals old_ptr/old_cb of release().             *)
(* The caller's contract is the one of every C++ object: two calls that    *)
(* are in progress together may both read a handle, but a handle written   *)
(* by one is not touched by the other (MayRead, MayWrite).                 *)
(***************************************************************************)
EXTENDS Naturals, FiniteSets

CONSTANTS
    Threads,   \* the threads of the program
    Handles,   \* its SharedPointer variables
    Objects,   \* what new T returns, each address once
    Blocks,    \* what new ControlBlock returns
    NULL,      \* nullptr
    MaxCount   \* bound: no copy is started of a block counted to this

ASSUME NamesAssumption ==
    /\ Threads \cap Handles = {}
    /\ NULL \notin Threads \cup Handles \cup Objects \cup Blocks

ASSUME BoundAssumption == MaxCount \in Nat

ASSUME FinitenessAssumption == IsFiniteSet(Threads) /\ IsFiniteSet(Handles)

Slots == Handles \cup Threads

VARIABLES
    ptr,          \* ptr_ of every slot
    cb,           \* cb_ of every slot
    constructed,  \* the handles inside their lifetime
    object,       \* fresh -> live -> deleted
    block,        \* fresh -> live -> deleted
    managed,      \* history: the pointer a block was created for
    count,        \* count_ of every block
    mutex,        \* the thread that holds mutex_, or NULL
    pc,           \* what each thread does next
    call,         \* the member function each thread runs
    loaded        \* the value of count_ each thread loaded

memory  == <<object, block, managed>>
handles == <<ptr, cb, constructed>>
control == <<count, mutex, loaded>>
vars == <<ptr, cb, constructed, object, block, managed, count, mutex, pc, call, loaded>>

Lifetime == {"fresh", "live", "deleted"}
Steps    == {"idle", "acquire", "load", "increment", "decrement", "report",
             "swap", "release", "steal", "deleteObject", "deleteBlock"}
CallType == [op : {"none", "copy", "copyAssign", "moveAssign", "destroy", "reset", "getCount"},
             dst : Handles \cup {NULL},
             src : Handles \cup {NULL}]
NoCall   == [op |-> "none", dst |-> NULL, src |-> NULL]

TypeOK ==
    /\ ptr \in [Slots -> Objects \cup {NULL}]
    /\ cb \in [Slots -> Blocks \cup {NULL}]
    /\ constructed \in SUBSET Handles
    /\ object \in [Objects -> Lifetime]
    /\ block \in [Blocks -> Lifetime]
    /\ managed \in [Blocks -> Objects \cup {NULL}]
    /\ count \in [Blocks -> Nat]
    /\ mutex \in [Blocks -> Threads \cup {NULL}]
    /\ pc \in [Threads -> Steps]
    /\ call \in [Threads -> CallType]
    /\ loaded \in [Threads -> Nat]

Init ==
    /\ ptr = [s \in Slots |-> NULL]
    /\ cb = [s \in Slots |-> NULL]
    /\ constructed = {}
    /\ object = [o \in Objects |-> "fresh"]
    /\ block = [b \in Blocks |-> "fresh"]
    /\ managed = [b \in Blocks |-> NULL]
    /\ count = [b \in Blocks |-> 0]
    /\ mutex = [b \in Blocks |-> NULL]
    /\ pc = [t \in Threads |-> "idle"]
    /\ call = [t \in Threads |-> NoCall]
    /\ loaded = [t \in Threads |-> 0]

-----------------------------------------------------------------------------
(* The caller's contract.                                                  *)

Uses(t, h)   == h \in {call[t].dst, call[t].src}
Writes(t, h) == h = call[t].dst \/ (h = call[t].src /\ call[t].op = "moveAssign")

MayWrite(h) == \A u \in Threads : ~Uses(u, h)
MayRead(h)  == h \in constructed /\ \A u \in Threads : ~Writes(u, h)

Begin(t, op, dst, src, next) ==
    /\ pc[t] = "idle"
    /\ pc' = [pc EXCEPT ![t] = next]
    /\ call' = [call EXCEPT ![t] = [op |-> op, dst |-> dst, src |-> src]]

Goto(t, next) ==
    /\ pc' = [pc EXCEPT ![t] = next]
    /\ call' = IF next = "idle" THEN [call EXCEPT ![t] = NoCall] ELSE call

-----------------------------------------------------------------------------
(* Member functions that touch no control block of another thread.         *)

\* SharedPointer()
ConstructEmpty(t, h) ==
    /\ pc[t] = "idle" /\ h \notin constructed /\ MayWrite(h)
    /\ constructed' = constructed \cup {h}
    /\ UNCHANGED <<ptr, cb, memory, control, pc, call>>

\* The count of a new control block.
OneOwner == 1

\* new ControlBlock {1} for the pointer p, owned by slot s.
NewBlock(s, p, b) ==
    /\ block[b] = "fresh"
    /\ block' = [block EXCEPT ![b] = "live"]
    /\ managed' = [managed EXCEPT ![b] = p]
    /\ count' = [count EXCEPT ![b] = OneOwner]
    /\ ptr' = [ptr EXCEPT ![s] = p]
    /\ cb' = [cb EXCEPT ![s] = b]

\* The raw pointers a caller hands over: nullptr, or one nobody owns yet.
Adoptable == {NULL} \cup {o \in Objects : object[o] = "fresh"}
Adopt(p)  == object' = [o \in Objects |-> IF o = p THEN "live" ELSE object[o]]

\* SharedPointer(T* pointer)
ConstructFrom(t, h, p, b) ==
    /\ pc[t] = "idle" /\ h \notin constructed /\ MayWrite(h) /\ p \in Adoptable
    /\ NewBlock(h, p, b) /\ Adopt(p)
    /\ constructed' = constructed \cup {h}
    /\ UNCHANGED <<mutex, loaded, pc, call>>

\* The constructor when new ControlBlock throws, called directly or by reset():
\* it deletes the pointer and rethrows, and no handle changes.
ConstructFromThrows(t, p) ==
    /\ pc[t] = "idle" /\ p \in Adoptable
    /\ object' = [o \in Objects |-> IF o = p THEN "deleted" ELSE object[o]]
    /\ UNCHANGED <<handles, block, managed, control, pc, call>>

\* steal(): the fields of src move to dst.  Mutant: src is not emptied.
StealKeeping(dst, src) ==
    /\ ptr' = [ptr EXCEPT ![dst] = ptr[src]]
    /\ cb' = [cb EXCEPT ![dst] = cb[src]]
StealFields(dst, src) ==
    /\ ptr' = [ptr EXCEPT ![dst] = ptr[src], ![src] = NULL]
    /\ cb' = [cb EXCEPT ![dst] = cb[src], ![src] = NULL]

\* SharedPointer(SharedPointer&&)
MoveConstruct(t, dst, src) ==
    /\ pc[t] = "idle" /\ dst \notin constructed /\ src \in constructed
    /\ MayWrite(dst) /\ MayWrite(src)
    /\ StealFields(dst, src)
    /\ constructed' = constructed \cup {dst}
    /\ UNCHANGED <<memory, control, pc, call>>

-----------------------------------------------------------------------------
(* Member functions that run over several steps: their first step.         *)

\* Bound.  The count of a block that manages an object never exceeds the
\* number of slots; only that of a block made for nullptr grows for ever.
Copyable(h) == cb[h] # NULL => count[cb[h]] < MaxCount

CopyFields(dst, src) ==
    /\ ptr' = [ptr EXCEPT ![dst] = ptr[src]]
    /\ cb' = [cb EXCEPT ![dst] = cb[src]]

\* SharedPointer(const SharedPointer&)
CopyConstruct(t, dst, src) ==
    /\ dst \notin constructed /\ MayWrite(dst) /\ MayRead(src) /\ Copyable(src)
    /\ CopyFields(dst, src)
    /\ constructed' = constructed \cup {dst}
    /\ IF cb[src] = NULL
         THEN pc[t] = "idle" /\ UNCHANGED <<pc, call>>
         ELSE Begin(t, "copy", dst, src, "acquire")
    /\ UNCHANGED <<memory, control>>

\* What follows the fields of tmp.  Mutant: tmp is not counted.
TmpUncounted(src) == "swap"
TmpCounted(src)   == IF cb[src] = NULL THEN "swap" ELSE "acquire"

\* operator=(const SharedPointer&): SharedPointer tmp {other}
CopyAssign(t, dst, src) ==
    /\ dst # src /\ dst \in constructed /\ MayWrite(dst) /\ MayRead(src) /\ Copyable(src)
    /\ CopyFields(t, src)
    /\ Begin(t, "copyAssign", dst, src, TmpCounted(src))
    /\ UNCHANGED <<constructed, memory, control>>

\* operator=(SharedPointer&&): the exchanges at the head of release()
MoveAssign(t, dst, src) ==
    /\ dst # src /\ {dst, src} \subseteq constructed /\ MayWrite(dst) /\ MayWrite(src)
    /\ StealFields(t, dst)
    /\ Begin(t, "moveAssign", dst, src, "release")
    /\ UNCHANGED <<constructed, memory, control>>

\* ~SharedPointer(): the same exchanges
Destroy(t, h) ==
    /\ h \in constructed /\ MayWrite(h)
    /\ StealFields(t, h)
    /\ constructed' = constructed \ {h}
    /\ Begin(t, "destroy", h, NULL, "release")
    /\ UNCHANGED <<memory, control>>

\* reset(nullptr): tmp stays empty
ResetToNull(t, h) ==
    /\ h \in constructed /\ MayWrite(h)
    /\ Begin(t, "reset", h, NULL, "swap")
    /\ UNCHANGED <<handles, memory, control>>

\* reset(pointer): tmp = SharedPointer(pointer)
Reset(t, h, p, b) ==
    /\ h \in constructed /\ MayWrite(h) /\ p # NULL /\ p \in Adoptable
    /\ NewBlock(t, p, b) /\ Adopt(p)
    /\ Begin(t, "reset", h, NULL, "swap")
    /\ UNCHANGED <<constructed, mutex, loaded>>

\* get_count() on a handle that has a control block
GetCount(t, h) ==
    /\ MayRead(h) /\ cb[h] # NULL
    /\ Begin(t, "getCount", NULL, h, "acquire")
    /\ UNCHANGED <<handles, memory, control>>

-----------------------------------------------------------------------------
(* The critical sections: one each in copy_and_increment, release and      *)
(* get_count.                                                              *)

\* The slot whose control block the call is concerned with.
Subject(t) == CASE call[t].op = "copy"     -> call[t].dst
                [] call[t].op = "getCount" -> call[t].src
                [] OTHER                   -> t
Block(t) == cb[Subject(t)]

Section(t) == CASE call[t].op \in {"copy", "copyAssign"} -> "increment"
                [] call[t].op = "getCount"               -> "report"
                [] OTHER                                 -> "decrement"

\* Mutant: no scoped_lock.
Unguarded(b) == TRUE
Free(b)      == mutex[b] = NULL

Acquire(t) ==
    /\ pc[t] = "acquire" /\ Free(Block(t))
    /\ mutex' = [mutex EXCEPT ![Block(t)] = t]
    /\ Goto(t, "load")
    /\ UNCHANGED <<handles, memory, count, loaded>>

Load(t) ==
    /\ pc[t] = "load"
    /\ loaded' = [loaded EXCEPT ![t] = count[Block(t)]]
    /\ Goto(t, Section(t))
    /\ UNCHANGED <<handles, memory, count, mutex>>

\* The scoped_lock's destructor; the value loaded is not used again.
Unlock(t) ==
    /\ mutex' = [mutex EXCEPT ![Block(t)] = NULL]
    /\ loaded' = [loaded EXCEPT ![t] = 0]

\* ++cb_->count_
Increment(t) ==
    /\ pc[t] = "increment"
    /\ count' = [count EXCEPT ![Block(t)] = loaded[t] + 1]
    /\ Unlock(t)
    /\ Goto(t, IF call[t].op = "copyAssign" THEN "swap" ELSE "idle")
    /\ UNCHANGED <<handles, memory>>

\* return cb_->count_
Report(t) ==
    /\ pc[t] = "report"
    /\ Unlock(t)
    /\ Goto(t, "idle")
    /\ UNCHANGED <<handles, memory, count>>

\* The std::swaps of copy assignment and reset; what is left is ~tmp().
Swap(t) ==
    /\ pc[t] = "swap"
    /\ LET d == call[t].dst IN
         /\ ptr' = [ptr EXCEPT ![d] = ptr[t], ![t] = ptr[d]]
         /\ cb' = [cb EXCEPT ![d] = cb[t], ![t] = cb[d]]
    /\ pc' = [pc EXCEPT ![t] = "release"]
    /\ call' = [call EXCEPT ![t].op = "destroy"]
    /\ UNCHANGED <<constructed, memory, control>>

-----------------------------------------------------------------------------
(* The rest of release(), and the steal() that follows it in move          *)
(* assignment.                                                             *)

\* old_ptr and old_cb go out of scope.
ForgetOld(t) == ptr' = [ptr EXCEPT ![t] = NULL] /\ cb' = [cb EXCEPT ![t] = NULL]
AfterRelease(t) == IF call[t].op = "moveAssign" THEN "steal" ELSE "idle"

\* if (!old_ptr) return
Release(t) ==
    /\ pc[t] = "release"
    /\ IF ptr[t] = NULL
         THEN ForgetOld(t) /\ Goto(t, AfterRelease(t))
         ELSE Goto(t, "acquire") /\ UNCHANGED <<ptr, cb>>
    /\ UNCHANGED <<constructed, memory, control>>

\* free = (--old_cb->count_ == 0)
\* Mutants: (old_cb->count_-- == 0), and (--old_cb->count_ <= 1).
OneAfter(t) == loaded[t] = 0
OneLeft(t)  == loaded[t] <= 2
Last(t)     == loaded[t] = 1

Decrement(t) ==
    /\ pc[t] = "decrement"
    /\ count' = [count EXCEPT ![Block(t)] = loaded[t] - 1]
    /\ Unlock(t)
    /\ IF Last(t)
         THEN Goto(t, "deleteObject") /\ UNCHANGED <<ptr, cb>>
         ELSE Goto(t, AfterRelease(t)) /\ ForgetOld(t)
    /\ UNCHANGED <<constructed, memory>>

\* delete old_ptr
DeleteObject(t) ==
    /\ pc[t] = "deleteObject"
    /\ object' = [object EXCEPT ![ptr[t]] = "deleted"]
    /\ Goto(t, "deleteBlock")
    /\ UNCHANGED <<handles, block, managed, control>>

\* delete old_cb
DeleteBlock(t) ==
    /\ pc[t] = "deleteBlock"
    /\ block' = [block EXCEPT ![cb[t]] = "deleted"]
    /\ ForgetOld(t)
    /\ Goto(t, AfterRelease(t))
    /\ UNCHANGED <<constructed, object, managed, control>>

Steal(t) ==
    /\ pc[t] = "steal"
    /\ StealFields(call[t].dst, call[t].src)
    /\ Goto(t, "idle")
    /\ UNCHANGED <<constructed, memory, control>>

-----------------------------------------------------------------------------
\* A thread that is inside a member function takes its next step.
Continue(t) ==
    \/ Acquire(t) \/ Load(t) \/ Increment(t) \/ Report(t) \/ Swap(t)
    \/ Release(t) \/ Decrement(t) \/ DeleteObject(t) \/ DeleteBlock(t) \/ Steal(t)

\* A thread calls a member function.
Call(t) ==
    \/ \E h \in Handles :
         \/ ConstructEmpty(t, h) \/ Destroy(t, h)
         \/ ResetToNull(t, h) \/ GetCount(t, h)
    \/ \E h \in Handles, p \in Objects \cup {NULL}, b \in Blocks :
         ConstructFrom(t, h, p, b) \/ Reset(t, h, p, b)
    \/ \E p \in Objects : ConstructFromThrows(t, p)
    \/ \E dst, src \in Handles :
         \/ CopyConstruct(t, dst, src) \/ MoveConstruct(t, dst, src)
         \/ CopyAssign(t, dst, src) \/ MoveAssign(t, dst, src)

Next == \E t \in Threads : Call(t) \/ Continue(t)

\* A thread inside a member function is eventually scheduled again.  Weak
\* fairness: nothing is assumed of the order in which a mutex is granted.
Fairness == \A t \in Threads : WF_vars(Continue(t))

Spec     == Init /\ [][Next]_vars
FairSpec == Spec /\ Fairness

-----------------------------------------------------------------------------
(* Properties.                                                             *)

\* A slot that does not own its share of the count: the handle being copied
\* into, until the increment; the old pointers of a release, after the
\* decrement that reached zero.
Pending(s) == \E t \in Threads :
    /\ s = Subject(t)
    /\ \/ call[t].op \in {"copy", "copyAssign"} /\ pc[t] \in {"acquire", "load", "increment"}
       \/ pc[t] \in {"deleteObject", "deleteBlock"}

Sharers(b) == {s \in Slots : cb[s] = b /\ ~Pending(s)}

\* The count of a block is the number of slots that share it, whatever the
\* interleaving of copies, assignments and releases.  (A block made for
\* nullptr is incremented by copies and never decremented: release() returns
\* at a null old_ptr.)
CountIsSharers == \A b \in Blocks :
    managed[b] # NULL => count[b] = Cardinality(Sharers(b))

\* No slot points to a deleted object or block, and whoever is about to
\* touch a block, or to delete, finds it live: no use after free and no
\* double delete.
NoUseAfterFree ==
    /\ \A s \in Slots : cb[s] # NULL => block[cb[s]] = "live"
    /\ \A s \in Slots : ptr[s] # NULL =>
         \/ object[ptr[s]] = "live"
         \/ s \in Threads /\ pc[s] = "deleteBlock"

\* Every object that was handed over and is not deleted yet is reachable
\* from some slot; so is its control block.
NoLeak ==
    /\ \A o \in Objects : object[o] = "live" => \E s \in Slots : ptr[s] = o
    /\ \A b \in Blocks : block[b] = "live" /\ managed[b] # NULL => \E s \in Slots : cb[s] = b

\* What get_count returns is the number of owners at the moment it unlocks.
CountReported == [][\A t \in Threads :
    Report(t) /\ managed[Block(t)] # NULL => loaded[t] = Cardinality(Sharers(Block(t)))]_vars

\* An object that no SharedPointer variable owns any more is deleted, or
\* finds its way back into a variable.
EventuallyReclaimed == \A o \in Objects :
    object[o] = "live" ~> (object[o] = "deleted" \/ \E h \in Handles : ptr[h] = o)

\* A slot owns its object until the release that reached zero owners.
Ownership == INSTANCE SharedOwnership WITH
    owns <- [s \in Slots |->
               IF s \in Threads /\ pc[s] \in {"deleteObject", "deleteBlock"}
                 THEN NULL ELSE ptr[s]]

\* Counting owners under a mutex implements shared ownership: an object is
\* deleted once, only when unowned, and always once it is unowned.
ImplementsOwnership == Ownership!FairSpec
=============================================================================
