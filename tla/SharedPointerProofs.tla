------------------------ MODULE SharedPointerProofs ------------------------
(***************************************************************************)
(* Why getcracked::SharedPointer<T> is correct for any number of threads,  *)
(* variables and objects: the inductive invariant, and the proofs that     *)
(* the count of a block is the number of its owners, that nothing is used  *)
(* after it was freed or leaked, and that all of it implements             *)
(* SharedOwnership.                                                        *)
(***************************************************************************)
EXTENDS SharedPointer, FiniteSetTheorems, TLAPS

Op(t)  == call[t].op
Dst(t) == call[t].dst
Src(t) == call[t].src

Deleting == {"deleteObject", "deleteBlock"}
Guarded  == {"load", "increment", "decrement", "report"}
Dropping == {"acquire", "load", "decrement"} \cup Deleting

\* The steps of each member function, and the variables it was called with.
CallShape(t) ==
    \/ Op(t) = "none" /\ pc[t] = "idle" /\ Dst(t) = NULL /\ Src(t) = NULL
    \/ /\ Op(t) = "copy" /\ pc[t] \in {"acquire", "load", "increment"}
       /\ Dst(t) \in Handles /\ Src(t) \in Handles /\ Dst(t) # Src(t)
    \/ /\ Op(t) = "copyAssign" /\ pc[t] \in {"acquire", "load", "increment", "swap"}
       /\ Dst(t) \in Handles /\ Src(t) \in Handles /\ Dst(t) # Src(t)
    \/ /\ Op(t) = "moveAssign" /\ pc[t] \in Dropping \cup {"release", "steal"}
       /\ Dst(t) \in Handles /\ Src(t) \in Handles /\ Dst(t) # Src(t)
    \/ Op(t) = "destroy" /\ pc[t] \in Dropping \cup {"release"} /\ Dst(t) \in Handles
    \/ Op(t) = "reset" /\ pc[t] = "swap" /\ Dst(t) \in Handles /\ Src(t) = NULL
    \/ /\ Op(t) = "getCount" /\ pc[t] \in {"acquire", "load", "report"}
       /\ Dst(t) = NULL /\ Src(t) \in Handles

\* What the callers promise stays true while the calls are in progress.
Contract == \A t, u \in Threads, h \in Handles : t # u /\ Writes(t, h) => ~Uses(u, h)

\* Variables are used inside their lifetimes and are empty outside.
Lifetimes ==
    /\ \A h \in Handles : h \notin constructed => cb[h] = NULL /\ ptr[h] = NULL
    /\ \A t \in Threads :
         /\ Op(t) \in {"copy", "copyAssign", "moveAssign", "reset"} => Dst(t) \in constructed
         /\ Op(t) \in {"copy", "copyAssign", "moveAssign", "getCount"} => Src(t) \in constructed

\* The calls whose thread slot, which stands for tmp or old_ptr, is empty.
Unused(t) == Op(t) \in {"none", "copy", "getCount"} \/ pc[t] = "steal"

\* What the slots of a call hold while it is in progress.
Progress(t) ==
    /\ Unused(t) => cb[t] = NULL /\ ptr[t] = NULL
    /\ Op(t) = "moveAssign" => cb[Dst(t)] = NULL /\ ptr[Dst(t)] = NULL
    /\ Op(t) = "copy" => /\ cb[Dst(t)] = cb[Src(t)] /\ ptr[Dst(t)] = ptr[Src(t)]
                         /\ cb[Src(t)] # NULL
    /\ Op(t) = "copyAssign" /\ pc[t] # "swap" =>
         cb[t] = cb[Src(t)] /\ ptr[t] = ptr[Src(t)] /\ cb[Src(t)] # NULL
    /\ Op(t) = "getCount" => cb[Src(t)] # NULL
    /\ Op(t) \in {"destroy", "moveAssign"} /\ pc[t] \in Dropping => ptr[t] # NULL

\* Whoever deletes is the only one left that knows the block.
SoleDeleter == \A t \in Threads, s \in Slots :
    pc[t] \in Deleting /\ s # t => cb[s] # cb[t]

\* In its critical section a thread holds the mutex of its block, and what
\* it loaded there is still the count.
Holds(t) == pc[t] \in Guarded =>
    mutex[Block(t)] = t /\ (pc[t] # "load" => loaded[t] = count[Block(t)])

\* The blocks and objects the slots refer to.
Refers(s) ==
    /\ cb[s] = NULL => ptr[s] = NULL
    /\ cb[s] # NULL => block[cb[s]] = "live" /\ managed[cb[s]] = ptr[s]
    /\ ptr[s] # NULL => \/ object[ptr[s]] = "live"
                        \/ s \in Threads /\ pc[s] = "deleteBlock"

\* A block is created for one object, an object for one block.
Management ==
    /\ \A b \in Blocks : block[b] = "fresh" => managed[b] = NULL
    /\ \A b \in Blocks : managed[b] # NULL => object[managed[b]] # "fresh"
    /\ \A b, c \in Blocks : managed[b] # NULL /\ managed[b] = managed[c] => b = c

Calls     == \A t \in Threads : CallShape(t)
InFlight  == \A t \in Threads : Progress(t)
Sections  == \A t \in Threads : Holds(t)
Referents == \A s \in Slots : Refers(s)

\* The inductive invariant: CountIsSharers needs the mutex to hold (Sections),
\* the contract to keep a call's own slots to itself (Contract, InFlight), and
\* a deleter to be alone (SoleDeleter), which in turn follows from
\* CountIsSharers when the count reaches zero.
IInv ==
    /\ TypeOK /\ Calls /\ Contract /\ Lifetimes /\ InFlight
    /\ SoleDeleter /\ Sections /\ Referents /\ Management /\ CountIsSharers

\* A step leads every call to its next step.
LEMMA CallsStep ==
    ASSUME TypeOK, Calls, NEW t \in Threads, Call(t) \/ Continue(t)
    PROVE  Calls'
<1> SUFFICES ASSUME NEW u \in Threads PROVE CallShape(u)'
  BY DEF Calls
<1> USE NamesAssumption DEF CallShape, Dropping, Deleting, Op, Dst, Src, TypeOK,
        CallType, MayRead
<1>a. CallShape(u) /\ CallShape(t)
  BY DEF Calls
<1>1. ASSUME NEW h \in Handles, ConstructEmpty(t, h) PROVE CallShape(u)'
  BY <1>a, <1>1 DEF ConstructEmpty, memory, control
<1>2. ASSUME NEW h \in Handles, NEW p \in Objects \cup {NULL}, NEW b \in Blocks,
           ConstructFrom(t, h, p, b)
      PROVE  CallShape(u)'
  BY <1>a, <1>2 DEF ConstructFrom, NewBlock, OneOwner, Adopt, Adoptable
<1>3. ASSUME NEW h \in Handles, NEW p \in Objects \cup {NULL}, NEW b \in Blocks,
           Reset(t, h, p, b)
      PROVE  CallShape(u)'
  BY <1>a, <1>3 DEF Reset, NewBlock, OneOwner, Adopt, Adoptable, Begin
<1>4. ASSUME NEW p \in Objects, ConstructFromThrows(t, p) PROVE CallShape(u)'
  BY <1>a, <1>4 DEF ConstructFromThrows, Adoptable, handles, control
<1>5. ASSUME NEW dst \in Handles, NEW src \in Handles,
           MoveConstruct(t, dst, src)
      PROVE  CallShape(u)'
  BY <1>a, <1>5 DEF MoveConstruct, StealFields, memory, control
<1>6. ASSUME NEW dst \in Handles, NEW src \in Handles,
           CopyConstruct(t, dst, src)
      PROVE  CallShape(u)'
  BY <1>a, <1>6 DEF CopyConstruct, CopyFields, Begin, memory, control
<1>7. ASSUME NEW dst \in Handles, NEW src \in Handles,
           CopyAssign(t, dst, src)
      PROVE  CallShape(u)'
  BY <1>a, <1>7 DEF CopyAssign, CopyFields, TmpCounted, Begin, memory, control
<1>8. ASSUME NEW dst \in Handles, NEW src \in Handles,
           MoveAssign(t, dst, src)
      PROVE  CallShape(u)'
  BY <1>a, <1>8 DEF MoveAssign, StealFields, Begin, memory, control
<1>9. ASSUME NEW h \in Handles, Destroy(t, h) PROVE CallShape(u)'
  BY <1>a, <1>9 DEF Destroy, StealFields, Begin, memory, control
<1>10. ASSUME NEW h \in Handles, ResetToNull(t, h) PROVE CallShape(u)'
  BY <1>a, <1>10 DEF ResetToNull, Begin, handles, memory, control
<1>11. ASSUME NEW h \in Handles, GetCount(t, h) PROVE CallShape(u)'
  BY <1>a, <1>11 DEF GetCount, Begin, handles, memory, control
<1>12. CASE Acquire(t)
  BY <1>a, <1>12 DEF Acquire, Free, Goto, handles, memory
<1>13. CASE Load(t)
  BY <1>a, <1>13 DEF Load, Goto, Section, handles, memory
<1>14. CASE Increment(t)
  BY <1>a, <1>14 DEF Increment, Unlock, Goto, NoCall, handles, memory
<1>15. CASE Report(t)
  BY <1>a, <1>15 DEF Report, Unlock, Goto, NoCall, handles, memory
<1>16. CASE Swap(t)
  BY <1>a, <1>16 DEF Swap, memory, control
<1>17. CASE Release(t)
  BY <1>a, <1>17 DEF Release, ForgetOld, AfterRelease, Goto, NoCall, memory, control
<1>18. CASE Decrement(t)
  BY <1>a, <1>18
  DEF Decrement, Last, Unlock, ForgetOld, AfterRelease, Goto, NoCall, memory
<1>19. CASE DeleteObject(t)
  BY <1>a, <1>19 DEF DeleteObject, Goto, handles, control
<1>20. CASE DeleteBlock(t)
  BY <1>a, <1>20 DEF DeleteBlock, ForgetOld, AfterRelease, Goto, NoCall, control
<1>21. CASE Steal(t)
  BY <1>a, <1>21 DEF Steal, StealFields, Goto, NoCall, memory, control
<1> QED
  BY <1>1, <1>2, <1>3, <1>4, <1>5, <1>6, <1>7, <1>8, <1>9, <1>10, <1>11, <1>12, <1>13,
     <1>14, <1>15, <1>16, <1>17, <1>18, <1>19, <1>20, <1>21
  DEF Call, Continue

\* A call starts only with variables it may use.
LEMMA ContractStep ==
    ASSUME TypeOK, Calls, Contract, NEW t \in Threads, Call(t) \/ Continue(t)
    PROVE  Contract'
<1> SUFFICES ASSUME NEW u \in Threads, NEW v \in Threads, u # v,
                    NEW x \in Handles, Writes(u, x)'
             PROVE ~Uses(v, x)'
  BY DEF Contract
<1> USE NamesAssumption DEF Writes, Uses, TypeOK, CallType, MayWrite, MayRead
<1>a. CallShape(t)
  BY DEF Calls
<1>b. /\ Writes(u, x) => ~Uses(v, x)
      /\ Writes(v, x) => ~Uses(u, x)
  BY DEF Contract
<1>1. ASSUME NEW h \in Handles, ConstructEmpty(t, h) PROVE ~Uses(v, x)'
  BY <1>b, <1>1 DEF ConstructEmpty, memory, control
<1>2. ASSUME NEW h \in Handles, NEW p \in Objects \cup {NULL}, NEW b \in Blocks,
           ConstructFrom(t, h, p, b)
      PROVE  ~Uses(v, x)'
  BY <1>b, <1>2 DEF ConstructFrom, NewBlock, OneOwner, Adopt, Adoptable
<1>3. ASSUME NEW h \in Handles, NEW p \in Objects \cup {NULL}, NEW b \in Blocks,
           Reset(t, h, p, b)
      PROVE  ~Uses(v, x)'
  BY <1>b, <1>3 DEF Reset, NewBlock, OneOwner, Adopt, Adoptable, Begin
<1>4. ASSUME NEW p \in Objects, ConstructFromThrows(t, p) PROVE ~Uses(v, x)'
  BY <1>b, <1>4 DEF ConstructFromThrows, Adoptable, handles, control
<1>5. ASSUME NEW dst \in Handles, NEW src \in Handles,
           MoveConstruct(t, dst, src)
      PROVE  ~Uses(v, x)'
  BY <1>b, <1>5 DEF MoveConstruct, StealFields, memory, control
<1>6. ASSUME NEW dst \in Handles, NEW src \in Handles,
           CopyConstruct(t, dst, src)
      PROVE  ~Uses(v, x)'
  BY <1>b, <1>6 DEF CopyConstruct, CopyFields, Begin, memory, control
<1>7. ASSUME NEW dst \in Handles, NEW src \in Handles,
           CopyAssign(t, dst, src)
      PROVE  ~Uses(v, x)'
  BY <1>b, <1>7 DEF CopyAssign, CopyFields, TmpCounted, Begin, memory, control
<1>8. ASSUME NEW dst \in Handles, NEW src \in Handles,
           MoveAssign(t, dst, src)
      PROVE  ~Uses(v, x)'
  BY <1>b, <1>8 DEF MoveAssign, StealFields, Begin, memory, control
<1>9. ASSUME NEW h \in Handles, Destroy(t, h) PROVE ~Uses(v, x)'
  BY <1>b, <1>9 DEF Destroy, StealFields, Begin, memory, control
<1>10. ASSUME NEW h \in Handles, ResetToNull(t, h) PROVE ~Uses(v, x)'
  BY <1>b, <1>10 DEF ResetToNull, Begin, handles, memory, control
<1>11. ASSUME NEW h \in Handles, GetCount(t, h) PROVE ~Uses(v, x)'
  BY <1>b, <1>11 DEF GetCount, Begin, handles, memory, control
<1>12. CASE Acquire(t)
  BY <1>b, <1>12 DEF Acquire, Free, Goto, handles, memory
<1>13. CASE Load(t)
  BY <1>b, <1>13 DEF Load, Goto, Section, handles, memory
<1>14. CASE Increment(t)
  BY <1>b, <1>14 DEF Increment, Unlock, Goto, NoCall, handles, memory
<1>15. CASE Report(t)
  BY <1>b, <1>15 DEF Report, Unlock, Goto, NoCall, handles, memory
<1>16. CASE Swap(t)
  BY <1>b, <1>16 DEF Swap, memory, control
<1>17. CASE Release(t)
  BY <1>b, <1>17 DEF Release, ForgetOld, AfterRelease, Goto, NoCall, memory, control
<1>18. CASE Decrement(t)
  BY <1>b, <1>18
  DEF Decrement, Last, Unlock, ForgetOld, AfterRelease, Goto, NoCall, memory
<1>19. CASE DeleteObject(t)
  BY <1>b, <1>19 DEF DeleteObject, Goto, handles, control
<1>20. CASE DeleteBlock(t)
  BY <1>b, <1>20 DEF DeleteBlock, ForgetOld, AfterRelease, Goto, NoCall, control
<1>21. CASE Steal(t)
  BY <1>b, <1>21 DEF Steal, StealFields, Goto, NoCall, memory, control
<1> QED
  BY <1>1, <1>2, <1>3, <1>4, <1>5, <1>6, <1>7, <1>8, <1>9, <1>10, <1>11, <1>12, <1>13,
     <1>14, <1>15, <1>16, <1>17, <1>18, <1>19, <1>20, <1>21
  DEF Call, Continue

\* Only unused variables begin or end their lifetimes.
LEMMA LifetimesStep ==
    ASSUME TypeOK, Calls, Contract, Lifetimes, InFlight,
           NEW t \in Threads, Call(t) \/ Continue(t)
    PROVE  Lifetimes'
<1> USE NamesAssumption DEF Lifetimes, Op, Dst, Src, Uses, TypeOK, MayWrite, MayRead,
        Slots, CallType
<1>a. CallShape(t)
  BY DEF Calls
<1>1. ASSUME NEW h \in Handles, ConstructEmpty(t, h) PROVE Lifetimes'
  BY <1>1 DEF ConstructEmpty, memory, control
<1>2. ASSUME NEW h \in Handles, NEW p \in Objects \cup {NULL}, NEW b \in Blocks,
           ConstructFrom(t, h, p, b)
      PROVE  Lifetimes'
  BY <1>2 DEF ConstructFrom, NewBlock, OneOwner, Adopt, Adoptable
<1>3. ASSUME NEW h \in Handles, NEW p \in Objects \cup {NULL}, NEW b \in Blocks,
           Reset(t, h, p, b)
      PROVE  Lifetimes'
  BY <1>3 DEF Reset, NewBlock, OneOwner, Adopt, Adoptable, Begin
<1>4. ASSUME NEW p \in Objects, ConstructFromThrows(t, p) PROVE Lifetimes'
  BY <1>4 DEF ConstructFromThrows, Adoptable, handles, control
<1>5. ASSUME NEW dst \in Handles, NEW src \in Handles,
           MoveConstruct(t, dst, src)
      PROVE  Lifetimes'
  BY <1>5 DEF MoveConstruct, StealFields, memory, control
<1>6. ASSUME NEW dst \in Handles, NEW src \in Handles,
           CopyConstruct(t, dst, src)
      PROVE  Lifetimes'
  BY <1>6 DEF CopyConstruct, CopyFields, Begin, memory, control
<1>7. ASSUME NEW dst \in Handles, NEW src \in Handles,
           CopyAssign(t, dst, src)
      PROVE  Lifetimes'
  BY <1>7 DEF CopyAssign, CopyFields, TmpCounted, Begin, memory, control
<1>8. ASSUME NEW dst \in Handles, NEW src \in Handles,
           MoveAssign(t, dst, src)
      PROVE  Lifetimes'
  BY <1>8 DEF MoveAssign, StealFields, Begin, memory, control
<1>9. ASSUME NEW h \in Handles, Destroy(t, h) PROVE Lifetimes'
  BY <1>9 DEF Destroy, StealFields, Begin, memory, control
<1>10. ASSUME NEW h \in Handles, ResetToNull(t, h) PROVE Lifetimes'
  BY <1>10 DEF ResetToNull, Begin, handles, memory, control
<1>11. ASSUME NEW h \in Handles, GetCount(t, h) PROVE Lifetimes'
  BY <1>11 DEF GetCount, Begin, handles, memory, control
<1>12. CASE Acquire(t)
  BY <1>12 DEF Acquire, Free, Goto, handles, memory
<1>13. CASE Load(t)
  BY <1>13 DEF Load, Goto, Section, handles, memory
<1>14. CASE Increment(t)
  BY <1>14 DEF Increment, Unlock, Goto, NoCall, handles, memory
<1>15. CASE Report(t)
  BY <1>15 DEF Report, Unlock, Goto, NoCall, handles, memory
<1>16. CASE Swap(t)
  BY <1>a, <1>16 DEF Swap, memory, control, CallShape, Dropping, Deleting
<1>17. CASE Release(t)
  BY <1>17
  DEF Release, ForgetOld, AfterRelease, Goto, NoCall, memory, control, CallShape,
      Dropping, Deleting
<1>18. CASE Decrement(t)
  BY <1>18 DEF Decrement, Last, Unlock, ForgetOld, AfterRelease, Goto, NoCall, memory
<1>19. CASE DeleteObject(t)
  BY <1>19 DEF DeleteObject, Goto, handles, control
<1>20. CASE DeleteBlock(t)
  BY <1>20 DEF DeleteBlock, ForgetOld, AfterRelease, Goto, NoCall, control
<1>21. CASE Steal(t)
  BY <1>a, <1>21
  DEF Steal, StealFields, Goto, NoCall, memory, control, CallShape, Dropping, Deleting
<1> QED
  BY <1>1, <1>2, <1>3, <1>4, <1>5, <1>6, <1>7, <1>8, <1>9, <1>10, <1>11, <1>12, <1>13,
     <1>14, <1>15, <1>16, <1>17, <1>18, <1>19, <1>20, <1>21
  DEF Call, Continue

\* A call finds in its slots what it put there.
LEMMA InFlightStep ==
    ASSUME TypeOK, Calls, Contract, Lifetimes, InFlight, Referents,
           NEW t \in Threads, Call(t) \/ Continue(t)
    PROVE  InFlight'
<1> SUFFICES ASSUME NEW u \in Threads PROVE Progress(u)'
  BY DEF InFlight
<1> USE NamesAssumption DEF Progress, Unused, CallShape, Dropping, Deleting, Op, Dst,
        Src, Uses, Writes, TypeOK, MayWrite, MayRead, Slots, CallType, Refers
<1>a. CallShape(u) /\ CallShape(t) /\ Progress(u) /\ Progress(t)
  BY DEF Calls, InFlight
<1>b. t \in Slots /\ Refers(t)
  BY DEF Referents, Slots
<1>c. \A x \in Handles : u # t =>
       /\ Writes(t, x) => ~Uses(u, x)
       /\ Writes(u, x) => ~Uses(t, x)
  BY DEF Contract
<1>1. ASSUME NEW h \in Handles, ConstructEmpty(t, h) PROVE Progress(u)'
  BY <1>a, <1>1 DEF ConstructEmpty, memory, control
<1>2. ASSUME NEW h \in Handles, NEW p \in Objects \cup {NULL}, NEW b \in Blocks,
           ConstructFrom(t, h, p, b)
      PROVE  Progress(u)'
  BY <1>a, <1>2 DEF ConstructFrom, NewBlock, OneOwner, Adopt, Adoptable
<1>3. ASSUME NEW h \in Handles, NEW p \in Objects \cup {NULL}, NEW b \in Blocks,
           Reset(t, h, p, b)
      PROVE  Progress(u)'
  BY <1>a, <1>3 DEF Reset, NewBlock, OneOwner, Adopt, Adoptable, Begin
<1>4. ASSUME NEW p \in Objects, ConstructFromThrows(t, p) PROVE Progress(u)'
  BY <1>a, <1>4 DEF ConstructFromThrows, Adoptable, handles, control
<1>5. ASSUME NEW dst \in Handles, NEW src \in Handles,
           MoveConstruct(t, dst, src)
      PROVE  Progress(u)'
  BY <1>a, <1>5 DEF MoveConstruct, StealFields, memory, control
<1>6. ASSUME NEW dst \in Handles, NEW src \in Handles,
           CopyConstruct(t, dst, src)
      PROVE  Progress(u)'
  BY <1>a, <1>6 DEF CopyConstruct, CopyFields, Begin, memory, control
<1>7. ASSUME NEW dst \in Handles, NEW src \in Handles,
           CopyAssign(t, dst, src)
      PROVE  Progress(u)'
  BY <1>a, <1>7 DEF CopyAssign, CopyFields, TmpCounted, Begin, memory, control
<1>8. ASSUME NEW dst \in Handles, NEW src \in Handles,
           MoveAssign(t, dst, src)
      PROVE  Progress(u)'
  BY <1>a, <1>8 DEF MoveAssign, StealFields, Begin, memory, control
<1>9. ASSUME NEW h \in Handles, Destroy(t, h) PROVE Progress(u)'
  BY <1>a, <1>9 DEF Destroy, StealFields, Begin, memory, control
<1>10. ASSUME NEW h \in Handles, ResetToNull(t, h) PROVE Progress(u)'
  BY <1>a, <1>10 DEF ResetToNull, Begin, handles, memory, control
<1>11. ASSUME NEW h \in Handles, GetCount(t, h) PROVE Progress(u)'
  BY <1>a, <1>11 DEF GetCount, Begin, handles, memory, control
<1>12. CASE Acquire(t)
  BY <1>a, <1>12 DEF Acquire, Free, Goto, handles, memory
<1>13. CASE Load(t)
  BY <1>a, <1>13 DEF Load, Goto, Section, handles, memory
<1>14. CASE Increment(t)
  BY <1>a, <1>14 DEF Increment, Unlock, Goto, NoCall, handles, memory
<1>15. CASE Report(t)
  BY <1>a, <1>15 DEF Report, Unlock, Goto, NoCall, handles, memory
<1>16. CASE Swap(t)
  BY <1>a, <1>c, <1>16 DEF Swap, memory, control
<1>17. CASE Release(t)
  BY <1>a, <1>17 DEF Release, ForgetOld, AfterRelease, Goto, NoCall, memory, control
<1>18. CASE Decrement(t)
  BY <1>a, <1>18
  DEF Decrement, Last, Unlock, ForgetOld, AfterRelease, Goto, NoCall, memory
<1>19. CASE DeleteObject(t)
  BY <1>a, <1>19 DEF DeleteObject, Goto, handles, control
<1>20. CASE DeleteBlock(t)
  BY <1>a, <1>20 DEF DeleteBlock, ForgetOld, AfterRelease, Goto, NoCall, control
<1>21. CASE Steal(t)
  BY <1>a, <1>c, <1>21 DEF Steal, StealFields, Goto, NoCall, memory, control
<1> QED
  BY <1>1, <1>2, <1>3, <1>4, <1>5, <1>6, <1>7, <1>8, <1>9, <1>10, <1>11, <1>12, <1>13,
     <1>14, <1>15, <1>16, <1>17, <1>18, <1>19, <1>20, <1>21
  DEF Call, Continue

\* What a step leaves alone of another thread.
Kept(u) ==
    /\ pc'[u] = pc[u] /\ call'[u] = call[u] /\ loaded'[u] = loaded[u]
    /\ Subject(u)' = Subject(u)
    /\ pc[u] # "idle" => Block(u)' = Block(u)

\* A step of one thread leaves the calls of the others where they are.
LEMMA Others ==
    ASSUME TypeOK, Calls, Contract, InFlight, NEW t \in Threads, Call(t) \/ Continue(t)
    PROVE  \A u \in Threads : u # t => Kept(u)
<1> SUFFICES ASSUME NEW u \in Threads, u # t PROVE Kept(u)
  OBVIOUS
<1> USE NamesAssumption DEF Kept, Subject, Block, CallShape, Dropping, Deleting, Op,
        Dst, Src, Uses, Writes, TypeOK, MayWrite, MayRead, Slots, CallType
<1>a. CallShape(u) /\ CallShape(t)
  BY DEF Calls
<1>b. \A x \in Handles :
       /\ Writes(t, x) => ~Uses(u, x)
       /\ Writes(u, x) => ~Uses(t, x)
  BY DEF Contract
<1>1. ASSUME NEW h \in Handles, ConstructEmpty(t, h) PROVE Kept(u)
  BY <1>1 DEF ConstructEmpty, memory, control
<1>2. ASSUME NEW h \in Handles, NEW p \in Objects \cup {NULL}, NEW b \in Blocks,
           ConstructFrom(t, h, p, b)
      PROVE  Kept(u)
  BY <1>2 DEF ConstructFrom, NewBlock, OneOwner, Adopt, Adoptable
<1>3. ASSUME NEW h \in Handles, NEW p \in Objects \cup {NULL}, NEW b \in Blocks,
           Reset(t, h, p, b)
      PROVE  Kept(u)
  BY <1>3 DEF Reset, NewBlock, OneOwner, Adopt, Adoptable, Begin
<1>4. ASSUME NEW p \in Objects, ConstructFromThrows(t, p) PROVE Kept(u)
  BY <1>4 DEF ConstructFromThrows, Adoptable, handles, control
<1>5. ASSUME NEW dst \in Handles, NEW src \in Handles,
           MoveConstruct(t, dst, src)
      PROVE  Kept(u)
  BY <1>a, <1>5 DEF MoveConstruct, StealFields, memory, control
<1>6. ASSUME NEW dst \in Handles, NEW src \in Handles,
           CopyConstruct(t, dst, src)
      PROVE  Kept(u)
  BY <1>6 DEF CopyConstruct, CopyFields, Begin, memory, control
<1>7. ASSUME NEW dst \in Handles, NEW src \in Handles,
           CopyAssign(t, dst, src)
      PROVE  Kept(u)
  BY <1>7 DEF CopyAssign, CopyFields, TmpCounted, Begin, memory, control
<1>8. ASSUME NEW dst \in Handles, NEW src \in Handles,
           MoveAssign(t, dst, src)
      PROVE  Kept(u)
  BY <1>a, <1>8 DEF MoveAssign, StealFields, Begin, memory, control
<1>9. ASSUME NEW h \in Handles, Destroy(t, h) PROVE Kept(u)
  BY <1>a, <1>9 DEF Destroy, StealFields, Begin, memory, control
<1>10. ASSUME NEW h \in Handles, ResetToNull(t, h) PROVE Kept(u)
  BY <1>10 DEF ResetToNull, Begin, handles, memory, control
<1>11. ASSUME NEW h \in Handles, GetCount(t, h) PROVE Kept(u)
  BY <1>11 DEF GetCount, Begin, handles, memory, control
<1>12. CASE Acquire(t)
  BY <1>12 DEF Acquire, Free, Goto, handles, memory
<1>13. CASE Load(t)
  BY <1>13 DEF Load, Goto, Section, handles, memory
<1>14. CASE Increment(t)
  BY <1>14 DEF Increment, Unlock, Goto, NoCall, handles, memory
<1>15. CASE Report(t)
  BY <1>15 DEF Report, Unlock, Goto, NoCall, handles, memory
<1>16. CASE Swap(t)
  BY <1>a, <1>b, <1>16 DEF Swap, memory, control
<1>17. CASE Release(t)
  BY <1>a, <1>17 DEF Release, ForgetOld, AfterRelease, Goto, NoCall, memory, control
<1>18. CASE Decrement(t)
  BY <1>a, <1>18
  DEF Decrement, Last, Unlock, ForgetOld, AfterRelease, Goto, NoCall, memory
<1>19. CASE DeleteObject(t)
  BY <1>19 DEF DeleteObject, Goto, handles, control
<1>20. CASE DeleteBlock(t)
  BY <1>20 DEF DeleteBlock, ForgetOld, AfterRelease, Goto, NoCall, control
<1>21. CASE Steal(t)
  BY <1>a, <1>b, <1>21 DEF Steal, StealFields, Goto, NoCall, memory, control
<1> QED
  BY <1>1, <1>2, <1>3, <1>4, <1>5, <1>6, <1>7, <1>8, <1>9, <1>10, <1>11, <1>12, <1>13,
     <1>14, <1>15, <1>16, <1>17, <1>18, <1>19, <1>20, <1>21
  DEF Call, Continue

-----------------------------------------------------------------------------
(* Who is pending.                                                         *)

\* The part of Pending that a call determines for its own subject.
Owing(u) ==
    \/ Op(u) \in {"copy", "copyAssign"} /\ pc[u] \in {"acquire", "load", "increment"}
    \/ pc[u] \in Deleting

\* A variable is pending only for the call that copies into it, a thread's
\* slot only for its own call.
PendingIs ==
    /\ \A u \in Threads : Pending(u) <=> Owing(u) /\ Op(u) # "copy"
    /\ \A u \in Threads, x \in Handles :
         Uses(u, x) => (Pending(x) <=> Op(u) = "copy" /\ Dst(u) = x)
    /\ \A x \in Handles : MayWrite(x) \/ MayRead(x) => ~Pending(x)

\* PendingIs follows from the shape of the calls and the callers' contract.
LEMMA PendingOf == ASSUME TypeOK, Calls, Contract PROVE PendingIs
<1> USE NamesAssumption DEF Pending, Subject, Owing, Op, Dst, Src, Deleting
<1>1. ASSUME NEW u \in Threads PROVE CallShape(u)
  BY DEF Calls
<1>2. ASSUME NEW u \in Threads PROVE Pending(u) <=> Owing(u) /\ Op(u) # "copy"
  BY <1>1, <1>2 DEF CallShape, Dropping
<1>3. ASSUME NEW x \in Handles, Pending(x)
      PROVE  \E v \in Threads : Op(v) = "copy" /\ Dst(v) = x
  BY <1>1, <1>3 DEF CallShape, Dropping
<1>4. ASSUME NEW u \in Threads, NEW x \in Handles, Uses(u, x)
      PROVE  Pending(x) <=> Op(u) = "copy" /\ Dst(u) = x
  <2>1. ASSUME Op(u) = "copy", Dst(u) = x PROVE Pending(x)
    BY <1>1, <2>1 DEF CallShape, Dropping
  <2>2. ASSUME Pending(x) PROVE Op(u) = "copy" /\ Dst(u) = x
    <3>1. PICK v \in Threads : Op(v) = "copy" /\ Dst(v) = x
      BY <1>3, <2>2
    <3>2. v = u
      BY <1>4, <3>1 DEF Contract, Writes
    <3> QED BY <3>1, <3>2
  <2> QED BY <2>1, <2>2
<1>5. ASSUME NEW x \in Handles, MayWrite(x) \/ MayRead(x) PROVE ~Pending(x)
  BY <1>3, <1>5 DEF MayWrite, MayRead, Uses, Writes
<1> QED BY <1>2, <1>4, <1>5 DEF PendingIs

\* A step changes who is pending only by its own subject.
LEMMA PendingElse ==
    ASSUME TypeOK, Calls, Contract, InFlight, NEW t \in Threads, Call(t) \/ Continue(t),
           NEW s, Owing(t) => s # Subject(t), Owing(t)' => s # Subject(t)'
    PROVE  Pending(s)' <=> Pending(s)
<1>1. \A u \in Threads : u # t => (Owing(u)' <=> Owing(u)) /\ Subject(u)' = Subject(u)
  BY Others DEF Kept, Owing, Op
<1>2. Pending(s) <=> \E u \in Threads : s = Subject(u) /\ Owing(u)
  BY DEF Pending, Owing, Op, Deleting
<1>3. Pending(s)' <=> \E u \in Threads : s = Subject(u)' /\ Owing(u)'
  BY DEF Pending, Owing, Op, Deleting
<1> QED BY <1>1, <1>2, <1>3

\* A step that leaves its own call owing or not owing changes nobody.
LEMMA PendingKept ==
    ASSUME TypeOK, Calls, Contract, InFlight, NEW t \in Threads, Call(t) \/ Continue(t),
           Owing(t)' <=> Owing(t), Subject(t)' = Subject(t), NEW s
    PROVE  Pending(s)' <=> Pending(s)
<1>1. CASE Owing(t) /\ s = Subject(t)
  BY <1>1 DEF Pending, Owing, Op, Deleting
<1>2. CASE ~(Owing(t) /\ s = Subject(t))
  BY <1>2, PendingElse
<1> QED BY <1>1, <1>2

\* A subject is settled when its call is.
LEMMA Settled ==
    ASSUME TypeOK, Calls, Contract, InFlight, NEW t \in Threads, Call(t) \/ Continue(t),
           NEW x, x = Subject(t), Owing(t), ~Owing(t)'
    PROVE  Pending(x) /\ ~Pending(x)'
<1>1. Pending(x)
  BY DEF Pending, Owing, Op, Deleting
<1>2. ASSUME NEW u \in Threads, u # t, Owing(u) PROVE Subject(u) # x
  <2>1. CallShape(t) /\ CallShape(u)
    BY DEF Calls
  <2>2. CASE Op(t) = "copy" /\ Op(u) = "copy"
    <3>1. x = Dst(t) /\ Subject(u) = Dst(u) /\ Dst(t) \in Handles
      BY <2>1, <2>2 DEF CallShape, Subject, Op, Dst
    <3> QED BY <1>2, <3>1 DEF Contract, Writes, Uses, Dst
  <2>3. CASE ~(Op(t) = "copy" /\ Op(u) = "copy")
    BY <1>2, <2>1, <2>3, NamesAssumption
    DEF CallShape, Subject, Owing, Op, Dst, Src, Dropping, Deleting
  <2> QED BY <2>2, <2>3
<1>3. \A u \in Threads : u # t => (Owing(u)' <=> Owing(u)) /\ Subject(u)' = Subject(u)
  BY Others DEF Kept, Owing, Op
<1>4. Pending(x)' <=> \E u \in Threads : x = Subject(u)' /\ Owing(u)'
  BY DEF Pending, Owing, Op, Deleting
<1> QED BY <1>1, <1>2, <1>3, <1>4

\* Whoever releases its share owns one: the count it loaded is the number of
\* owners, and it is among them.
LEMMA Releaser ==
    ASSUME TypeOK, Calls, Contract, InFlight, Sections, Referents, CountIsSharers,
           NEW t \in Threads, pc[t] = "decrement"
    PROVE  /\ Subject(t) = t /\ t \in Slots /\ Block(t) = cb[t]
           /\ Op(t) \in {"destroy", "moveAssign"}
           /\ cb[t] \in Blocks /\ managed[cb[t]] # NULL
           /\ loaded[t] = count[cb[t]] /\ count[cb[t]] = Cardinality(Sharers(cb[t]))
           /\ IsFiniteSet(Sharers(cb[t])) /\ t \in Sharers(cb[t])
           /\ loaded[t] \in Nat \ {0}
<1> DEFINE b == cb[t]
<1>1. CallShape(t) /\ Progress(t) /\ PendingIs
  BY PendingOf DEF Calls, InFlight
<1>2. Subject(t) = t /\ Op(t) \in {"destroy", "moveAssign"} /\ ptr[t] # NULL /\ t \in Slots
  BY <1>1 DEF CallShape, Progress, Subject, Op, Dropping, Deleting, Slots
<1>3. b \in Blocks /\ managed[b] # NULL
  BY <1>2, NamesAssumption DEF Referents, Refers, TypeOK, Slots
<1>4. loaded[t] = count[b] /\ Block(t) = b
  BY <1>2 DEF Sections, Holds, Guarded, Block
<1>5. IsFiniteSet(Sharers(b)) /\ count[b] = Cardinality(Sharers(b))
  BY <1>3, FinitenessAssumption, FS_Union, FS_Subset DEF CountIsSharers, Sharers, Slots
<1>6. t \in Sharers(b)
  BY <1>1, <1>2 DEF PendingIs, Owing, Sharers, Deleting
<1>7. Cardinality(Sharers(b)) \in Nat \ {0}
  BY <1>5, <1>6, FS_CardinalityType, FS_EmptySet
<1> QED BY <1>2, <1>3, <1>4, <1>5, <1>6, <1>7

\* A deleter's block has no other slot: one that shares it would have been
\* counted, and so would the variable it is being copied from.
LEMMA LastOwner ==
    ASSUME TypeOK, Calls, Contract, Lifetimes, InFlight, SoleDeleter, Sections,
           Referents, CountIsSharers,
           NEW t \in Threads, pc[t] = "decrement", Last(t)
    PROVE  \A s \in Slots : s # t => cb[s] # cb[t]
<1> DEFINE b == cb[t]
<1>1. PendingIs
  BY PendingOf
<1>2. b \in Blocks /\ t \in Slots
  BY Releaser
<1>3. Sharers(b) = {t}
  BY Releaser, FS_Singleton DEF Last
<1> SUFFICES ASSUME NEW s \in Slots, s # t, cb[s] = b PROVE FALSE
  OBVIOUS
<1>4. Pending(s)
  BY <1>3 DEF Sharers
<1>5. PICK u \in Threads : s = Subject(u) /\ Owing(u)
  BY <1>4 DEF Pending, Owing, Op, Deleting
<1>6. CallShape(u) /\ Progress(u)
  BY DEF Calls, InFlight
<1>7. CASE pc[u] \in Deleting
  BY <1>2, <1>5, <1>6, <1>7, NamesAssumption
  DEF CallShape, Subject, SoleDeleter, Op, Dropping, Deleting, Slots
<1>8. CASE pc[u] \notin Deleting
  <2>1. Op(u) \in {"copy", "copyAssign"} /\ Src(u) \in Handles /\ cb[Src(u)] = b
    BY <1>5, <1>6, <1>8
    DEF CallShape, Progress, Subject, Owing, Op, Dst, Src, Dropping, Deleting
  <2>2. Op(u) = "copy" => Dst(u) # Src(u)
    BY <1>6, <2>1 DEF CallShape
  <2>3. ~Pending(Src(u))
    BY <1>1, <2>1, <2>2 DEF PendingIs, Uses, Src, Dst
  <2>4. Src(u) = t
    BY <1>3, <2>1, <2>3 DEF Sharers, Slots
  <2> QED BY <2>1, <2>4, NamesAssumption
<1> QED BY <1>7, <1>8

\* PendingOf, of the state after a step.
LEMMA PendingOfNext == ASSUME TypeOK', Calls', Contract' PROVE PendingIs'
BY PendingOf, PTL

\* Nobody gets to know a block that is being deleted.
LEMMA SoleDeleterStep ==
    ASSUME TypeOK, Calls, Contract, Lifetimes, InFlight, SoleDeleter, Sections,
           Referents, Management, CountIsSharers,
           NEW t \in Threads, Call(t) \/ Continue(t)
    PROVE  SoleDeleter'
<1> SUFFICES ASSUME NEW u \in Threads, NEW s \in Slots, pc'[u] \in Deleting, s # u
             PROVE cb'[s] # cb'[u]
  BY DEF SoleDeleter
<1> USE NamesAssumption DEF CallShape, Dropping, Deleting, Op, Dst, Src, Uses, Writes,
        TypeOK, MayWrite, MayRead, Slots, CallType, Progress, Unused
<1>a. CallShape(u) /\ CallShape(t) /\ Progress(u) /\ Progress(t)
  BY DEF Calls, InFlight
<1>b. \A x \in Handles : u # t =>
       /\ Writes(t, x) => ~Uses(u, x)
       /\ Writes(u, x) => ~Uses(t, x)
  BY DEF Contract
<1>c. \A v \in Threads, r \in Slots : pc[v] \in Deleting /\ r # v => cb[r] # cb[v]
  BY DEF SoleDeleter
<1>d. /\ cb[u] # NULL => block[cb[u]] = "live" /\ managed[cb[u]] = ptr[u]
      /\ cb[u] = NULL => ptr[u] = NULL
  BY DEF Referents, Refers
<1>e. u # t => Kept(u)
  BY Others
<1>f. pc[t] = "decrement" /\ Last(t) => \A r \in Slots : r # t => cb[r] # cb[t]
  BY LastOwner
<1>1. ASSUME NEW h \in Handles, ConstructEmpty(t, h) PROVE cb'[s] # cb'[u]
  BY <1>c, <1>1 DEF ConstructEmpty, memory, control
<1>2. ASSUME NEW h \in Handles, NEW p \in Objects \cup {NULL}, NEW b \in Blocks,
           ConstructFrom(t, h, p, b)
      PROVE  cb'[s] # cb'[u]
  BY <1>c, <1>d, <1>2 DEF ConstructFrom, NewBlock, OneOwner, Adopt, Adoptable
<1>3. ASSUME NEW h \in Handles, NEW p \in Objects \cup {NULL}, NEW b \in Blocks,
           Reset(t, h, p, b)
      PROVE  cb'[s] # cb'[u]
  BY <1>c, <1>d, <1>3 DEF Reset, NewBlock, OneOwner, Adopt, Adoptable, Begin
<1>4. ASSUME NEW p \in Objects,
           ConstructFromThrows(t, p)
      PROVE  cb'[s] # cb'[u]
  BY <1>c, <1>4 DEF ConstructFromThrows, Adoptable, handles, control
<1>5. ASSUME NEW dst \in Handles, NEW src \in Handles,
           MoveConstruct(t, dst, src)
      PROVE  cb'[s] # cb'[u]
  BY <1>a, <1>c, <1>5 DEF MoveConstruct, StealFields, memory, control
<1>6. ASSUME NEW dst \in Handles, NEW src \in Handles,
           CopyConstruct(t, dst, src)
      PROVE  cb'[s] # cb'[u]
  BY <1>c, <1>6 DEF CopyConstruct, CopyFields, Begin, memory, control
<1>7. ASSUME NEW dst \in Handles, NEW src \in Handles,
           CopyAssign(t, dst, src)
      PROVE  cb'[s] # cb'[u]
  BY <1>c, <1>7 DEF CopyAssign, CopyFields, TmpCounted, Begin, memory, control
<1>8. ASSUME NEW dst \in Handles, NEW src \in Handles,
           MoveAssign(t, dst, src)
      PROVE  cb'[s] # cb'[u]
  BY <1>a, <1>c, <1>8 DEF MoveAssign, StealFields, Begin, memory, control
<1>9. ASSUME NEW h \in Handles, Destroy(t, h) PROVE cb'[s] # cb'[u]
  BY <1>a, <1>c, <1>9 DEF Destroy, StealFields, Begin, memory, control
<1>10. ASSUME NEW h \in Handles, ResetToNull(t, h) PROVE cb'[s] # cb'[u]
  BY <1>c, <1>10 DEF ResetToNull, Begin, handles, memory, control
<1>11. ASSUME NEW h \in Handles, GetCount(t, h) PROVE cb'[s] # cb'[u]
  BY <1>c, <1>11 DEF GetCount, Begin, handles, memory, control
<1>12. CASE Acquire(t)
  BY <1>c, <1>12 DEF Acquire, Free, Goto, handles, memory
<1>13. CASE Load(t)
  BY <1>c, <1>13 DEF Load, Goto, Section, handles, memory
<1>14. CASE Increment(t)
  BY <1>c, <1>14 DEF Increment, Unlock, Goto, NoCall, handles, memory
<1>15. CASE Report(t)
  BY <1>c, <1>15 DEF Report, Unlock, Goto, NoCall, handles, memory
<1>16. CASE Swap(t)
  BY <1>a, <1>c, <1>16 DEF Swap, memory, control
<1>17. CASE Release(t)
  BY <1>a, <1>c, <1>d, <1>17
  DEF Release, ForgetOld, AfterRelease, Goto, NoCall, memory, control
<1>18. CASE Decrement(t)
  BY <1>a, <1>c, <1>d, <1>f, <1>18
  DEF Decrement, Last, Unlock, ForgetOld, AfterRelease, Goto, NoCall, memory
<1>19. CASE DeleteObject(t)
  BY <1>c, <1>19 DEF DeleteObject, Goto, handles, control
<1>20. CASE DeleteBlock(t)
  BY <1>a, <1>c, <1>d, <1>20
  DEF DeleteBlock, ForgetOld, AfterRelease, Goto, NoCall, control
<1>21. CASE Steal(t)
  BY <1>a, <1>c, <1>21 DEF Steal, StealFields, Goto, NoCall, memory, control
<1> QED
  BY <1>1, <1>2, <1>3, <1>4, <1>5, <1>6, <1>7, <1>8, <1>9, <1>10, <1>11, <1>12, <1>13,
     <1>14, <1>15, <1>16, <1>17, <1>18, <1>19, <1>20, <1>21
  DEF Call, Continue

\* The block of a critical section is alive.
LEMMA SectionBlock ==
    ASSUME TypeOK, Calls, InFlight, Referents, NEW t \in Threads,
           pc[t] \in Guarded \cup {"acquire"}
    PROVE  /\ Subject(t) \in Slots /\ cb[Subject(t)] = Block(t)
           /\ Block(t) \in Blocks /\ block[Block(t)] = "live"
<1>1. CallShape(t) /\ Progress(t)
  BY DEF Calls, InFlight
<1>2. Subject(t) \in Slots /\ cb[Subject(t)] # NULL
  <2>1. CASE Op(t) = "copy"
    BY <1>1, <2>1 DEF CallShape, Progress, Subject, Op, Dst, Src, Slots
  <2>2. CASE Op(t) = "getCount"
    BY <1>1, <2>2 DEF CallShape, Progress, Subject, Op, Dst, Src, Slots
  <2>3. CASE Op(t) \in {"copyAssign", "destroy", "moveAssign"}
    BY <1>1, <2>3
    DEF CallShape, Progress, Subject, Op, Dst, Src, Slots, Guarded, Dropping, Referents, Refers
  <2> QED BY <1>1, <2>1, <2>2, <2>3 DEF CallShape, Guarded
<1> QED BY <1>2 DEF Block, Referents, Refers, TypeOK

\* A live block whose mutex another thread holds is left alone.
LEMMA ControlKept ==
    ASSUME TypeOK, Calls, Contract, Lifetimes, InFlight, SoleDeleter, Sections,
           Referents, Management, CountIsSharers,
           NEW c \in Blocks, mutex[c] \in Threads, block[c] = "live",
           NEW t \in Threads, Call(t) \/ Continue(t)
    PROVE  mutex[c] # t => mutex'[c] = mutex[c] /\ count'[c] = count[c]
<1> SUFFICES ASSUME mutex[c] # t PROVE mutex'[c] = mutex[c] /\ count'[c] = count[c]
  OBVIOUS
<1> USE NamesAssumption DEF TypeOK, Guarded
<1>a. pc[t] \in Guarded => mutex[Block(t)] = t
  BY DEF Sections, Holds
<1>b. pc[t] \in Guarded \cup {"acquire"} =>
        Block(t) \in Blocks /\ block[Block(t)] = "live"
  BY SectionBlock
<1>1. ASSUME NEW h \in Handles,
           ConstructEmpty(t, h)
      PROVE  mutex'[c] = mutex[c] /\ count'[c] = count[c]
  BY <1>1 DEF ConstructEmpty, memory, control
<1>2. ASSUME NEW h \in Handles, NEW p \in Objects \cup {NULL}, NEW b \in Blocks,
           ConstructFrom(t, h, p, b)
      PROVE  mutex'[c] = mutex[c] /\ count'[c] = count[c]
  BY <1>2 DEF ConstructFrom, NewBlock, OneOwner, Adopt, Adoptable
<1>3. ASSUME NEW h \in Handles, NEW p \in Objects \cup {NULL}, NEW b \in Blocks,
           Reset(t, h, p, b)
      PROVE  mutex'[c] = mutex[c] /\ count'[c] = count[c]
  BY <1>3 DEF Reset, NewBlock, OneOwner, Adopt, Adoptable, Begin
<1>4. ASSUME NEW p \in Objects,
           ConstructFromThrows(t, p)
      PROVE  mutex'[c] = mutex[c] /\ count'[c] = count[c]
  BY <1>4 DEF ConstructFromThrows, Adoptable, handles, control
<1>5. ASSUME NEW dst \in Handles, NEW src \in Handles,
           MoveConstruct(t, dst, src)
      PROVE  mutex'[c] = mutex[c] /\ count'[c] = count[c]
  BY <1>5 DEF MoveConstruct, StealFields, memory, control
<1>6. ASSUME NEW dst \in Handles, NEW src \in Handles,
           CopyConstruct(t, dst, src)
      PROVE  mutex'[c] = mutex[c] /\ count'[c] = count[c]
  BY <1>6 DEF CopyConstruct, CopyFields, Begin, memory, control
<1>7. ASSUME NEW dst \in Handles, NEW src \in Handles,
           CopyAssign(t, dst, src)
      PROVE  mutex'[c] = mutex[c] /\ count'[c] = count[c]
  BY <1>7 DEF CopyAssign, CopyFields, TmpCounted, Begin, memory, control
<1>8. ASSUME NEW dst \in Handles, NEW src \in Handles,
           MoveAssign(t, dst, src)
      PROVE  mutex'[c] = mutex[c] /\ count'[c] = count[c]
  BY <1>8 DEF MoveAssign, StealFields, Begin, memory, control
<1>9. ASSUME NEW h \in Handles,
           Destroy(t, h)
      PROVE  mutex'[c] = mutex[c] /\ count'[c] = count[c]
  BY <1>9 DEF Destroy, StealFields, Begin, memory, control
<1>10. ASSUME NEW h \in Handles,
           ResetToNull(t, h)
      PROVE  mutex'[c] = mutex[c] /\ count'[c] = count[c]
  BY <1>10 DEF ResetToNull, Begin, handles, memory, control
<1>11. ASSUME NEW h \in Handles,
           GetCount(t, h)
      PROVE  mutex'[c] = mutex[c] /\ count'[c] = count[c]
  BY <1>11 DEF GetCount, Begin, handles, memory, control
<1>12. CASE Acquire(t)
  BY <1>12 DEF Acquire, Free, Goto, handles, memory
<1>13. CASE Load(t)
  BY <1>13 DEF Load, Goto, Section, handles, memory
<1>14. CASE Increment(t)
  BY <1>a, <1>14 DEF Increment, Unlock, Goto, NoCall, handles, memory
<1>15. CASE Report(t)
  BY <1>a, <1>15 DEF Report, Unlock, Goto, NoCall, handles, memory
<1>16. CASE Swap(t)
  BY <1>16 DEF Swap, memory, control
<1>17. CASE Release(t)
  BY <1>17 DEF Release, ForgetOld, AfterRelease, Goto, NoCall, memory, control
<1>18. CASE Decrement(t)
  BY <1>a, <1>18
  DEF Decrement, Last, Unlock, ForgetOld, AfterRelease, Goto, NoCall, memory
<1>19. CASE DeleteObject(t)
  BY <1>19 DEF DeleteObject, Goto, handles, control
<1>20. CASE DeleteBlock(t)
  BY <1>20 DEF DeleteBlock, ForgetOld, AfterRelease, Goto, NoCall, control
<1>21. CASE Steal(t)
  BY <1>21 DEF Steal, StealFields, Goto, NoCall, memory, control
<1> QED
  BY <1>1, <1>2, <1>3, <1>4, <1>5, <1>6, <1>7, <1>8, <1>9, <1>10, <1>11, <1>12, <1>13,
     <1>14, <1>15, <1>16, <1>17, <1>18, <1>19, <1>20, <1>21
  DEF Call, Continue

\* A thread enters a critical section through the mutex.
LEMMA OwnSectionStep ==
    ASSUME TypeOK, Calls, Contract, Lifetimes, InFlight, SoleDeleter, Sections,
           Referents, Management, CountIsSharers,
           NEW t \in Threads, Call(t) \/ Continue(t)
    PROVE  Holds(t)'
<1> USE NamesAssumption DEF TypeOK, Holds, Guarded, Op, CallShape, Dropping, Deleting
<1>a. CallShape(t) /\ Holds(t)
  BY DEF Calls, Sections
<1>b. pc[t] \in Guarded \cup {"acquire"} =>
        Block(t) \in Blocks /\ block[Block(t)] = "live"
  BY SectionBlock
<1>1. ASSUME NEW h \in Handles, ConstructEmpty(t, h) PROVE Holds(t)'
  BY <1>1 DEF ConstructEmpty, memory, control
<1>2. ASSUME NEW h \in Handles, NEW p \in Objects \cup {NULL}, NEW b \in Blocks,
           ConstructFrom(t, h, p, b)
      PROVE  Holds(t)'
  BY <1>2 DEF ConstructFrom, NewBlock, OneOwner, Adopt, Adoptable
<1>3. ASSUME NEW h \in Handles, NEW p \in Objects \cup {NULL}, NEW b \in Blocks,
           Reset(t, h, p, b)
      PROVE  Holds(t)'
  BY <1>3 DEF Reset, NewBlock, OneOwner, Adopt, Adoptable, Begin
<1>4. ASSUME NEW p \in Objects, ConstructFromThrows(t, p) PROVE Holds(t)'
  BY <1>4 DEF ConstructFromThrows, Adoptable, handles, control
<1>5. ASSUME NEW dst \in Handles, NEW src \in Handles,
           MoveConstruct(t, dst, src)
      PROVE  Holds(t)'
  BY <1>5 DEF MoveConstruct, StealFields, memory, control
<1>6. ASSUME NEW dst \in Handles, NEW src \in Handles,
           CopyConstruct(t, dst, src)
      PROVE  Holds(t)'
  BY <1>6 DEF CopyConstruct, CopyFields, Begin, memory, control
<1>7. ASSUME NEW dst \in Handles, NEW src \in Handles,
           CopyAssign(t, dst, src)
      PROVE  Holds(t)'
  BY <1>7 DEF CopyAssign, CopyFields, TmpCounted, Begin, memory, control
<1>8. ASSUME NEW dst \in Handles, NEW src \in Handles,
           MoveAssign(t, dst, src)
      PROVE  Holds(t)'
  BY <1>8 DEF MoveAssign, StealFields, Begin, memory, control
<1>9. ASSUME NEW h \in Handles, Destroy(t, h) PROVE Holds(t)'
  BY <1>9 DEF Destroy, StealFields, Begin, memory, control
<1>10. ASSUME NEW h \in Handles, ResetToNull(t, h) PROVE Holds(t)'
  BY <1>10 DEF ResetToNull, Begin, handles, memory, control
<1>11. ASSUME NEW h \in Handles, GetCount(t, h) PROVE Holds(t)'
  BY <1>11 DEF GetCount, Begin, handles, memory, control
<1>12. CASE Acquire(t)
  <2>1. pc' = [pc EXCEPT ![t] = "load"] /\ cb' = cb /\ call' = call
    BY <1>12 DEF Acquire, Goto, handles
  <2>2. Block(t)' = Block(t)
    BY <2>1 DEF Block, Subject
  <2> QED BY <1>b, <1>12, <2>1, <2>2 DEF Acquire
<1>13. CASE Load(t)
  <2>1. pc' = [pc EXCEPT ![t] = Section(t)] /\ cb' = cb /\ call' = call
    BY <1>a, <1>13 DEF Load, Goto, Section, handles
  <2>2. Block(t)' = Block(t)
    BY <2>1 DEF Block, Subject
  <2> QED BY <1>a, <1>b, <1>13, <2>1, <2>2 DEF Load
<1>14. CASE Increment(t)
  BY <1>14 DEF Increment, Unlock, Goto, NoCall, handles, memory
<1>15. CASE Report(t)
  BY <1>15 DEF Report, Unlock, Goto, NoCall, handles, memory
<1>16. CASE Swap(t)
  BY <1>16 DEF Swap, memory, control
<1>17. CASE Release(t)
  BY <1>17 DEF Release, ForgetOld, AfterRelease, Goto, NoCall, memory, control
<1>18. CASE Decrement(t)
  BY <1>18 DEF Decrement, Last, Unlock, ForgetOld, AfterRelease, Goto, NoCall, memory
<1>19. CASE DeleteObject(t)
  BY <1>19 DEF DeleteObject, Goto, handles, control
<1>20. CASE DeleteBlock(t)
  BY <1>20 DEF DeleteBlock, ForgetOld, AfterRelease, Goto, NoCall, control
<1>21. CASE Steal(t)
  BY <1>21 DEF Steal, StealFields, Goto, NoCall, memory, control
<1> QED
  BY <1>1, <1>2, <1>3, <1>4, <1>5, <1>6, <1>7, <1>8, <1>9, <1>10, <1>11, <1>12, <1>13,
     <1>14, <1>15, <1>16, <1>17, <1>18, <1>19, <1>20, <1>21
  DEF Call, Continue

\* In its critical section a thread holds the mutex, and what it loaded stays
\* the count, whatever other threads do.
LEMMA SectionsStep ==
    ASSUME TypeOK, Calls, Contract, Lifetimes, InFlight, SoleDeleter, Sections,
           Referents, Management, CountIsSharers,
           NEW t \in Threads, Call(t) \/ Continue(t)
    PROVE  Sections'
<1> SUFFICES ASSUME NEW u \in Threads, u # t, pc'[u] \in Guarded
             PROVE  Holds(u)'
  BY OwnSectionStep DEF Sections, Holds
<1>1. /\ pc'[u] = pc[u] /\ loaded'[u] = loaded[u] /\ Block(u)' = Block(u)
      /\ pc[u] \in Guarded
  BY Others DEF Kept, Guarded
<1>2. Block(u) \in Blocks /\ block[Block(u)] = "live"
  BY <1>1, SectionBlock
<1>3. Holds(u) /\ mutex[Block(u)] = u
  BY <1>1 DEF Sections, Holds
<1>4. mutex'[Block(u)] = mutex[Block(u)] /\ count'[Block(u)] = count[Block(u)]
  BY <1>2, <1>3, ControlKept
<1> QED BY <1>1, <1>3, <1>4 DEF Holds

\* Goto keeps the types of pc and call.
LEMMA GotoType ==
    ASSUME TypeOK, NEW t \in Threads, NEW next \in Steps, Goto(t, next)
    PROVE  pc' \in [Threads -> Steps] /\ call' \in [Threads -> CallType]
<1>1. NoCall \in CallType
  BY DEF NoCall, CallType
<1>2. pc \in [Threads -> Steps] /\ call \in [Threads -> CallType]
  BY DEF TypeOK
<1> QED BY <1>1, <1>2 DEF Goto

\* Begin keeps the types of pc and call.
LEMMA BeginType ==
    ASSUME TypeOK, NEW t \in Threads, NEW op, NEW dst, NEW src, NEW next \in Steps,
           [op |-> op, dst |-> dst, src |-> src] \in CallType,
           Begin(t, op, dst, src, next)
    PROVE  pc' \in [Threads -> Steps] /\ call' \in [Threads -> CallType]
<1>1. pc \in [Threads -> Steps] /\ call \in [Threads -> CallType]
  BY DEF TypeOK
<1> QED BY <1>1 DEF Begin

\* Every step keeps the types; a count is only decremented above zero.
LEMMA TypeStep ==
    ASSUME TypeOK, Calls, Contract, Lifetimes, InFlight, SoleDeleter, Sections,
           Referents, Management, CountIsSharers,
           NEW t \in Threads, Call(t) \/ Continue(t)
    PROVE  TypeOK'
<1> USE NamesAssumption DEF TypeOK, Slots, Lifetime
<1>a. CallShape(t)
  BY DEF Calls
<1>b. call[t] \in CallType /\ t \in Slots
  BY DEF Slots
<1>c. pc[t] \in Guarded \cup {"acquire"} =>
        Block(t) \in Blocks /\ block[Block(t)] = "live"
  BY SectionBlock
<1>1. ASSUME NEW h \in Handles, ConstructEmpty(t, h) PROVE TypeOK'
  BY <1>1 DEF ConstructEmpty, memory, control
<1>2. ASSUME NEW h \in Handles, NEW p \in Objects \cup {NULL}, NEW b \in Blocks,
           ConstructFrom(t, h, p, b)
      PROVE  TypeOK'
  BY <1>2 DEF ConstructFrom, NewBlock, OneOwner, Adopt, Adoptable
<1>3. ASSUME NEW h \in Handles, NEW p \in Objects \cup {NULL}, NEW b \in Blocks,
           Reset(t, h, p, b)
      PROVE  TypeOK'
  <2>1. pc' \in [Threads -> Steps] /\ call' \in [Threads -> CallType]
    BY <1>3, BeginType DEF Reset, Steps, CallType
  <2> QED
    BY <1>a, <1>b, <1>c, <1>3, <2>1
    DEF Reset, NewBlock, OneOwner, Adopt, Adoptable
<1>4. ASSUME NEW p \in Objects, ConstructFromThrows(t, p) PROVE TypeOK'
  BY <1>4 DEF ConstructFromThrows, Adoptable, handles, control
<1>5. ASSUME NEW dst \in Handles, NEW src \in Handles,
           MoveConstruct(t, dst, src)
      PROVE  TypeOK'
  BY <1>5 DEF MoveConstruct, StealFields, memory, control
<1>6. ASSUME NEW dst \in Handles, NEW src \in Handles,
           CopyConstruct(t, dst, src)
      PROVE  TypeOK'
  <2>1. pc' \in [Threads -> Steps] /\ call' \in [Threads -> CallType]
    BY <1>6, BeginType DEF CopyConstruct, Steps, CallType
  <2> QED BY <1>a, <1>b, <1>c, <1>6, <2>1 DEF CopyConstruct, CopyFields, memory, control
<1>7. ASSUME NEW dst \in Handles, NEW src \in Handles,
           CopyAssign(t, dst, src)
      PROVE  TypeOK'
  <2>1. pc' \in [Threads -> Steps] /\ call' \in [Threads -> CallType]
    BY <1>7, BeginType DEF CopyAssign, TmpCounted, Steps, CallType
  <2> QED
    BY <1>a, <1>b, <1>c, <1>7, <2>1
    DEF CopyAssign, CopyFields, TmpCounted, memory, control
<1>8. ASSUME NEW dst \in Handles, NEW src \in Handles,
           MoveAssign(t, dst, src)
      PROVE  TypeOK'
  <2>1. pc' \in [Threads -> Steps] /\ call' \in [Threads -> CallType]
    BY <1>8, BeginType DEF MoveAssign, Steps, CallType
  <2> QED BY <1>a, <1>b, <1>c, <1>8, <2>1 DEF MoveAssign, StealFields, memory, control
<1>9. ASSUME NEW h \in Handles, Destroy(t, h) PROVE TypeOK'
  <2>1. pc' \in [Threads -> Steps] /\ call' \in [Threads -> CallType]
    BY <1>9, BeginType DEF Destroy, Steps, CallType
  <2> QED BY <1>a, <1>b, <1>c, <1>9, <2>1 DEF Destroy, StealFields, memory, control
<1>10. ASSUME NEW h \in Handles, ResetToNull(t, h) PROVE TypeOK'
  <2>1. pc' \in [Threads -> Steps] /\ call' \in [Threads -> CallType]
    BY <1>10, BeginType DEF ResetToNull, Steps, CallType
  <2> QED BY <1>a, <1>b, <1>c, <1>10, <2>1 DEF ResetToNull, handles, memory, control
<1>11. ASSUME NEW h \in Handles, GetCount(t, h) PROVE TypeOK'
  <2>1. pc' \in [Threads -> Steps] /\ call' \in [Threads -> CallType]
    BY <1>11, BeginType DEF GetCount, Steps, CallType
  <2> QED BY <1>a, <1>b, <1>c, <1>11, <2>1 DEF GetCount, handles, memory, control
<1>12. CASE Acquire(t)
  <2>1. pc' \in [Threads -> Steps] /\ call' \in [Threads -> CallType]
    BY <1>12, GotoType DEF Acquire, Steps
  <2> QED BY <1>a, <1>b, <1>c, <1>12, <2>1 DEF Acquire, Free, handles, memory
<1>13. CASE Load(t)
  <2>1. pc' \in [Threads -> Steps] /\ call' \in [Threads -> CallType]
    BY <1>13, GotoType DEF Load, Section, Steps
  <2> QED BY <1>a, <1>b, <1>c, <1>13, <2>1 DEF Load, handles, memory, Guarded
<1>14. CASE Increment(t)
  <2>1. pc' \in [Threads -> Steps] /\ call' \in [Threads -> CallType]
    BY <1>14, GotoType DEF Increment, Steps
  <2>2. loaded[t] + 1 \in Nat /\ Block(t) \in Blocks
    BY <1>c, <1>14 DEF Increment, Guarded
  <2> QED
    BY <1>a, <1>b, <1>c, <1>14, <2>1, <2>2
    DEF Increment, Unlock, handles, memory, Guarded
<1>15. CASE Report(t)
  <2>1. pc' \in [Threads -> Steps] /\ call' \in [Threads -> CallType]
    BY <1>15, GotoType DEF Report, Steps
  <2> QED BY <1>a, <1>b, <1>c, <1>15, <2>1 DEF Report, Unlock, handles, memory, Guarded
<1>16. CASE Swap(t)
  <2>a. pc' \in [Threads -> Steps]
    BY <1>16 DEF Swap, Steps
  <2>b. call' \in [Threads -> CallType]
    <3>1. [call[t] EXCEPT !.op = "destroy"] \in CallType
      BY <1>b DEF CallType
    <3>2. call' = [call EXCEPT ![t] = [call[t] EXCEPT !.op = "destroy"]]
      BY <1>16 DEF Swap
    <3> QED BY <3>1, <3>2
  <2>1. pc' \in [Threads -> Steps] /\ call' \in [Threads -> CallType]
    BY <2>a, <2>b
  <2>2. call[t].dst \in Slots
    BY <1>a, <1>16 DEF Swap, CallShape, Op, Dst, Dropping, Deleting
  <2> QED BY <1>b, <1>16, <2>1, <2>2 DEF Swap, memory, control
<1>17. CASE Release(t)
  <2>1. pc' \in [Threads -> Steps] /\ call' \in [Threads -> CallType]
    BY <1>17, GotoType DEF Release, AfterRelease, Steps
  <2> QED BY <1>a, <1>b, <1>c, <1>17, <2>1 DEF Release, ForgetOld, memory, control
<1>18. CASE Decrement(t)
  <2>1. pc' \in [Threads -> Steps] /\ call' \in [Threads -> CallType]
    BY <1>18, GotoType DEF Decrement, AfterRelease, Steps
  <2>2. loaded[t] - 1 \in Nat
    BY Releaser, <1>18 DEF Decrement
  <2> QED
    BY <1>a, <1>b, <1>c, <1>18, <2>1, <2>2
    DEF Decrement, Last, Unlock, ForgetOld, memory, Guarded
<1>19. CASE DeleteObject(t)
  <2>1. pc' \in [Threads -> Steps] /\ call' \in [Threads -> CallType]
    BY <1>19, GotoType DEF DeleteObject, Steps
  <2> QED BY <1>a, <1>b, <1>c, <1>19, <2>1 DEF DeleteObject, handles, control
<1>20. CASE DeleteBlock(t)
  <2>1. pc' \in [Threads -> Steps] /\ call' \in [Threads -> CallType]
    BY <1>20, GotoType DEF DeleteBlock, AfterRelease, Steps
  <2> QED BY <1>a, <1>b, <1>c, <1>20, <2>1 DEF DeleteBlock, ForgetOld, control
<1>21. CASE Steal(t)
  <2>1. pc' \in [Threads -> Steps] /\ call' \in [Threads -> CallType]
    BY <1>21, GotoType DEF Steal, Steps
  <2> QED
    BY <1>a, <1>b, <1>c, <1>21, <2>1
    DEF Steal, StealFields, memory, control, CallShape, Op, Dst, Src, Dropping,
        Deleting
<1> QED
  BY <1>1, <1>2, <1>3, <1>4, <1>5, <1>6, <1>7, <1>8, <1>9, <1>10, <1>11, <1>12, <1>13,
     <1>14, <1>15, <1>16, <1>17, <1>18, <1>19, <1>20, <1>21
  DEF Call, Continue

\* Only the deleter deletes what a slot refers to, and only its own slot.
LEMMA ReferentsStep ==
    ASSUME TypeOK, Calls, Contract, Lifetimes, InFlight, SoleDeleter, Sections,
           Referents, Management, CountIsSharers,
           NEW t \in Threads, Call(t) \/ Continue(t)
    PROVE  Referents'
<1> SUFFICES ASSUME NEW s \in Slots PROVE Refers(s)'
  BY DEF Referents
<1> USE NamesAssumption DEF Refers, TypeOK, Slots
<1>a. CallShape(t) /\ Progress(t)
  BY DEF Calls, InFlight
<1>b. Refers(s) /\ Refers(t) /\ \A x \in Handles : Refers(x)
  BY DEF Referents, Slots
<1>c. pc[t] \in Deleting /\ s # t =>
        cb[s] # cb[t] /\ (ptr[t] # NULL => ptr[s] # ptr[t])
  BY <1>b DEF SoleDeleter, Management
<1>1. ASSUME NEW h \in Handles, ConstructEmpty(t, h) PROVE Refers(s)'
  BY <1>b, <1>1 DEF ConstructEmpty, memory, control
<1>2. ASSUME NEW h \in Handles, NEW p \in Objects \cup {NULL}, NEW b \in Blocks,
           ConstructFrom(t, h, p, b)
      PROVE  Refers(s)'
  BY <1>b, <1>2 DEF ConstructFrom, NewBlock, OneOwner, Adopt, Adoptable
<1>3. ASSUME NEW h \in Handles, NEW p \in Objects \cup {NULL}, NEW b \in Blocks,
           Reset(t, h, p, b)
      PROVE  Refers(s)'
  BY <1>b, <1>3 DEF Reset, NewBlock, OneOwner, Adopt, Adoptable, Begin
<1>4. ASSUME NEW p \in Objects, ConstructFromThrows(t, p) PROVE Refers(s)'
  BY <1>b, <1>4 DEF ConstructFromThrows, Adoptable, handles, control
<1>5. ASSUME NEW dst \in Handles, NEW src \in Handles,
           MoveConstruct(t, dst, src)
      PROVE  Refers(s)'
  BY <1>b, <1>5 DEF MoveConstruct, StealFields, memory, control
<1>6. ASSUME NEW dst \in Handles, NEW src \in Handles,
           CopyConstruct(t, dst, src)
      PROVE  Refers(s)'
  BY <1>b, <1>6 DEF CopyConstruct, CopyFields, Begin, memory, control
<1>7. ASSUME NEW dst \in Handles, NEW src \in Handles,
           CopyAssign(t, dst, src)
      PROVE  Refers(s)'
  BY <1>b, <1>7 DEF CopyAssign, CopyFields, TmpCounted, Begin, memory, control
<1>8. ASSUME NEW dst \in Handles, NEW src \in Handles,
           MoveAssign(t, dst, src)
      PROVE  Refers(s)'
  BY <1>b, <1>8 DEF MoveAssign, StealFields, Begin, memory, control
<1>9. ASSUME NEW h \in Handles, Destroy(t, h) PROVE Refers(s)'
  BY <1>b, <1>9 DEF Destroy, StealFields, Begin, memory, control
<1>10. ASSUME NEW h \in Handles, ResetToNull(t, h) PROVE Refers(s)'
  BY <1>b, <1>10 DEF ResetToNull, Begin, handles, memory, control
<1>11. ASSUME NEW h \in Handles, GetCount(t, h) PROVE Refers(s)'
  BY <1>b, <1>11 DEF GetCount, Begin, handles, memory, control
<1>12. CASE Acquire(t)
  BY <1>b, <1>12 DEF Acquire, Free, Goto, handles, memory
<1>13. CASE Load(t)
  BY <1>b, <1>13 DEF Load, Goto, Section, handles, memory
<1>14. CASE Increment(t)
  BY <1>b, <1>14 DEF Increment, Unlock, Goto, NoCall, handles, memory
<1>15. CASE Report(t)
  BY <1>b, <1>15 DEF Report, Unlock, Goto, NoCall, handles, memory
<1>16. CASE Swap(t)
  BY <1>a, <1>b, <1>16
  DEF Swap, memory, control, CallShape, Op, Dst, Src, Dropping, Deleting
<1>17. CASE Release(t)
  BY <1>b, <1>17 DEF Release, ForgetOld, AfterRelease, Goto, NoCall, memory, control
<1>18. CASE Decrement(t)
  BY <1>b, <1>18
  DEF Decrement, Last, Unlock, ForgetOld, AfterRelease, Goto, NoCall, memory
<1>19. CASE DeleteObject(t)
  BY <1>b, <1>c, <1>19 DEF Deleting, DeleteObject, Goto, handles, control
<1>20. CASE DeleteBlock(t)
  <2>1. CASE s = t
    BY <1>20, <2>1 DEF DeleteBlock, ForgetOld, AfterRelease, Goto, control
  <2>2. CASE s # t
    BY <1>b, <1>c, <1>20, <2>2
    DEF DeleteBlock, ForgetOld, AfterRelease, Goto, control, Deleting
  <2> QED BY <2>1, <2>2
<1>21. CASE Steal(t)
  <2>1. Dst(t) \in Handles /\ Src(t) \in Handles /\ Dst(t) # Src(t)
    BY <1>a, <1>21 DEF Steal, CallShape, Dropping, Deleting
  <2> QED BY <1>b, <1>21, <2>1 DEF Steal, StealFields, Goto, memory, control, Dst, Src
<1> QED
  BY <1>1, <1>2, <1>3, <1>4, <1>5, <1>6, <1>7, <1>8, <1>9, <1>10, <1>11, <1>12, <1>13,
     <1>14, <1>15, <1>16, <1>17, <1>18, <1>19, <1>20, <1>21
  DEF Call, Continue

\* A new block is created for an object that no block manages.
LEMMA ManagementStep ==
    ASSUME TypeOK, Calls, Contract, Lifetimes, InFlight, SoleDeleter, Sections,
           Referents, Management, CountIsSharers,
           NEW t \in Threads, Call(t) \/ Continue(t)
    PROVE  Management'
<1> USE NamesAssumption DEF Management, TypeOK, Slots, Deleting
<1>a. Refers(t) /\ t \in Slots
  BY DEF Referents, Slots
<1>1. ASSUME NEW h \in Handles, ConstructEmpty(t, h) PROVE Management'
  BY <1>1 DEF ConstructEmpty, memory, control
<1>2. ASSUME NEW h \in Handles, NEW p \in Objects \cup {NULL}, NEW b \in Blocks,
           ConstructFrom(t, h, p, b)
      PROVE  Management'
  BY <1>2 DEF ConstructFrom, NewBlock, OneOwner, Adopt, Adoptable
<1>3. ASSUME NEW h \in Handles, NEW p \in Objects \cup {NULL}, NEW b \in Blocks,
           Reset(t, h, p, b)
      PROVE  Management'
  BY <1>3 DEF Reset, NewBlock, OneOwner, Adopt, Adoptable, Begin
<1>4. ASSUME NEW p \in Objects, ConstructFromThrows(t, p) PROVE Management'
  BY <1>4 DEF ConstructFromThrows, Adoptable, handles, control
<1>5. ASSUME NEW dst \in Handles, NEW src \in Handles,
           MoveConstruct(t, dst, src)
      PROVE  Management'
  BY <1>5 DEF MoveConstruct, StealFields, memory, control
<1>6. ASSUME NEW dst \in Handles, NEW src \in Handles,
           CopyConstruct(t, dst, src)
      PROVE  Management'
  BY <1>6 DEF CopyConstruct, CopyFields, Begin, memory, control
<1>7. ASSUME NEW dst \in Handles, NEW src \in Handles,
           CopyAssign(t, dst, src)
      PROVE  Management'
  BY <1>7 DEF CopyAssign, CopyFields, TmpCounted, Begin, memory, control
<1>8. ASSUME NEW dst \in Handles, NEW src \in Handles,
           MoveAssign(t, dst, src)
      PROVE  Management'
  BY <1>8 DEF MoveAssign, StealFields, Begin, memory, control
<1>9. ASSUME NEW h \in Handles, Destroy(t, h) PROVE Management'
  BY <1>9 DEF Destroy, StealFields, Begin, memory, control
<1>10. ASSUME NEW h \in Handles, ResetToNull(t, h) PROVE Management'
  BY <1>10 DEF ResetToNull, Begin, handles, memory, control
<1>11. ASSUME NEW h \in Handles, GetCount(t, h) PROVE Management'
  BY <1>11 DEF GetCount, Begin, handles, memory, control
<1>12. CASE Acquire(t)
  BY <1>12 DEF Acquire, Free, Goto, handles, memory
<1>13. CASE Load(t)
  BY <1>13 DEF Load, Goto, Section, handles, memory
<1>14. CASE Increment(t)
  BY <1>14 DEF Increment, Unlock, Goto, NoCall, handles, memory
<1>15. CASE Report(t)
  BY <1>15 DEF Report, Unlock, Goto, NoCall, handles, memory
<1>16. CASE Swap(t)
  BY <1>16 DEF Swap, memory, control
<1>17. CASE Release(t)
  BY <1>17 DEF Release, ForgetOld, AfterRelease, Goto, NoCall, memory, control
<1>18. CASE Decrement(t)
  BY <1>18 DEF Decrement, Last, Unlock, ForgetOld, AfterRelease, Goto, NoCall, memory
<1>19. CASE DeleteObject(t)
  BY <1>19 DEF DeleteObject, Goto, handles, control
<1>20. CASE DeleteBlock(t)
  BY <1>20 DEF DeleteBlock, ForgetOld, AfterRelease, Goto, NoCall, control
<1>21. CASE Steal(t)
  BY <1>21 DEF Steal, StealFields, Goto, NoCall, memory, control
<1> QED
  BY <1>1, <1>2, <1>3, <1>4, <1>5, <1>6, <1>7, <1>8, <1>9, <1>10, <1>11, <1>12, <1>13,
     <1>14, <1>15, <1>16, <1>17, <1>18, <1>19, <1>20, <1>21
  DEF Call, Continue

-----------------------------------------------------------------------------
(* The number of owners.                                                   *)

Shares(s, b) == cb[s] = b /\ ~Pending(s)

\* CountIsSharers, for one block.
Counted(b) == managed[b] # NULL => count[b] = Cardinality(Sharers(b))

\* A block has finitely many owners.
LEMMA SharersFinite ==
    ASSUME NEW b PROVE IsFiniteSet(Sharers(b)) /\ Cardinality(Sharers(b)) \in Nat
BY FinitenessAssumption, FS_Union, FS_Subset, FS_CardinalityType DEF Sharers, Slots

\* One slot takes the place of another.
LEMMA CardinalityMoved ==
    ASSUME NEW S, IsFiniteSet(S), NEW x \in S, NEW y, y \notin S
    PROVE  Cardinality((S \ {x}) \cup {y}) = Cardinality(S)
<1>1. IsFiniteSet(S \ {x}) /\ Cardinality(S \ {x}) = Cardinality(S) - 1
  BY FS_RemoveElement
<1>2. Cardinality((S \ {x}) \cup {y}) = Cardinality(S \ {x}) + 1
  BY <1>1, FS_AddElement
<1>3. Cardinality(S) \in Nat
  BY FS_CardinalityType
<1> QED BY <1>1, <1>2, <1>3

\* The owners stay.
LEMMA CountKept ==
    ASSUME NEW b, Counted(b), count'[b] = count[b], managed'[b] = managed[b],
           \A s \in Slots : Shares(s, b)' <=> Shares(s, b)
    PROVE  Counted(b)'
<1>1. Sharers(b)' = Sharers(b)
  BY DEF Sharers, Shares
<1> QED BY <1>1 DEF Counted

\* The share of x, if it has one, passes to y.
LEMMA CountMoved ==
    ASSUME NEW b, Counted(b), count'[b] = count[b], managed'[b] = managed[b],
           NEW x \in Slots, NEW y \in Slots, x # y,
           ~Shares(y, b), ~Shares(x, b)', Shares(y, b)' <=> Shares(x, b),
           \A s \in Slots \ {x, y} : Shares(s, b)' <=> Shares(s, b)
    PROVE  Counted(b)'
<1>1. CASE ~Shares(x, b)
  <2>1. \A s \in Slots : Shares(s, b)' <=> Shares(s, b)
    BY <1>1
  <2> QED BY <2>1, CountKept
<1>2. CASE Shares(x, b)
  <2>1. Sharers(b)' = (Sharers(b) \ {x}) \cup {y}
    BY <1>2 DEF Sharers, Shares
  <2>2. x \in Sharers(b) /\ y \notin Sharers(b)
    BY <1>2 DEF Sharers, Shares
  <2>3. Cardinality(Sharers(b)') = Cardinality(Sharers(b))
    BY <2>1, <2>2, SharersFinite, CardinalityMoved
  <2> QED BY <2>3 DEF Counted
<1> QED BY <1>1, <1>2

\* x becomes an owner.
LEMMA CountAdded ==
    ASSUME NEW b, Counted(b), count[b] \in Nat,
           count'[b] = count[b] + 1, managed'[b] = managed[b],
           NEW x \in Slots, ~Shares(x, b), Shares(x, b)',
           \A s \in Slots \ {x} : Shares(s, b)' <=> Shares(s, b)
    PROVE  Counted(b)'
<1>1. Sharers(b)' = Sharers(b) \cup {x} /\ x \notin Sharers(b)
  BY DEF Sharers, Shares
<1>2. Cardinality(Sharers(b)') = Cardinality(Sharers(b)) + 1
  BY <1>1, SharersFinite, FS_AddElement
<1> QED BY <1>2 DEF Counted

\* x is no longer an owner.
LEMMA CountDropped ==
    ASSUME NEW b, Counted(b), count[b] \in Nat,
           count'[b] = count[b] - 1, managed'[b] = managed[b],
           NEW x \in Slots, Shares(x, b), ~Shares(x, b)',
           \A s \in Slots \ {x} : Shares(s, b)' <=> Shares(s, b)
    PROVE  Counted(b)'
<1>1. Sharers(b)' = Sharers(b) \ {x} /\ x \in Sharers(b)
  BY DEF Sharers, Shares
<1>2. Cardinality(Sharers(b)') = Cardinality(Sharers(b)) - 1
  BY <1>1, SharersFinite, FS_RemoveElement
<1> QED BY <1>2 DEF Counted

\* x is the first owner.
LEMMA CountFirst ==
    ASSUME NEW b, count'[b] = 1, NEW x \in Slots, Shares(x, b)',
           \A s \in Slots \ {x} : ~Shares(s, b)'
    PROVE  Counted(b)'
<1>1. Sharers(b)' = {x}
  BY DEF Sharers, Shares
<1> QED BY <1>1, FS_Singleton DEF Counted

\* Nothing of the slots changes.
LEMMA CountUnshared ==
    ASSUME NEW b, Counted(b), cb' = cb, count' = count, managed' = managed,
           \A s \in Slots : Pending(s)' <=> Pending(s)
    PROVE  Counted(b)'
BY CountKept DEF Shares

\* The fields of x move to y, which was empty; neither is pending.
LEMMA FieldsMoved ==
    ASSUME NEW b \in Blocks, Counted(b), count' = count, managed' = managed,
           cb \in [Slots -> Blocks \cup {NULL}],
           NEW x \in Slots, NEW y \in Slots, x # y,
           cb' = [cb EXCEPT ![y] = cb[x], ![x] = NULL],
           cb[y] = NULL, ~Pending(x), ~Pending(y),
           \A s \in Slots : Pending(s)' <=> Pending(s)
    PROVE  Counted(b)'
<1>1. ~Shares(y, b) /\ ~Shares(x, b)' /\ (Shares(y, b)' <=> Shares(x, b))
  BY NamesAssumption DEF Shares
<1>2. \A s \in Slots \ {x, y} : Shares(s, b)' <=> Shares(s, b)
  BY DEF Shares
<1> QED BY <1>1, <1>2, CountMoved

\* The count of a block stays the number of its owners.
LEMMA CountStep ==
    ASSUME TypeOK, Calls, Contract, Lifetimes, InFlight, SoleDeleter, Sections,
           Referents, Management, CountIsSharers,
           NEW t \in Threads, Call(t) \/ Continue(t)
    PROVE  CountIsSharers'
<1> SUFFICES ASSUME NEW c \in Blocks PROVE Counted(c)'
  BY DEF CountIsSharers, Counted
<1> USE DEF TypeOK
<1>a. CallShape(t) /\ Progress(t) /\ t \in Slots
  BY DEF Calls, InFlight, Slots
<1>b. PendingIs
  BY PendingOf
<1>c. \A s : (Owing(t) => s # Subject(t)) /\ (Owing(t)' => s # Subject(t)') =>
        (Pending(s)' <=> Pending(s))
  BY PendingElse
<1>d. Counted(c)
  BY DEF CountIsSharers, Counted
<1>e. (Owing(t)' <=> Owing(t)) /\ Subject(t)' = Subject(t) =>
        \A s : Pending(s)' <=> Pending(s)
  BY PendingKept
<1>1. ASSUME NEW h \in Handles, ConstructEmpty(t, h) PROVE Counted(c)'
  <2>1. cb' = cb /\ count' = count /\ managed' = managed /\ pc' = pc /\ call' = call
    BY <1>1 DEF ConstructEmpty, memory, control
  <2>2. (Owing(t)' <=> Owing(t)) /\ Subject(t)' = Subject(t)
    BY <2>1 DEF Owing, Subject, Op
  <2> QED BY <1>d, <1>e, <2>1, <2>2, CountUnshared
<1>2. ASSUME NEW h \in Handles, NEW p \in Objects \cup {NULL}, NEW b \in Blocks,
           ConstructFrom(t, h, p, b)
      PROVE  Counted(c)'
  <2>0. pc' = pc /\ call' = call
    BY <1>2 DEF ConstructFrom, NewBlock, OneOwner, Adopt, Adoptable
  <2>1. ~Pending(h) /\ (Owing(t)' <=> Owing(t)) /\ Subject(t)' = Subject(t)
    BY <1>b, <2>0, <1>2 DEF ConstructFrom, PendingIs, Pending, Owing, Subject, Op
  <2>2. /\ count' = [count EXCEPT ![b] = 1] /\ managed' = [managed EXCEPT ![b] = p]
        /\ cb' = [cb EXCEPT ![h] = b] /\ block[b] = "fresh"
    BY <1>2 DEF ConstructFrom, NewBlock, OneOwner, Adopt, Adoptable
  <2>3. cb[h] = NULL /\ ~Pending(h) /\ h \in Slots
    BY <1>a, <1>b, <1>2, <2>1 DEF ConstructFrom, Lifetimes, PendingIs, Slots
  <2>4. \A s \in Slots : Pending(s)' <=> Pending(s)
    BY <1>e, <2>1
  <2>5. \A s \in Slots : cb[s] # b
    BY <2>2, NamesAssumption DEF Referents, Refers
  <2>6. CASE c = b
    BY <2>2, <2>3, <2>4, <2>5, <2>6, CountFirst DEF Shares
  <2>7. CASE c # b
    <3>1. \A s \in Slots : Shares(s, c)' <=> Shares(s, c)
      BY <2>2, <2>3, <2>4, <2>7, NamesAssumption DEF Shares
    <3> QED BY <1>d, <2>2, <2>7, <3>1, CountKept
  <2> QED BY <2>6, <2>7
<1>3. ASSUME NEW h \in Handles, NEW p \in Objects \cup {NULL}, NEW b \in Blocks,
           Reset(t, h, p, b)
      PROVE  Counted(c)'
  <2>1. ~Owing(t) /\ ~Owing(t)'
    BY <1>a, <1>3
    DEF Reset, Begin, Owing, Subject, CallShape, Op, Dst, Src, Dropping, Deleting
  <2>2. /\ count' = [count EXCEPT ![b] = 1] /\ managed' = [managed EXCEPT ![b] = p]
        /\ cb' = [cb EXCEPT ![t] = b] /\ block[b] = "fresh"
    BY <1>3 DEF Reset, NewBlock, OneOwner, Adopt, Adoptable
  <2>3. cb[t] = NULL /\ ~Pending(t) /\ t \in Slots
    BY <1>a, <1>b, <1>3, <2>1
    DEF Reset, Progress, Unused, CallShape, Begin, Op, Dropping, Deleting, PendingIs,
        Slots
  <2>4. \A s \in Slots : Pending(s)' <=> Pending(s)
    BY <1>c, <2>1
  <2>5. \A s \in Slots : cb[s] # b
    BY <2>2, NamesAssumption DEF Referents, Refers
  <2>6. CASE c = b
    BY <2>2, <2>3, <2>4, <2>5, <2>6, CountFirst DEF Shares
  <2>7. CASE c # b
    <3>1. \A s \in Slots : Shares(s, c)' <=> Shares(s, c)
      BY <2>2, <2>3, <2>4, <2>7, NamesAssumption DEF Shares
    <3> QED BY <1>d, <2>2, <2>7, <3>1, CountKept
  <2> QED BY <2>6, <2>7
<1>4. ASSUME NEW p \in Objects, ConstructFromThrows(t, p) PROVE Counted(c)'
  <2>1. cb' = cb /\ count' = count /\ managed' = managed /\ pc' = pc /\ call' = call
    BY <1>4 DEF ConstructFromThrows, Adoptable, handles, control
  <2>2. (Owing(t)' <=> Owing(t)) /\ Subject(t)' = Subject(t)
    BY <2>1 DEF Owing, Subject, Op
  <2> QED BY <1>d, <1>e, <2>1, <2>2, CountUnshared
<1>5. ASSUME NEW dst \in Handles, NEW src \in Handles,
           MoveConstruct(t, dst, src)
      PROVE  Counted(c)'
  <2>1. /\ count' = count /\ managed' = managed /\ pc' = pc /\ call' = call
        /\ cb' = [cb EXCEPT ![dst] = cb[src], ![src] = NULL]
    BY <1>5 DEF MoveConstruct, StealFields, memory, control
  <2>2. (Owing(t)' <=> Owing(t)) /\ Subject(t)' = Subject(t)
    BY <2>1 DEF Owing, Subject, Op
  <2>3. dst # src /\ cb[dst] = NULL /\ ~Pending(dst) /\ ~Pending(src)
    BY <1>b, <1>5 DEF MoveConstruct, Lifetimes, PendingIs
  <2> QED BY <1>e, <1>d, <2>1, <2>2, <2>3, FieldsMoved DEF Slots
<1>6. ASSUME NEW dst \in Handles, NEW src \in Handles,
           CopyConstruct(t, dst, src)
      PROVE  Counted(c)'
  <2>1. /\ count' = count /\ managed' = managed
        /\ cb' = [cb EXCEPT ![dst] = cb[src]] /\ cb[dst] = NULL
    BY <1>6 DEF CopyConstruct, CopyFields, memory, control, Lifetimes
  <2>2. CASE cb[src] = NULL
    <3>1. pc' = pc /\ call' = call
      BY <1>6, <2>2 DEF CopyConstruct
    <3>2. (Owing(t)' <=> Owing(t)) /\ Subject(t)' = Subject(t)
      BY <3>1 DEF Owing, Subject, Op
    <3>3. cb' = cb
      BY <2>1, <2>2
    <3> QED BY <1>d, <1>e, <2>1, <3>2, <3>3, CountUnshared
  <2>3. CASE cb[src] # NULL
    <3>1. ~Owing(t) /\ Owing(t)' /\ Subject(t)' = dst
      BY <1>a, <1>6, <2>3
      DEF CopyConstruct, Begin, Owing, Subject, CallShape, Op, Dst, Src, Dropping, Deleting
    <3>2. Pending(dst)'
      BY <3>1 DEF Pending, Owing, Op, Deleting
    <3>3. \A s \in Slots : Shares(s, c)' <=> Shares(s, c)
      BY <1>c, <2>1, <3>1, <3>2, NamesAssumption DEF Shares, Slots
    <3> QED BY <1>d, <2>1, <3>3, CountKept
  <2> QED BY <2>2, <2>3
<1>7. ASSUME NEW dst \in Handles, NEW src \in Handles,
           CopyAssign(t, dst, src)
      PROVE  Counted(c)'
  <2>1. /\ count' = count /\ managed' = managed
        /\ cb' = [cb EXCEPT ![t] = cb[src]]
    BY <1>7 DEF CopyAssign, CopyFields, memory, control
  <2>2. /\ ~Owing(t) /\ cb[t] = NULL
        /\ cb[src] # NULL => Owing(t)' /\ Subject(t)' = t
        /\ cb[src] = NULL => ~Owing(t)'
    BY <1>a, <1>7
    DEF CopyAssign, TmpCounted, Begin, Progress, Unused, Owing, Subject,
         CallShape, Op, Dst, Src, Dropping, Deleting
  <2>3. cb[src] # NULL => Pending(t)'
    BY <2>2 DEF Pending, Owing, Op, Deleting
  <2>4. \A s \in Slots : Shares(s, c)' <=> Shares(s, c)
    BY <1>a, <1>c, <2>1, <2>2, <2>3, NamesAssumption DEF Shares, Slots
  <2> QED BY <1>d, <2>1, <2>4, CountKept
<1>8. ASSUME NEW dst \in Handles, NEW src \in Handles,
           MoveAssign(t, dst, src)
      PROVE  Counted(c)'
  <2>1. ~Owing(t) /\ ~Owing(t)'
    BY <1>a, <1>8
    DEF MoveAssign, Begin, Owing, Subject, CallShape, Op, Dst, Src, Dropping, Deleting
  <2>2. /\ count' = count /\ managed' = managed
        /\ cb' = [cb EXCEPT ![t] = cb[dst], ![dst] = NULL]
    BY <1>8 DEF MoveAssign, StealFields, memory, control
  <2>3. t # dst /\ cb[t] = NULL /\ ~Pending(t) /\ ~Pending(dst)
    BY <1>a, <1>b, <1>8, <2>1, NamesAssumption
    DEF MoveAssign, Begin, Progress, Unused, PendingIs, CallShape, Dropping, Deleting
  <2> QED BY <1>a, <1>c, <1>d, <2>1, <2>2, <2>3, FieldsMoved DEF Slots
<1>9. ASSUME NEW h \in Handles, Destroy(t, h) PROVE Counted(c)'
  <2>1. ~Owing(t) /\ ~Owing(t)'
    BY <1>a, <1>9
    DEF Destroy, Begin, Owing, Subject, CallShape, Op, Dst, Src, Dropping, Deleting
  <2>2. /\ count' = count /\ managed' = managed
        /\ cb' = [cb EXCEPT ![t] = cb[h], ![h] = NULL]
    BY <1>9 DEF Destroy, StealFields, memory, control
  <2>3. t # h /\ cb[t] = NULL /\ ~Pending(t) /\ ~Pending(h)
    BY <1>a, <1>b, <1>9, <2>1, NamesAssumption
    DEF Destroy, Begin, Progress, Unused, PendingIs, CallShape, Dropping, Deleting
  <2> QED BY <1>a, <1>c, <1>d, <2>1, <2>2, <2>3, FieldsMoved DEF Slots
<1>10. ASSUME NEW h \in Handles, ResetToNull(t, h) PROVE Counted(c)'
  <2>1. ~Owing(t) /\ ~Owing(t)'
    BY <1>a, <1>10
    DEF ResetToNull, Begin, Owing, Subject, CallShape, Op, Dst, Src, Dropping, Deleting
  <2>2. cb' = cb /\ count' = count /\ managed' = managed
    BY <1>10 DEF ResetToNull, handles, memory, control
  <2> QED BY <1>c, <1>d, <2>1, <2>2, CountUnshared
<1>11. ASSUME NEW h \in Handles, GetCount(t, h) PROVE Counted(c)'
  <2>1. ~Owing(t) /\ ~Owing(t)'
    BY <1>a, <1>11
    DEF GetCount, Begin, Owing, Subject, CallShape, Op, Dst, Src, Dropping, Deleting
  <2>2. cb' = cb /\ count' = count /\ managed' = managed
    BY <1>11 DEF GetCount, handles, memory, control
  <2> QED BY <1>c, <1>d, <2>1, <2>2, CountUnshared
<1>12. CASE Acquire(t)
  <2>1. (Owing(t)' <=> Owing(t)) /\ Subject(t)' = Subject(t)
    BY <1>a, <1>12
    DEF Acquire, Goto, Owing, Subject, CallShape, Op, Dst, Src, Dropping, Deleting
  <2>2. cb' = cb /\ count' = count /\ managed' = managed
    BY <1>12 DEF Acquire, Free, handles, memory
  <2> QED BY <1>e, <1>d, <2>1, <2>2, CountUnshared
<1>13. CASE Load(t)
  <2>1. (Owing(t)' <=> Owing(t)) /\ Subject(t)' = Subject(t)
    BY <1>a, <1>13
    DEF Load, Goto, Section, Owing, Subject, CallShape, Op, Dst, Src, Dropping,
        Deleting
  <2>2. cb' = cb /\ count' = count /\ managed' = managed
    BY <1>13 DEF Load, handles, memory
  <2> QED BY <1>e, <1>d, <2>1, <2>2, CountUnshared
<1>14. CASE Increment(t)
  <2>1. Owing(t) /\ ~Owing(t)' /\ pc[t] = "increment"
    BY <1>a, <1>14
    DEF Increment, Goto, NoCall, Owing, Subject, CallShape, Op, Dst, Src, Dropping,
        Deleting
  <2>2. PICK x : x = Subject(t)
    OBVIOUS
  <2>3. x \in Slots /\ cb[x] = Block(t) /\ Pending(x) /\ ~Pending(x)'
    BY <2>1, <2>2, SectionBlock, Settled DEF Guarded
  <2>4. /\ count' = [count EXCEPT ![cb[x]] = count[cb[x]] + 1]
        /\ cb' = cb /\ managed' = managed
    BY <1>14, <2>1, <2>3 DEF Increment, Sections, Holds, Guarded, handles, memory
  <2>5. \A s \in Slots \ {x} : Shares(s, c)' <=> Shares(s, c)
    BY <1>c, <2>1, <2>2, <2>4 DEF Shares
  <2>6. CASE cb[x] = c
    BY <1>d, <2>3, <2>4, <2>5, <2>6, CountAdded DEF Shares
  <2>7. CASE cb[x] # c
    <3>1. ~Shares(x, c) /\ ~Shares(x, c)'
      BY <2>4, <2>7 DEF Shares
    <3> QED BY <1>d, <2>3, <2>4, <2>5, <2>7, <3>1, CountKept
  <2> QED BY <2>6, <2>7
<1>15. CASE Report(t)
  <2>1. ~Owing(t) /\ ~Owing(t)'
    BY <1>a, <1>15
    DEF Report, Goto, NoCall, Owing, Subject, CallShape, Op, Dst, Src, Dropping,
        Deleting
  <2>2. cb' = cb /\ count' = count /\ managed' = managed
    BY <1>15 DEF Report, Unlock, handles, memory
  <2> QED BY <1>c, <1>d, <2>1, <2>2, CountUnshared
<1>16. CASE Swap(t)
  <2>1. ~Owing(t) /\ ~Owing(t)' /\ Dst(t) \in Handles /\ Op(t) # "copy"
    BY <1>a, <1>16 DEF Swap, Owing, Subject, CallShape, Op, Dst, Src, Dropping, Deleting
  <2>2. PICK d \in Handles : d = Dst(t)
    BY <2>1
  <2>3. ~Pending(d) /\ ~Pending(t) /\ d # t /\ d \in Slots
    BY <1>b, <2>1, <2>2, NamesAssumption DEF PendingIs, Uses, Dst, Slots
  <2>4. /\ count' = count /\ managed' = managed
        /\ cb' = [cb EXCEPT ![d] = cb[t], ![t] = cb[d]]
    BY <1>16, <2>2 DEF Swap, Dst, memory, control
  <2>5. \A s \in Slots : Pending(s)' <=> Pending(s)
    BY <1>c, <2>1
  <2>6. \A s \in Slots \ {d, t} : Shares(s, c)' <=> Shares(s, c)
    BY <2>4, <2>5 DEF Shares
  <2>7. (Shares(d, c)' <=> Shares(t, c)) /\ (Shares(t, c)' <=> Shares(d, c))
    BY <1>a, <2>3, <2>4, <2>5 DEF Shares
  <2>8. CASE Shares(t, c) <=> Shares(d, c)
    <3>1. \A s \in Slots : Shares(s, c)' <=> Shares(s, c)
      BY <2>6, <2>7, <2>8
    <3> QED BY <1>d, <2>4, <3>1, CountKept
  <2>9. CASE Shares(t, c) /\ ~Shares(d, c)
    BY <1>a, <1>d, <2>3, <2>4, <2>6, <2>7, <2>9, CountMoved
  <2>10. CASE Shares(d, c) /\ ~Shares(t, c)
    BY <1>a, <1>d, <2>3, <2>4, <2>6, <2>7, <2>10, CountMoved
  <2> QED BY <2>8, <2>9, <2>10
<1>17. CASE Release(t)
  <2>1. ~Owing(t) /\ ~Owing(t)'
    BY <1>a, <1>17
    DEF Release, AfterRelease, Goto, NoCall, Owing, Subject, CallShape, Op, Dst, Src,
        Dropping, Deleting
  <2>2. /\ count' = count /\ managed' = managed
        /\ cb' = cb \/ (ptr[t] = NULL /\ cb' = [cb EXCEPT ![t] = NULL])
    BY <1>17 DEF Release, ForgetOld, memory, control
  <2>3. CASE cb[t] = c /\ ptr[t] = NULL
    BY <1>a, <2>2, <2>3, NamesAssumption DEF Referents, Refers, Counted
  <2>4. CASE ~(cb[t] = c /\ ptr[t] = NULL)
    <3>1. \A s \in Slots : Shares(s, c)' <=> Shares(s, c)
      BY <1>a, <1>c, <2>1, <2>2, <2>4, NamesAssumption DEF Shares
    <3> QED BY <1>d, <2>2, <3>1, CountKept
  <2> QED BY <2>3, <2>4
<1>18. CASE Decrement(t)
  <2>1. /\ Subject(t) = t /\ cb[t] \in Blocks /\ ~Pending(t)
        /\ loaded[t] = count[cb[t]] /\ Block(t) = cb[t]
    BY <1>18, Releaser DEF Decrement, Sharers
  <2>2. ~Owing(t) /\ (Owing(t)' => Subject(t)' = t) /\ (Last(t) => Owing(t)')
    BY <1>a, <1>18, <2>1
    DEF Decrement, Goto, AfterRelease, NoCall, Owing, Subject, CallShape, Op, Dst, Src,
        Dropping, Deleting
  <2>3. Last(t) => Pending(t)'
    BY <2>2 DEF Pending, Owing, Op, Deleting
  <2>4. /\ count' = [count EXCEPT ![cb[t]] = count[cb[t]] - 1] /\ managed' = managed
        /\ cb' = IF Last(t) THEN cb ELSE [cb EXCEPT ![t] = NULL]
    BY <1>18, <2>1 DEF Decrement, ForgetOld, memory
  <2>5. \A s \in Slots \ {t} : Shares(s, c)' <=> Shares(s, c)
    BY <1>c, <2>2, <2>4 DEF Shares
  <2>6. ~Shares(t, c)' /\ (Shares(t, c) <=> cb[t] = c)
    BY <1>a, <2>1, <2>3, <2>4, NamesAssumption DEF Shares
  <2>7. CASE cb[t] = c
    BY <1>a, <1>d, <2>4, <2>5, <2>6, <2>7, CountDropped
  <2>8. CASE cb[t] # c
    <3>1. \A s \in Slots : Shares(s, c)' <=> Shares(s, c)
      BY <2>5, <2>6, <2>8
    <3> QED BY <1>d, <2>1, <2>4, <2>8, <3>1, CountKept
  <2> QED BY <2>7, <2>8
<1>19. CASE DeleteObject(t)
  <2>1. (Owing(t)' <=> Owing(t)) /\ Subject(t)' = Subject(t)
    BY <1>a, <1>19
    DEF DeleteObject, Goto, Owing, Subject, CallShape, Op, Dst, Src, Dropping, Deleting
  <2>2. cb' = cb /\ count' = count /\ managed' = managed
    BY <1>19 DEF DeleteObject, handles, control
  <2> QED BY <1>e, <1>d, <2>1, <2>2, CountUnshared
<1>20. CASE DeleteBlock(t)
  <2>1. Owing(t) /\ ~Owing(t)' /\ Subject(t) = t
    BY <1>a, <1>20
    DEF DeleteBlock, AfterRelease, Goto, NoCall, Owing, Subject, CallShape, Op, Dst,
        Src, Dropping, Deleting
  <2>2. /\ count' = count /\ managed' = managed
        /\ cb' = [cb EXCEPT ![t] = NULL]
    BY <1>20 DEF DeleteBlock, ForgetOld, control
  <2>3. Pending(t)
    BY <2>1 DEF Pending, Owing, Op, Deleting
  <2>4. \A s \in Slots : Shares(s, c)' <=> Shares(s, c)
    BY <1>a, <1>c, <2>1, <2>2, <2>3, NamesAssumption DEF Shares
  <2> QED BY <1>d, <2>2, <2>4, CountKept
<1>21. CASE Steal(t)
  <2>1. ~Owing(t) /\ ~Owing(t)'
    BY <1>a, <1>21
    DEF Steal, Goto, NoCall, Owing, Subject, CallShape, Op, Dst, Src, Dropping,
        Deleting
  <2>2. /\ count' = count /\ managed' = managed
        /\ cb' = [cb EXCEPT ![Dst(t)] = cb[Src(t)], ![Src(t)] = NULL]
    BY <1>21 DEF Steal, StealFields, memory, control, Dst, Src
  <2>3. /\ Dst(t) \in Handles /\ Src(t) \in Handles /\ Dst(t) # Src(t)
        /\ Op(t) = "moveAssign" /\ cb[Dst(t)] = NULL
    BY <1>a, <1>21 DEF Steal, CallShape, Progress, Dropping, Deleting
  <2>4. ~Pending(Dst(t)) /\ ~Pending(Src(t))
    BY <1>b, <2>3 DEF PendingIs, Uses, Dst, Src
  <2>5. PICK x \in Slots, y \in Slots : x = Src(t) /\ y = Dst(t)
    BY <2>3 DEF Slots
  <2> QED BY <1>c, <1>d, <2>1, <2>2, <2>3, <2>4, <2>5, FieldsMoved
<1> QED
  BY <1>1, <1>2, <1>3, <1>4, <1>5, <1>6, <1>7, <1>8, <1>9, <1>10, <1>11, <1>12, <1>13,
     <1>14, <1>15, <1>16, <1>17, <1>18, <1>19, <1>20, <1>21
  DEF Call, Continue

-----------------------------------------------------------------------------
(* The theorems.                                                           *)

\* Initially no thread is in a call and no variable exists.
LEMMA InitIInv == Init => IInv
<1> SUFFICES ASSUME Init PROVE IInv
  OBVIOUS
<1> USE NamesAssumption DEF Init, NoCall
<1>1. TypeOK
  BY DEF TypeOK, Lifetime, Steps, CallType
<1>2. Calls /\ Contract /\ Lifetimes /\ InFlight
  BY DEF Calls, CallShape, Contract, Writes, Uses, Lifetimes, InFlight, Progress,
         Op, Dst, Src, Slots
<1>3. SoleDeleter /\ Sections /\ Referents /\ Management
  BY DEF SoleDeleter, Deleting, Sections, Holds, Guarded, Referents, Refers, Management
<1>4. CountIsSharers
  BY DEF CountIsSharers
<1> QED BY <1>1, <1>2, <1>3, <1>4 DEF IInv

\* IInv is inductive: its parts are preserved together.
LEMMA NextIInv == IInv /\ [Next]_vars => IInv'
<1>1. ASSUME IInv, NEW t \in Threads, Call(t) \/ Continue(t) PROVE IInv'
  <2> USE <1>1 DEF IInv
  <2>1. TypeOK' /\ Calls' /\ Contract' /\ Lifetimes' /\ InFlight'
    BY TypeStep, CallsStep, ContractStep, LifetimesStep, InFlightStep
  <2>2. SoleDeleter' /\ Sections' /\ Referents' /\ Management' /\ CountIsSharers'
    BY SoleDeleterStep, SectionsStep, ReferentsStep, ManagementStep, CountStep
  <2> QED BY <2>1, <2>2
<1>2. ASSUME IInv, UNCHANGED vars PROVE IInv'
  <2> USE <1>2 DEF IInv, vars
  <2>1. TypeOK' /\ Calls' /\ Contract' /\ Lifetimes' /\ InFlight'
    BY DEF TypeOK, Calls, CallShape, Contract, Writes, Uses, Lifetimes, InFlight,
           Progress, Unused, Op, Dst, Src
  <2>2. SoleDeleter' /\ Sections' /\ Referents' /\ Management'
    BY DEF SoleDeleter, Sections, Holds, Block, Subject, Referents, Refers, Management
  <2>3. CountIsSharers'
    BY DEF CountIsSharers, Sharers, Pending, Subject
  <2> QED BY <2>1, <2>2, <2>3
<1> QED BY <1>1, <1>2 DEF Next

\* The inductive invariant of all member functions, constructors and the
\* destructor of SharedPointer, however they interleave.
THEOREM Invariance == Spec => []IInv
BY InitIInv, NextIInv, PTL DEF Spec

\* The fields and the control blocks of SharedPointer keep their types.
THEOREM TypeCorrect == Spec => []TypeOK
<1>1. IInv => TypeOK
  BY DEF IInv
<1> QED BY <1>1, Invariance, PTL

\* count_ is the number of owners, whatever the interleaving of copies,
\* assignments and releases.
THEOREM CountCorrect == Spec => []CountIsSharers
<1>1. IInv => CountIsSharers
  BY DEF IInv
<1> QED BY <1>1, Invariance, PTL

\* release() deletes nothing that a SharedPointer, or a thread inside one of
\* its members, still refers to, and nothing twice.
THEOREM Safe == Spec => []NoUseAfterFree
<1>1. IInv => NoUseAfterFree
  BY DEF IInv, Referents, Refers, NoUseAfterFree
<1> QED BY <1>1, Invariance, PTL

\* get_count() returns the number of owners at the moment it unlocks.
THEOREM ReportCorrect == Spec => CountReported
<1> DEFINE Correct == \A t \in Threads :
      Report(t) /\ managed[Block(t)] # NULL => loaded[t] = Cardinality(Sharers(Block(t)))
<1>1. IInv => Correct
  <2> SUFFICES ASSUME IInv, NEW t \in Threads, Report(t), managed[Block(t)] # NULL
               PROVE  loaded[t] = Cardinality(Sharers(Block(t)))
    OBVIOUS
  <2>1. Block(t) \in Blocks /\ loaded[t] = count[Block(t)]
    BY SectionBlock DEF IInv, Report, Sections, Holds, Guarded
  <2> QED BY <2>1 DEF IInv, CountIsSharers
<1>2. IInv => [Correct]_vars
  BY <1>1
<1> QED BY <1>2, Invariance, PTL DEF CountReported

-----------------------------------------------------------------------------
(* What a step does to the slots.                                          *)

Empty(y)     == cb[y] = NULL /\ ptr[y] = NULL
Still        == cb' = cb /\ ptr' = ptr
Moved(x, y)  == /\ x # y /\ Empty(y)
                /\ cb' = [cb EXCEPT ![y] = cb[x], ![x] = NULL]
                /\ ptr' = [ptr EXCEPT ![y] = ptr[x], ![x] = NULL]
Copied(x, y) == /\ x # y /\ Empty(y)
                /\ cb' = [cb EXCEPT ![y] = cb[x]]
                /\ ptr' = [ptr EXCEPT ![y] = ptr[x]]
Swapped(x, y) == /\ x # y
                 /\ cb' = [cb EXCEPT ![y] = cb[x], ![x] = cb[y]]
                 /\ ptr' = [ptr EXCEPT ![y] = ptr[x], ![x] = ptr[y]]
Forgotten(x) == cb' = [cb EXCEPT ![x] = NULL] /\ ptr' = [ptr EXCEPT ![x] = NULL]
Adopted(y, p, b) == /\ Empty(y) /\ block[b] = "fresh" /\ p \in Adoptable /\ Adopt(p)
                    /\ block' = [block EXCEPT ![b] = "live"]
                    /\ managed' = [managed EXCEPT ![b] = p]
                    /\ cb' = [cb EXCEPT ![y] = b] /\ ptr' = [ptr EXCEPT ![y] = p]

\* No thread starts or stops deleting.
SameDeleters == \A u \in Threads : pc'[u] \in Deleting <=> pc[u] \in Deleting

\* The slots a step of t may change.
Mine(t) == Handles \cup {t}

\* A step of SharedPointer as its slots, objects and blocks see it.
Effect(t) ==
    \/ /\ SameDeleters /\ UNCHANGED memory
       /\ \/ Still
          \/ \E x, y \in Mine(t) : Moved(x, y) \/ Copied(x, y) \/ Swapped(x, y)
          \/ Forgotten(t) /\ ptr[t] = NULL /\ pc[t] = "release"
    \/ /\ SameDeleters
       /\ \E y \in Mine(t), p \in Objects \cup {NULL}, b \in Blocks : Adopted(y, p, b)
    \/ /\ SameDeleters /\ Still /\ UNCHANGED <<block, managed>>
       /\ \E p \in Objects : object[p] = "fresh" /\ object' = [object EXCEPT ![p] = "deleted"]
    \/ Decrement(t)
    \/ DeleteObject(t) /\ SameDeleters
    \/ DeleteBlock(t)

\* Every step has one of these effects.
LEMMA Effects ==
    ASSUME TypeOK, Calls, Lifetimes, InFlight, NEW t \in Threads, Call(t) \/ Continue(t)
    PROVE  Effect(t)
<1> USE DEF TypeOK
<1>a. TypeOK /\ CallShape(t) /\ Progress(t) /\ t \in Slots
  BY DEF Calls, InFlight, Slots
<1>b. Lifetimes
  BY DEF Lifetimes
<1>1. ASSUME NEW h \in Handles, ConstructEmpty(t, h) PROVE Effect(t)
  <2>1. Still /\ UNCHANGED memory
    BY <1>1 DEF ConstructEmpty, memory, control, Still
  <2>2. SameDeleters
    BY <1>a, <1>1 DEF ConstructEmpty, SameDeleters, Deleting
  <2> QED BY <2>1, <2>2 DEF Effect
<1>2. ASSUME NEW h \in Handles, NEW p \in Objects \cup {NULL}, NEW b \in Blocks,
           ConstructFrom(t, h, p, b)
      PROVE  Effect(t)
  <2>1. Adopted(h, p, b) /\ h \in Mine(t)
    BY <1>a, <1>b, <1>2
    DEF ConstructFrom, NewBlock, Adopted, Empty, Lifetimes, CallShape, Op, Dropping,
        Deleting, Slots, Mine
  <2>2. SameDeleters
    BY <1>a, <1>2 DEF ConstructFrom, SameDeleters, Deleting
  <2> QED BY <2>1, <2>2 DEF Effect
<1>3. ASSUME NEW h \in Handles, NEW p \in Objects \cup {NULL}, NEW b \in Blocks,
           Reset(t, h, p, b)
      PROVE  Effect(t)
  <2>1. Adopted(t, p, b) /\ t \in Mine(t)
    BY <1>a, <1>b, <1>3
    DEF Reset, Begin, NewBlock, Adopted, Empty, Progress, Unused, CallShape, Op,
        Dropping, Deleting, Slots, Mine
  <2>2. SameDeleters
    BY <1>a, <1>3 DEF Reset, Begin, SameDeleters, Deleting
  <2> QED BY <2>1, <2>2 DEF Effect
<1>4. ASSUME NEW p \in Objects, ConstructFromThrows(t, p) PROVE Effect(t)
  <2>1. object[p] = "fresh" /\ object' = [object EXCEPT ![p] = "deleted"]
    BY <1>a, <1>4, NamesAssumption DEF ConstructFromThrows, Adoptable
  <2> QED BY <1>4, <2>1 DEF ConstructFromThrows, handles, Effect, Still, SameDeleters
<1>5. ASSUME NEW dst \in Handles, NEW src \in Handles,
           MoveConstruct(t, dst, src)
      PROVE  Effect(t)
  <2>1. Moved(src, dst) /\ UNCHANGED memory /\ src \in Mine(t) /\ dst \in Mine(t)
    BY <1>a, <1>b, <1>5, NamesAssumption
    DEF MoveConstruct, StealFields, control, Begin, Moved, Empty, Lifetimes, CallShape,
        Op, Dropping, Deleting, Slots, Mine, MayRead
  <2>2. SameDeleters
    BY <1>a, <1>5 DEF MoveConstruct, Begin, SameDeleters, Deleting
  <2> QED BY <2>1, <2>2 DEF Effect
<1>6. ASSUME NEW dst \in Handles, NEW src \in Handles,
           CopyConstruct(t, dst, src)
      PROVE  Effect(t)
  <2>1. Copied(src, dst) /\ UNCHANGED memory /\ src \in Mine(t) /\ dst \in Mine(t)
    BY <1>a, <1>b, <1>6, NamesAssumption
    DEF CopyConstruct, CopyFields, control, Begin, Copied, Empty, Lifetimes, CallShape,
        Op, Dropping, Deleting, Slots, Mine, MayRead
  <2>2. SameDeleters
    BY <1>a, <1>6 DEF CopyConstruct, Begin, Begin, SameDeleters, Deleting
  <2> QED BY <2>1, <2>2 DEF Effect
<1>7. ASSUME NEW dst \in Handles, NEW src \in Handles,
           CopyAssign(t, dst, src)
      PROVE  Effect(t)
  <2>1. Copied(src, t) /\ UNCHANGED memory /\ src \in Mine(t) /\ t \in Mine(t)
    BY <1>a, <1>b, <1>7, NamesAssumption
    DEF CopyAssign, CopyFields, control, Begin, Copied, Empty, Progress, Unused,
        CallShape, Op, Dropping, Deleting, Slots, Mine, MayRead
  <2>2. SameDeleters
    BY <1>a, <1>7 DEF CopyAssign, TmpCounted, Begin, Begin, SameDeleters, Deleting
  <2> QED BY <2>1, <2>2 DEF Effect
<1>8. ASSUME NEW dst \in Handles, NEW src \in Handles,
           MoveAssign(t, dst, src)
      PROVE  Effect(t)
  <2>1. Moved(dst, t) /\ UNCHANGED memory /\ dst \in Mine(t) /\ t \in Mine(t)
    BY <1>a, <1>b, <1>8, NamesAssumption
    DEF MoveAssign, StealFields, control, Begin, Moved, Empty, Progress, Unused,
        CallShape, Op, Dropping, Deleting, Slots, Mine, MayRead
  <2>2. SameDeleters
    BY <1>a, <1>8 DEF MoveAssign, Begin, Begin, SameDeleters, Deleting
  <2> QED BY <2>1, <2>2 DEF Effect
<1>9. ASSUME NEW h \in Handles, Destroy(t, h) PROVE Effect(t)
  <2>1. Moved(h, t) /\ UNCHANGED memory /\ h \in Mine(t) /\ t \in Mine(t)
    BY <1>a, <1>b, <1>9, NamesAssumption
    DEF Destroy, StealFields, control, Begin, Moved, Empty, Progress, Unused,
        CallShape, Op, Dropping, Deleting, Slots, Mine, MayRead
  <2>2. SameDeleters
    BY <1>a, <1>9 DEF Destroy, Begin, Begin, SameDeleters, Deleting
  <2> QED BY <2>1, <2>2 DEF Effect
<1>10. ASSUME NEW h \in Handles, ResetToNull(t, h) PROVE Effect(t)
  <2>1. Still /\ UNCHANGED memory
    BY <1>10 DEF ResetToNull, handles, memory, control, Still
  <2>2. SameDeleters
    BY <1>a, <1>10 DEF ResetToNull, Begin, SameDeleters, Deleting
  <2> QED BY <2>1, <2>2 DEF Effect
<1>11. ASSUME NEW h \in Handles, GetCount(t, h) PROVE Effect(t)
  <2>1. Still /\ UNCHANGED memory
    BY <1>11 DEF GetCount, handles, memory, control, Still
  <2>2. SameDeleters
    BY <1>a, <1>11 DEF GetCount, Begin, SameDeleters, Deleting
  <2> QED BY <2>1, <2>2 DEF Effect
<1>12. CASE Acquire(t)
  <2>1. Still /\ UNCHANGED memory
    BY <1>12 DEF Acquire, handles, memory, Still
  <2>2. SameDeleters
    BY <1>a, <1>12 DEF Acquire, Goto, SameDeleters, Deleting
  <2> QED BY <2>1, <2>2 DEF Effect
<1>13. CASE Load(t)
  <2>1. Still /\ UNCHANGED memory
    BY <1>13 DEF Load, handles, memory, Still
  <2>2. SameDeleters
    BY <1>a, <1>13 DEF Load, Goto, Section, SameDeleters, Deleting
  <2> QED BY <2>1, <2>2 DEF Effect
<1>14. CASE Increment(t)
  <2>1. Still /\ UNCHANGED memory
    BY <1>14 DEF Increment, handles, memory, Still
  <2>2. SameDeleters
    BY <1>a, <1>14 DEF Increment, Goto, NoCall, SameDeleters, Deleting
  <2> QED BY <2>1, <2>2 DEF Effect
<1>15. CASE Report(t)
  <2>1. Still /\ UNCHANGED memory
    BY <1>15 DEF Report, handles, memory, Still
  <2>2. SameDeleters
    BY <1>a, <1>15 DEF Report, Goto, NoCall, SameDeleters, Deleting
  <2> QED BY <2>1, <2>2 DEF Effect
<1>16. CASE Swap(t)
  <2>1. PICK d \in Mine(t) : d = Dst(t) /\ d # t /\ t \in Mine(t)
    BY <1>a, <1>16, NamesAssumption DEF Swap, CallShape, Dropping, Deleting, Slots, Mine
  <2>2. Swapped(t, d) /\ UNCHANGED memory
    BY <1>a, <1>16, <2>1 DEF Swap, Swapped, Dst
  <2>3. SameDeleters
    BY <1>a, <1>16 DEF Swap, SameDeleters, Deleting
  <2> QED BY <1>a, <2>1, <2>2, <2>3 DEF Effect
<1>17. CASE Release(t)
  <2>1. SameDeleters
    BY <1>a, <1>17 DEF Release, Goto, AfterRelease, SameDeleters, Deleting
  <2>2. UNCHANGED memory /\ pc[t] = "release"
    BY <1>17 DEF Release
  <2>3. Still \/ (Forgotten(t) /\ ptr[t] = NULL)
    BY <1>17 DEF Release, ForgetOld, Still, Forgotten
  <2> QED BY <2>1, <2>2, <2>3 DEF Effect
<1>18. CASE Decrement(t)
  BY <1>18 DEF Effect
<1>19. CASE DeleteObject(t)
  <2>1. SameDeleters
    BY <1>a, <1>19 DEF DeleteObject, Goto, SameDeleters, Deleting
  <2> QED BY <1>19, <2>1 DEF Effect
<1>20. CASE DeleteBlock(t)
  BY <1>20 DEF Effect
<1>21. CASE Steal(t)
  <2>1. PICK x \in Mine(t), y \in Mine(t) : x = Src(t) /\ y = Dst(t) /\ x # y /\ Empty(y)
    BY <1>a, <1>21
    DEF Steal, CallShape, Progress, Empty, Dropping, Deleting, Slots, Mine
  <2>2. Moved(x, y) /\ UNCHANGED memory
    BY <1>21, <2>1 DEF Steal, StealFields, Moved, Dst, Src
  <2>3. SameDeleters
    BY <1>a, <1>21 DEF Steal, Goto, SameDeleters, Deleting
  <2> QED BY <2>1, <2>2, <2>3 DEF Effect
<1> QED
  BY <1>1, <1>2, <1>3, <1>4, <1>5, <1>6, <1>7, <1>8, <1>9, <1>10, <1>11, <1>12, <1>13,
     <1>14, <1>15, <1>16, <1>17, <1>18, <1>19, <1>20, <1>21
  DEF Call, Continue

-----------------------------------------------------------------------------
(* Nothing is leaked.                                                      *)

\* delete old_cb follows delete old_ptr.
ObjectGone == \A t \in Threads : pc[t] = "deleteBlock" => object[ptr[t]] = "deleted"

\* Whoever leaves without deleting leaves another slot behind.
LEMMA OtherOwner ==
    ASSUME IInv, NEW t \in Threads, pc[t] = "decrement", ~Last(t)
    PROVE  \E r \in Slots \ {t} : cb[r] = cb[t] /\ ptr[r] = ptr[t]
<1>1. /\ t \in Slots /\ cb[t] \in Blocks /\ t \in Sharers(cb[t])
      /\ Cardinality(Sharers(cb[t])) # 1
  BY Releaser DEF IInv, Last
<1>2. Sharers(cb[t]) # {t}
  BY <1>1, FS_Singleton
<1>3. PICK r \in Sharers(cb[t]) : r # t
  BY <1>1, <1>2
<1> QED BY <1>1, <1>3, NamesAssumption DEF Sharers, IInv, Referents, Refers

\* Nobody else refers to the object or the block of a deleter.
LEMMA DeleterMoves ==
    ASSUME IInv, NEW t \in Threads, DeleteObject(t) \/ DeleteBlock(t)
    PROVE  /\ t \in Slots /\ ptr[t] \in Objects /\ cb[t] \in Blocks /\ managed[cb[t]] = ptr[t]
           /\ \A s \in Slots : s # t => ptr[s] # ptr[t] /\ cb[s] # cb[t]
<1>1. CallShape(t) /\ Progress(t) /\ TypeOK /\ pc[t] \in Deleting /\ t \in Slots
  BY DEF IInv, Calls, InFlight, DeleteObject, DeleteBlock, Deleting, Slots
<1>2. ptr[t] # NULL
  BY <1>1 DEF CallShape, Progress, Op, Dropping, Deleting
<1>3. \A s \in Slots : Refers(s)
  BY DEF IInv, Referents
<1>4. ptr[t] \in Objects /\ cb[t] \in Blocks /\ managed[cb[t]] = ptr[t]
  BY <1>1, <1>2, <1>3, NamesAssumption DEF Refers, TypeOK
<1> SUFFICES ASSUME NEW s \in Slots, s # t PROVE ptr[s] # ptr[t] /\ cb[s] # cb[t]
  BY <1>1, <1>4
<1>5. cb[s] # cb[t]
  BY <1>1 DEF IInv, SoleDeleter
<1>6. ASSUME ptr[s] = ptr[t] PROVE FALSE
  <2>1. cb[s] \in Blocks /\ managed[cb[s]] = managed[cb[t]] /\ managed[cb[t]] # NULL
    BY <1>1, <1>2, <1>3, <1>4, <1>6 DEF Refers, TypeOK
  <2> QED BY <1>4, <1>5, <2>1 DEF IInv, Management
<1> QED BY <1>5, <1>6

\* A deleter takes no other step.
LEMMA DeleterActs ==
    ASSUME NEW t \in Threads, Call(t) \/ Continue(t), pc[t] \in Deleting
    PROVE  DeleteObject(t) \/ DeleteBlock(t)
BY
DEF Deleting, Call, Continue, ConstructEmpty, Destroy, ResetToNull, GetCount,
    ConstructFrom,
   Reset, ConstructFromThrows, CopyConstruct, MoveConstruct, CopyAssign, MoveAssign, Begin,
   Acquire, Load, Increment, Report, Swap, Release, Decrement, Steal

\* The object stays deleted until its block is.
LEMMA ObjectGoneStep ==
    ASSUME IInv, ObjectGone, NEW t \in Threads, Call(t) \/ Continue(t)
    PROVE  ObjectGone'
<1> SUFFICES ASSUME NEW u \in Threads, pc'[u] = "deleteBlock"
             PROVE  object'[ptr'[u]] = "deleted"
  BY DEF ObjectGone
<1>1. TypeOK /\ CallShape(t) /\ Calls /\ Contract /\ InFlight /\ Lifetimes
  BY DEF IInv, Calls
<1>2. CASE u = t
  <2>1. DeleteObject(t)
    <3>1. ~Decrement(t) /\ ~DeleteBlock(t)
      BY <1>1, <1>2 DEF Decrement, DeleteBlock, Goto, AfterRelease, TypeOK
    <3>2. pc[t] \in Deleting
      BY <1>1, <1>2, <3>1, Effects DEF Effect, SameDeleters, Deleting
    <3> QED BY <3>1, <3>2, DeleterActs
  <2>2. ptr' = ptr /\ object' = [object EXCEPT ![ptr[t]] = "deleted"] /\ ptr[t] \in Objects
    BY <2>1, DeleterMoves DEF DeleteObject, handles
  <2> QED BY <1>1, <1>2, <2>2 DEF TypeOK
<1>3. CASE u # t
  <2>1. pc[u] = "deleteBlock" /\ object[ptr[u]] = "deleted"
    BY <1>1, <1>3, Others DEF Kept, ObjectGone
  <2>2. CallShape(u) /\ Progress(u) /\ Refers(u) /\ u \in Slots
    BY DEF IInv, Calls, InFlight, Referents, Slots
  <2>3. ptr[u] \in Objects
    BY <1>1, <2>1, <2>2, NamesAssumption
    DEF TypeOK, CallShape, Progress, Op, Dropping, Deleting
  <2>4. ptr'[u] = ptr[u]
    BY <1>1, <1>3, Effects, NamesAssumption
    DEF Effect, Mine, Still, Moved, Copied, Swapped, Forgotten, Adopted, Decrement, ForgetOld,
        DeleteObject, DeleteBlock, handles, TypeOK, Slots
  <2>5. object'[ptr[u]] = "deleted"
    <3>1. ASSUME NEW y, NEW p, NEW b, Adopted(y, p, b)
          PROVE  object'[ptr[u]] = "deleted"
      BY <1>1, <2>1, <2>3, <3>1, NamesAssumption DEF Adopted, Adoptable, Adopt, TypeOK
    <3>2. ASSUME NEW p \in Objects, object' = [object EXCEPT ![p] = "deleted"]
          PROVE  object'[ptr[u]] = "deleted"
      BY <1>1, <2>1, <2>3, <3>2 DEF TypeOK
    <3>3. CASE DeleteObject(t)
      BY <3>2, <3>3, DeleterMoves DEF DeleteObject
    <3>4. CASE object' = object
      BY <2>1, <3>4
    <3> QED
      BY <1>1, <3>1, <3>2, <3>3, <3>4, Effects
      DEF Effect, memory, Decrement, DeleteBlock
  <2> QED BY <2>4, <2>5
<1> QED BY <1>2, <1>3

\* What a slot holds is found in some slot after a step, unless it is deleted.
LEMMA PassedOn ==
    ASSUME IInv, NEW t \in Threads, Call(t) \/ Continue(t),
           NEW s \in Slots, ptr[s] # NULL, ~(s = t /\ DeleteBlock(t))
    PROVE  \E r \in Slots : ptr'[r] = ptr[s] /\ cb'[r] = cb[s]
<1>1. /\ TypeOK /\ Calls /\ InFlight /\ Lifetimes /\ t \in Slots /\ Mine(t) \subseteq Slots
      /\ ptr \in [Slots -> Objects \cup {NULL}] /\ cb \in [Slots -> Blocks \cup {NULL}]
  BY DEF IInv, TypeOK, Slots, Mine
<1>2. ASSUME NEW x \in Slots, NEW y \in Slots, Moved(x, y)
      PROVE  \E r \in Slots : ptr'[r] = ptr[s] /\ cb'[r] = cb[s]
  <2>1. s # y
    BY <1>2 DEF Moved, Empty
  <2>2. ptr'[y] = ptr[x] /\ cb'[y] = cb[x]
    BY <1>1, <1>2 DEF Moved
  <2>3. CASE s = x
    BY <2>2, <2>3
  <2>4. CASE s # x
    <3>1. ptr'[s] = ptr[s] /\ cb'[s] = cb[s]
      BY <1>1, <1>2, <2>1, <2>4 DEF Moved
    <3> QED BY <3>1
  <2> QED BY <2>3, <2>4
<1>3. ASSUME NEW x \in Slots, NEW y \in Slots, Copied(x, y)
      PROVE  \E r \in Slots : ptr'[r] = ptr[s] /\ cb'[r] = cb[s]
  <2>1. ptr'[s] = ptr[s] /\ cb'[s] = cb[s]
    BY <1>1, <1>3 DEF Copied, Empty
  <2> QED BY <2>1
<1>4. ASSUME NEW x \in Slots, NEW y \in Slots, Swapped(x, y)
      PROVE  \E r \in Slots : ptr'[r] = ptr[s] /\ cb'[r] = cb[s]
  <2>1. ptr'[y] = ptr[x] /\ cb'[y] = cb[x] /\ ptr'[x] = ptr[y] /\ cb'[x] = cb[y]
    BY <1>1, <1>4 DEF Swapped
  <2>2. s \notin {x, y} => ptr'[s] = ptr[s] /\ cb'[s] = cb[s]
    BY <1>1, <1>4 DEF Swapped
  <2> QED BY <2>1, <2>2
<1>5. ASSUME NEW y \in Slots, NEW p, NEW b, Adopted(y, p, b)
      PROVE  \E r \in Slots : ptr'[r] = ptr[s] /\ cb'[r] = cb[s]
  <2>1. ptr'[s] = ptr[s] /\ cb'[s] = cb[s]
    BY <1>1, <1>5 DEF Adopted, Empty
  <2> QED BY <2>1
<1>6. CASE Still
  BY <1>6 DEF Still
<1>7. CASE Forgotten(t) /\ ptr[t] = NULL
  <2>1. ptr'[s] = ptr[s] /\ cb'[s] = cb[s]
    BY <1>1, <1>7 DEF Forgotten
  <2> QED BY <2>1
<1>8. CASE Decrement(t)
  <2>1. CASE s # t \/ Last(t)
    <3>1. ptr'[s] = ptr[s] /\ cb'[s] = cb[s]
      BY <1>1, <1>8, <2>1 DEF Decrement, ForgetOld
    <3> QED BY <3>1
  <2>2. CASE s = t /\ ~Last(t)
    <3>1. PICK r \in Slots \ {t} : cb[r] = cb[t] /\ ptr[r] = ptr[t]
      BY <1>8, <2>2, OtherOwner DEF Decrement
    <3>2. ptr'[r] = ptr[r] /\ cb'[r] = cb[r]
      BY <1>1, <1>8, <2>2 DEF Decrement, ForgetOld
    <3> QED BY <2>2, <3>1, <3>2
  <2> QED BY <2>1, <2>2
<1>9. CASE DeleteObject(t)
  BY <1>9 DEF DeleteObject, handles
<1>10. CASE DeleteBlock(t)
  <2>1. ptr'[s] = ptr[s] /\ cb'[s] = cb[s]
    BY <1>1, <1>10 DEF DeleteBlock, ForgetOld
  <2> QED BY <2>1
<1> QED
  BY <1>1, <1>2, <1>3, <1>4, <1>5, <1>6, <1>7, <1>8, <1>9, <1>10, Effects DEF Effect

\* What a slot let go of is held by another slot, or deleted.
LEMMA NoLeakStep ==
    ASSUME IInv, ObjectGone, NoLeak, NEW t \in Threads, Call(t) \/ Continue(t)
    PROVE  NoLeak'
<1>1. /\ TypeOK /\ Calls /\ InFlight /\ Lifetimes /\ t \in Slots /\ Mine(t) \subseteq Slots
      /\ Effect(t)
  BY Effects DEF IInv, Slots, Mine
<1>2. ASSUME NEW o \in Objects, object'[o] = "live" PROVE \E s \in Slots : ptr'[s] = o
  <2>1. ASSUME NEW y \in Slots, NEW p \in Objects \cup {NULL}, NEW c \in Blocks,
               Adopted(y, p, c), object[o] # "live"
        PROVE  ptr'[y] = o
    BY <1>1, <1>2, <2>1 DEF Adopted, Adopt, TypeOK
  <2>2. CASE object[o] # "live"
    BY <1>1, <1>2, <2>1, <2>2
    DEF Effect, TypeOK, memory, Decrement, DeleteObject, DeleteBlock
  <2>3. CASE object[o] = "live"
    <3>1. PICK s \in Slots : ptr[s] = o
      BY <2>3 DEF NoLeak
    <3>2. o # NULL /\ ~(s = t /\ DeleteBlock(t))
      BY <2>3, <3>1, NamesAssumption DEF ObjectGone, DeleteBlock
    <3> QED BY <3>1, <3>2, PassedOn
  <2> QED BY <2>2, <2>3
<1>3. ASSUME NEW b \in Blocks, block'[b] = "live", managed'[b] # NULL
      PROVE  \E s \in Slots : cb'[s] = b
  <2>1. ASSUME NEW y \in Slots, NEW p \in Objects \cup {NULL}, NEW c \in Blocks,
               Adopted(y, p, c), block[b] # "live" \/ managed[b] = NULL
        PROVE  cb'[y] = b
    BY <1>1, <1>3, <2>1 DEF Adopted, TypeOK
  <2>2. CASE block[b] # "live" \/ managed[b] = NULL
    BY <1>1, <1>3, <2>1, <2>2
    DEF Effect, TypeOK, memory, Decrement, DeleteObject, DeleteBlock
  <2>3. CASE block[b] = "live" /\ managed[b] # NULL
    <3>1. PICK s \in Slots : cb[s] = b
      BY <2>3 DEF NoLeak
    <3>2. ptr[s] # NULL
      BY <2>3, <3>1, NamesAssumption DEF IInv, Referents, Refers
    <3>3. ~(s = t /\ DeleteBlock(t))
      BY <1>1, <1>3, <3>1 DEF DeleteBlock, TypeOK
    <3> QED BY <3>1, <3>2, <3>3, PassedOn
  <2> QED BY <2>2, <2>3
<1> QED BY <1>2, <1>3 DEF NoLeak

\* NoLeak is inductive on top of IInv, together with ObjectGone.
LEMMA LeakInductive ==
    /\ Init => ObjectGone /\ NoLeak
    /\ IInv /\ ObjectGone /\ NoLeak /\ [Next]_vars => (ObjectGone /\ NoLeak)'
<1>1. Init => ObjectGone /\ NoLeak
  BY DEF Init, ObjectGone, NoLeak
<1>2. ASSUME IInv, ObjectGone, NoLeak, NEW t \in Threads, Call(t) \/ Continue(t)
      PROVE  (ObjectGone /\ NoLeak)'
  BY <1>2, ObjectGoneStep, NoLeakStep
<1>3. ASSUME ObjectGone, NoLeak, UNCHANGED vars PROVE (ObjectGone /\ NoLeak)'
  BY <1>3 DEF ObjectGone, NoLeak, vars
<1> QED BY <1>1, <1>2, <1>3 DEF Next

\* The destructor, the assignments and reset() lose no object: what was handed
\* to a SharedPointer and is not deleted is still owned.
THEOREM NothingLost == Spec => []NoLeak
BY Invariance, LeakInductive, PTL DEF Spec

-----------------------------------------------------------------------------
(* Counting owners under a mutex implements shared ownership.              *)

\* The object a slot owns, as the refinement mapping of Ownership has it.
Owns == [s \in Slots |-> IF s \in Threads /\ pc[s] \in Deleting THEN NULL ELSE ptr[s]]

\* A step that leaves every slot with nothing, or with what some slot had, is
\* a transfer.
LEMMA TransferStep ==
    ASSUME object' = object,
           \A s \in Slots : \/ Owns'[s] = NULL
                            \/ \E r \in Slots : Owns'[s] = Owns[r] /\ Owns[r] \in Objects
    PROVE  Ownership!Transfer
<1>1. Owns' \in [Slots -> Ownership!Owned \cup {NULL}]
  BY DEF Ownership!Owned, Owns, Deleting
<1> QED BY <1>1 DEF Ownership!Transfer, Owns, Deleting

\* What the slots own after a step of a thread that deletes nothing.
LEMMA OwnsNext ==
    ASSUME TypeOK, SameDeleters, NEW t \in Threads, pc[t] \notin Deleting
    PROVE  /\ \A s \in Mine(t) : Owns[s] = ptr[s] /\ Owns'[s] = ptr'[s]
           /\ \A s \in Slots : ptr'[s] = ptr[s] => Owns'[s] = Owns[s]
           /\ \A s \in Slots : Owns[s] = NULL \/ Owns[s] \in Objects
<1> USE NamesAssumption
<1>1. \A s \in Mine(t) : s \in Threads => s = t
  BY DEF Mine
<1>2. ASSUME NEW s \in Mine(t) PROVE Owns[s] = ptr[s] /\ Owns'[s] = ptr'[s]
  BY <1>1 DEF Mine, Owns, SameDeleters, Slots
<1>3. ASSUME NEW s \in Slots, ptr'[s] = ptr[s] PROVE Owns'[s] = Owns[s]
  BY <1>3 DEF Owns, SameDeleters
<1>4. ASSUME NEW s \in Slots PROVE Owns[s] = NULL \/ Owns[s] \in Objects
  BY DEF Owns, TypeOK
<1> QED BY <1>2, <1>3, <1>4

\* Moving, copying, exchanging and forgetting what slots hold is a transfer.
LEMMA SlotsTransfer ==
    ASSUME TypeOK, SameDeleters, object' = object, NEW t \in Threads, pc[t] \notin Deleting,
           \/ Still
           \/ \E x, y \in Mine(t) : Moved(x, y) \/ Copied(x, y) \/ Swapped(x, y)
           \/ Forgotten(t)
    PROVE  Ownership!Transfer
<1> SUFFICES ASSUME NEW s \in Slots
             PROVE  \/ Owns'[s] = NULL
                    \/ \E r \in Slots : Owns'[s] = Owns[r] /\ Owns[r] \in Objects
  BY TransferStep
<1>1. /\ \A r \in Mine(t) : Owns[r] = ptr[r] /\ Owns'[r] = ptr'[r]
      /\ \A r \in Slots : ptr'[r] = ptr[r] => Owns'[r] = Owns[r]
      /\ \A r \in Slots : Owns[r] = NULL \/ Owns[r] \in Objects
  BY OwnsNext
<1>2. Mine(t) \subseteq Slots /\ t \in Mine(t)
  BY DEF Mine, Slots
<1>3. \/ ptr'[s] = ptr[s]
      \/ s \in Mine(t) /\ (ptr'[s] = NULL \/ \E r \in Mine(t) : ptr'[s] = ptr[r])
  <2> USE DEF TypeOK
  <2>1. ASSUME NEW x \in Mine(t), NEW y \in Mine(t), Moved(x, y) \/ Copied(x, y) \/ Swapped(x, y)
        PROVE  \/ ptr'[s] = ptr[s]
               \/ ptr'[s] = NULL /\ s = x
               \/ ptr'[s] = ptr[x] /\ s = y
               \/ ptr'[s] = ptr[y] /\ s = x
    BY <1>2, <2>1 DEF Moved, Copied, Swapped
  <2>2. CASE Still \/ Forgotten(t)
    BY <1>2, <2>2 DEF Still, Forgotten
  <2> QED BY <1>2, <2>1, <2>2
<1> QED BY <1>1, <1>2, <1>3

\* Every step of a thread is a step of shared ownership, or changes nothing
\* that it sees.
LEMMA OwnershipStep ==
    ASSUME IInv, NEW t \in Threads, Call(t) \/ Continue(t)
    PROVE  Ownership!Next \/ (Owns' = Owns /\ object' = object)
<1>1. /\ TypeOK /\ CallShape(t) /\ Effect(t) /\ t \in Slots
      /\ Mine(t) \subseteq Slots /\ \A s \in Slots : Refers(s)
  BY Effects DEF IInv, Slots, Calls, Mine, Referents
<1>2. CASE DeleteObject(t)
  <2>1. SameDeleters /\ ptr' = ptr /\ object' = [object EXCEPT ![ptr[t]] = "deleted"]
    BY <1>1, <1>2 DEF DeleteObject, handles, Goto, SameDeleters, Deleting, TypeOK
  <2>2. ptr[t] \in Objects /\ \A s \in Slots : s # t => ptr[s] # ptr[t]
    BY <1>2, DeleterMoves
  <2>3. object[ptr[t]] = "live"
    BY <1>1, <1>2, <2>2, NamesAssumption DEF Refers, DeleteObject
  <2>4. Owns' = Owns
    BY <2>1 DEF Owns, SameDeleters
  <2>5. \A s \in Slots : Owns[s] # ptr[t]
    BY <1>2, <2>2, NamesAssumption DEF Owns, DeleteObject, Deleting
  <2>6. Ownership!Delete(ptr[t])
    BY <2>1, <2>3, <2>4, <2>5 DEF Ownership!Delete, Ownership!Owned, Owns, Deleting
  <2> QED BY <2>2, <2>6 DEF Ownership!Next
<1>3. CASE DeleteBlock(t)
  <2>1. /\ \A s \in Slots : ptr'[s] = IF s = t THEN NULL ELSE ptr[s]
        /\ \A u \in Threads : u # t => pc'[u] = pc[u]
    BY <1>1, <1>3 DEF DeleteBlock, ForgetOld, Goto, TypeOK
  <2>2. Owns[t] = NULL /\ Owns'[t] = NULL
    BY <1>1, <1>3, <2>1 DEF Owns, DeleteBlock, Deleting
  <2>3. \A s \in Slots : Owns'[s] = Owns[s]
    BY <2>1, <2>2 DEF Owns
  <2> QED BY <1>3, <2>3 DEF Owns, DeleteBlock
<1>4. CASE Decrement(t)
  <2>1. /\ \A s \in Slots : s # t => ptr'[s] = ptr[s]
        /\ \A u \in Threads : u # t => pc'[u] = pc[u]
    BY <1>1, <1>4 DEF Decrement, ForgetOld, Goto, TypeOK
  <2>2. Owns'[t] = NULL
    BY <1>1, <1>4 DEF Owns, Decrement, ForgetOld, Goto, TypeOK, Deleting
  <2>3. \A s \in Slots : s # t => Owns'[s] = Owns[s] /\ (Owns[s] = NULL \/ Owns[s] \in Objects)
    BY <1>1, <2>1 DEF Owns, TypeOK
  <2>4. Ownership!Transfer
    BY <1>4, <2>2, <2>3, TransferStep DEF Decrement, memory
  <2> QED BY <2>4 DEF Ownership!Next
<1>5. CASE ~DeleteObject(t) /\ ~DeleteBlock(t) /\ ~Decrement(t)
  <2>1. pc[t] \notin Deleting /\ SameDeleters
    BY <1>1, <1>5, DeleterActs DEF Effect
  <2>2. ASSUME NEW y \in Mine(t), NEW p \in Objects \cup {NULL}, NEW b \in Blocks,
               Adopted(y, p, b)
        PROVE  Ownership!Next
    <3>1. y \in Slots /\ ptr' = [ptr EXCEPT ![y] = p]
      BY <1>1, <2>2 DEF Adopted
    <3>2. \A s \in Slots : Owns'[s] = IF s = y THEN p ELSE Owns[s]
      BY <1>1, <2>1, <2>2, <3>1, OwnsNext DEF TypeOK
    <3>3. CASE p = NULL
      <4>1. object' = object
        BY <1>1, <2>2, <3>3, NamesAssumption DEF Adopted, Adopt, TypeOK
      <4>2. Ownership!Transfer
        BY <1>1, <2>1, <3>2, <3>3, <4>1, OwnsNext, TransferStep
      <4> QED BY <4>2 DEF Ownership!Next
    <3>4. CASE p \in Objects
      <4>1. object[p] = "fresh" /\ object' = [object EXCEPT ![p] = "live"]
        BY <1>1, <2>2, <3>4, NamesAssumption DEF Adopted, Adoptable, Adopt, TypeOK
      <4>2. Owns' = [Owns EXCEPT ![y] = p]
        BY <3>1, <3>2 DEF Owns
      <4>3. Ownership!Adopt(y, p)
        BY <4>1, <4>2 DEF Ownership!Adopt, Owns, Deleting
      <4> QED BY <3>1, <3>4, <4>3 DEF Ownership!Next
    <3> QED BY <3>3, <3>4
  <2>3. ASSUME NEW p \in Objects, Still, object[p] = "fresh",
               object' = [object EXCEPT ![p] = "deleted"]
        PROVE  Ownership!Next
    <3>1. Owns' = Owns
      BY <2>1, <2>3 DEF Owns, SameDeleters, Still
    <3>2. Ownership!Refuse(p)
      BY <2>3, <3>1 DEF Ownership!Refuse, Owns, Deleting
    <3> QED BY <3>2 DEF Ownership!Next
  <2>4. ASSUME object' = object,
               \/ Still
               \/ \E x, y \in Mine(t) : Moved(x, y) \/ Copied(x, y) \/ Swapped(x, y)
               \/ Forgotten(t)
        PROVE  Ownership!Next
    BY <1>1, <2>1, <2>4, SlotsTransfer DEF Ownership!Next
  <2> QED BY <1>1, <1>5, <2>2, <2>3, <2>4 DEF Effect, memory
<1> QED BY <1>2, <1>3, <1>4, <1>5

\* Counting owners under a mutex implements shared ownership: a slot owns what
\* another one passed on or what it adopted, and an object is deleted once,
\* when nobody owns it.  (That it is deleted eventually is left to TLC.)
THEOREM Implements == Spec => Ownership!Spec
<1>1. Init => Ownership!Init
  <2> SUFFICES ASSUME Init PROVE Ownership!Init
    OBVIOUS
  <2>1. Owns = [s \in Slots |-> NULL]
    BY DEF Init, Owns
  <2> QED BY <2>1 DEF Init, Ownership!Init, Owns, Deleting
<1>2. IInv /\ [Next]_vars => [Ownership!Next]_Ownership!vars
  <2> SUFFICES ASSUME IInv, [Next]_vars, ~(Owns' = Owns /\ object' = object)
               PROVE  Ownership!Next
    BY DEF Ownership!vars, Owns, Deleting
  <2>1. CASE UNCHANGED vars
    BY <2>1 DEF vars, Owns
  <2> QED BY <2>1, OwnershipStep DEF Next
<1> QED BY <1>1, <1>2, Invariance, PTL DEF Spec, Ownership!Spec
=============================================================================
