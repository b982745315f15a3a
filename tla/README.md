# Verification of learningcpp

The repository is a collection: notes, exercises and small programs written
while reading learncpp.com, C++ Software Design, C++17 Details, cracked.io,
LeetCode, papers, and Computer Networking: A Top-Down Approach. There is no one
program. What it does have is a handful of small programs with state that is
easy to get wrong: a thread-safe shared pointer, a matching engine, two servers
over an event loop, a container with manual storage, a command history. It
also has many algorithms with an answer that can be checked. This project models
those in TLA+, checks the models with TLC and proves theorems
about them with TLAPS. All paths below are relative to `src/`.

## 1. Inventory

### Shared pointer: `get_cracked/cpp/memory_and_pointers/shared_ptr.cpp`

*State.* Each `SharedPointer` has `ptr_` and `cb_`; a control block has a count
and a mutex, and is shared by all owners of one object.
*Operations.* Three kinds of constructor, copy and move assignment, destructor,
`reset`, `get_count`, and the private `release`, `copy_and_increment`, `steal`.
*Interaction.* Threads, only through the control block.
*Hard.* `release` decides under the lock and deletes after it;
`copy_and_increment` copies the pointers before it takes the lock; copy
assignment and reset destroy a temporary, move assignment releases first and
steals afterwards; the constructor may throw after taking an object over.
*Correct when* the count is the number of owners; an object is deleted exactly
once, when nobody owns it, and then it is deleted; nothing is used after that.

### Limit order book: `get_cracked/coding/orderbook.cpp`

*State.* Two maps from price to a queue of orders, an index from id to
metadata, a priority counter.
*Operations.* `AddOrder`, `CancelOrder`, and the private `match`.
*Interaction.* One caller; the trades are the return value.
*Hard.* Cancellation only marks the index; matching discards marked orders when
they reach the front. The index is looked up with `operator[]`, which would
create what it does not find. Aggressor and price are derived from priorities.
*Correct when* the trades are those of price-time priority, index and queues
agree, the book is uncrossed between calls, and quantity is conserved.

### Echo servers: `beej/select.c`, `beej/poll.c`, client `beej/client.c`

*State.* The watched descriptors (a set and its maximum, or an array and a
count), the result of the last `select`/`poll`, the position of the scan.
*Operations.* Wait, accept, receive, echo, close.
*Interaction.* Clients over TCP: messages in pieces, early closes, resets.
*Hard.* Readiness is computed before the scan and used during it, while the scan
itself accepts and closes; entries are removed by swapping; `revents` of new
entries is never initialised; SIGPIPE.
*Correct when* exactly the open connections are watched, no call blocks on a
silent client, every piece is echoed once and to its sender, and every client
that sends is answered.

### Vector: `get_cracked/coding/vector.cpp`

*State.* `first_`, `last_`, `end_` and raw storage.
*Operations.* Constructors, assignments, destructor, `reserve`, `push_back`,
`pop_back`, `clear`, `at`.
*Hard.* Element copies may throw in the middle of a loop; moved-from vectors
have no storage; `push_back` of an element of the vector itself.
*Correct when* storage is never shared, freed twice or lost, and the cells that
hold elements are those between `first_` and `last_`.

### Account manager: `get_cracked/design_patterns/command/main.cpp`

*State.* Balances, and the history of executed commands.
*Operations.* `Execute`, `Rollback`, and `Debit`/`Credit` of an account.
*Hard.* Undoing a credit is a debit, which may fail; commands execute before
they are remembered; accounts can be used behind the manager's back.
*Correct when* a rollback always goes through and restores the balances.

### Owning pointers: `unique_ptr.cpp`, `make_unique.cpp`, `learncpp/22_.../move.cpp`

*State.* One pointer each. *Operations.* Construction, move, swap, `release`,
`reset` and destruction; `Auto_ptr4` can be copied, `getcracked::unique_ptr`
throws when it is.
*Hard.* `Auto_ptr4` deletes before it allocates, and both may throw in between.
*Correct when* every object has one owner and nothing dangles.

### Connection factory: `get_cracked/design_patterns/factory/main.cpp`

*State.* A counter of connections. *Interaction.* Connections call back the
factory when they are destroyed.
*Hard.* The counter is incremented before an allocation that may throw, and
connections can outlive the factory that their callback refers to.
*Correct when* the counter is the number of connections alive.

### Design pattern examples: `get_cracked/design_patterns/`, `coding/slicing.cpp`

*State.* The dialog, its fields and its button (mediator); subscribers, the
created engine, shared particle types, parts of a request, the one logger, the
chain of exporters, the strategy, the layers of a mixin.
*Hard.* What a call does depends on all earlier ones: a button that is enabled
once, a key made of two texts, a builder that is used again.
*Correct when* each call has the effect its history promises.

### One-shot and datagram sockets: `beej/`, `understanding_linux_kernel/networking/target.c`

*State.* The address list, one or two descriptors, a buffer. *Interaction.* One
TCP client, or senders of datagrams.
*Hard.* Every call may fail; the server reads until the buffer is full or the
stream ends, which a client that waits for the answer never brings about;
`target.c` is two processes and a lossy network.
*Correct when* no call is made on a descriptor in the wrong state, what is sent
back is what came in, and the server ends if its peer lets it.

### Algorithms and structures: `get_cracked/coding/`, `leetcode/`

The Kac ring, the segment tree, the game of tic-tac-toe and the price-volume
order book keep state between calls; the LeetCode solutions and the container
functions of `stl_datastructures/` are functions of their input.
*Hard.* Indices and widths (a negative step in `size_t`, `curr + 1` at the
greatest `int`, `size() - 1` of an empty vector), ties in a heap, an order of
passes; the order book keeps iterators into a copy of a list.
*Correct when* they give what a direct account of the history, or of the
problem, gives.

### Everything else

| Part | Why it is not modelled |
|---|---|
| learncpp chapters | demonstrations of language features whose output is fixed; chapter 22's owning pointer is modelled |
| Rest of `stl_datastructures/` | `main` functions that call one library function after another |
| PIMPL example | forwards two calls |
| L1 latency benchmark | measures time |
| Notes, pictures, kernel examples | no program, or the behaviour is the kernel's |

`PROJECT.json` lists the same components with their files, and under `hazards`
each place where the code above is hard to test, with the properties that cover
it or the reason why none does.

## 2. Modules

| Module | Models | Composes |
|---|---|---|
| `SharedOwnership` | abstract: who owns what, without counts | |
| `SharedPointer` | the shared pointer under threads | implements `SharedOwnership` |
| `SharedPointerProofs` | theorems about it | extends `SharedPointer` |
| `PriceTimeBook` | abstract: a set of live orders | |
| `Orderbook` | the order book, one step per loop iteration | implements `PriceTimeBook` |
| `OrderbookProofs` | theorems about it, and that it implements `PriceTimeBook` | extends `Orderbook` |
| `EchoNetwork` | `client.c`; external: TCP and the kernel | |
| `EchoSelect`, `EchoPoll` | the two servers | each extends `EchoNetwork` |
| `EchoNetworkProofs` | lemmas about clients, TCP and system calls | extends `EchoNetwork` |
| `EchoSelectProofs`, `EchoPollProofs` | theorems about each server | extend the server and `EchoNetworkProofs` |
| `CustomVector`, `CustomVectorProofs` | the vector and its storage, and theorems | |
| `AccountManager` | accounts, commands, history | |
| `AccountManagerProofs` | theorems about it | extends `AccountManager` |
| `OwningPointers` | `unique_ptr`, `Auto_ptr4` | |
| `ConnectionFactory` | the factory and its connections | |
| `SocketPrograms` | the socket examples as scripts of calls; external: their peers | |
| `CallHistory` | the calls on an object and what they printed | |
| `ObjectPatterns`, `DispatchPatterns` | the pattern examples | extend `CallHistory` |
| `KacRing`, `SegmentTree`, `TicTacToe`, `PriceVolumeBook` | the structures | |
| `SmallPrograms` | one of the programs or structures above runs | composes `OwningPointers` to `PriceVolumeBook` |
| `SmallProgramsProofs` | theorems about each of them | extends `SmallPrograms` |
| `SequenceExercises`, `ScheduleExercises`, `ContainerExercises` | the exercises, as functions | |
| `VectorTests` | the tests in `main` of `vector.cpp` | extends `CustomVector` |
| `Exercises` | one exercise or test is run | composes the exercises and the tests |
| `MC*` | model values and symmetry for TLC | extend what they check |

Definitions named as a mutant in a comment (`Unguarded`, `KeptOld`, ...) are
plausible mistakes. No specification uses them; each is put in the place of the
definition after it to see that a property notices.

### Shared pointer

A member function that touches a control block is several steps: take the
mutex, load the count, store it and unlock, and for the last owner delete the
object and delete the block. Load and store are separate so that the mutex
matters. A member that touches only its caller's variables is one step, except
that `release` has its exchange in the first step, where other threads can see
that the variable is empty. The locals `tmp` (copy assignment, reset) and
`old_ptr`/`old_cb` (release) are never alive together, and are one slot per
thread: after the swap the slot *is* the temporary being destroyed.

The caller's contract is that of every C++ object: two calls in progress may
both read a variable, but a variable one of them writes is not touched by the
other. `MayRead` and `MayWrite` express it. Self-assignment returns at once and
is no step. Of a pointer handed to a constructor the model assumes that nobody
owns it yet; a second owner of a raw pointer is an error of the caller.

`NewBlock` gives `SharedPointer(nullptr)` a control block, as the code does.
`release` returns at a null pointer before it looks at the block, so that block
is never freed and its count only grows. Nothing in the repository says
otherwise; the properties say "of a block that manages an object" instead.

### Order book

`AddOrder` rests the order and sets `matching`; then each iteration of
`match`'s loops is a step: discard a canceled bid, discard a canceled ask, fill,
leave the loops. The book is only observed between calls; the steps are there
to check the invariants inside the loops, and that they end. `incoming` is a
history variable.

`PriceTimeBook` removes a canceled order at once. `Ideal` maps the live orders
to the resting ones that are not marked. An id stays `taken` after its order is
canceled, as in the code, where the entry is never erased.

### Echo servers

`EchoNetwork` is half the client program and half an external model of what the
system calls do: the backlog, descriptors (the lowest free one), and per
connection the pieces in the network, with the server, and echoed but not yet
received. TCP may deliver a message in any split. A client that closes before it
has received everything resets the connection; a server's `send` to a closed
client causes a reset; `recv` or `send` report a reset once as an error; a
`send` after that kills the process with SIGPIPE, which neither server
handles.

The servers are their loops: one step for the wait, one per system call. In
`EchoPoll` the array starts with any `revents`, accepting a connection leaves
the one it finds, and `poll` writes only the entries below the count. When the
scan meets `POLLIN` on a connection without data, `Receive` is not enabled:
`recv` blocks, and the server has no other step. Setup calls that fail end the
program before the loop and are left out, as are failures of `accept` (the model
has a descriptor for every client) and `select`/`poll`.

### Vector

The storage of `operator new` is a sequence of cells, raw until an element is
constructed there. `last` and `end` are distances from `first`. Whether copies
throw is a property of the element type, chosen in `Init`; if they may, each
loop over elements may stop after any number. Assignment to a vector without
storage returns at once in the code and is no step. `abandoned` is a history
variable.

### Account manager

Execute and Rollback with the two commands; `Unrecorded` is a change of a
balance that the history does not know of, by a direct call or because
`push_back` threw after the command was executed. `snapshots` and `bypassed` are
history variables. `Throws` are the calls that change nothing.

### Owning pointers

The heap is what was ever allocated: free, live or deleted, so that an address
that is used after its deletion is visible. `thrown` remembers which copies have
thrown; `outcome` is "undefined" once a deleted object was used, and then
nothing more happens. An empty `Auto_ptr4` must not be copied, and copying one
is undefined here as it is in the code.

### Connection factory

Two users share the module: `main` of the file, which keeps its connections in
a vector declared after the factory, and a library user who closes when it
likes, catches what `CreateConn` throws and may destroy the factory first. What
can go wrong needs the second; the first shows that the file's own program is
safe.

### Socket programs

A program is its sequence of calls. A record per call says whether the program
tests it for any error or for -1 only (`getaddrinfo` returns other codes) and
whether it closes the socket before it exits; `Fails`, `FailsUnnoticed` and
`Undefined` are the three ways a call can go wrong. Data is counted in units of
which the buffer holds `BufferSize`; units of the uninitialised buffer are
`Garbage`, and `send_recv.c` sends them when it sends its whole buffer back.

### Patterns

`CallHistory` keeps the calls and what each printed. A pattern's object is a
record of its fields; an action is one public operation with the calls it
passes on. A promise states the effect of the i-th call from the calls before
it, without the object: so it notices state that leaks from one call to another.

### Structures

A structure is modelled with what it was asked to do, next to what it keeps: the
true number of steps of the ring next to `curr_step_`, the cells of each player
next to the counters, the orders placed next to the volumes, and what was
inserted last at each index next to the tree. The properties relate the two. Of
the volume book, whose first match uses an iterator of a destroyed list,
everything is modelled up to there.

A node of the segment tree is known by the range it is for, since every call
computes the ranges on its way from the root, and a null pointer is a range
without a node: so the tree is a function from ranges to values, and `insert_`
and `query_` are functions on ranges. `grow` puts the old root to the left below
a new one, which leaves each node its range only if the left half of the doubled
range is the old one. That is an arithmetic fact about `low + (high - low) / 2`,
and `RootsHalves` proves it for every size. Values are sequences and combining is
concatenation, so that the order of operands shows.

### Exercises

Each exercise is the function its loop computes, written as a fold with the
variables of the loop as accumulator, followed by what the problem asks, stated
without the algorithm. Where a heap may break a tie either way, all the
results are kept. `VectorTests` runs each test of `vector.cpp` as a script of
calls on `CustomVector`, with its assertions at their places; its `operator new`
returns the least free address, so each test is one behaviour.

## 3. Runs

| Run | Instance | Question |
|---|---|---|
| `shared_pointer` | 2 threads, 3 variables, 2 objects, 2 blocks, `MaxCount` 5 | safety in all interleavings |
| `shared_pointer_live` | the same with 1 object and 1 block | is everything reclaimed, and is it shared ownership? |
| `orderbook` | 3 ids, 2 prices, quantities 0 to 2, 4 accepted orders | is it price-time priority? |
| `echo_select` | 2 clients, 3 pieces, 2 descriptors | is everyone served, and only with their own data? |
| `echo_poll` | the same, array of 3 | the same, for removal by swapping |
| `echo_poll_silent` | 2 pieces | can a silent client block the server? (yes) |
| `echo_poll_limit` | array of 2 | is the array bounded? (no) |
| `vector` | 2 vectors, 3 buffers, 2 values, capacity 4 | storage and lifetimes |
| `vector_lifetimes` | 4 buffers | do lifetimes balance when copies throw? (no) |
| `account_manager` | 2 accounts, amounts 0, 1, 3, opening 2, history 3 | does rollback restore? |
| `small_programs` | buffer 3, request 4, 2 sources; 3 pointers, 3 objects; 5 connections, 6 attempts; 5 calls; rings of 4 balls, a 3 by 3 game, 3 orders, trees of size 3 grown to 6 | do the small programs do what they promise? |
| `exercises` | sequences of up to 3 to 7 elements; the tests of the vector | are the algorithms right? |

**shared_pointer.** `CountIsSharers`: the count is the number of slots that own
a share. `NoUseAfterFree`: no slot refers to anything deleted, hence no double
delete. `NoLeak`: what is not deleted is still held. `CountReported`:
`get_count` returns the number of owners when it unlocks. `IInv` is the
inductive invariant of the proofs. Two threads suffice for a lost update and for
a release racing a copy; three variables let each thread hold one and share a
third; with two objects a variable can be assigned from one object to another;
an object has at most five owners here (the variables and the two temporaries),
so `MaxCount` 5 stops only copies of null pointers.

**shared_pointer_live.** `EventuallyReclaimed`, and `ImplementsOwnership`, the
refinement with its liveness. No symmetry is used with liveness.

**orderbook.** Three ids and four orders: an id is used again after it was
filled, and refused after it was canceled. Two prices suffice for a level of
canceled orders in front of a better or a worse one, and for a trade at a price
other than the aggressor's. Quantity 0, which nothing rejects, trades a size of
0 and still leaves the book. `UncrossedBetweenCalls`, `IndexAgrees`,
`ArrivalOrder`, `AggressorIsIncoming`, `QuantityConserved` and the refinement
`ImplementsPriceTime`, which includes that every due trade is made and that
nothing canceled comes back. A run may stop when all ids are used: no deadlock
check.

**echo_select.** `WatchesWhatIsOpen`, `NeverBlocks` (what `readfds` says is still
true when the scan gets there), `EchoConserved`, `DiesOnlyOfEarlyClose` (only a
client that closed with part of its echo outstanding leads to SIGPIPE, and one
does: the process dies in this model) and `EveryClientAnswered`. Two clients are
one that is served and one that disturbs; three pieces are what it takes to
receive one, reset on the second and be killed on the third. The safety part
was also checked once with three clients. When all clients are done the server
waits for ever: no deadlock check.

**echo_poll.** The same hazards, and removal by swapping: `WatchesWhatIsOpen`,
and `WaitingEnds` where all clients go through to their close.
**echo_poll_silent** checks the same `WaitingEnds` where clients may stay silent
and finds it violated: a leftover `POLLIN` makes the server call `recv` on a
connection that has sent nothing (finding at `poll.c:110`).
**echo_poll_limit** finds the array overrun (finding at `poll.c:106`): the test
against `sizeof(pfds)` compares entries with bytes.

**vector.** `StorageIndependent`, `OnlyCopyAssignLeaks` (an equivalence: copy
assignment always leaks what it replaces, nothing else leaks),
`LifetimesBalanceWithoutThrows`, `OthersUntouched`. Capacity 4 is two doublings;
three buffers are one per vector and one to grow into.
**vector_lifetimes** checks the sentence of the test, "Construction,
reallocation, removal, and scope exit balance lifetimes" (`vector.cpp:236`),
where copies may throw, and finds it violated (finding at `vector.cpp:144`).

**account_manager.** Amounts smaller and larger than the opening balance, and 0;
a history of three nests two rollbacks in executes.

**small_programs.** `SocketsInOrder`: no call finds its descriptor or address
list in the wrong state, except after a `getaddrinfo` whose failure `select.c`
and `poll.c` do not notice; programs that end have closed what they opened; what
is sent back is what came in, and one datagram is answered at most once.
`ServersEnd`: a server ends unless it waits for something only its peer can do.
A request one unit longer than the buffer is in the model, one as long, and
shorter ones. `OwnedOnce`: one owner for each object; a pointer dangles only
after a copy assignment of `Auto_ptr4` threw, an object is lost only after a
copy construction threw, `unique_ptr` does neither. Three pointers and three
objects let a swap, a move and a copy meet. `SlotsAccounted`: the counter is the
number of connections alive plus those whose construction threw; six attempts
exceed the limit of the code, five. `PromisesKept`: five calls leave room for
two settings, a clearing or a withdrawal, and a use. `StructuresAgree`: the ring
has the colour of the balls after all the steps made, forward or back, as long
as a step back that wraps `size_t` meets a period that divides its range; the
game's winner has a line, and whoever has a line first wins; the volume book's
totals are those of its orders until the first match; the segment tree answers
each range from the latest values, in order. Here `size_t` has 64 values, which
the periods 2, 4 and 8 divide and 6 does not, and a step is -7, -1, 0, 5 or 31,
so that steps pass the period and wrap. Three orders at two prices are two that
rest and one that meets them; quantities are -1, 0, 1 and 2. Trees of size 1 to
3 grow to 6 at most, so that even and odd ranges are halved before and after.

**exercises.** `TestsPass`: the assertions of the vector's tests hold, each where
its test comes to it. `AnswersRight` compares each solution with what the problem
asks on every input up to a bound: all words of up to six letters over two, all
trees of up to three levels with a negative value among three, all sudoku
positions of up to three entries of two digits in nine cells that share rows,
columns and boxes in every way.

The programs and structures stop at their bounds, a script at its end and an
exercise after its answer: no deadlock check, in either run.

### Fairness

- Shared pointer: a thread inside a member function is eventually scheduled
  again (`WF` of its next step). No thread need call anything, and nothing is
  assumed of the order in which a mutex is granted.
- Order book: a call of `AddOrder` runs to its end.
- Echo servers: the server process and the network make progress, and a client
  in `recv` receives what has arrived. No client need connect, send or close;
  `BusySpec` adds that for the one run that says so.
- Socket programs: the server process makes its next call, and a call it is in
  returns when it can (`WF` of `Step("server")` and of `Serve`). Nothing is
  assumed of its peers.

## 4. Proofs

### Shared pointer (`SharedPointerProofs`)

For any finite sets of threads and variables, any objects and blocks, any bound:

| Theorem | States |
|---|---|
| `Invariance` | `Spec => []IInv` |
| `TypeCorrect` | `Spec => []TypeOK`: in particular no count goes below 0 |
| `CountCorrect` | `Spec => []CountIsSharers` |
| `Safe` | `Spec => []NoUseAfterFree` |
| `ReportCorrect` | `Spec => CountReported` |
| `NothingLost` | `Spec => []NoLeak` |
| `Implements` | `Spec => Ownership!Spec`, the safety part of `ImplementsOwnership` |

They assume `NamesAssumption` (threads, variables and `NULL` are different),
`FinitenessAssumption` (the owners of a block can be counted) and
`BoundAssumption`.

*The invariant.* None of the properties is inductive. `CountIsSharers` is kept by
an increment only if the count the thread loaded is still the count, which is
`Sections`: in its critical section a thread holds the mutex of its block, and
what it loaded is current. That needs to know which block a call is in the
middle of, and that no other thread changes the variables of the call: `Calls`
(the steps each member can be at), `Contract` (what callers promise, while calls
are in progress), `InFlight` (what the slots of a call hold). A deletion is safe
because of `SoleDeleter`: nobody else refers to the block that is being deleted.
That holds when the count reaches zero because the count is the number of owners
*and* whoever has copied the pointers but not yet counted itself copied them
from a variable which is an owner, and which the contract keeps alive
(`LastOwner`). `Referents` and `Management` tie pointers to blocks and objects.

*The argument.* Each conjunct has a lemma `...Step` with one step per action.
`CountStep` reduces every action to one of a few ways the set of owners can
change (`CountKept`, `CountMoved`, `CountAdded`, `CountDropped`, `CountFirst`).
`NoLeak` and the refinement are proved above `IInv` from `Effects`, which says
what each step does to the slots: nothing, a move, a copy, an exchange, an
adoption, a decrement or a deletion.

### Order book (`OrderbookProofs`)

For any ids, integer prices and quantities and any number of orders, from
`OrderAssumption`:

| Theorem | States |
|---|---|
| `BookTypeCorrect` | `Spec => []TypeOK` |
| `IndexAndLevelsAgree` | `Spec => []IndexAgrees` |
| `QueuesKeepArrivalOrder` | `Spec => []ArrivalOrder` |
| `BookIsUncrossed` | `Spec => []UncrossedBetweenCalls` |
| `TradesAreOfTheIncomingOrder` | `Spec => []AggressorIsIncoming` |
| `QuantityIsConserved` | `Spec => []QuantityConserved` |
| `TradesByPriceAndTime` | `Spec => Ideal!Spec`, the safety part of `ImplementsPriceTime` |

*The invariant.* Inside `match` the book is crossed and may hold an empty level,
so what holds between calls is not inductive. `BookIInv` says what is left of it
then: only the best levels can be empty (`EmptyIsBest`), and a bid and an ask
cross only if the one or the other level holds the incoming order and nothing
else (`OnlyIncomingCrosses`), which is the newest in the index. So one of the two
fronts that meet is the incoming order, and the other one, which is older, gives
the price. `Agree` ties levels and index position by position: each queued order
is indexed under its level (`Placed`), queues are in order of priority
(`Queued`), no id is on both sides (`OneSide`), and an entry that rests nowhere is
canceled; so no lookup of `match` makes an entry.

*The argument.* Each operation on levels has a lemma that says what it leaves
where (`PushBackIs`, `PopFrontIs`, `FillFrontIs`, `EraseIs`); each action a lemma
`...Keeps`. That a best price exists, and that it is the best, is proved from the
finiteness of the levels (`Foremost`, `BestIsBest`).

*The refinement.* The same operations are described again by what they do to the
set of resting orders (`PushResting` ... `EraseResting`) and, with the canceled
ones left out, to that of live orders. Discarding a canceled order, erasing levels
and returning are stutters; a fill is the trade of the abstract book, which needs
that both orders are the first of their sides in price and time (`FrontIsBefore`)
and that no two arrivals are equal (`PrioritiesDiffer`).

*Quantity.* `Conserved` says of the order added last, inside `match` too, that it
rests with what is left after the trades made since, or, once it is filled, that
these are what it asked for. Every trade since is its own, because one of the
two orders of a fill is the incoming one (`BookIInv`). The sum of the trades is
a fold, which is not computed by induction here but characterised: it is the
value of any function on subsets of the trades that gives 0 to none and may leave
out any one (`SumExists`, `TotalIs`), so a trade more adds its size
(`TotalGrows`).

### Account manager (`AccountManagerProofs`)

For all accounts, amounts and bounds: `Invariance` (`[]IInv`), `RollbackWorks`
(`[]RollbackAlwaysWorks`), `RollbackRestoresAll` (`RollbackRestores`) and
`NoOverdraft` (`[]NeverOverdrawn`), from `AccountAssumption`. The invariant is
that the snapshots replay into the balances: each command could be executed on
its snapshot and led to the next one, the last to the balances. So the latest
command can be undone, although what was executed and rolled back in between is
forgotten.

### Vector (`CustomVectorProofs`)

For any vectors, buffers and values, from `VectorAssumption`:
`CopiesAreIndependent` (`[]StorageIndependent`), `LeaksAreCopyAssignments`
(`[]OnlyCopyAssignLeaks`), `LifetimesAreBalanced`
(`[]LifetimesBalanceWithoutThrows`), `OthersStay` (`OthersUntouched`) and
`VectorTypes` (`[]TypeOK`).

*The invariant.* `VecIInv` adds to the first two properties what they say
nothing of: a vector outside its lifetime, or without storage, is as if moved
from, and abandoned buffers stay allocated (so that `operator new` returns none
of them). Then a fresh buffer has no owner, which every action that allocates
needs. The balance is proved above it, buffer by buffer (`Balanced`): a buffer
has one owner whose `last` says which cells hold elements, or none and then no
cell does. `UntouchedKeeps` disposes of the buffers a step leaves alone, and
`WithinStorageBalances`, `RelocateBalances`, `CopyFromBalances` and
`StealBalances` are the four ways a step can change one.

### Echo servers (`EchoNetworkProofs`, `EchoSelectProofs`, `EchoPollProofs`)

For any clients, any number of pieces and any descriptors above the listening
one, from `NetworkAssumption`, and for the poll server any array, from
`PollAssumption`:

| Theorem | States |
|---|---|
| `SelectTypes`, `PollTypes` | `Spec => []TypeOK` of each server |
| `WatchesAllOpen`, `ArrayInStep` | `Spec => []WatchesWhatIsOpen` of each server |
| `LoopNeverBlocks` | `Spec => []NeverBlocks` of the select server |
| `NothingIsLost` | `Spec => []EchoConserved` of the select server |
| `NothingIsLostByPoll` | the poll server loses and invents no piece either, which no run states |
| `DiesOnlyOfThat`, `PollDiesOnlyOfThat` | `Spec => []DiesOnlyOfEarlyClose`; for the poll server no run states it |

*The network.* `NetIInv` is common to both: types, `OneConnection` (a client
waits once in the listen queue or is at one descriptor) and `AnsweredFirst`
(only a client that was answered and closed can meet a reset). `Pieces` counts, per
client, what is in the network, with the server and echoed to it: together that
is the message, while the client waits on an open connection, and never more.
What the server holds between `recv` and `send` is no variable of the network,
so `Pieces` takes it as its parameter, and `PiecesMove` says that a step which
moves pieces from one place to the next keeps it. Each action of a client, of
TCP and each system call has a lemma `...KeepsNetwork`; what is left to a server
is that it calls them as they must be called. The bounds of `TypeOK` (no buffer
holds more than a message) rest on `Pieces`.

*Select.* `NeverBlocks` is not inductive: data received on one descriptor could
be missing on another with the same peer, and an accepted descriptor could appear
in `readfds`. `OneConnection` excludes the first, and `Ahead` says that
`readfds` holds nothing above `max` and that, during a send, all but the
descriptor being served are still readable. The proof of each action shows what
stays readable (`QuietKeeps` for clients and network, `ServedKeepsAhead` for the
loop). A process dies with pieces in hand, on a connection that was reset, and
by `AnsweredFirst` the client of one that it had answered.

*Poll.* `WatchesWhatIsOpen` equates two sets, and removal by swapping needs more:
the entries after the first are the open connections, each once (`InStep`). `i`
stays on the entry into which the last one was swapped (`RemoveKeeps`). The loop
acts on leftover `revents`, so the proof assumes nothing of those: `recv` without
data has no step in the model, and an `accept` that it makes is backed by
`Arrived`, since `poll` always writes the entry of the listening socket.

### Small programs (`SmallProgramsProofs`)

| Theorem | States | From |
|---|---|---|
| `ObjectsAreOwnedOnce` | `Spec => []OwnedOnce` | `PointerAssumption` |
| `SlotsAreAccounted` | `Spec => []SlotsAccounted` | `FactoryAssumption` |
| `SocketsKeepOrder` | `Spec => []SocketsInOrder` | `SocketAssumption` |
| `PromisesAreKept` | `Spec => []PromisesKept` | `ParticleAssumption`, `MessageAssumption` |
| `StructuresAreRight` | `Spec => []StructuresAgree` | `RingAssumption`, `BoardAssumption`, `BookAssumption`, `TreeAssumption` |
| `RingRepeats` | after a period every ball has its colour back | |

`Spec` is that of `SmallPrograms`, where one of the programs runs, for any
pointers, objects, connections, sizes of the buffer, texts, displays, particles,
messages, rings, words, boards, orders, trees and lengths of a history.
`ParticleAssumption` and `MessageAssumption` say that the texts of particles and
messages are sequences of strings; the assumptions about the structures say that
bounds and sizes are numbers, that a ring, a board and a tree have a place, and
that the values of a tree are sequences.

*Owning pointers.* `OwnedOnce` with the type invariant is inductive: a new
object is a free one, and a pointer or a caller holds only objects that are live
or deleted (`NewIsFree`), so it has no owner yet; what makes a pointer dangle, or
ends in undefined behaviour, is an action of `Auto_ptr4` alone (`DanglesInAuto`,
`UndefKeeps`).

*Connection factory.* The invariant adds that `main`, as long as it asks, has
every connection it was given (`MainKeepsAll`).

*Sockets.* Each program is a path through its calls. A `Stage` is what a process
should hold before a call: its address list, its two descriptors, and the phase
of the exchange it is in: about to receive ("in"), about to send back ("echo"),
holding a datagram to print or send ("held") or done ("over"). `Takes` says from which stage to
which a call that succeeds leads, and one lemma per program exhibits the stages
that its calls connect (`SendRecvPath`, `GetAddrInfoPath`, ...): that is the
check that the program makes its calls in order, with nothing about failures.
Failures are then argued once for all programs: a process that runs is at the
stage of its place in the script (`OnPaths`), a call that fails and is tested ends
the process with what the record of that call says is closed, and only a
`getaddrinfo` whose failure goes unnoticed leaves the path. `TrafficOK` relates
buffer, stream and answers phase by phase (`Receiving`, `SendingBack`,
`Holding`): what fills the buffer is the beginning of the request, what is sent
back is the beginning of what filled it, and a datagram in hand has no answer
yet.

*Patterns.* A promise is about the calls made so far, an action reads the object:
the invariant says, for each pattern, what the object remembers of those calls
(`DialogRemembers`, `ChainRemembers`, ...). One lemma per operation
(`...Keeps...`) shows that its effect is the promised one and that the object
then remembers what the next call needs; a promise kept once stays kept, since
later calls change nothing before them (`ObjectPromiseStays`,
`CallPromiseStays`). Three facts are shared by many of these: the latest call of
a kind is the greatest position of one (`Greatest`, `LatestNew`,
`LatestOther`), which needs that a set of naturals has a least member; the
sequence that an object keeps lists the calls of one kind in order (`Listed`,
`Places`); and the place of the first exporter that does not forward is that of
the last filter (`FirstStop`). `ParticlesRemember` has the types shared as long
as no colour holds a comma: then the first comma of a key ends the colour
(`ColorEndsAtComma`), so different types have different keys (`KeysDiffer`), and
entries are as many as types.

*Ring.* What is proved of `color()` is that it is the sum of the balls where the
steps have brought them. A ball at a position after t steps is the one that began
t positions before, turned once for every marked edge it crossed (`BallFlips`,
`OnceRound`); a lap crosses every edge once, so two laps turn each ball an even
number of times (`RingRepeats`), which is why one saved period is enough. The
sums are folds, characterised as in the order book by what a position more or
less adds, and rearranged by the shift of positions. `curr_step_` is the true number of
steps, modulo the period: that holds for a step back only if it does not wrap, or
if the period divides the range of `size_t`, and the invariant says so.

*Game.* The invariant is that every counter is the number of cells of its line
that the player has (`CountsOf`). A line has as many cells as the board is wide,
so a counter reaches that exactly when the line is full.

*Volume book.* The volumes stay the sums of what was placed (`OneMorePlaced`)
because until the first match all orders rest on one side; the invariant
has that no two orders of different sides rest.

*Segment tree.* `TreeIInv`: a node holds the values of its range, combined in
order, and a range the tree could have a node for, and has none for, holds
only identities (`Holds`). A query treats what lies outside the range asked for
as identities (`AskedFor`), so that what each node returns is again the
combination of a range. `insert_` and `query_` are functions by recursion on
ranges; that they satisfy their equations (`InsertIs`, `QueryIs`), and that
a range is right if its halves are (`Descent`), is proved by the
length of the range. `CombinedSplit`, the halves of a range side by side, is where
combining has to be associative, and it need not be commutative. An insert writes
only above its index (`MadeRight`), and what is below the other halves is not
touched (`Siblings`). After `grow` the right half has no nodes and no values.

*Induction.* The library's induction theorems take an operator, which the provers
cannot instantiate. Where an induction is over a set that can be named (step
counts, positions, lengths of ranges), the proofs use instead that there is no least
counterexample (`Smallest`), or that a set with 0 and the successor of each member
has every natural (`AllNaturals`).

### Only model-checked

- All liveness: `EventuallyReclaimed`, the fairness of `ImplementsOwnership` and
  `ImplementsPriceTime`, `EveryClientAnswered`, `WaitingEnds`, `ServersEnd`. The proof system
  has no rules for fairness and ENABLED.
- `AnswersRight`: the exercises compute by folds and recursion over data of any
  shape (words, lists, trees, heaps with ties), each of which would need an
  induction of its own, and they share modules that declare RECURSIVE operators.
- `TestsPass`: each test is one fixed script, so TLC's run of it says everything.
- The properties of the three runs that find a violation are false.

## 5. Not modelled

Of the parts that are: object contents and dereferences; `operator new` failing
in the order book; the kernel's limits on descriptors; `send` accepting less
than it is given in the echo servers; bytes (one message is at most three
pieces, so `msg[rcvd]` at exactly 1024 bytes, `select.c:143` and `poll.c:128`,
is a listed hazard without a property); negative quantities; formatting and
output; `build()` and the constructor from a vector of the segment tree, which
nothing instantiates; `Auto_ptr1` to `Auto_ptr3`; the modulus of `2484.cpp`,
which no input within the bounds reaches; floating-point rounding of the ring's
colour, which is counted in whole balls here.

Of the rest of the repository: the learncpp chapters print fixed lines to show a
language feature; nothing in them depends on an order, an input or a failure, so
that a model would restate them. The remaining `main` functions of
`stl_datastructures/` call the standard library in a row. The benchmark measures
time. The notes describe programs that are not here.

## 6. Plan

The order was by how much of the behaviour that is hard to test it covers:
shared pointer, order book, echo servers, vector and account manager first, each
in a module of its own; then the small programs, which share the two composing
modules `SmallPrograms` and `Exercises`.

Every safety property the runs check is proved, but the two of `Exercises`. What
is left is to prove single exercises right for every input. Those that compute
over ranges, like `647.cpp`, could follow the pattern of the segment tree, in
modules that declare nothing RECURSIVE.
