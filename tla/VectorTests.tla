----------------------------- MODULE VectorTests -----------------------------
(***************************************************************************)
(* The tests of custom::vector, main of get_cracked/coding/vector.cpp, as  *)
(* scripts of calls and assertions that are run on the model of the        *)
(* vector.  No element type of the tests throws, and operator new returns  *)
(* the least free address, so that a test is one behaviour.                *)
(***************************************************************************)
EXTENDS CustomVector, Integers, FiniteSetsExt, SequencesExt

VARIABLES
    test,     \* the script
    line,     \* the position in it
    noted     \* the storage the test keeps a pointer to

testVars == <<vars, test, line, noted>>

-----------------------------------------------------------------------------
(* Calls and assertions.                                                   *)

Call(do, v)       == [do |-> do, v |-> v]
Push(v, x)        == [do |-> "push_back", v |-> v, x |-> x]
From(do, v, other) == [do |-> do, v |-> v, other |-> other]

At(v, index, x) == [do |-> "assert at", v |-> v, index |-> index, x |-> x]
Throws(v, index) == [do |-> "assert throws", v |-> v, index |-> index]
SizeIs(v, n)    == [do |-> "assert size", v |-> v, n |-> n]
CapacityIs(v, n) == [do |-> "assert capacity", v |-> v, n |-> n]
Alive(n)        == [do |-> "assert alive", n |-> n]

-----------------------------------------------------------------------------
(* The tests.                                                              *)

InvalidIndices ==
    <<Call("vector", "values"), Throws("values", 0),
      Push("values", 7), Throws("values", 1), Throws("values", MaxCapacity), At("values", 0, 7)>>

AliasedInsertion ==
    <<Call("vector", "values"), Push("values", 5), Call("fill", "values"), Call("push_back at(0)", "values"),
      SizeIs("values", 2)>> \o FlattenSeq([i \in 1 .. 2 |-> <<At("values", i - 1, 5)>>])

IndependentCopies ==
    <<Call("vector", "source"), Push("source", 10), Push("source", 20),
      From("copy", "copied", "source"), Call("pop_back", "copied"), Push("copied", 99),
      At("source", 1, 20), At("copied", 1, 99),
      Call("vector", "assigned"), Push("assigned", -1), From("assign", "assigned", "source"),
      Call("pop_back", "assigned"), Push("assigned", 77), At("source", 1, 20), At("assigned", 1, 77)>>

BalancedLifetimes ==
    <<Alive(0), Call("vector", "values")>>
    \o FlattenSeq([i \in 1 .. 20 |-> <<Push("values", 42), Alive(i)>>])
    \o <<Call("pop_back", "values"), SizeIs("values", 19), Alive(19)>>
    \o FlattenSeq([i \in 1 .. 19 |-> <<At("values", i - 1, 42)>>])
    \o <<Call("~vector", "values"), Alive(0)>>

GrowthAndRemoval ==
    <<Call("vector", "v"), SizeIs("v", 0), Push("v", 10), Push("v", 20), Push("v", 30),
      SizeIs("v", 3), At("v", 0, 10), At("v", 1, 20), At("v", 2, 30)>>
    \o FlattenSeq([i \in 1 .. 100 |-> <<Push("v", i - 1)>>])
    \o <<SizeIs("v", 103), At("v", 0, 10), At("v", 1, 20), At("v", 2, 30)>>
    \o FlattenSeq([i \in 1 .. 100 |-> <<At("v", i + 2, i - 1)>>])
    \o <<CapacityIs("v", 128), Call("pop_back", "v"), SizeIs("v", 102), At("v", 101, 98), CapacityIs("v", 128),
         Call("pop all", "v"), SizeIs("v", 0), Push("v", 42), SizeIs("v", 1), At("v", 0, 42)>>

MoveConstruction ==
    <<Alive(0), Call("vector", "source"), Push("source", 42), Push("source", 42), Call("note", "source"),
      From("move", "moved", "source"), SizeIs("moved", 2), Call("assert noted", "moved"),
      At("moved", 0, 42), At("moved", 1, 42), Alive(2),
      Call("clear", "source"), Push("source", 42), SizeIs("source", 1), At("source", 0, 42),
      From("assert apart", "source", "moved"), Alive(3),
      Call("~vector", "moved"), Alive(1), At("source", 0, 42), Call("~vector", "source"), Alive(0)>>

MoveAssignment ==
    <<Call("vector", "destination"), Push("destination", 7), Push("destination", 7),
      Call("vector", "source"), Push("source", 7), Call("note", "source"), Alive(3),
      From("move assign", "destination", "source"), SizeIs("destination", 1),
      Call("assert noted", "destination"), At("destination", 0, 7),
      Call("clear", "source"), Alive(1), Push("source", 7), SizeIs("source", 1),
      From("assert apart", "source", "destination"), Alive(2),
      Call("~vector", "source"), Alive(1), At("destination", 0, 7), Call("~vector", "destination"), Alive(0)>>

EmptyMoves ==
    <<Call("vector", "source"), From("move", "moved", "source"), SizeIs("moved", 0), Push("moved", 10), At("moved", 0, 10),
      Call("vector", "another"), From("move assign", "moved", "another"), SizeIs("moved", 0),
      Push("moved", 20), At("moved", 0, 20)>>

Tests == {InvalidIndices, AliasedInsertion, IndependentCopies, BalancedLifetimes, GrowthAndRemoval,
          MoveConstruction, MoveAssignment, EmptyMoves}

-----------------------------------------------------------------------------
(* Running a test.                                                         *)

NoTest == Init /\ ~copyThrows /\ test = <<>> /\ line = 1 /\ noted = NULL
TestInit == Init /\ ~copyThrows /\ test \in Tests /\ line = 1 /\ noted = NULL

Address == Min(Buffers \ allocated)
PushTo(v, x) == PushBack(v, x) \/ PushBackGrows(v, x, Address)

\* The call of the line is done; clear() of a moved-from vector does nothing,
\* and a loop stays at its line until its condition fails.
Calls(s) ==
    \/ s.do = "vector" /\ Construct(s.v, Address)
    \/ s.do = "push_back" /\ PushTo(s.v, s.x)
    \/ s.do = "push_back at(0)" /\ PushTo(s.v, Contents(s.v)[1])
    \/ s.do = "pop_back" /\ PopBack(s.v)
    \/ s.do = "clear" /\ IF Initialized(s.v) THEN Clear(s.v) ELSE UNCHANGED vars
    \/ s.do = "copy" /\ CopyConstruct(s.v, s.other, Address)
    \/ s.do = "assign" /\ CopyAssign(s.v, s.other, Address)
    \/ s.do = "move" /\ MoveConstruct(s.v, s.other)
    \/ s.do = "move assign" /\ MoveAssign(s.v, s.other)
    \/ s.do = "~vector" /\ Destruct(s.v)

Loops(s) ==
    \/ s.do = "fill" /\ vec[s.v].last < vec[s.v].end /\ PushTo(s.v, Contents(s.v)[1])
    \/ s.do = "pop all" /\ PopBack(s.v)

Passes(s) ==
    \/ s.do = "fill" /\ vec[s.v].last = vec[s.v].end
    \/ s.do = "pop all" /\ Contents(s.v) = <<>>
    \/ s.do \in {"note", "assert at", "assert throws", "assert size", "assert capacity", "assert alive",
                 "assert noted", "assert apart"}

TestNext ==
    /\ line <= Len(test) /\ UNCHANGED test
    /\ LET s == test[line]
       IN /\ noted' = IF s.do = "note" THEN vec[s.v].first ELSE noted
          /\ \/ Calls(s) /\ line' = line + 1
             \/ Loops(s) /\ UNCHANGED line
             \/ Passes(s) /\ line' = line + 1 /\ UNCHANGED vars

\* The elements alive, Tracked::alive less the seed of the test.
AliveElements == Cardinality({<<b, k>> \in Buffers \X (1 .. MaxCapacity) :
                                k \in DOMAIN cells[b] /\ cells[b][k] # Raw})

\* Every assertion of the tests holds where it stands, and no call is without
\* effect that the test relies on.
AssertionsHold ==
    line <= Len(test) =>
      LET s == test[line]
      IN CASE s.do = "assert at"       -> s.index < Len(Contents(s.v)) /\ Contents(s.v)[s.index + 1] = s.x
           [] s.do = "assert throws"   -> s.index >= Len(Contents(s.v))
           [] s.do = "assert size"     -> Len(Contents(s.v)) = s.n
           [] s.do = "assert capacity" -> vec[s.v].end = s.n
           [] s.do = "assert alive"    -> AliveElements = s.n
           [] s.do = "assert noted"    -> vec[s.v].first = noted
           [] s.do = "assert apart"    -> vec[s.v].first # vec[s.other].first
           [] OTHER                    -> Passes(s) \/ ENABLED Calls(s) \/ ENABLED Loops(s)
=============================================================================
