------------------------------ MODULE Exercises ------------------------------
(***************************************************************************)
(* The exercises of the repository side by side: a behaviour is one test   *)
(* of custom::vector, or the solution of one exercise for one input.  They *)
(* share no state.                                                         *)
(***************************************************************************)
EXTENDS SequenceExercises, ScheduleExercises, ContainerExercises

CONSTANTS
    Inputs,      \* the inputs of each exercise: a function from names to sets
    RangeMax     \* the greatest int for IntRange

VARIABLES
    subject,        \* "exercise" or "vector"
    exercise, input, output, solved

exerciseVars == <<exercise, input, output, solved>>

\* The tests of custom::vector, with the storage they need.
VARIABLES copyThrows, constructed, vec, cells, allocated, abandoned, test, line, noted
testVars == <<copyThrows, constructed, vec, cells, allocated, abandoned, test, line, noted>>
VT == INSTANCE VectorTests
      WITH Vectors <- {"values", "source", "copied", "assigned", "v", "moved", "destination", "another"},
           Buffers <- 1 .. 6, NULL <- 0, Values <- -1 .. 100, Raw <- -2, MaxCapacity <- 128

vars == <<subject, exerciseVars, testVars>>

-----------------------------------------------------------------------------
Solve(name, answer) ==
    /\ exercise = name /\ ~solved
    /\ output' = answer /\ solved' = TRUE
    /\ UNCHANGED <<exercise, input>>

ExerciseInit ==
    /\ exercise \in DOMAIN Inputs /\ input \in Inputs[exercise]
    /\ output = <<>> /\ solved = FALSE

ExerciseNext ==
    \/ Solve("1", twoSum(input.nums, input.target))
    \/ Solve("217", containsDuplicate(input.nums))
    \/ Solve("242", isAnagram(input.s, input.t))
    \/ Solve("49", groupAnagrams(input.strs))
    \/ Solve("1957", makeFancyString(input.s))
    \/ Solve("238", productExceptSelf(input.nums))
    \/ Solve("647", countSubstrings(input.s))
    \/ Solve("2484", countPalindromes(input.s))
    \/ Solve("36", isValidSudoku(input.board))
    \/ Solve("1717", maximumGain(input.s, input.x, input.y))
    \/ Solve("239", maxSlidingWindow(input.nums, input.k))
    \/ Solve("IntRange", IntRange(input.start, input.end, RangeMax))
    \/ Solve("347", topKFrequent(input.nums, input.k))
    \/ Solve("23", mergeKLists(input.lists))
    \/ Solve("124", maxPathSum(input.tree))
    \/ Solve("3440", maxFreeTime(input.eventTime, input.meetings))
    \/ Solve("2410", matchPlayersAndTrainers(input.players, input.trainers))
    \/ Solve("253", minMeetingRooms(input.intervals))
    \/ Solve("1353", maxEvents(input.events))
    \/ Solve("1606", busiestServers(input.k, input.requests))
    \/ Solve("Example", Assigned(input.objects, input.lhs, input.rhs, input.how))
    \/ Solve("print", print(input.container, input.elems))
    \/ Solve("print_pqueue", PrintAndPop(input.comparator, input.elems))
    \/ Solve("customset", count(input.words, input.word))
    \/ Solve("list", ListWalk(input))

-----------------------------------------------------------------------------
NoExercise == exercise = "none" /\ input = <<>> /\ output = <<>> /\ solved = FALSE

\* One of them is used, and the others stay as they are.
Init ==
    \/ subject = "exercise" /\ ExerciseInit /\ VT!NoTest
    \/ subject = "vector"   /\ NoExercise   /\ VT!TestInit

Next ==
    \/ subject = "exercise" /\ ExerciseNext /\ UNCHANGED <<subject, testVars>>
    \/ subject = "vector"   /\ VT!TestNext  /\ UNCHANGED <<subject, exerciseVars>>

Spec == Init /\ [][Next]_vars

-----------------------------------------------------------------------------
\* Every assertion of the vector's tests holds where its test comes to it.
TestsPass == VT!AssertionsHold

\* The exercises on sequences answer what their problems ask, and the
\* containers come out as their comparators and hashes say.
SequenceAnswersRight ==
    solved =>
      CASE exercise = "1"    -> TwoSumAsks(input.nums, input.target, output)
        [] exercise = "217"  -> DuplicateAsks(input.nums, output)
        [] exercise = "242"  -> AnagramAsks(input.s, input.t, output)
        [] exercise = "49"   -> GroupsAsk(input.strs, output)
        [] exercise = "1957" -> FancyAsks(input.s, output)
        [] exercise = "238"  -> ProductAsks(input.nums, output)
        [] exercise = "647"  -> SubstringsAsk(input.s, output)
        [] exercise = "2484" -> PalindromesAsk(input.s, output)
        [] exercise = "36"   -> SudokuAsks(input.board, output)
        [] exercise = "1717" -> GainAsks(input.s, input.x, input.y, output)
        [] exercise = "239"  -> WindowAsks(input.nums, input.k, output)
        [] exercise = "IntRange" -> RangeAsks(input.start, input.end, RangeMax, output)
        [] exercise = "print"        -> PrintAsks(input.container, input.elems, output)
        [] exercise = "print_pqueue" -> PriorityAsks(input.comparator, input.elems, output)
        [] exercise = "customset"    -> CountAsks(input.words, input.word, output)
        [] exercise = "list"         -> ListAsks(input, output)
        [] OTHER -> TRUE

\* The exercises on heaps, greedy choices, lists and trees answer what their
\* problems ask, whichever way the heaps break their ties.
ScheduleAnswersRight ==
    solved =>
      CASE exercise = "347"  -> TopKAsks(input.nums, input.k, output)
        [] exercise = "23"   -> MergeAsks(input.lists, output)
        [] exercise = "124"  -> MaxPathAsks(input.tree, output)
        [] exercise = "3440" -> FreeTimeAsks(input.eventTime, input.meetings, output)
        [] exercise = "2410" -> MatchAsks(input.players, input.trainers, output)
        [] exercise = "253"  -> RoomsAsk(input.intervals, output)
        [] exercise = "1353" -> EventsAsk(input.events, output)
        [] exercise = "1606" -> BusiestAsk(input.k, input.requests, output)
        [] exercise = "Example" -> AssignAsks(input.objects, input.lhs, input.rhs, input.how, output)
        [] OTHER -> TRUE

\* Every exercise is answered as its problem asks.
AnswersRight == SequenceAnswersRight /\ ScheduleAnswersRight
=============================================================================
