----------------------------- MODULE CallHistory -----------------------------
(***************************************************************************)
(* What the examples of get_cracked/design_patterns/ have in common: an    *)
(* object, the calls made on it so far, and what each call printed or      *)
(* returned.  The modules that extend this one give the calls of each      *)
(* example by its code, and what a client may expect of a call, given the  *)
(* calls before it.                                                        *)
(***************************************************************************)
EXTENDS Integers, Sequences, FiniteSets, SequencesExt

CONSTANT MaxCalls   \* bound on the length of a history

VARIABLES
    pattern,    \* the example
    obj,        \* the state of its objects
    calls,      \* [op, arg] of each call
    effects     \* the sequence of lines or results of each call

historyVars == <<pattern, obj, calls, effects>>

\* The empty string, also for the argument of a call that has none.
NoText == ""

\* A call op(arg) on an object of the pattern, which becomes next and prints
\* or returns the sequence out.
Does(name, op, arg, next, out) ==
    /\ pattern = name /\ Len(calls) < MaxCalls
    /\ calls' = Append(calls, [op |-> op, arg |-> arg])
    /\ effects' = Append(effects, out)
    /\ obj' = next
    /\ UNCHANGED pattern

\* Where the calls of op before the i-th call are, the place of position j among
\* positions, counted from the first or the last, and the latest call of op and
\* its argument.
Earlier(i, op) == {j \in 1 .. i - 1 : calls[j].op = op}
Place(positions, j) == Cardinality({l \in positions : l <= j})
PlaceFromLast(positions, j) == Cardinality(positions) + 1 - Place(positions, j)
LatestAt(i, op) == Max(Earlier(i, op))
Latest(i, op, default) == IF Earlier(i, op) = {} THEN default ELSE calls[LatestAt(i, op)].arg
=============================================================================
