-------------------------- MODULE ScheduleExercises --------------------------
(***************************************************************************)
(* The exercises of leetcode/ on heaps, greedy choices and trees, as       *)
(* functions of their input, each followed by what its problem asks.  A    *)
(* priority queue is a bag kept as a set of tagged elements or a sequence; *)
(* where it may break a tie either way every outcome is a result.          *)
(***************************************************************************)
EXTENDS Integers, Sequences, FiniteSets, FiniteSetsExt, SequencesExt

\* std::sort of intervals by their start.
ByStart(intervals) == SortSeq(intervals, LAMBDA a, b : a[1] < b[1])

\* A min-heap of integers: the sorted sequence.
Push(heap, x) == SortSeq(Append(heap, x), <)

-----------------------------------------------------------------------------
(* medium/347.cpp topKFrequent: k is at most the number of values.         *)

RECURSIVE PopMost(_, _, _)
PopMost(counts, heap, k) ==
    IF k = 0 THEN {<<>>}
    ELSE UNION {{<<n>> \o rest : rest \in PopMost(counts, heap \ {n}, k - 1)} :
                  n \in {m \in heap : \A l \in heap : counts[l] <= counts[m]}}

topKFrequent(nums, k) ==
    LET counts == FoldSeq(LAMBDA n, acc : [acc EXCEPT ![n] = @ + 1], [n \in Range(nums) |-> 0], nums)
    IN PopMost(counts, Range(nums), k)

TopKAsks(nums, k, outs) ==
    LET Count(n) == Cardinality({i \in DOMAIN nums : nums[i] = n})
    IN \A out \in outs :
         /\ Len(out) = k /\ Cardinality(Range(out)) = k
         /\ \A n \in Range(out), m \in Range(nums) \ Range(out) : Count(n) >= Count(m)
         /\ \A i, j \in 1 .. k : i < j => Count(out[i]) >= Count(out[j])

-----------------------------------------------------------------------------
(* hard/23.cpp mergeKLists: lists are sequences, sorted, possibly empty;   *)
(* lists[i] becomes the position in list i of the node to push next.       *)

RECURSIVE Popping(_, _, _, _)
Popping(lists, at, heap, finished) ==
    IF finished = Len(lists) THEN {<<>>}
    ELSE UNION {LET i == node[1]
                    ended == at[i] > Len(lists[i])
                IN {<<node>> \o rest :
                      rest \in Popping(lists, IF ended THEN at ELSE [at EXCEPT ![i] = @ + 1],
                                       (heap \ {node}) \cup (IF ended THEN {} ELSE {<<i, at[i]>>}),
                                       finished + IF ended THEN 1 ELSE 0)} :
                node \in {n \in heap : \A m \in heap : lists[n[1]][n[2]] <= lists[m[1]][m[2]]}}

\* The nodes in the order in which they are linked; the last keeps its next.
mergeKLists(lists) ==
    LET first == {i \in DOMAIN lists : lists[i] # <<>>}
    IN Popping(lists, [i \in DOMAIN lists |-> IF i \in first THEN 2 ELSE 1],
               {<<i, 1>> : i \in first}, Len(lists) - Cardinality(first))

\* Every node once, in ascending order, and the last was the end of its list.
MergeAsks(lists, outs) ==
    \A out \in outs :
       /\ Range(out) = UNION {{<<i, j>> : j \in DOMAIN lists[i]} : i \in DOMAIN lists}
       /\ Len(out) = Cardinality(Range(out))
       /\ \A p, q \in DOMAIN out : p < q => lists[out[p][1]][out[p][2]] <= lists[out[q][1]][out[q][2]]
       /\ out # <<>> => Last(out)[2] = Len(lists[Last(out)[1]])

-----------------------------------------------------------------------------
(* hard/124.cpp maxPathSum: a tree is <<>> or <<val, left, right>>.        *)

\* The sum returned, and best, which is <<>> before the first node.
RECURSIVE helper(_, _)
helper(node, best) ==
    IF node = <<>> THEN [sum |-> 0, best |-> best]
    ELSE LET val == node[1]
             left == helper(node[2], best)
             right == helper(node[3], left.best)
             sums == {left.sum + val, right.sum + val, val}
         IN [sum |-> Max(sums),
             best |-> <<Max(sums \cup {left.sum + right.sum + val} \cup Range(right.best))>>]

maxPathSum(tree) == helper(tree, <<>>).best[1]

\* The sums of the paths down from the root of a tree, and of all its paths.
RECURSIVE Down(_)
Down(node) == IF node = <<>> THEN {} ELSE {node[1]} \cup {node[1] + s : s \in Down(node[2]) \cup Down(node[3])}

RECURSIVE Paths(_)
Paths(node) ==
    IF node = <<>> THEN {}
    ELSE Down(node) \cup Paths(node[2]) \cup Paths(node[3])
         \cup {node[1] + l + r : l \in Down(node[2]), r \in Down(node[3])}

MaxPathAsks(tree, out) == out = Max(Paths(tree))

-----------------------------------------------------------------------------
(* medium/3440.cpp maxFreeTime: one meeting may be moved; meetings are     *)
(* disjoint and in order.                                                  *)

\* Whether meeting i fits a gap among those of gaps that come before it in the
\* pass: the first loop from the left, the second from the right.
Gap(eventTime, ms, i) ==
    (IF i > Len(ms) THEN eventTime ELSE ms[i][1]) - (IF i = 1 THEN 0 ELSE ms[i - 1][2])

Fits(eventTime, ms, i, gaps) ==
    ms[i][2] - ms[i][1] <= Max({0} \cup {Gap(eventTime, ms, j) : j \in gaps})

maxFreeTime(eventTime, ms) ==
    Max({0} \cup
        {LET leftEnd == IF i = 1 THEN 0 ELSE ms[i - 1][2]
             rightStart == IF i = Len(ms) THEN eventTime ELSE ms[i + 1][1]
             movable == Fits(eventTime, ms, i, 1 .. i - 1) \/ Fits(eventTime, ms, i, i + 2 .. Len(ms) + 1)
         IN rightStart - leftEnd - IF movable THEN 0 ELSE ms[i][2] - ms[i][1] : i \in DOMAIN ms})

\* The longest free time over every place to which one meeting can be moved.
FreeTimeAsks(eventTime, ms, out) ==
    LET Overlap(a, b) == a[1] < b[2] /\ b[1] < a[2]
        Free(meetings) ==   \* the longest stretch that meets no meeting
           Max({ab[2] - ab[1] : ab \in {cd \in (0 .. eventTime) \X (0 .. eventTime) :
                                          cd[1] <= cd[2] /\ \A m \in meetings : ~Overlap(cd, m)}})
        Moved(i) == {Range(RemoveAt(ms, i)) \cup {<<t, t + ms[i][2] - ms[i][1]>>} :
                       t \in {u \in 0 .. eventTime - (ms[i][2] - ms[i][1]) :
                                \A j \in DOMAIN ms \ {i} : ~Overlap(<<u, u + ms[i][2] - ms[i][1]>>, ms[j])}}
    IN out = Max(UNION {{Free(meetings) : meetings \in Moved(i)} : i \in DOMAIN ms})

-----------------------------------------------------------------------------
(* medium/2410.cpp matchPlayersAndTrainers                                 *)

matchPlayersAndTrainers(players, trainers) ==
    LET ps == SortSeq(players, <)
    IN FoldLeft(LAMBDA next, t : IF next <= Len(ps) /\ ps[next] <= t THEN next + 1 ELSE next,
                1, SortSeq(trainers, <)) - 1

\* The largest set of players that can be given trainers of their own.
MatchAsks(players, trainers, out) ==
    out = Max({Cardinality(S) : S \in {T \in SUBSET DOMAIN players :
                 \E m \in [T -> DOMAIN trainers] :
                    IsInjective(m) /\ \A p \in T : players[p] <= trainers[m[p]]}})

-----------------------------------------------------------------------------
(* medium/253.cpp minMeetingRooms: there is at least one meeting.          *)

\* The room that is free first is reused if it is free by then.
minMeetingRooms(intervals) ==
    LET ms == ByStart(intervals)
    IN Len(FoldLeft(LAMBDA heap, m : Push(IF m[1] < heap[1] THEN heap ELSE Tail(heap), m[2]),
                    <<ms[1][2]>>, Tail(ms)))

\* As many rooms as meetings that are held at one time.
RoomsAsk(intervals, out) ==
    out = Max({Cardinality({i \in DOMAIN intervals : intervals[i][1] <= m[1] /\ m[1] < intervals[i][2]}) :
                 m \in Range(intervals)})

-----------------------------------------------------------------------------
(* medium/1353.cpp maxEvents                                               *)

\* Mutant: the event that ends last is attended.
PopLatest(heap) == Front(heap)

\* The event that ends first is attended.
PopEarliest(heap) == Tail(heap)

\* Each day: the events that have started are pushed, those that have ended are
\* popped, and one is attended.
maxEvents(events) ==
    LET es == ByStart(events)
        maxDay == Max({0} \cup {e[2] : e \in Range(es)})
        Day(acc, day) ==
            LET started == SelectSeq(es, LAMBDA e : e[1] = day)
                pushed == FoldLeft(LAMBDA heap, e : Push(heap, e[2]), acc.heap, started)
                heap == SelectSeq(pushed, LAMBDA end : end >= day)
            IN IF heap = <<>> THEN [acc EXCEPT !.heap = heap]
               ELSE [heap |-> PopEarliest(heap), ret |-> acc.ret + 1]
    IN FoldLeft(Day, [heap |-> <<>>, ret |-> 0], [d \in 1 .. maxDay + 1 |-> d - 1]).ret

\* The most events that can be attended on days of their own.
EventsAsk(events, out) ==
    LET Days == 1 .. Max({1} \cup {e[2] : e \in Range(events)})
    IN out = Max({Cardinality(S) : S \in {T \in SUBSET DOMAIN events :
                    \E d \in [T -> Days] :
                       IsInjective(d) /\ \A i \in T : d[i] \in events[i][1] .. events[i][2]}})

-----------------------------------------------------------------------------
(* hard/1606.cpp busiestServers: requests are <<arrival, load>>, arrivals  *)
(* ascend; there is at least one.                                          *)

\* The servers that take the requests, in order, by the set of the available
\* ones and the heap of end times.
Served(k, requests) ==
    FoldLeftDomain(LAMBDA acc, i :
       LET now == requests[i][1]
           free == acc.available \cup {e[2] : e \in {f \in acc.endTimes : f[1] <= now}}
           busy == {f \in acc.endTimes : f[1] > now}
           above == {s \in free : s >= (i - 1) % k}
           server == IF above # {} THEN Min(above) ELSE Min(free)
       IN IF free = {} THEN [acc EXCEPT !.available = free, !.endTimes = busy]
          ELSE [available |-> free \ {server}, endTimes |-> busy \cup {<<now + requests[i][2], server>>},
                by |-> Append(acc.by, server)],
       [available |-> 0 .. k - 1, endTimes |-> {}, by |-> <<>>], requests).by

busiestServers(k, requests) ==
    LET by == Served(k, requests)
        Count(s) == Cardinality({i \in DOMAIN by : by[i] = s})
    IN {s \in Range(by) : \A t \in Range(by) : Count(t) <= Count(s)}

\* The servers in turn from i mod k, without heap or set: a request is dropped
\* if all of them are busy.
BusiestAsk(k, requests, out) ==
    LET After[i \in 0 .. Len(requests)] ==
          IF i = 0 THEN [until |-> [s \in 0 .. k - 1 |-> 0], count |-> [s \in 0 .. k - 1 |-> 0]]
          ELSE LET was == After[i - 1]
                   offsets == {d \in 0 .. k - 1 : was.until[(i - 1 + d) % k] <= requests[i][1]}
                   s == (i - 1 + Min(offsets)) % k
               IN IF offsets = {} THEN was
                  ELSE [until |-> [was.until EXCEPT ![s] = requests[i][1] + requests[i][2]],
                        count |-> [was.count EXCEPT ![s] = @ + 1]]
        count == After[Len(requests)].count
    IN out = {s \in 0 .. k - 1 : count[s] = Max(Range(count))}

-----------------------------------------------------------------------------
(* get_cracked/design_patterns/copy_swap: assignments between two objects. *)

\* Example(Example&&): the string is moved, the other members are copied.
MovedFrom(source) == [source EXCEPT !.name = ""]

\* operator=: tmp takes what it can from the right-hand side and is swapped
\* with the left; copying a name may throw before anything is swapped.
Assigned(objects, lhs, rhs, how) ==
    LET tmp == objects[rhs]
        after == IF how = "move" THEN [objects EXCEPT ![rhs] = MovedFrom(@)] ELSE objects
    IN IF how = "copy throws" THEN objects ELSE [after EXCEPT ![lhs] = tmp]

\* The left-hand side has the value of the right, which a move leaves without
\* name; assigned to itself, or if it throws, an object keeps its value.
AssignAsks(objects, lhs, rhs, how, out) ==
    /\ out[lhs] = IF how = "copy throws" THEN objects[lhs] ELSE objects[rhs]
    /\ lhs # rhs => out[rhs] = IF how = "move" THEN MovedFrom(objects[rhs]) ELSE objects[rhs]
=============================================================================
