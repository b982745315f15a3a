----------------------------- MODULE MCExercises -----------------------------
\* Algorithms and data structures: all inputs up to the bounds below.
EXTENDS Exercises

Words(n) == BoundedSeq(1 .. 2, n)
Texts(n) == BoundedSeq(1 .. 3, n)
Numbers(n) == BoundedSeq({-1, 2, 3}, n) \ {<<>>}

\* Intervals within 1..n, and sequences of one to three of them.
Intervals(n) == {<<a, b>> \in (1 .. n) \X (1 .. n) : a < b}
Lists3(S) == BoundedSeq(S, 3) \ {<<>>}

\* Sequences of disjoint meetings in order.
Meetings(n) == {ms \in Lists3({<<a, b>> \in (0 .. n) \X (0 .. n) : a < b}) :
                  \A i \in 1 .. Len(ms) - 1 : ms[i][2] <= ms[i + 1][1]}

Trees0 == {<<>>}
Trees1 == Trees0 \cup {<<v, l, r>> : v \in {-2, -1, 3}, l \in Trees0, r \in Trees0}
Trees2 == Trees1 \cup {<<v, l, r>> : v \in {-2, -1, 3}, l \in Trees1, r \in Trees1}
Trees3 == Trees2 \cup {<<v, l, <<>> >> : v \in {-2, -1, 3}, l \in Trees2}

SudokuCells == [row : {0, 2, 3}, col : {0, 1, 4}, entry : {1, 2}]
Boards == {bd \in UNION {kSubset(n, SudokuCells) : n \in 0 .. 3} :
             \A a, b \in bd : a.row = b.row /\ a.col = b.col => a = b}

Sorted(n) == {s \in BoundedSeq(1 .. 3, n) : \A i \in 1 .. Len(s) - 1 : s[i] <= s[i + 1]}

Requests == {rs \in Lists3((1 .. 4) \X (1 .. 3)) : \A i \in 1 .. Len(rs) - 1 : rs[i][1] < rs[i + 1][1]}

Examples == [1 .. 2 -> [ptr : {0, 1}, size : {0, 1}, name : {"", "a"}]]

Containers == {"list", "set", "set greater", "map", "map greater", "vector", "deque", "multiset"}
Spellings == BoundedSeq({1, 2, 11}, 2)

MCInputs ==
    [x \in {"1", "217", "242", "49", "1957", "238", "647", "2484", "36", "1717", "239", "IntRange",
            "347", "23", "124", "3440", "2410", "253", "1353", "1606", "Example",
            "print", "print_pqueue", "customset", "list"} |->
       CASE x = "1"    -> [nums : Numbers(4), target : {1, 4, 6}]
         [] x = "217"  -> [nums : Numbers(4)]
         [] x = "242"  -> [s : Texts(3), t : Texts(3)]
         [] x = "49"   -> [strs : BoundedSeq({<<>>, <<1>>, <<1, 2>>, <<2, 1>>, <<1, 1, 2>>, <<2, 1, 1>>, <<2, 2, 1>>}, 3)]
         [] x = "1957" -> [s : Words(6)]
         [] x = "238"  -> [nums : Numbers(4)]
         [] x = "647"  -> [s : Words(6)]
         [] x = "2484" -> [s : BoundedSeq(0 .. 1, 7) \ {<<>>}]
         [] x = "36"   -> [board : Boards]
         [] x = "1717" -> [s : Texts(5), x : {1, 3}, y : {1, 2}]
         [] x = "239"  -> {in \in [nums : Numbers(5), k : 1 .. 4] : in.k <= Len(in.nums)}
         [] x = "IntRange" -> [start : -2 .. 4, end : -2 .. 4]
         [] x = "347"  -> {in \in [nums : Numbers(5), k : 1 .. 3] : in.k <= Cardinality(Range(in.nums))}
         [] x = "23"   -> [lists : BoundedSeq(Sorted(2), 3)]
         [] x = "124"  -> [tree : Trees3 \ Trees0]
         [] x = "3440" -> [eventTime : {6}, meetings : Meetings(6)]
         [] x = "2410" -> [players : Texts(3), trainers : Texts(3)]
         [] x = "253"  -> [intervals : Lists3(Intervals(4))]
         [] x = "1353" -> [events : Lists3({<<a, b>> \in (1 .. 3) \X (1 .. 3) : a <= b})]
         [] x = "1606" -> [k : 1 .. 3, requests : Requests]
         [] x = "Example" -> [objects : Examples, lhs : 1 .. 2, rhs : 1 .. 2, how : {"copy", "move", "copy throws"}]
         [] x = "print" -> [container : Containers, elems : Texts(4)]
         [] x = "print_pqueue" -> [comparator : {"less", "greater", "Data", "DataComparator"}, elems : Texts(4) \ {<<>>}]
         [] x = "customset" -> [words : BoundedSeq(Spellings, 3), word : Spellings]
         [] x = "list" -> {<<0, 1, 2, 3, 5, 6, 7, 8, 9>>}]
=============================================================================
