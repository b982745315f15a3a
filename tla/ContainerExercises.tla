-------------------------- MODULE ContainerExercises --------------------------
(***************************************************************************)
(* leetcode/stl_datastructures/: the functions that print a container, the *)
(* comparators and hashes given to one, and the walk through std::list.    *)
(* A container is the sequence of its elements in the order of iteration.  *)
(* A result is the set of the outcomes that are possible; it is empty      *)
(* where the behaviour is undefined.                                       *)
(***************************************************************************)
EXTENDS Integers, Sequences, FiniteSetsExt, SequencesExt

-----------------------------------------------------------------------------
(* Printing.                                                               *)

\* The elements up to the last with a separator after each, and the last.
Printed(elems, sep) ==
    [k \in DOMAIN elems |-> [elem |-> elems[k], sep |-> IF k < Len(elems) THEN sep ELSE ""]]

print_list(l) == {Printed(l, ", ")}

\* The comparator, std::less or std::greater, decides the order of iteration.
Ordered(elems, greater) == SetToSortSeq(ToSet(elems), LAMBDA a, b : IF greater THEN a > b ELSE a < b)

print_set(elems, greater) == {Printed(Ordered(elems, greater), ",")}

\* A map with the keys elems, each paired with itself as main does.
print_map(elems, greater) ==
    LET keys == Ordered(elems, greater)
    IN {Printed([k \in DOMAIN keys |-> <<keys[k], keys[k]>>], ", ")}

\* size() - 1 wraps around for an empty vector or deque, so that take() takes
\* all of nothing; then back() reads an element that is not there.
print_vector(elems) == IF elems = <<>> THEN {} ELSE {Printed(elems, ", ")}

\* Any order of the elements, with a comma after the last, too.
print_multiset(elems) ==
    {[k \in DOMAIN elems |-> [elem |-> elems[p[k]], sep |-> ","]] :
       p \in {q \in [DOMAIN elems -> DOMAIN elems] : IsInjective(q)}}

print(container, elems) ==
    CASE container = "list"         -> print_list(elems)
      [] container = "set"          -> print_set(elems, FALSE)
      [] container = "set greater"  -> print_set(elems, TRUE)
      [] container = "map"          -> print_map(elems, FALSE)
      [] container = "map greater"  -> print_map(elems, TRUE)
      [] container \in {"vector", "deque"} -> print_vector(elems)
      [] container = "multiset"     -> print_multiset(elems)

\* A container other than an empty vector or deque is printed, with every
\* element it holds: a set or a map in the order of its comparator and without
\* duplicates, the others as often as the element is in them.
PrintAsks(container, elems, outs) ==
    LET Times(x, out) == Cardinality({k \in DOMAIN out : out[k].elem = x})
        InOrder(out, Before(_, _)) == \A i, j \in DOMAIN out : i < j => Before(out[i].elem, out[j].elem)
    IN /\ outs = {} <=> container \in {"vector", "deque"} /\ elems = <<>>
       /\ \A out \in outs :
            IF container \in {"map", "map greater"}
              THEN /\ {out[k].elem : k \in DOMAIN out} = {<<x, x>> : x \in ToSet(elems)}
                   /\ InOrder(out, LAMBDA a, b : IF container = "map" THEN a[1] < b[1] ELSE a[1] > b[1])
            ELSE IF container \in {"set", "set greater"}
              THEN /\ {out[k].elem : k \in DOMAIN out} = ToSet(elems)
                   /\ InOrder(out, LAMBDA a, b : IF container = "set" THEN a < b ELSE a > b)
            ELSE \A x \in ToSet(elems) : Times(x, out) = Cardinality({k \in DOMAIN elems : elems[k] = x})

-----------------------------------------------------------------------------
(* priority_queue: main pushes elements, prints the queue, pops and prints *)
(* it again; the print functions take, and drain, a copy.                  *)

\* std::less, std::greater, Data::operator< and DataComparator.
Less(comparator, l, r) == IF comparator \in {"less", "Data"} THEN l < r ELSE l > r

\* The position of top(): no element is greater.
Top(comparator, pq) == CHOOSE i \in DOMAIN pq : \A j \in DOMAIN pq : ~Less(comparator, pq[i], pq[j])

print_pqueue(comparator, pq) ==
    FoldLeft(LAMBDA acc, i :
       LET top == Top(comparator, acc.pq)
       IN [pq |-> RemoveAt(acc.pq, top), out |-> Append(acc.out, acc.pq[top])],
       [pq |-> pq, out |-> <<>>], pq).out

PrintAndPop(comparator, pq) ==
    <<print_pqueue(comparator, pq), print_pqueue(comparator, RemoveAt(pq, Top(comparator, pq)))>>

\* A queue comes out sorted, by std::less or operator< from the greatest, by
\* the others from the least, and printing it takes nothing out of it.
PriorityAsks(comparator, pq, out) ==
    LET Sorted(s) == SortSeq(s, LAMBDA a, b : IF comparator \in {"less", "Data"} THEN a > b ELSE a < b)
    IN out = <<Sorted(pq), Tail(Sorted(pq))>>

-----------------------------------------------------------------------------
(* unordered_multiset: words are sequences of letters, a letter above 10   *)
(* is the upper case of the letter 10 below.                               *)

tolower(c) == IF c > 10 THEN c - 10 ELSE c

\* std::hash of the word in lower case: it may collide or not.
CaseInsensitiveHash(s, collides) == IF collides THEN <<>> ELSE [i \in DOMAIN s |-> tolower(s[i])]

CaseInsensitiveEqual(a, b) == Len(a) = Len(b) /\ \A i \in DOMAIN a : tolower(a[i]) = tolower(b[i])

\* count(word): only words with the same hash are compared.
count(words, word) ==
    {Cardinality({k \in DOMAIN words : /\ CaseInsensitiveHash(words[k], collides) = CaseInsensitiveHash(word, collides)
                                       /\ CaseInsensitiveEqual(words[k], word)}) : collides \in BOOLEAN}

\* Whatever the hash, the words that are the same but for their case are found.
CountAsks(words, word, outs) ==
    outs = {Cardinality({k \in DOMAIN words : /\ Len(words[k]) = Len(word)
                                              /\ \A i \in DOMAIN word : words[k][i] % 10 = word[i] % 10})}

-----------------------------------------------------------------------------
(* list: main's walk through the operations of std::list.  Positions are   *)
(* counted from 1, std::advance(it, 2) is position 3.                      *)

Merge(l, l2) == SortSeq(l \o l2, <)   \* of two sorted lists

\* std::unique: an element equal to the one before it goes.
Unique(l) == FoldLeft(LAMBDA acc, x : IF acc # <<>> /\ Last(acc) = x THEN acc ELSE Append(acc, x), <<>>, l)

\* The list at each print, from the initial list l of at least 4 elements.
ListWalk(l) ==
    LET swapped   == [l EXCEPT ![1] = 9, ![Len(l)] = 0]
        pushed    == <<-1>> \o swapped \o <<10>>
        popped    == Tail(Front(pushed))
        advanced  == [popped EXCEPT ![3] = 100]
        previous  == [advanced EXCEPT ![2] = 101]
        erased    == RemoveAt(previous, 2)
        removed   == SelectSeq(erased, LAMBDA x : x # 8)
        evens     == SelectSeq(removed, LAMBDA x : x % 2 # 1)
        sorted    == SortSeq(InsertAt(InsertAt(evens, 3, 4), 4, 8), <)
        merged    == Merge(sorted, <<11, 13, 15, 17>>)
        spliced   == SubSeq(merged, 1, 2) \o <<11, 13, 15, 17>> \o SubSeq(merged, 3, Len(merged))
    IN <<l, swapped, pushed, popped, advanced, previous, erased, removed, evens, sorted, merged, spliced,
         Unique(SortSeq(spliced, <))>>

\* An iterator is advanced no further than the end of the list, what is merged
\* is sorted, nothing but duplicates is lost by sort, merge, splice and unique,
\* and the list ends without duplicates, in order.
ListAsks(l, out) ==
    LET Ascending(s) == \A i, j \in DOMAIN s : i < j => s[i] <= s[j]
    IN /\ Len(out[9]) >= 2 /\ Len(out[11]) >= 2
       /\ Ascending(out[10]) /\ Ascending(out[11]) /\ Ascending(out[13])
       /\ ToSet(out[13]) = ToSet(out[9]) \cup {4, 8, 11, 13, 15, 17}
       /\ \A i \in 1 .. Len(out[13]) - 1 : out[13][i] # out[13][i + 1]
=============================================================================
