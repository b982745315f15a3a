----------------------------- MODULE SegmentTree -----------------------------
(***************************************************************************)
(* get_cracked/coding/segment_tree.cpp: a tree that makes its nodes when   *)
(* they are needed and doubles its capacity.  A node is known by the range *)
(* <<low, high>> it is for, which every call computes on its way from the  *)
(* root; a range without a node is a null pointer.  Values are sequences   *)
(* and Combine is concatenation, which shows every operand and their       *)
(* order; the identity is the empty sequence.  The constructor from a      *)
(* vector and build() are never instantiated (they do not compile) and are *)
(* left out.                                                               *)
(***************************************************************************)
EXTENDS Integers, Sequences

CONSTANTS
    MaxSize,      \* bound on the size the tree is made with
    MaxInt,       \* numeric_limits<int>::max()
    Leaves,       \* values inserted
    Symbols       \* what they are made of

ASSUME TreeAssumption ==
    /\ MaxInt \in Nat /\ MaxSize \in 1 .. MaxInt
    /\ Leaves \subseteq Seq(Symbols)

VARIABLES
    nodes,      \* the nodes below root_: from their ranges to their values
    size,       \* size_
    readings,   \* what was inserted last at each index
    treeThrew   \* whether the last call threw

treeVars == <<nodes, size, readings, treeThrew>>

identity == <<>>
combine(a, b) == a \o b

Ranges(n) == {range \in (0 .. n - 1) \X (0 .. n - 1) : range[1] <= range[2]}
Root(n)   == <<0, n - 1>>

Mid(range)   == range[1] + (range[2] - range[1]) \div 2
Left(range)  == <<range[1], Mid(range)>>
Right(range) == <<Mid(range) + 1, range[2]>>

valueOf(ns, range) == IF range \in DOMAIN ns THEN ns[range] ELSE identity

\* The nodes ns with the node of range made, if need be, and given a value.
Written(ns, range, value) ==
    [r \in DOMAIN ns \cup {range} |-> IF r = range THEN value ELSE ns[r]]

\* The nodes after insert_ of the node of a range: it returns first from one
\* of the children.
insert_(index, value) ==
    LET inserted[range \in Ranges(size)] ==
          IF range[1] = range[2] THEN Written(nodes, range, value)
          ELSE LET below == inserted[IF index <= Mid(range) THEN Left(range) ELSE Right(range)]
               IN Written(below, range, combine(valueOf(below, Left(range)), valueOf(below, Right(range))))
    IN inserted

\* What query_ of the node of a range returns.
query_(left, right) ==
    LET answer[range \in Ranges(size)] ==
          IF range \notin DOMAIN nodes \/ right < range[1] \/ range[2] < left THEN identity
          ELSE IF left <= range[1] /\ range[2] <= right THEN nodes[range]
          ELSE combine(answer[Left(range)], answer[Right(range)])
    IN answer

TreeInit ==
    /\ size \in 1 .. MaxSize
    /\ nodes = <<>> /\ readings = [i \in 0 .. size - 1 |-> identity] /\ treeThrew = FALSE

\* insert, and update, which calls it.
Insert(index, value) ==
    IF index \in 0 .. size - 1
      THEN /\ nodes' = insert_(index, value)[Root(size)]
           /\ readings' = [readings EXCEPT ![index] = value]
           /\ treeThrew' = FALSE /\ UNCHANGED size
      ELSE treeThrew' = TRUE /\ UNCHANGED <<nodes, size, readings>>

query(left, right) == query_(left, right)[Root(size)]

\* Mutant: the new root does not take over the value of the old one.
GrowAnew ==
    IF size > MaxInt \div 2
      THEN treeThrew' = TRUE /\ UNCHANGED <<nodes, size, readings>>
      ELSE /\ size' = size * 2
           /\ nodes' = Written(nodes, Root(size'), identity)
           /\ readings' = [i \in 0 .. size' - 1 |-> IF i < size THEN readings[i] ELSE identity]
           /\ treeThrew' = FALSE

\* The present root, if there is one, becomes the left child of a new one, whose
\* right child is null.  Every node keeps its range, since the left half of twice
\* the size is the size: Left(Root(2 * size)) = Root(size).
Grow ==
    IF size > MaxInt \div 2
      THEN treeThrew' = TRUE /\ UNCHANGED <<nodes, size, readings>>
      ELSE /\ size' = size * 2
           /\ nodes' = Written(nodes, Root(size'), combine(valueOf(nodes, Root(size)), identity))
           /\ readings' = [i \in 0 .. size' - 1 |-> IF i < size THEN readings[i] ELSE identity]
           /\ treeThrew' = FALSE

TreeNext == Grow \/ \E index \in -1 .. MaxInt, value \in Leaves : Insert(index, value)

-----------------------------------------------------------------------------
\* The values rs[low] to rs[high], combined in order.
Combined(rs, low, high) ==
    LET upTo[i \in -1 .. MaxInt] == IF i < low THEN identity ELSE combine(upTo[i - 1], rs[i])
    IN upTo[high]

\* Every query combines what was inserted last at each index of its range, in
\* order, also after the tree has grown; the size stays within int.
QueriesAgree ==
    /\ size <= MaxInt
    /\ \A left, right \in 0 .. size - 1 :
         left <= right => query(left, right) = Combined(readings, left, right)
=============================================================================
