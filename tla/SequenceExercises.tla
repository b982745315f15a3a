-------------------------- MODULE SequenceExercises --------------------------
(***************************************************************************)
(* The exercises of leetcode/ on sequences, as functions of their input:   *)
(* each loop is a fold with the variables of the loop as accumulator.      *)
(* Each is followed by what its problem asks, stated without the           *)
(* algorithm.  Positions are counted from 1; letters, digits and numbers   *)
(* are small integers.                                                     *)
(***************************************************************************)
EXTENDS Integers, Sequences, FiniteSets, FiniteSetsExt, SequencesExt

-----------------------------------------------------------------------------
(* easy/1.cpp twoSum, easy/217.cpp containsDuplicate                       *)

\* match maps a missing summand to the latest position that misses it.
twoSum(nums, target) ==
    FoldLeftDomain(LAMBDA acc, i :
       IF acc.found # <<>> THEN acc
       ELSE IF nums[i] \in DOMAIN acc.match THEN [acc EXCEPT !.found = <<i, acc.match[nums[i]]>>]
       ELSE [acc EXCEPT !.match = (target - nums[i] :> i) @@ @],
       [match |-> <<>>, found |-> <<>>], nums).found

TwoSumAsks(nums, target, out) ==
    LET Pairs == {ij \in (DOMAIN nums) \X (DOMAIN nums) : ij[2] < ij[1] /\ nums[ij[1]] + nums[ij[2]] = target}
    IN IF Pairs = {} THEN out = <<>>
       ELSE out \in Pairs /\ out[1] = Min({ij[1] : ij \in Pairs})

containsDuplicate(nums) == Cardinality(Range(nums)) # Len(nums)

DuplicateAsks(nums, out) == out = (\E i, j \in DOMAIN nums : i < j /\ nums[i] = nums[j])

-----------------------------------------------------------------------------
(* easy/242.cpp isAnagram, medium/49.cpp groupAnagrams                     *)

Letters == 1 .. 3

\* chars after both loops: counted up for s, down for t.
Counted(s, t) ==
    FoldSeq(LAMBDA c, acc : [acc EXCEPT ![c] = @ - 1],
            FoldSeq(LAMBDA c, acc : [acc EXCEPT ![c] = @ + 1], [c \in Letters |-> 0], s), t)

isAnagram(s, t) == \A c \in Letters : Counted(s, t)[c] = 0

Rearranges(s, t) ==
    Len(s) = Len(t) /\ \E p \in [DOMAIN s -> DOMAIN t] : IsInjective(p) /\ \A i \in DOMAIN s : s[i] = t[p[i]]

AnagramAsks(s, t, out) == out = Rearranges(s, t)

\* groups[counts].push_back(s); the groups come out in the order of the hash.
groupAnagrams(strs) ==
    LET groups == FoldLeft(LAMBDA acc, s :
                     LET counts == Counted(s, <<>>)
                     IN (counts :> IF counts \in DOMAIN acc THEN Append(acc[counts], s) ELSE <<s>>) @@ acc,
                     <<>>, strs)
    IN Range(groups)

GroupsAsk(strs, out) ==
    /\ \A group \in out : group # <<>> /\ \A i, j \in DOMAIN group : Rearranges(group[i], group[j])
    /\ \A s \in Range(strs) : Cardinality({group \in out : s \in Range(group)}) = 1
    /\ \A g, h \in out : g # h => ~Rearranges(g[1], h[1])
    /\ MapThenSumSet(Len, out) = Len(strs)

-----------------------------------------------------------------------------
(* easy/1957.cpp makeFancyString, medium/238.cpp productExceptSelf         *)

makeFancyString(s) ==
    FoldLeft(LAMBDA acc, c :
       LET len == Len(acc)
       IN IF len >= 2 /\ acc[len] = c /\ acc[len - 1] = c THEN acc ELSE Append(acc, c),
       <<>>, s)

\* Of every run of a letter the first two.
FancyAsks(s, out) ==
    LET kept == SetToSortSeq({i \in DOMAIN s : ~(i > 2 /\ s[i - 2] = s[i] /\ s[i - 1] = s[i])}, <)
    IN out = [k \in DOMAIN kept |-> s[kept[k]]]

\* One pass for the products to the left, one for those to the right; nums is
\* not empty.
productExceptSelf(nums) ==
    LET left == FoldLeft(LAMBDA acc, n : Append(acc, n * Last(acc)), <<1>>, Front(nums))
    IN FoldRightDomain(LAMBDA i, acc : [out |-> [acc.out EXCEPT ![i] = acc.n * @], n |-> acc.n * nums[i]],
                       nums, [out |-> left, n |-> 1]).out

ProductAsks(nums, out) ==
    out = [i \in DOMAIN nums |-> FoldSeq(LAMBDA n, acc : n * acc, 1, RemoveAt(nums, i))]

-----------------------------------------------------------------------------
(* medium/647.cpp countSubstrings, hard/2484.cpp countPalindromes          *)

\* memo[i][j], computed for descending i: from i+1 and j-1.
countSubstrings(s) ==
    LET memo[i \in DOMAIN s, j \in DOMAIN s] ==
          i <= j /\ \/ i = j
                    \/ s[i] = s[j] /\ j - i = 1
                    \/ s[i] = s[j] /\ j - i > 1 /\ memo[i + 1, j - 1]
    IN Cardinality({ij \in (DOMAIN s) \X (DOMAIN s) : ij[1] <= ij[2] /\ memo[ij[1], ij[2]]})

SubstringsAsk(s, out) ==
    out = Cardinality({ij \in (DOMAIN s) \X (DOMAIN s) :
                         ij[1] <= ij[2] /\ SubSeq(s, ij[1], ij[2]) = Reverse(SubSeq(s, ij[1], ij[2]))})

Digits == 0 .. 1

\* pre[i]: how often each pair of digits is a subsequence of s[1..i]; digits
\* counts single ones.
Pairs2484(s) ==
    LET none == [jk \in Digits \X Digits |-> 0]
    IN FoldLeft(LAMBDA acc, val :
          [digits |-> [acc.digits EXCEPT ![val] = @ + 1],
           pre |-> Append(acc.pre, [jk \in Digits \X Digits |->
                      (IF acc.pre = <<>> THEN none ELSE Last(acc.pre))[jk]
                      + IF acc.pre # <<>> /\ jk[2] = val THEN acc.digits[jk[1]] ELSE 0])],
          [digits |-> [d \in Digits |-> 0], pre |-> <<>>], s).pre

\* suf is the same from the end; at each middle the products are added up (mod
\* 1e9 + 7, which no input within the bounds reaches).
countPalindromes(s) ==
    LET pre == Pairs2484(s)
        suf == Reverse(Pairs2484(Reverse(s)))
    IN MapThenSumSet(LAMBDA i : MapThenSumSet(LAMBDA jk : pre[i - 1][jk] * suf[i + 1][jk], Digits \X Digits),
                     2 .. Len(s) - 1)

PalindromesAsk(s, out) ==
    out = Cardinality({is \in kSubset(5, DOMAIN s) :
                         LET five == SetToSortSeq(is, <)
                         IN s[five[1]] = s[five[5]] /\ s[five[2]] = s[five[4]]})

-----------------------------------------------------------------------------
(* medium/36.cpp isValidSudoku: a board is the set of its entries, in      *)
(* records of row, column and digit.                                       *)

\* Mutant: the digits of a box are kept by its column of boxes only.
BoxColumn(row, col) == col \div 3

Box(row, col) == (row \div 3) * 3 + col \div 3

isValidSudoku(board) ==
    LET inOrder == SetToSortSeq(board, LAMBDA a, b : a.row < b.row \/ (a.row = b.row /\ a.col < b.col))
    IN FoldLeft(LAMBDA acc, e :
          LET now == {<<"row", e.row, e.entry>>, <<"col", e.col, e.entry>>, <<"box", Box(e.row, e.col), e.entry>>}
          IN [valid |-> acc.valid /\ acc.seen \cap now = {}, seen |-> acc.seen \cup now],
          [valid |-> TRUE, seen |-> {}], inOrder).valid

SudokuAsks(board, out) ==
    out = ~\E a, b \in board :
             /\ a # b /\ a.entry = b.entry
             /\ \/ a.row = b.row \/ a.col = b.col
                \/ a.row \in {3 * (b.row \div 3) + k : k \in 0 .. 2} /\ a.col \in {3 * (b.col \div 3) + k : k \in 0 .. 2}

-----------------------------------------------------------------------------
(* medium/1717.cpp maximumGain: 1 and 2 stand for the letters a and b.     *)

\* The stack left, and how often the pair was removed.
remove_substring(str, pair) ==
    FoldLeft(LAMBDA acc, c :
       IF c = pair[2] /\ acc.stack # <<>> /\ Last(acc.stack) = pair[1]
         THEN [stack |-> Front(acc.stack), removed |-> acc.removed + 1]
         ELSE [acc EXCEPT !.stack = Append(@, c)],
       [stack |-> <<>>, removed |-> 0], str)

maximumGain(s, x, y) ==
    LET first  == IF x > y THEN <<1, 2>> ELSE <<2, 1>>
        removed1 == remove_substring(s, first)
        removed2 == remove_substring(removed1.stack, Reverse(first))
    IN IF x > y THEN removed1.removed * x + removed2.removed * y
                ELSE removed1.removed * y + removed2.removed * x

\* The best of all orders in which pairs can be removed.
RECURSIVE Gain(_, _, _)
Gain(s, x, y) ==
    Max({0} \cup {(IF s[i] = 1 THEN x ELSE y) + Gain(RemoveAt(RemoveAt(s, i), i), x, y) :
                    i \in {k \in 1 .. Len(s) - 1 : SubSeq(s, k, k + 1) \in {<<1, 2>>, <<2, 1>>}}})

GainAsks(s, x, y, out) == out = Gain(s, x, y)

-----------------------------------------------------------------------------
(* hard/239.cpp maxSlidingWindow                                           *)

\* pop_back while the values at the back are not greater.
Popped(dq, nums, i) ==
    SubSeq(dq, 1, Max({0} \cup {p \in DOMAIN dq : nums[dq[p]] > nums[i]}))

\* dq holds positions; those out of the window leave at the front.
maxSlidingWindow(nums, k) ==
    FoldLeftDomain(LAMBDA acc, i :
       LET inside == IF i < k THEN acc.dq ELSE SelectSeq(acc.dq, LAMBDA p : p >= i - k + 1)
           dq == Append(Popped(inside, nums, i), i)
       IN [dq |-> dq, out |-> IF i < k THEN acc.out ELSE Append(acc.out, nums[dq[1]])],
       [dq |-> <<>>, out |-> <<>>], nums).out

WindowAsks(nums, k, out) ==
    out = [i \in 1 .. Len(nums) - k + 1 |-> Max({nums[j] : j \in i .. i + k - 1})]

-----------------------------------------------------------------------------
(* get_cracked/design_patterns/iterator: IntRange, from start to end       *)
(* inclusive, in an int whose greatest value is MaxInt.                    *)

IntRange(start, end, MaxInt) ==
    IF end = MaxInt THEN "overflow"
    ELSE LET walk[curr \in start .. Max({start, end + 1})] ==
               IF curr = end + 1 THEN <<>> ELSE <<curr>> \o walk[curr + 1]
         IN IF start > end + 1 THEN "overflow" ELSE walk[start]

\* A range reaches its end unless it is the greatest int or before the start.
RangeAsks(start, end, MaxInt, out) ==
    IF start - 1 <= end /\ end < MaxInt
      THEN Len(out) = end - start + 1 /\ \A i \in DOMAIN out : out[i] = start + i - 1
      ELSE out = "overflow"
=============================================================================
