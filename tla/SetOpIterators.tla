--------------------------- MODULE SetOpIterators ---------------------------
(***************************************************************************)
(* The lazy iterators of SortedVectorSet (src/shed/sorted_vector_map/     *)
(* src/set.rs) driven one next() call at a time: Difference,              *)
(* SymmetricDifference, Intersection and Union over two sets, and the     *)
(* MergeIter that extend_with_vec and append collect.  The state is the   *)
(* iterator's cursors (the unconsumed rest of each Peekable input) and    *)
(* what it has yielded so far; size_hint is evaluated in every state.     *)
(*                                                                         *)
(* usize is scaled down to 0..MaxUsize so that the checked_add of the     *)
(* upper bounds can overflow with inputs TLC can enumerate; every slice   *)
(* length stays within usize, as it must.                                 *)
(***************************************************************************)
EXTENDS SvsAlgorithms

CONSTANTS
    Keys,       \* the keys T's Ord compares
    Vals,       \* payloads Ord does not see
    MaxBatch,   \* the longest batch extend_with_vec merges
    MaxUsize    \* usize::MAX, scaled

ASSUME Keys \subseteq Int /\ Cardinality(Keys) <= MaxUsize /\ MaxBatch <= MaxUsize

VARIABLES
    op,         \* which iterator
    input,      \* the two sequences it was created over
    left,       \* the unconsumed rest of the left cursor
    right,      \* the unconsumed rest of the right cursor
    out,        \* what next() has yielded so far
    done        \* next() has returned None

vars == <<op, input, left, right, out, done>>

Elem == [key : Keys, val : Vals]

Filters == {"difference", "symmetric_difference", "intersection", "union"}

\* The contents of a SortedVectorSet: strictly ascending.
SetSeqs == {s \in BoundedSeq(Elem, Cardinality(Keys)) :
                \A i \in 1..(Len(s) - 1) : s[i].key < s[i + 1].key}

\* A batch after extend_with_vec's stable sort: ascending, ties in any
\* order of their values.
SortedBatches == {s \in BoundedSeq(Elem, MaxBatch) :
                    \A i \in 1..(Len(s) - 1) : s[i].key <= s[i + 1].key}

\* The inputs MergeIter is created over: extend_with_vec's merge path (a
\* non-empty set and a sorted batch of at least two elements that does not
\* lie wholly after it) and append (two non-empty sets).
MergeInputs ==
    {<<s, b>> \in SetSeqs \X SortedBatches :
        s # <<>> /\ Len(b) >= 2 /\ ~(s[Len(s)].key < b[1].key)}
    \cup {<<s, o>> \in SetSeqs \X SetSeqs : s # <<>> /\ o # <<>>}

\* difference, symmetric_difference, intersection, union: OperationInner
\* over self.iter().peekable() and other.iter().peekable().
Init ==
    /\ \/ op \in Filters /\ input \in SetSeqs \X SetSeqs
       \/ op = "merge" /\ input \in MergeInputs
    /\ left = input[1]
    /\ right = input[2]
    /\ out = <<>>
    /\ done = FALSE

\* One next() call.
IterNext ==
    LET n == IF op = "merge" THEN MergeNext(left, right) ELSE FilterNext(op, left, right)
    IN  /\ left' = n.l
        /\ right' = n.r
        /\ out' = out \o n.item
        /\ done' = (n.item = <<>>)
        /\ UNCHANGED <<op, input>>

Next == IterNext

Spec == Init /\ [][Next]_vars

-----------------------------------------------------------------------------
(* size_hint.  A hint is [low |-> n, high |-> Option].                     *)

\* Peekable<slice::Iter> and Peekable<vec::IntoIter>: exact, the peeked
\* element included.
PeekableHint(s) == [low |-> Len(s), high |-> <<Len(s)>>]

\* DedupIter::size_hint: (low.min(1), high) of its Peekable.
DedupIter_size_hint(s) ==
    [low |-> IF Len(s) < 1 THEN Len(s) ELSE 1, high |-> <<Len(s)>>]

\* usize::checked_add as an Option.
CheckedAdd(x, y) == IF x + y <= MaxUsize THEN <<x + y>> ELSE <<>>

HighSum(a, b) == IF a.high # <<>> /\ b.high # <<>> THEN CheckedAdd(a.high[1], b.high[1]) ELSE <<>>

MaxOf(x, y) == IF x >= y THEN x ELSE y

\* MergeIter::size_hint.
MergeIter_size_hint(l, r) ==
    LET lh == PeekableHint(l)
        rh == DedupIter_size_hint(r)
    IN  [low |-> MaxOf(lh.low, rh.low), high |-> HighSum(lh, rh)]

\* Bug variant of Difference::size_hint: plain subtraction, which wraps in
\* a release build, instead of saturating_sub.
Difference_size_hint_wrapping(l, r) ==
    LET lh == PeekableHint(l)
        rh == PeekableHint(r)
    IN  [low |-> IF rh.high # <<>> THEN (lh.low - rh.high[1]) % (MaxUsize + 1) ELSE 0,
         high |-> lh.high]

\* Difference::size_hint: low is left_low.saturating_sub(right_high).
Difference_size_hint(l, r) ==
    LET lh == PeekableHint(l)
        rh == PeekableHint(r)
    IN  [low |-> IF rh.high # <<>> THEN MaxOf(lh.low - rh.high[1], 0) ELSE 0,
         high |-> lh.high]

SymmetricDifference_size_hint(l, r) ==
    [low |-> 0, high |-> HighSum(PeekableHint(l), PeekableHint(r))]

Intersection_size_hint(l, r) ==
    LET lh == PeekableHint(l)
        rh == PeekableHint(r)
    IN  [low |-> 0,
         high |-> IF lh.high # <<>> /\ rh.high # <<>>
                  THEN <<IF lh.high[1] <= rh.high[1] THEN lh.high[1] ELSE rh.high[1]>>
                  ELSE <<>>]

Union_size_hint(l, r) ==
    LET lh == PeekableHint(l)
        rh == PeekableHint(r)
    IN  [low |-> MaxOf(lh.low, rh.low), high |-> HighSum(lh, rh)]

SizeHint ==
    CASE op = "merge"                -> MergeIter_size_hint(left, right)
      [] op = "difference"           -> Difference_size_hint(left, right)
      [] op = "symmetric_difference" -> SymmetricDifference_size_hint(left, right)
      [] op = "intersection"         -> Intersection_size_hint(left, right)
      [] op = "union"                -> Union_size_hint(left, right)

-----------------------------------------------------------------------------
(* Properties.                                                             *)

KeysOf(S) == {x.key : x \in S}

\* The element of the sequence s with key k that comes last.
LastWithKey(s, k) == s[Max({i \in DOMAIN s : s[i].key = k})]

\* The mathematical result of each iterator over its inputs A and B (sets)
\* and b (the right sequence): the filter tables of spec section 4.3, and
\* for MergeIter the right side winning ties, with the last of each run of
\* equal keys in the batch.
Reference(o, a, b) ==
    LET A == ToSet(a)
        B == ToSet(b)
    IN  CASE o = "difference"           -> {x \in A : x.key \notin KeysOf(B)}
          [] o = "symmetric_difference" -> {x \in A \cup B : x.key \notin KeysOf(A) \cap KeysOf(B)}
          [] o = "intersection"         -> {x \in A : x.key \in KeysOf(B)}
          [] o = "union"                -> {x \in A : x.key \notin KeysOf(B)} \cup B
          [] o = "merge"                -> {x \in A : x.key \notin KeysOf(B)}
                                             \cup {LastWithKey(b, k) : k \in KeysOf(B)}

\* The whole iteration the operation must yield: the reference result in
\* ascending key order.  It depends on the inputs only, never on the
\* iterator's cursors.
Expected == SetToSortSeq(Reference(op, input[1], input[2]), LAMBDA x, y : x.key < y.key)

\* Spec section 4.3: size hints "must never overstate the true low bound or
\* understate the true high bound", in every state of the iteration, also
\* when the checked_add of the upper bounds overflows and when the
\* subtraction of Difference's lower bound would go below zero.  The true
\* number of elements still to come is what the reference result has
\* beyond what next() has already returned.
SizeHintSound ==
    LET rest == Len(Expected) - Len(out)
    IN  /\ SizeHint.low <= rest
        /\ SizeHint.high # <<>> => rest <= SizeHint.high[1]

\* After every next() call, what the iterator has yielded is a prefix of
\* the reference result in ascending order, and once next() has returned
\* None it is all of it: the peekable cursors, the by_ref() loop of the
\* filters and DedupIter's look-ahead never lose, repeat or reorder an
\* element from one call to the next, and never stop early.
YieldsOperation ==
    /\ IsPrefix(out, Expected)
    /\ done => out = Expected

=============================================================================
