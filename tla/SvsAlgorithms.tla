--------------------------- MODULE SvsAlgorithms ---------------------------
(***************************************************************************)
(* The pure algorithms of SortedVectorSet<T>                               *)
(* (src/shed/sorted_vector_map/src/set.rs) as operators over sequences.    *)
(*                                                                         *)
(* An element is a record [key |-> k, val |-> v].  T's Ord (and the Eq     *)
(* consistent with it) compares the key only; val is a payload that Ord    *)
(* cannot see, so that the model can tell WHICH of two equal elements a    *)
(* merge keeps.  Indices returned by find_index and the range resolvers    *)
(* are 0-based, as in the Rust code; a 0-based index i is position i + 1   *)
(* of a TLA+ sequence.  Option<T> is modelled as a sequence of length 0    *)
(* (None) or 1 (Some).                                                     *)
(***************************************************************************)
EXTENDS Integers, Sequences, SequencesExt, FiniteSets, FiniteSetsExt

\* Ord::cmp on two elements, by key.
Cmp(a, b) ==
    IF a.key < b.key THEN "Less" ELSE IF a.key > b.key THEN "Greater" ELSE "Equal"

\* The comparison of two peeked cursors shared by MergeIter::next and
\* OperationInner::next: an exhausted side counts as greater, both
\* exhausted ends the scan.
PeekCmp(l, r) ==
    IF l # <<>> /\ r # <<>> THEN Cmp(l[1], r[1])
    ELSE IF l # <<>> THEN "Less"
    ELSE IF r # <<>> THEN "Greater"
    ELSE "None"

\* slice::binary_search_by on a sorted, duplicate-free sequence: Ok(index)
\* of the element with key q, or Err(insertion point).
find_index(s, q) ==
    LET at == {i \in DOMAIN s : s[i].key = q}
    IN  IF at # {}
        THEN [ok |-> TRUE, index |-> Min(at) - 1]
        ELSE [ok |-> FALSE, index |-> Cardinality({i \in DOMAIN s : s[i].key < q})]

\* A range bound: [kind |-> "Unbounded" | "Included" | "Excluded", key |-> k].
range_index_start(s, b) ==
    IF b.kind = "Unbounded" THEN 0
    ELSE LET f == find_index(s, b.key)
         IN  IF f.ok /\ b.kind = "Excluded" THEN f.index + 1 ELSE f.index

\* Bug variant of range_index_end: an Excluded bound that matches keeps
\* the matching element (index + 1 for both bound kinds).
range_index_end_excluded_off_by_one(s, b) ==
    IF b.kind = "Unbounded" THEN Len(s)
    ELSE LET f == find_index(s, b.key)
         IN  IF f.ok THEN f.index + 1 ELSE f.index

range_index_end(s, b) ==
    IF b.kind = "Unbounded" THEN Len(s)
    ELSE LET f == find_index(s, b.key)
         IN  IF f.ok /\ b.kind = "Included" THEN f.index + 1 ELSE f.index

\* SortedVectorSet::range: the slice [start..end), or a panic when the
\* resolved start index is after the resolved end index.
range(s, lo, hi) ==
    LET start == range_index_start(s, lo)
        end   == range_index_end(s, hi)
    IN  IF start > end
        THEN [panic |-> TRUE, items |-> <<>>]
        ELSE [panic |-> FALSE, items |-> SubSeq(s, start + 1, end)]

\* Bug variant of replace: the append fast path also taken for a value
\* equal to the maximum (<= instead of <).
replace_push_on_equal(s, value) ==
    IF Len(s) = 0 \/ s[Len(s)].key <= value.key
    THEN [set |-> Append(s, value), old |-> <<>>]
    ELSE LET f == find_index(s, value.key)
         IN  IF f.ok
             THEN [set |-> [s EXCEPT ![f.index + 1] = value], old |-> <<s[f.index + 1]>>]
             ELSE [set |-> InsertAt(s, f.index + 1, value), old |-> <<>>]

\* SortedVectorSet::replace: push when empty or after the maximum, else
\* overwrite an equal element in place or insert at the insertion point.
\* Returns the new sequence and the replaced element (Option).
replace(s, value) ==
    IF Len(s) = 0 \/ s[Len(s)].key < value.key
    THEN [set |-> Append(s, value), old |-> <<>>]
    ELSE LET f == find_index(s, value.key)
         IN  IF f.ok
             THEN [set |-> [s EXCEPT ![f.index + 1] = value], old |-> <<s[f.index + 1]>>]
             ELSE [set |-> InsertAt(s, f.index + 1, value), old |-> <<>>]

\* SortedVectorSet::take: remove the element equal to q, if any.
take(s, q) ==
    LET f == find_index(s, q)
    IN  IF f.ok
        THEN [set |-> RemoveAt(s, f.index + 1), old |-> <<s[f.index + 1]>>]
        ELSE [set |-> s, old |-> <<>>]

\* SortedVectorSet::split_off: the prefix before the first element >= q
\* stays, the suffix is returned.
split_off(s, q) ==
    LET index == find_index(s, q).index
    IN  [keep |-> SubSeq(s, 1, index), rest |-> SubSeq(s, index + 1, Len(s))]

\* Vec::sort, which is stable: equal elements keep their input order.
\* Insertion sort that places each element after every element not
\* greater than it.
InsertSorted(s, e) ==
    LET n == Cardinality({i \in DOMAIN s : s[i].key <= e.key})
    IN  SubSeq(s, 1, n) \o <<e>> \o SubSeq(s, n + 1, Len(s))

RECURSIVE StableSort(_)
StableSort(s) ==
    IF s = <<>> THEN <<>> ELSE InsertSorted(StableSort(Front(s)), Last(s))

\* DedupIter::next: take the next element and, while the element after it
\* is not greater, replace it by that one, so the LAST of a run of equal
\* elements is returned.  Returns the Option and the rest of the cursor.
RECURSIVE DedupSkip(_, _)
DedupSkip(next, rest) ==
    IF rest # <<>> /\ ~(rest[1].key > next.key)
    THEN DedupSkip(rest[1], Tail(rest))
    ELSE [item |-> <<next>>, rest |-> rest]

DedupNext(s) ==
    IF s = <<>> THEN [item |-> <<>>, rest |-> <<>>] ELSE DedupSkip(s[1], Tail(s))

\* DedupIter::new(s).collect().
RECURSIVE DedupIter(_)
DedupIter(s) ==
    IF s = <<>> THEN <<>>
    ELSE LET n == DedupNext(s) IN n.item \o DedupIter(n.rest)

\* Bug variant of MergeNext: on a tie the existing (left) element is
\* emitted and the new (right) one skipped.
MergeNext_left_wins(l, r) ==
    CASE PeekCmp(l, r) = "None"    -> [item |-> <<>>, l |-> l, r |-> r]
      [] PeekCmp(l, r) = "Less"    -> [item |-> <<l[1]>>, l |-> Tail(l), r |-> r]
      [] PeekCmp(l, r) = "Greater" ->
            LET d == DedupNext(r) IN [item |-> d.item, l |-> l, r |-> d.rest]
      [] PeekCmp(l, r) = "Equal"   ->
            LET d == DedupNext(r) IN [item |-> <<l[1]>>, l |-> Tail(l), r |-> d.rest]

\* MergeIter::next over a plain left cursor l and the cursor r under the
\* right DedupIter (whose peek is the inner peek): the smaller head is
\* emitted; on a tie the left head is skipped and the right one emitted.
MergeNext(l, r) ==
    CASE PeekCmp(l, r) = "None"    -> [item |-> <<>>, l |-> l, r |-> r]
      [] PeekCmp(l, r) = "Less"    -> [item |-> <<l[1]>>, l |-> Tail(l), r |-> r]
      [] PeekCmp(l, r) = "Greater" ->
            LET d == DedupNext(r) IN [item |-> d.item, l |-> l, r |-> d.rest]
      [] PeekCmp(l, r) = "Equal"   ->
            LET d == DedupNext(r) IN [item |-> d.item, l |-> Tail(l), r |-> d.rest]

\* MergeIter::new(l, r).collect().
RECURSIVE MergeIter(_, _)
MergeIter(l, r) ==
    LET n == MergeNext(l, r)
    IN  IF n.item = <<>> THEN <<>> ELSE n.item \o MergeIter(n.l, n.r)

\* The 1-based position of the first adjacent pair of equal elements of
\* a sorted sequence (tuple_windows().position(|(a, b)| a == b)), 0 if none.
FirstDupPair(s) ==
    LET P == {i \in 1..(Len(s) - 1) : s[i].key = s[i + 1].key}
    IN  IF P = {} THEN 0 ELSE Min(P)

\* The take-as-is path of extend_with_vec: a sorted batch is appended to
\* base verbatim when it has no duplicates; otherwise it is split at the
\* first duplicate pair, the clean prefix appended and the tail appended
\* through DedupIter.
DedupExtend(base, new) ==
    LET p == FirstDupPair(new)
    IN  IF p = 0 THEN base \o new
        ELSE base \o SubSeq(new, 1, p - 1) \o DedupIter(SubSeq(new, p, Len(new)))

\* Bug variant of extend_with_vec: the after-the-end fast path taken when
\* the batch starts AT the current maximum (<= instead of <).
extend_with_vec_append_on_tie(s, new) ==
    IF Len(new) = 0 THEN s
    ELSE IF Len(new) = 1 THEN replace(s, new[1]).set
    ELSE LET sorted == StableSort(new)
         IN  IF Len(s) = 0 THEN DedupExtend(<<>>, sorted)
             ELSE IF s[Len(s)].key <= sorted[1].key THEN DedupExtend(s, sorted)
             ELSE MergeIter(s, sorted)

\* SortedVectorSet::extend_with_vec.
extend_with_vec(s, new) ==
    IF Len(new) = 0 THEN s
    ELSE IF Len(new) = 1 THEN replace(s, new[1]).set
    ELSE LET sorted == StableSort(new)
         IN  IF Len(s) = 0 THEN DedupExtend(<<>>, sorted)
             ELSE IF s[Len(s)].key < sorted[1].key THEN DedupExtend(s, sorted)
             ELSE MergeIter(s, sorted)

\* SortedVectorSet::append: the new contents of self and other.
append(self, other) ==
    IF Len(other) = 0 THEN [self |-> self, other |-> other]
    ELSE IF Len(self) = 0 THEN [self |-> other, other |-> self]
    ELSE [self |-> MergeIter(self, other), other |-> <<>>]

-----------------------------------------------------------------------------
(* The set-algebra iterators.                                              *)

\* OperationInner::next: one (Option, Option) pair of the shared merge
\* scan, as an Option, and the advanced cursors.
InnerNext(l, r) ==
    CASE PeekCmp(l, r) = "None"    -> [pair |-> <<>>, l |-> l, r |-> r]
      [] PeekCmp(l, r) = "Less"    ->
            [pair |-> <<[left |-> <<l[1]>>, right |-> <<>>]>>, l |-> Tail(l), r |-> r]
      [] PeekCmp(l, r) = "Greater" ->
            [pair |-> <<[left |-> <<>>, right |-> <<r[1]>>]>>, l |-> l, r |-> Tail(r)]
      [] PeekCmp(l, r) = "Equal"   ->
            [pair |-> <<[left |-> <<l[1]>>, right |-> <<r[1]>>]>>, l |-> Tail(l), r |-> Tail(r)]

\* The match arms of the four filters: what a pair yields, as an Option.
\* Difference: (Some(left), None).
DifferenceArm(p) == IF p.left # <<>> /\ p.right = <<>> THEN p.left ELSE <<>>

\* SymmetricDifference: (Some(left), None) or (None, Some(right)).
SymmetricDifferenceArm(p) ==
    IF p.right = <<>> THEN p.left ELSE IF p.left = <<>> THEN p.right ELSE <<>>

\* Intersection: (Some(left), Some(_)) yields left.
IntersectionArm(p) == IF p.left # <<>> /\ p.right # <<>> THEN p.left ELSE <<>>

\* Union: (_, Some(right)) yields right, (Some(left), None) left.
UnionArm(p) == IF p.right # <<>> THEN p.right ELSE p.left

Arm(op, p) ==
    CASE op = "difference"           -> DifferenceArm(p)
      [] op = "symmetric_difference" -> SymmetricDifferenceArm(p)
      [] op = "intersection"         -> IntersectionArm(p)
      [] op = "union"                -> UnionArm(p)

\* Bug variant of FilterNext: a pair the filter does not keep ends the
\* iteration (`_ => return None` instead of `_ => continue`).
FilterNext_stops_on_skip(op, l, r) ==
    LET n == InnerNext(l, r)
    IN  IF n.pair = <<>> \/ Arm(op, n.pair[1]) = <<>>
        THEN [item |-> <<>>, l |-> n.l, r |-> n.r]
        ELSE [item |-> Arm(op, n.pair[1]), l |-> n.l, r |-> n.r]

\* The next() of a filter: `for next in self.0.by_ref()` pulls pairs until
\* one yields an element or the scan ends.
RECURSIVE FilterNext(_, _, _)
FilterNext(op, l, r) ==
    LET n == InnerNext(l, r)
    IN  IF n.pair = <<>> THEN [item |-> <<>>, l |-> n.l, r |-> n.r]
        ELSE IF Arm(op, n.pair[1]) # <<>> THEN [item |-> Arm(op, n.pair[1]), l |-> n.l, r |-> n.r]
        ELSE FilterNext(op, n.l, n.r)

\* The filter started on cursors l and r, collected.
RECURSIVE Collect(_, _, _)
Collect(op, l, r) ==
    LET n == FilterNext(op, l, r)
    IN  IF n.item = <<>> THEN <<>> ELSE n.item \o Collect(op, n.l, n.r)

\* is_disjoint: self.intersection(other).next().is_none(); is_subset:
\* other.difference(self).next().is_none().
is_disjoint(self, other) == FilterNext("intersection", self, other).item = <<>>
is_subset(self, other) == FilterNext("difference", other, self).item = <<>>

=============================================================================
