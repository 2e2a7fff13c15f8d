--------------------------- MODULE SortedVectorSet ---------------------------
(***************************************************************************)
(* SortedVectorSet<T> (src/shed/sorted_vector_map/src/set.rs) as a state   *)
(* machine: a few set values, each its backing Vec<T>, and one action per  *)
(* public method, taking its arguments from small sets.  A method runs to  *)
(* completion in one step (the type is not internally synchronised and     *)
(* every method takes &self or &mut self, so no two calls on one set       *)
(* overlap).  `call` records the last call and its arguments and `ret`     *)
(* its result; no action reads them.                                       *)
(***************************************************************************)
EXTENDS SvsAlgorithms

CONSTANTS
    SetIds,     \* the set values a program holds
    Keys,       \* the keys T's Ord compares (a finite set of integers)
    Vals,       \* payloads Ord does not see
    MaxBatch    \* the longest batch given to extend

ASSUME Keys \subseteq Int /\ MaxBatch \in Nat

VARIABLES sets, call, ret

vars == <<sets, call, ret>>

Elem == [key : Keys, val : Vals]

\* The contents a BTreeSet<T> can have: no two elements with one key.
BTreeSets == {S \in SUBSET Elem : \A x, y \in S : x.key = y.key => x = y}

Bound == {[kind |-> "Unbounded", key |-> 0]} \cup [kind : {"Included", "Excluded"}, key : Keys]

Init ==
    /\ sets = [s \in SetIds |-> <<>>]
    /\ call = [name |-> "new"]
    /\ ret = "unit"

Put(s, seq) == sets' = [sets EXCEPT ![s] = seq]

\* insert: replace(value).is_none().
SetInsert(s, e) ==
    /\ Put(s, replace(sets[s], e).set)
    /\ ret' = (replace(sets[s], e).old = <<>>)
    /\ call' = [name |-> "insert", set |-> s, value |-> e]

SetReplace(s, e) ==
    /\ Put(s, replace(sets[s], e).set)
    /\ ret' = replace(sets[s], e).old
    /\ call' = [name |-> "replace", set |-> s, value |-> e]

\* remove: take(value).is_some().
SetRemove(s, k) ==
    /\ Put(s, take(sets[s], k).set)
    /\ ret' = (take(sets[s], k).old # <<>>)
    /\ call' = [name |-> "remove", set |-> s, key |-> k]

SetTake(s, k) ==
    /\ Put(s, take(sets[s], k).set)
    /\ ret' = take(sets[s], k).old
    /\ call' = [name |-> "take", set |-> s, key |-> k]

\* retain(f) is Vec::retain: the elements f accepts, in order.  The
\* predicate is modelled by the set of keys it accepts.
SetRetain(s, keep) ==
    /\ Put(s, SelectSeq(sets[s], LAMBDA x : x.key \in keep))
    /\ ret' = "unit"
    /\ call' = [name |-> "retain", set |-> s, keep |-> keep]

\* append(&mut self, other: &mut Self): two distinct sets.
SetAppend(s, t) ==
    /\ s # t
    /\ sets' = [sets EXCEPT ![s] = append(sets[s], sets[t]).self,
                            ![t] = append(sets[s], sets[t]).other]
    /\ ret' = "unit"
    /\ call' = [name |-> "append", set |-> s, other |-> t]

\* let t = s.split_off(q): the returned suffix becomes the set t.
SetSplitOff(s, t, q) ==
    /\ s # t
    /\ sets' = [sets EXCEPT ![s] = split_off(sets[s], q).keep,
                            ![t] = split_off(sets[s], q).rest]
    /\ ret' = "unit"
    /\ call' = [name |-> "split_off", set |-> s, into |-> t, key |-> q]

\* pop_last is Vec::pop.
SetPopLast(s) ==
    /\ Put(s, IF sets[s] = <<>> THEN <<>> ELSE Front(sets[s]))
    /\ ret' = IF sets[s] = <<>> THEN <<>> ELSE <<Last(sets[s])>>
    /\ call' = [name |-> "pop_last", set |-> s]

SetClear(s) ==
    /\ Put(s, <<>>)
    /\ ret' = "unit"
    /\ call' = [name |-> "clear", set |-> s]

\* Extend::extend collects the iterator into a Vec and calls
\* extend_with_vec.
SetExtend(s, batch) ==
    /\ Put(s, extend_with_vec(sets[s], batch))
    /\ ret' = "unit"
    /\ call' = [name |-> "extend", set |-> s, batch |-> batch]

\* FromIterator::from_iter: a new set extended with the collected Vec.
from_iter(vec) == extend_with_vec(<<>>, vec)

\* sorted_vector_set![v1, ..., vn]: with_capacity(n), then insert of each
\* value in order.
RECURSIVE sorted_vector_set(_, _)
sorted_vector_set(acc, values) ==
    IF values = <<>> THEN acc
    ELSE sorted_vector_set(replace(acc, Head(values)).set, Tail(values))

\* Arbitrary::arbitrary (and each candidate of shrink): an arbitrary Vec
\* collected into a set.
SetCollect(s, vec) ==
    /\ Put(s, from_iter(vec))
    /\ ret' = "unit"
    /\ call' = [name |-> "collect", set |-> s, values |-> vec]

SetMacro(s, values) ==
    /\ Put(s, sorted_vector_set(<<>>, values))
    /\ ret' = "unit"
    /\ call' = [name |-> "macro", set |-> s, values |-> values]

\* From<BTreeSet<T>>: the BTreeSet's ascending iteration collected as the
\* vector, with no sort or dedup.  A BTreeSet holds no two equal elements.
SetFromBTreeSet(s, bset) ==
    /\ Put(s, SetToSortSeq(bset, LAMBDA x, y : x.key < y.key))
    /\ ret' = "unit"
    /\ call' = [name |-> "from_btreeset", set |-> s, bset |-> bset]

\* &a & &b, &a - &b, &a ^ &b, &a | &b: the set-algebra iterator is cloned
\* and collected (FromIterator: a new set extended with the Vec), and the
\* result stored in the set `into`.
BitOpItems(op, a, b) ==
    CASE op = "and" -> Collect("intersection", a, b)
      [] op = "sub" -> Collect("difference", a, b)
      [] op = "xor" -> Collect("symmetric_difference", a, b)
      [] op = "or"  -> Collect("union", a, b)

SetBitOp(into, s, t, op) ==
    /\ Put(into, from_iter(BitOpItems(op, sets[s], sets[t])))
    /\ ret' = "unit"
    /\ call' = [name |-> "bitop", op |-> op, set |-> s, other |-> t, into |-> into]

\* The read-only queries.
SetContains(s, k) ==
    /\ ret' = find_index(sets[s], k).ok
    /\ call' = [name |-> "contains", set |-> s, key |-> k]
    /\ UNCHANGED sets

SetRange(s, lo, hi) ==
    /\ ret' = range(sets[s], lo, hi)
    /\ call' = [name |-> "range", set |-> s, lo |-> lo, hi |-> hi]
    /\ UNCHANGED sets

\* get: find_index(q).ok().map(|index| &self.0[index]).
SetGet(s, k) ==
    /\ ret' = IF find_index(sets[s], k).ok THEN <<sets[s][find_index(sets[s], k).index + 1]>> ELSE <<>>
    /\ call' = [name |-> "get", set |-> s, key |-> k]
    /\ UNCHANGED sets

\* first and last are Vec::first and Vec::last.
SetFirst(s) ==
    /\ ret' = IF sets[s] = <<>> THEN <<>> ELSE <<Head(sets[s])>>
    /\ call' = [name |-> "first", set |-> s]
    /\ UNCHANGED sets

SetLast(s) ==
    /\ ret' = IF sets[s] = <<>> THEN <<>> ELSE <<Last(sets[s])>>
    /\ call' = [name |-> "last", set |-> s]
    /\ UNCHANGED sets

\* len and is_empty are Vec::len and Vec::is_empty.
SetLen(s) ==
    /\ ret' = Len(sets[s])
    /\ call' = [name |-> "len", set |-> s]
    /\ UNCHANGED sets

SetIsEmpty(s) ==
    /\ ret' = (sets[s] = <<>>)
    /\ call' = [name |-> "is_empty", set |-> s]
    /\ UNCHANGED sets

\* iter, into_iter and into_inner hand out the vector as it is.
SetIter(s) ==
    /\ ret' = sets[s]
    /\ call' = [name |-> "iter", set |-> s]
    /\ UNCHANGED sets

SetIsDisjoint(s, t) ==
    /\ ret' = is_disjoint(sets[s], sets[t])
    /\ call' = [name |-> "is_disjoint", set |-> s, other |-> t]
    /\ UNCHANGED sets

SetIsSubset(s, t) ==
    /\ ret' = is_subset(sets[s], sets[t])
    /\ call' = [name |-> "is_subset", set |-> s, other |-> t]
    /\ UNCHANGED sets

\* is_superset(self, other) is other.is_subset(self).
SetIsSuperset(s, t) ==
    /\ ret' = is_subset(sets[t], sets[s])
    /\ call' = [name |-> "is_superset", set |-> s, other |-> t]
    /\ UNCHANGED sets

Next ==
    \/ \E s \in SetIds, e \in Elem : SetInsert(s, e) \/ SetReplace(s, e)
    \/ \E s \in SetIds, k \in Keys :
          SetRemove(s, k) \/ SetTake(s, k) \/ SetContains(s, k) \/ SetGet(s, k)
    \/ \E s \in SetIds, keep \in SUBSET Keys : SetRetain(s, keep)
    \/ \E s, t \in SetIds : SetAppend(s, t) \/ SetIsDisjoint(s, t) \/ SetIsSubset(s, t) \/ SetIsSuperset(s, t)
    \/ \E s, t \in SetIds, q \in Keys : SetSplitOff(s, t, q)
    \/ \E s \in SetIds :
          \/ SetPopLast(s) \/ SetClear(s)
          \/ SetFirst(s) \/ SetLast(s) \/ SetLen(s) \/ SetIsEmpty(s) \/ SetIter(s)
    \/ \E s \in SetIds, batch \in BoundedSeq(Elem, MaxBatch) :
          SetExtend(s, batch) \/ SetCollect(s, batch) \/ SetMacro(s, batch)
    \/ \E s \in SetIds, bset \in BTreeSets : SetFromBTreeSet(s, bset)
    \/ \E into, s, t \in SetIds, op \in {"and", "sub", "xor", "or"} : SetBitOp(into, s, t, op)
    \/ \E s \in SetIds, lo, hi \in Bound : SetRange(s, lo, hi)

Spec == Init /\ [][Next]_vars

-----------------------------------------------------------------------------
(* Properties.                                                             *)

\* The contents of a set, as the abstract specification sees them.
Contents(s) == ToSet(sets[s])

KeySet(s) == {x.key : x \in Contents(s)}

TypeOK ==
    /\ sets \in [SetIds -> BoundedSeq(Elem, Cardinality(Keys))]
    /\ call.name \in {"new", "insert", "replace", "remove", "take", "retain", "append",
                      "split_off", "pop_last", "clear", "extend", "bitop", "collect",
                      "macro", "from_btreeset", "contains", "get", "first", "last",
                      "len", "is_empty", "iter", "range", "is_disjoint",
                      "is_subset", "is_superset"}

\* Invariants I1/I2 of the backing Vec: after every call of every method,
\* on every path of extend_with_vec, replace and append, each set is
\* strictly ascending, so no key is held twice.
SortedUnique ==
    \A s \in SetIds : \A i \in 1..(Len(sets[s]) - 1) : sets[s][i].key < sets[s][i + 1].key

\* Every sequence of calls refines AbstractSet: the vector-level algorithms
\* (the three paths of extend_with_vec with their stable sort, duplicate
\* scan and DedupIter, MergeIter's tie rule, replace's binary search, the
\* set-operator collects) give the contents and return values of the
\* mathematical operations with "the later value wins".
Abs == INSTANCE AbstractSet WITH content <- [s \in SetIds |-> Contents(s)]

Refinement == Abs!Spec

\* The answers of the read-only methods, against the abstract contents
\* (so against the whole history of writes): contains is membership by
\* key; get returns the element last written with that key; first and
\* last the least and greatest element; len the number of distinct keys
\* and is_empty whether there are none; iter the contents in ascending
\* order; is_disjoint empty key intersection; range with bounds in order
\* exactly the held elements within the bounds, ascending.
InBounds(k, lo, hi) ==
    /\ lo.kind = "Included" => k >= lo.key
    /\ lo.kind = "Excluded" => k > lo.key
    /\ hi.kind = "Included" => k <= hi.key
    /\ hi.kind = "Excluded" => k < hi.key

\* Bounds that BTreeSet::range rejects: start after end, or equal and both
\* excluded.
Inverted(lo, hi) ==
    /\ lo.kind # "Unbounded" /\ hi.kind # "Unbounded"
    /\ \/ lo.key > hi.key
       \/ lo.key = hi.key /\ lo.kind = "Excluded" /\ hi.kind = "Excluded"

QueryAnswer ==
    LET s == call'.set IN
    CASE call'.name = "contains" -> ret' = (call'.key \in KeySet(s))
      [] call'.name = "get" -> ret' = Abs!Lookup(Contents(s), call'.key)
      [] call'.name = "first" -> ret' = IF Contents(s) = {} THEN <<>>
                                        ELSE Abs!Lookup(Contents(s), Min(KeySet(s)))
      [] call'.name = "last" -> ret' = IF Contents(s) = {} THEN <<>>
                                       ELSE Abs!Lookup(Contents(s), Max(KeySet(s)))
      [] call'.name = "len" -> ret' = Cardinality(KeySet(s))
      [] call'.name = "is_empty" -> ret' = (Contents(s) = {})
      [] call'.name = "iter" -> ret' = SetToSortSeq(Contents(s), LAMBDA x, y : x.key < y.key)
      [] call'.name = "is_disjoint" -> ret' = (KeySet(s) \cap KeySet(call'.other) = {})
      [] call'.name = "range" /\ ~Inverted(call'.lo, call'.hi) ->
            /\ ~ret'.panic
            /\ ToSet(ret'.items) = {x \in Contents(s) : InBounds(x.key, call'.lo, call'.hi)}
            /\ \A i \in 1..(Len(ret'.items) - 1) : ret'.items[i].key < ret'.items[i + 1].key
      [] OTHER -> TRUE

QueryAnswers == [][QueryAnswer]_vars

\* The doc comments of is_subset and is_superset: "Returns true if self is
\* a subset of other, i.e. other contains at least all values in self", and
\* the converse for is_superset.  The code computes
\* other.difference(self).next().is_none() for is_subset.
SubsetAnswer ==
    LET mine == KeySet(call'.set)
        theirs == KeySet(call'.other)
    IN  /\ call'.name = "is_subset" => ret' = (mine \subseteq theirs)
        /\ call'.name = "is_superset" => ret' = (theirs \subseteq mine)

SubsetAsDocumented == [][SubsetAnswer]_vars

\* The doc comment of range: "Panics if the range start is after the range
\* end", as BTreeSet::range does; spec section 4.2 asks for a fault rather
\* than a silently empty range.  The code compares the resolved indices.
RangeFault ==
    call'.name = "range" /\ Inverted(call'.lo, call'.hi) => ret'.panic

RangePanicsOnInvertedBounds == [][RangeFault]_vars

=============================================================================
