---------------------------- MODULE AbstractSet ----------------------------
(***************************************************************************)
(* What SortedVectorSet promises, with no vector, index or merge in it:    *)
(* each set is a finite set of elements with pairwise distinct keys, and   *)
(* every mutating call has the effect of the mathematical operation, with  *)
(* the "last value wins" rule of replace: a value given later (a later     *)
(* batch element, the other side of append, the right side of a union)     *)
(* replaces a held element with the same key.                              *)
(*                                                                         *)
(* `call` is the last call made and its arguments, `ret` what it          *)
(* returned; the implementation chooses the call, this module says what    *)
(* the call must do.  Read-only queries leave the contents unchanged;      *)
(* their answers are stated by separate properties of SortedVectorSet.     *)
(***************************************************************************)
EXTENDS Integers, Sequences, SequencesExt, FiniteSets, FiniteSetsExt

CONSTANTS SetIds, Keys, Vals

VARIABLES content, call, ret

avars == <<content, call, ret>>

Elem == [key : Keys, val : Vals]

KeysOf(S) == {x.key : x \in S}

\* The elements of S without the one whose key is k.
Without(S, k) == {x \in S : x.key # k}

\* The element of S with key k, as an Option.
Lookup(S, k) == IF k \in KeysOf(S) THEN <<CHOOSE x \in S : x.key = k>> ELSE <<>>

\* Adding e, replacing an element with the same key.
Put(S, e) == Without(S, e.key) \cup {e}

\* Everything of A with a key B does not have, plus all of B: B wins ties.
Overlay(A, B) == {x \in A : x.key \notin KeysOf(B)} \cup B

MaxKey(S) == Max(KeysOf(S))

BitOpResult(op, A, B) ==
    CASE op = "and" -> {x \in A : x.key \in KeysOf(B)}
      [] op = "sub" -> {x \in A : x.key \notin KeysOf(B)}
      [] op = "xor" -> {x \in A \cup B : x.key \notin KeysOf(A) \cap KeysOf(B)}
      [] op = "or"  -> Overlay(A, B)

Queries == {"contains", "get", "first", "last", "len", "is_empty", "iter", "range",
            "is_disjoint", "is_subset", "is_superset"}

Init ==
    /\ content = [s \in SetIds |-> {}]
    /\ call = [name |-> "new"]
    /\ ret = "unit"

Set(s, S) == content' = [content EXCEPT ![s] = S]

AInsert ==
    /\ call'.name = "insert"
    /\ Set(call'.set, Put(content[call'.set], call'.value))
    /\ ret' = (call'.value.key \notin KeysOf(content[call'.set]))

AReplace ==
    /\ call'.name = "replace"
    /\ Set(call'.set, Put(content[call'.set], call'.value))
    /\ ret' = Lookup(content[call'.set], call'.value.key)

ARemove ==
    /\ call'.name = "remove"
    /\ Set(call'.set, Without(content[call'.set], call'.key))
    /\ ret' = (call'.key \in KeysOf(content[call'.set]))

ATake ==
    /\ call'.name = "take"
    /\ Set(call'.set, Without(content[call'.set], call'.key))
    /\ ret' = Lookup(content[call'.set], call'.key)

ARetain ==
    /\ call'.name = "retain"
    /\ Set(call'.set, {x \in content[call'.set] : x.key \in call'.keep})
    /\ ret' = "unit"

AAppend ==
    /\ call'.name = "append"
    /\ content' = [content EXCEPT ![call'.set] = Overlay(content[call'.set], content[call'.other]),
                                  ![call'.other] = {}]
    /\ ret' = "unit"

ASplitOff ==
    /\ call'.name = "split_off"
    /\ content' = [content EXCEPT
                    ![call'.set] = {x \in content[call'.set] : x.key < call'.key},
                    ![call'.into] = {x \in content[call'.set] : x.key >= call'.key}]
    /\ ret' = "unit"

APopLast ==
    /\ call'.name = "pop_last"
    /\ IF content[call'.set] = {}
       THEN UNCHANGED content /\ ret' = <<>>
       ELSE LET S == content[call'.set]
            IN  /\ Set(call'.set, Without(S, MaxKey(S)))
                /\ ret' = Lookup(S, MaxKey(S))

AClear ==
    /\ call'.name = "clear"
    /\ Set(call'.set, {})
    /\ ret' = "unit"

\* Extending with a batch has the effect of putting its elements one by
\* one, in batch order.
AExtend ==
    /\ call'.name = "extend"
    /\ Set(call'.set, FoldLeft(Put, content[call'.set], call'.batch))
    /\ ret' = "unit"

ABitOp ==
    /\ call'.name = "bitop"
    /\ Set(call'.into, BitOpResult(call'.op, content[call'.set], content[call'.other]))
    /\ ret' = "unit"

\* Building a set from values (collect, the sorted_vector_set! macro) puts
\* them one by one, in order; from a BTreeSet takes its elements.
AFromValues ==
    /\ call'.name \in {"collect", "macro"}
    /\ Set(call'.set, FoldLeft(Put, {}, call'.values))
    /\ ret' = "unit"

AFromBTreeSet ==
    /\ call'.name = "from_btreeset"
    /\ Set(call'.set, call'.bset)
    /\ ret' = "unit"

AQuery ==
    /\ call'.name \in Queries
    /\ UNCHANGED content

Next ==
    \/ AInsert \/ AReplace \/ ARemove \/ ATake \/ ARetain \/ AAppend
    \/ ASplitOff \/ APopLast \/ AClear \/ AExtend \/ ABitOp \/ AFromValues
    \/ AFromBTreeSet \/ AQuery

Spec == Init /\ [][Next]_avars

=============================================================================
