-------------------------- MODULE MCSortedVectorSet --------------------------
(***************************************************************************)
(* SortedVectorSet instantiated for TLC: two set values, three keys, two  *)
(* payloads and batches of up to three elements.                          *)
(***************************************************************************)
EXTENDS SortedVectorSet

MCSetIds == {"a", "b"}

\* Three keys give a batch that both precedes and follows a held key, and
\* a batch with a clean prefix before its first duplicate pair.
MCKeys == 1..3

\* Two payloads tell apart which of two equal elements is kept.
MCVals == {"x", "y"}

MCMaxBatch == 3

\* No action reads call or ret, so states with equal sets have equal
\* futures; the properties on call and ret are action properties, which
\* TLC checks on every transition, also into a state already seen.
StateView == sets

=============================================================================
