---------------------------- MODULE MCStoreFlush ----------------------------
(***************************************************************************)
(* Instances of StoreFlush for TLC. Keys and documents are model values    *)
(* that no definition tells apart, so their permutations are symmetries of *)
(* the specification; the liveness run does not use them.                  *)
(***************************************************************************)
EXTENDS StoreRefinement, TLC

Sym == Permutations(Key) \union Permutations(Val)

\* A file of the old format that holds the same document for every key.
MCV1Docs == {[k \in Key |-> v] : v \in Val}
=============================================================================
