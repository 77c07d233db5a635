---- MODULE MCPageCache ----
(* An instance of PageCache for TLC. *)
EXTENDS PageCache, TLC

Symmetry == Permutations(Val) \union Permutations(Reader)
====
