---------------------------- MODULE MCRecordScan ----------------------------
(***************************************************************************)
(* Instances of RecordScan for TLC.                                        *)
(***************************************************************************)
EXTENDS RecordScan

Sym == Permutations(Key) \union Permutations(Val)
=============================================================================
