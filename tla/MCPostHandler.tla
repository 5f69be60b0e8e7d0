--------------------------- MODULE MCPostHandler ---------------------------
(***************************************************************************)
(* Instances of PostHandler for TLC: two writers on one name whose stream  *)
(* is deleted and created again.                                           *)
(***************************************************************************)
EXTENDS PostHandler, TLC

SmallBatches == {<<>>, <<1>>}

WriterSymmetry == Permutations(Entries) \cup Permutations(Writers)
=============================================================================
