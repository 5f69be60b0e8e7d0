---------------------------- MODULE MCGetHandler ----------------------------
(***************************************************************************)
(* Instances of GetHandler for TLC: one name whose stream is deleted and   *)
(* created again, and batches of one message or none.                      *)
(***************************************************************************)
EXTENDS GetHandler, TLC

SmallBatches == {<<>>, <<1>>}

EntrySymmetry == Permutations(Entries)
=============================================================================
