--------------------------- MODULE MCIndexManager ---------------------------
(* Instance of IndexManager for TLC.                                       *)
EXTENDS IndexManager, TLC

IdSymmetry == Permutations(Ids)
=============================================================================
