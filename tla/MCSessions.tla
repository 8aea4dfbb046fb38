------------------------------ MODULE MCSessions ------------------------------
(* Sessions on small instances; see the .cfg files. *)
EXTENDS Sessions, TLC

SessionSymmetry == Permutations(Families) \cup Permutations(Instances) \cup Permutations(Reqs)
=============================================================================
