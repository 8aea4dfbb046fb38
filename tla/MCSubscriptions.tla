--------------------------- MODULE MCSubscriptions ---------------------------
(* Subscriptions on small instances; see the .cfg files. *)
EXTENDS Subscriptions, TLC

Alike == Permutations(Hooks) \cup Permutations(Clients)
=============================================================================
