------------------------------ MODULE MCCredits ------------------------------
(* The credit engine on small instances; see the .cfg files. *)
EXTENDS CreditHistory
=============================================================================
