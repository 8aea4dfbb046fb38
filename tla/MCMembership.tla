---------------------------- MODULE MCMembership ----------------------------
(* Accounts on small instances; see the .cfg files. *)
EXTENDS Membership, TLC

CONSTANTS phone, phone2, mail

Kinds == (phone :> "PHONE") @@ (phone2 :> "PHONE") @@ (mail :> "EMAIL")

Few ==
    LET Up(r, c, p, m, e, f, o) == [requests |-> r, checks |-> c, purchases |-> p, messages |-> m,
                                    exports |-> e, faults |-> f, overlaps |-> o,
                                    values |-> {phone, phone2}]
    IN {Up(3, 0, 0, 0, 0, 0, 0), Up(1, 2, 0, 0, 0, 0, 0), Up(1, 0, 1, 0, 0, 0, 0),
        Up(1, 0, 0, 2, 0, 1, 0), Up(1, 0, 0, 0, 1, 1, 1), Up(0, 0, 0, 1, 1, 1, 0), Up(0, 0, 0, 2, 1, 0, 0)}

Alike == Permutations(Accounts) \cup Permutations(Rows) \cup Permutations(Reqs)
         \cup Permutations({phone, phone2}) \cup Permutations(Deliveries)
=============================================================================
