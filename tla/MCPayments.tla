------------------------------ MODULE MCPayments ------------------------------
(* The checkout on small instances; see the .cfg files. *)
EXTENDS Payments, TLC

CONSTANTS o1, o2, p1, p2, h1, h2, s1, s2

BothForFirst == (p1 :> o1) @@ (p2 :> o1)
OneEach      == (p1 :> o1) @@ (p2 :> o2)

\* With BothForFirst, attempts, deliveries and sweeps are interchangeable.
Alike == Permutations(Payments) \cup Permutations(Hooks) \cup Permutations(Sweeps)

\* The second order is there to be verified with a payment of the first.
SecondStaysFresh == age[o2] = 0
=============================================================================
