---------------------------- MODULE MCMatchmaking ----------------------------
(* Likes and matches on small instances; see the .cfg files. *)
EXTENDS Matchmaking, TLC

CONSTANTS ana, bob, a, b, b2, r1, r2

RequestSymmetry == Permutations(Reqs)

AnaFirst  == (ana :> 1) @@ (bob :> 2)
OneEach   == (a :> ana) @@ (b :> bob)
B2Unowned == (a :> ana) @@ (b :> bob) @@ (b2 :> NoOwner)

\* An identity changes hands among likes without an end, no block, delete or restart.
ChangesApart ==
    used["changes"] > 0 => /\ used["deletes"] + used["blocks"] + used["restarts"] = 0
                           /\ now = 0
                           /\ \A l \in LikeIds : Row(l) => likes[l].expires = Never

\* Few of the other requests besides the likes.
FewOthers ==
    /\ used["deletes"] + used["unmatches"] + used["claims"] + used["changes"] <= 2
    /\ used["changes"] > 0 => used["likes"] <= 3
=============================================================================
