---------------------------- MODULE MCCatalogue ----------------------------
(* The catalogue on small instances; see the .cfg files. *)
EXTENDS Catalogue, TLC

FewCalls == {<<2, 0, 0>>, <<1, 0, 1>>, <<0, 2, 0>>, <<0, 1, 1>>}

\* At first the country has a price in one currency at most.
OneAtFirst ==
    Cardinality({c \in Currencies : record[c] # <<>> /\ record[c][1].id = 1}) <= 1

Alike == Permutations(Currencies) \cup Permutations(Gateways) \cup Permutations(Editors)
            \cup Permutations(Operators)
=============================================================================
