----------------------------- MODULE MCSnapshot ------------------------------
(* Snapshot on small instances; and, before it, the search over all paths of  *)
(* up to three segments, which has no state.                                  *)
EXTENDS Snapshot, EndpointSearch

CONSTANTS w1, n1, n2, s1, s2, i1, i2, a1, a2, c1, c2

Symmetry == Permutations(Ids) \union Permutations(Addrs) \union Permutations(Contents)

Upto(n, S) == UNION {[1..k -> S] : k \in 1..n}

MCPaths == Upto(3, SegmentNames \union {Param})
MCQueries == Upto(3, {"n", "long", "*", "?", "**", Param})
MCStores == [1..4 -> {<<"n">>, <<"n", Param>>, <<"n", "n">>, <<"m">>}]

ASSUME SearchChecked == SearchFindsProviders /\ PagesCover
=============================================================================
