------------------------------ MODULE MCCatalog ------------------------------
(* Catalog on small instances.  The namespace n1 is the default one, and s1   *)
(* the name of the service the registry registers for itself.                 *)
EXTENDS Catalog

CONSTANTS w1, w2, n1, n2, s1, s2, i1, i2, a1, a2, c1, c2, m1

Symmetry ==
    Permutations(Workers) \union Permutations(Ids)
    \union Permutations(Addrs) \union Permutations(Contents)

=============================================================================
