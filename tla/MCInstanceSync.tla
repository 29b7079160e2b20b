---------------------------- MODULE MCInstanceSync ----------------------------
(* InstanceSync on small instances: enough ids of the service's own for every  *)
(* address and the one an item may name, and one id of another service.        *)
EXTENDS InstanceSync, TLC

CONSTANTS i1, i2, i3, i4, f1, a1, a2, a3, k1, k2, v1

Symmetry == Permutations(Ids \ Foreign) \union Permutations(Addrs) \union Permutations(Keys)

=============================================================================
