---------------------------- MODULE MCEventStream ----------------------------
(* EventStream on small instances.  Subscriber r1 asks for everything, r2 for *)
(* one service of one namespace.                                              *)
EXTENDS EventStream, TLC

CONSTANTS w1, w2, r1, r2, n1, n2, s1

MCNsFilter == [r \in Subscribers |-> IF r = r1 THEN Namespaces ELSE {n1}]
MCSvcFilter == [r \in Subscribers |-> IF r = r1 THEN Services \union {NoService} ELSE {s1}]

Symmetry == Permutations(Writers)

=============================================================================
