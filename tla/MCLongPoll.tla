------------------------------ MODULE MCLongPoll ------------------------------
(* LongPoll on small instances: one client that asks for namespace n1, while   *)
(* changes of n1 and n2 are written.                                           *)
EXTENDS LongPoll, TLC

CONSTANTS w1, w2, p1, n1, n2

MCNsFilter == [p \in Pollers |-> {n1}]

Symmetry == Permutations(Writers)

=============================================================================
