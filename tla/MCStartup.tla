------------------------------ MODULE MCStartup -------------------------------
(* Startup on small instances.  The old file holds the registry's contract and  *)
(* its log, or has had its log pruned; or another service and part of its log,  *)
(* as a version wrote it that did not register itself; or a bare namespace.     *)
EXTENDS Startup

CONSTANTS p1, p2, w1

OwnFile(pruned) ==
    [namespaces |-> {"default", "team"}, services |-> [own |-> 1, svc |-> 0], pruned |-> pruned, top |-> 1]

MCFiles ==
    {OwnFile(0), OwnFile(1)}
    \union {[namespaces |-> {"team"}, services |-> [own |-> 0, svc |-> 2], pruned |-> 1, top |-> 2]}
    \union {[namespaces |-> {"default"}, services |-> [own |-> 0, svc |-> 0], pruned |-> 0, top |-> 0]}

=============================================================================
