------------------------------ MODULE MCGateway -------------------------------
(* Gateway on a small registry: the services a/b__c and a__b/c, whose tools     *)
(* have the same names, and d/c, which has an instance that is the registry.   *)
EXTENDS Gateway

MCServices == <<<<<<"a">>, <<"b", "c">>>>, <<<<"a", "b">>, <<"c">>>>, <<<<"d">>, <<"c">>>>>>

MCRows == <<
    [service |-> 1, url |-> "u1", http |-> TRUE],
    [service |-> 1, url |-> "u2", http |-> TRUE],
    [service |-> 2, url |-> "u3", http |-> TRUE],
    [service |-> 3, url |-> "alias", http |-> TRUE],
    [service |-> 3, url |-> "u4", http |-> TRUE],
    [service |-> 3, url |-> "tcp", http |-> FALSE]>>

MCOffers == [u \in {"u1", "u2", "u3", "u4", "alias", "tcp"} |->
    IF u = "alias" THEN {"catalog"} ELSE {"t"}]

=============================================================================
