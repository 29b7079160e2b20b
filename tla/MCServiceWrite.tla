--------------------------- MODULE MCServiceWrite ---------------------------
\* A PUT and a reader at a time; a department that is renamed, one that comes and goes.
EXTENDS ServiceWrite

CONSTANTS r1, r2, d1, d2, a, b, t1

MCListings == {{}, {[id |-> d1, name |-> a]},
               {[id |-> d1, name |-> b], [id |-> d2, name |-> a]}}

Put(t, trusted, id, name) ==
    [kind |-> "put", token |-> t, trusted |-> trusted, id |-> id, name |-> name]

MCAsks ==
    [r \in {r1, r2} |-> IF r = r1
        THEN {Put(None, TRUE, d2, a), Put(t1, TRUE, d2, b), Put(None, FALSE, None, a),
              Put(AdminToken, FALSE, None, None)}
        ELSE {[kind |-> "list", refresh |-> TRUE], [kind |-> "org", id |-> d2, refresh |-> FALSE]}]
=============================================================================
