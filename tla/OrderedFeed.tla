----------------------------- MODULE OrderedFeed -----------------------------
(***************************************************************************)
(* What the registry promises a consumer of its changes, whichever of the  *)
(* pull interfaces it uses: changes are published in the order of their    *)
(* revisions, and each reader receives those it asked for, in that order   *)
(* and without a gap, from the cursor it starts at.                        *)
(***************************************************************************)
EXTENDS Integers

CONSTANTS
    Readers,
    Asked(_, _)     \* Asked(r, c): reader r asked for change c

VARIABLES
    published,  \* the changes that can be read
    from,       \* per reader: the cursor it started at
    taken,      \* per reader: the changes on their way to it
    received    \* per reader: the changes it has received

feedVars == <<published, from, taken, received>>

Before(rows, more) == \A c \in rows, d \in more : c.revision < d.revision

\* What reader r is still to receive.
Owed(r) ==
    {c \in published : Asked(r, c) /\ from[r] < c.revision /\ Before(received[r], {c})}

\* `new` is what reader r gets next: none that precedes one of them is left out.
ComesNext(r, new) == new \subseteq Owed(r) /\ Before(new, Owed(r) \ new)

FeedInit ==
    /\ published = {}
    /\ \A r \in Readers : taken[r] = {} /\ received[r] = {}

\* New changes come after every change published before.
Publish ==
    /\ published \subseteq published'
    /\ Before(published, published' \ published)
    /\ UNCHANGED <<from, taken, received>>

\* The oldest changes are forgotten; those on their way still arrive.
Forget ==
    /\ published' \subseteq published
    /\ Before(published \ published', published')
    /\ UNCHANGED <<from, taken, received>>

\* Reader r receives the next changes it is owed.
Deliver(r) ==
    LET new == received'[r] \ received[r] IN
    /\ received' = [received EXCEPT ![r] = @ \union new]
    /\ ComesNext(r, new)
    /\ UNCHANGED <<published, from, taken>>

\* The same in two steps: they are taken from the log, and arrive later.
Take(r) ==
    /\ taken[r] = {}
    /\ taken' = [taken EXCEPT ![r] = taken'[r]]
    /\ ComesNext(r, taken'[r])
    /\ UNCHANGED <<published, from, received>>

Arrive(r) ==
    /\ received' = [received EXCEPT ![r] = @ \union taken[r]]
    /\ taken' = [taken EXCEPT ![r] = {}]
    /\ UNCHANGED <<published, from>>

\* What is on its way to some readers never arrives; they are still owed it.
Lose ==
    /\ \A r \in Readers : taken'[r] \in {taken[r], {}}
    /\ UNCHANGED <<published, from, received>>

\* Reader r starts over from a cursor of its choice.
Restart(r) ==
    /\ received' = [received EXCEPT ![r] = {}]
    /\ from' = [from EXCEPT ![r] = from'[r]]
    /\ UNCHANGED <<published, taken>>

FeedNext ==
    \/ Publish \/ Forget \/ Lose
    \/ \E r \in Readers : Deliver(r) \/ Take(r) \/ Arrive(r) \/ Restart(r)

FeedSpec == FeedInit /\ [][FeedNext]_feedVars

=============================================================================
