------------------------------- MODULE LongPoll -------------------------------
(***************************************************************************)
(* GET /v1/changes?since=N&wait=D: handleChanges of internal/api/pull.go   *)
(* and waitFor of internal/api/helpers.go, over the changes table of       *)
(* ChangeLog, with the client loop that calls it again and again.          *)
(*                                                                         *)
(* The handler queries; when nothing is there and the client is willing to *)
(* wait, it takes the hub's channel and sleeps until the channel closes or *)
(* the deadline passes, queries again, and so on.  The response carries    *)
(* the rows and, as "revision", CurrentRevision, which is read after them. *)
(***************************************************************************)
EXTENDS ChangeLog

CONSTANTS
    Pollers,        \* clients, each with one request in flight at most
    NsFilter,       \* per client: namespaces its ?namespace= lets through
    Limit,          \* ?limit= after clampPullLimit
    FollowRevision  \* TRUE: the client's next since is the response's "revision"
                    \* (the loop README.md prints); FALSE: the last row it got

ASSUME FilterAssumption == NsFilter \in [Pollers -> SUBSET Namespaces]
ASSUME LimitAssumption == Limit \in Nat \ {0}
ASSUME FollowAssumption == FollowRevision \in BOOLEAN

VARIABLES
    req,        \* per client: its request in the server
    client      \* per client: its cursor, and what it received since it began

vars == <<logVars, req, client>>

\* page, more: what the last query returned.  expired: the deadline has passed.
\* waits: the client gave ?wait=.  channel: the hub channel waitFor holds.
Request == [phase : {"idle", "query", "park", "parked", "requery", "answer"},
            since : Nat, waits : BOOLEAN, expired : BOOLEAN, channel : Nat,
            page : SUBSET Change, more : BOOLEAN]

NoRequest == [phase |-> "idle", since |-> 0, waits |-> FALSE, expired |-> FALSE,
              channel |-> 0, page |-> {}, more |-> FALSE]

\* from: the cursor the client began at.  cursor: its next since.
Client == [from : Nat, cursor : Nat, got : SUBSET Change]

TypeOK ==
    /\ LogTypeOK
    /\ req \in [Pollers -> Request]
    /\ client \in [Pollers -> Client]

Init ==
    /\ LogInit
    /\ req = [p \in Pollers |-> NoRequest]
    /\ client = [p \in Pollers |-> [from |-> 0, cursor |-> 0, got |-> {}]]

Pending(p) == Selected(req[p].since, NsFilter[p])

-----------------------------------------------------------------------------
(* The handler *)

\* A request arrives with the client's cursor.  The README's loop always waits.
Call(p, waits) ==
    /\ req[p].phase = "idle"
    /\ FollowRevision => waits
    /\ req' = [req EXCEPT ![p] = [NoRequest EXCEPT !.phase = "query",
                                  !.since = client[p].cursor, !.waits = waits]]
    /\ UNCHANGED <<logVars, client>>

\* One query; then on to `next`.
Queries(p, next) ==
    LET page == FirstRows(Pending(p), Limit) IN
    req' = [req EXCEPT ![p].page = page, ![p].more = (page # Pending(p)),
                       ![p].phase = IF page # {} THEN "answer" ELSE next]

\* The query before any waiting.
Query(p) ==
    /\ req[p].phase = "query"
    /\ Queries(p, IF req[p].waits THEN "park" ELSE "answer")
    /\ UNCHANGED <<logVars, client>>

\* waitFor takes the hub's channel, unless the deadline has passed meanwhile.
Park(p) ==
    /\ req[p].phase = "park"
    /\ \/ req' = [req EXCEPT ![p].phase = "parked", ![p].channel = hub]
       \/ req' = [req EXCEPT ![p].phase = "requery", ![p].expired = TRUE]
    /\ UNCHANGED <<logVars, client>>

\* case <-Hub().Wait()
Wake(p) ==
    /\ req[p].phase = "parked"
    /\ Closed(req[p].channel)
    /\ req' = [req EXCEPT ![p].phase = "requery"]
    /\ UNCHANGED <<logVars, client>>

\* case <-timer.C
Timeout(p) ==
    /\ req[p].phase = "parked"
    /\ req' = [req EXCEPT ![p].phase = "requery", ![p].expired = TRUE]
    /\ UNCHANGED <<logVars, client>>

\* The deadline passes at any moment after the request began to wait.
Expire(p) ==
    /\ req[p].phase = "requery"
    /\ ~ req[p].expired
    /\ req' = [req EXCEPT ![p].expired = TRUE]
    /\ UNCHANGED <<logVars, client>>

\* One wait and one query, whatever woke it.
RequeryOnce(p) ==
    /\ req[p].phase = "requery"
    /\ Queries(p, "answer")
    /\ UNCHANGED <<logVars, client>>

\* A loop that waits again as long as there is nothing to return.
RequeryForever(p) ==
    /\ req[p].phase = "requery"
    /\ Queries(p, "park")
    /\ UNCHANGED <<logVars, client>>

\* The query after a wait; with nothing there and time left it waits again.
Requery(p) ==
    /\ req[p].phase = "requery"
    /\ Queries(p, IF req[p].expired THEN "answer" ELSE "park")
    /\ UNCHANGED <<logVars, client>>

\* What the client makes its next cursor, given the response's "revision".
NextCursor(p, revision, new) ==
    IF FollowRevision
    THEN new = revision
    ELSE \/ req[p].page = {} /\ new = client[p].cursor
         \/ \E c \in req[p].page : IsLastOf(c, req[p].page) /\ new = c.revision

\* CurrentRevision is read, the response sent, and taken in by the client.
Answer(p) ==
    /\ req[p].phase = "answer"
    /\ \E revision, new \in 0 .. MaxRevision :
          /\ IsCurrentRevision(revision)
          /\ NextCursor(p, revision, new)
          /\ client' = [client EXCEPT ![p].cursor = new, ![p].got = @ \union req[p].page]
    /\ req' = [req EXCEPT ![p] = NoRequest]
    /\ UNCHANGED logVars

\* The request's context ends: the client has nothing, and asks again.
Cancel(p) ==
    /\ req[p].phase # "idle"
    /\ req' = [req EXCEPT ![p] = NoRequest]
    /\ UNCHANGED <<logVars, client>>

HandlerStep(p) ==
    \/ Query(p) \/ Park(p) \/ Wake(p) \/ Timeout(p) \/ Requery(p) \/ Answer(p)

Crash ==
    /\ CrashLog
    /\ req' = [p \in Pollers |-> NoRequest]
    /\ UNCHANGED client

Next ==
    \/ LogStep /\ UNCHANGED <<req, client>>
    \/ \E p \in Pollers :
          HandlerStep(p) \/ Expire(p) \/ Cancel(p) \/ \E waits \in BOOLEAN : Call(p, waits)
    \/ Crash

Fairness ==
    /\ \A p \in Pollers : WF_vars(HandlerStep(p))
    /\ BroadcastFairness

Spec == Init /\ [][Next]_vars

FairSpec == Spec /\ Fairness

-----------------------------------------------------------------------------
(* Properties *)

\* A change before the client's cursor has been received: following the cursor
\* skips nothing.  Holds for a client that follows the rows it was given.
NothingMissed ==
    \A p \in Pollers : \A c \in changes :
        (/\ c.ns \in NsFilter[p]
         /\ client[p].from < c.revision
         /\ c.revision <= client[p].cursor)
        => c \in client[p].got

\* A waiting request is answered without rows only because its time is up: being
\* woken for a change of another namespace does not end the wait.
EmptyOnlyWhenExpired ==
    \A p \in Pollers :
        req[p].phase = "answer" /\ req[p].waits /\ req[p].page = {} => req[p].expired

\* A request that sleeps on a channel nobody is about to close has nothing to
\* return: "a new change is returned at once" (README.md, table of the pull
\* interfaces).
PromptAnswer ==
    \A p \in Pollers :
        req[p].phase = "parked" /\ req[p].channel = hub /\ Pending(p) # {}
        => \E w \in Writers : tx[w].phase = "committed"

\* Every request is answered or given up: neither being woken for nothing nor
\* its deadline passing between a wait and a query leaves it in the loop.
RequestEnds == \A p \in Pollers : (req[p].phase # "idle") ~> (req[p].phase = "idle")

\* Only an answer carries rows; they are settled, lie after the cursor the
\* request came with, and leave no row out before the last of them.
PagesHaveNoGap ==
    \A p \in Pollers : \A d \in req[p].page :
        /\ req[p].phase = "answer"
        /\ Settled(d.revision)
        /\ req[p].since < d.revision
        /\ \A c \in Pending(p) : c.revision <= d.revision => c \in req[p].page

\* The cursor is at or behind nothing that can still be committed, and at or
\* after all the client has.  A request in flight was made with it.
CursorsAreSettled ==
    \A p \in Pollers :
        /\ Settled(client[p].cursor)
        /\ client[p].from <= client[p].cursor
        /\ \A c \in client[p].got : c.revision <= client[p].cursor
        /\ req[p].phase # "idle" => req[p].since = client[p].cursor

\* The invariant behind NothingMissed.
PollInv == LogInv /\ PagesHaveNoGap /\ CursorsAreSettled /\ NothingMissed

\* The client's view is the feed OrderedFeed promises.
Asked(p, c) == c.ns \in NsFilter[p]

Feed == INSTANCE OrderedFeed WITH
    Readers <- Pollers,
    published <- changes,
    from <- [p \in Pollers |-> client[p].from],
    taken <- [p \in Pollers |-> req[p].page],
    received <- [p \in Pollers |-> client[p].got]

ImplementsFeed == Feed!FeedSpec

=============================================================================
