----------------------------- MODULE EventStream -----------------------------
(***************************************************************************)
(* GET /v1/events: the server-sent event stream of internal/api/events.go  *)
(* over the changes table of ChangeLog.                                    *)
(*                                                                         *)
(* One handler goroutine per subscriber runs a loop: take the hub's        *)
(* channel, read the rows after the cursor and push them, then wait for    *)
(* the channel to close, the keep-alive ticker or the end of the request.  *)
(* Writers commit and broadcast between any two of these steps.            *)
(***************************************************************************)
EXTENDS ChangeLog

CONSTANTS
    Subscribers,    \* clients of the stream, each with one connection at most
    NsFilter,       \* per subscriber: namespaces its ?namespace= lets through
    SvcFilter,      \* per subscriber: what its ?service= lets through
    MaxBatch        \* sseMaxBatch

ASSUME FilterAssumption ==
    /\ NsFilter \in [Subscribers -> SUBSET Namespaces]
    /\ SvcFilter \in [Subscribers -> SUBSET (Services \union {NoService})]
ASSUME BatchAssumption == MaxBatch \in Nat \ {0}

VARIABLES
    sse,        \* per subscriber: its handler's loop
    client      \* per subscriber: the cursor it asked for, the rows it received

vars == <<logVars, sse, client>>

\* channel: the hub channel held.  last: the handler's cursor.
\* more: what Changes returned as hasMore, which pushSSEChanges discards.
Handler == [phase : {"off", "loop", "read", "select"}, channel : Nat, last : Nat, more : BOOLEAN]

NoHandler == [phase |-> "off", channel |-> 0, last |-> 0, more |-> FALSE]

\* from: the cursor of the hello event the client counts from.
\* got: the rows of the change events received since.
Client == [from : Nat, got : SUBSET Change]

TypeOK ==
    /\ LogTypeOK
    /\ sse \in [Subscribers -> Handler]
    /\ client \in [Subscribers -> Client]

Init ==
    /\ LogInit
    /\ sse = [r \in Subscribers |-> NoHandler]
    /\ client = [r \in Subscribers |-> [from |-> 0, got |-> {}]]

-----------------------------------------------------------------------------
(* Rows and filters *)

\* changeMatchesService: a change about the namespace alone has no second
\* component in its ref and matches no service.
Wanted(r, c) == c.ns \in NsFilter[r] /\ c.svc \in SvcFilter[r]

\* What the handler's next query selects.
Pending(r) == Selected(sse[r].last, NsFilter[r])

\* A cursor that jumps to CurrentRevision once the rows are written.
AdvancesToCurrent(old, rows, new) == IF rows = {} THEN new = old ELSE IsCurrentRevision(new)

\* The cursor after writing `rows`: the last of them, or the old one.
AdvancesTo(old, rows, new) ==
    \/ rows = {} /\ new = old
    \/ \E c \in rows : IsLastOf(c, rows) /\ new = c.revision

\* The cursor a client resumes from: the last revision it was told.
Resumes(r, since) == AdvancesTo(client[r].from, client[r].got, since)

-----------------------------------------------------------------------------
(* Connections *)

Open(r, since) == sse' = [sse EXCEPT ![r] = [NoHandler EXCEPT !.phase = "loop", !.last = since]]

Start(r, since) ==
    /\ sse[r].phase = "off"
    /\ Open(r, since)
    /\ client' = [client EXCEPT ![r] = [from |-> since, got |-> {}]]
    /\ UNCHANGED logVars

\* A cursor taken for the first revision still to be sent.
ConnectInclusive(r) ==
    \E since \in 0 .. MaxRevision : IsCurrentRevision(since) /\ Start(r, since - 1)

\* No ?since=: the cursor is CurrentRevision.
Connect(r) == \E since \in 0 .. MaxRevision : IsCurrentRevision(since) /\ Start(r, since)

\* ?since=N, whatever N the client gives.
ConnectSince(r, since) == Start(r, since)

\* ?since= the last revision received, after the connection broke.
Reconnect(r) ==
    /\ sse[r].phase = "off"
    /\ \E since \in 0 .. MaxRevision : Resumes(r, since) /\ Open(r, since)
    /\ UNCHANGED <<logVars, client>>

\* The request's context ends (or a query fails, which ends the handler too).
Disconnect(r) ==
    /\ sse[r].phase # "off"
    /\ sse' = [sse EXCEPT ![r] = NoHandler]
    /\ UNCHANGED <<logVars, client>>

-----------------------------------------------------------------------------
(* The handler's loop *)

\* wait := Hub().Wait()
TakeChannel(r) ==
    /\ sse[r].phase = "loop"
    /\ sse' = [sse EXCEPT ![r].phase = "read", ![r].channel = hub]
    /\ UNCHANGED <<logVars, client>>

Receive(r, rows) == client' = [client EXCEPT ![r].got = @ \union {c \in rows : Wanted(r, c)}]

\* pushSSEChanges: one query, then the rows in order.  The cursor moves over
\* the rows the service filter drops as well.
Push(r) ==
    LET page == FirstRows(Pending(r), MaxBatch) IN
    /\ sse[r].phase = "read"
    /\ \E new \in 0 .. MaxRevision :
          /\ AdvancesTo(sse[r].last, page, new)
          /\ sse' = [sse EXCEPT ![r].phase = "select", ![r].last = new,
                                ![r].more = (page # Pending(r))]
    /\ Receive(r, page)
    /\ UNCHANGED logVars

\* The connection breaks while the page is written: the client has the rows up
\* to some revision, the handler is gone.
PushInterrupted(r) ==
    LET page == FirstRows(Pending(r), MaxBatch) IN
    /\ sse[r].phase = "read"
    /\ \E c \in page : Receive(r, {d \in page : d.revision <= c.revision})
    /\ sse' = [sse EXCEPT ![r] = NoHandler]
    /\ UNCHANGED logVars

\* case <-wait
Wake(r) ==
    /\ sse[r].phase = "select"
    /\ Closed(sse[r].channel)
    /\ sse' = [sse EXCEPT ![r].phase = "loop"]
    /\ UNCHANGED <<logVars, client>>

\* A ticker that keeps the connection alive and does not read.
PingOnly(r) ==
    /\ sse[r].phase = "select"
    /\ UNCHANGED vars

\* case <-ticker.C: a ": ping" comment, then the loop again.
Tick(r) ==
    /\ sse[r].phase = "select"
    /\ sse' = [sse EXCEPT ![r].phase = "loop"]
    /\ UNCHANGED <<logVars, client>>

HandlerStep(r) == TakeChannel(r) \/ Push(r) \/ Wake(r) \/ Tick(r)

ClientStep(r) ==
    \/ Connect(r)
    \/ \E since \in 0 .. MaxRevision : ConnectSince(r, since)
    \/ Reconnect(r)
    \/ Disconnect(r)
    \/ PushInterrupted(r)

Crash ==
    /\ CrashLog
    /\ sse' = [r \in Subscribers |-> NoHandler]
    /\ UNCHANGED client

Next ==
    \/ LogStep /\ UNCHANGED <<sse, client>>
    \/ \E r \in Subscribers : HandlerStep(r) \/ ClientStep(r)
    \/ Crash

\* The goroutine of a connected subscriber runs, its ticker fires every
\* SSEKeepAlive, and a committed write goes on to its broadcast.  Nothing
\* obliges a client to connect or a write request to arrive or to commit.
Fairness ==
    /\ \A r \in Subscribers : WF_vars(HandlerStep(r))
    /\ BroadcastFairness

Spec == Init /\ [][Next]_vars

FairSpec == Spec /\ Fairness

-----------------------------------------------------------------------------
(* Properties *)

Connected(r) == sse[r].phase # "off"

\* The subscriber's stream is past c: the handler's cursor is, or a row at or
\* after c has been received.
Passed(r, c) ==
    \/ Connected(r) /\ c.revision <= sse[r].last
    \/ \E d \in client[r].got : c.revision <= d.revision

\* A committed change a subscriber asked for is never skipped: once its stream
\* is past a change after the cursor it counts from, it has received it, over
\* partial batches, broken connections and restarts of the process.  This is
\* what docs/DESIGN.md 3.1 means by "no event is lost".
NothingSkipped ==
    \A r \in Subscribers : \A c \in changes :
        Wanted(r, c) /\ client[r].from < c.revision /\ Passed(r, c) => c \in client[r].got

\* A handler asleep in its select on a channel nobody is about to close has
\* nothing left to push (unless its last batch was full): no commit falls
\* between the query and the wait, which the comment above the loop of
\* handleEvents warns about.
NoLostWakeup ==
    \A r \in Subscribers :
        /\ sse[r].phase = "select"
        /\ sse[r].channel = hub
        /\ ~ sse[r].more
        /\ Pending(r) # {}
        => \E w \in Writers : tx[w].phase = "committed"

\* What the client is told of never comes from a transaction that rolled back
\* or could still do so: received rows were committed rows, whether the table
\* has since been pruned or not.
OnlyCommittedIsPushed ==
    \A r \in Subscribers : \A c \in client[r].got :
        /\ c.revision <= seq
        /\ \A w \in Writers : tx[w].phase = "open" => c \notin tx[w].rows

\* Every committed change a connected subscriber asked for is pushed to it, or
\* its connection ends (or the row is pruned first).
CommittedIsPushed ==
    \A r \in Subscribers : \A n \in 1 .. MaxRevision :
        (/\ Connected(r) /\ client[r].from < n
         /\ \E c \in changes : c.revision = n /\ Wanted(r, c))
        ~> \/ ~ Connected(r)
           \/ \E c \in client[r].got : c.revision = n
           \/ \A c \in changes : c.revision # n

\* What a handler or a client has seen is settled, unless it is the cursor the
\* client asked for, which can lie ahead of the log.
CursorsAreSettled ==
    \A r \in Subscribers :
        /\ \A c \in client[r].got : Settled(c.revision)
        /\ Connected(r) => sse[r].last = client[r].from \/ Settled(sse[r].last)

\* The invariant behind NothingSkipped: one step of the handler relies on the
\* rows below its cursor all having been there when it moved the cursor.
StreamInv == LogInv /\ CursorsAreSettled /\ NothingSkipped

\* What a subscriber receives is the feed OrderedFeed promises.
Feed == INSTANCE OrderedFeed WITH
    Readers <- Subscribers,
    Asked <- Wanted,
    published <- changes,
    from <- [r \in Subscribers |-> client[r].from],
    taken <- [r \in Subscribers |-> {}],
    received <- [r \in Subscribers |-> client[r].got]

ImplementsFeed == Feed!FeedSpec

=============================================================================
