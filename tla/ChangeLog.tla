------------------------------ MODULE ChangeLog ------------------------------
(***************************************************************************)
(* The changes table and the wake-up of its readers.                       *)
(*                                                                         *)
(* Every write of the registry runs through the method write of Store, in  *)
(* internal/store/store.go: a transaction that, beside the entity rows,    *)
(* inserts rows into the changes table, then the commit, then              *)
(* Hub.Broadcast of internal/notify.  Three things are kept apart here     *)
(* because readers run between them: a revision is drawn from the identity *)
(* column when the row is inserted, the row is seen by other connections   *)
(* when the transaction commits, and the readers are woken after that.     *)
(*                                                                         *)
(* Serialized = TRUE is SQLite, whose write transactions start with BEGIN  *)
(* IMMEDIATE and so exclude one another; a rolled back transaction gives   *)
(* its revisions back.  Serialized = FALSE is PostgreSQL, where            *)
(* transactions overlap and an IDENTITY value is never given back.         *)
(***************************************************************************)
EXTENDS Integers, FiniteSets

CONSTANTS
    Writers,        \* write requests in flight at once
    Namespaces,     \* namespaces a change can be about
    Services,       \* second component of a change's ref, if it has one
    NoService,      \* marks a change about the namespace itself: its ref is "ns"
    Serialized,     \* TRUE: SQLite, FALSE: PostgreSQL
    Retention,      \* TRUE when REGISTRY_CHANGE_RETENTION_DAYS > 0
    MaxRevision,    \* bound: revisions ever drawn
    MaxTxChanges,   \* bound: change rows of one transaction
    MaxBroadcasts   \* bound: transactions that reach their broadcast

ASSUME NoServiceAssumption == NoService \notin Services
ASSUME ModeAssumption == Serialized \in BOOLEAN /\ Retention \in BOOLEAN
ASSUME BoundsAssumption ==
    MaxRevision \in Nat /\ MaxTxChanges \in Nat /\ MaxBroadcasts \in Nat

VARIABLES
    seq,        \* identity counter of changes.revision
    changes,    \* committed rows of the changes table
    tx,         \* what each write request has done of Store.write
    hub         \* the Hub's current channel; channels are numbered as made

logVars == <<seq, changes, tx, hub>>

Change == [revision : Nat, ns : Namespaces, svc : Services \union {NoService}]

Phase == {"idle", "open", "committed", "swapped"}

\* base: seq when the transaction began.  rows: inserted, not yet committed.
\* old: the channel Broadcast took out of the hub and has yet to close.
Transaction == [phase : Phase, base : Nat, rows : SUBSET Change, old : Nat]

NoTransaction == [phase |-> "idle", base |-> 0, rows |-> {}, old |-> 0]

LogTypeOK ==
    /\ seq \in Nat
    /\ changes \subseteq Change
    /\ tx \in [Writers -> Transaction]
    /\ hub \in Nat

LogInit ==
    /\ seq = 0
    /\ changes = {}
    /\ tx = [w \in Writers |-> NoTransaction]
    /\ hub = 0

-----------------------------------------------------------------------------
(* What a reader sees *)

\* A channel is closed once it left the hub and its Broadcast closed it.
Closed(channel) ==
    /\ channel # hub
    /\ \A w \in Writers : tx[w].phase = "swapped" => tx[w].old # channel

IsLastOf(c, rows) == c \in rows /\ \A d \in rows : d.revision <= c.revision

\* CurrentRevision: COALESCE(MAX(revision), 0) over the committed rows.
IsCurrentRevision(rev) ==
    \/ changes = {} /\ rev = 0
    \/ \E c \in changes : IsLastOf(c, changes) /\ rev = c.revision

\* The rows the WHERE of Changes selects: after the cursor, in the namespaces
\* asked for (one, or all of them when the parameter is empty).
Selected(since, nss) == {c \in changes : c.revision > since /\ c.ns \in nss}

\* ORDER BY revision DESC LIMIT n, the order the audit query uses.
LastRows(rows, n) ==
    {c \in rows : Cardinality({d \in rows : d.revision > c.revision}) < n}

\* ORDER BY revision LIMIT n: the n rows of the lowest revisions.
FirstRows(rows, n) ==
    {c \in rows : Cardinality({d \in rows : d.revision < c.revision}) < n}

-----------------------------------------------------------------------------
(* A write request *)

\* A transaction that begins beside another one.
BeginDeferred(w) ==
    /\ tx[w].phase = "idle"
    /\ hub + Cardinality({v \in Writers : tx[v].phase # "idle"}) < MaxBroadcasts
    /\ tx' = [tx EXCEPT ![w] = [NoTransaction EXCEPT !.phase = "open", !.base = seq]]
    /\ UNCHANGED <<seq, changes, hub>>

\* BeginTx.  With SQLite it returns only when no other write transaction runs.
BeginTx(w) ==
    /\ tx[w].phase = "idle"
    /\ Serialized => \A v \in Writers : tx[v].phase # "open"
    /\ hub + Cardinality({v \in Writers : tx[v].phase # "idle"}) < MaxBroadcasts
    /\ tx' = [tx EXCEPT ![w] = [NoTransaction EXCEPT !.phase = "open", !.base = seq]]
    /\ UNCHANGED <<seq, changes, hub>>

\* A recordChange whose row other connections see at once.
RecordChangeOutside(w, ns, svc) ==
    LET row == [revision |-> seq + 1, ns |-> ns, svc |-> svc] IN
    /\ tx[w].phase = "open"
    /\ seq < MaxRevision
    /\ Cardinality(tx[w].rows) < MaxTxChanges
    /\ seq' = seq + 1
    /\ tx' = [tx EXCEPT ![w].rows = @ \union {row}]
    /\ changes' = changes \union {row}
    /\ UNCHANGED hub

\* recordChange: draws the next revision for a change about <<ns, svc>>.
RecordChange(w, ns, svc) ==
    /\ tx[w].phase = "open"
    /\ seq < MaxRevision
    /\ Cardinality(tx[w].rows) < MaxTxChanges
    /\ seq' = seq + 1
    /\ tx' = [tx EXCEPT ![w].rows = @ \union {[revision |-> seq + 1, ns |-> ns, svc |-> svc]}]
    /\ UNCHANGED <<changes, hub>>

\* fn failed: nothing the transaction did stays, and nobody is woken.
Rollback(w) ==
    /\ tx[w].phase = "open"
    /\ seq' = IF Serialized THEN tx[w].base ELSE seq
    /\ tx' = [tx EXCEPT ![w] = NoTransaction]
    /\ UNCHANGED <<changes, hub>>

\* A commit whose write forgot the broadcast.
CommitSilently(w) ==
    /\ tx[w].phase = "open"
    /\ changes' = changes \union tx[w].rows
    /\ tx' = [tx EXCEPT ![w] = NoTransaction]
    /\ UNCHANGED <<seq, hub>>

\* A transaction without change rows (an announce whose content did not
\* change) commits and broadcasts like any other.
Commit(w) ==
    /\ tx[w].phase = "open"
    /\ changes' = changes \union tx[w].rows
    /\ tx' = [tx EXCEPT ![w].phase = "committed"]
    /\ UNCHANGED <<seq, hub>>

\* Broadcast, under the hub's mutex: put a fresh channel in.
BroadcastSwap(w) ==
    /\ tx[w].phase = "committed"
    /\ hub' = hub + 1
    /\ tx' = [tx EXCEPT ![w].phase = "swapped", ![w].old = hub]
    /\ UNCHANGED <<seq, changes>>

\* Broadcast, after the mutex: close the old channel.
BroadcastClose(w) ==
    /\ tx[w].phase = "swapped"
    /\ tx' = [tx EXCEPT ![w] = NoTransaction]
    /\ UNCHANGED <<seq, changes, hub>>

\* PruneChanges: DELETE ... WHERE at < cutoff, a statement of its own with no
\* broadcast.  `at` is written with the row, so it ages in revision order.
PruneChanges(cutoff) ==
    /\ Retention
    /\ Serialized => \A w \in Writers : tx[w].phase # "open"
    /\ \E c \in changes : c.revision <= cutoff
    /\ changes' = {c \in changes : c.revision > cutoff}
    /\ UNCHANGED <<seq, tx, hub>>

\* The process dies and starts again: open transactions roll back, committed
\* ones stay, a broadcast not yet made is never made, the hub is a new one.
CrashLog ==
    /\ \/ \E w \in Writers : Serialized /\ tx[w].phase = "open" /\ seq' = tx[w].base
       \/ (Serialized => \A w \in Writers : tx[w].phase # "open") /\ seq' = seq
    /\ tx' = [w \in Writers |-> NoTransaction]
    /\ hub' = 0
    /\ UNCHANGED changes

WriteStep(w) ==
    \/ BeginTx(w)
    \/ \E ns \in Namespaces, svc \in Services \union {NoService} : RecordChange(w, ns, svc)
    \/ Rollback(w)
    \/ Commit(w)
    \/ BroadcastSwap(w)
    \/ BroadcastClose(w)

LogStep ==
    \/ \E w \in Writers : WriteStep(w)
    \/ \E cutoff \in 1 .. MaxRevision : PruneChanges(cutoff)

-----------------------------------------------------------------------------
(* What the log always satisfies *)

Drawn(n) == n <= seq

\* Revisions come from the counter, those of a transaction after it began.
RevisionsAreDrawn ==
    /\ \A c \in changes : Drawn(c.revision)
    /\ \A w \in Writers : tx[w].phase = "open" =>
          /\ Drawn(tx[w].base)
          /\ \A c \in tx[w].rows : tx[w].base < c.revision /\ Drawn(c.revision)

\* No revision up to n is still to be committed by an open transaction, nor
\* drawn by a later one.
Settled(n) == Drawn(n) /\ \A w \in Writers : tx[w].phase = "open" => n <= tx[w].base

\* With one write transaction at a time, what is committed is settled.
CommittedAreSettled ==
    /\ \A v, w \in Writers : tx[v].phase = "open" /\ tx[w].phase = "open" => v = w
    /\ \A c \in changes : Settled(c.revision)

LogInv ==
    /\ IsFiniteSet(changes)
    /\ \A w \in Writers : IsFiniteSet(tx[w].rows)
    /\ RevisionsAreDrawn
    /\ Serialized => CommittedAreSettled

\* A committed write reaches the close of its channel: write and Broadcast have
\* no blocking call after the commit.
BroadcastFairness ==
    \A w \in Writers : WF_logVars(BroadcastSwap(w) \/ BroadcastClose(w))

=============================================================================
