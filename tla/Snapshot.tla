------------------------------ MODULE Snapshot -------------------------------
(***************************************************************************)
(* GET /v1/snapshot over the catalog: Store.Snapshot (store/search.go) and *)
(* handleSnapshot (api/pull.go), composed with Catalog.                    *)
(*                                                                         *)
(* The revision, the contracts, their endpoints and the instances are read *)
(* by separate statements and no transaction holds them together, so any   *)
(* write can fall in between.  A client keeps the copy with its ETag, and  *)
(* asks again with the tag or goes on with the changes after its revision. *)
(***************************************************************************)
EXTENDS Catalog

CONSTANTS
    AllNamespaces,  \* a request without ?namespace=
    NoCopy          \* the client has no copy yet

ASSUME ScopeAssumption == AllNamespaces \notin Namespaces

VARIABLES
    pruned,     \* revisions up to this one are no longer in the log
    snap,       \* the request in the handler
    copy        \* what the client holds

readerVars == <<pruned, snap, copy>>
snapshotVars == <<vars, readerVars>>

Scopes == {AllNamespaces} \union Namespaces

\* A namespace filter of the queries.
InScope(scope, ns) == scope \in {AllNamespaces, ns}

\* began: the changes recorded when the revision was read.  contracts: the
\* revision of each row of services.  endpoints: the revision of the contract
\* each list of endpoints comes from, as PutContract replaces both.
Copy == [scope : Scopes, revision : Nat, began : Nat, contracts : [Keys -> Nat],
         endpoints : [Keys -> Nat], instances : [Ids -> Instance \union {NoRow}]]

Handler ==
    [step : {"idle"}]
    \union [step : {"revision"}, scope : Scopes, revision : Nat, began : Nat]
    \union [step : {"contracts"}, scope : Scopes, revision : Nat, began : Nat,
            contracts : [Keys -> Nat]]
    \union [step : {"endpoints"}, scope : Scopes, revision : Nat, began : Nat,
            contracts : [Keys -> Nat], endpoints : [Keys -> Nat]]

SnapshotTypeOK ==
    /\ TypeOK
    /\ pruned \in 0 .. Len(changes)
    /\ snap \in Handler
    /\ copy \in Copy \union {NoCopy}

SnapshotInit == Init /\ pruned = 0 /\ snap = [step |-> "idle"] /\ copy = NoCopy

-----------------------------------------------------------------------------
(* The handler *)

\* MAX(revision) of an empty table, as it comes.
CurrentRevisionOrNull == IF pruned = Len(changes) THEN NoRow ELSE Len(changes)

\* COALESCE(MAX(revision), 0)
CurrentRevision == IF pruned = Len(changes) THEN 0 ELSE Len(changes)

Ask(scope) ==
    /\ process = "serving"
    /\ snap.step = "idle"
    /\ snap' = [step |-> "revision", scope |-> scope, revision |-> CurrentRevision,
                began |-> Len(changes)]
    /\ UNCHANGED <<vars, pruned, copy>>

\* The services query of ListServices.
ListContracts ==
    /\ snap.step = "revision"
    /\ snap' = [step |-> "contracts", scope |-> snap.scope, revision |-> snap.revision,
                began |-> snap.began,
                contracts |-> [k \in Keys |-> IF InScope(snap.scope, k[1]) THEN services[k] ELSE 0]]
    /\ UNCHANGED <<vars, pruned, copy>>

\* endpointsFor the contracts just listed.
ListEndpoints ==
    /\ snap.step = "contracts"
    /\ snap' = [step |-> "endpoints", scope |-> snap.scope, revision |-> snap.revision,
                began |-> snap.began, contracts |-> snap.contracts,
                endpoints |-> [k \in Keys |-> IF snap.contracts[k] > 0 THEN services[k] ELSE 0]]
    /\ UNCHANGED <<vars, pruned, copy>>

InstancesIn(scope) ==
    [i \in Ids |-> IF instances[i] # NoRow /\ InScope(scope, instances[i].ns)
                   THEN instances[i] ELSE NoRow]

\* A revision read after the tables it is meant for.
FetchedRevisionLast ==
    [scope |-> snap.scope, revision |-> CurrentRevision, began |-> Len(changes),
     contracts |-> snap.contracts, endpoints |-> snap.endpoints,
     instances |-> InstancesIn(snap.scope)]

Fetched ==
    [scope |-> snap.scope, revision |-> snap.revision, began |-> snap.began,
     contracts |-> snap.contracts, endpoints |-> snap.endpoints,
     instances |-> InstancesIn(snap.scope)]

ETag(c) == <<c.revision, c.scope>>

\* listInstances and the response: 304 when the client's ETag is this one,
\* otherwise, or when it sent none, the copy.
Respond ==
    /\ snap.step = "endpoints"
    /\ \/ copy # NoCopy /\ ETag(copy) = ETag(snap) /\ UNCHANGED copy
       \/ copy' = Fetched
    /\ snap' = [step |-> "idle"]
    /\ UNCHANGED <<vars, pruned>>

\* The client is gone, or the response is lost.
Abandon ==
    /\ snap.step # "idle"
    /\ snap' = [step |-> "idle"]
    /\ UNCHANGED <<vars, pruned, copy>>

-----------------------------------------------------------------------------
(* With the catalog *)

\* PruneChanges: everything older than the retention time, which is everything
\* when the catalog was quiet for that long.
PruneUpTo(n) ==
    /\ process = "serving"
    /\ n \in pruned + 1 .. Len(changes)
    /\ pruned' = n
    /\ UNCHANGED <<vars, snap, copy>>

\* The process dies with the requests in it.
DieReading == Die /\ snap' = [step |-> "idle"] /\ UNCHANGED <<pruned, copy>>

CatalogStep ==
    /\ \/ AtomicWrite
       \/ \E w \in Workers : Reads(w) \/ CheckedWrite(w) \/ RowWrite(w)
       \/ \E ns \in DefaultNamespaces : EnsureNamespace(ns) \/ PublishOwnContract(ns)
    /\ UNCHANGED readerVars

SnapshotNext ==
    \/ CatalogStep
    \/ DieReading
    \/ \E scope \in Scopes : Ask(scope)
    \/ ListContracts
    \/ ListEndpoints
    \/ Respond
    \/ Abandon
    \/ \E n \in 1 .. MaxChanges : PruneUpTo(n)

SnapshotSpec == SnapshotInit /\ [][SnapshotNext]_snapshotVars

-----------------------------------------------------------------------------
(* Properties *)

\* GET /v1/changes?since=revision, from the client's copy on, has a change of
\* which About holds.
Announced(About(_)) ==
    \E n \in DOMAIN changes : n > pruned /\ n > copy.revision /\ About(changes[n])

\* A snapshot torn by writes is made good by the changes after its revision:
\* wherever the copy and the tables differ, the log, unless pruned since the
\* snapshot, has a later change that names the entity or takes it away with what
\* contains it.  So it does not matter that the reads are separate, as long as
\* the revision is the first.
StaleIsAnnounced ==
    copy # NoCopy /\ pruned <= copy.began =>
        /\ \A k \in Keys :
              InScope(copy.scope, k[1]) /\ {services[k]} # {copy.contracts[k], copy.endpoints[k]}
              => Announced(LAMBDA c : \/ c.entity = "service" /\ c.ref = k
                                      \/ TakesAway(c, "service", k))
        /\ \A i \in Ids :
              InstancesIn(copy.scope)[i] # copy.instances[i]
              => LET old == copy.instances[i] IN
                 Announced(LAMBDA c : \/ c.entity = "instance" /\ c.ref[3] = i
                                      \/ old # NoRow /\ TakesAway(c, "instance", <<old.ns, old.svc, i>>))

\* "304 when nothing has changed" (README.md, the table of the pull interfaces):
\* whenever the ETag of the client's copy is the one a request would be answered
\* with now, the copy is what the tables hold, however it was put together.
\* Revision 0 is no revision: every log that was pruned empty has it.
NotModifiedIsCurrent ==
    copy # NoCopy /\ copy.revision > 0 /\ copy.revision = CurrentRevision =>
        /\ \A k \in Keys :
              InScope(copy.scope, k[1]) => {services[k]} = {copy.contracts[k], copy.endpoints[k]}
        /\ copy.instances = InstancesIn(copy.scope)

=============================================================================
