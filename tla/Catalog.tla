------------------------------- MODULE Catalog -------------------------------
(***************************************************************************)
(* The catalog: namespaces, service contracts, instances and agent MCP     *)
(* servers in internal/store, and the handlers of internal/api that write  *)
(* them.                                                                   *)
(*                                                                         *)
(* A write transaction of SQLite is one step: its rows and its change      *)
(* record appear together and no other write runs meanwhile (ChangeLog     *)
(* looks inside it).  What is not one step is a handler: several of them   *)
(* read outside the transaction (does the namespace exist, what does the   *)
(* row hold) and act on the answer later, when other requests have run.    *)
(***************************************************************************)
EXTENDS Integers, Sequences, SequencesExt

CONSTANTS
    Workers,        \* requests in flight that have read and not yet written
    Namespaces,
    ServiceNames,
    Ids,            \* instance ids
    Addrs,          \* <scheme, host, port>
    Contents,       \* os, arch and metadata of an instance; the body of a server
    ServerNames,
    NoRow,          \* no row in the table
    Keep,           \* a field a PATCH leaves out
    DefaultNamespaces,  \* values REGISTRY_DEFAULT_NS has over the restarts
    OwnService,     \* "service_registry", which the process registers for itself
    MaxChanges      \* bound: changes ever recorded

ASSUME OwnAssumption == DefaultNamespaces \subseteq Namespaces /\ OwnService \in ServiceNames
ASSUME ProcessAssumption == Namespaces \intersect {"down", "serving"} = {}
ASSUME KeepAssumption == Keep \notin Addrs \union Contents
ASSUME NoRowAssumption == NoRow \notin Ids
ASSUME BoundAssumption == MaxChanges \in Nat

VARIABLES
    process,    \* "down", "serving" or, while starting, the default namespace
    namespaces, \* rows of the table namespaces
    services,   \* revision of each row of services, 0 when there is none
    instances,  \* row of instances per id
    servers,    \* row of agent_mcp_servers per name
    changes,    \* the change log; a row's revision is its place
    req         \* what each request has read

tables == <<namespaces, services, instances, servers, changes>>
vars == <<process, tables, req>>

Keys == Namespaces \X ServiceNames

Instance == [ns : Namespaces, svc : ServiceNames, addr : Addrs, content : Contents, revision : Nat]
Server == [ns : Namespaces, content : Contents, revision : Nat]

ASSUME RowAssumption == NoRow \notin Instance \union Server

\* The ref is <<ns>>, <<ns, name>> or <<ns, svc, id>>.
Change == [entity : {"namespace", "service", "instance", "mcp_server"},
           op : {"create", "update", "delete"},
           ref : Seq(Namespaces \union ServiceNames \union ServerNames \union Ids)]

\* "checked": the namespace was there.  "read": row was the row of id.
Request ==
    [step : {"idle"}]
    \union [step : {"checked"}, ns : Namespaces]
    \union [step : {"read"}, id : Ids, row : Instance]

NoRequest == [step |-> "idle"]

TypeOK ==
    /\ process \in {"down", "serving"} \union Namespaces
    /\ namespaces \subseteq Namespaces
    /\ services \in [Keys -> Nat]
    /\ instances \in [Ids -> Instance \union {NoRow}]
    /\ servers \in [ServerNames -> Server \union {NoRow}]
    /\ changes \in Seq(Change)
    /\ req \in [Workers -> Request]

Init ==
    /\ process = "down"
    /\ namespaces = {}
    /\ services = [k \in Keys |-> 0]
    /\ instances = [i \in Ids |-> NoRow]
    /\ servers = [m \in ServerNames |-> NoRow]
    /\ changes = <<>>
    /\ req = [w \in Workers |-> NoRequest]

-----------------------------------------------------------------------------
(* Reading and recording *)

NextRevision == Len(changes) + 1

\* recordChange, in the transaction of the rows it is about.
Record(entity, op, ref) ==
    /\ Len(changes) < MaxChanges
    /\ changes' = Append(changes, [entity |-> entity, op |-> op, ref |-> ref])

IdsOf(ns, svc) == {i \in Ids : instances[i] # NoRow /\ instances[i].ns = ns /\ instances[i].svc = svc}

\* No check for another instance at the address.
AnyAddress(ns, svc, addr, i) == TRUE

\* The instance other than i that holds the address makes the write a conflict.
AddressFree(ns, svc, addr, i) == \A j \in IdsOf(ns, svc) \ {i} : instances[j].addr # addr

\* assertServiceExists
ServiceExists(ns, svc) == services[<<ns, svc>>] > 0

InstanceRefs == {changes[k].ref : k \in {m \in DOMAIN changes : changes[m].entity = "instance"}}

\* An id the registry generates was never used before.
FreshIds == {i \in Ids : \A ref \in InstanceRefs : ref[3] # i}

\* ensureNamespaceExists or GetNamespace, before the transaction.
CheckNamespace(w, ns) ==
    /\ process = "serving"
    /\ req[w] = NoRequest
    /\ ns \in namespaces
    /\ req' = [req EXCEPT ![w] = [step |-> "checked", ns |-> ns]]
    /\ UNCHANGED <<process, tables>>

\* instanceIn, before the transaction.
ReadInstance(w, i) ==
    /\ process = "serving"
    /\ req[w] = NoRequest
    /\ instances[i] # NoRow
    /\ req' = [req EXCEPT ![w] = [step |-> "read", id |-> i, row |-> instances[i]]]
    /\ UNCHANGED <<process, tables>>

\* The request ends without a write: a bad body, a conflict, a lost client.
GiveUp(w) ==
    /\ req[w] # NoRequest
    /\ req' = [req EXCEPT ![w] = NoRequest]
    /\ UNCHANGED <<process, tables>>

Checked(w, ns) ==
    /\ req[w].step = "checked" /\ req[w].ns = ns
    /\ req' = [req EXCEPT ![w] = NoRequest]

-----------------------------------------------------------------------------
(* Namespaces *)

CreateNamespace(ns) ==
    /\ process = "serving"
    /\ ns \notin namespaces
    /\ namespaces' = namespaces \union {ns}
    /\ Record("namespace", "create", <<ns>>)
    /\ UNCHANGED <<process, services, instances, servers, req>>

\* A new description or token: columns the model leaves out.  The row may be
\* gone by now; the UPDATE then changes nothing and is recorded all the same.
UpdateNamespace(w, ns) ==
    /\ Checked(w, ns)
    /\ Record("namespace", "update", <<ns>>)
    /\ UNCHANGED <<process, namespaces, services, instances, servers>>

\* A cascade that forgets the MCP servers, the table added last.
DeleteNamespaceButServers(w, ns) ==
    /\ Checked(w, ns)
    /\ namespaces' = namespaces \ {ns}
    /\ services' = [k \in Keys |-> IF k[1] = ns THEN 0 ELSE services[k]]
    /\ instances' = [i \in Ids |->
            IF instances[i] # NoRow /\ instances[i].ns = ns THEN NoRow ELSE instances[i]]
    /\ Record("namespace", "delete", <<ns>>)
    /\ UNCHANGED <<process, servers>>

\* With everything in it, in one change.
DeleteNamespace(w, ns) ==
    /\ Checked(w, ns)
    /\ namespaces' = namespaces \ {ns}
    /\ services' = [k \in Keys |-> IF k[1] = ns THEN 0 ELSE services[k]]
    /\ instances' = [i \in Ids |->
            IF instances[i] # NoRow /\ instances[i].ns = ns THEN NoRow ELSE instances[i]]
    /\ servers' = [m \in ServerNames |->
            IF servers[m] # NoRow /\ servers[m].ns = ns THEN NoRow ELSE servers[m]]
    /\ Record("namespace", "delete", <<ns>>)
    /\ UNCHANGED process

-----------------------------------------------------------------------------
(* Service contracts *)

\* The transaction of UpsertService.
PutContract(ns, svc) ==
    /\ Record("service", IF ServiceExists(ns, svc) THEN "update" ELSE "create", <<ns, svc>>)
    /\ services' = [services EXCEPT ![<<ns, svc>>] = NextRevision]
    /\ UNCHANGED <<process, namespaces, instances, servers>>

UpsertService(w, ns, svc) == Checked(w, ns) /\ PutContract(ns, svc)

\* A deletion that leaves the instances behind.
DeleteServiceOnly(ns, svc) ==
    /\ process = "serving"
    /\ ServiceExists(ns, svc)
    /\ services' = [services EXCEPT ![<<ns, svc>>] = 0]
    /\ Record("service", "delete", <<ns, svc>>)
    /\ UNCHANGED <<process, namespaces, instances, servers, req>>

\* With its instances, in one change.
DeleteService(ns, svc) ==
    /\ process = "serving"
    /\ ServiceExists(ns, svc)
    /\ services' = [services EXCEPT ![<<ns, svc>>] = 0]
    /\ instances' = [i \in Ids |-> IF i \in IdsOf(ns, svc) THEN NoRow ELSE instances[i]]
    /\ Record("service", "delete", <<ns, svc>>)
    /\ UNCHANGED <<process, namespaces, servers, req>>

-----------------------------------------------------------------------------
(* Instances *)

Row(ns, svc, addr, content) ==
    [ns |-> ns, svc |-> svc, addr |-> addr, content |-> content, revision |-> NextRevision]

InsertInstance(i, row) ==
    /\ instances' = [instances EXCEPT ![i] = row]
    /\ Record("instance", "create", <<row.ns, row.svc, i>>)

\* The client may name the id; the primary key refuses one that some row has.
CreateInstance(ns, svc, i, addr, content) ==
    /\ process = "serving"
    /\ ServiceExists(ns, svc)
    /\ AddressFree(ns, svc, addr, i)
    /\ instances[i] = NoRow
    /\ InsertInstance(i, Row(ns, svc, addr, content))
    /\ UNCHANGED <<process, namespaces, services, servers, req>>

\* An announcement that refreshes the row and, taken for a heartbeat, is not
\* recorded.
AnnounceInstanceUnrecorded(w, ns, svc, addr, content) ==
    /\ Checked(w, ns)
    /\ ServiceExists(ns, svc)
    /\ \/ /\ AddressFree(ns, svc, addr, NoRow)
          /\ \E i \in FreshIds : InsertInstance(i, Row(ns, svc, addr, content))
       \/ \E i \in IdsOf(ns, svc) :
          /\ instances[i].addr = addr
          /\ instances' = [instances EXCEPT ![i].content = content]
          /\ UNCHANGED changes
    /\ UNCHANGED <<process, namespaces, services, servers>>

\* The instance at the address is inserted, refreshed or, with the content it
\* has, left as it is (but for last_announced_at).
AnnounceInstance(w, ns, svc, addr, content) ==
    /\ Checked(w, ns)
    /\ ServiceExists(ns, svc)
    /\ \/ /\ AddressFree(ns, svc, addr, NoRow)
          /\ \E i \in FreshIds : InsertInstance(i, Row(ns, svc, addr, content))
       \/ \E i \in IdsOf(ns, svc) :
          /\ instances[i].addr = addr
          /\ IF instances[i].content = content
             THEN UNCHANGED <<instances, changes>>
             ELSE /\ instances' = [instances EXCEPT ![i] = Row(ns, svc, addr, content)]
                  /\ Record("instance", "update", <<ns, svc, i>>)
    /\ UNCHANGED <<process, namespaces, services, servers>>

Patch == [addr : Addrs \union {Keep}, content : Contents \union {Keep}]

Patched(old, field) == IF field = Keep THEN old ELSE field

\* An update that forgets to store the revision of its change.
UpdateInstanceOldRevision(w, patch) ==
    LET i == req[w].id
        row == req[w].row
        addr == Patched(row.addr, patch.addr)
        content == Patched(row.content, patch.content) IN
    /\ req[w].step = "read"
    /\ AddressFree(row.ns, row.svc, addr, i)
    /\ Record("instance", "update", <<row.ns, row.svc, i>>)
    /\ instances' = IF instances[i] = NoRow THEN instances
                    ELSE [instances EXCEPT ![i].addr = addr, ![i].content = content]
    /\ req' = [req EXCEPT ![w] = NoRequest]
    /\ UNCHANGED <<process, namespaces, services, servers>>

\* PATCH: every column is computed from the row as it was read and written to
\* whatever row has the id now, if one has.
UpdateInstance(w, patch) ==
    LET i == req[w].id
        row == req[w].row
        addr == Patched(row.addr, patch.addr)
        content == Patched(row.content, patch.content) IN
    /\ req[w].step = "read"
    /\ AddressFree(row.ns, row.svc, addr, i)
    /\ Record("instance", "update", <<row.ns, row.svc, i>>)
    /\ \/ instances[i] = NoRow /\ UNCHANGED instances
       \/ /\ instances[i] # NoRow
          /\ AddressFree(instances[i].ns, instances[i].svc, addr, i)  \* UNIQUE index
          /\ instances' = [instances EXCEPT ![i].addr = addr, ![i].content = content,
                                            ![i].revision = NextRevision]
    /\ req' = [req EXCEPT ![w] = NoRequest]
    /\ UNCHANGED <<process, namespaces, services, servers>>

\* Whatever row has the id now goes; the change names the row that was read.
DeleteInstance(w) ==
    LET i == req[w].id
        row == req[w].row IN
    /\ req[w].step = "read"
    /\ instances' = [instances EXCEPT ![i] = NoRow]
    /\ Record("instance", "delete", <<row.ns, row.svc, i>>)
    /\ req' = [req EXCEPT ![w] = NoRequest]
    /\ UNCHANGED <<process, namespaces, services, servers>>

-----------------------------------------------------------------------------
(* Agent MCP servers: the name is unique over all namespaces *)

\* A name another namespace holds is a conflict; a body that changes nothing
\* writes nothing.
UpsertAgentMCPServer(w, ns, name, content) ==
    LET old == servers[name] IN
    /\ Checked(w, ns)
    /\ old # NoRow => old.ns = ns
    /\ IF old # NoRow /\ old.content = content
       THEN UNCHANGED <<servers, changes>>
       ELSE /\ Record("mcp_server", IF old = NoRow THEN "create" ELSE "update", <<ns, name>>)
            /\ servers' = [servers EXCEPT ![name] =
                    [ns |-> ns, content |-> content, revision |-> NextRevision]]
    /\ UNCHANGED <<process, namespaces, services, instances>>

DeleteAgentMCPServer(ns, name) ==
    /\ process = "serving"
    /\ servers[name] # NoRow /\ servers[name].ns = ns
    /\ servers' = [servers EXCEPT ![name] = NoRow]
    /\ Record("mcp_server", "delete", <<ns, name>>)
    /\ UNCHANGED <<process, namespaces, services, instances, req>>

-----------------------------------------------------------------------------
(* The process *)

\* Requests in flight are lost; what is committed stays.
Die ==
    /\ process' = "down"
    /\ req' = [w \in Workers |-> NoRequest]
    /\ UNCHANGED tables

\* main: EnsureNamespace, which records no change.
EnsureNamespace(ns) ==
    /\ process = "down"
    /\ process' = ns
    /\ namespaces' = namespaces \union {ns}
    /\ UNCHANGED <<services, instances, servers, changes, req>>

\* main: PublishOwnContract.  The contract is written unless it is there with
\* the same hash; then the server listens.
PublishOwnContract(ns) ==
    /\ process = ns
    /\ process' = "serving"
    /\ \/ /\ Record("service", IF ServiceExists(ns, OwnService) THEN "update" ELSE "create",
                     <<ns, OwnService>>)
          /\ services' = [services EXCEPT ![<<ns, OwnService>>] = NextRevision]
       \/ ServiceExists(ns, OwnService) /\ UNCHANGED <<services, changes>>
    /\ UNCHANGED <<namespaces, instances, servers, req>>

AtomicWrite ==
    \/ \E ns \in Namespaces : CreateNamespace(ns)
    \/ \E ns \in Namespaces, svc \in ServiceNames :
          \/ DeleteService(ns, svc)
          \/ \E i \in Ids, addr \in Addrs, content \in Contents :
                CreateInstance(ns, svc, i, addr, content)
    \/ \E ns \in Namespaces, name \in ServerNames : DeleteAgentMCPServer(ns, name)

Reads(w) ==
    \/ \E ns \in Namespaces : CheckNamespace(w, ns)
    \/ \E i \in Ids : ReadInstance(w, i)
    \/ GiveUp(w)

CheckedWrite(w) ==
    \E ns \in Namespaces :
        \/ UpdateNamespace(w, ns)
        \/ DeleteNamespace(w, ns)
        \/ \E svc \in ServiceNames :
              \/ UpsertService(w, ns, svc)
              \/ \E addr \in Addrs, content \in Contents :
                    AnnounceInstance(w, ns, svc, addr, content)
        \/ \E name \in ServerNames, content \in Contents :
              UpsertAgentMCPServer(w, ns, name, content)

RowWrite(w) == DeleteInstance(w) \/ \E patch \in Patch : UpdateInstance(w, patch)

Next ==
    \/ AtomicWrite
    \/ \E w \in Workers : Reads(w) \/ CheckedWrite(w) \/ RowWrite(w)
    \/ Die
    \/ \E ns \in DefaultNamespaces : EnsureNamespace(ns) \/ PublishOwnContract(ns)

Spec == Init /\ [][Next]_vars

-----------------------------------------------------------------------------
(* Properties *)

\* Deleting a service or a namespace never leaves an instance behind, and none
\* is added to a service that has just gone.
NoOrphanInstance ==
    \A i \in Ids : instances[i] # NoRow => ServiceExists(instances[i].ns, instances[i].svc)

\* A service has at most one instance at an address, whichever of create,
\* announce and PATCH wrote it.
AddressUnique ==
    \A i, j \in Ids :
        (/\ i # j /\ instances[i] # NoRow /\ instances[j] # NoRow
         /\ instances[i].ns = instances[j].ns /\ instances[i].svc = instances[j].svc)
        => instances[i].addr # instances[j].addr

\* LastOf(r, About): change r is the last one About holds of.
LastOf(r, About(_)) ==
    /\ r \in DOMAIN changes /\ About(changes[r])
    /\ \A k \in DOMAIN changes : About(changes[k]) => k <= r

\* "Each entity records the revision of its last change" (docs/DESIGN.md 3),
\* also after it was deleted and made again, and after updates computed from a
\* row read earlier.
RevisionIsLastChange ==
    /\ \A k \in Keys : services[k] > 0 =>
          LastOf(services[k], LAMBDA c : c.entity = "service" /\ c.ref = k)
    /\ \A i \in Ids : instances[i] # NoRow =>
          LastOf(instances[i].revision, LAMBDA c : c.entity = "instance" /\ c.ref[3] = i)
    /\ \A m \in ServerNames : servers[m] # NoRow =>
          LastOf(servers[m].revision, LAMBDA c : c.entity = "mcp_server" /\ c.ref[2] = m)

Live ==
    {<<"service", k>> : k \in {x \in Keys : services[x] > 0}}
    \union {<<"instance", <<instances[i].ns, instances[i].svc, i>>>> :
            i \in {x \in Ids : instances[x] # NoRow}}
    \union {<<"mcp_server", <<servers[m].ns, m>>>> : m \in {x \in ServerNames : servers[x] # NoRow}}

\* Change c takes away the entity at ref, itself or with what contains it.
TakesAway(c, entity, ref) ==
    /\ c.op = "delete"
    /\ IsPrefix(c.ref, ref)
    /\ \/ c.entity \in {entity, "namespace"}
       \/ c.entity = "service" /\ entity = "instance"

\* What a reader of the whole log believes in: what was created and not taken
\* away since.
Known ==
    {<<changes[k].entity, changes[k].ref>> :
        k \in {m \in DOMAIN changes :
            /\ changes[m].op = "create" /\ changes[m].entity # "namespace"
            /\ \A n \in DOMAIN changes :
                  n > m => ~ TakesAway(changes[n], changes[m].entity, changes[m].ref)}}

\* Instances of more than one service have had the id.
ReusedElsewhere(i) ==
    \E r1, r2 \in InstanceRefs : r1[3] = i /\ r2[3] = i /\ <<r1[1], r1[2]>> # <<r2[1], r2[2]>>

\* The changes are the complete answer to what happened (comment of Changes):
\* whoever applies them knows the services, instances and servers there are, and
\* no others, but for what DeleteInstance takes away and does not tell: an
\* instance whose client-chosen id had moved to another service while it was
\* being deleted.
LogIsExact ==
    /\ Live \subseteq Known
    /\ \A e \in Known \ Live : e[1] = "instance" /\ ReusedElsewhere(e[2][3])

\* The last change that deleted the namespace, 0 when there is none.
LastDeletion(ns) ==
    Max({0} \union {k \in DOMAIN changes :
            changes[k].entity = "namespace" /\ changes[k].op = "delete" /\ changes[k].ref = <<ns>>})

\* Deleting a namespace takes everything in it along (comment of
\* DeleteNamespace): what is found in a namespace that is gone was written after
\* the deletion, by a request whose ensureNamespaceExists came before it.
LeftoversAreLater ==
    /\ \A k \in Keys :
          services[k] > 0 /\ k[1] \notin namespaces => services[k] > LastDeletion(k[1])
    /\ \A i \in Ids :
          instances[i] # NoRow /\ instances[i].ns \notin namespaces
          => instances[i].revision > LastDeletion(instances[i].ns)
    /\ \A m \in ServerNames :
          servers[m] # NoRow /\ servers[m].ns \notin namespaces
          => servers[m].revision > LastDeletion(servers[m].ns)

=============================================================================
