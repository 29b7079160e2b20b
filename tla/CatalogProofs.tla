---------------------------- MODULE CatalogProofs ----------------------------
(***************************************************************************)
(* What TLAPS proves of the catalog, for any number of requests that write *)
(* what they decided on rows read earlier: its types, that no instance is  *)
(* left without its service, that no two instances of a service share an   *)
(* address, that a row carries the revision of its last change, that the   *)
(* log tells what there is, and what a deleted namespace can leave.  And   *)
(* of the snapshot read from it by statements no transaction holds         *)
(* together: whatever it misses, the changes after its revision tell.      *)
(***************************************************************************)
EXTENDS Snapshot, WellFoundedInduction, TLAPS

RefPart == Namespaces \union ServiceNames \union ServerNames \union Ids

(* Every change record a write makes is one.                                   *)
LEMMA RecordType ==
    ASSUME TypeOK, NEW entity \in {"namespace", "service", "instance", "mcp_server"},
           NEW op \in {"create", "update", "delete"}, NEW ref \in Seq(RefPart),
           Record(entity, op, ref)
    PROVE  changes' \in Seq(Change)
<1>1. [entity |-> entity, op |-> op, ref |-> ref] \in Change
  BY DEF Change, RefPart
<1> QED BY <1>1 DEF Record, TypeOK

LEMMA RefType ==
    ASSUME NEW a \in RefPart, NEW b \in RefPart, NEW c \in RefPart
    PROVE  <<a>> \in Seq(RefPart) /\ <<a, b>> \in Seq(RefPart) /\ <<a, b, c>> \in Seq(RefPart)
OBVIOUS

LEMMA NextRevisionType == TypeOK => NextRevision \in Nat /\ NextRevision > 0
BY DEF TypeOK, NextRevision

LEMMA RowType ==
    ASSUME TypeOK, NEW ns \in Namespaces, NEW svc \in ServiceNames, NEW addr \in Addrs,
           NEW content \in Contents
    PROVE  Row(ns, svc, addr, content) \in Instance
BY NextRevisionType DEF Row, Instance

(* What a request read is what its step says.                                  *)
LEMMA RequestFields ==
    ASSUME TypeOK, NEW w \in Workers
    PROVE  /\ req[w].step = "checked" => req[w].ns \in Namespaces
           /\ req[w].step = "read" => req[w].id \in Ids /\ req[w].row \in Instance
<1>1. req[w] \in Request
  BY DEF TypeOK
<1> QED BY <1>1 DEF Request

LEMMA NoRequestType == NoRequest \in Request
BY DEF NoRequest, Request

(* A request is done, or has read.                                             *)
LEMMA CheckedType ==
    ASSUME TypeOK, NEW w \in Workers, NEW ns, Checked(w, ns)
    PROVE  req' \in [Workers -> Request] /\ ns \in Namespaces
BY RequestFields, NoRequestType DEF Checked, TypeOK

LEMMA ReadsType ==
    ASSUME TypeOK, NEW w \in Workers, Reads(w)
    PROVE  TypeOK' /\ UNCHANGED tables
<1>1. ASSUME NEW ns \in Namespaces, CheckNamespace(w, ns) PROVE req' \in [Workers -> Request]
  <2>1. [step |-> "checked", ns |-> ns] \in Request
    BY DEF Request
  <2> QED BY <1>1, <2>1 DEF CheckNamespace, TypeOK
<1>2. ASSUME NEW i \in Ids, ReadInstance(w, i) PROVE req' \in [Workers -> Request]
  <2>1. instances[i] \in Instance
    BY <1>2 DEF ReadInstance, TypeOK
  <2>2. [step |-> "read", id |-> i, row |-> instances[i]] \in Request
    BY <2>1 DEF Request
  <2> QED BY <1>2, <2>2 DEF ReadInstance, TypeOK
<1>3. CASE GiveUp(w)
  BY <1>3, NoRequestType DEF GiveUp, TypeOK, tables
<1>4. UNCHANGED tables /\ process' = process
  BY DEF Reads, CheckNamespace, ReadInstance, GiveUp
<1> QED BY <1>1, <1>2, <1>3, <1>4 DEF Reads, TypeOK, tables

LEMMA AtomicWriteType ==
    ASSUME TypeOK, AtomicWrite
    PROVE  TypeOK'
<1>1. ASSUME NEW ns \in Namespaces, CreateNamespace(ns) PROVE TypeOK'
  <2>1. changes' \in Seq(Change)
    BY <1>1, RefType, RecordType DEF CreateNamespace, RefPart
  <2> QED BY <1>1, <2>1 DEF CreateNamespace, TypeOK
<1>2. ASSUME NEW ns \in Namespaces, NEW svc \in ServiceNames, DeleteService(ns, svc) PROVE TypeOK'
  <2>1. changes' \in Seq(Change)
    BY <1>2, RefType, RecordType DEF DeleteService, RefPart
  <2>2. services' \in [Keys -> Nat] /\ instances' \in [Ids -> Instance \union {NoRow}]
    BY <1>2 DEF DeleteService, TypeOK
  <2> QED BY <1>2, <2>1, <2>2 DEF DeleteService, TypeOK
<1>3. ASSUME NEW ns \in Namespaces, NEW svc \in ServiceNames, NEW i \in Ids, NEW addr \in Addrs,
             NEW content \in Contents, CreateInstance(ns, svc, i, addr, content)
      PROVE  TypeOK'
  <2> DEFINE row == Row(ns, svc, addr, content)
  <2>1. row \in Instance /\ row.ns = ns /\ row.svc = svc
    BY RowType DEF Row
  <2>2. Record("instance", "create", <<ns, svc, i>>) /\ instances' = [instances EXCEPT ![i] = row]
    BY <1>3, <2>1 DEF CreateInstance, InsertInstance
  <2> HIDE DEF row
  <2>3. changes' \in Seq(Change)
    BY <2>2, RefType, RecordType DEF RefPart
  <2> QED BY <1>3, <2>1, <2>2, <2>3 DEF CreateInstance, TypeOK
<1>4. ASSUME NEW ns \in Namespaces, NEW name \in ServerNames, DeleteAgentMCPServer(ns, name)
      PROVE  TypeOK'
  <2>1. changes' \in Seq(Change)
    BY <1>4, RefType, RecordType DEF DeleteAgentMCPServer, RefPart
  <2> QED BY <1>4, <2>1 DEF DeleteAgentMCPServer, TypeOK
<1> QED BY <1>1, <1>2, <1>3, <1>4 DEF AtomicWrite

LEMMA PutContractType ==
    ASSUME TypeOK, NEW ns \in Namespaces, NEW svc \in ServiceNames, PutContract(ns, svc)
    PROVE  changes' \in Seq(Change) /\ services' \in [Keys -> Nat]
<1> DEFINE op == IF ServiceExists(ns, svc) THEN "update" ELSE "create"
<1>1. op \in {"create", "update", "delete"} /\ Record("service", op, <<ns, svc>>)
  BY DEF PutContract
<1> HIDE DEF op
<1>2. changes' \in Seq(Change)
  BY <1>1, RefType, RecordType DEF RefPart
<1>3. services' \in [Keys -> Nat]
  BY NextRevisionType DEF PutContract, TypeOK
<1> QED BY <1>2, <1>3

LEMMA AnnounceType ==
    ASSUME TypeOK, NEW w \in Workers, NEW ns \in Namespaces, NEW svc \in ServiceNames,
           NEW addr \in Addrs, NEW content \in Contents, AnnounceInstance(w, ns, svc, addr, content)
    PROVE  changes' \in Seq(Change) /\ instances' \in [Ids -> Instance \union {NoRow}]
<1> DEFINE row == Row(ns, svc, addr, content)
<1>1. row \in Instance /\ row.ns = ns /\ row.svc = svc
  BY RowType DEF Row
<1>2. \/ UNCHANGED <<instances, changes>>
      \/ \E i \in Ids, op \in {"create", "update"} :
            /\ instances' = [instances EXCEPT ![i] = row]
            /\ Record("instance", op, <<ns, svc, i>>)
  BY <1>1 DEF AnnounceInstance, InsertInstance, FreshIds, IdsOf
<1> HIDE DEF row
<1>3. ASSUME NEW i \in Ids, NEW op \in {"create", "update"}, Record("instance", op, <<ns, svc, i>>)
      PROVE  changes' \in Seq(Change)
  BY <1>3, RefType, RecordType DEF RefPart
<1> QED BY <1>1, <1>2, <1>3 DEF TypeOK

LEMMA CheckedWriteType ==
    ASSUME TypeOK, NEW w \in Workers, CheckedWrite(w)
    PROVE  TypeOK'
<1>1. PICK ns \in Namespaces :
         \/ UpdateNamespace(w, ns)
         \/ DeleteNamespace(w, ns)
         \/ \E svc \in ServiceNames :
               \/ UpsertService(w, ns, svc)
               \/ \E addr \in Addrs, content \in Contents :
                     AnnounceInstance(w, ns, svc, addr, content)
         \/ \E name \in ServerNames, content \in Contents :
               UpsertAgentMCPServer(w, ns, name, content)
  BY DEF CheckedWrite
<1>2. CASE UpdateNamespace(w, ns)
  <2>1. changes' \in Seq(Change) /\ req' \in [Workers -> Request]
    BY <1>2, RefType, RecordType, CheckedType DEF UpdateNamespace, RefPart
  <2> QED BY <1>2, <2>1 DEF UpdateNamespace, TypeOK
<1>3. CASE DeleteNamespace(w, ns)
  <2>1. changes' \in Seq(Change) /\ req' \in [Workers -> Request]
    BY <1>3, RefType, RecordType, CheckedType DEF DeleteNamespace, RefPart
  <2>2. services' \in [Keys -> Nat] /\ instances' \in [Ids -> Instance \union {NoRow}]
    BY <1>3 DEF DeleteNamespace, TypeOK
  <2>3. servers' \in [ServerNames -> Server \union {NoRow}]
    BY <1>3 DEF DeleteNamespace, TypeOK
  <2> QED BY <1>3, <2>1, <2>2, <2>3 DEF DeleteNamespace, TypeOK
<1>4. ASSUME NEW svc \in ServiceNames, UpsertService(w, ns, svc) PROVE TypeOK'
  <2>1. changes' \in Seq(Change) /\ services' \in [Keys -> Nat] /\ req' \in [Workers -> Request]
    BY <1>4, PutContractType, CheckedType DEF UpsertService
  <2> QED BY <1>4, <2>1 DEF UpsertService, PutContract, TypeOK
<1>5. ASSUME NEW svc \in ServiceNames, NEW addr \in Addrs, NEW content \in Contents,
             AnnounceInstance(w, ns, svc, addr, content)
      PROVE  TypeOK'
  <2>1. /\ changes' \in Seq(Change) /\ instances' \in [Ids -> Instance \union {NoRow}]
        /\ req' \in [Workers -> Request]
    BY <1>5, AnnounceType, CheckedType DEF AnnounceInstance
  <2> QED BY <1>5, <2>1 DEF AnnounceInstance, TypeOK
<1>6. ASSUME NEW name \in ServerNames, NEW content \in Contents,
             UpsertAgentMCPServer(w, ns, name, content)
      PROVE  TypeOK'
  <2> DEFINE server == [ns |-> ns, content |-> content, revision |-> NextRevision]
             op == IF servers[name] = NoRow THEN "create" ELSE "update"
  <2>1. server \in Server /\ op \in {"create", "update", "delete"}
    BY NextRevisionType DEF Server
  <2>2. \/ UNCHANGED <<servers, changes>>
        \/ /\ Record("mcp_server", op, <<ns, name>>)
           /\ servers' = [servers EXCEPT ![name] = server]
    BY <1>6 DEF UpsertAgentMCPServer
  <2> HIDE DEF server, op
  <2>3. changes' \in Seq(Change) /\ servers' \in [ServerNames -> Server \union {NoRow}]
    BY <2>1, <2>2, RefType, RecordType DEF RefPart, TypeOK
  <2>4. req' \in [Workers -> Request]
    BY <1>6, CheckedType DEF UpsertAgentMCPServer
  <2> QED BY <1>6, <2>3, <2>4 DEF UpsertAgentMCPServer, TypeOK
<1> QED BY <1>1, <1>2, <1>3, <1>4, <1>5, <1>6

(* The address and content a PATCH computes.                                   *)
LEMMA PatchedType ==
    ASSUME NEW row \in Instance, NEW patch \in Patch
    PROVE  Patched(row.addr, patch.addr) \in Addrs /\ Patched(row.content, patch.content) \in Contents
BY DEF Instance, Patch, Patched

LEMMA RowWriteType ==
    ASSUME TypeOK, NEW w \in Workers, RowWrite(w)
    PROVE  TypeOK'
<1>1. req[w].step = "read"
  BY DEF RowWrite, UpdateInstance, DeleteInstance
<1>2. /\ req[w].id \in Ids /\ req[w].row \in Instance
      /\ req[w].row.ns \in Namespaces /\ req[w].row.svc \in ServiceNames
  BY <1>1, RequestFields DEF Instance
<1>3. req' \in [Workers -> Request] /\ UNCHANGED <<process, namespaces, services, servers>>
  BY NoRequestType DEF RowWrite, UpdateInstance, DeleteInstance, TypeOK
<1>4. CASE DeleteInstance(w)
  <2>1. changes' \in Seq(Change)
    BY <1>2, <1>4, RefType, RecordType DEF DeleteInstance, RefPart
  <2> QED BY <1>2, <1>3, <1>4, <2>1 DEF DeleteInstance, TypeOK
<1>5. ASSUME NEW patch \in Patch, UpdateInstance(w, patch) PROVE TypeOK'
  <2> DEFINE i == req[w].id
             addr == Patched(req[w].row.addr, patch.addr)
             content == Patched(req[w].row.content, patch.content)
             new == [instances[i] EXCEPT !.addr = addr, !.content = content, !.revision = NextRevision]
  <2>1. changes' \in Seq(Change)
    BY <1>2, <1>5, RefType, RecordType DEF UpdateInstance, RefPart
  <2>2. \/ UNCHANGED instances
        \/ instances[i] # NoRow /\ instances' = [instances EXCEPT ![i] = new]
    BY <1>5 DEF UpdateInstance
  <2>3. addr \in Addrs /\ content \in Contents /\ NextRevision \in Nat
    BY <1>2, PatchedType, NextRevisionType
  <2>4. instances[i] # NoRow => new \in Instance
    <3>1. instances[i] # NoRow => instances[i] \in Instance
      BY <1>2 DEF TypeOK
    <3> HIDE DEF i, addr, content
    <3> QED BY <2>3, <3>1 DEF Instance
  <2> HIDE DEF new
  <2>5. instances' \in [Ids -> Instance \union {NoRow}]
    BY <1>2, <2>2, <2>4 DEF TypeOK
  <2> QED BY <1>3, <2>1, <2>5 DEF TypeOK
<1> QED BY <1>4, <1>5 DEF RowWrite

LEMMA StartType ==
    ASSUME TypeOK, NEW ns \in DefaultNamespaces, EnsureNamespace(ns) \/ PublishOwnContract(ns)
    PROVE  TypeOK'
<1>0. ns \in Namespaces /\ OwnService \in ServiceNames
  BY OwnAssumption
<1>1. CASE EnsureNamespace(ns)
  BY <1>0, <1>1 DEF EnsureNamespace, TypeOK
<1>2. CASE PublishOwnContract(ns)
  <2> DEFINE op == IF ServiceExists(ns, OwnService) THEN "update" ELSE "create"
  <2>1. /\ op \in {"create", "update", "delete"}
        /\ \/ /\ Record("service", op, <<ns, OwnService>>)
              /\ services' = [services EXCEPT ![<<ns, OwnService>>] = NextRevision]
           \/ UNCHANGED <<services, changes>>
    BY <1>2 DEF PublishOwnContract
  <2> HIDE DEF op
  <2>2. changes' \in Seq(Change) /\ services' \in [Keys -> Nat]
    BY <1>0, <2>1, RefType, RecordType, NextRevisionType DEF RefPart, TypeOK
  <2> QED BY <1>2, <2>2 DEF PublishOwnContract, TypeOK
<1> QED BY <1>1, <1>2

LEMMA StepType == TypeOK /\ [Next]_vars => TypeOK'
<1> SUFFICES ASSUME TypeOK, [Next]_vars PROVE TypeOK'
  OBVIOUS
<1>1. CASE Die
  BY <1>1, NoRequestType DEF Die, tables, TypeOK
<1>2. CASE UNCHANGED vars
  BY <1>2 DEF vars, tables, TypeOK
<1> QED BY <1>1, <1>2, ReadsType, AtomicWriteType, CheckedWriteType, RowWriteType, StartType DEF Next

LEMMA InitType == Init => TypeOK
BY NoRequestType DEF Init, TypeOK

(* In every reachable state every table holds rows of its kind and every       *)
(* request has read what it says it has.                                       *)
THEOREM TypeCorrect == Spec => []TypeOK
BY InitType, StepType, PTL DEF Spec

-----------------------------------------------------------------------------
(* No orphans, no shared addresses *)

InstancesInv == NoOrphanInstance /\ AddressUnique

(* A write that leaves the instances alone and takes no service away.          *)
LEMMA InstancesStay ==
    ASSUME TypeOK, InstancesInv, instances' = instances,
           \A k \in Keys : services[k] > 0 => services'[k] > 0
    PROVE  InstancesInv'
<1>1. ASSUME NEW i \in Ids, instances[i] # NoRow
      PROVE  ServiceExists(instances[i].ns, instances[i].svc)'
  <2>1. <<instances[i].ns, instances[i].svc>> \in Keys
    BY <1>1 DEF TypeOK, Instance, Keys
  <2> QED BY <1>1, <2>1 DEF InstancesInv, NoOrphanInstance, ServiceExists
<1> QED BY <1>1 DEF InstancesInv, NoOrphanInstance, AddressUnique

(* A cascade: instances go, all those of the services that go among them.      *)
LEMMA InstancesGo ==
    ASSUME TypeOK, InstancesInv,
           \A i \in Ids : \/ instances'[i] = NoRow
                          \/ /\ instances'[i] = instances[i]
                             /\ LET k == <<instances[i].ns, instances[i].svc>> IN
                                services'[k] = services[k]
    PROVE  InstancesInv'
<1>1. ASSUME NEW i \in Ids, instances'[i] # NoRow
      PROVE  /\ instances'[i] = instances[i]
             /\ services'[<<instances[i].ns, instances[i].svc>>] > 0
  BY <1>1 DEF InstancesInv, NoOrphanInstance, ServiceExists
<1>2. NoOrphanInstance'
  BY <1>1 DEF NoOrphanInstance, ServiceExists
<1>3. ASSUME NEW i \in Ids, NEW j \in Ids, i # j, instances'[i] # NoRow, instances'[j] # NoRow,
             instances'[i].ns = instances'[j].ns, instances'[i].svc = instances'[j].svc
      PROVE  instances'[i].addr # instances'[j].addr
  <2>1. instances'[i] = instances[i] /\ instances'[j] = instances[j]
    BY <1>1, <1>3
  <2> QED BY <1>3, <2>1 DEF InstancesInv, AddressUnique
<1>4. AddressUnique'
  BY <1>3 DEF AddressUnique
<1> QED BY <1>2, <1>4 DEF InstancesInv

(* An instance is written where its address was free in its service.           *)
LEMMA InstanceWritten ==
    ASSUME TypeOK, InstancesInv, services' = services, NEW i \in Ids, NEW row,
           instances' = [instances EXCEPT ![i] = row],
           ServiceExists(row.ns, row.svc), AddressFree(row.ns, row.svc, row.addr, i)
    PROVE  InstancesInv'
<1>1. instances'[i] = row /\ \A j \in Ids \ {i} : instances'[j] = instances[j]
  BY DEF TypeOK
<1>2. NoOrphanInstance'
  BY <1>1 DEF InstancesInv, NoOrphanInstance, ServiceExists
<1>3. \A j \in Ids \ {i} : instances[j] # NoRow /\ instances[j].ns = row.ns /\ instances[j].svc = row.svc
                            => instances[j].addr # row.addr
  BY DEF AddressFree, IdsOf
<1>4. AddressUnique'
  BY <1>1, <1>3 DEF InstancesInv, AddressUnique
<1> QED BY <1>2, <1>4 DEF InstancesInv

LEMMA AtomicWriteInstances ==
    ASSUME TypeOK, InstancesInv, AtomicWrite
    PROVE  InstancesInv'
<1>1. ASSUME NEW ns \in Namespaces, CreateNamespace(ns) PROVE InstancesInv'
  BY <1>1, InstancesStay DEF CreateNamespace
<1>2. ASSUME NEW ns \in Namespaces, NEW svc \in ServiceNames, DeleteService(ns, svc)
      PROVE  InstancesInv'
  <2>1. services' = [services EXCEPT ![<<ns, svc>>] = 0]
    BY <1>2 DEF DeleteService
  <2>2. \A i \in Ids : instances'[i] = IF i \in IdsOf(ns, svc) THEN NoRow ELSE instances[i]
    BY <1>2 DEF DeleteService
  <2>3. ASSUME NEW i \in Ids, instances'[i] # NoRow
        PROVE  /\ instances'[i] = instances[i]
               /\ services'[<<instances[i].ns, instances[i].svc>>]
                    = services[<<instances[i].ns, instances[i].svc>>]
    <3>1. instances'[i] = instances[i] /\ instances[i] # NoRow /\ i \notin IdsOf(ns, svc)
      BY <2>2, <2>3
    <3>2. <<instances[i].ns, instances[i].svc>> # <<ns, svc>>
      BY <3>1 DEF IdsOf
    <3>3. <<instances[i].ns, instances[i].svc>> \in Keys
      BY <3>1 DEF TypeOK, Instance, Keys
    <3> QED BY <2>1, <3>1, <3>2, <3>3 DEF TypeOK
  <2> QED BY <2>3, InstancesGo
<1>3. ASSUME NEW ns \in Namespaces, NEW svc \in ServiceNames, NEW i \in Ids, NEW addr \in Addrs,
             NEW content \in Contents, CreateInstance(ns, svc, i, addr, content)
      PROVE  InstancesInv'
  <2> DEFINE row == Row(ns, svc, addr, content)
  <2>1. row.ns = ns /\ row.svc = svc /\ row.addr = addr
    BY DEF Row
  <2>2. instances' = [instances EXCEPT ![i] = row] /\ services' = services
    BY <1>3 DEF CreateInstance, InsertInstance
  <2>3. ServiceExists(ns, svc) /\ AddressFree(ns, svc, addr, i)
    BY <1>3 DEF CreateInstance
  <2> HIDE DEF row
  <2> QED BY <2>1, <2>2, <2>3, InstanceWritten
<1>4. ASSUME NEW ns \in Namespaces, NEW name \in ServerNames, DeleteAgentMCPServer(ns, name)
      PROVE  InstancesInv'
  BY <1>4, InstancesStay DEF DeleteAgentMCPServer
<1> QED BY <1>1, <1>2, <1>3, <1>4 DEF AtomicWrite

LEMMA AnnounceInstances ==
    ASSUME TypeOK, InstancesInv, NEW w \in Workers, NEW ns \in Namespaces,
           NEW svc \in ServiceNames, NEW addr \in Addrs, NEW content \in Contents,
           AnnounceInstance(w, ns, svc, addr, content)
    PROVE  InstancesInv'
<1> DEFINE row == Row(ns, svc, addr, content)
<1>1. row.ns = ns /\ row.svc = svc /\ row.addr = addr
  BY DEF Row
<1>2. services' = services /\ ServiceExists(ns, svc)
  BY DEF AnnounceInstance
<1>3. \/ instances' = instances
      \/ AddressFree(ns, svc, addr, NoRow) /\ \E i \in Ids : instances' = [instances EXCEPT ![i] = row]
      \/ \E i \in IdsOf(ns, svc) : instances[i].addr = addr /\ instances' = [instances EXCEPT ![i] = row]
  BY DEF AnnounceInstance, InsertInstance, FreshIds
<1> HIDE DEF row
<1>4. CASE instances' = instances
  BY <1>2, <1>4, InstancesStay
<1>5. ASSUME AddressFree(ns, svc, addr, NoRow), NEW i \in Ids,
             instances' = [instances EXCEPT ![i] = row]
      PROVE  InstancesInv'
  <2>1. AddressFree(ns, svc, addr, i)
    BY <1>5, NoRowAssumption DEF AddressFree, IdsOf
  <2> QED BY <1>1, <1>2, <1>5, <2>1, InstanceWritten
<1>6. ASSUME NEW i \in IdsOf(ns, svc), instances[i].addr = addr,
             instances' = [instances EXCEPT ![i] = row]
      PROVE  InstancesInv'
  <2>1. AddressFree(ns, svc, addr, i)
    BY <1>6 DEF AddressFree, IdsOf, InstancesInv, AddressUnique
  <2> QED BY <1>1, <1>2, <1>6, <2>1, InstanceWritten DEF IdsOf
<1> QED BY <1>3, <1>4, <1>5, <1>6

LEMMA CheckedWriteInstances ==
    ASSUME TypeOK, InstancesInv, NEW w \in Workers, CheckedWrite(w)
    PROVE  InstancesInv'
<1>1. ASSUME NEW ns \in Namespaces, UpdateNamespace(w, ns) PROVE InstancesInv'
  BY <1>1, InstancesStay DEF UpdateNamespace
<1>2. ASSUME NEW ns \in Namespaces, DeleteNamespace(w, ns) PROVE InstancesInv'
  <2>1. /\ services' = [k \in Keys |-> IF k[1] = ns THEN 0 ELSE services[k]]
        /\ \A i \in Ids : instances'[i] =
              IF instances[i] # NoRow /\ instances[i].ns = ns THEN NoRow ELSE instances[i]
    BY <1>2 DEF DeleteNamespace
  <2>2. ASSUME NEW i \in Ids, instances'[i] # NoRow
        PROVE  /\ instances'[i] = instances[i]
               /\ services'[<<instances[i].ns, instances[i].svc>>]
                    = services[<<instances[i].ns, instances[i].svc>>]
    <3>1. instances'[i] = instances[i] /\ instances[i] # NoRow /\ instances[i].ns # ns
      BY <2>1, <2>2
    <3>2. <<instances[i].ns, instances[i].svc>> \in Keys
      BY <3>1 DEF TypeOK, Instance, Keys
    <3> QED BY <2>1, <3>1, <3>2
  <2> QED BY <2>2, InstancesGo
<1>3. ASSUME NEW ns \in Namespaces, NEW svc \in ServiceNames, UpsertService(w, ns, svc)
      PROVE  InstancesInv'
  BY <1>3, InstancesStay, NextRevisionType DEF UpsertService, PutContract, TypeOK
<1>4. ASSUME NEW ns \in Namespaces, NEW name \in ServerNames, NEW content \in Contents,
             UpsertAgentMCPServer(w, ns, name, content)
      PROVE  InstancesInv'
  BY <1>4, InstancesStay DEF UpsertAgentMCPServer
<1> QED BY <1>1, <1>2, <1>3, <1>4, AnnounceInstances DEF CheckedWrite

LEMMA RowWriteInstances ==
    ASSUME TypeOK, InstancesInv, NEW w \in Workers, RowWrite(w)
    PROVE  InstancesInv'
<1>0. req[w].id \in Ids
  BY RequestFields DEF RowWrite, UpdateInstance, DeleteInstance
<1>1. CASE DeleteInstance(w)
  <2>1. services' = services /\ \A i \in Ids : instances'[i] \in {instances[i], NoRow}
    BY <1>1 DEF DeleteInstance, TypeOK
  <2> QED BY <2>1, InstancesGo
<1>2. ASSUME NEW patch \in Patch, UpdateInstance(w, patch) PROVE InstancesInv'
  <2> DEFINE i == req[w].id
             addr == Patched(req[w].row.addr, patch.addr)
             content == Patched(req[w].row.content, patch.content)
             new == [instances[i] EXCEPT !.addr = addr, !.content = content, !.revision = NextRevision]
  <2>1. services' = services
    BY <1>2 DEF UpdateInstance
  <2>2. CASE instances' = instances
    BY <2>1, <2>2, InstancesStay
  <2>3. ASSUME instances[i] # NoRow, AddressFree(instances[i].ns, instances[i].svc, addr, i),
               instances' = [instances EXCEPT ![i] = new]
        PROVE  InstancesInv'
    <3>1. new.ns = instances[i].ns /\ new.svc = instances[i].svc /\ new.addr = addr
      BY <1>0, <2>3 DEF TypeOK, Instance
    <3>2. ServiceExists(instances[i].ns, instances[i].svc)
      BY <1>0, <2>3 DEF InstancesInv, NoOrphanInstance
    <3> HIDE DEF new, addr
    <3> QED BY <1>0, <2>1, <2>3, <3>1, <3>2, InstanceWritten
  <2> QED BY <1>2, <2>2, <2>3 DEF UpdateInstance
<1> QED BY <1>1, <1>2 DEF RowWrite

LEMMA StepInstances == TypeOK /\ InstancesInv /\ [Next]_vars => InstancesInv'
<1> SUFFICES ASSUME TypeOK, InstancesInv, [Next]_vars PROVE InstancesInv'
  OBVIOUS
<1>1. CASE UNCHANGED tables
  BY <1>1, InstancesStay DEF tables
<1>2. ASSUME NEW ns \in DefaultNamespaces, EnsureNamespace(ns) \/ PublishOwnContract(ns)
      PROVE  InstancesInv'
  BY <1>2, InstancesStay, NextRevisionType DEF EnsureNamespace, PublishOwnContract, TypeOK
<1>3. Die \/ UNCHANGED vars => UNCHANGED tables
  BY DEF Die, vars
<1> QED BY <1>1, <1>2, <1>3, ReadsType, AtomicWriteInstances, CheckedWriteInstances,
           RowWriteInstances DEF Next

LEMMA InstancesInvariant == Spec => [](TypeOK /\ InstancesInv)
<1>1. Init => InstancesInv
  BY DEF Init, InstancesInv, NoOrphanInstance, AddressUnique
<1>2. TypeOK /\ InstancesInv /\ [Next]_vars => (TypeOK /\ InstancesInv)'
  BY StepType, StepInstances
<1> QED BY <1>1, <1>2, InitType, PTL DEF Spec

(* An instance always has its service, whichever request deletes the service   *)
(* or its namespace while others create, announce and PATCH.                   *)
THEOREM NoOrphans == Spec => []NoOrphanInstance
<1>1. InstancesInv => NoOrphanInstance
  BY DEF InstancesInv
<1> QED BY InstancesInvariant, <1>1, PTL

(* Two instances of a service never have the same address, although a PATCH    *)
(* checks its address against the service of the row it read.                  *)
THEOREM AddressesAreUnique == Spec => []AddressUnique
<1>1. InstancesInv => AddressUnique
  BY DEF InstancesInv
<1> QED BY InstancesInvariant, <1>1, PTL

-----------------------------------------------------------------------------
(* What a step records of what it changes *)

Entry(entity, op, ref) == [entity |-> entity, op |-> op, ref |-> ref]

Logged(entity, op, ref) == changes' = Append(changes, Entry(entity, op, ref))

(* Nothing is recorded, and no row is written.                                 *)
Quiet == UNCHANGED <<services, instances, servers, changes>> /\ namespaces \subseteq namespaces'

NamespaceKept(ns) ==
    /\ \E op \in {"create", "update"} : Logged("namespace", op, <<ns>>)
    /\ UNCHANGED <<services, instances, servers>>
    /\ namespaces \subseteq namespaces'

NamespaceGone(ns) ==
    /\ Logged("namespace", "delete", <<ns>>)
    /\ namespaces' = namespaces \ {ns}
    /\ \A k \in Keys : services'[k] = IF k[1] = ns THEN 0 ELSE services[k]
    /\ \A i \in Ids : instances'[i] =
          IF instances[i] # NoRow /\ instances[i].ns = ns THEN NoRow ELSE instances[i]
    /\ \A m \in ServerNames : servers'[m] =
          IF servers[m] # NoRow /\ servers[m].ns = ns THEN NoRow ELSE servers[m]

ServicePut(ns, svc) ==
    /\ Logged("service", IF services[<<ns, svc>>] > 0 THEN "update" ELSE "create", <<ns, svc>>)
    /\ services' = [services EXCEPT ![<<ns, svc>>] = NextRevision]
    /\ UNCHANGED <<namespaces, instances, servers>>

ServiceGone(ns, svc) ==
    /\ Logged("service", "delete", <<ns, svc>>)
    /\ services' = [services EXCEPT ![<<ns, svc>>] = 0]
    /\ \A i \in Ids : instances'[i] = IF i \in IdsOf(ns, svc) THEN NoRow ELSE instances[i]
    /\ UNCHANGED <<namespaces, servers>>

InstancePut(ns, svc, i) ==
    /\ Logged("instance", "create", <<ns, svc, i>>)
    /\ instances[i] = NoRow \/ i \in FreshIds
    /\ \E row \in Instance :
          /\ row.ns = ns /\ row.svc = svc /\ row.revision = NextRevision
          /\ instances' = [instances EXCEPT ![i] = row]
    /\ UNCHANGED <<namespaces, services, servers>>

(* The row keeps its service, which need not be the one the change names.      *)
InstanceUpdated(ns, svc, i) ==
    /\ Logged("instance", "update", <<ns, svc, i>>)
    /\ \/ instances[i] = NoRow /\ UNCHANGED instances
       \/ /\ instances[i] # NoRow
          /\ \E row \in Instance :
                /\ row.ns = instances[i].ns /\ row.svc = instances[i].svc
                /\ row.revision = NextRevision
                /\ instances' = [instances EXCEPT ![i] = row]
    /\ UNCHANGED <<namespaces, services, servers>>

InstanceGone(ns, svc, i) ==
    /\ Logged("instance", "delete", <<ns, svc, i>>)
    /\ instances' = [instances EXCEPT ![i] = NoRow]
    /\ UNCHANGED <<namespaces, services, servers>>

ServerPut(ns, m) ==
    /\ servers[m] # NoRow => servers[m].ns = ns
    /\ Logged("mcp_server", IF servers[m] = NoRow THEN "create" ELSE "update", <<ns, m>>)
    /\ \E row \in Server :
          /\ row.ns = ns /\ row.revision = NextRevision
          /\ servers' = [servers EXCEPT ![m] = row]
    /\ UNCHANGED <<namespaces, services, instances>>

ServerGone(ns, m) ==
    /\ servers[m] # NoRow /\ servers[m].ns = ns
    /\ Logged("mcp_server", "delete", <<ns, m>>)
    /\ servers' = [servers EXCEPT ![m] = NoRow]
    /\ UNCHANGED <<namespaces, services, instances>>

OnNamespace(ns) == NamespaceKept(ns) \/ NamespaceGone(ns)

OnService(ns, svc) == ServicePut(ns, svc) \/ ServiceGone(ns, svc)

OnInstance(ns, svc, i) == InstancePut(ns, svc, i) \/ InstanceUpdated(ns, svc, i) \/ InstanceGone(ns, svc, i)

OnServer(ns, m) == ServerPut(ns, m) \/ ServerGone(ns, m)

Effect ==
    \/ Quiet
    \/ \E ns \in Namespaces : OnNamespace(ns)
    \/ \E ns \in Namespaces, svc \in ServiceNames : OnService(ns, svc)
    \/ \E ns \in Namespaces, svc \in ServiceNames, i \in Ids : OnInstance(ns, svc, i)
    \/ \E ns \in Namespaces, m \in ServerNames : OnServer(ns, m)

LEMMA RecordLogs ==
    ASSUME NEW entity, NEW op, NEW ref, Record(entity, op, ref)
    PROVE  Logged(entity, op, ref)
BY DEF Record, Logged, Entry

LEMMA AtomicWriteEffect ==
    ASSUME TypeOK, AtomicWrite
    PROVE  Effect
<1>1. ASSUME NEW ns \in Namespaces, CreateNamespace(ns) PROVE OnNamespace(ns)
  BY <1>1, RecordLogs DEF CreateNamespace, OnNamespace, NamespaceKept
<1>2. ASSUME NEW ns \in Namespaces, NEW svc \in ServiceNames, DeleteService(ns, svc)
      PROVE  OnService(ns, svc)
  BY <1>2, RecordLogs DEF DeleteService, OnService, ServiceGone
<1>3. ASSUME NEW ns \in Namespaces, NEW svc \in ServiceNames, NEW i \in Ids, NEW addr \in Addrs,
             NEW content \in Contents, CreateInstance(ns, svc, i, addr, content)
      PROVE  OnInstance(ns, svc, i)
  <2> DEFINE row == Row(ns, svc, addr, content)
  <2>1. row \in Instance /\ row.ns = ns /\ row.svc = svc /\ row.revision = NextRevision
    BY RowType DEF Row
  <2>2. Record("instance", "create", <<ns, svc, i>>) /\ instances' = [instances EXCEPT ![i] = row]
    BY <1>3, <2>1 DEF CreateInstance, InsertInstance
  <2> HIDE DEF row
  <2>3. instances[i] = NoRow /\ UNCHANGED <<namespaces, services, servers>>
    BY <1>3 DEF CreateInstance
  <2> QED BY <2>1, <2>2, <2>3, RecordLogs DEF OnInstance, InstancePut
<1>4. ASSUME NEW ns \in Namespaces, NEW name \in ServerNames, DeleteAgentMCPServer(ns, name)
      PROVE  OnServer(ns, name)
  BY <1>4, RecordLogs DEF DeleteAgentMCPServer, OnServer, ServerGone
<1> QED BY <1>1, <1>2, <1>3, <1>4 DEF AtomicWrite, Effect

LEMMA AnnounceEffect ==
    ASSUME TypeOK, NEW w \in Workers, NEW ns \in Namespaces, NEW svc \in ServiceNames,
           NEW addr \in Addrs, NEW content \in Contents, AnnounceInstance(w, ns, svc, addr, content)
    PROVE  Quiet \/ \E i \in Ids : OnInstance(ns, svc, i)
<1> DEFINE row == Row(ns, svc, addr, content)
<1>1. row \in Instance /\ row.ns = ns /\ row.svc = svc /\ row.revision = NextRevision
  BY RowType DEF Row
<1>2. UNCHANGED <<namespaces, services, servers>>
  BY DEF AnnounceInstance
<1>3. \/ UNCHANGED <<instances, changes>>
      \/ \E i \in FreshIds : /\ instances' = [instances EXCEPT ![i] = row]
                             /\ Record("instance", "create", <<ns, svc, i>>)
      \/ \E i \in IdsOf(ns, svc) : /\ instances' = [instances EXCEPT ![i] = row]
                                   /\ Record("instance", "update", <<ns, svc, i>>)
  BY <1>1 DEF AnnounceInstance, InsertInstance
<1> HIDE DEF row
<1>4. CASE UNCHANGED <<instances, changes>>
  BY <1>2, <1>4 DEF Quiet
<1>5. ASSUME NEW i \in FreshIds, instances' = [instances EXCEPT ![i] = row],
             Record("instance", "create", <<ns, svc, i>>)
      PROVE  i \in Ids /\ OnInstance(ns, svc, i)
  BY <1>1, <1>2, <1>5, RecordLogs DEF OnInstance, InstancePut, FreshIds
<1>6. ASSUME NEW i \in IdsOf(ns, svc), instances' = [instances EXCEPT ![i] = row],
             Record("instance", "update", <<ns, svc, i>>)
      PROVE  i \in Ids /\ OnInstance(ns, svc, i)
  BY <1>1, <1>2, <1>6, RecordLogs DEF OnInstance, InstanceUpdated, IdsOf
<1> QED BY <1>3, <1>4, <1>5, <1>6

LEMMA CheckedWriteEffect ==
    ASSUME TypeOK, NEW w \in Workers, CheckedWrite(w)
    PROVE  Effect
<1>1. ASSUME NEW ns \in Namespaces, UpdateNamespace(w, ns) PROVE OnNamespace(ns)
  BY <1>1, RecordLogs DEF UpdateNamespace, OnNamespace, NamespaceKept
<1>2. ASSUME NEW ns \in Namespaces, DeleteNamespace(w, ns) PROVE OnNamespace(ns)
  BY <1>2, RecordLogs DEF DeleteNamespace, OnNamespace, NamespaceGone
<1>3. ASSUME NEW ns \in Namespaces, NEW svc \in ServiceNames, UpsertService(w, ns, svc)
      PROVE  OnService(ns, svc)
  BY <1>3, RecordLogs DEF UpsertService, PutContract, ServiceExists, OnService, ServicePut
<1>4. ASSUME NEW ns \in Namespaces, NEW name \in ServerNames, NEW content \in Contents,
             UpsertAgentMCPServer(w, ns, name, content)
      PROVE  Quiet \/ OnServer(ns, name)
  <2> DEFINE server == [ns |-> ns, content |-> content, revision |-> NextRevision]
             op == IF servers[name] = NoRow THEN "create" ELSE "update"
  <2>1. server \in Server /\ server.ns = ns /\ server.revision = NextRevision
    BY NextRevisionType DEF Server
  <2>2. /\ UNCHANGED <<namespaces, services, instances>>
        /\ servers[name] # NoRow => servers[name].ns = ns
        /\ \/ UNCHANGED <<servers, changes>>
           \/ /\ Record("mcp_server", op, <<ns, name>>)
              /\ servers' = [servers EXCEPT ![name] = server]
    BY <1>4 DEF UpsertAgentMCPServer
  <2> HIDE DEF server
  <2>3. CASE UNCHANGED <<servers, changes>>
    BY <2>2, <2>3 DEF Quiet
  <2>4. CASE Record("mcp_server", op, <<ns, name>>) /\ servers' = [servers EXCEPT ![name] = server]
    BY <2>1, <2>2, <2>4, RecordLogs DEF OnServer, ServerPut
  <2> QED BY <2>2, <2>3, <2>4
<1> QED BY <1>1, <1>2, <1>3, <1>4, AnnounceEffect DEF CheckedWrite, Effect

LEMMA RowWriteEffect ==
    ASSUME TypeOK, NEW w \in Workers, RowWrite(w)
    PROVE  Effect
<1> DEFINE i == req[w].id
           ns == req[w].row.ns
           svc == req[w].row.svc
<1>1. i \in Ids /\ req[w].row \in Instance /\ ns \in Namespaces /\ svc \in ServiceNames
  BY RequestFields DEF RowWrite, UpdateInstance, DeleteInstance, Instance
<1>2. UNCHANGED <<namespaces, services, servers>>
  BY DEF RowWrite, UpdateInstance, DeleteInstance
<1>3. ASSUME DeleteInstance(w) PROVE OnInstance(ns, svc, i)
  <2>1. Record("instance", "delete", <<ns, svc, i>>) /\ instances' = [instances EXCEPT ![i] = NoRow]
    BY <1>3 DEF DeleteInstance
  <2> QED BY <1>2, <2>1, RecordLogs DEF OnInstance, InstanceGone
<1>4. ASSUME NEW patch \in Patch, UpdateInstance(w, patch) PROVE OnInstance(ns, svc, i)
  <2> DEFINE addr == Patched(req[w].row.addr, patch.addr)
             content == Patched(req[w].row.content, patch.content)
             new == [instances[i] EXCEPT !.addr = addr, !.content = content, !.revision = NextRevision]
  <2>1. Record("instance", "update", <<ns, svc, i>>)
    BY <1>4 DEF UpdateInstance
  <2>2. \/ instances[i] = NoRow /\ UNCHANGED instances
        \/ instances[i] # NoRow /\ instances' = [instances EXCEPT ![i] = new]
    BY <1>4 DEF UpdateInstance
  <2>3. addr \in Addrs /\ content \in Contents /\ NextRevision \in Nat
    BY <1>1, PatchedType, NextRevisionType
  <2>4. instances[i] # NoRow => /\ new \in Instance /\ new.revision = NextRevision
                                /\ new.ns = instances[i].ns /\ new.svc = instances[i].svc
    <3>1. instances[i] # NoRow => instances[i] \in Instance
      BY <1>1 DEF TypeOK
    <3> HIDE DEF i, addr, content
    <3> QED BY <2>3, <3>1 DEF Instance
  <2> HIDE DEF new
  <2> QED BY <1>2, <2>1, <2>2, <2>4, RecordLogs DEF OnInstance, InstanceUpdated
<1> HIDE DEF i, ns, svc
<1>5. OnInstance(ns, svc, i)
  BY <1>3, <1>4 DEF RowWrite
<1> QED BY <1>1, <1>5 DEF Effect

(* Every step of the catalog is one of these, with what it leaves in the log.  *)
LEMMA StepEffect ==
    ASSUME TypeOK, [Next]_vars
    PROVE  Effect
<1>1. CASE UNCHANGED tables
  BY <1>1 DEF tables, Effect, Quiet
<1>2. ASSUME NEW ns \in DefaultNamespaces, EnsureNamespace(ns) PROVE Quiet
  BY <1>2 DEF EnsureNamespace, Quiet
<1>3. ASSUME NEW ns \in DefaultNamespaces, PublishOwnContract(ns)
      PROVE  Quiet \/ OnService(ns, OwnService)
  BY <1>3, RecordLogs DEF PublishOwnContract, ServiceExists, OnService, ServicePut, Quiet
<1>4. DefaultNamespaces \subseteq Namespaces /\ OwnService \in ServiceNames
  BY OwnAssumption
<1>5. Die \/ UNCHANGED vars => UNCHANGED tables
  BY DEF Die, vars
<1> QED BY <1>1, <1>2, <1>3, <1>4, <1>5, ReadsType, AtomicWriteEffect, CheckedWriteEffect,
           RowWriteEffect DEF Next, Effect

-----------------------------------------------------------------------------
(* The revision of a row *)

(* Change r is the last one that is in the set.                                *)
LastIn(r, set) ==
    /\ r \in DOMAIN changes /\ changes[r] \in set
    /\ \A n \in DOMAIN changes : changes[n] \in set => n <= r

OfService(k) == {c \in Change : c.entity = "service" /\ c.ref = k}
OfInstance(i) == {c \in Change : c.entity = "instance" /\ c.ref[3] = i}
OfServer(m) == {c \in Change : c.entity = "mcp_server" /\ c.ref[2] = m}

ServiceRevisions == \A k \in Keys : services[k] > 0 => LastIn(services[k], OfService(k))
InstanceRevisions ==
    \A i \in Ids : instances[i] # NoRow => LastIn(instances[i].revision, OfInstance(i))
ServerRevisions == \A m \in ServerNames : servers[m] # NoRow => LastIn(servers[m].revision, OfServer(m))

RevisionsInv == ServiceRevisions /\ InstanceRevisions /\ ServerRevisions

LEMMA RevisionsMean == TypeOK => (RevisionsInv <=> RevisionIsLastChange)
<1> SUFFICES ASSUME TypeOK PROVE RevisionsInv <=> RevisionIsLastChange
  OBVIOUS
<1>1. \A n \in DOMAIN changes : changes[n] \in Change
  BY DEF TypeOK
<1> QED BY <1>1 DEF RevisionsInv, ServiceRevisions, InstanceRevisions, ServerRevisions,
           RevisionIsLastChange, LastIn, LastOf, OfService, OfInstance, OfServer

(* What one more record does to the log.                                       *)
LEMMA LoggedFacts ==
    ASSUME TypeOK, TypeOK', NEW c, changes' = Append(changes, c)
    PROVE  /\ NextRevision \in Nat \ {0}
           /\ Len(changes) = NextRevision - 1 /\ Len(changes') = NextRevision
           /\ DOMAIN changes = 1 .. NextRevision - 1 /\ DOMAIN changes' = 1 .. NextRevision
           /\ changes'[NextRevision] = c /\ c \in Change
           /\ \A n \in DOMAIN changes : changes'[n] = changes[n] /\ changes[n] \in Change
<1>1. /\ changes \in Seq(Change) /\ changes' \in Seq(Change)
      /\ Len(changes) \in Nat /\ Len(changes') = Len(changes) + 1
  BY DEF TypeOK
<1>2. /\ DOMAIN changes = 1 .. Len(changes) /\ DOMAIN changes' = 1 .. Len(changes')
      /\ changes'[Len(changes) + 1] = c
      /\ \A n \in DOMAIN changes : changes'[n] = changes[n] /\ changes[n] \in Change
  BY <1>1
<1>3. c \in Change
  BY <1>1, <1>2
<1> QED BY <1>1, <1>2, <1>3 DEF NextRevision

LEMMA LastStays ==
    ASSUME TypeOK, TypeOK', NEW c, changes' = Append(changes, c), NEW set, c \notin set,
           NEW r, LastIn(r, set)
    PROVE  LastIn(r, set)'
BY LoggedFacts DEF LastIn

LEMMA LastIsNew ==
    ASSUME TypeOK, TypeOK', NEW c, changes' = Append(changes, c), NEW set, c \in set,
           NEW r, r = NextRevision
    PROVE  LastIn(r, set)'
BY LoggedFacts DEF LastIn

LEMMA LoggedIsChange ==
    ASSUME TypeOK, TypeOK', NEW entity, NEW op, NEW ref, Logged(entity, op, ref)
    PROVE  Entry(entity, op, ref) \in Change
<1> DEFINE c == Entry(entity, op, ref)
<1>1. changes' = Append(changes, c)
  BY DEF Logged
<1> HIDE DEF c
<1>2. c \in Change
  BY <1>1, LoggedFacts
<1> QED BY <1>2 DEF c

(* A record about an entity of another kind is not about this one.             *)
LEMMA EntryIsAbout ==
    ASSUME NEW entity, NEW op, NEW ref, NEW k, NEW i, NEW m
    PROVE  /\ Entry(entity, op, ref) \in OfService(k) => entity = "service" /\ ref = k
           /\ Entry(entity, op, ref) \in OfInstance(i) => entity = "instance" /\ ref[3] = i
           /\ Entry(entity, op, ref) \in OfServer(m) => entity = "mcp_server" /\ ref[2] = m
BY DEF Entry, OfService, OfInstance, OfServer

LEMMA ServiceRevisionsStep ==
    ASSUME TypeOK, TypeOK', Effect, ServiceRevisions
    PROVE  ServiceRevisions'
<1>1. CASE Quiet
  BY <1>1 DEF Quiet, ServiceRevisions, LastIn
<1>2. ASSUME NEW entity, NEW op, NEW ref, Logged(entity, op, ref), NEW k \in Keys,
             services'[k] = services[k] \/ services'[k] = 0, entity = "service" => ref # k,
             services'[k] > 0
      PROVE  LastIn(services[k], OfService(k))' /\ services'[k] = services[k]
  <2>1. services'[k] = services[k] /\ LastIn(services[k], OfService(k))
    BY <1>2 DEF ServiceRevisions
  <2>2. Entry(entity, op, ref) \notin OfService(k)
    BY <1>2, EntryIsAbout
  <2> DEFINE r == services[k]
  <2>3. \A q : LastIn(q, OfService(k)) => LastIn(q, OfService(k))'
    BY <1>2, <2>2, LastStays DEF Logged
  <2> QED BY <2>1, <2>3
<1>3. ASSUME NEW ns \in Namespaces, OnNamespace(ns) PROVE ServiceRevisions'
  BY <1>2, <1>3 DEF OnNamespace, NamespaceKept, NamespaceGone, ServiceRevisions
<1>4. ASSUME NEW ns \in Namespaces, NEW svc \in ServiceNames, ServicePut(ns, svc)
      PROVE  ServiceRevisions'
  <2> DEFINE op == IF services[<<ns, svc>>] > 0 THEN "update" ELSE "create"
             new == <<ns, svc>>
  <2>1. /\ Logged("service", op, new) /\ new \in Keys
        /\ services'[new] = NextRevision /\ \A k \in Keys \ {new} : services'[k] = services[k]
    BY <1>4 DEF ServicePut, Keys, TypeOK
  <2> HIDE DEF op, new
  <2>2. LastIn(services[new], OfService(new))'
    <3>0. Entry("service", op, new) \in Change
      BY <2>1, LoggedIsChange
    <3>1. Entry("service", op, new) \in OfService(new)
      BY <3>0 DEF Entry, OfService
    <3>2. \A r : r = NextRevision => LastIn(r, OfService(new))'
      BY <2>1, <3>1, LastIsNew DEF Logged
    <3> QED BY <2>1, <3>2
  <2> QED BY <1>2, <2>1, <2>2 DEF ServiceRevisions
<1>5. ASSUME NEW ns \in Namespaces, NEW svc \in ServiceNames, ServiceGone(ns, svc)
      PROVE  ServiceRevisions'
  <2>1. /\ Logged("service", "delete", <<ns, svc>>)
        /\ services'[<<ns, svc>>] = 0 /\ \A k \in Keys \ {<<ns, svc>>} : services'[k] = services[k]
    BY <1>5 DEF ServiceGone, Keys, TypeOK
  <2> QED BY <1>2, <2>1 DEF ServiceRevisions
<1>6. ASSUME NEW ns \in Namespaces, NEW svc \in ServiceNames, NEW i \in Ids, OnInstance(ns, svc, i)
      PROVE  ServiceRevisions'
  BY <1>2, <1>6 DEF OnInstance, InstancePut, InstanceUpdated, InstanceGone, ServiceRevisions
<1>7. ASSUME NEW ns \in Namespaces, NEW m \in ServerNames, OnServer(ns, m) PROVE ServiceRevisions'
  BY <1>2, <1>7 DEF OnServer, ServerPut, ServerGone, ServiceRevisions
<1> QED BY <1>1, <1>3, <1>4, <1>5, <1>6, <1>7 DEF Effect, OnService

LEMMA InstanceRevisionsStep ==
    ASSUME TypeOK, TypeOK', Effect, InstanceRevisions
    PROVE  InstanceRevisions'
<1>1. CASE Quiet
  BY <1>1 DEF Quiet, InstanceRevisions, LastIn
<1>2. ASSUME NEW entity, NEW op, NEW ref, Logged(entity, op, ref), NEW i \in Ids,
             instances'[i] \in {instances[i], NoRow}, entity = "instance" => ref[3] # i,
             instances'[i] # NoRow
      PROVE  LastIn(instances[i].revision, OfInstance(i))' /\ instances'[i] = instances[i]
  <2>1. instances'[i] = instances[i] /\ LastIn(instances[i].revision, OfInstance(i))
    BY <1>2 DEF InstanceRevisions
  <2>2. Entry(entity, op, ref) \notin OfInstance(i)
    BY <1>2, EntryIsAbout
  <2>3. \A q : LastIn(q, OfInstance(i)) => LastIn(q, OfInstance(i))'
    BY <1>2, <2>2, LastStays DEF Logged
  <2> QED BY <2>1, <2>3
<1>3. ASSUME NEW ns \in Namespaces, OnNamespace(ns) PROVE InstanceRevisions'
  BY <1>2, <1>3 DEF OnNamespace, NamespaceKept, NamespaceGone, InstanceRevisions
<1>4. ASSUME NEW ns \in Namespaces, NEW svc \in ServiceNames, OnService(ns, svc)
      PROVE  InstanceRevisions'
  BY <1>2, <1>4 DEF OnService, ServicePut, ServiceGone, InstanceRevisions
<1>5. ASSUME NEW ns \in Namespaces, NEW svc \in ServiceNames, NEW i \in Ids, OnInstance(ns, svc, i)
      PROVE  InstanceRevisions'
  <2>1. /\ \E op \in {"create", "update", "delete"} : Logged("instance", op, <<ns, svc, i>>)
        /\ \A j \in Ids \ {i} : instances'[j] = instances[j]
        /\ instances'[i] # NoRow => instances'[i].revision = NextRevision
    BY <1>5 DEF OnInstance, InstancePut, InstanceUpdated, InstanceGone, TypeOK
  <2>2. PICK op \in {"create", "update", "delete"} : Logged("instance", op, <<ns, svc, i>>)
    BY <2>1
  <2>3. \A r : r = NextRevision => LastIn(r, OfInstance(i))'
    <3>0. Entry("instance", op, <<ns, svc, i>>) \in Change
      BY <2>2, LoggedIsChange
    <3>1. Entry("instance", op, <<ns, svc, i>>) \in OfInstance(i)
      BY <3>0 DEF Entry, OfInstance
    <3> QED BY <2>2, <3>1, LastIsNew DEF Logged
  <2> QED BY <1>2, <2>1, <2>2, <2>3 DEF InstanceRevisions
<1>6. ASSUME NEW ns \in Namespaces, NEW m \in ServerNames, OnServer(ns, m) PROVE InstanceRevisions'
  BY <1>2, <1>6 DEF OnServer, ServerPut, ServerGone, InstanceRevisions
<1> QED BY <1>1, <1>3, <1>4, <1>5, <1>6 DEF Effect

LEMMA ServerRevisionsStep ==
    ASSUME TypeOK, TypeOK', Effect, ServerRevisions
    PROVE  ServerRevisions'
<1>1. CASE Quiet
  BY <1>1 DEF Quiet, ServerRevisions, LastIn
<1>2. ASSUME NEW entity, NEW op, NEW ref, Logged(entity, op, ref), NEW m \in ServerNames,
             servers'[m] \in {servers[m], NoRow}, entity = "mcp_server" => ref[2] # m,
             servers'[m] # NoRow
      PROVE  LastIn(servers[m].revision, OfServer(m))' /\ servers'[m] = servers[m]
  <2>1. servers'[m] = servers[m] /\ LastIn(servers[m].revision, OfServer(m))
    BY <1>2 DEF ServerRevisions
  <2>2. Entry(entity, op, ref) \notin OfServer(m)
    BY <1>2, EntryIsAbout
  <2>3. \A q : LastIn(q, OfServer(m)) => LastIn(q, OfServer(m))'
    BY <1>2, <2>2, LastStays DEF Logged
  <2> QED BY <2>1, <2>3
<1>3. ASSUME NEW ns \in Namespaces, OnNamespace(ns) PROVE ServerRevisions'
  BY <1>2, <1>3 DEF OnNamespace, NamespaceKept, NamespaceGone, ServerRevisions
<1>4. ASSUME NEW ns \in Namespaces, NEW svc \in ServiceNames, OnService(ns, svc)
      PROVE  ServerRevisions'
  BY <1>2, <1>4 DEF OnService, ServicePut, ServiceGone, ServerRevisions
<1>5. ASSUME NEW ns \in Namespaces, NEW svc \in ServiceNames, NEW i \in Ids, OnInstance(ns, svc, i)
      PROVE  ServerRevisions'
  BY <1>2, <1>5 DEF OnInstance, InstancePut, InstanceUpdated, InstanceGone, ServerRevisions
<1>6. ASSUME NEW ns \in Namespaces, NEW m \in ServerNames, OnServer(ns, m) PROVE ServerRevisions'
  <2>1. /\ \E op \in {"create", "update", "delete"} : Logged("mcp_server", op, <<ns, m>>)
        /\ \A n \in ServerNames \ {m} : servers'[n] = servers[n]
        /\ servers'[m] # NoRow => servers'[m].revision = NextRevision
    BY <1>6 DEF OnServer, ServerPut, ServerGone, TypeOK
  <2>2. PICK op \in {"create", "update", "delete"} : Logged("mcp_server", op, <<ns, m>>)
    BY <2>1
  <2>3. \A r : r = NextRevision => LastIn(r, OfServer(m))'
    <3>0. Entry("mcp_server", op, <<ns, m>>) \in Change
      BY <2>2, LoggedIsChange
    <3>1. Entry("mcp_server", op, <<ns, m>>) \in OfServer(m)
      BY <3>0 DEF Entry, OfServer
    <3> QED BY <2>2, <3>1, LastIsNew DEF Logged
  <2> QED BY <1>2, <2>1, <2>2, <2>3 DEF ServerRevisions
<1> QED BY <1>1, <1>3, <1>4, <1>5, <1>6 DEF Effect

LEMMA StepRevisions ==
    ASSUME TypeOK, RevisionsInv, [Next]_vars
    PROVE  RevisionsInv'
BY StepType, StepEffect, ServiceRevisionsStep, InstanceRevisionsStep, ServerRevisionsStep
   DEF RevisionsInv

LEMMA RevisionsInvariant == Spec => [](TypeOK /\ RevisionsInv)
<1>1. Init => RevisionsInv
  BY DEF Init, RevisionsInv, ServiceRevisions, InstanceRevisions, ServerRevisions
<1>2. TypeOK /\ RevisionsInv /\ [Next]_vars => (TypeOK /\ RevisionsInv)'
  BY StepType, StepRevisions
<1> QED BY <1>1, <1>2, InitType, PTL DEF Spec

(* The revision of every service, instance and MCP server is that of the last  *)
(* change that names it, though a PATCH and a DELETE write rows read earlier,  *)
(* ids are used again, and entities are deleted and made again.                *)
THEOREM RevisionsAreLastChanges == Spec => []RevisionIsLastChange
<1>1. TypeOK /\ RevisionsInv => RevisionIsLastChange
  BY RevisionsMean
<1> QED BY RevisionsInvariant, <1>1, PTL

-----------------------------------------------------------------------------
(* What a deleted namespace leaves *)

NatLess == {p \in Nat \X Nat : p[1] < p[2]}

LEMMA MinExists ==
    ASSUME NEW S, S \subseteq Nat, S # {}
    PROVE  \E m \in S : \A x \in S : m <= x
<1>1. IsWellFoundedOn(OpToRel(<, Nat), Nat)
  BY NatLessThanWellFounded
<1>2. OpToRel(<, Nat) = NatLess
  BY DEF OpToRel, NatLess
<1>3. PICK m \in S : \A x \in S : ~ (<<x, m>> \in NatLess)
  BY <1>1, <1>2, WFMin
<1>4. m \in Nat /\ \A x \in S : x \in Nat
  OBVIOUS
<1>5. ASSUME NEW x \in S PROVE m <= x
  <2>1. <<x, m>> \in Nat \X Nat
    BY <1>4
  <2>2. ~ (x < m)
    BY <1>3, <2>1 DEF NatLess
  <2> QED BY <1>4, <2>2
<1> QED BY <1>5

(* A bounded set of numbers has the maximum Max chooses.                       *)
LEMMA MaxOfBounded ==
    ASSUME NEW N \in Nat, NEW S, S \subseteq 0 .. N, S # {}
    PROVE  Max(S) \in S /\ \A x \in S : Max(S) >= x
<1>1. N \in Int /\ \A x \in S : x \in Int /\ N - x \in Nat
  OBVIOUS
<1> DEFINE T == {N - x : x \in S}
<1>2. T \subseteq Nat /\ T # {}
  BY <1>1
<1>3. PICK d \in T : \A y \in T : d <= y
  BY <1>2, MinExists
<1>4. PICK m \in S : d = N - m
  BY <1>3
<1>5. \A x \in S : N - m <= N - x
  BY <1>3, <1>4
<1> HIDE DEF T
<1>6. \A x \in S : m >= x
  BY <1>1, <1>4, <1>5
<1> QED BY <1>4, <1>6 DEF Max

Deletion(ns) == {c \in Change : c.entity = "namespace" /\ c.op = "delete" /\ c.ref = <<ns>>}

(* The namespace was not deleted at r or later.                                *)
AfterDeletion(r, ns) == \A n \in DOMAIN changes : changes[n] \in Deletion(ns) => n < r

LEMMA LastDeletionMeans ==
    ASSUME TypeOK, NEW ns, NEW r \in Nat, r > 0
    PROVE  r > LastDeletion(ns) <=> AfterDeletion(r, ns)
<1> DEFINE D == {n \in DOMAIN changes : changes[n] \in Deletion(ns)}
           S == {0} \union D
<1>1. /\ Len(changes) \in Nat /\ DOMAIN changes = 1 .. Len(changes)
      /\ \A n \in DOMAIN changes : changes[n] \in Change
  BY DEF TypeOK
<1>2. {n \in DOMAIN changes : changes[n].entity = "namespace" /\ changes[n].op = "delete"
                              /\ changes[n].ref = <<ns>>} = D
  BY <1>1 DEF Deletion
<1>3. LastDeletion(ns) = Max(S)
  BY <1>2 DEF LastDeletion
<1>4. S \subseteq 0 .. Len(changes) /\ S # {}
  BY <1>1
<1>5. Max(S) \in S /\ \A x \in S : Max(S) >= x
  BY <1>1, <1>4, MaxOfBounded
<1>6. AfterDeletion(r, ns) <=> \A n \in S : n < r
  BY <1>1 DEF AfterDeletion
<1>7. \A n \in S : n \in Nat
  BY <1>1
<1> HIDE DEF S
<1> QED BY <1>3, <1>5, <1>6, <1>7

ServicesAfter == \A k \in Keys :
    services[k] > 0 /\ k[1] \notin namespaces => AfterDeletion(services[k], k[1])
InstancesAfter == \A i \in Ids :
    instances[i] # NoRow /\ instances[i].ns \notin namespaces
    => AfterDeletion(instances[i].revision, instances[i].ns)
ServersAfter == \A m \in ServerNames :
    servers[m] # NoRow /\ servers[m].ns \notin namespaces
    => AfterDeletion(servers[m].revision, servers[m].ns)

LeftoversInv == ServicesAfter /\ InstancesAfter /\ ServersAfter

LEMMA LeftoversMean ==
    ASSUME TypeOK, RevisionsInv
    PROVE  LeftoversInv <=> LeftoversAreLater
<1>1. DOMAIN changes = 1 .. Len(changes) /\ Len(changes) \in Nat
  BY DEF TypeOK
<1>2. ASSUME NEW k \in Keys, services[k] > 0
      PROVE  services[k] > LastDeletion(k[1]) <=> AfterDeletion(services[k], k[1])
  BY <1>2, LastDeletionMeans DEF TypeOK
<1>3. ASSUME NEW i \in Ids, instances[i] # NoRow
      PROVE  instances[i].revision > LastDeletion(instances[i].ns)
             <=> AfterDeletion(instances[i].revision, instances[i].ns)
  <2>1. instances[i].revision \in Nat /\ instances[i].revision > 0
    BY <1>1, <1>3 DEF RevisionsInv, InstanceRevisions, LastIn
  <2> QED BY <2>1, LastDeletionMeans
<1>4. ASSUME NEW m \in ServerNames, servers[m] # NoRow
      PROVE  servers[m].revision > LastDeletion(servers[m].ns)
             <=> AfterDeletion(servers[m].revision, servers[m].ns)
  <2>1. servers[m].revision \in Nat /\ servers[m].revision > 0
    BY <1>1, <1>4 DEF RevisionsInv, ServerRevisions, LastIn
  <2> QED BY <2>1, LastDeletionMeans
<1> QED BY <1>2, <1>3, <1>4 DEF LeftoversInv, ServicesAfter, InstancesAfter, ServersAfter, LeftoversAreLater

(* A record that deletes no namespace moves nothing before a deletion.         *)
LEMMA StillAfter ==
    ASSUME TypeOK, TypeOK', NEW entity, NEW op, NEW ref, Logged(entity, op, ref), NEW ns,
           ~ (entity = "namespace" /\ op = "delete" /\ ref = <<ns>>), NEW r,
           AfterDeletion(r, ns) \/ r = NextRevision
    PROVE  AfterDeletion(r, ns)'
<1> DEFINE c == Entry(entity, op, ref)
<1>1. changes' = Append(changes, c) /\ c \notin Deletion(ns)
  BY DEF Logged, Entry, Deletion
<1> HIDE DEF c
<1> QED BY <1>1, LoggedFacts DEF AfterDeletion

LEMMA LeftoversStep ==
    ASSUME TypeOK, TypeOK', Effect, LeftoversInv
    PROVE  LeftoversInv'
<1>1. CASE Quiet
  BY <1>1 DEF Quiet, LeftoversInv, ServicesAfter, InstancesAfter, ServersAfter, AfterDeletion
<1>2. ASSUME NEW ns \in Namespaces, NamespaceKept(ns) PROVE LeftoversInv'
  <2>1. PICK op \in {"create", "update"} : Logged("namespace", op, <<ns>>)
    BY <1>2 DEF NamespaceKept
  <2>2. UNCHANGED <<services, instances, servers>> /\ namespaces \subseteq namespaces'
    BY <1>2 DEF NamespaceKept
  <2>3. \A r, x : AfterDeletion(r, x) => AfterDeletion(r, x)'
    BY <2>1, StillAfter
  <2> QED BY <2>2, <2>3 DEF LeftoversInv, ServicesAfter, InstancesAfter, ServersAfter
<1>3. ASSUME NEW ns \in Namespaces, NamespaceGone(ns) PROVE LeftoversInv'
  <2>1. \A r, x : x # ns /\ AfterDeletion(r, x) => AfterDeletion(r, x)'
    BY <1>3, StillAfter DEF NamespaceGone
  <2>2. ServicesAfter'
    BY <1>3, <2>1 DEF NamespaceGone, LeftoversInv, ServicesAfter
  <2>3. InstancesAfter'
    BY <1>3, <2>1 DEF NamespaceGone, LeftoversInv, InstancesAfter
  <2>4. ServersAfter'
    BY <1>3, <2>1 DEF NamespaceGone, LeftoversInv, ServersAfter
  <2> QED BY <2>2, <2>3, <2>4 DEF LeftoversInv
<1>4. ASSUME NEW entity \in {"service", "instance", "mcp_server"}, NEW op, NEW ref,
             Logged(entity, op, ref), namespaces' = namespaces,
             \A k \in Keys : services'[k] \in {services[k], 0, NextRevision},
             \A i \in Ids : \/ instances'[i] \in {instances[i], NoRow}
                            \/ instances'[i].revision = NextRevision,
             \A m \in ServerNames : \/ servers'[m] \in {servers[m], NoRow}
                                    \/ servers'[m].revision = NextRevision
      PROVE  LeftoversInv'
  <2>1. \A r, x : AfterDeletion(r, x) \/ r = NextRevision => AfterDeletion(r, x)'
    BY <1>4, StillAfter
  <2>2. ServicesAfter'
    BY <1>4, <2>1 DEF LeftoversInv, ServicesAfter
  <2>3. InstancesAfter'
    BY <1>4, <2>1 DEF LeftoversInv, InstancesAfter
  <2>4. ServersAfter'
    BY <1>4, <2>1 DEF LeftoversInv, ServersAfter
  <2> QED BY <2>2, <2>3, <2>4 DEF LeftoversInv
<1>5. ASSUME NEW ns \in Namespaces, NEW svc \in ServiceNames, OnService(ns, svc) PROVE LeftoversInv'
  <2>1. /\ \E op : Logged("service", op, <<ns, svc>>)
        /\ UNCHANGED <<namespaces, servers>>
        /\ \A k \in Keys : services'[k] \in {services[k], 0, NextRevision}
        /\ \A i \in Ids : instances'[i] \in {instances[i], NoRow}
    BY <1>5 DEF OnService, ServicePut, ServiceGone, TypeOK
  <2> QED BY <1>4, <2>1
<1>6. ASSUME NEW ns \in Namespaces, NEW svc \in ServiceNames, NEW i \in Ids, OnInstance(ns, svc, i)
      PROVE  LeftoversInv'
  <2>1. /\ \E op : Logged("instance", op, <<ns, svc, i>>)
        /\ UNCHANGED <<namespaces, services, servers>>
        /\ \A j \in Ids : \/ instances'[j] \in {instances[j], NoRow}
                          \/ instances'[j].revision = NextRevision
    BY <1>6 DEF OnInstance, InstancePut, InstanceUpdated, InstanceGone, TypeOK
  <2> QED BY <1>4, <2>1
<1>7. ASSUME NEW ns \in Namespaces, NEW m \in ServerNames, OnServer(ns, m) PROVE LeftoversInv'
  <2>1. /\ \E op : Logged("mcp_server", op, <<ns, m>>)
        /\ UNCHANGED <<namespaces, services, instances>>
        /\ \A n \in ServerNames : \/ servers'[n] \in {servers[n], NoRow}
                                  \/ servers'[n].revision = NextRevision
    BY <1>7 DEF OnServer, ServerPut, ServerGone, TypeOK
  <2> QED BY <1>4, <2>1
<1> QED BY <1>1, <1>2, <1>3, <1>5, <1>6, <1>7 DEF Effect, OnNamespace

LEMMA LeftoversInvariant == Spec => []LeftoversInv
<1>1. Init => LeftoversInv
  BY DEF Init, LeftoversInv, ServicesAfter, InstancesAfter, ServersAfter
<1>2. TypeOK /\ LeftoversInv /\ [Next]_vars => (TypeOK /\ LeftoversInv)'
  BY StepType, StepEffect, LeftoversStep
<1> QED BY <1>1, <1>2, InitType, PTL DEF Spec

(* What is found in a namespace that is gone was written after its last        *)
(* deletion: the cascade misses nothing that was there.                        *)
THEOREM LeftoversCameLater == Spec => []LeftoversAreLater
<1>1. TypeOK /\ RevisionsInv /\ LeftoversInv => LeftoversAreLater
  BY LeftoversMean
<1> QED BY LeftoversInvariant, RevisionsInvariant, <1>1, PTL

-----------------------------------------------------------------------------
(* What the whole log says *)

(* A reference has the parts its entity has.                                   *)
RefShapes ==
    \A n \in DOMAIN changes :
        /\ changes[n].entity = "service" => changes[n].ref \in Keys
        /\ changes[n].entity = "instance" => changes[n].ref \in Namespaces \X ServiceNames \X Ids
        /\ changes[n].entity = "mcp_server" => changes[n].ref \in Namespaces \X ServerNames

(* The log has entity created at ref, and not taken away since.                *)
KnownAt(entity, ref) ==
    \E n \in DOMAIN changes :
        /\ changes[n].op = "create" /\ changes[n].entity = entity /\ changes[n].ref = ref
        /\ \A m \in DOMAIN changes : m > n => ~ TakesAway(changes[m], entity, ref)

LEMMA KnownMeans ==
    ASSUME TypeOK, NEW entity, NEW ref
    PROVE  <<entity, ref>> \in Known <=> KnownAt(entity, ref) /\ entity # "namespace"
<1>1. ASSUME KnownAt(entity, ref), entity # "namespace" PROVE <<entity, ref>> \in Known
  BY <1>1 DEF KnownAt, Known
<1>2. ASSUME <<entity, ref>> \in Known PROVE KnownAt(entity, ref) /\ entity # "namespace"
  BY <1>2 DEF KnownAt, Known
<1> QED BY <1>1, <1>2

Removes(entity, op, ref, entity2, ref2) ==
    /\ op = "delete"
    /\ IsPrefix(ref, ref2)
    /\ entity \in {entity2, "namespace"} \/ (entity = "service" /\ entity2 = "instance")

(* What one more record adds to what the log tells, and takes from it.         *)
LEMMA KnownAfter ==
    ASSUME TypeOK, TypeOK', NEW entity, NEW op, NEW ref, Logged(entity, op, ref),
           NEW entity2, NEW ref2
    PROVE  KnownAt(entity2, ref2)' <=>
              \/ KnownAt(entity2, ref2) /\ ~ Removes(entity, op, ref, entity2, ref2)
              \/ op = "create" /\ entity = entity2 /\ ref = ref2
<1> DEFINE c == Entry(entity, op, ref)
<1>1. changes' = Append(changes, c)
  BY DEF Logged
<1>2. /\ TakesAway(c, entity2, ref2) <=> Removes(entity, op, ref, entity2, ref2)
      /\ c.op = "create" /\ c.entity = entity2 /\ c.ref = ref2
         <=> op = "create" /\ entity = entity2 /\ ref = ref2
  BY DEF Entry, TakesAway, Removes
<1> DEFINE Created(n) == changes[n].op = "create" /\ changes[n].entity = entity2 /\ changes[n].ref = ref2
           Gone(n) == TakesAway(changes[n], entity2, ref2)
<1> HIDE DEF c
<1>3. /\ \A n \in DOMAIN changes : (Created(n)' <=> Created(n)) /\ (Gone(n)' <=> Gone(n))
      /\ DOMAIN changes' = DOMAIN changes \union {NextRevision}
      /\ \A n \in DOMAIN changes : n \in Nat /\ n < NextRevision
      /\ changes'[NextRevision] = c /\ NextRevision \in Nat
  BY <1>1, LoggedFacts DEF TakesAway
<1>4. ASSUME KnownAt(entity2, ref2)'
      PROVE  \/ KnownAt(entity2, ref2) /\ ~ Removes(entity, op, ref, entity2, ref2)
             \/ op = "create" /\ entity = entity2 /\ ref = ref2
  <2>1. PICK n \in DOMAIN changes' :
           /\ changes'[n].op = "create" /\ changes'[n].entity = entity2 /\ changes'[n].ref = ref2
           /\ \A m \in DOMAIN changes' : m > n => ~ TakesAway(changes'[m], entity2, ref2)
    BY <1>4 DEF KnownAt, TakesAway
  <2>2. CASE n = NextRevision
    BY <1>2, <1>3, <2>1, <2>2
  <2>3. CASE n \in DOMAIN changes
    <3>1. Created(n) /\ \A m \in DOMAIN changes : m > n => ~ Gone(m)
      BY <1>3, <2>1, <2>3 DEF TakesAway
    <3>2. ~ TakesAway(c, entity2, ref2)
      BY <1>3, <2>1, <2>3
    <3> QED BY <1>2, <2>3, <3>1, <3>2 DEF KnownAt
  <2> QED BY <1>3, <2>1, <2>2, <2>3
<1>5. ASSUME KnownAt(entity2, ref2), ~ Removes(entity, op, ref, entity2, ref2)
      PROVE  KnownAt(entity2, ref2)'
  <2>1. PICK n \in DOMAIN changes : Created(n) /\ \A m \in DOMAIN changes : m > n => ~ Gone(m)
    BY <1>5 DEF KnownAt
  <2>2. n \in DOMAIN changes' /\ Created(n)'
    BY <1>3, <2>1
  <2>3. ASSUME NEW m \in DOMAIN changes', m > n PROVE ~ TakesAway(changes'[m], entity2, ref2)
    <3>1. CASE m = NextRevision
      BY <1>2, <1>3, <1>5, <3>1
    <3>2. CASE m \in DOMAIN changes
      <4>1. ~ Gone(m)'
        BY <1>3, <2>1, <2>3, <3>2
      <4> QED BY <4>1 DEF TakesAway
    <3> QED BY <1>3, <3>1, <3>2
  <2> QED BY <2>2, <2>3 DEF KnownAt, TakesAway
<1>6. ASSUME op = "create", entity = entity2, ref = ref2 PROVE KnownAt(entity2, ref2)'
  <2>1. /\ NextRevision \in DOMAIN changes' /\ changes'[NextRevision] = c
        /\ c.op = "create" /\ c.entity = entity2 /\ c.ref = ref2
        /\ \A m \in DOMAIN changes' : ~ (m > NextRevision)
    BY <1>2, <1>3, <1>6
  <2>2. \E n \in DOMAIN changes' :
           /\ changes'[n].op = "create" /\ changes'[n].entity = entity2 /\ changes'[n].ref = ref2
           /\ \A m \in DOMAIN changes' : m > n => ~ TakesAway(changes'[m], entity2, ref2)
    BY <2>1
  <2> QED BY <2>2 DEF KnownAt, TakesAway
<1> QED BY <1>4, <1>5, <1>6

(* The references of instances stay in the log.                                *)
LEMMA RefsStay ==
    ASSUME TypeOK, TypeOK', NEW entity, NEW op, NEW ref, Logged(entity, op, ref)
    PROVE  /\ InstanceRefs \subseteq InstanceRefs'
           /\ entity = "instance" => ref \in InstanceRefs'
           /\ \A i : ReusedElsewhere(i) => ReusedElsewhere(i)'
<1> DEFINE c == Entry(entity, op, ref)
<1>1. changes' = Append(changes, c) /\ c.entity = entity /\ c.ref = ref
  BY DEF Logged, Entry
<1> HIDE DEF c
<1>2. /\ DOMAIN changes \subseteq DOMAIN changes' /\ NextRevision \in DOMAIN changes'
      /\ \A n \in DOMAIN changes : changes'[n] = changes[n]
      /\ changes'[NextRevision] = c
  BY <1>1, LoggedFacts
<1>3. InstanceRefs \subseteq InstanceRefs'
  BY <1>2 DEF InstanceRefs
<1>4. entity = "instance" => ref \in InstanceRefs'
  BY <1>1, <1>2 DEF InstanceRefs
<1> QED BY <1>3, <1>4 DEF ReusedElsewhere

RefShape(entity, ref) ==
    /\ entity = "service" => ref \in Keys
    /\ entity = "instance" => ref \in Namespaces \X ServiceNames \X Ids
    /\ entity = "mcp_server" => ref \in Namespaces \X ServerNames

LEMMA ShapesStep ==
    ASSUME TypeOK, TypeOK', Effect, RefShapes
    PROVE  RefShapes'
<1>1. ASSUME NEW entity, NEW op, NEW ref, Logged(entity, op, ref), RefShape(entity, ref)
      PROVE  RefShapes'
  <2> DEFINE c == Entry(entity, op, ref)
  <2>1. changes' = Append(changes, c) /\ c.entity = entity /\ c.ref = ref
    BY <1>1 DEF Logged, Entry
  <2> HIDE DEF c
  <2>2. /\ DOMAIN changes' = DOMAIN changes \union {NextRevision}
        /\ \A n \in DOMAIN changes : changes'[n] = changes[n]
        /\ changes'[NextRevision] = c
    BY <2>1, LoggedFacts
  <2> QED BY <1>1, <2>1, <2>2 DEF RefShapes, RefShape
<1>2. CASE Quiet
  BY <1>2 DEF Quiet, RefShapes
<1>3. ASSUME NEW ns \in Namespaces, OnNamespace(ns) PROVE RefShapes'
  BY <1>1, <1>3 DEF OnNamespace, NamespaceKept, NamespaceGone, RefShape
<1>4. ASSUME NEW ns \in Namespaces, NEW svc \in ServiceNames, OnService(ns, svc) PROVE RefShapes'
  BY <1>1, <1>4 DEF OnService, ServicePut, ServiceGone, RefShape, Keys
<1>5. ASSUME NEW ns \in Namespaces, NEW svc \in ServiceNames, NEW i \in Ids, OnInstance(ns, svc, i)
      PROVE  RefShapes'
  BY <1>1, <1>5 DEF OnInstance, InstancePut, InstanceUpdated, InstanceGone, RefShape
<1>6. ASSUME NEW ns \in Namespaces, NEW m \in ServerNames, OnServer(ns, m) PROVE RefShapes'
  BY <1>1, <1>6 DEF OnServer, ServerPut, ServerGone, RefShape
<1> QED BY <1>2, <1>3, <1>4, <1>5, <1>6 DEF Effect

ServicesKnown ==
    \A ns \in Namespaces, svc \in ServiceNames :
        services[<<ns, svc>>] > 0 <=> KnownAt("service", <<ns, svc>>)

InstancesKnown ==
    \A ns \in Namespaces, svc \in ServiceNames, i \in Ids :
        /\ i \in IdsOf(ns, svc) => KnownAt("instance", <<ns, svc, i>>)
        /\ KnownAt("instance", <<ns, svc, i>>) => i \in IdsOf(ns, svc) \/ ReusedElsewhere(i)

ServersKnown ==
    \A ns \in Namespaces, m \in ServerNames :
        servers[m] # NoRow /\ servers[m].ns = ns <=> KnownAt("mcp_server", <<ns, m>>)

LogInv == RefShapes /\ ServicesKnown /\ InstancesKnown /\ ServersKnown

LEMMA ServicesKnownStep ==
    ASSUME TypeOK, TypeOK', Effect, ServicesKnown
    PROVE  ServicesKnown'
<1>1. CASE Quiet
  BY <1>1 DEF Quiet, ServicesKnown, KnownAt, TakesAway
<1>2. ASSUME NEW entity, NEW op, NEW ref, Logged(entity, op, ref),
             \A ns \in Namespaces, svc \in ServiceNames :
                services'[<<ns, svc>>] > 0 <=>
                   \/ services[<<ns, svc>>] > 0 /\ ~ Removes(entity, op, ref, "service", <<ns, svc>>)
                   \/ op = "create" /\ entity = "service" /\ ref = <<ns, svc>>
      PROVE  ServicesKnown'
  <2>1. ASSUME NEW ns \in Namespaces, NEW svc \in ServiceNames
        PROVE  services'[<<ns, svc>>] > 0 <=> KnownAt("service", <<ns, svc>>)'
    BY <1>2, KnownAfter DEF ServicesKnown
  <2> QED BY <2>1 DEF ServicesKnown
<1>3. ASSUME NEW x \in Namespaces, OnNamespace(x) PROVE ServicesKnown'
  <2>1. CASE NamespaceKept(x)
    BY <1>2, <2>1 DEF NamespaceKept, Removes
  <2>2. CASE NamespaceGone(x)
    <3>1. \A ns \in Namespaces, svc \in ServiceNames :
             Removes("namespace", "delete", <<x>>, "service", <<ns, svc>>) <=> x = ns
      BY DEF Removes, IsPrefix
    <3>2. \A ns \in Namespaces, svc \in ServiceNames :
             services'[<<ns, svc>>] = IF ns = x THEN 0 ELSE services[<<ns, svc>>]
      BY <2>2 DEF NamespaceGone, Keys
    <3> QED BY <1>2, <2>2, <3>1, <3>2 DEF NamespaceGone
  <2> QED BY <1>3, <2>1, <2>2 DEF OnNamespace
<1>4. ASSUME NEW x \in Namespaces, NEW y \in ServiceNames, ServicePut(x, y) PROVE ServicesKnown'
  <2>1. /\ services'[<<x, y>>] > 0
        /\ \A k \in Keys : k # <<x, y>> => services'[k] = services[k]
    BY <1>4, NextRevisionType DEF ServicePut, TypeOK, Keys
  <2>2. /\ \A ns \in Namespaces, svc \in ServiceNames : <<ns, svc>> \in Keys
        /\ services[<<x, y>>] \in Nat
    BY DEF Keys, TypeOK
  <2>3. CASE services[<<x, y>>] > 0
    <3>1. Logged("service", "update", <<x, y>>)
      BY <1>4, <2>3 DEF ServicePut
    <3> QED BY <1>2, <2>1, <2>2, <2>3, <3>1 DEF Removes
  <2>4. CASE ~ (services[<<x, y>>] > 0)
    <3>1. Logged("service", "create", <<x, y>>)
      BY <1>4, <2>4 DEF ServicePut
    <3> QED BY <1>2, <2>1, <2>2, <2>4, <3>1 DEF Removes
  <2> QED BY <2>3, <2>4
<1>5. ASSUME NEW x \in Namespaces, NEW y \in ServiceNames, ServiceGone(x, y) PROVE ServicesKnown'
  <2>1. /\ services'[<<x, y>>] = 0
        /\ \A k \in Keys : k # <<x, y>> => services'[k] = services[k]
    BY <1>5 DEF ServiceGone, TypeOK, Keys
  <2>2. \A ns \in Namespaces, svc \in ServiceNames : <<ns, svc>> \in Keys
    BY DEF Keys
  <2>3. Logged("service", "delete", <<x, y>>)
    BY <1>5 DEF ServiceGone
  <2>4. \A ns \in Namespaces, svc \in ServiceNames :
           Removes("service", "delete", <<x, y>>, "service", <<ns, svc>>) <=> x = ns /\ y = svc
    BY DEF Removes, IsPrefix
  <2> QED BY <1>2, <2>1, <2>2, <2>3, <2>4
<1>6. ASSUME NEW x \in Namespaces, NEW y \in ServiceNames, NEW i \in Ids, OnInstance(x, y, i)
      PROVE  ServicesKnown'
  <2>1. PICK op : Logged("instance", op, <<x, y, i>>)
    BY <1>6 DEF OnInstance, InstancePut, InstanceUpdated, InstanceGone
  <2>2. services' = services
    BY <1>6 DEF OnInstance, InstancePut, InstanceUpdated, InstanceGone
  <2> QED BY <1>2, <2>1, <2>2 DEF Removes
<1>7. ASSUME NEW x \in Namespaces, NEW m \in ServerNames, OnServer(x, m) PROVE ServicesKnown'
  <2>1. PICK op : Logged("mcp_server", op, <<x, m>>)
    BY <1>7 DEF OnServer, ServerPut, ServerGone
  <2>2. services' = services
    BY <1>7 DEF OnServer, ServerPut, ServerGone
  <2> QED BY <1>2, <2>1, <2>2 DEF Removes
<1> QED BY <1>1, <1>3, <1>4, <1>5, <1>6, <1>7 DEF Effect, OnService

LEMMA ServersKnownStep ==
    ASSUME TypeOK, TypeOK', Effect, ServersKnown
    PROVE  ServersKnown'
<1>1. CASE Quiet
  BY <1>1 DEF Quiet, ServersKnown, KnownAt, TakesAway
<1> DEFINE At(ns, m) == servers[m] # NoRow /\ servers[m].ns = ns
<1>2. ASSUME NEW entity, NEW op, NEW ref, Logged(entity, op, ref),
             \A ns \in Namespaces, m \in ServerNames :
                At(ns, m)' <=>
                   \/ At(ns, m) /\ ~ Removes(entity, op, ref, "mcp_server", <<ns, m>>)
                   \/ op = "create" /\ entity = "mcp_server" /\ ref = <<ns, m>>
      PROVE  ServersKnown'
  <2>1. ASSUME NEW ns \in Namespaces, NEW m \in ServerNames
        PROVE  At(ns, m)' <=> KnownAt("mcp_server", <<ns, m>>)'
    BY <1>2, KnownAfter DEF ServersKnown
  <2> QED BY <2>1 DEF ServersKnown
<1>3. ASSUME NEW x \in Namespaces, OnNamespace(x) PROVE ServersKnown'
  <2>1. CASE NamespaceKept(x)
    BY <1>2, <2>1 DEF NamespaceKept, Removes
  <2>2. CASE NamespaceGone(x)
    <3>1. \A ns \in Namespaces, m \in ServerNames :
             Removes("namespace", "delete", <<x>>, "mcp_server", <<ns, m>>) <=> x = ns
      BY DEF Removes, IsPrefix
    <3>2. \A ns \in Namespaces, m \in ServerNames : At(ns, m)' <=> At(ns, m) /\ ns # x
      BY <2>2 DEF NamespaceGone
    <3> QED BY <1>2, <2>2, <3>1, <3>2 DEF NamespaceGone
  <2> QED BY <1>3, <2>1, <2>2 DEF OnNamespace
<1>4. ASSUME NEW x \in Namespaces, NEW y \in ServiceNames, OnService(x, y) PROVE ServersKnown'
  <2>1. PICK op : Logged("service", op, <<x, y>>)
    BY <1>4 DEF OnService, ServicePut, ServiceGone
  <2>2. servers' = servers
    BY <1>4 DEF OnService, ServicePut, ServiceGone
  <2> QED BY <1>2, <2>1, <2>2 DEF Removes
<1>5. ASSUME NEW x \in Namespaces, NEW y \in ServiceNames, NEW i \in Ids, OnInstance(x, y, i)
      PROVE  ServersKnown'
  <2>1. PICK op : Logged("instance", op, <<x, y, i>>)
    BY <1>5 DEF OnInstance, InstancePut, InstanceUpdated, InstanceGone
  <2>2. servers' = servers
    BY <1>5 DEF OnInstance, InstancePut, InstanceUpdated, InstanceGone
  <2> QED BY <1>2, <2>1, <2>2 DEF Removes
<1>6. ASSUME NEW x \in Namespaces, NEW m \in ServerNames, ServerPut(x, m) PROVE ServersKnown'
  <2>1. /\ servers'[m] # NoRow /\ servers'[m].ns = x
        /\ \A n \in ServerNames \ {m} : servers'[n] = servers[n]
    BY <1>6, RowAssumption DEF ServerPut, TypeOK
  <2>2. CASE servers[m] = NoRow
    <3>1. Logged("mcp_server", "create", <<x, m>>)
      BY <1>6, <2>2 DEF ServerPut
    <3> QED BY <1>2, <2>1, <2>2, <3>1 DEF Removes
  <2>3. CASE servers[m] # NoRow
    <3>1. Logged("mcp_server", "update", <<x, m>>) /\ servers[m].ns = x
      BY <1>6, <2>3 DEF ServerPut
    <3> QED BY <1>2, <2>1, <2>3, <3>1 DEF Removes
  <2> QED BY <2>2, <2>3
<1>7. ASSUME NEW x \in Namespaces, NEW m \in ServerNames, ServerGone(x, m) PROVE ServersKnown'
  <2>1. /\ servers'[m] = NoRow /\ servers[m].ns = x
        /\ \A n \in ServerNames \ {m} : servers'[n] = servers[n]
        /\ Logged("mcp_server", "delete", <<x, m>>)
    BY <1>7 DEF ServerGone, TypeOK
  <2>2. \A ns \in Namespaces, n \in ServerNames :
           Removes("mcp_server", "delete", <<x, m>>, "mcp_server", <<ns, n>>) <=> x = ns /\ m = n
    BY DEF Removes, IsPrefix
  <2> QED BY <1>2, <2>1, <2>2
<1> QED BY <1>1, <1>3, <1>4, <1>5, <1>6, <1>7 DEF Effect, OnServer

(* An id that has a row was used.                                              *)
LEMMA FreshIsFree ==
    ASSUME TypeOK, InstanceRevisions, NEW i \in FreshIds
    PROVE  instances[i] = NoRow
<1> SUFFICES ASSUME instances[i] # NoRow PROVE FALSE
  OBVIOUS
<1> DEFINE r == instances[i].revision
<1>1. r \in DOMAIN changes /\ changes[r].entity = "instance" /\ changes[r].ref[3] = i
  BY DEF FreshIds, InstanceRevisions, LastIn, OfInstance
<1>2. changes[r].ref \in InstanceRefs
  BY <1>1 DEF InstanceRefs
<1> QED BY <1>1, <1>2 DEF FreshIds

LEMMA InstancesKnownStep ==
    ASSUME TypeOK, TypeOK', Effect, InstanceRevisions, RefShapes, InstancesKnown
    PROVE  InstancesKnown'
<1>1. CASE Quiet
  BY <1>1 DEF Quiet, InstancesKnown, KnownAt, TakesAway, IdsOf, ReusedElsewhere, InstanceRefs
<1> DEFINE At(ns, svc, i) == i \in IdsOf(ns, svc)
<1>2. ASSUME NEW entity, NEW op, NEW ref, Logged(entity, op, ref),
             \A ns \in Namespaces, svc \in ServiceNames, i \in Ids :
                At(ns, svc, i)' <=>
                   \/ At(ns, svc, i) /\ ~ Removes(entity, op, ref, "instance", <<ns, svc, i>>)
                   \/ op = "create" /\ entity = "instance" /\ ref = <<ns, svc, i>>
      PROVE  InstancesKnown'
  <2>1. ASSUME NEW ns \in Namespaces, NEW svc \in ServiceNames, NEW i \in Ids
        PROVE  /\ At(ns, svc, i)' => KnownAt("instance", <<ns, svc, i>>)'
               /\ KnownAt("instance", <<ns, svc, i>>)' => At(ns, svc, i)' \/ ReusedElsewhere(i)'
    <3>1. ReusedElsewhere(i) => ReusedElsewhere(i)'
      BY <1>2, RefsStay
    <3>2. KnownAt("instance", <<ns, svc, i>>)' <=>
             \/ KnownAt("instance", <<ns, svc, i>>)
                /\ ~ Removes(entity, op, ref, "instance", <<ns, svc, i>>)
             \/ op = "create" /\ entity = "instance" /\ ref = <<ns, svc, i>>
      BY <1>2, KnownAfter
    <3> QED BY <1>2, <3>1, <3>2 DEF InstancesKnown
  <2> QED BY <2>1 DEF InstancesKnown
<1>3. ASSUME NEW x \in Namespaces, OnNamespace(x) PROVE InstancesKnown'
  <2>1. CASE NamespaceKept(x)
    BY <1>2, <2>1 DEF NamespaceKept, Removes, IdsOf
  <2>2. CASE NamespaceGone(x)
    <3>1. \A ns \in Namespaces, svc \in ServiceNames, i \in Ids :
             Removes("namespace", "delete", <<x>>, "instance", <<ns, svc, i>>) <=> x = ns
      BY DEF Removes, IsPrefix
    <3>2. \A ns \in Namespaces, svc \in ServiceNames, i \in Ids :
             At(ns, svc, i)' <=> At(ns, svc, i) /\ x # ns
      BY <2>2 DEF NamespaceGone, IdsOf
    <3> QED BY <1>2, <2>2, <3>1, <3>2 DEF NamespaceGone
  <2> QED BY <1>3, <2>1, <2>2 DEF OnNamespace
<1>4. ASSUME NEW x \in Namespaces, NEW y \in ServiceNames, OnService(x, y) PROVE InstancesKnown'
  <2>1. CASE ServicePut(x, y)
    <3>1. PICK op \in {"create", "update"} : Logged("service", op, <<x, y>>)
      BY <2>1 DEF ServicePut
    <3>2. instances' = instances
      BY <2>1 DEF ServicePut
    <3> QED BY <1>2, <3>1, <3>2 DEF Removes, IdsOf
  <2>2. CASE ServiceGone(x, y)
    <3>1. \A ns \in Namespaces, svc \in ServiceNames, i \in Ids :
             Removes("service", "delete", <<x, y>>, "instance", <<ns, svc, i>>) <=> x = ns /\ y = svc
      BY DEF Removes, IsPrefix
    <3>2. \A ns \in Namespaces, svc \in ServiceNames, i \in Ids :
             At(ns, svc, i)' <=> At(ns, svc, i) /\ ~ (x = ns /\ y = svc)
      BY <2>2 DEF ServiceGone, IdsOf
    <3> QED BY <1>2, <2>2, <3>1, <3>2 DEF ServiceGone
  <2> QED BY <1>4, <2>1, <2>2 DEF OnService
<1>5. ASSUME NEW x \in Namespaces, NEW y \in ServiceNames, NEW j \in Ids, InstancePut(x, y, j)
      PROVE  InstancesKnown'
  <2>1. instances[j] = NoRow
    BY <1>5, FreshIsFree DEF InstancePut
  <2>2. PICK row \in Instance : row.ns = x /\ row.svc = y /\ instances' = [instances EXCEPT ![j] = row]
    BY <1>5 DEF InstancePut
  <2>3. instances'[j] = row /\ row # NoRow /\ \A i \in Ids \ {j} : instances'[i] = instances[i]
    BY <2>2, RowAssumption DEF TypeOK
  <2>4. \A ns \in Namespaces, svc \in ServiceNames, i \in Ids :
           At(ns, svc, i)' <=> At(ns, svc, i) \/ <<x, y, j>> = <<ns, svc, i>>
    BY <2>1, <2>2, <2>3 DEF IdsOf
  <2>5. Logged("instance", "create", <<x, y, j>>)
    BY <1>5 DEF InstancePut
  <2> QED BY <1>2, <2>4, <2>5 DEF Removes
<1>6. ASSUME NEW x \in Namespaces, NEW y \in ServiceNames, NEW j \in Ids, InstanceUpdated(x, y, j)
      PROVE  InstancesKnown'
  <2>1. Logged("instance", "update", <<x, y, j>>)
    BY <1>6 DEF InstanceUpdated
  <2>2. ASSUME instances[j] # NoRow, NEW row \in Instance,
               row.ns = instances[j].ns, row.svc = instances[j].svc,
               instances' = [instances EXCEPT ![j] = row],
               NEW ns \in Namespaces, NEW svc \in ServiceNames, NEW i \in Ids
        PROVE  At(ns, svc, i)' <=> At(ns, svc, i)
    <3>1. instances'[j] = row /\ row # NoRow /\ \A m \in Ids \ {j} : instances'[m] = instances[m]
      BY <2>2, RowAssumption DEF TypeOK
    <3> QED BY <2>2, <3>1 DEF IdsOf
  <2>3. CASE UNCHANGED instances
    BY <1>2, <2>1, <2>3 DEF Removes, IdsOf
  <2>4. CASE ~ UNCHANGED instances
    <3>1. \A ns \in Namespaces, svc \in ServiceNames, i \in Ids : At(ns, svc, i)' <=> At(ns, svc, i)
      BY <1>6, <2>2, <2>4 DEF InstanceUpdated
    <3> QED BY <1>2, <2>1, <3>1 DEF Removes
  <2> QED BY <2>3, <2>4
<1>7. ASSUME NEW x \in Namespaces, NEW y \in ServiceNames, NEW j \in Ids, InstanceGone(x, y, j)
      PROVE  InstancesKnown'
  <2>1. Logged("instance", "delete", <<x, y, j>>)
    BY <1>7 DEF InstanceGone
  <2>2. instances'[j] = NoRow /\ \A i \in Ids \ {j} : instances'[i] = instances[i]
    BY <1>7 DEF InstanceGone, TypeOK
  <2>3. ASSUME NEW ns \in Namespaces, NEW svc \in ServiceNames, NEW i \in Ids
        PROVE  KnownAt("instance", <<ns, svc, i>>)' <=>
                  KnownAt("instance", <<ns, svc, i>>) /\ ~ (x = ns /\ y = svc /\ j = i)
    <3>1. Removes("instance", "delete", <<x, y, j>>, "instance", <<ns, svc, i>>)
             <=> x = ns /\ y = svc /\ j = i
      BY DEF Removes, IsPrefix
    <3> QED BY <2>1, <3>1, KnownAfter
  <2>4. \A i : ReusedElsewhere(i) => ReusedElsewhere(i)'
    BY <2>1, RefsStay
  <2>5. ASSUME NEW ns \in Namespaces, NEW svc \in ServiceNames, NEW i \in Ids, At(ns, svc, i)'
        PROVE  KnownAt("instance", <<ns, svc, i>>)'
    <3>1. i # j /\ At(ns, svc, i)
      BY <2>2, <2>5 DEF IdsOf
    <3> QED BY <2>3, <3>1 DEF InstancesKnown
  <2>6. ASSUME NEW ns \in Namespaces, NEW svc \in ServiceNames, NEW i \in Ids,
               KnownAt("instance", <<ns, svc, i>>)'
        PROVE  At(ns, svc, i)' \/ ReusedElsewhere(i)'
    <3>1. KnownAt("instance", <<ns, svc, i>>) /\ ~ (x = ns /\ y = svc /\ j = i)
      BY <2>3, <2>6
    <3>2. CASE i # j
      BY <2>2, <2>4, <3>1, <3>2 DEF InstancesKnown, IdsOf
    <3>3. CASE i = j
      <4>1. <<x, y, j>> \in InstanceRefs' /\ InstanceRefs \subseteq InstanceRefs'
        BY <2>1, RefsStay
      <4>2. <<ns, svc, i>> \in InstanceRefs
        BY <3>1 DEF KnownAt, InstanceRefs
      <4>3. \E r1, r2 \in InstanceRefs' : r1[3] = i /\ r2[3] = i /\ <<r1[1], r1[2]>> # <<r2[1], r2[2]>>
        <5> DEFINE r1 == <<x, y, j>>
                   r2 == <<ns, svc, i>>
        <5>1. r1 \in InstanceRefs' /\ r2 \in InstanceRefs'
          BY <4>1, <4>2
        <5>2. r1[3] = i /\ r2[3] = i /\ <<r1[1], r1[2]>> # <<r2[1], r2[2]>>
          BY <3>1, <3>3
        <5> HIDE DEF r1, r2
        <5> QED BY <5>1, <5>2
      <4> QED BY <4>3 DEF ReusedElsewhere
    <3> QED BY <3>2, <3>3
  <2> QED BY <2>5, <2>6 DEF InstancesKnown
<1>8. ASSUME NEW x \in Namespaces, NEW m \in ServerNames, OnServer(x, m) PROVE InstancesKnown'
  <2>1. PICK op : Logged("mcp_server", op, <<x, m>>)
    BY <1>8 DEF OnServer, ServerPut, ServerGone
  <2>2. instances' = instances
    BY <1>8 DEF OnServer, ServerPut, ServerGone
  <2> QED BY <1>2, <2>1, <2>2 DEF Removes, IdsOf
<1> QED BY <1>1, <1>3, <1>4, <1>5, <1>6, <1>7, <1>8 DEF Effect, OnInstance

LEMMA LogMeans ==
    ASSUME TypeOK, LogInv
    PROVE  LogIsExact
<1>1. Live \subseteq Known
  <2>1. ASSUME NEW k \in Keys, services[k] > 0 PROVE <<"service", k>> \in Known
    BY <2>1, KnownMeans DEF LogInv, ServicesKnown, Keys
  <2>2. ASSUME NEW i \in Ids, instances[i] # NoRow
        PROVE  <<"instance", <<instances[i].ns, instances[i].svc, i>>>> \in Known
    <3>1. /\ instances[i].ns \in Namespaces /\ instances[i].svc \in ServiceNames
          /\ i \in IdsOf(instances[i].ns, instances[i].svc)
      BY <2>2 DEF TypeOK, Instance, IdsOf
    <3> QED BY <3>1, KnownMeans DEF LogInv, InstancesKnown
  <2>3. ASSUME NEW m \in ServerNames, servers[m] # NoRow
        PROVE  <<"mcp_server", <<servers[m].ns, m>>>> \in Known
    <3>1. servers[m].ns \in Namespaces
      BY <2>3 DEF TypeOK, Server
    <3> QED BY <2>3, <3>1, KnownMeans DEF LogInv, ServersKnown
  <2> QED BY <2>1, <2>2, <2>3 DEF Live
<1>2. ASSUME NEW e \in Known, e \notin Live PROVE e[1] = "instance" /\ ReusedElsewhere(e[2][3])
  <2>1. PICK n \in DOMAIN changes :
           /\ changes[n].op = "create" /\ changes[n].entity # "namespace"
           /\ e = <<changes[n].entity, changes[n].ref>>
    BY DEF Known
  <2>2. KnownAt(changes[n].entity, changes[n].ref)
    BY <2>1, KnownMeans
  <2>3. changes[n] \in Change
    BY DEF TypeOK
  <2>4. CASE changes[n].entity = "service"
    <3>1. PICK ns \in Namespaces, svc \in ServiceNames : changes[n].ref = <<ns, svc>>
      BY <2>4 DEF LogInv, RefShapes, Keys
    <3>2. <<ns, svc>> \in Keys /\ services[<<ns, svc>>] > 0
      BY <2>2, <2>4, <3>1 DEF LogInv, ServicesKnown, Keys
    <3> QED BY <1>2, <2>1, <2>4, <3>1, <3>2 DEF Live
  <2>5. CASE changes[n].entity = "mcp_server"
    <3>1. PICK ns \in Namespaces, m \in ServerNames : changes[n].ref = <<ns, m>>
      BY <2>5 DEF LogInv, RefShapes
    <3>2. servers[m] # NoRow /\ servers[m].ns = ns
      BY <2>2, <2>5, <3>1 DEF LogInv, ServersKnown
    <3> QED BY <1>2, <2>1, <2>5, <3>1, <3>2 DEF Live
  <2>6. CASE changes[n].entity = "instance"
    <3>1. PICK ns \in Namespaces, svc \in ServiceNames, i \in Ids : changes[n].ref = <<ns, svc, i>>
      BY <2>6 DEF LogInv, RefShapes
    <3>2. i \in IdsOf(ns, svc) \/ ReusedElsewhere(i)
      BY <2>2, <2>6, <3>1 DEF LogInv, InstancesKnown
    <3>3. i \notin IdsOf(ns, svc)
      BY <1>2, <2>1, <2>6, <3>1 DEF Live, IdsOf
    <3> QED BY <2>1, <2>6, <3>1, <3>2, <3>3
  <2> QED BY <2>1, <2>3, <2>4, <2>5, <2>6 DEF Change
<1> QED BY <1>1, <1>2 DEF LogIsExact

LEMMA LogInvariant == Spec => []LogInv
<1>1. Init => LogInv
  BY DEF Init, LogInv, RefShapes, ServicesKnown, InstancesKnown, ServersKnown, KnownAt, IdsOf, Keys
<1>2. TypeOK /\ RevisionsInv /\ LogInv /\ [Next]_vars => LogInv'
  BY StepType, StepEffect, ShapesStep, ServicesKnownStep, InstancesKnownStep, ServersKnownStep
     DEF LogInv, RevisionsInv
<1> QED BY <1>1, <1>2, RevisionsInvariant, PTL DEF Spec

(* Whoever applies every change from the first knows just the services, the    *)
(* instances and the MCP servers there are.  The one exception is an instance  *)
(* whose client-chosen id was given to another service while a DELETE that had *)
(* read the old row was on its way.                                            *)
THEOREM LogIsComplete == Spec => []LogIsExact
<1>1. TypeOK /\ LogInv => LogIsExact
  BY LogMeans
<1> QED BY LogInvariant, TypeCorrect, <1>1, PTL

-----------------------------------------------------------------------------
(* The snapshot: its types *)

LEMMA CatalogStepIsNext ==
    ASSUME SnapshotNext \/ UNCHANGED snapshotVars
    PROVE  [Next]_vars
BY DEF SnapshotNext, CatalogStep, DieReading, Ask, ListContracts, ListEndpoints, Respond, Abandon,
       PruneUpTo, Next, snapshotVars

LEMMA HandlerFields ==
    ASSUME snap \in Handler, snap.step # "idle"
    PROVE  /\ snap.scope \in Scopes /\ snap.revision \in Nat /\ snap.began \in Nat
           /\ snap.step \in {"contracts", "endpoints"} => snap.contracts \in [Keys -> Nat]
           /\ snap.step = "endpoints" => snap.endpoints \in [Keys -> Nat]
BY DEF Handler

LEMMA LogLength ==
    ASSUME TypeOK
    PROVE  /\ Len(changes) \in Nat /\ CurrentRevision \in Nat /\ DOMAIN changes = 1 .. Len(changes)
           /\ \A n \in DOMAIN changes : n \in Nat
BY DEF TypeOK, CurrentRevision

LEMMA InstancesInType ==
    ASSUME TypeOK, NEW scope
    PROVE  InstancesIn(scope) \in [Ids -> Instance \union {NoRow}]
BY DEF TypeOK, InstancesIn

LEMMA FetchedType ==
    ASSUME TypeOK, snap \in Handler, snap.step = "endpoints"
    PROVE  Fetched \in Copy
BY HandlerFields, InstancesInType DEF Fetched, Copy

(* Only a write lengthens the log, and nothing shortens it.                    *)
LEMMA LogGrows ==
    ASSUME TypeOK, TypeOK', Effect
    PROVE  /\ Len(changes) <= Len(changes') /\ DOMAIN changes \subseteq DOMAIN changes'
           /\ \A n \in DOMAIN changes : changes'[n] = changes[n]
<1>1. ASSUME NEW entity, NEW op, NEW ref, Logged(entity, op, ref)
      PROVE  /\ Len(changes) <= Len(changes') /\ DOMAIN changes \subseteq DOMAIN changes'
             /\ \A n \in DOMAIN changes : changes'[n] = changes[n]
  <2> DEFINE c == Entry(entity, op, ref)
  <2>1. changes' = Append(changes, c)
    BY <1>1 DEF Logged
  <2> HIDE DEF c
  <2> QED BY <2>1, LoggedFacts
<1>2. CASE changes' = changes
  BY <1>2, LogLength
<1>3. changes' = changes \/ \E entity, op, ref : Logged(entity, op, ref)
  <2>1. Quiet => changes' = changes
    BY DEF Quiet
  <2>2. \A ns : OnNamespace(ns) => \E entity, op, ref : Logged(entity, op, ref)
    BY DEF OnNamespace, NamespaceKept, NamespaceGone
  <2>3. \A ns, svc : OnService(ns, svc) => \E entity, op, ref : Logged(entity, op, ref)
    BY DEF OnService, ServicePut, ServiceGone
  <2>4. \A ns, svc, i : OnInstance(ns, svc, i) => \E entity, op, ref : Logged(entity, op, ref)
    BY DEF OnInstance, InstancePut, InstanceUpdated, InstanceGone
  <2>5. \A ns, m : OnServer(ns, m) => \E entity, op, ref : Logged(entity, op, ref)
    BY DEF OnServer, ServerPut, ServerGone
  <2> QED BY <2>1, <2>2, <2>3, <2>4, <2>5 DEF Effect
<1> QED BY <1>1, <1>2, <1>3

LEMMA SnapshotStepType ==
    ASSUME SnapshotTypeOK, SnapshotNext \/ UNCHANGED snapshotVars
    PROVE  SnapshotTypeOK'
<1>1. TypeOK /\ TypeOK' /\ Effect
  BY CatalogStepIsNext, StepType, StepEffect DEF SnapshotTypeOK
<1>2. Len(changes) \in Nat /\ Len(changes') \in Nat /\ Len(changes) <= Len(changes')
  BY <1>1, LogLength, LogGrows DEF TypeOK
<1>3. CASE UNCHANGED readerVars
  BY <1>1, <1>2, <1>3 DEF SnapshotTypeOK, readerVars
<1>4. CASE DieReading
  BY <1>1, <1>2, <1>4 DEF DieReading, SnapshotTypeOK, Handler
<1>5. ASSUME NEW scope \in Scopes, Ask(scope) PROVE SnapshotTypeOK'
  <2>1. snap' \in Handler
    BY <1>1, <1>5, LogLength DEF Ask, Handler
  <2> QED BY <1>1, <1>2, <1>5, <2>1 DEF Ask, SnapshotTypeOK, vars, tables
<1>6. CASE ListContracts
  <2>1. [k \in Keys |-> IF InScope(snap.scope, k[1]) THEN services[k] ELSE 0] \in [Keys -> Nat]
    BY <1>1 DEF TypeOK
  <2>2. snap' \in Handler
    BY <1>6, <2>1, HandlerFields DEF ListContracts, Handler, SnapshotTypeOK
  <2> QED BY <1>1, <1>2, <1>6, <2>2 DEF ListContracts, SnapshotTypeOK
<1>7. CASE ListEndpoints
  <2>1. [k \in Keys |-> IF snap.contracts[k] > 0 THEN services[k] ELSE 0] \in [Keys -> Nat]
    BY <1>1 DEF TypeOK
  <2>2. snap' \in Handler
    BY <1>7, <2>1, HandlerFields DEF ListEndpoints, Handler, SnapshotTypeOK
  <2> QED BY <1>1, <1>2, <1>7, <2>2 DEF ListEndpoints, SnapshotTypeOK
<1>8. CASE Respond
  <2>1. snap' \in Handler
    BY <1>8 DEF Respond, Handler
  <2>2. copy' \in Copy \union {NoCopy}
    BY <1>1, <1>8, FetchedType DEF Respond, SnapshotTypeOK
  <2> QED BY <1>1, <1>2, <1>8, <2>1, <2>2 DEF Respond, SnapshotTypeOK
<1>9. CASE Abandon
  BY <1>1, <1>2, <1>9 DEF Abandon, SnapshotTypeOK, Handler
<1>10. ASSUME NEW n \in 1 .. MaxChanges, PruneUpTo(n) PROVE SnapshotTypeOK'
  <2>1. changes' = changes
    BY <1>10 DEF PruneUpTo, vars, tables
  <2>2. pruned' \in 0 .. Len(changes')
    BY <1>10, <1>2, <2>1 DEF PruneUpTo, SnapshotTypeOK
  <2> QED BY <1>1, <1>10, <2>2 DEF PruneUpTo, SnapshotTypeOK
<1>11. CatalogStep \/ UNCHANGED snapshotVars => UNCHANGED readerVars
  BY DEF CatalogStep, snapshotVars
<1> QED BY <1>3, <1>4, <1>5, <1>6, <1>7, <1>8, <1>9, <1>10, <1>11 DEF SnapshotNext

LEMMA SnapshotInitType == SnapshotInit => SnapshotTypeOK
BY InitType, LogLength DEF SnapshotInit, SnapshotTypeOK, Handler

(* The handler and the copy hold what they say they hold.                      *)
THEOREM SnapshotTypeCorrect == SnapshotSpec => []SnapshotTypeOK
<1>1. SnapshotTypeOK /\ [SnapshotNext]_snapshotVars => SnapshotTypeOK'
  BY SnapshotStepType
<1> QED BY <1>1, SnapshotInitType, PTL DEF SnapshotSpec

-----------------------------------------------------------------------------
(* The snapshot: what it misses is announced *)

(* A change after b names the service, or takes it away with its namespace.    *)
ServiceTold(k, b) ==
    \E n \in DOMAIN changes :
        /\ n > b
        /\ \/ changes[n].entity = "service" /\ changes[n].ref = k
           \/ TakesAway(changes[n], "service", k)

(* A change after b names the instance, or takes away row with what it is in.  *)
InstanceTold(i, row, b) ==
    \E n \in DOMAIN changes :
        /\ n > b
        /\ \/ changes[n].entity = "instance" /\ changes[n].ref[3] = i
           \/ row # NoRow /\ TakesAway(changes[n], "instance", <<row.ns, row.svc, i>>)

ServicesCovered(scope, b, table) ==
    \A k \in Keys : InScope(scope, k[1]) /\ services[k] # table[k] => ServiceTold(k, b)

InstancesCovered(scope, b, table) ==
    \A i \in Ids : InstancesIn(scope)[i] # table[i] => InstanceTold(i, table[i], b)

(* What a handler has read since its revision, and what a client got.          *)
SnapCovered ==
    /\ snap.step # "idle" => snap.began <= Len(changes) /\ snap.revision \in {0, snap.began}
    /\ snap.step \in {"contracts", "endpoints"} =>
          ServicesCovered(snap.scope, snap.began, snap.contracts)
    /\ snap.step = "endpoints" => ServicesCovered(snap.scope, snap.began, snap.endpoints)

CopyCovered ==
    copy # NoCopy =>
        /\ copy.began <= Len(changes) /\ copy.revision \in {0, copy.began}
        /\ ServicesCovered(copy.scope, copy.began, copy.contracts)
        /\ ServicesCovered(copy.scope, copy.began, copy.endpoints)
        /\ InstancesCovered(copy.scope, copy.began, copy.instances)

CoveredInv == SnapCovered /\ CopyCovered

(* The new record is the one that tells.                                       *)
LEMMA EntryTells ==
    ASSUME TypeOK, TypeOK', NEW entity, NEW op, NEW ref, Logged(entity, op, ref),
           NEW b \in Nat, b <= Len(changes)
    PROVE  /\ \A k : (entity = "service" /\ ref = k) \/ Removes(entity, op, ref, "service", k)
                     => ServiceTold(k, b)'
           /\ \A i, row :
                 \/ entity = "instance" /\ ref[3] = i
                 \/ row # NoRow /\ Removes(entity, op, ref, "instance", <<row.ns, row.svc, i>>)
                 => InstanceTold(i, row, b)'
<1> DEFINE c == Entry(entity, op, ref)
<1>1. changes' = Append(changes, c)
  BY DEF Logged
<1>2. /\ c.entity = entity /\ c.ref = ref
      /\ \A e, r : TakesAway(c, e, r) <=> Removes(entity, op, ref, e, r)
  BY DEF Entry, TakesAway, Removes
<1> HIDE DEF c
<1>3. NextRevision \in DOMAIN changes' /\ changes'[NextRevision] = c /\ NextRevision > b
  BY <1>1, LoggedFacts
<1>4. ASSUME NEW k, (entity = "service" /\ ref = k) \/ Removes(entity, op, ref, "service", k)
      PROVE  ServiceTold(k, b)'
  BY <1>2, <1>3, <1>4 DEF ServiceTold, TakesAway
<1>5. ASSUME NEW i, NEW row,
             \/ entity = "instance" /\ ref[3] = i
             \/ row # NoRow /\ Removes(entity, op, ref, "instance", <<row.ns, row.svc, i>>)
      PROVE  InstanceTold(i, row, b)'
  BY <1>2, <1>3, <1>5 DEF InstanceTold, TakesAway
<1> QED BY <1>4, <1>5

LEMMA ToldStays ==
    ASSUME TypeOK, TypeOK', Effect, NEW b
    PROVE  /\ \A k : ServiceTold(k, b) => ServiceTold(k, b)'
           /\ \A i, row : InstanceTold(i, row, b) => InstanceTold(i, row, b)'
BY LogGrows DEF ServiceTold, InstanceTold, TakesAway

LEMMA ServiceChangesAreTold ==
    ASSUME TypeOK, TypeOK', Effect, NEW b \in Nat, b <= Len(changes), NEW k \in Keys,
           services'[k] # services[k]
    PROVE  ServiceTold(k, b)'
<1>1. ~ Quiet
  BY DEF Quiet
<1>2. ASSUME NEW x \in Namespaces, OnNamespace(x) PROVE ServiceTold(k, b)'
  <2>1. NamespaceGone(x) /\ k[1] = x
    BY <1>2 DEF OnNamespace, NamespaceKept, NamespaceGone
  <2>2. Removes("namespace", "delete", <<x>>, "service", k)
    <3>1. k = <<x, k[2]>>
      BY <2>1 DEF Keys
    <3>2. Removes("namespace", "delete", <<x>>, "service", <<x, k[2]>>)
      BY DEF Removes, IsPrefix
    <3> QED BY <3>1, <3>2
  <2> QED BY <2>1, <2>2, EntryTells DEF NamespaceGone
<1>3. ASSUME NEW x \in Namespaces, NEW y \in ServiceNames, OnService(x, y) PROVE ServiceTold(k, b)'
  <2>1. k = <<x, y>>
    BY <1>3 DEF OnService, ServicePut, ServiceGone, TypeOK
  <2>2. PICK op : Logged("service", op, <<x, y>>)
    BY <1>3 DEF OnService, ServicePut, ServiceGone
  <2> QED BY <2>1, <2>2, EntryTells
<1>4. ASSUME NEW x \in Namespaces, NEW y \in ServiceNames, NEW i \in Ids
      PROVE  ~ OnInstance(x, y, i)
  BY DEF OnInstance, InstancePut, InstanceUpdated, InstanceGone
<1>5. ASSUME NEW x \in Namespaces, NEW m \in ServerNames PROVE ~ OnServer(x, m)
  BY DEF OnServer, ServerPut, ServerGone
<1> QED BY <1>1, <1>2, <1>3, <1>4, <1>5 DEF Effect

(* An instance changes under its own id, or goes with what it was in.          *)
LEMMA InstanceChangesAreTold ==
    ASSUME TypeOK, TypeOK', Effect, NEW b \in Nat, b <= Len(changes), NEW i \in Ids,
           instances'[i] # instances[i]
    PROVE  \/ \A row : InstanceTold(i, row, b)'
           \/ /\ instances[i] # NoRow /\ instances'[i] = NoRow
              /\ \A row : row = instances[i] => InstanceTold(i, row, b)'
<1>1. ~ Quiet
  BY DEF Quiet
<1> DEFINE old == instances[i]
<1>2. old # NoRow => old.ns \in Namespaces /\ old.svc \in ServiceNames
  BY DEF TypeOK, Instance
<1>3. ASSUME NEW x \in Namespaces, OnNamespace(x)
      PROVE  old # NoRow /\ instances'[i] = NoRow /\ \A row : row = old => InstanceTold(i, row, b)'
  <2>1. NamespaceGone(x) /\ old # NoRow /\ old.ns = x /\ instances'[i] = NoRow
    BY <1>3 DEF OnNamespace, NamespaceKept, NamespaceGone
  <2>2. Removes("namespace", "delete", <<x>>, "instance", <<old.ns, old.svc, i>>)
    BY <2>1 DEF Removes, IsPrefix
  <2>3. \A row : row # NoRow /\ Removes("namespace", "delete", <<x>>, "instance", <<row.ns, row.svc, i>>)
                 => InstanceTold(i, row, b)'
    BY <2>1, EntryTells DEF NamespaceGone
  <2> QED BY <2>1, <2>2, <2>3
<1>4. ASSUME NEW x \in Namespaces, NEW y \in ServiceNames, OnService(x, y)
      PROVE  old # NoRow /\ instances'[i] = NoRow /\ \A row : row = old => InstanceTold(i, row, b)'
  <2>1. ServiceGone(x, y) /\ old # NoRow /\ old.ns = x /\ old.svc = y /\ instances'[i] = NoRow
    BY <1>4 DEF OnService, ServicePut, ServiceGone, IdsOf
  <2>2. Removes("service", "delete", <<x, y>>, "instance", <<old.ns, old.svc, i>>)
    BY <2>1 DEF Removes, IsPrefix
  <2>3. \A row : row # NoRow /\ Removes("service", "delete", <<x, y>>, "instance", <<row.ns, row.svc, i>>)
                 => InstanceTold(i, row, b)'
    BY <2>1, EntryTells DEF ServiceGone
  <2> QED BY <2>1, <2>2, <2>3
<1>5. ASSUME NEW x \in Namespaces, NEW y \in ServiceNames, NEW j \in Ids, OnInstance(x, y, j)
      PROVE  \A row : InstanceTold(i, row, b)'
  <2>1. i = j
    BY <1>5 DEF OnInstance, InstancePut, InstanceUpdated, InstanceGone, TypeOK
  <2>2. PICK op : Logged("instance", op, <<x, y, i>>)
    BY <1>5, <2>1 DEF OnInstance, InstancePut, InstanceUpdated, InstanceGone
  <2> DEFINE ref == <<x, y, i>>
  <2>3. ref[3] = i
    OBVIOUS
  <2> HIDE DEF ref
  <2>4. Logged("instance", op, ref)
    BY <2>2 DEF ref
  <2> QED BY <2>3, <2>4, EntryTells
<1>6. ASSUME NEW x \in Namespaces, NEW m \in ServerNames PROVE ~ OnServer(x, m)
  BY DEF OnServer, ServerPut, ServerGone
<1> QED BY <1>1, <1>3, <1>4, <1>5, <1>6 DEF Effect

LEMMA CoveredStays ==
    ASSUME TypeOK, TypeOK', Effect, NEW scope, NEW b \in Nat, b <= Len(changes), NEW table
    PROVE  /\ ServicesCovered(scope, b, table) => ServicesCovered(scope, b, table)'
           /\ InstancesCovered(scope, b, table) => InstancesCovered(scope, b, table)'
<1>1. ASSUME ServicesCovered(scope, b, table), NEW k \in Keys, InScope(scope, k[1]),
             services'[k] # table[k]
      PROVE  ServiceTold(k, b)'
  <2>1. CASE services[k] = table[k]
    BY <1>1, <2>1, ServiceChangesAreTold
  <2>2. CASE services[k] # table[k]
    BY <1>1, <2>2, ToldStays DEF ServicesCovered
  <2> QED BY <2>1, <2>2
<1>2. ASSUME InstancesCovered(scope, b, table), NEW i \in Ids,
             InstancesIn(scope)'[i] # table[i]
      PROVE  InstanceTold(i, table[i], b)'
  <2>1. CASE InstancesIn(scope)[i] # table[i]
    BY <1>2, <2>1, ToldStays DEF InstancesCovered
  <2>2. CASE InstancesIn(scope)[i] = table[i]
    <3>1. instances'[i] # instances[i] /\ InstancesIn(scope)'[i] # InstancesIn(scope)[i]
      BY <1>2, <2>2 DEF InstancesIn
    <3>2. CASE \A row : InstanceTold(i, row, b)'
      BY <3>2
    <3>3. CASE /\ instances[i] # NoRow /\ instances'[i] = NoRow
               /\ \A row : row = instances[i] => InstanceTold(i, row, b)'
      <4>1. InstancesIn(scope)[i] = instances[i]
        BY <3>1, <3>3 DEF InstancesIn
      <4> QED BY <2>2, <3>3, <4>1
    <3> QED BY <3>1, <3>2, <3>3, InstanceChangesAreTold
  <2> QED BY <2>1, <2>2
<1> QED BY <1>1, <1>2 DEF ServicesCovered, InstancesCovered

LEMMA SnapCoveredStep ==
    ASSUME SnapshotTypeOK, SnapCovered, SnapshotNext \/ UNCHANGED snapshotVars
    PROVE  SnapCovered'
<1>1. TypeOK /\ TypeOK' /\ Effect /\ snap \in Handler
  BY CatalogStepIsNext, StepType, StepEffect DEF SnapshotTypeOK
<1>2. Len(changes) \in Nat /\ Len(changes') \in Nat /\ Len(changes) <= Len(changes')
  BY <1>1, LogLength, LogGrows DEF TypeOK
<1>3. \A scope, b, table : b \in Nat /\ b <= Len(changes) /\ ServicesCovered(scope, b, table)
                           => ServicesCovered(scope, b, table)'
  BY <1>1, CoveredStays
<1>4. CASE snap' = snap
  <2>1. snap.step # "idle" => snap.began \in Nat
    BY <1>1, HandlerFields
  <2>2. snap'.step # "idle" => snap'.began <= Len(changes') /\ snap'.revision \in {0, snap'.began}
    BY <1>2, <1>4, <2>1 DEF SnapCovered
  <2>3. ASSUME NEW scope, NEW b, NEW table, snap.step # "idle", b = snap.began,
               ServicesCovered(scope, b, table)
        PROVE  ServicesCovered(scope, b, table)'
    BY <1>3, <2>1, <2>3 DEF SnapCovered
  <2> QED BY <1>4, <2>2, <2>3 DEF SnapCovered
<1>5. CASE snap'.step = "idle"
  BY <1>5 DEF SnapCovered
<1>6. ASSUME NEW scope \in Scopes, Ask(scope) PROVE SnapCovered'
  <2>1. changes' = changes
    BY <1>6 DEF Ask, vars, tables
  <2> QED BY <1>2, <1>6, <2>1 DEF Ask, CurrentRevision, SnapCovered
<1>7. CASE ListContracts
  <2>1. /\ services' = services /\ changes' = changes
        /\ snap'.step = "contracts" /\ snap'.scope = snap.scope /\ snap'.began = snap.began
        /\ snap'.revision = snap.revision /\ snap.step = "revision"
        /\ \A k \in Keys : InScope(snap.scope, k[1]) => snap'.contracts[k] = services[k]
    BY <1>7 DEF ListContracts, vars, tables
  <2>2. ServicesCovered(snap.scope, snap.began, snap.contracts)'
    BY <2>1 DEF ServicesCovered
  <2> QED BY <2>1, <2>2 DEF SnapCovered
<1>8. CASE ListEndpoints
  <2>1. /\ services' = services /\ changes' = changes
        /\ snap'.step = "endpoints" /\ snap'.scope = snap.scope /\ snap'.began = snap.began
        /\ snap'.revision = snap.revision /\ snap.step = "contracts"
        /\ snap'.contracts = snap.contracts
        /\ \A k \in Keys : snap'.endpoints[k] = IF snap.contracts[k] > 0 THEN services[k] ELSE 0
    BY <1>8 DEF ListEndpoints, vars, tables
  <2>2. ServicesCovered(snap.scope, snap.began, snap.contracts)
    BY <2>1 DEF SnapCovered
  <2>3. snap.contracts \in [Keys -> Nat]
    BY <1>1, <2>1, HandlerFields
  <2>4. ServicesCovered(snap.scope, snap.began, snap.contracts)'
    BY <2>1, <2>2 DEF ServicesCovered, ServiceTold, TakesAway
  <2>5. ServicesCovered(snap.scope, snap.began, snap.endpoints)'
    <3>1. ASSUME NEW k \in Keys, InScope(snap.scope, k[1]), services[k] # snap'.endpoints[k]
          PROVE  ServiceTold(k, snap.began)
      <4>1. snap.contracts[k] = 0 /\ services[k] # snap.contracts[k]
        BY <2>1, <2>3, <3>1
      <4> QED BY <2>2, <3>1, <4>1 DEF ServicesCovered
    <3> QED BY <2>1, <3>1 DEF ServicesCovered, ServiceTold, TakesAway
  <2> QED BY <2>1, <2>4, <2>5 DEF SnapCovered
<1>9. CatalogStep \/ UNCHANGED snapshotVars \/ (\E n \in 1 .. MaxChanges : PruneUpTo(n)) => snap' = snap
  BY DEF CatalogStep, readerVars, snapshotVars, PruneUpTo
<1>10. DieReading \/ Respond \/ Abandon => snap'.step = "idle"
  BY DEF DieReading, Respond, Abandon
<1> QED BY <1>4, <1>5, <1>6, <1>7, <1>8, <1>9, <1>10 DEF SnapshotNext

LEMMA CopyCoveredStep ==
    ASSUME SnapshotTypeOK, CoveredInv, SnapshotNext \/ UNCHANGED snapshotVars
    PROVE  CopyCovered'
<1>1. TypeOK /\ TypeOK' /\ Effect /\ snap \in Handler /\ copy \in Copy \union {NoCopy}
  BY CatalogStepIsNext, StepType, StepEffect DEF SnapshotTypeOK
<1>2. Len(changes) \in Nat /\ Len(changes') \in Nat /\ Len(changes) <= Len(changes')
  BY <1>1, LogLength, LogGrows DEF TypeOK
<1>3. \A scope, b, table : b \in Nat /\ b <= Len(changes) =>
         /\ ServicesCovered(scope, b, table) => ServicesCovered(scope, b, table)'
         /\ InstancesCovered(scope, b, table) => InstancesCovered(scope, b, table)'
  BY <1>1, CoveredStays
<1>4. CASE copy' = copy
  <2>1. copy # NoCopy => copy.began \in Nat
    BY <1>1 DEF Copy
  <2>2. copy # NoCopy => copy.began <= Len(changes') /\ copy.revision \in {0, copy.began}
    BY <1>2, <2>1 DEF CoveredInv, CopyCovered
  <2>3. ASSUME NEW scope, NEW b, NEW table, copy # NoCopy, b = copy.began
        PROVE  /\ ServicesCovered(scope, b, table) => ServicesCovered(scope, b, table)'
               /\ InstancesCovered(scope, b, table) => InstancesCovered(scope, b, table)'
    BY <1>3, <2>1, <2>3 DEF CoveredInv, CopyCovered
  <2> QED BY <1>4, <2>2, <2>3 DEF CoveredInv, CopyCovered
<1>5. CASE Respond /\ copy' = Fetched
  <2>1. /\ instances' = instances /\ services' = services /\ changes' = changes
        /\ snap.step = "endpoints"
    BY <1>5 DEF Respond, vars, tables
  <2>2. /\ copy'.scope = snap.scope /\ copy'.began = snap.began /\ copy'.revision = snap.revision
        /\ copy'.contracts = snap.contracts /\ copy'.endpoints = snap.endpoints
        /\ copy'.instances = InstancesIn(snap.scope)
    BY <1>5 DEF Fetched
  <2>3. copy'.began <= Len(changes') /\ copy'.revision \in {0, copy'.began}
    BY <2>1, <2>2 DEF CoveredInv, SnapCovered
  <2>4. /\ ServicesCovered(copy.scope, copy.began, copy.contracts)'
        /\ ServicesCovered(copy.scope, copy.began, copy.endpoints)'
    <3>1. /\ ServicesCovered(snap.scope, snap.began, snap.contracts)
          /\ ServicesCovered(snap.scope, snap.began, snap.endpoints)
      BY <2>1 DEF CoveredInv, SnapCovered
    <3> QED BY <2>1, <2>2, <3>1 DEF ServicesCovered, ServiceTold, TakesAway
  <2>5. InstancesCovered(copy.scope, copy.began, copy.instances)'
    BY <2>1, <2>2 DEF InstancesCovered, InstancesIn
  <2> QED BY <2>3, <2>4, <2>5 DEF CopyCovered
<1>6. copy' = copy \/ (Respond /\ copy' = Fetched)
  BY DEF SnapshotNext, CatalogStep, readerVars, DieReading, Ask, ListContracts, ListEndpoints,
         Respond, Abandon, PruneUpTo, snapshotVars
<1> QED BY <1>4, <1>5, <1>6

LEMMA CoveredInvariant == SnapshotSpec => [](SnapshotTypeOK /\ CoveredInv)
<1>1. SnapshotInit => CoveredInv
  BY DEF SnapshotInit, CoveredInv, SnapCovered, CopyCovered
<1>2. SnapshotTypeOK /\ CoveredInv /\ [SnapshotNext]_snapshotVars => (SnapshotTypeOK /\ CoveredInv)'
  BY SnapshotStepType, SnapCoveredStep, CopyCoveredStep DEF CoveredInv
<1> QED BY <1>1, <1>2, SnapshotInitType, PTL DEF SnapshotSpec

(* To the catalog, snapshots and clients are not there: what was proved of it  *)
(* holds while they read.                                                      *)
THEOREM SnapshotLeavesCatalog == SnapshotSpec => Spec
<1>1. SnapshotInit => Init
  BY DEF SnapshotInit
<1>2. [SnapshotNext]_snapshotVars => [Next]_vars
  BY CatalogStepIsNext
<1> QED BY <1>1, <1>2, PTL DEF SnapshotSpec, Spec

(* A copy torn by writes between the statements of its snapshot is made good   *)
(* by the changes after its revision, as long as they are not pruned.          *)
THEOREM StaleCopiesAreAnnounced == SnapshotSpec => []StaleIsAnnounced
<1>1. ASSUME SnapshotTypeOK, CoveredInv PROVE StaleIsAnnounced
  <2> SUFFICES ASSUME copy # NoCopy, pruned <= copy.began
               PROVE  StaleIsAnnounced
    BY DEF StaleIsAnnounced
  <2>1. /\ copy.began \in Nat /\ copy.revision <= copy.began /\ pruned \in Nat
        /\ copy.revision \in Nat /\ \A n \in DOMAIN changes : n \in Nat
    BY <1>1, LogLength DEF SnapshotTypeOK, Copy, CoveredInv, CopyCovered
  <2>2. ASSUME NEW k \in Keys, InScope(copy.scope, k[1]),
               {services[k]} # {copy.contracts[k], copy.endpoints[k]}
        PROVE  \E n \in DOMAIN changes :
                  /\ n > pruned /\ n > copy.revision
                  /\ \/ changes[n].entity = "service" /\ changes[n].ref = k
                     \/ TakesAway(changes[n], "service", k)
    <3>1. ServiceTold(k, copy.began)
      BY <1>1, <2>2 DEF CoveredInv, CopyCovered, ServicesCovered
    <3> QED BY <2>1, <3>1 DEF ServiceTold
  <2>3. ASSUME NEW i \in Ids, InstancesIn(copy.scope)[i] # copy.instances[i]
        PROVE  \E n \in DOMAIN changes :
                  /\ n > pruned /\ n > copy.revision
                  /\ \/ changes[n].entity = "instance" /\ changes[n].ref[3] = i
                     \/ /\ copy.instances[i] # NoRow
                        /\ TakesAway(changes[n], "instance",
                                     <<copy.instances[i].ns, copy.instances[i].svc, i>>)
    <3>1. InstanceTold(i, copy.instances[i], copy.began)
      BY <1>1, <2>3 DEF CoveredInv, CopyCovered, InstancesCovered
    <3> QED BY <2>1, <3>1 DEF InstanceTold
  <2> QED BY <2>2, <2>3 DEF StaleIsAnnounced, Announced
<1> QED BY <1>1, CoveredInvariant, PTL

(* A client that is told 304 has what the tables hold, although no transaction *)
(* held the reads its copy was put together from.                              *)
THEOREM NotModifiedMeansCurrent == SnapshotSpec => []NotModifiedIsCurrent
<1>1. ASSUME SnapshotTypeOK, CoveredInv PROVE NotModifiedIsCurrent
  <2> SUFFICES ASSUME copy # NoCopy, copy.revision > 0, copy.revision = CurrentRevision
               PROVE  NotModifiedIsCurrent
    BY DEF NotModifiedIsCurrent
  <2>1. copy \in Copy /\ copy.began \in Nat /\ copy.revision \in {0, copy.began}
    BY <1>1 DEF SnapshotTypeOK, Copy, CoveredInv, CopyCovered
  <2>2. copy.began = Len(changes)
    BY <2>1 DEF CurrentRevision
  <2>3. \A n \in DOMAIN changes : ~ (n > copy.began)
    BY <1>1, <2>2, LogLength DEF SnapshotTypeOK
  <2>4. ASSUME NEW k \in Keys, InScope(copy.scope, k[1])
        PROVE  {services[k]} = {copy.contracts[k], copy.endpoints[k]}
    BY <1>1, <2>3, <2>4 DEF CoveredInv, CopyCovered, ServicesCovered, ServiceTold
  <2>5. \A i \in Ids : InstancesIn(copy.scope)[i] = copy.instances[i]
    BY <1>1, <2>3 DEF CoveredInv, CopyCovered, InstancesCovered, InstanceTold
  <2>6. copy.instances = InstancesIn(copy.scope)
    <3>1. /\ copy.instances \in [Ids -> Instance \union {NoRow}]
          /\ InstancesIn(copy.scope) \in [Ids -> Instance \union {NoRow}]
      BY <1>1, <2>1, InstancesInType DEF SnapshotTypeOK, Copy
    <3> DEFINE f == copy.instances
               g == InstancesIn(copy.scope)
    <3>2. f \in [Ids -> Instance \union {NoRow}] /\ g \in [Ids -> Instance \union {NoRow}]
      BY <3>1
    <3>3. \A i \in Ids : f[i] = g[i]
      BY <2>5
    <3> HIDE DEF f, g
    <3>4. f = g
      BY <3>2, <3>3
    <3> QED BY <3>4 DEF f, g
  <2> QED BY <2>4, <2>6 DEF NotModifiedIsCurrent
<1> QED BY <1>1, CoveredInvariant, PTL

=============================================================================
