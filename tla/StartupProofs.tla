---------------------------- MODULE StartupProofs ----------------------------
(***************************************************************************)
(* What TLAPS proves of the start on PostgreSQL, for any number of         *)
(* processes that start at once on one database, die anywhere and start    *)
(* again, and for any old file: the file is decided on once, is seen all   *)
(* or not at all, replaces nothing, and its log is continued.              *)
(***************************************************************************)
EXTENDS Startup, WellFoundedInduction, TLAPS

NatLess == {p \in Nat \X Nat : p[1] < p[2]}

LEMMA MinExists ==
    ASSUME NEW S, S \subseteq Nat, S # {}
    PROVE  \E m \in S : \A x \in S : m <= x
<1>1. IsWellFoundedOn(OpToRel(<, Nat), Nat)
  BY NatLessThanWellFounded
<1>2. OpToRel(<, Nat) = NatLess
  BY DEF OpToRel, NatLess
<1>3. PICK m \in S : \A x \in S : ~ (<<x, m>> \in NatLess)
  BY <1>1, <1>2, WFMin
<1>4. m \in Nat /\ \A x \in S : x \in Nat
  OBVIOUS
<1>5. ASSUME NEW x \in S PROVE m <= x
  <2>1. <<x, m>> \in Nat \X Nat
    BY <1>4
  <2>2. ~ (x < m)
    BY <1>3, <2>1 DEF NatLess
  <2> QED BY <1>4, <2>2
<1> QED BY <1>5

(* A bounded set of numbers has the maximum Max chooses.                       *)
LEMMA MaxOfBounded ==
    ASSUME NEW N \in Nat, NEW S, S \subseteq 0 .. N, S # {}
    PROVE  Max(S) \in S /\ \A x \in S : Max(S) >= x
<1>1. N \in Int /\ \A x \in S : x \in Int /\ N - x \in Nat
  OBVIOUS
<1> DEFINE T == {N - x : x \in S}
<1>2. T \subseteq Nat /\ T # {}
  BY <1>1
<1>3. PICK d \in T : \A y \in T : d <= y
  BY <1>2, MinExists
<1>4. PICK m \in S : d = N - m
  BY <1>3
<1>5. \A x \in S : N - m <= N - x
  BY <1>3, <1>4
<1> HIDE DEF T
<1>6. \A x \in S : m >= x
  BY <1>1, <1>4, <1>5
<1> QED BY <1>4, <1>6 DEF Max

(* How far an import is when one of its statements has run.                    *)
LEMMA DoneMeans ==
    ASSUME TypeOK, NEW q \in Processes
    PROVE  /\ tx[q].done \in 0 .. 5 /\ Len(Import) = 5
           /\ Done(q, "namespaces") <=> tx[q].done >= 1
           /\ Done(q, "services") <=> tx[q].done >= 2
           /\ Done(q, "changes") <=> tx[q].done >= 3
           /\ Done(q, "meta") <=> tx[q].done = 5
<1>1. /\ Len(Import) = 5 /\ Import[1] = "namespaces" /\ Import[2] = "services"
      /\ Import[3] = "changes" /\ Import[4] = "sequence" /\ Import[5] = "meta"
  BY DEF Import
<1>2. tx[q].done \in 0 .. 5
  BY <1>1 DEF TypeOK, Transaction
<1>3. ASSUME NEW s PROVE Done(q, s) <=>
         \/ tx[q].done >= 1 /\ s = "namespaces"
         \/ tx[q].done >= 2 /\ s = "services"
         \/ tx[q].done >= 3 /\ s = "changes"
         \/ tx[q].done >= 4 /\ s = "sequence"
         \/ tx[q].done >= 5 /\ s = "meta"
  BY <1>1, <1>2 DEF Done
<1> QED BY <1>1, <1>2, <1>3

LEMMA NextStatement ==
    ASSUME TypeOK, NEW p \in Processes, tx[p].done < Len(Import)
    PROVE  LET s == Import[tx[p].done + 1] IN
           /\ tx[p].done = 0 => s = "namespaces"
           /\ tx[p].done = 1 => s = "services"
           /\ tx[p].done = 2 => s = "changes"
           /\ tx[p].done = 3 => s = "sequence"
           /\ tx[p].done = 4 => s = "meta"
           /\ tx[p].done \in 0 .. 4
           /\ s = "sequence" => tx[p].done = 3
BY DoneMeans DEF Import

(* The log of the file is bounded.                                             *)
LEMMA FileType ==
    ASSUME TypeOK
    PROVE  /\ file.namespaces \subseteq Namespaces
           /\ file.top \in Nat /\ file.pruned \in Nat
           /\ FileLog \subseteq 1 .. file.top
           /\ FileLog # {} => file.top \in FileLog
           /\ file.services \in [Services -> 0 .. file.top]
           /\ FileServices \subseteq Services
<1>1. /\ file.namespaces \subseteq Namespaces
      /\ file.top \in Nat /\ file.pruned \in 0 .. file.top
      /\ file.services \in [Services -> 0 .. file.top]
  BY FileAssumption DEF TypeOK
<1> DEFINE a == file.pruned
           b == file.top
<1>2. b \in Nat /\ a \in Nat /\ a <= b
  BY <1>1
<1> HIDE DEF a, b
<1>3. a + 1 .. b \subseteq 1 .. b /\ (a + 1 .. b # {} => b \in a + 1 .. b)
  BY <1>2
<1> QED BY <1>1, <1>2, <1>3 DEF FileLog, FileServices, a, b

(* Two bounded sets have a common bound.                                       *)
LEMMA BoundOfUnion ==
    ASSUME NEW M \in Nat, NEW L \in Nat, NEW S, S \subseteq 0 .. M, NEW T, T \subseteq 0 .. L
    PROVE  M + L \in Nat /\ S \union T \subseteq 0 .. M + L
<1>1. \A x \in S : x \in Nat /\ x <= M
  OBVIOUS
<1>2. \A x \in T : x \in Nat /\ x <= L
  OBVIOUS
<1>3. \A x \in S \union T : x \in 0 .. M + L
  BY <1>1, <1>2
<1> QED BY <1>3

\* The log has a last revision.
LogEnds == \E N \in Nat : changes \subseteq 0 .. N

(* setval leaves the sequence at the last revision of the log as it will be.   *)
LEMMA ResetMeans ==
    ASSUME TypeOK, LogEnds
    PROVE  /\ ResetSequence(changes \union FileLog) \in Nat
           /\ FileLog # {} => file.top <= ResetSequence(changes \union FileLog)
<1> DEFINE log == changes \union FileLog
<1>1. PICK M \in Nat : changes \subseteq 0 .. M
  BY DEF LogEnds
<1>2. file.top \in Nat /\ FileLog \subseteq 1 .. file.top /\ (FileLog # {} => file.top \in FileLog)
  BY FileType
<1>3. M + file.top \in Nat /\ log \subseteq 0 .. M + file.top
  <2>1. FileLog \subseteq 0 .. file.top
    BY <1>2
  <2> QED BY <1>1, <1>2, <2>1, BoundOfUnion
<1>4. log # {} => Max(log) \in log /\ \A x \in log : Max(log) >= x
  BY <1>3, MaxOfBounded
<1>5. seq \in Nat /\ \A x \in log : x \in Nat
  <2>1. seq \in Nat
    BY DEF TypeOK
  <2>2. \A x \in 1 .. file.top : x \in Nat
    BY <1>2
  <2> QED BY <1>1, <1>2, <2>1, <2>2
<1>6. FileLog # {} => file.top \in log
  BY <1>2
<1> HIDE DEF log
<1>7. ResetSequence(log) \in Nat /\ (FileLog # {} => file.top <= ResetSequence(log))
  BY <1>2, <1>4, <1>5, <1>6 DEF ResetSequence
<1> QED BY <1>7 DEF log

-----------------------------------------------------------------------------
(* Types *)

ServiceRow == {NoService} \union [by : {"own", "client", "file"}, revision : Nat \ {0}]
OpenWrite == {NoWrite} \union Write

LEMMA TypeParts ==
    ASSUME TypeOK
    PROVE  /\ seq \in Nat /\ imports \in Nat
           /\ columns \in 0 .. Columns /\ cached \in [Processes -> 0 .. Columns]
           /\ changes \subseteq Nat \ {0}
           /\ services \in [Services -> ServiceRow]
           /\ pc \in [Processes -> Steps] /\ tx \in [Processes -> Transaction]
           /\ write \in [Writers -> OpenWrite] /\ Processes \subseteq Writers
BY DEF TypeOK, ServiceRow, OpenWrite, Writers

(* What an open write is; only an open one has drawn or put its revision.      *)
LEMMA WriteMeans ==
    ASSUME TypeOK, NEW w \in Writers, write[w] # NoWrite
    PROVE  /\ write[w] \in Write
           /\ write[w].row \in Rows /\ write[w].revision \in Nat \ {0}
<1>1. write[w] \in Write
  BY TypeParts DEF OpenWrite
<1> QED BY <1>1 DEF Write

LEMMA StepMeans ==
    ASSUME NEW w, write[w].step = "drawn" \/ write[w].step = "inserted"
    PROVE  write[w] # NoWrite
BY DEF NoWrite

(* A process goes on, or ends with its transactions rolled back.               *)
LEMMA GotoType ==
    ASSUME TypeOK, NEW p \in Processes, NEW step \in Steps, Goto(p, step)
    PROVE  pc' \in [Processes -> Steps]
BY DEF TypeOK, Goto

LEMMA ExitType ==
    ASSUME TypeOK, NEW p \in Processes, Exit(p)
    PROVE  /\ pc' \in [Processes -> Steps] /\ tx' \in [Processes -> Transaction]
           /\ write' \in [Writers -> OpenWrite]
<1>1. NoTx \in Transaction /\ "down" \in Steps /\ NoWrite \in OpenWrite
  BY DEF NoTx, Transaction, Steps, Import, OpenWrite
<1> QED BY <1>1, TypeParts DEF TypeOK, Exit, Goto

LEMMA CopyNextType ==
    ASSUME TypeOK, LogEnds, NEW p \in Processes, CopyNext(p)
    PROVE  /\ pc' \in [Processes -> Steps] /\ tx' \in [Processes -> Transaction]
           /\ seq' \in Nat /\ write' \in [Writers -> OpenWrite]
<1> DEFINE statement == Import[tx[p].done + 1]
<1>1. tx[p].done \in 0 .. 5 /\ tx[p].done < 5 /\ tx[p] \in Transaction /\ Len(Import) = 5
  BY DoneMeans DEF TypeOK, CopyNext
<1>2. \/ Exit(p) /\ seq' = seq
      \/ /\ pc' = pc /\ write' = write /\ tx' = [tx EXCEPT ![p].done = @ + 1]
         /\ seq' \in {seq, ResetSequence(changes \union FileLog)}
  BY DEF CopyNext
<1>3. CASE Exit(p) /\ seq' = seq
  BY <1>3, ExitType, TypeParts
<1>4. CASE /\ pc' = pc /\ write' = write /\ tx' = [tx EXCEPT ![p].done = @ + 1]
           /\ seq' \in {seq, ResetSequence(changes \union FileLog)}
  <2>1. [tx[p] EXCEPT !.done = @ + 1] \in Transaction
    BY <1>1 DEF Transaction
  <2>2. tx' \in [Processes -> Transaction]
    BY <1>4, <2>1, TypeParts
  <2> QED BY <1>4, <2>2, ResetMeans, TypeParts
<1> QED BY <1>2, <1>3, <1>4

LEMMA DrawType ==
    ASSUME TypeOK, NEW w \in Writers, NEW row \in Rows, NEW op \in {"put", "update", "delete"},
           Draw(w, row, op), UNCHANGED pc
    PROVE  TypeOK'
<1>1. seq + 1 \in Nat \ {0} /\ seq + 1 \in Nat
  BY TypeParts
<1>2. [step |-> "drawn", row |-> row, op |-> op, revision |-> seq + 1] \in OpenWrite
  BY <1>1 DEF OpenWrite, Write
<1>3. write' \in [Writers -> OpenWrite] /\ seq' \in Nat
  BY <1>1, <1>2, TypeParts DEF Draw
<1> QED BY <1>3 DEF Draw, TypeOK, OpenWrite, old, catalog

LEMMA RecordChangeType ==
    ASSUME TypeOK, NEW w \in Writers, RecordChange(w), UNCHANGED pc
    PROVE  TypeOK'
<1>1. write[w] \in Write
  BY StepMeans, WriteMeans DEF RecordChange
<1>2. [write[w] EXCEPT !.step = "inserted"] \in OpenWrite
  BY <1>1 DEF OpenWrite, Write
<1>3. write' \in [Writers -> OpenWrite]
  BY <1>2, TypeParts DEF RecordChange
<1> QED BY <1>3 DEF RecordChange, TypeOK, OpenWrite, old, catalog

LEMMA CommitType ==
    ASSUME TypeOK, NEW w \in Writers, Commit(w), pc' \in [Processes -> Steps]
    PROVE  TypeOK'
<1>1. write[w].revision \in Nat \ {0}
  BY StepMeans, WriteMeans DEF Commit
<1>2. namespaces' \in [Namespaces -> {"", "seed", "client", "file"}]
  BY DEF Commit, Wrote, TypeOK
<1>3. services' \in [Services -> ServiceRow]
  <2>1. \A k \in Services : Written(w, k, write[w].revision) \in ServiceRow
    BY <1>1 DEF Written, ServiceRow
  <2> QED BY <2>1, TypeParts DEF Commit, Wrote
<1>4. NoWrite \in OpenWrite /\ write' \in [Writers -> OpenWrite]
  <2>1. NoWrite \in OpenWrite
    BY DEF OpenWrite
  <2> QED BY <2>1, TypeParts DEF Commit, Wrote
<1>5. changes' \subseteq Nat \ {0}
  BY <1>1 DEF Commit, Wrote, TypeOK
<1> QED BY <1>2, <1>3, <1>4, <1>5 DEF Commit, Wrote, TypeOK, ServiceRow, OpenWrite, old

LEMMA PublishType ==
    ASSUME TypeOK, NEW p \in Processes, PublishOwnContract(p)
    PROVE  TypeOK'
<1>0. p \in Writers /\ Own \in Services /\ <<"services", Own>> \in Rows
  BY NameAssumption DEF Writers, Rows
<1>1. CASE ReadOwnContract(p)
  <2>1. pc' \in [Processes -> Steps]
    BY <1>1, GotoType DEF ReadOwnContract, Steps
  <2> QED BY <1>1, <2>1 DEF ReadOwnContract, TypeOK, old, catalog
<1>2. CASE WriteOwnContract(p)
  <2>1. PICK op \in {"put", "update", "delete"} : Draw(p, <<"services", Own>>, op)
    BY <1>2 DEF WriteOwnContract
  <2>2. UNCHANGED pc
    BY <1>2 DEF WriteOwnContract
  <2> QED BY <1>0, <2>1, <2>2, DrawType
<1>3. CASE OwnContractFails(p)
  BY <1>3, ExitType DEF OwnContractFails, TypeOK, OpenWrite, old, catalog
<1>4. CASE RecordChange(p) /\ UNCHANGED pc
  BY <1>0, <1>4, RecordChangeType
<1>5. CASE Commit(p) /\ Goto(p, "serving")
  <2>1. pc' \in [Processes -> Steps]
    BY <1>5, GotoType DEF Steps
  <2> QED BY <1>0, <1>5, <2>1, CommitType
<1> QED BY <1>1, <1>2, <1>3, <1>4, <1>5 DEF PublishOwnContract

LEMMA StartType ==
    ASSUME TypeOK, LogEnds, NEW p \in Processes, Open(p) \/ Start(p) \/ Die(p)
    PROVE  TypeOK'
<1>1. CASE Open(p)
  BY <1>1, GotoType DEF Open, TypeOK, Steps, old, catalog
<1>2. CASE MigrateColumn(p)
  <2>1. CASE cached[p] < columns
    BY <1>2, <2>1, ExitType DEF MigrateColumn, TypeOK, OpenWrite, old, catalog
  <2>2. CASE ~ (cached[p] < columns)
    <3>1. columns + 1 \in 0 .. Columns /\ cached[p] + 1 \in 0 .. Columns
      BY <1>2, <2>2, ColumnAssumption, TypeParts DEF MigrateColumn
    <3>2. cached' \in [Processes -> 0 .. Columns]
      BY <1>2, <2>2, <3>1, TypeParts DEF MigrateColumn
    <3> QED BY <1>2, <2>2, <3>1, <3>2 DEF MigrateColumn, TypeOK, old, catalog
  <2> QED BY <2>1, <2>2
<1>3. CASE Migrated(p) \/ SkipImport(p) \/ CountServices(p) \/ CountChanges(p)
  <2>1. \E step \in Steps : Goto(p, step)
    BY <1>3 DEF Migrated, SkipImport, CountServices, CountChanges, Steps
  <2>2. pc' \in [Processes -> Steps]
    BY <2>1, GotoType
  <2> QED BY <1>3, <2>2 DEF Migrated, SkipImport, CountServices, CountChanges, TypeOK, old, catalog
<1>4. CASE MarkSkipped(p)
  BY <1>4, GotoType DEF MarkSkipped, TypeOK, Steps, old
<1>5. CASE DeleteSeeds(p)
  <2>1. [tx[p] EXCEPT !.deleted = Present] \in Transaction
    BY DEF TypeOK, Transaction, Present
  <2>2. tx' \in [Processes -> Transaction]
    BY <1>5, <2>1 DEF DeleteSeeds, TypeOK
  <2> QED BY <1>5, <2>2, GotoType DEF DeleteSeeds, TypeOK, Steps, old, catalog
<1>6. CASE CopyNext(p)
  BY <1>6, CopyNextType DEF CopyNext, TypeOK, OpenWrite, old, catalog
<1>7. CASE CommitImport(p)
  <2>1. services' \in [Services -> ServiceRow]
    <3>1. \A k \in FileServices : file.services[k] \in Nat \ {0}
      BY FileType DEF FileServices
    <3>2. services' = [k \in Services |->
             IF k \in FileServices THEN [by |-> "file", revision |-> file.services[k]] ELSE services[k]]
      BY <1>7 DEF CommitImport, Imported
    <3> QED BY <3>1, <3>2, TypeParts DEF ServiceRow
  <2>2. namespaces' \in [Namespaces -> {"", "seed", "client", "file"}]
    BY <1>7 DEF CommitImport, Imported, TypeOK
  <2>3. NoTx \in Transaction /\ tx' \in [Processes -> Transaction]
    <3>1. NoTx \in Transaction
      BY DoneMeans DEF NoTx, Transaction, Import
    <3> QED BY <1>7, <3>1, TypeParts DEF CommitImport
  <2>4. pc' \in [Processes -> Steps]
    BY <1>7, GotoType DEF CommitImport, Steps
  <2>5. changes' \subseteq Nat \ {0} /\ imports' \in Nat
    <3>1. changes' = changes \union FileLog /\ imports' = imports + 1
      BY <1>7 DEF CommitImport, Imported
    <3>2. FileLog \subseteq Nat \ {0}
      BY FileType
    <3>3. changes \subseteq Nat \ {0} /\ imports \in Nat
      BY TypeParts
    <3>4. changes' \subseteq Nat \ {0}
      BY <3>1, <3>2, <3>3
    <3>5. imports' \in Nat
      BY <3>1, <3>3
    <3> QED BY <3>4, <3>5
  <2> QED BY <1>7, <2>1, <2>2, <2>3, <2>4, <2>5 DEF CommitImport, Imported, TypeOK, ServiceRow, old
<1>8. CASE EnsureNamespace(p)
  <2>1. namespaces' \in [Namespaces -> {"", "seed", "client", "file"}]
    BY <1>8 DEF EnsureNamespace, TypeOK
  <2> QED BY <1>8, <2>1, GotoType DEF EnsureNamespace, TypeOK, Steps, old
<1>9. CASE Die(p)
  BY <1>9, ExitType DEF Die, TypeOK, OpenWrite, old, catalog
<1> QED BY <1>1, <1>2, <1>3, <1>4, <1>5, <1>6, <1>7, <1>8, <1>9, PublishType DEF Start

LEMMA ClientType ==
    ASSUME TypeOK, NEW w \in Clients, ClientWrite(w) \/ FinishWrite(w)
    PROVE  TypeOK'
<1>0. w \in Writers /\ UNCHANGED pc
  BY DEF Writers, ClientWrite, FinishWrite
<1>1. CASE ClientWrite(w)
  <2>1. PICK row \in Rows, op \in {"put", "update", "delete"} : Draw(w, row, op)
    BY <1>1 DEF ClientWrite, Rows
  <2> QED BY <1>0, <2>1, DrawType
<1>2. CASE Rollback(w)
  <2>1. NoWrite \in OpenWrite
    BY DEF OpenWrite
  <2>2. write' \in [Writers -> OpenWrite]
    BY <1>2, <2>1, TypeParts DEF Rollback
  <2> QED BY <1>0, <1>2, <2>2 DEF Rollback, TypeOK, OpenWrite, old, catalog
<1>3. CASE Commit(w)
  <2>1. pc' \in [Processes -> Steps]
    BY <1>0, TypeParts
  <2> QED BY <1>0, <1>3, <2>1, CommitType
<1> QED BY <1>0, <1>1, <1>2, <1>3, RecordChangeType DEF FinishWrite

(* The log gets one more revision, or those of the file.                       *)
LEMMA LogEndsStep == TypeOK /\ LogEnds /\ [Next]_vars => LogEnds'
<1> SUFFICES ASSUME TypeOK, LogEnds, [Next]_vars PROVE LogEnds'
  OBVIOUS
<1>1. PICK N \in Nat : changes \subseteq 0 .. N
  BY DEF LogEnds
<1>2. ASSUME changes' \subseteq changes PROVE LogEnds'
  BY <1>1, <1>2 DEF LogEnds
<1>3. ASSUME NEW w \in Writers, Commit(w) PROVE LogEnds'
  <2>1. write[w].revision \in Nat /\ changes' = changes \union {write[w].revision}
    BY <1>3, StepMeans, WriteMeans DEF Commit, Wrote
  <2>2. N + write[w].revision \in Nat /\ changes' \subseteq 0 .. N + write[w].revision
    <3> DEFINE r == write[w].revision
    <3>1. r \in Nat /\ changes' = changes \union {r}
      BY <2>1
    <3> HIDE DEF r
    <3>2. {r} \subseteq 0 .. r
      BY <3>1
    <3>3. N + r \in Nat /\ changes \union {r} \subseteq 0 .. N + r
      BY <1>1, <3>1, <3>2, BoundOfUnion
    <3>4. N + r \in Nat /\ changes' \subseteq 0 .. N + r
      BY <3>1, <3>3
    <3> QED BY <3>4 DEF r
  <2> QED BY <2>2 DEF LogEnds
<1>4. ASSUME NEW p \in Processes, CommitImport(p) PROVE LogEnds'
  <2>1. changes' = changes \union FileLog
    BY <1>4 DEF CommitImport, Imported
  <2>2. N + file.top \in Nat /\ changes' \subseteq 0 .. N + file.top
    <3>1. file.top \in Nat /\ FileLog \subseteq 0 .. file.top
      BY FileType
    <3> QED BY <1>1, <2>1, <3>1, BoundOfUnion
  <2> QED BY <2>2 DEF LogEnds
<1>5. ASSUME NEW p \in Processes, Open(p) \/ Die(p) \/ MigrateColumn(p) \/ Migrated(p)
                \/ SkipImport(p) \/ CountServices(p) \/ CountChanges(p) \/ MarkSkipped(p)
                \/ DeleteSeeds(p) \/ CopyNext(p) \/ EnsureNamespace(p)
      PROVE  changes' = changes
  BY <1>5 DEF Open, Die, MigrateColumn, Migrated, SkipImport, CountServices, CountChanges, MarkSkipped,
              DeleteSeeds, CopyNext, EnsureNamespace, catalog
<1>6. ASSUME NEW p \in Processes, PublishOwnContract(p) PROVE Commit(p) \/ changes' = changes
  BY <1>6 DEF PublishOwnContract, ReadOwnContract, WriteOwnContract, Draw, OwnContractFails,
              RecordChange, catalog
<1>7. ASSUME NEW w \in Clients, ClientWrite(w) \/ FinishWrite(w) PROVE Commit(w) \/ changes' = changes
  BY <1>7 DEF ClientWrite, Draw, FinishWrite, RecordChange, Rollback, catalog
<1>8. ASSUME Prune \/ PlaceFile \/ UNCHANGED vars PROVE changes' \subseteq changes
  BY <1>8 DEF Prune, PlaceFile, vars, catalog
<1> QED BY <1>2, <1>3, <1>4, <1>5, <1>6, <1>7, <1>8 DEF Next, Start, Writers

LEMMA StepType == TypeOK /\ LogEnds /\ [Next]_vars => TypeOK'
<1> SUFFICES ASSUME TypeOK, LogEnds, [Next]_vars PROVE TypeOK'
  OBVIOUS
<1>1. CASE Prune
  BY <1>1 DEF Prune, TypeOK, old
<1>2. CASE PlaceFile
  BY <1>2 DEF PlaceFile, TypeOK, catalog
<1>3. CASE UNCHANGED vars
  BY <1>3 DEF vars, old, catalog, TypeOK
<1> QED BY <1>1, <1>2, <1>3, StartType, ClientType DEF Next

LEMMA InitType == Init => TypeOK /\ LogEnds
<1> SUFFICES ASSUME Init PROVE TypeOK /\ LogEnds
  OBVIOUS
<1>1. NoTx \in Transaction /\ "down" \in Steps
  BY DEF NoTx, Transaction, Steps, Import
<1>2. 0 \in 0 .. Columns /\ Columns \in 0 .. Columns
  BY ColumnAssumption
<1>3. TypeOK
  BY <1>1, <1>2 DEF Init, TypeOK
<1>4. 0 \in Nat /\ changes \subseteq 0 .. 0
  BY DEF Init
<1> QED BY <1>3, <1>4 DEF LogEnds

LEMMA Typed == Spec => [](TypeOK /\ LogEnds)
BY InitType, StepType, LogEndsStep, PTL DEF Spec

(* Whatever starts, writes, fails and dies, every table, process and           *)
(* transaction is in a state it can be in; a committed row has its revision.   *)
THEOREM TypeCorrect == Spec => []TypeOK
BY Typed, PTL

-----------------------------------------------------------------------------
(* What a step does to the catalog, the sequence and the open transactions *)

Shrinks == \A q \in Processes : tx'[q].done \in {tx[q].done, 0}

\* No write begins; one goes on, or ends.
Keeps ==
    \A w \in Writers :
        \/ write'[w] = NoWrite
        \/ /\ write[w] # NoWrite
           /\ write'[w].row = write[w].row /\ write'[w].revision = write[w].revision

\* Nothing is committed; a transaction is perhaps rolled back.
Quiet == UNCHANGED <<catalog, seq>> /\ Shrinks /\ Keeps

\* A statement of the import runs.
Advances(p) ==
    /\ pc[p] = "copying" /\ tx[p].done < Len(Import)
    /\ LET statement == Import[tx[p].done + 1] IN
       /\ ~ MustWait(p, statement)
       /\ ~ Taken(p, statement)
       /\ seq' = IF statement = "sequence" THEN ResetSequence(changes \union FileLog) ELSE seq
    /\ tx' = [tx EXCEPT ![p].done = @ + 1]
    /\ UNCHANGED <<pc, catalog, write>>

Marks ==
    /\ ~ \E q \in Processes : Done(q, "meta")
    /\ marked' /\ refused'
    /\ UNCHANGED <<namespaces, services, changes, imports, seq, tx, write>>

Seeds ==
    /\ namespaces' = [namespaces EXCEPT ![Default] = IF @ = "" THEN "seed" ELSE @]
    /\ UNCHANGED <<services, changes, marked, imports, refused, seq, tx, write>>

\* A write takes its row and draws its revision, for a start or a client.
Begins(w) ==
    /\ Serving \/ \E p \in Processes : pc[p] \in {"creating", "updating"}
    /\ \E row \in Rows, op \in {"put", "update", "delete"} :
          /\ Draw(w, row, op)
          /\ \A k \in Services : row = <<"services", k>> => ~ ServiceHeld(k)

Effect ==
    \/ Quiet
    \/ Marks
    \/ \E p \in Processes : Advances(p) \/ CommitImport(p)
    \/ Seeds
    \/ \E w \in Writers : Begins(w) \/ Commit(w)
    \/ Prune

(* An exit rolls a process' transactions back and leaves the others.           *)
LEMMA ExitShrinks ==
    ASSUME TypeOK, NEW p \in Processes, Exit(p)
    PROVE  Shrinks /\ Keeps
<1>1. Shrinks
  BY TypeParts DEF Exit, NoTx, Shrinks
<1>2. Keeps
  BY TypeParts DEF Exit, Keeps
<1> QED BY <1>1, <1>2

LEMMA RecordKeeps ==
    ASSUME TypeOK, NEW w \in Writers, RecordChange(w)
    PROVE  Quiet /\ file' = file
<1>1. write[w] # NoWrite /\ write[w] \in Write
  BY StepMeans, WriteMeans DEF RecordChange
<1>2. write' = [write EXCEPT ![w].step = "inserted"]
  BY DEF RecordChange
<1>3. /\ write'[w].row = write[w].row /\ write'[w].revision = write[w].revision
      /\ \A u \in Writers : u # w => write'[u] = write[u]
  BY <1>1, <1>2, TypeParts DEF Write
<1>4. Keeps
  BY <1>1, <1>3 DEF Keeps
<1> QED BY <1>4 DEF RecordChange, Quiet, Shrinks, old

LEMMA StepEffect ==
    ASSUME TypeOK, [Next]_vars
    PROVE  Effect /\ file' = file
<1> USE DEF Effect
<1>0. /\ UNCHANGED tx => Shrinks
      /\ UNCHANGED write => Keeps
  BY DEF Shrinks, Keeps
<1>1. ASSUME NEW p \in Processes, Open(p) \/ Die(p)
      PROVE  Effect /\ file' = file
  BY <1>0, <1>1, ExitShrinks DEF Open, Die, Quiet, old
<1>2. ASSUME NEW p \in Processes,
             MigrateColumn(p) \/ Migrated(p) \/ SkipImport(p) \/ CountServices(p) \/ CountChanges(p)
      PROVE  Effect /\ file' = file
  <2>1. UNCHANGED <<catalog, seq, file>> /\ (UNCHANGED <<tx, write>> \/ Exit(p))
    BY <1>2 DEF MigrateColumn, Migrated, SkipImport, CountServices, CountChanges, old
  <2> QED BY <2>1, <1>0, ExitShrinks DEF Quiet
<1>3. ASSUME NEW p \in Processes, MarkSkipped(p)
      PROVE  Effect /\ file' = file
  BY <1>3 DEF MarkSkipped, Marks, old
<1>4. ASSUME NEW p \in Processes, DeleteSeeds(p)
      PROVE  Effect /\ file' = file
  <2>1. UNCHANGED <<catalog, seq, file, write>> /\ tx' = [tx EXCEPT ![p].deleted = Present]
    BY <1>4 DEF DeleteSeeds, old
  <2>2. tx \in [Processes -> Transaction]
    BY TypeParts
  <2>3. \A q \in Processes : tx'[q].done = tx[q].done
    BY <2>1, <2>2 DEF Transaction
  <2> QED BY <1>0, <2>1, <2>3 DEF Quiet, Shrinks
<1>5. ASSUME NEW p \in Processes, CopyNext(p)
      PROVE  Effect /\ file' = file
  <2>1. UNCHANGED <<catalog, file>>
    BY <1>5 DEF CopyNext, old
  <2>2. CASE Exit(p) /\ UNCHANGED seq
    BY <2>1, <2>2, ExitShrinks DEF Quiet
  <2>3. CASE ~ (Exit(p) /\ UNCHANGED seq)
    <3>1. Advances(p)
      BY <1>5, <2>1, <2>3 DEF CopyNext, Advances
    <3> QED BY <2>1, <3>1
  <2> QED BY <2>2, <2>3
<1>6. ASSUME NEW p \in Processes, CommitImport(p)
      PROVE  Effect /\ file' = file
  BY <1>6 DEF CommitImport, old
<1>7. ASSUME NEW p \in Processes, EnsureNamespace(p)
      PROVE  Effect /\ file' = file
  BY <1>7 DEF EnsureNamespace, Seeds, old
<1>8. ASSUME NEW p \in Processes, PublishOwnContract(p)
      PROVE  Effect /\ file' = file
  <2>0. p \in Writers
    BY DEF Writers
  <2>1. CASE ReadOwnContract(p)
    BY <1>0, <2>1 DEF ReadOwnContract, Quiet, old
  <2>2. CASE WriteOwnContract(p)
    <3>1. <<"services", Own>> \in Rows /\ Own \in Services
      BY NameAssumption DEF Rows
    <3>2. \E op \in {"put", "update", "delete"} : Draw(p, <<"services", Own>>, op)
      BY <2>2 DEF WriteOwnContract
    <3>3. pc[p] \in {"creating", "updating"} /\ ~ ServiceHeld(Own)
      BY <2>2 DEF WriteOwnContract
    <3>4. \A k \in Services : <<"services", Own>> = <<"services", k>> => ~ ServiceHeld(k)
      BY <3>3
    <3>5. Begins(p)
      BY <3>1, <3>2, <3>3, <3>4 DEF Begins
    <3>6. file' = file
      BY <3>2 DEF Draw, old
    <3> QED BY <2>0, <3>5, <3>6
  <2>3. CASE OwnContractFails(p)
    BY <2>3, ExitShrinks DEF OwnContractFails, Quiet, old
  <2>4. CASE RecordChange(p)
    BY <2>0, <2>4, RecordKeeps
  <2>5. CASE Commit(p)
    BY <2>0, <2>5 DEF Commit, Wrote, old
  <2> QED BY <1>8, <2>1, <2>2, <2>3, <2>4, <2>5 DEF PublishOwnContract
<1>9. ASSUME NEW w \in Clients, ClientWrite(w)
      PROVE  Effect /\ file' = file
  <2>0. w \in Writers /\ Serving
    BY <1>9 DEF Writers, ClientWrite
  <2> DEFINE Drawn == \E row \in Rows, op \in {"put", "update", "delete"} :
                         /\ Draw(w, row, op)
                         /\ \A k \in Services : row = <<"services", k>> => ~ ServiceHeld(k)
  <2>1. Drawn
    <3>1. ASSUME NEW n \in Namespaces, Draw(w, <<"namespaces", n>>, "put") PROVE Drawn
      <4>1. /\ <<"namespaces", n>> \in Rows
            /\ \A k \in Services : <<"namespaces", n>> # <<"services", k>>
        BY DEF Rows
      <4> QED BY <3>1, <4>1
    <3>2. ASSUME NEW k \in Services, NEW op \in {"put", "delete"}, ~ ServiceHeld(k),
                 Draw(w, <<"services", k>>, op)
          PROVE  Drawn
      <4>1. /\ <<"services", k>> \in Rows
            /\ \A c \in Services : <<"services", k>> = <<"services", c>> => ~ ServiceHeld(c)
        BY <3>2 DEF Rows
      <4> QED BY <3>2, <4>1
    <3>3. \/ \E n \in Namespaces : Draw(w, <<"namespaces", n>>, "put")
          \/ \E k \in Services : \E op \in {"put", "delete"} :
                ~ ServiceHeld(k) /\ Draw(w, <<"services", k>>, op)
      BY <1>9 DEF ClientWrite
    <3> HIDE DEF Drawn
    <3> QED BY <3>1, <3>2, <3>3
  <2>2. Begins(w)
    BY <2>0, <2>1 DEF Begins
  <2>3. file' = file
    BY <2>1 DEF Draw, old
  <2> QED BY <2>0, <2>2, <2>3
<1>10. ASSUME NEW w \in Clients, FinishWrite(w)
       PROVE  Effect /\ file' = file
  <2>0. w \in Writers
    BY DEF Writers
  <2>1. CASE RecordChange(w)
    BY <2>0, <2>1, RecordKeeps
  <2>2. CASE Commit(w)
    BY <2>0, <2>2 DEF Commit, Wrote, old
  <2>3. CASE Rollback(w)
    <3>1. Keeps
      BY <2>3, TypeParts DEF Rollback, Keeps
    <3> QED BY <1>0, <2>3, <3>1 DEF Rollback, Quiet, old
  <2> QED BY <1>10, <2>1, <2>2, <2>3 DEF FinishWrite
<1>11. ASSUME Prune
       PROVE  Effect /\ file' = file
  BY <1>11 DEF Prune, old
<1>12. ASSUME PlaceFile \/ UNCHANGED vars
       PROVE  Effect /\ file' = file
  BY <1>0, <1>12 DEF PlaceFile, vars, old, Quiet
<1> QED BY <1>1, <1>2, <1>3, <1>4, <1>5, <1>6, <1>7, <1>8, <1>9, <1>10, <1>11, <1>12 DEF Next, Start

-----------------------------------------------------------------------------
(* The decision on the file *)

\* An import that was committed, or refused, has left the marker; one that has
\* inserted the marker and is open keeps others from deciding.
DecisionInv ==
    /\ imports > 0 \/ refused => marked
    /\ \A p \in Processes : tx[p].done = 5 => ~ marked
    /\ \A p, q \in Processes : tx[p].done = 5 /\ tx[q].done = 5 => p = q

(* The statements that have run after a transaction goes on by one.            *)
LEMMA AdvanceMeans ==
    ASSUME TypeOK, NEW p \in Processes, Advances(p)
    PROVE  /\ tx[p].done \in 0 .. 4
           /\ \A q \in Processes : tx'[q].done = IF q = p THEN tx[p].done + 1 ELSE tx[q].done
           /\ tx[p].done = 4 => ~ marked /\ \A q \in Processes \ {p} : tx[q].done # 5
           /\ tx[p].done = 1 =>
                 /\ \A k \in FileServices : services[k] = NoService
                 /\ \A w \in Writers : write[w] # NoWrite => write[w].row \notin {"services"} \X FileServices
                 /\ FileServices # {} => \A q \in Processes \ {p} : tx[q].done < 2
           /\ tx[p].done = 3 => seq' = ResetSequence(changes \union FileLog)
           /\ tx[p].done # 3 => seq' = seq
<1> DEFINE statement == Import[tx[p].done + 1]
<1>1. /\ tx[p].done = 0 => statement = "namespaces"
      /\ tx[p].done = 1 => statement = "services"
      /\ tx[p].done = 2 => statement = "changes"
      /\ tx[p].done = 3 => statement = "sequence"
      /\ tx[p].done = 4 => statement = "meta"
      /\ tx[p].done \in 0 .. 4
  BY NextStatement DEF Advances
<1>2. /\ ~ MustWait(p, statement) /\ ~ Taken(p, statement)
      /\ seq' = IF statement = "sequence" THEN ResetSequence(changes \union FileLog) ELSE seq
      /\ tx' = [tx EXCEPT ![p].done = @ + 1]
  BY DEF Advances
<1>3. \A q \in Processes : tx'[q].done = IF q = p THEN tx[p].done + 1 ELSE tx[q].done
  <2>1. tx \in [Processes -> Transaction]
    BY TypeParts
  <2> QED BY <1>2, <2>1 DEF Transaction
<1>4. \A q \in Processes : /\ tx[q].done \in 0 .. 5
                           /\ Done(q, "services") <=> tx[q].done >= 2
                           /\ Done(q, "meta") <=> tx[q].done = 5
  BY DoneMeans
<1>5. tx[p].done = 4 => ~ marked /\ \A q \in Processes \ {p} : tx[q].done # 5
  BY <1>1, <1>2, <1>4 DEF MustWait, Taken
<1>6. tx[p].done = 1 =>
         /\ \A k \in FileServices : services[k] = NoService
         /\ \A w \in Writers : write[w] # NoWrite => write[w].row \notin {"services"} \X FileServices
         /\ FileServices # {} => \A q \in Processes \ {p} : tx[q].done < 2
  BY <1>1, <1>2, <1>4 DEF MustWait, Taken
<1>7. /\ tx[p].done = 3 => seq' = ResetSequence(changes \union FileLog)
      /\ tx[p].done # 3 => seq' = seq
  BY <1>1, <1>2
<1> QED BY <1>1, <1>3, <1>5, <1>6, <1>7

(* A commit ends a transaction whose statements have all run.                  *)
LEMMA CommitMeans ==
    ASSUME TypeOK, NEW p \in Processes, CommitImport(p)
    PROVE  /\ tx[p].done = 5 /\ marked' = TRUE /\ imports' = imports + 1 /\ refused' = refused
           /\ changes' = changes \union FileLog /\ seq' = seq
           /\ \A q \in Processes : tx'[q].done = IF q = p THEN 0 ELSE tx[q].done
<1>1. tx[p].done = 5 /\ tx' = [tx EXCEPT ![p] = NoTx]
  BY DoneMeans DEF CommitImport
<1>2. \A q \in Processes : tx'[q].done = IF q = p THEN 0 ELSE tx[q].done
  BY <1>1, TypeParts DEF NoTx
<1>3. marked' = TRUE /\ imports' = imports + 1 /\ refused' = refused
      /\ changes' = changes \union FileLog /\ seq' = seq
  BY DEF CommitImport, Imported
<1> QED BY <1>1, <1>2, <1>3

\* Every step but the import's own and the marker's.
Other == Quiet \/ Seeds \/ (\E w \in Writers : Begins(w) \/ Commit(w)) \/ Prune

(* What the writes of a serving process and the seeding leave alone.           *)
LEMMA QuietMeans ==
    ASSUME TypeOK, Other
    PROVE  UNCHANGED <<marked, imports, refused>> /\ Shrinks
<1>1. UNCHANGED tx => Shrinks
  BY DEF Shrinks
<1> QED BY <1>1 DEF Other, Quiet, catalog, Seeds, Begins, Draw, Commit, Wrote, Prune

LEMMA DecisionStep == TypeOK /\ DecisionInv /\ [Next]_vars => DecisionInv'
<1> SUFFICES ASSUME TypeOK, DecisionInv, [Next]_vars PROVE DecisionInv'
  OBVIOUS
<1>1. CASE Other
  <2>1. \A q \in Processes : tx'[q].done = 5 => tx[q].done = 5
    BY <1>1, QuietMeans DEF Shrinks
  <2> QED BY <1>1, <2>1, QuietMeans DEF DecisionInv
<1>2. CASE Marks
  <2>1. \A q \in Processes : tx[q].done # 5
    BY <1>2, DoneMeans DEF Marks
  <2> QED BY <1>2, <2>1 DEF Marks, DecisionInv
<1>3. ASSUME NEW p \in Processes, Advances(p) PROVE DecisionInv'
  <2>1. UNCHANGED <<marked, imports, refused>>
    BY <1>3 DEF Advances, catalog
  <2> QED BY <1>3, <2>1, AdvanceMeans DEF DecisionInv
<1>4. ASSUME NEW p \in Processes, CommitImport(p) PROVE DecisionInv'
  <2>1. /\ tx[p].done = 5 /\ marked' = TRUE
        /\ \A q \in Processes : tx'[q].done = IF q = p THEN 0 ELSE tx[q].done
    BY <1>4, CommitMeans
  <2>2. \A q \in Processes : tx'[q].done # 5
    BY <2>1 DEF DecisionInv
  <2> QED BY <2>1, <2>2 DEF DecisionInv
<1> QED BY <1>1, <1>2, <1>3, <1>4, StepEffect DEF Effect, Other

LEMMA DecisionInit == Init => DecisionInv
<1> SUFFICES ASSUME Init PROVE DecisionInv
  OBVIOUS
<1>1. \A p \in Processes : tx[p].done = 0
  <2>1. \A p \in Processes : tx[p] = NoTx
    BY DEF Init
  <2>2. NoTx.done = 0
    BY DEF NoTx
  <2> QED BY <2>1, <2>2
<1>2. imports = 0 /\ ~ refused /\ ~ marked
  BY DEF Init
<1> QED BY <1>1, <1>2 DEF DecisionInv

LEMMA Decided == Spec => [](TypeOK /\ DecisionInv)
BY Typed, DecisionInit, DecisionStep, PTL DEF Spec

(* The import happens once, and never when a start has passed the file over    *)
(* (migrateFromSQLite, the marker in meta).                                    *)
THEOREM FileIsDecidedOnce == Spec => DecidedOnce
<1>1. TypeOK /\ DecisionInv /\ [Next]_vars => [imports > 0 \/ refused => imports' = imports]_vars
  <2> SUFFICES ASSUME TypeOK, DecisionInv, [Next]_vars, imports > 0 \/ refused
               PROVE  imports' = imports
    OBVIOUS
  <2>1. CASE Other
    BY <2>1, QuietMeans
  <2>2. CASE Marks
    BY <2>2 DEF Marks
  <2>3. ASSUME NEW p \in Processes, Advances(p) PROVE imports' = imports
    BY <2>3 DEF Advances, catalog
  <2>4. ASSUME NEW p \in Processes, CommitImport(p) PROVE FALSE
    BY <2>4, CommitMeans DEF DecisionInv
  <2> QED BY <2>1, <2>2, <2>3, <2>4, StepEffect DEF Effect, Other
<1> QED BY <1>1, Decided, PTL DEF Spec, DecidedOnce

(* A row of the file is in the catalog only with the marker: the import's      *)
(* transaction commits both (ImportLegacySQLite).                              *)
THEOREM ImportIsWhole == Spec => []NothingHalfImported
<1>1. Init => NothingHalfImported
  <2> SUFFICES ASSUME Init PROVE NothingHalfImported
    OBVIOUS
  <2>1. \A k \in Services : services[k] = NoService
    BY DEF Init
  <2>2. NoService.by = ""
    BY DEF NoService
  <2>3. \A n \in Namespaces : namespaces[n] = ""
    BY DEF Init
  <2> QED BY <2>1, <2>2, <2>3 DEF NothingHalfImported
<1>2. TypeOK /\ NothingHalfImported /\ [Next]_vars => NothingHalfImported'
  <2> SUFFICES ASSUME TypeOK, NothingHalfImported, [Next]_vars PROVE NothingHalfImported'
    OBVIOUS
  <2>1. CASE Quiet \/ Prune
    BY <2>1 DEF Quiet, catalog, Prune, NothingHalfImported
  <2>2. CASE Marks
    BY <2>2 DEF Marks, NothingHalfImported
  <2>3. ASSUME NEW p \in Processes, Advances(p) \/ CommitImport(p) PROVE NothingHalfImported'
    BY <2>3, CommitMeans DEF Advances, catalog, NothingHalfImported
  <2>4. CASE Seeds
    BY <2>4 DEF Seeds, NothingHalfImported, TypeOK
  <2>5. ASSUME NEW w \in Writers, Commit(w) PROVE NothingHalfImported'
    <3>1. marked' = marked
      BY <2>5 DEF Commit, Wrote
    <3>2. ASSUME NEW n \in Namespaces, namespaces'[n] = "file" PROVE namespaces[n] = "file"
      BY <2>5, <3>2 DEF Commit, Wrote, TypeOK
    <3>3. ASSUME NEW k \in Services, services'[k].by = "file" PROVE services[k].by = "file"
      <4>1. Written(w, k, write[w].revision).by # "file"
        BY DEF Written, NoService
      <4> QED BY <2>5, <3>3, <4>1, TypeParts DEF Commit, Wrote
    <3> QED BY <3>1, <3>2, <3>3 DEF NothingHalfImported
  <2>6. ASSUME NEW w \in Writers, Begins(w) PROVE NothingHalfImported'
    BY <2>6 DEF Begins, Draw, catalog, NothingHalfImported
  <2> QED BY <2>1, <2>2, <2>3, <2>4, <2>5, <2>6, StepEffect DEF Effect
<1> QED BY <1>1, <1>2, TypeCorrect, PTL DEF Spec

-----------------------------------------------------------------------------
(* What an import replaces *)

\* An import that has inserted the file's services found none of them there, and
\* keeps every write and every other import from their keys.
EmptyInv ==
    /\ \A p \in Processes : tx[p].done >= 2 => \A k \in FileServices :
          /\ services[k] = NoService
          /\ \A w \in Writers : write[w] # NoWrite => write[w].row # <<"services", k>>
    /\ \A p, q \in Processes :
          tx[p].done >= 2 /\ tx[q].done >= 2 /\ FileServices # {} => p = q

(* Whoever comes to a row finds it free of open imports.                       *)
LEMMA HeldMeans ==
    ASSUME TypeOK, NEW p \in Processes, tx[p].done >= 2, NEW k \in FileServices
    PROVE  ServiceHeld(k)
BY DoneMeans DEF ServiceHeld

LEMMA EmptyStep == TypeOK /\ EmptyInv /\ [Next]_vars => EmptyInv'
<1> SUFFICES ASSUME TypeOK, EmptyInv, [Next]_vars PROVE EmptyInv'
  OBVIOUS
<1>0. FileServices' = FileServices /\ FileServices \subseteq Services
  BY StepEffect, FileType DEF FileServices
<1>1. ASSUME Shrinks, UNCHANGED services, Keeps PROVE EmptyInv'
  <2>1. \A q \in Processes : tx'[q].done >= 2 => tx[q].done >= 2
    BY <1>1 DEF Shrinks
  <2>2. ASSUME NEW q \in Processes, tx'[q].done >= 2, NEW k \in FileServices
        PROVE  /\ services'[k] = NoService
               /\ \A w \in Writers : write'[w] # NoWrite => write'[w].row # <<"services", k>>
    BY <1>1, <2>1, <2>2 DEF EmptyInv, Keeps
  <2> QED BY <1>0, <2>1, <2>2 DEF EmptyInv
<1>2. CASE Quiet \/ Seeds \/ Prune \/ Marks
  <2>1. Shrinks /\ Keeps /\ UNCHANGED services
    BY <1>2 DEF Quiet, catalog, Seeds, Prune, Marks, Shrinks, Keeps
  <2> QED BY <1>1, <2>1
<1>3. ASSUME NEW w \in Writers, Begins(w) PROVE EmptyInv'
  <2>1. PICK row \in Rows, op \in {"put", "update", "delete"} :
           /\ Draw(w, row, op)
           /\ \A k \in Services : row = <<"services", k>> => ~ ServiceHeld(k)
    BY <1>3 DEF Begins
  <2>2. tx' = tx /\ services' = services
    BY <2>1 DEF Draw, catalog
  <2>3. \A u \in Writers : IF u = w THEN write'[u].row = row ELSE write'[u] = write[u]
    BY <2>1, TypeParts DEF Draw
  <2>4. ASSUME NEW p \in Processes, tx[p].done >= 2, NEW k \in FileServices, NEW u \in Writers,
               write'[u] # NoWrite
        PROVE  write'[u].row # <<"services", k>>
    BY <1>0, <2>1, <2>3, <2>4, HeldMeans DEF EmptyInv
  <2> QED BY <1>0, <2>2, <2>4 DEF EmptyInv
<1>4. ASSUME NEW w \in Writers, Commit(w) PROVE EmptyInv'
  <2>1. /\ tx' = tx /\ write[w] # NoWrite
        /\ \A u \in Writers : write'[u] = IF u = w THEN NoWrite ELSE write[u]
    BY <1>4, StepMeans, TypeParts DEF Commit, Wrote
  <2>2. \A k \in Services : services'[k] = services[k] \/ write[w].row = <<"services", k>>
    BY <1>4, TypeParts DEF Commit, Wrote
  <2>3. ASSUME NEW p \in Processes, tx[p].done >= 2, NEW k \in FileServices
        PROVE  services'[k] = NoService
    BY <1>0, <2>1, <2>2, <2>3 DEF EmptyInv
  <2> QED BY <1>0, <2>1, <2>3 DEF EmptyInv
<1>5. ASSUME NEW p \in Processes, Advances(p) PROVE EmptyInv'
  <2>1. services' = services /\ write' = write
    BY <1>5 DEF Advances, catalog
  <2>2. /\ \A q \in Processes : tx'[q].done = IF q = p THEN tx[p].done + 1 ELSE tx[q].done
        /\ tx[p].done = 1 =>
              /\ \A k \in FileServices : services[k] = NoService
              /\ \A w \in Writers : write[w] # NoWrite => write[w].row \notin {"services"} \X FileServices
              /\ FileServices # {} => \A q \in Processes \ {p} : tx[q].done < 2
        /\ tx[p].done \in 0 .. 4
    BY <1>5, AdvanceMeans
  <2>3. \A q \in Processes : tx[q].done \in 0 .. 5
    BY DoneMeans
  <2>4. ASSUME NEW q \in Processes, tx'[q].done >= 2
        PROVE  tx[q].done >= 2 \/ (q = p /\ tx[p].done = 1)
    BY <2>2, <2>4
  <2>5. ASSUME NEW q \in Processes, tx'[q].done >= 2, NEW k \in FileServices
        PROVE  /\ services'[k] = NoService
               /\ \A w \in Writers : write'[w] # NoWrite => write'[w].row # <<"services", k>>
    <3>1. <<"services", k>> \in {"services"} \X FileServices
      OBVIOUS
    <3> QED BY <2>1, <2>2, <2>4, <2>5, <3>1 DEF EmptyInv
  <2>6. ASSUME NEW q \in Processes, NEW r \in Processes,
               tx'[q].done >= 2, tx'[r].done >= 2, FileServices # {}
        PROVE  q = r
    BY <2>2, <2>3, <2>4, <2>6 DEF EmptyInv
  <2> QED BY <1>0, <2>5, <2>6 DEF EmptyInv
<1>6. ASSUME NEW p \in Processes, CommitImport(p) PROVE EmptyInv'
  <2>1. /\ tx[p].done = 5
        /\ \A q \in Processes : tx'[q].done = IF q = p THEN 0 ELSE tx[q].done
    BY <1>6, CommitMeans
  <2>2. ASSUME NEW q \in Processes, tx'[q].done >= 2
        PROVE  q # p /\ tx[q].done >= 2 /\ FileServices = {}
    <3>1. q # p /\ tx[q].done >= 2
      BY <2>1, <2>2
    <3> QED BY <2>1, <3>1 DEF EmptyInv
  <2> QED BY <1>0, <2>2 DEF EmptyInv
<1> QED BY <1>2, <1>3, <1>4, <1>5, <1>6, StepEffect DEF Effect

Started == {"seeding", "publishing", "creating", "updating", "serving"}

\* With the file in its place from the first start on, no process goes on before
\* the decision, so clients are served and anything is written after it.
SeededInv ==
    placed = "first" /\ ~ marked =>
        /\ \A p \in Processes : pc[p] \notin Started
        /\ \A n \in Namespaces : namespaces[n] # "client"
        /\ \A w \in Writers : write[w] = NoWrite

(* A step that brings a process past the import follows the decision, or finds *)
(* no file; or it commits the process' own write.                              *)
LEMMA StartEffect ==
    ASSUME TypeOK, [Next]_vars
    PROVE  /\ placed' = placed \/ (placed = "absent" /\ placed' = "late")
           /\ \A q \in Processes : pc'[q] \in Started =>
                 pc[q] \in Started \/ marked' \/ placed = "absent" \/ write[q] # NoWrite
           /\ marked => marked'
<1> DEFINE Goal ==
      /\ placed' = placed \/ (placed = "absent" /\ placed' = "late")
      /\ \A q \in Processes : pc'[q] \in Started =>
                 pc[q] \in Started \/ marked' \/ placed = "absent" \/ write[q] # NoWrite
      /\ marked => marked'
<1>0. pc \in [Processes -> Steps]
  BY TypeParts
<1>1. ASSUME NEW p \in Processes, Open(p) \/ Die(p) PROVE Goal
  BY <1>0, <1>1 DEF Open, Die, Exit, Goto, Started, old, catalog
<1>2. ASSUME NEW p \in Processes, MigrateColumn(p) PROVE Goal
  BY <1>0, <1>2 DEF MigrateColumn, Exit, Goto, Started, old, catalog
<1>3. ASSUME NEW p \in Processes, Migrated(p) \/ CountServices(p) \/ CountChanges(p) \/ DeleteSeeds(p)
      PROVE  Goal
  BY <1>0, <1>3 DEF Migrated, CountServices, CountChanges, DeleteSeeds, Goto, Started, old, catalog
<1>4. ASSUME NEW p \in Processes, SkipImport(p) PROVE Goal
  BY <1>0, <1>4 DEF SkipImport, Goto, Started, old, catalog
<1>5. ASSUME NEW p \in Processes, MarkSkipped(p) PROVE Goal
  BY <1>0, <1>5 DEF MarkSkipped, Goto, Started, old
<1>6. ASSUME NEW p \in Processes, CopyNext(p) PROVE Goal
  <2>1. Exit(p) \/ pc' = pc
    BY <1>6 DEF CopyNext
  <2> QED BY <1>0, <1>6, <2>1 DEF CopyNext, Exit, Goto, Started, old, catalog
<1>7. ASSUME NEW p \in Processes, CommitImport(p) PROVE Goal
  BY <1>0, <1>7 DEF CommitImport, Goto, Started, old
<1>8. ASSUME NEW p \in Processes, EnsureNamespace(p) PROVE Goal
  BY <1>0, <1>8 DEF EnsureNamespace, Goto, Started, old
<1>9. ASSUME NEW p \in Processes, PublishOwnContract(p) PROVE Goal
  <2>1. CASE ReadOwnContract(p)
    BY <1>0, <2>1 DEF ReadOwnContract, Goto, Started, old, catalog
  <2>2. CASE WriteOwnContract(p)
    BY <2>2 DEF WriteOwnContract, Draw, old, catalog
  <2>3. CASE OwnContractFails(p)
    BY <1>0, <2>3 DEF OwnContractFails, Exit, Goto, Started, old, catalog
  <2>4. CASE RecordChange(p) /\ UNCHANGED pc
    BY <2>4 DEF RecordChange, old, catalog
  <2>5. CASE Commit(p) /\ Goto(p, "serving")
    <3>1. write[p] # NoWrite
      BY <2>5, StepMeans DEF Commit
    <3> QED BY <1>0, <2>5, <3>1 DEF Commit, Wrote, Goto, Started, old
  <2> QED BY <1>9, <2>1, <2>2, <2>3, <2>4, <2>5 DEF PublishOwnContract
<1>10. ASSUME NEW w \in Clients, ClientWrite(w) \/ FinishWrite(w) PROVE Goal
  <2>1. pc' = pc
    BY <1>10 DEF ClientWrite, FinishWrite
  <2>2. CASE ClientWrite(w)
    <3>1. UNCHANGED <<old, catalog>>
      BY <2>2 DEF ClientWrite, Draw
    <3> QED BY <2>1, <3>1 DEF old, catalog
  <2>3. CASE RecordChange(w) \/ Commit(w) \/ Rollback(w)
    <3>1. UNCHANGED <<placed, marked>>
      BY <2>3 DEF RecordChange, Commit, Wrote, Rollback, old, catalog
    <3> QED BY <2>1, <3>1
  <2> QED BY <1>10, <2>2, <2>3 DEF FinishWrite
<1>11. ASSUME Prune \/ PlaceFile \/ UNCHANGED vars PROVE Goal
  <2>1. UNCHANGED <<pc, marked>>
    BY <1>11 DEF Prune, PlaceFile, vars, catalog
  <2>2. placed' = placed \/ (placed = "absent" /\ placed' = "late")
    BY <1>11 DEF Prune, PlaceFile, vars, old
  <2> QED BY <2>1, <2>2
<1> QED BY <1>1, <1>2, <1>3, <1>4, <1>5, <1>6, <1>7, <1>8, <1>9, <1>10, <1>11 DEF Next, Start

LEMMA SeededStep == TypeOK /\ SeededInv /\ [Next]_vars => SeededInv'
<1> SUFFICES ASSUME TypeOK, SeededInv, [Next]_vars, placed' = "first", ~ marked'
             PROVE  /\ \A p \in Processes : pc'[p] \notin Started
                    /\ \A n \in Namespaces : namespaces'[n] # "client"
                    /\ \A w \in Writers : write'[w] = NoWrite
  BY DEF SeededInv
<1>1. placed = "first" /\ ~ marked
  BY StartEffect
<1>2. /\ \A p \in Processes : pc[p] \notin Started
      /\ \A n \in Namespaces : namespaces[n] # "client"
      /\ \A w \in Writers : write[w] = NoWrite
  BY <1>1 DEF SeededInv
<1>3. \A p \in Processes : pc'[p] \notin Started
  BY <1>1, <1>2, StartEffect, TypeParts
<1>4. ASSUME UNCHANGED namespaces, Keeps
      PROVE  /\ \A n \in Namespaces : namespaces'[n] # "client"
             /\ \A w \in Writers : write'[w] = NoWrite
  BY <1>2, <1>4 DEF Keeps
<1>5. CASE Quiet \/ Marks \/ Prune \/ \E p \in Processes : Advances(p)
  <2>1. UNCHANGED namespaces /\ Keeps
    BY <1>5 DEF Quiet, catalog, Marks, Prune, Advances, Keeps
  <2> QED BY <1>3, <1>4, <2>1
<1>6. CASE Seeds
  BY <1>2, <1>3, <1>6 DEF Seeds, TypeOK
<1>7. ASSUME NEW p \in Processes, CommitImport(p) PROVE FALSE
  BY <1>7 DEF CommitImport
<1>8. ASSUME NEW w \in Writers, Begins(w) \/ Commit(w) PROVE FALSE
  <2>1. ~ Begins(w)
    BY <1>2 DEF Begins, Serving, Started
  <2>2. ~ Commit(w)
    BY <1>2, StepMeans DEF Commit
  <2> QED BY <1>8, <2>1, <2>2
<1> QED BY <1>5, <1>6, <1>7, <1>8, StepEffect DEF Effect

(* An import replaces no service, drops no change, and deletes no namespace of *)
(* a client when the file was there from the first start on                    *)
(* (ImportLegacySQLite).                                                       *)
THEOREM ImportsReplaceNothing == Spec => ImportReplacesNothing
<1>1. Init => EmptyInv /\ SeededInv
  <2> SUFFICES ASSUME Init PROVE EmptyInv /\ SeededInv
    OBVIOUS
  <2>1. \A p \in Processes : tx[p] = NoTx /\ pc[p] = "down"
    BY DEF Init
  <2>2. NoTx.done = 0
    BY DEF NoTx
  <2>3. \A n \in Namespaces : namespaces[n] = ""
    BY DEF Init
  <2>4. \A p \in Processes : ~ (tx[p].done >= 2)
    BY <2>1, <2>2
  <2>5. EmptyInv
    BY <2>4 DEF EmptyInv
  <2>6. SeededInv
    BY <2>1, <2>3 DEF SeededInv, Started, Init
  <2> QED BY <2>5, <2>6
<1>2. TypeOK /\ DecisionInv /\ EmptyInv /\ SeededInv /\ [Next]_vars =>
        [imports' > imports =>
            /\ \A k \in Services : services[k] # NoService => services'[k] = services[k]
            /\ changes \subseteq changes'
            /\ \A n \in Namespaces : placed = "first" /\ namespaces[n] = "client" => namespaces'[n] = "client"]_vars
  <2> SUFFICES ASSUME TypeOK, DecisionInv, EmptyInv, SeededInv, [Next]_vars, imports' > imports
      PROVE /\ \A k \in Services : services[k] # NoService => services'[k] = services[k]
            /\ changes \subseteq changes'
            /\ \A n \in Namespaces : placed = "first" /\ namespaces[n] = "client" => namespaces'[n] = "client"
    OBVIOUS
  <2>1. imports' # imports
    BY TypeParts
  <2>2. PICK p \in Processes : CommitImport(p)
    BY <2>1, StepEffect, QuietMeans DEF Effect, Other, Marks, Advances, catalog
  <2>3. tx[p].done = 5 /\ changes' = changes \union FileLog
    BY <2>2, CommitMeans
  <2>4. ~ marked /\ \A k \in FileServices : services[k] = NoService
    BY <2>3 DEF DecisionInv, EmptyInv
  <2>5. placed = "first" => \A n \in Namespaces : namespaces[n] # "client"
    BY <2>4 DEF SeededInv
  <2>6. \A k \in Services : k \notin FileServices => services'[k] = services[k]
    BY <2>2 DEF CommitImport, Imported
  <2> QED BY <2>3, <2>4, <2>5, <2>6
<1> QED BY <1>1, <1>2, EmptyStep, SeededStep, Decided, PTL DEF Spec, ImportReplacesNothing

-----------------------------------------------------------------------------
(* Revisions *)

\* Once an import has set the sequence it stays past the file's log; and with the
\* file there from the first start on, so is every write begun after the import.
ContinuedInv ==
    /\ \A p \in Processes : tx[p].done >= 4 => FileLog = {} \/ file.top <= seq
    /\ placed = "first" /\ imports > 0 /\ FileLog # {} =>
         /\ file.top <= seq
         /\ \A w \in Writers : write[w] # NoWrite => write[w].revision > file.top

LEMMA ContinuedStep ==
    TypeOK /\ LogEnds /\ DecisionInv /\ SeededInv /\ ContinuedInv /\ [Next]_vars => ContinuedInv'
<1> SUFFICES ASSUME TypeOK, LogEnds, DecisionInv, SeededInv, ContinuedInv, [Next]_vars
             PROVE  ContinuedInv'
  OBVIOUS
<1>0. /\ file' = file /\ FileLog' = FileLog
      /\ placed' = "first" => placed = "first"
      /\ file.top \in Nat /\ seq \in Nat
  BY StepEffect, StartEffect, FileType, TypeParts DEF FileLog
<1>1. ASSUME Shrinks, Keeps, UNCHANGED <<seq, imports>> PROVE ContinuedInv'
  <2>1. \A p \in Processes : tx'[p].done >= 4 => tx[p].done >= 4
    BY <1>1 DEF Shrinks
  <2>2. \A w \in Writers : write'[w] # NoWrite =>
           write[w] # NoWrite /\ write'[w].revision = write[w].revision
    BY <1>1 DEF Keeps
  <2> QED BY <1>0, <1>1, <2>1, <2>2 DEF ContinuedInv
<1>2. CASE Quiet \/ Seeds \/ Prune \/ Marks
  <2>1. Shrinks /\ Keeps /\ UNCHANGED <<seq, imports>>
    BY <1>2 DEF Quiet, catalog, Seeds, Prune, Marks, Shrinks, Keeps
  <2> QED BY <1>1, <2>1
<1>3. ASSUME NEW w \in Writers, Begins(w) PROVE ContinuedInv'
  <2>1. /\ tx' = tx /\ imports' = imports /\ seq' = seq + 1
        /\ \A u \in Writers : IF u = w THEN write'[u].revision = seq + 1 ELSE write'[u] = write[u]
    BY <1>3, TypeParts DEF Begins, Draw, catalog
  <2>2. \A u \in Writers : write[u] # NoWrite => write[u].revision \in Nat
    BY WriteMeans
  <2> QED BY <1>0, <2>1, <2>2 DEF ContinuedInv
<1>4. ASSUME NEW w \in Writers, Commit(w) PROVE ContinuedInv'
  <2>1. /\ tx' = tx /\ imports' = imports /\ seq' = seq
        /\ \A u \in Writers : write'[u] = IF u = w THEN NoWrite ELSE write[u]
    BY <1>4, TypeParts DEF Commit, Wrote
  <2>2. Shrinks /\ Keeps
    BY <2>1 DEF Shrinks, Keeps
  <2> QED BY <1>1, <2>1, <2>2
<1>5. ASSUME NEW p \in Processes, Advances(p) PROVE ContinuedInv'
  <2>1. /\ tx[p].done \in 0 .. 4
        /\ \A q \in Processes : tx'[q].done = IF q = p THEN tx[p].done + 1 ELSE tx[q].done
        /\ tx[p].done = 3 => seq' = ResetSequence(changes \union FileLog)
        /\ tx[p].done # 3 => seq' = seq
    BY <1>5, AdvanceMeans
  <2>2. imports' = imports /\ write' = write
    BY <1>5 DEF Advances, catalog
  <2>3. CASE tx[p].done = 3
    <3>1. FileLog = {} \/ file.top <= seq'
      BY <2>1, <2>3, ResetMeans
    <3> QED BY <1>0, <2>2, <3>1 DEF ContinuedInv
  <2>4. CASE tx[p].done # 3
    <3>1. seq' = seq /\ \A q \in Processes : tx'[q].done >= 4 => tx[q].done >= 4
      BY <2>1, <2>4
    <3> QED BY <1>0, <2>2, <3>1 DEF ContinuedInv
  <2> QED BY <2>3, <2>4
<1>6. ASSUME NEW p \in Processes, CommitImport(p) PROVE ContinuedInv'
  <2>1. /\ tx[p].done = 5 /\ seq' = seq /\ write' = write
        /\ \A q \in Processes : tx'[q].done = IF q = p THEN 0 ELSE tx[q].done
    BY <1>6, CommitMeans DEF CommitImport
  <2>2. FileLog = {} \/ file.top <= seq
    BY <2>1 DEF ContinuedInv
  <2>3. ~ marked
    BY <2>1 DEF DecisionInv
  <2>4. placed = "first" => \A w \in Writers : write[w] = NoWrite
    BY <2>3 DEF SeededInv
  <2>5. \A q \in Processes : tx'[q].done >= 4 => tx[q].done >= 4
    BY <2>1
  <2> QED BY <1>0, <2>1, <2>2, <2>4, <2>5 DEF ContinuedInv
<1> QED BY <1>2, <1>3, <1>4, <1>5, <1>6, StepEffect DEF Effect

(* With the file there from the first start on and changes in its log, nothing *)
(* is later put into the log at or below its last change, though each import   *)
(* sets the sequence and writes draw their revisions before they commit        *)
(* (resetChangesSequence, Store.write).                                        *)
THEOREM TheLogIsContinued == Spec => LogIsContinued
<1>1. Init => SeededInv /\ ContinuedInv
  <2> SUFFICES ASSUME Init PROVE SeededInv /\ ContinuedInv
    OBVIOUS
  <2>1. \A p \in Processes : tx[p].done = 0
    <3>1. NoTx.done = 0 /\ \A p \in Processes : tx[p] = NoTx
      BY DEF Init, NoTx
    <3> QED BY <3>1
  <2>2. \A p \in Processes : ~ (tx[p].done >= 4)
    BY <2>1
  <2>3. ContinuedInv
    <3>1. imports = 0
      BY DEF Init
    <3> QED BY <2>2, <3>1 DEF ContinuedInv
  <2> QED BY <2>3 DEF SeededInv, Started, Init
<1>2. TypeOK /\ ContinuedInv /\ [Next]_vars =>
        [placed = "first" /\ imports > 0 /\ imports' = imports /\ FileLog # {} =>
            \A r \in changes' \ changes : r > file.top]_vars
  <2> SUFFICES ASSUME TypeOK, ContinuedInv, [Next]_vars,
                      placed = "first", imports > 0, imports' = imports, FileLog # {},
                      NEW r \in changes' \ changes
      PROVE r > file.top
    OBVIOUS
  <2>1. ASSUME NEW w \in Writers, Commit(w) PROVE r > file.top
    <3>1. write[w] # NoWrite /\ changes' = changes \union {write[w].revision}
      BY <2>1, StepMeans DEF Commit, Wrote
    <3> QED BY <3>1 DEF ContinuedInv
  <2>2. ASSUME NEW p \in Processes, CommitImport(p) PROVE FALSE
    <3>1. imports' = imports + 1 /\ imports \in Nat
      BY <2>2, CommitMeans, TypeParts
    <3> QED BY <3>1
  <2>3. ASSUME changes' \subseteq changes PROVE FALSE
    BY <2>3
  <2> QED BY <2>1, <2>2, <2>3, StepEffect
          DEF Effect, Quiet, Marks, Seeds, Advances, Begins, Draw, Prune, catalog
<1> QED BY <1>1, <1>2, ContinuedStep, SeededStep, Typed, Decided, PTL DEF Spec, LogIsContinued

=============================================================================
