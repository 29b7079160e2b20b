------------------------------- MODULE Startup --------------------------------
(***************************************************************************)
(* Starting on PostgreSQL (cmd/registryd/main.go): the tables get their    *)
(* missing columns, the old SQLite file is imported once                   *)
(* (store/sqlite_import.go), the default namespace and the registry's own  *)
(* contract are written, and the process serves.                           *)
(*                                                                         *)
(* Several processes may start on one database while others serve, and     *)
(* each may die anywhere.  The file may come after the first start.  All   *)
(* statements up to the import's transaction stand alone; inside it, and   *)
(* inside a write's, they see what others have committed (READ COMMITTED), *)
(* and a row another transaction has written and not committed makes them  *)
(* wait.  A write takes its row, draws its revision, puts its change into  *)
(* the log and commits, in this order and with others in between.          *)
(***************************************************************************)
EXTENDS Integers, Sequences, FiniteSetsExt

CONSTANTS
    Processes,
    Clients,        \* requests that write, to processes that serve
    Namespaces,
    Default,        \* REGISTRY_DEFAULT_NS
    Services,       \* rows of services; endpoints, instances and MCP servers go alike
    Own,            \* the registry's own contract
    Columns,        \* columns that later versions added, as 1 .. n in order
    Files,          \* what the old file may hold: [namespaces, services, pruned, top]
    MaxRevision     \* bound: clients write while the sequence is below it, and a
                    \* process dies in a write of its own while it is not past it

ASSUME NameAssumption == Default \in Namespaces /\ Own \in Services
ASSUME WriterAssumption == Processes \intersect Clients = {}
ASSUME ColumnAssumption == Columns \in Nat
\* The file was written by this program: rows carry revisions it drew, its log
\* is a range of them, and was perhaps pruned to nothing.
ASSUME FileAssumption ==
    \A f \in Files :
        /\ f.namespaces \subseteq Namespaces
        /\ f.top \in Nat /\ f.pruned \in 0 .. f.top
        /\ f.services \in [Services -> 0 .. f.top]

VARIABLES
    file,       \* what the old file holds
    placed,     \* whether it is at REGISTRY_DB_PATH: "first" from the start, "absent", "late"
    columns,    \* how many of the columns the tables have
    namespaces, \* who wrote each row of namespaces, "" when there is none
    services,   \* who wrote each row of services and its revision
    changes,    \* revisions in the log
    seq,        \* last revision the sequence gave
    marked,     \* meta.sqlite_imported_v1 is there
    imports,    \* history: imports committed
    refused,    \* history: a start found the database in use and passed the file over
    pc,         \* where each process is
    cached,     \* the columns it found
    tx,         \* its import transaction
    write       \* the open write of each request, and of each start

catalog == <<namespaces, services, changes, marked, imports, refused>>
old == <<file, placed>>
vars == <<old, columns, catalog, seq, pc, cached, tx, write>>

Writers == Clients \union Processes

NoService == [by |-> "", revision |-> 0]
FileLog == file.pruned + 1 .. file.top
FileServices == {k \in Services : file.services[k] > 0}

\* The statements of the import after the DELETE.
Import == <<"namespaces", "services", "changes", "sequence", "meta">>

\* The namespaces a transaction has deleted, and how many statements are done.
Transaction == [deleted : SUBSET Namespaces, done : 0 .. Len(Import)]
NoTx == [deleted |-> {}, done |-> 0]

\* A write holds its row, and has drawn its revision or put it into the log too.
Rows == {"namespaces"} \X Namespaces \union {"services"} \X Services
NoWrite == [step |-> "none"]
Write == [step : {"drawn", "inserted"}, row : Rows, op : {"put", "update", "delete"}, revision : Nat \ {0}]

Steps == {"down", "migrating", "import", "counting", "deleting", "copying", "seeding",
          "publishing", "creating", "updating", "serving"}

TypeOK ==
    /\ file \in Files
    /\ placed \in {"first", "absent", "late"}
    /\ columns \in 0 .. Columns
    /\ namespaces \in [Namespaces -> {"", "seed", "client", "file"}]
    /\ services \in [Services -> {NoService} \union [by : {"own", "client", "file"}, revision : Nat \ {0}]]
    /\ changes \subseteq Nat \ {0}
    /\ seq \in Nat
    /\ marked \in BOOLEAN
    /\ imports \in Nat
    /\ refused \in BOOLEAN
    /\ pc \in [Processes -> Steps]
    /\ cached \in [Processes -> 0 .. Columns]
    /\ tx \in [Processes -> Transaction]
    /\ write \in [Writers -> {NoWrite} \union Write]

\* A database that is new, or has tables of an older version.
Init ==
    /\ file \in Files
    /\ placed \in {"first", "absent"}
    /\ columns \in {0, Columns}
    /\ namespaces = [n \in Namespaces |-> ""]
    /\ services = [k \in Services |-> NoService]
    /\ changes = {} /\ seq = 0 /\ marked = FALSE /\ imports = 0 /\ refused = FALSE
    /\ pc = [p \in Processes |-> "down"]
    /\ cached = [p \in Processes |-> 0]
    /\ tx = [p \in Processes |-> NoTx]
    /\ write = [w \in Writers |-> NoWrite]

Goto(p, step) == pc' = [pc EXCEPT ![p] = step]

\* os.Exit, or the process dies: the database rolls its transaction back.
Exit(p) ==
    /\ Goto(p, "down")
    /\ tx' = [tx EXCEPT ![p] = NoTx]
    /\ write' = [write EXCEPT ![p] = NoWrite]

-----------------------------------------------------------------------------
(* Opening the database *)

\* CREATE TABLE IF NOT EXISTS leaves an old table as it is; then its columns are
\* read.
Open(p) ==
    /\ pc[p] = "down"
    /\ cached' = [cached EXCEPT ![p] = columns]
    /\ Goto(p, "migrating")
    /\ UNCHANGED <<old, columns, catalog, seq, tx, write>>

\* The next ALTER TABLE, which fails when another process has been here.
MigrateColumn(p) ==
    /\ pc[p] = "migrating" /\ cached[p] < Columns
    /\ IF cached[p] < columns
       THEN Exit(p) /\ UNCHANGED <<columns, cached>>
       ELSE /\ columns' = columns + 1
            /\ cached' = [cached EXCEPT ![p] = @ + 1]
            /\ UNCHANGED <<pc, tx, write>>
    /\ UNCHANGED <<old, catalog, seq>>

Migrated(p) ==
    /\ pc[p] = "migrating" /\ cached[p] = Columns
    /\ Goto(p, "import")
    /\ UNCHANGED <<old, columns, catalog, seq, cached, tx, write>>

-----------------------------------------------------------------------------
(* The import *)

\* Marked already, or no file: nothing to do, and nothing is marked.
SkipImport(p) ==
    /\ pc[p] = "import"
    /\ marked \/ placed = "absent"
    /\ Goto(p, "seeding")
    /\ UNCHANGED <<old, columns, catalog, seq, cached, tx, write>>

\* postgresCatalogNonEmpty counts the data tables first, and the log last.
CountServices(p) ==
    /\ pc[p] = "import"
    /\ ~ marked /\ placed # "absent"
    /\ \A k \in Services : services[k] = NoService
    /\ Goto(p, "counting")
    /\ UNCHANGED <<old, columns, catalog, seq, cached, tx, write>>

CountChanges(p) ==
    /\ pc[p] = "counting"
    /\ changes = {}
    /\ Goto(p, "deleting")
    /\ UNCHANGED <<old, columns, catalog, seq, cached, tx, write>>

\* The database is in use.
NonEmpty(p) ==
    \/ pc[p] = "import" /\ ~ marked /\ placed # "absent" /\ \E k \in Services : services[k] # NoService
    \/ pc[p] = "counting" /\ changes # {}

\* The statement has run in the open transaction of q.
Done(q, statement) == \E k \in 1 .. tx[q].done : Import[k] = statement

\* A start that goes on without noting that the file is not wanted any more.
PassOver(p) ==
    /\ NonEmpty(p)
    /\ refused' = TRUE
    /\ Goto(p, "seeding")
    /\ UNCHANGED <<old, columns, namespaces, services, changes, marked, imports, seq, cached, tx, write>>

\* The file is older than the database, and is never imported.
MarkSkipped(p) ==
    /\ NonEmpty(p)
    /\ ~ \E q \in Processes : Done(q, "meta")
    /\ marked' = TRUE
    /\ refused' = TRUE
    /\ Goto(p, "seeding")
    /\ UNCHANGED <<old, columns, namespaces, services, changes, imports, seq, cached, tx, write>>

Present == {n \in Namespaces : namespaces[n] # ""}

\* DELETE FROM namespaces, which waits for rows another transaction deletes.
DeleteSeeds(p) ==
    /\ pc[p] = "deleting"
    /\ \A q \in Processes \ {p} : tx[q].deleted \intersect Present = {}
    /\ tx' = [tx EXCEPT ![p].deleted = Present]
    /\ Goto(p, "copying")
    /\ UNCHANGED <<old, columns, catalog, seq, cached, write>>

\* INSERT ... ON CONFLICT DO UPDATE: nothing is in the way.
NeverTaken(p, statement) == FALSE

\* A row with the key of one the statement inserts is there already.
Taken(p, statement) ==
    \/ statement = "namespaces" /\ file.namespaces \intersect (Present \ tx[p].deleted) # {}
    \/ statement = "services" /\ \E k \in FileServices : services[k] # NoService
    \/ statement = "changes" /\ changes \intersect FileLog # {}
    \/ statement = "meta" /\ marked

\* Another transaction holds such a row, or has inserted it, and is open.
MustWait(p, statement) ==
    \/ /\ \E q \in Processes \ {p} : Done(q, statement)
       /\ \/ statement = "namespaces" /\ file.namespaces # {}
          \/ statement = "services" /\ FileServices # {}
          \/ statement = "changes" /\ FileLog # {}
          \/ statement = "meta"
    \/ \E w \in Writers : write[w] # NoWrite /\
          \/ statement = "namespaces" /\ write[w].row \in {"namespaces"} \X file.namespaces
          \/ statement = "services" /\ write[w].row \in {"services"} \X FileServices
          \/ statement = "changes" /\ write[w].step = "inserted" /\ write[w].revision \in FileLog

\* A sequence left where it was.
ResetNothing(log) == seq

\* setval(MAX(revision)) of the log as it will be, if it holds anything: of what
\* is committed and what the transaction has inserted, not of what others have
\* drawn.  It works at once and stays when the transaction is rolled back.
ResetSequence(log) == IF log = {} THEN seq ELSE Max(log)

\* A failed statement that is tried again and again.
CopyNextAgain(p) ==
    /\ pc[p] = "copying" /\ tx[p].done < Len(Import)
    /\ LET statement == Import[tx[p].done + 1] IN
       /\ ~ MustWait(p, statement)
       /\ IF Taken(p, statement)
          THEN UNCHANGED <<pc, tx, seq, write>>
          ELSE /\ tx' = [tx EXCEPT ![p].done = @ + 1]
               /\ seq' = IF statement = "sequence" THEN ResetSequence(changes \union FileLog) ELSE seq
               /\ UNCHANGED <<pc, write>>
    /\ UNCHANGED <<old, columns, catalog, cached>>

\* The next statement; when it violates a key the start fails.
CopyNext(p) ==
    /\ pc[p] = "copying" /\ tx[p].done < Len(Import)
    /\ LET statement == Import[tx[p].done + 1] IN
       /\ ~ MustWait(p, statement)
       /\ IF Taken(p, statement)
          THEN Exit(p) /\ UNCHANGED seq
          ELSE /\ tx' = [tx EXCEPT ![p].done = @ + 1]
               /\ seq' = IF statement = "sequence" THEN ResetSequence(changes \union FileLog) ELSE seq
               /\ UNCHANGED <<pc, write>>
    /\ UNCHANGED <<old, columns, catalog, cached>>

\* What is committed of the transaction.
Imported(p) ==
    /\ namespaces' = [n \in Namespaces |->
            IF n \in file.namespaces THEN "file"
            ELSE IF n \in tx[p].deleted THEN "" ELSE namespaces[n]]
    /\ services' = [k \in Services |->
            IF k \in FileServices THEN [by |-> "file", revision |-> file.services[k]] ELSE services[k]]
    /\ changes' = changes \union FileLog
    /\ imports' = imports + 1
    /\ UNCHANGED refused

\* The marker is left to a statement after the commit, which a crash prevents.
CommitUnmarked(p) ==
    /\ pc[p] = "copying" /\ tx[p].done = Len(Import)
    /\ Imported(p)
    /\ marked' \in BOOLEAN
    /\ tx' = [tx EXCEPT ![p] = NoTx]
    /\ Goto(p, "seeding")
    /\ UNCHANGED <<old, columns, seq, cached, write>>

CommitImport(p) ==
    /\ pc[p] = "copying" /\ tx[p].done = Len(Import)
    /\ Imported(p)
    /\ marked' = TRUE
    /\ tx' = [tx EXCEPT ![p] = NoTx]
    /\ Goto(p, "seeding")
    /\ UNCHANGED <<old, columns, seq, cached, write>>

-----------------------------------------------------------------------------
(* A write: Store.write, recordChange *)

\* An open import, or another open write, holds the row.
NamespaceHeld(n) ==
    \/ \E q \in Processes : n \in tx[q].deleted \/ (Done(q, "namespaces") /\ n \in file.namespaces)
    \/ \E w \in Writers : write[w] # NoWrite /\ write[w].row = <<"namespaces", n>>
ServiceHeld(k) ==
    \/ k \in FileServices /\ \E q \in Processes : Done(q, "services")
    \/ \E w \in Writers : write[w] # NoWrite /\ write[w].row = <<"services", k>>

\* An open import, or another open write, has put the revision of w into the log.
RevisionHeld(w) ==
    \/ write[w].revision \in FileLog /\ \E q \in Processes : Done(q, "changes")
    \/ \E u \in Writers \ {w} : write[u].step = "inserted" /\ write[u].revision = write[w].revision

\* The row's own statement, and the revision the INSERT into changes draws, which
\* stays drawn when the write fails.
Draw(w, row, op) ==
    /\ write[w] = NoWrite
    /\ seq' = seq + 1
    /\ write' = [write EXCEPT ![w] = [step |-> "drawn", row |-> row, op |-> op, revision |-> seq + 1]]
    /\ UNCHANGED <<old, columns, catalog, cached, tx>>

\* The INSERT goes through.
RecordChange(w) ==
    /\ write[w].step = "drawn"
    /\ ~ RevisionHeld(w)
    /\ write[w].revision \notin changes
    /\ write' = [write EXCEPT ![w].step = "inserted"]
    /\ UNCHANGED <<old, columns, catalog, seq, cached, tx>>

\* The revision is in the log already: the write fails.
Collides(w) ==
    /\ write[w].step = "drawn"
    /\ ~ RevisionHeld(w)
    /\ write[w].revision \in changes

\* The row w leaves behind; an UPDATE of no row makes none.
Written(w, k, revision) ==
    IF write[w].op = "delete" \/ (write[w].op = "update" /\ services[k] = NoService) THEN NoService
    ELSE [by |-> IF w \in Clients THEN "client" ELSE "own", revision |-> revision]

\* What is committed of the write, its row with the given revision.
Wrote(w, revision) ==
    /\ \/ \E n \in Namespaces :
             /\ write[w].row = <<"namespaces", n>>
             /\ namespaces' = [namespaces EXCEPT ![n] = "client"]
             /\ UNCHANGED services
       \/ \E k \in Services :
             /\ write[w].row = <<"services", k>>
             /\ services' = [services EXCEPT ![k] = Written(w, k, revision)]
             /\ UNCHANGED namespaces
    /\ changes' = changes \union {write[w].revision}
    /\ write' = [write EXCEPT ![w] = NoWrite]
    /\ UNCHANGED <<old, columns, marked, imports, refused, seq, cached, tx>>

\* The row keeps the 0 it is inserted with.
CommitUnstamped(w) ==
    /\ write[w].step = "inserted"
    /\ Wrote(w, 0)

Commit(w) ==
    /\ write[w].step = "inserted"
    /\ Wrote(w, write[w].revision)

-----------------------------------------------------------------------------
(* Seeding, and serving *)

EnsureNamespace(p) ==
    /\ pc[p] = "seeding"
    /\ ~ NamespaceHeld(Default)
    /\ namespaces' = [namespaces EXCEPT ![Default] = IF @ = "" THEN "seed" ELSE @]
    /\ Goto(p, "publishing")
    /\ UNCHANGED <<old, columns, services, changes, marked, imports, refused, seq, cached, tx, write>>

\* The registry's own contract is written unless the row holds the same document.
ReadOwnContract(p) ==
    /\ pc[p] = "publishing"
    /\ \/ services[Own] # NoService /\ Goto(p, "serving")
       \/ services[Own] = NoService /\ Goto(p, "creating")
       \/ services[Own].by \in {"client", "file"} /\ Goto(p, "updating")
    /\ UNCHANGED <<old, columns, catalog, seq, cached, tx, write>>

\* By UpsertService, which looks again, or by an UPDATE, which may find no row.
WriteOwnContract(p) ==
    /\ pc[p] \in {"creating", "updating"}
    /\ ~ ServiceHeld(Own)
    /\ Draw(p, <<"services", Own>>, IF pc[p] = "creating" THEN "put" ELSE "update")
    /\ UNCHANGED pc

\* UpsertService counted no row before another's was committed; or the revision
\* is taken.
OwnContractFails(p) ==
    /\ \/ pc[p] = "creating" /\ write[p] = NoWrite /\ services[Own] # NoService
       \/ Collides(p)
    /\ Exit(p)
    /\ UNCHANGED <<old, columns, catalog, seq, cached>>

PublishOwnContract(p) ==
    \/ ReadOwnContract(p) \/ WriteOwnContract(p) \/ OwnContractFails(p)
    \/ RecordChange(p) /\ UNCHANGED pc
    \/ Commit(p) /\ Goto(p, "serving")

Die(p) ==
    /\ pc[p] # "down"
    /\ write[p] # NoWrite => seq <= MaxRevision
    /\ Exit(p)
    /\ UNCHANGED <<old, columns, catalog, seq, cached>>

\* A request to a process that serves.
Serving == \E p \in Processes : pc[p] = "serving"

ClientWrite(w) ==
    /\ Serving
    /\ seq < MaxRevision
    /\ \/ \E n \in Namespaces :
             /\ namespaces[n] = "" /\ ~ NamespaceHeld(n)
             /\ Draw(w, <<"namespaces", n>>, "put")
       \/ \E k \in Services :
             /\ ~ ServiceHeld(k)
             /\ \/ Draw(w, <<"services", k>>, "put")
                \/ services[k] # NoService /\ Draw(w, <<"services", k>>, "delete")
    /\ UNCHANGED pc

\* An error, a client that has gone, or a process that died rolls the write back.
Rollback(w) ==
    /\ write[w] # NoWrite
    /\ write' = [write EXCEPT ![w] = NoWrite]
    /\ UNCHANGED <<old, columns, catalog, seq, cached, tx>>

FinishWrite(w) ==
    /\ \/ Serving /\ (RecordChange(w) \/ Commit(w))
       \/ Rollback(w)
    /\ UNCHANGED pc

\* PruneChanges: what is older than the retention time, days at least.  A start's
\* contexts give it three minutes: while one is under way, only the file's changes
\* are that old.
Prune ==
    /\ Serving
    /\ \E r \in changes :
          /\ changes' = {c \in changes : c > r}
          /\ (\E p \in Processes : pc[p] \notin {"down", "serving"}) => r \in FileLog
    /\ UNCHANGED <<old, columns, namespaces, services, marked, imports, refused, seq, pc, cached, tx, write>>

\* The file is put where the processes look for it.
PlaceFile ==
    /\ placed = "absent"
    /\ placed' = "late"
    /\ UNCHANGED <<file, columns, catalog, seq, pc, cached, tx, write>>

Start(p) ==
    \/ MigrateColumn(p) \/ Migrated(p)
    \/ SkipImport(p) \/ CountServices(p) \/ CountChanges(p) \/ MarkSkipped(p)
    \/ DeleteSeeds(p) \/ CopyNext(p) \/ CommitImport(p)
    \/ EnsureNamespace(p) \/ PublishOwnContract(p)

Next ==
    \/ \E p \in Processes : Open(p) \/ Start(p) \/ Die(p)
    \/ \E w \in Clients : ClientWrite(w) \/ FinishWrite(w)
    \/ Prune
    \/ PlaceFile

\* The database answers, or the start fails at its deadline.  It serves those that
\* wait for a row in turn, so one that waits is not passed by for ever by others
\* that come, take the row and die (SF).  A client's write that is open is
\* committed or rolled back: its handler goes on, or its connection is lost (WF).
Spec ==
    /\ Init /\ [][Next]_vars
    /\ \A p \in Processes : SF_vars(Start(p))
    /\ \A w \in Clients : WF_vars(FinishWrite(w))

-----------------------------------------------------------------------------
(* Properties *)

\* The import happens once, and never when a start has passed the file over
\* (docs/DESIGN.md, SQLite and PostgreSQL): whatever is deleted and pruned
\* afterwards, wherever a start died, and however many start at once, nothing
\* comes back from the file.
DecidedOnce == [][imports > 0 \/ refused => imports' = imports]_vars

\* Rows of the file are seen all at once and with the marker.
NothingHalfImported ==
    (\/ \E n \in Namespaces : namespaces[n] = "file"
     \/ \E k \in Services : services[k].by = "file") => marked

\* An import replaces nothing but seeded namespaces (comment of
\* ImportLegacySQLite).  A file that comes late may find the namespaces clients
\* made in the catalog between the count and the DELETE, and deletes them.
ImportReplacesNothing ==
    [][imports' > imports =>
        /\ \A k \in Services : services[k] # NoService => services'[k] = services[k]
        /\ changes \subseteq changes'
        /\ \A n \in Namespaces : placed = "first" /\ namespaces[n] = "client" => namespaces'[n] = "client"]_vars

\* With the file there from the first start on and changes in its log, writes go
\* on after them (resetChangesSequence): no change is later put into the log at or
\* below the last one of the file, whatever imports were rolled back, and in
\* whatever order writes draw, collide and commit.
LogIsContinued ==
    [][placed = "first" /\ imports > 0 /\ imports' = imports /\ FileLog # {} =>
        \A r \in changes' \ changes : r > file.top]_vars

\* Every start comes to an end, served or failed, also when two import at once.
EveryStartEnds == \A p \in Processes : pc[p] = "migrating" ~> pc[p] \in {"serving", "down"}

=============================================================================
