# TLA+ verification of service-registry

The registry stores metadata about services (namespaces, contracts, instance
addresses, MCP servers for agents) and lets other platforms pull it: a snapshot,
the changes since a revision, or a stream of changes. It does not probe or route.
What has to be right is therefore the catalog, the log of its changes, and the
promise that a consumer of the log ends up knowing what the catalog holds.

This directory holds the specifications, the TLC configurations that check them
on small instances, and proofs for every instance. Run them from here:

    tlc -config EventStream_sqlite.cfg MCEventStream.tla
    tlapm EventStreamProofs.tla

## The system and its parts

| Part | Code | State | Operations | What makes it correct | Status |
|---|---|---|---|---|---|
| Change log and write path | `internal/store/store.go`, `change.go` | table `changes`, identity counter, open transactions | `write`, `recordChange`, `Changes`, `CurrentRevision`, `PruneChanges` | revisions grow, a row is seen after its commit, readers are woken after that | `ChangeLog` |
| Wake-up hub | `internal/notify` | the current channel | `Broadcast`, `Wait` | no waiter misses a broadcast that follows its `Wait` | `ChangeLog` |
| Event stream | `internal/api/events.go` | per connection: channel, cursor | `handleEvents`, `pushSSEChanges` | nothing skipped, nothing uncommitted, everything eventually | `EventStream` |
| Long poll | `internal/api/pull.go`, `helpers.go` | per request: page, channel, deadline | `handleChanges`, `waitFor` | the client misses nothing, is answered at once when there is a change, and always in the end | `LongPoll` |
| Catalog | `internal/store/{namespace*,service*,instance*,mcp_server}.go`, `internal/api/write_*.go`, `announce.go`, `mcp_agent.go` | four tables, a revision in each row | create, update, delete, announce, PATCH, cascades, sync | no orphans, unique addresses, the log tells exactly what there is | `Catalog`, `InstanceSync` |
| Snapshot | `internal/store/search.go`, `api/pull.go` | none; the client's copy and ETag | `Snapshot`, 304 | a snapshot and the changes after its revision give the catalog; 304 means the copy is current | `Snapshot` |
| Startup | `cmd/registryd`, `own_contract.go`, `sqlite_import.go`, `migrate.go` | columns, default namespace, own contract, import marker, sequence | migrations, `ImportLegacySQLite`, `EnsureNamespace`, `PublishOwnContract` | imports once and whole, over nothing but seeds; every start ends | `Startup`; with SQLite in `Catalog` |
| Authorization | `internal/api/auth.go`, `write_namespace.go` | token hashes | `authorize`, create, rotate, clear | a write was allowed when its request came | `ServiceWrite` (writes; not `requireRead`) |
| Organization directory | `internal/orgdir`, `departments.go`, `orgs.go` | cached answer, time of the attempt, last success | `Client.Snapshot`, `resolveDepartment` | a failure degrades a write, never refuses it; a stale list never passes for the organization's answer | `OrgDirectory`, `ServiceWrite` |
| MCP gateway | `internal/mcpagg`, `mcp_gateway.go` | per request: catalog, probes, endpoints left | list, call | a tool leads to the service it was shown for; no call after an answer; no fan-out | `Gateway` |
| Endpoint search | `match.go`, `search.go`, `discovery.go` | none | exact, template, pattern; order, pages | finds who serves a call | `EndpointSearch` (partly) |
| Rest | `apispec`, `config`, `metrics`, `idgen`, `web/`, `client/`, `scripts/`, `deploy/` | | | parsing, counters, user interface, shell | not modelled |

The parts meet in three places. Every write goes through `Store.write`, which
commits and then broadcasts. The readers share nothing with the writers but the
`changes` table and the hub's channel. And handlers of writes read outside the
transaction they later run. Two parts talk to others: the directory client to the
organization, under one mutex for all requests, and the gateway to the services that
are registered, one of which may be the registry itself.

What is hard about it: a reader can run between the commit of a change, the swap
of the channel and its close; a revision is drawn before the transaction that
holds it commits; a page can be partial, a connection can break while a page is
written; the process can die anywhere; a row read by a PATCH or DELETE can be gone
or be another one when the transaction runs; a snapshot is read statement by
statement; two processes start and import at once; a department list is kept
for all requests, failures included; a remote call may have run although no answer
came. `PROJECT.json` lists these hazards
at their lines.

## Modules

**`ChangeLog`** is the write path. `tx[w]` is one call of `Store.write`: `idle`,
`open` (rows inserted, not committed), `committed`, `swapped` (the hub has a new
channel, the old one is still open). `seq` is the identity column's counter,
`changes` the committed rows, `hub` the number of the current channel. `Serialized`
chooses the database. With SQLite (`_txlock=immediate`) `BeginTx` waits for the
other write and a rollback returns the revisions it drew; with PostgreSQL
transactions overlap and IDENTITY values are never returned. `CrashLog` rolls back
open transactions, keeps committed rows and forgets broadcasts not yet made.
Queries are one step, as each is one SQL statement.

**`EventStream`** adds the SSE handlers: `TakeChannel`, `Push` (query and pushes),
then `Wake` or `Tick`, in the order of the loop of `handleEvents`. The client's
side is what it received and the cursor it counts from; it reconnects from the
last revision it was sent. `PushInterrupted` breaks the connection inside a page.
The stream's SSE `namespace` and `service` filters are the sets `NsFilter` and
`SvcFilter`; a change's `ref` is its namespace and the name after it.

**`LongPoll`** adds `handleChanges`: `Query`, `Park` (take the channel in
`waitFor`), `Wake` or `Timeout`, `Requery`, `Answer`. The client is part of the
model because the cursor is kept there: with `FollowRevision` it continues from the
response's `revision`, as the loop in the repository's README does, otherwise from the
last row it got.

**`OrderedFeed`** is what both promise: changes are published in order, each reader
is given those it asked for, in order and without a gap, directly or in two steps
(taken from the log, then arriving or lost). `EventStream` and `LongPoll` implement it under
the refinement mappings at their ends (`ImplementsFeed`).

**`Catalog`** is the tables at the level of transactions. SQLite's write
transactions exclude one another, so each is one step; what stays concurrent is
the handlers. `CheckNamespace` and `ReadInstance` are the reads outside a
transaction, kept in `req[w]`; the write that follows uses what was read. Startup is
`EnsureNamespace`, then `PublishOwnContract`, then serving; `Die` loses the requests
in flight. A row's `revision` is kept, its other columns are one `content`.
`AddressFree` is the duplicate check in the code and, in `UpdateInstance`, also the
UNIQUE index.

**`InstanceSync`** takes one write apart, `SyncInstances`, the largest: its algorithm
matches the declared items against the list made when the transaction began (`List`)
and writes them one by one to a table that changes meanwhile. Each item is a step
(`InsertItem`, `UpdateItem`, `KeepItem`, or `Refuse` when a key is violated, which
rolls back), `Finish` removes the rest. `BeginAgain` is a pipeline that runs twice.
Metadata are partial functions, as `sameMetadata` depends on which keys are there;
`Agrees` is the whole comparison of a row with an item, and what the properties mean
when they say an instance is as declared.

**`Snapshot`** composes `Catalog`, every write of it, with a reader: `Store.Snapshot`
reads the revision, then contracts, endpoints and instances, each a step, with writes
in between; `Respond` gives the copy or a 304 for the client's ETag, and the log is pruned. What the
client holds is `copy`, with the revision each part was read at. The list of namespaces in the
body is not part of it.

**`Startup`** is the start on PostgreSQL, by several processes on one database that
others write: missing columns added one by one, the import with its two counts before
the transaction, its DELETE and its copies as single statements that wait for rows
another transaction holds and see what others committed, the sequence that no rollback
takes back, the marker, then the default namespace and the own contract. A write, be it
a client's or the own contract's, is `Draw` (its row, and the revision that the INSERT
into `changes` draws), `RecordChange` (the INSERT goes through) and `Commit`, or it
fails (`Collides`, `Rollback`) and the revision stays drawn; imports, their `setval` and
other writes come in between. `ReadOwnContract` is the own contract's look at the
database outside its transaction. Any process may die at any step. The old file may be
there from the start or be placed later.

**`OrgDirectory`** is the directory's client. `Client.mu` is held over the fetch, so
`holder` is the one request that fetches; `current` is what is kept for `CacheTTL`,
success or failure, and `last` the last success, which a failure carries along. The
organization changes, stops answering and comes back. **`ServiceWrite`** extends it
with the requests: a PUT is authorized (`Authorize`), finds its namespace, asks for the
departments, resolves its own (`Resolve`) and writes, five moments between which
tokens are made, rotated and cleared and the namespace is deleted; the two reads that
use the list, with and without a forced refresh, share the cache. Three ghosts record
when the organization last denied an id (`denied`), when it was last in trouble
(`trouble`), and which departments it ever listed (`ever`).

**`Gateway`** is one request to `/mcp` after another, each with a `Gateway` of its own:
catalog, probes (at most `ProbeSlots` services at a time), then the list or the call,
endpoint by endpoint. `request[2]` is the request the registry sends itself when it is
among its own back ends under a name it does not recognize. `listed` is what the agent
was shown, `attempts` what became of the present call. `Picked` stands for the loops
that append what passes a condition, with `InOrder` for the order they keep; the
library's `SelectSeq` would say the same, but no prover can look into it.

**`EndpointSearch`** has no state. `Kind`, with `MatchesTemplate` and `MatchesGlob`, is
the matcher of `match.go`; `SearchEndpoints` orders and pages. `Serves` and `Meant` are the
reference: which stored path serves a call, and which a pattern means. `MCSnapshot`
ASSUMEs that they agree over all paths and queries of up to three segments, so TLC
evaluates it with the run `snapshot`.

`MC*` modules give the constants of the small instances. `*Proofs` modules hold theorems.

Definitions named after a slip (`BeginDeferred`, `CommitSilently`, `PingOnly`,
`RequeryOnce`, `AnyAddress`, `CommitUnmarked`, `SentUnmarked`, `CachedForever` and so
on) are variants of the definition that follows them, none of them reachable from a
specification. Each breaks one property, which shows that the property depends on
that line of code. `PROJECT.json` pairs them.

## Runs

| Run | Checks | Shows |
|---|---|---|
| `EventStream_sqlite` | `TypeOK`, `NothingSkipped`, `NoLostWakeup`, `OnlyCommittedIsPushed`, `ImplementsFeed`, `CommittedIsPushed` | holds, 158k states; with fairness, a committed change reaches whoever stays connected |
| `EventStream_postgres_overlap` | `NothingSkipped` | **fails**: finding 1 |
| `LongPoll` | `NothingMissed`, `EmptyOnlyWhenExpired`, `ImplementsFeed`, `RequestEnds` | holds, 196k states |
| `LongPoll_readme_loop` | `NothingMissed` | **fails**: finding 2 |
| `LongPoll_prompt` | `PromptAnswer` | **fails**: finding 3 |
| `Catalog` | `NoOrphanInstance`, `AddressUnique`, `RevisionIsLastChange`, `LogIsExact`, `LeftoversAreLater` | holds, 544k states |
| `InstanceSync` | `TypeOK`, `DistinctItemsAlign`, `OnlyDeclared`, `RecordsAreTheDifference`, `Repeatable` | holds, 87k states |
| `InstanceSync_same_row` | `SyncAligns` | **fails**: finding 4 |
| `Snapshot` | `SnapshotTypeOK`, `StaleIsAnnounced`, `NotModifiedIsCurrent`, and the search | holds, 974k states |
| `Startup` | `TypeOK`, `NothingHalfImported`, `DecidedOnce`, `ImportReplacesNothing`, `LogIsContinued`, `EveryStartEnds` | holds, 255k states |
| `Gateway` | `FanOutIsOneDeep`, `NoRetryAfterAnswer`, `FailureIsExhaustive`, `RoutedAsListed`, `EveryRequestEnds` | holds, 70k states |
| `ServiceWrite` | `TypeOK`, `ResolvedWasListed`, `UnknownIsRecent`, `UncheckedHasCause`, `WriteWasAllowed` | holds, 1.9M states |

Findings:

1. With PostgreSQL, the transaction that drew revision 2 can commit before the one
   that drew 1. A stream or a poll that reads in between has cursor 2 and never
   returns 1. `docs/DESIGN.md` 3.1 says no event is lost.
2. `revision` in the answer of `/v1/changes` is read after the rows and ignores
   `limit`. The loop printed in the repository's README continues from it, and
   skips what was committed in between or did not fit. Continuing from the last row
   is safe (`LongPoll`).
3. `handleChanges` queries, and `waitFor` takes the channel afterwards. A commit and
   broadcast in between are not noticed until the next write or the deadline. The
   event stream takes the channel first and does not have this gap.
4. A sync matches an item by address without asking whether another item names that
   instance. With `i1` at `a1`, declaring `i2` at `a1` and `i1` at `a2` succeeds and
   leaves `i1` at `a2` only. When every item stands for an instance of its own
   the declared set is reached (`DistinctItemsAlign`), or the sync is refused: two
   instances cannot exchange addresses, the UNIQUE index stops the first update.

### What the code does besides

The models contain these behaviours; a passing property states its exact limit where
one does.

- PATCH reads the row before its transaction and writes all columns: a field it leaves out
  is set back to what was read when another PATCH or an announcement has changed it in
  between. `InstancePatch` (`instance_query.go:13`) says such a field is not changed. No
  property speaks of it; addresses and revisions stay right (`AddressUnique`,
  `RevisionIsLastChange`).
- DELETE looks an instance up under its service before its transaction and then deletes by
  id alone. When that service was deleted meanwhile and the client registered the id in
  another one, the new row goes and the record names the old service: the log never tells
  of it, against the comment of `Changes` (`change.go:22`). `LogIsExact` makes this
  exception, and says nothing else is missing.
- The check that the namespace exists is outside the transaction too: a service or MCP
  server can be written into a namespace that has just been deleted. `LeftoversAreLater`
  says nothing else ever outlives its namespace.
- A PATCH or DELETE of an instance that is gone by then is recorded all the same. A
  deletion that cascades has one record, none for what it takes along (`TakesAway`).
- `sameMetadata` (`instance_sync.go:18`) reads a missing key as the empty string:
  `{a: ""}` equals `{b: "x"}`, and a sync that declares the second leaves the first. `DistinctItemsAlign`,
  `OnlyDeclared` and `Repeatable` therefore promise what the comparison can tell apart
  (`Agrees`). With one key, as in the run, it is exact; the proofs hold for any number.
- A log pruned to nothing has revision 0, so its ETag repeats: `NotModifiedIsCurrent`
  leaves revision 0 out. And `StaleIsAnnounced` holds until the log is pruned past the
  copy's revision; the client is not told of that.
- A pattern with a name where a stored path has a parameter (`/v1/a/*` for
  `/v1/{id}/events`) finds nothing. The query of the table is cut at 20000 rows before
  anything is matched; the comment at `search.go:113` speaks of a narrowing
  (`searchWhere`) that the code does not do.
- `setval` works at once, is not rolled back and sees what is committed by then. Two starts
  that import at once can so set the sequence below a revision that a write has drawn or
  just committed; the next write draws it again and fails on the key (`Collides`), and the
  one after that goes through; or it is given the revision again, if nobody wrote
  until the retention was over and the change was pruned.
- Besides, revisions do not "only go up" (`store.go:10`) after two kinds of files, which
  `LogIsContinued` leaves out. A file placed after the first start is still imported once catalog and log
  are empty again: with writes up to revision 3, all deleted and pruned, and a file
  whose log ends at 1, `setval` goes to 1, and 2 and 3 are given again. And a file whose
  log was pruned to nothing leaves the sequence at its start, so the first writes are
  given revisions that the imported rows, and consumers' cursors, have already.
- A file placed after the first start can delete a namespace that a client made between
  the count and the DELETE. Two processes that add the same column: one start fails,
  which `EveryStartEnds` counts as an end.
- Tool names are joined by `__`, which their parts may contain: `a`, `b__c` and
  `a__b`, `c` give one name, against "the call is forwarded to that service's own MCP"
  (`README.md:346`). `RoutedAsListed` leaves such names out.
- A tool whose answer was lost has run, and runs again at the next endpoint: the code
  retries after any error (`NoRetryAfterAnswer` speaks of answers that arrived). One
  deadline covers all endpoints of a call: when the first one hangs until then, the rest
  count as tried in `FailureIsExhaustive`. A `Gateway`
  is made anew by each request, so its cache is never used by `handleMCP`.
- An id the department list lacks is traded for the id of a department with the
  given name, while `departments.go` rule 3 and `docs/DESIGN.md:138` say 400. A client
  that leaves during its fetch turns it into a failure, which is kept for all others
  for the cache's lifetime. "A write costs one timeout more at most" (`orgdir.go:37`) does
  not hold behind forced refreshes or without a cache.

## Bounds

- Two writers: overlap, and order of commits and broadcasts, are questions about
  pairs. `MaxTxChanges = 2`: a transaction can be caught with some of its rows, and
  hold more than one page. `MaxRevision = 3` with pages of one row leaves a cursor
  with something before, at and after it; the event stream's run, which also checks
  liveness, has 2, and its proofs cover the rest. `MaxBroadcasts = 2` bounds transactions
  that commit between two restarts, a restart begins anew. A full page of
  `sseMaxBatch = 500` is a page of one.
- The subscriber `r2` asks for one service of one namespace, so rows for it, rows
  only its SQL filter drops and rows `changeMatchesService` drops all occur. One
  reader is enough: readers do not affect one another.
- Catalog: two requests with a stale read, two namespaces, one service name, two ids,
  two addresses, two contents; six changes. That allows an instance to be created,
  removed and created again with something stale in flight. `LogIsExact` makes an
  exception for an id that is registered anew in another service; with two
  namespaces that takes a seventh change, so the run shows the property without it.
- Sync: two declared items over any table of three addresses: enough for two items to
  meet in one row, and for one to take the address another leaves. Own ids are one
  more than the addresses, so an id that the database must draw can be new; one
  id belongs to another service.
- Snapshot: one writer, one service, one instance of two contents, four changes: enough
  for a service to be made, changed, removed and made again between two of four reads.
  What several stale writers do to the tables is the subject of `Catalog`.
- Startup: two processes and a client's write, two namespaces and two services, one missing
  column, and four files: with the own contract or without, with a log, a part of one or
  none, and one with a namespace alone. `MaxRevision` is 2: clients write while the sequence
  is below it, and a process dies in an open write of its own only until it is passed (a
  death there draws one more revision at each restart); the writes of starts are not
  held back. So the own contract and one write of a client fit before or after the
  import, or a write and the deletion that empties the catalog again; after the longest
  log only starts write. The proofs of all but `EveryStartEnds` hold for any bound.
- Gateway: three services, two of them with the same tool names, one with an instance
  that is the registry; six instances, one without HTTP; two requests of the agent, a
  list and a call after it.
- ServiceWrite: a PUT and a reader at a time, three lists (none, one department, that
  department renamed and another with its old name), two changes of the organization,
  `CacheTTL = Timeout = 1` tick, so an entry is young, then too old, while a fetch lasts.
- Search: all stored paths and queries of up to three segments over three names, one of
  them of one character, parameters and wildcards; tables of four paths, paged.
- Symmetric sets are permuted only in runs without liveness properties.

## Fairness

`EventStream!Fairness`: a connected handler's goroutine keeps running, so one of
its steps happens when one stays possible. Its ticker is one of these, created before
the loop and never stopped while it runs. A committed write goes on to swap and close
the channel: there is no blocking call after the commit but the hub's mutex, held
for two assignments. No fairness for clients, requests, commits or rollbacks, nor for
crashes and pruning. `CommittedIsPushed` allows for the connection ending and for
the row being pruned first. The ticker matters: with a batch that was full,
nothing else makes the handler read on (`PingOnly` breaks the property).

`LongPoll!Fairness`: the handler's steps, with the deadline's timer among them.

`Startup!Spec`: strong fairness of the steps of each start. The database answers or the
start's own deadline ends it, and PostgreSQL serves those that wait for a row in
turn, so a start is not passed by for ever by others that come, take the row and die
(with weak fairness it would be). Weak fairness of `FinishWrite`: a write a client has open
is committed or rolled back, as its handler goes on or its connection is lost. None for
deaths, new writes or the file.

`Gateway!Spec`: weak fairness of `HandlerStep`, the goroutines of the two requests; every
probe and call has a timeout. `Catalog`, `InstanceSync`, `Snapshot` and `ServiceWrite` are
about safety only; the last has too many states for a liveness run.

## Proofs

All theorems hold for all sets, filters and bounds the ASSUMEs of the modules allow, which
TLC evaluates in every run.

`EventStreamProofs`, with lemmas in `ChangeLogProofs`:

- `TypeCorrect`: `Spec => []TypeOK`.
- `WakeupIsNotLost`: `Spec => []NoLostWakeup`, in both database modes. The inductive
  invariant `WakeInv` adds that no handler holds a channel the hub is yet to make.
  So a swap leaves every channel held behind it, which is about to be closed; a
  commit leaves a writer that is about to swap; and a query leaves nothing
  behind but what its limit cut off.
- `NothingIsSkipped` and `PushedIsCommitted`, both under `Serialized`:
  `Spec => []NothingSkipped`, `Spec => []OnlyCommittedIsPushed`. Run
  `EventStream_postgres_overlap` shows the assumption is needed for the first.
- `StreamsTheFeed`, under `Serialized`: `Spec => ImplementsFeed`, the refinement of
  `OrderedFeed`. A push is the delivery of a run of changes nothing owed lies between; a
  reconnection starts the reader over; everything else stutters or publishes.

`NothingSkipped` alone is not inductive: that a cursor has passed a row proves
nothing of a row committed later below it. `StreamInv` adds what rules this out.
`Settled(n)` says that no revision up to n can still be committed: all were drawn, and
every open transaction began at or after n. `LogInv` says committed rows are settled
and at most one transaction is open; `CursorsAreSettled` says so of what handlers
and clients have seen. A new row then comes after every settled one (`NewRowsComeAfter`
in `ChangeLogProofs`), and a page is closed downward (`FirstRowsClosed`), so a
cursor that moves over it leaves nothing behind.

`LongPollProofs`: `TypeCorrect`; `EmptyMeansExpired`, `Spec => []EmptyOnlyWhenExpired`; and,
for `Serialized` and a client that does not follow the response's revision,
`NothingIsMissed`, `Spec => []NothingMissed`, and `ServesTheFeed`, `Spec => ImplementsFeed`.
The inductive invariant is `PollInv`: the cursors are settled, as above, and a page on
its way has no gap after the cursor it was asked for with (`PagesHaveNoGap`). In the
refinement `Query` and `Requery` take, `Answer` lets arrive, and `Cancel` and `Crash` lose.
The two runs that fail show that both assumptions are needed.

`CatalogProofs`, about `Catalog`:

- `TypeCorrect`; `NoOrphans`, `Spec => []NoOrphanInstance`; `AddressesAreUnique`,
  `Spec => []AddressUnique`. With `TypeOK` their conjunction `InstancesInv` is inductive,
  which is the point: although handlers decide on rows read earlier, each transaction
  checks again all that these two need.
- `RevisionsAreLastChanges`, `Spec => []RevisionIsLastChange`. `RevisionsInv` says of each
  row that its revision is in the log and no later change is about it; the lemma
  `StepEffect` lists what each kind of step does to tables and log, so that the rows a
  cascade takes along and the rows a re-creation brings back are met once each.
- `LeftoversCameLater`, `Spec => []LeftoversAreLater`, from `LeftoversInv` (a row in a
  namespace that is gone has a revision after each of its deletions) and `RevisionsInv`.
- `LogIsComplete`, `Spec => []LogIsExact`. `LogInv` says of every name a record can be about
  whether the log as a reader applies it (`KnownAt`) and the tables agree, and that an
  instance the log still holds though it is gone has an id used elsewhere.

and about `Snapshot`, which composes it with a reader:

- `SnapshotTypeCorrect`; `SnapshotLeavesCatalog`, `SnapshotSpec => Spec`: readers and pruning
  are stutters of `Catalog`, so every theorem above holds beside them.
- `StaleCopiesAreAnnounced`, `SnapshotSpec => []StaleIsAnnounced`; `NotModifiedMeansCurrent`,
  `SnapshotSpec => []NotModifiedIsCurrent`. Neither is inductive, as a copy is put together
  from reads of different moments. `CoveredInv` says of each part, from the moment it
  was read, whether on its way or with the client, that a row in which it differs from
  the tables has a change, or a cascade, after the revision the snapshot began with.

They need of the constants that `NoRow` is neither an instance nor a server
(`RowAssumption`) nor an id: `announce` passes it to `AddressFree` for "no instance of my own".

`InstanceSyncProofs`, for any number of items, instances, addresses and metadata keys:

- `TypeCorrect`; `OnlyDeclaredStay`, `Spec => []OnlyDeclared`; `RecordsAreExact`,
  `Spec => []RecordsAreTheDifference`. Both speak of the end of the loop; `SyncInv` says what
  holds between its items: those left are a suffix of the given ones (`ProgressInv`),
  no two rows share an address (`UniqueInv`), every row is one of the list that no item
  has matched or one that stands for an item, and the records so far are the difference
  between list and table (`ItemsInv`).
- `DistinctItemsAreAligned`, `Spec => []DistinctItemsAlign`: `OwnInv` adds that an item looked
  at keeps the row that agrees with it, as no other matches it.
- `SyncIsRepeatable`, `Spec => []Repeatable`. The second sync depends on what the first one
  left, so `HistoryInv` tells where each row came from and `AgainInv` carries over that every
  item now matches one instance and agrees with it: nothing is refused or recorded.

`StartupProofs`, for any number of processes, files, columns and keys:

- `TypeCorrect`; `FileIsDecidedOnce`, `Spec => DecidedOnce`. `DecisionInv`: a decision has
  left the marker, and an open transaction that has inserted it keeps others from deciding.
- `ImportIsWhole`, `Spec => []NothingHalfImported`: rows of the file reach the tables with the
  commit that brings the marker.
- `ImportsReplaceNothing`, `Spec => ImportReplacesNothing`. `EmptyInv`: an import that copied
  the services found none under their keys and locks them; `SeededInv`: with the file
  there from the start, nobody is served before the decision.
- `TheLogIsContinued`, `Spec => LogIsContinued`. `setval` can take the sequence back, below
  revisions that are drawn, so the order of sequence and log is not inductive. With the
  file there from the start nobody writes before the decision (`SeededInv`); `ContinuedInv`
  says that from the import's commit on the sequence and every open write are past the
  file's log. The `setval` of another import leaves it so: it takes the largest revision.
  It does not say that no revision is drawn twice: one is, and its write fails.

`GatewayProofs`, for any catalog, any names of the registry and any number of slots and calls:

- `TypeCorrect`; `RegistryAsksItselfOnce`, `Spec => []FanOutIsOneDeep`; `AnsweredIsNotRetried`,
  `Spec => []NoRetryAfterAnswer`; `EveryEndpointIsTried`, `Spec => []FailureIsExhaustive`;
  `CallsAreRouted`, `Spec => []RoutedAsListed`. All follow from `CallInv`: the second request
  carries the hop header (`Nested`); the endpoint that answered a probe is one of the
  catalog's, which are distinct (`ProbingInv`); those tried and those left are all of them,
  none among both, and the deadline has passed with an attempt that hung (`ForwardInv`);
  each name shown or called belongs to a tool of the service it goes with (`NamesInv`).
- They assume that the HTTP instances of a service have different addresses
  (`AddressAssumption`): `idx_instances_addr` (`schema.go:73`) has them so, and the path
  after the address is the service's. Without it a call could try one URL twice.

`ServiceWriteProofs`, about `ServiceWrite` and `OrgDirectory`:

- `TypeCorrect`; `WritesWereAllowed`, `Spec => WriteWasAllowed`; `ResolvedWereListed`,
  `Spec => []ResolvedWasListed`. `Moves(r, q)` lists what one step can make of a request, and
  `StepMoves` shows that no step does anything else. `WritesArePermitted` says a PUT past
  its authorization was entitled when it came, and one before it carries the namespace's
  present token only if that was the token then; no new token equals one under way.
  `FindableWasListed` says that the cache, the last success and a reply on its way hold
  departments the organization has listed.
- `UnknownWasLacking`, `Spec => UnknownIsRecent`; `UncheckedHadCause`, `Spec => UncheckedHasCause`.
  Both bound a time, so `DirectoryInv` relates three clocks: a reply on its way without
  an id means the organization denied it within the time the fetch has taken, a kept list
  within that time and the list's age, and the same of trouble for an answer that tells
  nothing (`CauseInv`). A request then acts on a list younger than `Window`, the cache's
  lifetime and one fetch.

The recursion in the code is in loops, and the models unfold it step by step, so no proof
needs induction over data. Where one needs a first or a last element (the last change of
a row, the next position of a list) it takes the least one of a nonempty set of numbers, by
`WFMin` of the library. What remains to TLC alone is liveness (`CommittedIsPushed`,
`RequestEnds`, `EveryStartEnds`, `EveryRequestEnds`), which needs ENABLED, and the endpoint
search against its reference, an ASSUME over bounded inputs.

## What the models leave out

- Columns, bodies and texts nothing depends on; `last_announced_at`, which changes
  without a revision and so without a new ETag.
- In `ChangeLog`, `at` grows with the revision; with PostgreSQL two
  overlapping transactions can differ by moments, which matters only to a prune
  at that very instant.
- `Catalog` and `InstanceSync` run one write transaction at a time, as SQLite does.
  `InstanceSync` leaves out `os` and `arch`, compared exactly like the address, and
  revisions, which `Catalog` has.
- One process, but for `Startup`. With PostgreSQL several could share a database; each
  has its own hub, and a write in another process wakes nobody here.
- A failing query or commit: a handler that gets an error ends (`Disconnect`,
  `Cancel`, `GiveUp`), a failing write rolls back.
- `Startup`: the conversion of single values in the import, flags, and all versions of the
  own contract but one. Clients create namespaces and write and delete services; updates
  and deletions of namespaces and the handlers' stale checks are left to `Catalog`. An
  UPDATE that finds no row holds the row's key all the same until its write ends, and a
  client's write commits only while some process serves: both leave out orders in which
  less is waited for. While a start is under way only the file's changes are old enough
  to be pruned, as the start has three minutes and the retention is in days.
- `Snapshot`: the namespaces in the body (`search.go:29`); what a consumer's copy is compared
  with is contracts and instances.
- `ServiceWrite`: `requireRead`, which has no state, the parsing of headers and
  addresses, and the look-up of a namespace in the transaction that rotates, clears or
  deletes it, which is merged with it.
- `Gateway`: sessions, contents and the identity headers passed along. A tool whose name
  `ToolName` refuses is skipped by the code (`gateway.go:177`); here every tool is exposed,
  which only allows more.
- `EndpointSearch`: the filters by method, tag, department and text, and wildcards inside
  a segment. It is checked by an ASSUME, not a property, as nothing in it moves.
- The API description parser, configuration, metrics and id generation convert data and
  keep no state others depend on; ids enter `Catalog` as `FreshIds`. The panel, the client
  script and the deployment use the interface modelled here from outside.

## Plan

1. Proofs: `OnlyCommittedIsPushed` without `Serialized`, that is with PostgreSQL; an
   abstract catalog that `Catalog` implements, with the refinement proved.
2. Liveness of `ServiceWrite` on a smaller instance: a request that waits for the
   directory goes on.
3. Overlapping transactions (PostgreSQL) in `Catalog`.
4. The other filters of the endpoint search.
