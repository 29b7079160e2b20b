----------------------------- MODULE InstanceSync -----------------------------
(***************************************************************************)
(* PUT .../instances, the declarative replacement of the instances of *)
(* one service: SyncInstances of internal/store/instance_sync.go.          *)
(*                                                                         *)
(* The transaction lists the instances once, takes the declared items in   *)
(* order (insert, update or leave), and removes what no item matched.      *)
(* Matching looks at the list made at the start, the statements act on the *)
(* table as the items before have left it.  Each item is a step here so    *)
(* that the difference can be seen; the transaction runs alone.            *)
(***************************************************************************)
EXTENDS Naturals, Sequences, FiniteSets, SequencesExt

CONSTANTS
    Ids,        \* instance ids
    Foreign,    \* those that instances of other services have
    Addrs,      \* <scheme, host, port>
    Keys,       \* keys of the metadata
    Values,     \* its values
    Empty,      \* the empty string, one of them
    NoId,       \* an item without an id
    NoRow,      \* no row in the table
    MaxGiven    \* bound: declared items

ASSUME ForeignAssumption == Foreign \subseteq Ids
ASSUME MarksAssumption == NoId \notin Ids /\ Empty \in Values /\ MaxGiven \in Nat

VARIABLES
    rows,   \* per id: the service's instance, as the running transaction sees it
    call    \* the sync that runs or ran last

vars == <<rows, call>>

Metadata == UNION {[K -> Values] : K \in SUBSET Keys}

\* os and arch, compared as the address is, add nothing and are left out.
Row == [addr : Addrs, metadata : Metadata]
ASSUME RowAssumption == NoRow \notin Row
Table == [Ids -> Row \union {NoRow}]
Item == [id : Ids \union {NoId}, addr : Addrs, metadata : Metadata]
Done == [op : {"create", "update", "unchanged"}, id : Ids]

\* current: the list made at the start.  left: items not yet looked at.
\* done: what became of the others.  removed: what the last loop deleted.
\* again: the same items were declared, and came to be, just before.
Call ==
    [phase : {"idle", "items", "done", "refused"}, current : Table, given : Seq(Item),
     left : Seq(Item), seen : SUBSET Ids, done : Seq(Done), removed : SUBSET Ids,
     again : BOOLEAN]

NoRows == [i \in Ids |-> NoRow]

NoCall == [phase |-> "idle", current |-> NoRows, given |-> <<>>, left |-> <<>>,
           seen |-> {}, done |-> <<>>, removed |-> {}, again |-> FALSE]

TypeOK == rows \in Table /\ call \in Call

Init == rows = NoRows /\ call = NoCall

Present(table) == {i \in Ids : table[i] # NoRow}
RowOf(item) == [addr |-> item.addr, metadata |-> item.metadata]

\* The UNIQUE index: no other instance of the service at the address.
Free(addr, i) == \A j \in Present(rows) \ {i} : rows[j].addr # addr

\* The instances of the list an item stands for: the one of its id, or else the
\* one at its address.
Matched(item) ==
    IF item.id \in Present(call.current) THEN {item.id}
    ELSE {i \in Present(call.current) : call.current[i].addr = item.addr}

\* sameMetadata: as many keys, and what the first has the second answers, with the
\* empty string for a key that it has not.
SameMetadata(m, n) ==
    /\ Cardinality(DOMAIN m) = Cardinality(DOMAIN n)
    /\ \A k \in DOMAIN m : m[k] = (IF k \in DOMAIN n THEN n[k] ELSE Empty)

\* What is registered is what is declared, as far as the sync compares.
Agrees(row, item) == row.addr = item.addr /\ SameMetadata(row.metadata, item.metadata)

\* Every instance is a declared item, and every item an instance.
Aligned ==
    /\ \A i \in Present(rows) : \E item \in ToSet(call.given) : Agrees(rows[i], item)
    /\ \A item \in ToSet(call.given) : \E i \in Present(rows) : Agrees(rows[i], item)

\* A comparison that forgets the metadata.
SameAddress(i, item) == call.current[i].addr = item.addr

\* No comparison.
NeverSame(i, item) == FALSE

\* Compared with the list, not with the table.
Same(i, item) == Agrees(call.current[i], item)

-----------------------------------------------------------------------------

\* The transaction lists the instances of an existing service.
List(given, again) ==
    /\ call' = [NoCall EXCEPT !.phase = "items", !.current = rows, !.given = given,
                              !.left = given, !.again = again]
    /\ UNCHANGED rows

Begin(given) == call.phase = "idle" /\ List(given, FALSE)

\* A pipeline that runs again declares the same set.
BeginAgain ==
    /\ call.phase = "done"
    /\ List(call.given, Aligned)

Proceed(op, i) ==
    call' = [call EXCEPT !.left = Tail(@), !.seen = @ \union {i},
                         !.done = Append(@, [op |-> op, id |-> i])]

\* The id of a row to insert: the item's, or one nobody has or names.
NewIds(item) ==
    IF item.id # NoId THEN {item.id}
    ELSE (Ids \ Foreign) \ (Present(rows) \union {g.id : g \in ToSet(call.given)})

\* The primary key and the UNIQUE index admit a row.
Insertable(i, item) == rows[i] = NoRow /\ i \notin Foreign /\ Free(item.addr, i)

InItems == call.phase = "items" /\ call.left # <<>>

\* An insertion that keeps the item's id, also when there is none.
InsertWithoutId(item) ==
    /\ Matched(item) = {}
    /\ \E i \in NewIds(item) :
          /\ Insertable(i, item)
          /\ rows' = [rows EXCEPT ![i] = RowOf(item)]
          /\ Proceed("create", item.id)

InsertItem(item) ==
    /\ Matched(item) = {}
    /\ \E i \in NewIds(item) :
          /\ Insertable(i, item)
          /\ rows' = [rows EXCEPT ![i] = RowOf(item)]
          /\ Proceed("create", i)

\* An update that does not mark its instance as seen.
UpdateItemUnseen(item) ==
    \E i \in Matched(item) :
        /\ ~ Same(i, item)
        /\ Free(item.addr, i)
        /\ rows' = [rows EXCEPT ![i] = RowOf(item)]
        /\ call' = [call EXCEPT !.left = Tail(@),
                                !.done = Append(@, [op |-> "update", id |-> i])]

UpdateItem(item) ==
    \E i \in Matched(item) :
        /\ ~ Same(i, item)
        /\ Free(item.addr, i)
        /\ rows' = [rows EXCEPT ![i] = RowOf(item)]
        /\ Proceed("update", i)

KeepItem(item) ==
    \E i \in Matched(item) : Same(i, item) /\ Proceed("unchanged", i) /\ UNCHANGED rows

\* A statement violates a key: everything is rolled back.
Refuse(item) ==
    /\ \/ Matched(item) = {} /\ \A i \in NewIds(item) : ~ Insertable(i, item)
       \/ \E i \in Matched(item) : ~ Same(i, item) /\ ~ Free(item.addr, i)
    /\ rows' = call.current
    /\ call' = [call EXCEPT !.phase = "refused"]

\* A sync that only adds and updates.
FinishWithoutRemoval ==
    /\ call.phase = "items" /\ call.left = <<>>
    /\ call' = [call EXCEPT !.phase = "done"]
    /\ UNCHANGED rows

\* The instances no item matched go, and the transaction commits.
Finish ==
    LET rest == Present(call.current) \ call.seen IN
    /\ call.phase = "items" /\ call.left = <<>>
    /\ rows' = [i \in Ids |-> IF i \in rest THEN NoRow ELSE rows[i]]
    /\ call' = [call EXCEPT !.phase = "done", !.removed = rest]

\* The sync is answered.
Return ==
    /\ call.phase \in {"done", "refused"}
    /\ call' = NoCall
    /\ UNCHANGED rows

\* Between two syncs an instance is registered by itself.
Register(i, row) ==
    /\ call.phase = "idle"
    /\ rows[i] = NoRow /\ i \notin Foreign /\ Free(row.addr, i)
    /\ rows' = [rows EXCEPT ![i] = row]
    /\ UNCHANGED call

ItemStep(item) == InsertItem(item) \/ UpdateItem(item) \/ KeepItem(item) \/ Refuse(item)

Next ==
    \/ \E given \in BoundedSeq(Item, MaxGiven) : Begin(given)
    \/ BeginAgain
    \/ InItems /\ ItemStep(Head(call.left))
    \/ Finish
    \/ Return
    \/ \E i \in Ids, row \in Row : Register(i, row)

Spec == Init /\ [][Next]_vars

-----------------------------------------------------------------------------
(* Properties *)

Succeeded == call.phase = "done"

\* No two declared items name the same id or the same address.
Unambiguous ==
    \A j, k \in DOMAIN call.given :
        LET one == call.given[j] two == call.given[k] IN
        \/ j = k
        \/ one.addr # two.addr /\ (one.id = two.id => one.id = NoId)

\* "The set must be completely aligned" (comment of SyncInstances): after a sync
\* the service has the instances that were declared.
SyncAligns == Succeeded /\ Unambiguous => Aligned

\* No two items stand for the same instance of the list.
Distinct ==
    \A j, k \in DOMAIN call.given :
        Matched(call.given[j]) \intersect Matched(call.given[k]) # {} => j = k

\* So it is when every item stands for an instance of its own, whatever the order
\* of the items and whichever addresses they exchange.
DistinctItemsAlign == Succeeded /\ Distinct => Aligned

\* In any case nothing stays that was not declared, as far as the sync compares.
OnlyDeclared ==
    Succeeded => \A i \in Present(rows) : \E item \in ToSet(call.given) : Agrees(rows[i], item)

With(op) == {d.id : d \in {e \in ToSet(call.done) : e.op = op}}

\* The change records are the difference between the tables before and after:
\* a record for each instance that came, went or changed, and none for another,
\* though the updates are decided on the list and not on the table.
RecordsAreTheDifference ==
    LET before == Present(call.current)
        after == Present(rows) IN
    Succeeded =>
        /\ With("create") = after \ before
        /\ call.removed = before \ after
        /\ With("update") = {i \in before \intersect after : rows[i] # call.current[i]}

\* "The same set again: all unchanged" (TestSyncInstancesDeclarative): a pipeline
\* can repeat its sync, if every item stands for an instance of its own; it is not
\* refused and records nothing.
Repeatable ==
    call.again /\ Distinct =>
        /\ call.phase # "refused"
        /\ Succeeded => With("create") \union With("update") \union call.removed = {}

=============================================================================
