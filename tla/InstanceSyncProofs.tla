-------------------------- MODULE InstanceSyncProofs --------------------------
(***************************************************************************)
(* What TLAPS proves of SyncInstances, for any sets of ids, addresses and  *)
(* metadata and any number of declared items: what a sync leaves, what it  *)
(* records, and when it can be repeated.                                   *)
(***************************************************************************)
EXTENDS InstanceSync, SequenceTheorems, TLAPS

(* Sequences: what an item more, and an item less, leave.                      *)
LEMMA AppendedSet ==
    ASSUME NEW S, NEW s \in Seq(S), NEW e \in S
    PROVE  ToSet(Append(s, e)) = ToSet(s) \union {e}
<1>1. /\ Append(s, e) \in Seq(S) /\ Len(Append(s, e)) = Len(s) + 1 /\ Len(s) \in Nat
      /\ \A i \in 1 .. Len(s) : Append(s, e)[i] = s[i]
      /\ Append(s, e)[Len(s) + 1] = e
  BY AppendProperties, LenProperties
<1>2. DOMAIN Append(s, e) = 1 .. Len(s) + 1 /\ DOMAIN s = 1 .. Len(s)
  BY <1>1, LenProperties
<1>3. 1 .. Len(s) + 1 = (1 .. Len(s)) \union {Len(s) + 1}
  BY <1>1
<1> DEFINE t == Append(s, e)
<1>4. {t[i] : i \in 1 .. Len(s) + 1} = {s[i] : i \in 1 .. Len(s)} \union {e}
  <2>1. ASSUME NEW x \in {t[i] : i \in 1 .. Len(s) + 1}
        PROVE  x \in {s[i] : i \in 1 .. Len(s)} \union {e}
    BY <1>1, <1>3, <2>1
  <2>2. ASSUME NEW x \in {s[i] : i \in 1 .. Len(s)} \union {e}
        PROVE  x \in {t[i] : i \in 1 .. Len(s) + 1}
    BY <1>1, <1>3, <2>2
  <2> QED BY <2>1, <2>2
<1> QED BY <1>2, <1>4 DEF ToSet

LEMMA BoundedIsSeq ==
    ASSUME NEW S, NEW s \in BoundedSeq(S, MaxGiven)
    PROVE  s \in Seq(S)
BY MarksAssumption DEF BoundedSeq, SeqOf

-----------------------------------------------------------------------------
(* Types, and what a step of the sync changes *)

LEMMA CallType ==
    ASSUME TypeOK
    PROVE  /\ call.phase \in {"idle", "items", "done", "refused"}
           /\ call.current \in Table /\ rows \in Table
           /\ call.given \in Seq(Item) /\ call.left \in Seq(Item)
           /\ call.seen \subseteq Ids /\ call.removed \subseteq Ids
           /\ call.done \in Seq(Done) /\ call.again \in BOOLEAN
BY DEF TypeOK, Call

LEMMA RowOfType ==
    ASSUME NEW item \in Item
    PROVE  /\ RowOf(item) \in Row /\ RowOf(item) # NoRow
           /\ RowOf(item).addr = item.addr /\ RowOf(item).metadata = item.metadata
<1>1. RowOf(item) \in Row
  BY DEF Item, Row, RowOf
<1> QED BY <1>1, RowAssumption DEF RowOf

(* A row agrees with the item it was made of.                                  *)
LEMMA RowAgrees ==
    ASSUME NEW item \in Item
    PROVE  Agrees(RowOf(item), item)
BY RowOfType DEF Agrees, SameMetadata

LEMMA MatchedType ==
    ASSUME TypeOK, NEW item
    PROVE  Matched(item) \subseteq Present(call.current) /\ Present(call.current) \subseteq Ids
BY DEF Matched, Present

LEMMA NewIdType ==
    ASSUME NEW item \in Item, NEW i \in NewIds(item)
    PROVE  /\ i \in Ids
           /\ item.id # NoId => i = item.id
           /\ item.id = NoId => \A k \in DOMAIN call.given : call.given[k].id # i
BY DEF NewIds, Item, ToSet

\* How many items have been looked at.
Looked == Len(call.given) - Len(call.left)

\* The items left are the end of the given ones.
ProgressInv ==
    call.phase \in {"items", "done"} =>
        /\ Looked \in Nat
        /\ \A k \in 1 .. Len(call.left) : call.left[k] = call.given[Looked + k]
        /\ call.phase = "done" => call.left = <<>>

LEMMA NextItem ==
    ASSUME TypeOK, ProgressInv, InItems
    PROVE  /\ Looked \in Nat /\ Looked + 1 \in DOMAIN call.given
           /\ Head(call.left) = call.given[Looked + 1] /\ Head(call.left) \in Item
           /\ DOMAIN call.given = 1 .. Len(call.given)
           /\ Len(call.given) \in Nat /\ Len(call.left) \in Nat \ {0}
<1>1. call.left \in Seq(Item) /\ call.left # <<>> /\ call.given \in Seq(Item) /\ call.phase = "items"
  BY CallType DEF InItems
<1>2. /\ Head(call.left) \in Item /\ Head(call.left) = call.left[1]
      /\ Len(call.left) \in Nat \ {0}
  BY <1>1
<1>3. Len(call.given) \in Nat /\ DOMAIN call.given = 1 .. Len(call.given)
  BY <1>1
<1>4. Looked \in Nat /\ call.left[1] = call.given[Looked + 1]
  BY <1>1, <1>2 DEF ProgressInv
<1>5. Looked + 1 <= Len(call.given)
  BY <1>2, <1>3, <1>4 DEF Looked
<1> QED BY <1>2, <1>3, <1>4, <1>5

(* An item has been looked at.                                                 *)
LEMMA ProceedMeans ==
    ASSUME TypeOK, ProgressInv, InItems, NEW op \in {"create", "update", "unchanged"}, NEW i \in Ids,
           Proceed(op, i)
    PROVE  /\ call' \in Call /\ ProgressInv' /\ Looked' = Looked + 1
           /\ call'.phase = "items" /\ call'.current = call.current /\ call'.given = call.given
           /\ call'.again = call.again /\ call'.removed = call.removed
           /\ call'.seen = call.seen \union {i}
           /\ ToSet(call'.done) = ToSet(call.done) \union {[op |-> op, id |-> i]}
<1>1. /\ call'.phase = "items" /\ call'.current = call.current /\ call'.given = call.given
      /\ call'.again = call.again /\ call'.removed = call.removed
      /\ call'.seen = call.seen \union {i} /\ call'.left = Tail(call.left)
      /\ call'.done = Append(call.done, [op |-> op, id |-> i])
  BY DEF Proceed, TypeOK, Call, InItems
<1>2. [op |-> op, id |-> i] \in Done
  BY DEF Done
<1>3. ToSet(call'.done) = ToSet(call.done) \union {[op |-> op, id |-> i]} /\ call'.done \in Seq(Done)
  BY <1>1, <1>2, AppendedSet, AppendProperties, CallType
<1>4. /\ call'.left \in Seq(Item) /\ Len(call'.left) = Len(call.left) - 1
      /\ \A k \in 1 .. Len(call'.left) : call'.left[k] = call.left[k + 1]
  BY <1>1, HeadTailProperties, CallType DEF InItems
<1>5. call' \in Call
  <2>1. Tail(call.left) \in Seq(Item) /\ call.seen \union {i} \subseteq Ids
    BY <1>1, <1>4, CallType
  <2> QED BY <1>1, <1>3, <2>1 DEF Proceed, TypeOK, Call
<1>6. Looked' = Looked + 1 /\ Looked \in Nat
  <2>1. Looked \in Nat /\ Len(call.given) \in Nat /\ Len(call.left) \in Nat
    BY NextItem
  <2>2. Looked' = Len(call.given) - (Len(call.left) - 1)
    BY <1>1, <1>4 DEF Looked
  <2>3. \A a, b \in Nat : a - (b - 1) = (a - b) + 1
    OBVIOUS
  <2>4. Looked' = (Len(call.given) - Len(call.left)) + 1
    BY <2>1, <2>2, <2>3
  <2> QED BY <2>1, <2>4 DEF Looked
<1>7. ProgressInv'
  <2>1. ASSUME NEW k \in 1 .. Len(call'.left)
        PROVE  call'.left[k] = call'.given[Looked' + k]
    <3>1. k \in Nat /\ k + 1 \in 1 .. Len(call.left)
      BY <1>4, NextItem
    <3>2. call.left[k + 1] = call.given[Looked + (k + 1)]
      BY <3>1 DEF ProgressInv, InItems
    <3>3. Looked + (k + 1) = Looked' + k
      BY <1>6, <3>1
    <3> QED BY <1>1, <1>4, <3>2, <3>3
  <2> QED BY <1>1, <1>6, <2>1 DEF ProgressInv
<1> QED BY <1>1, <1>3, <1>5, <1>6, <1>7

\* What becomes of an item: a row is added, changed or left, or all is refused.
Adds(item, i) ==
    /\ Matched(item) = {} /\ i \in NewIds(item) /\ Insertable(i, item)
    /\ rows' = [rows EXCEPT ![i] = RowOf(item)]
    /\ Proceed("create", i)

Changes(item, i) ==
    /\ i \in Matched(item) /\ ~ Same(i, item) /\ Free(item.addr, i)
    /\ rows' = [rows EXCEPT ![i] = RowOf(item)]
    /\ Proceed("update", i)

Keeps(item, i) ==
    /\ i \in Matched(item) /\ Same(i, item)
    /\ Proceed("unchanged", i)
    /\ UNCHANGED rows

LEMMA ItemEffect ==
    ASSUME TypeOK, NEW item \in Item, ItemStep(item)
    PROVE  Refuse(item) \/ \E i \in Ids : Adds(item, i) \/ Changes(item, i) \/ Keeps(item, i)
<1>1. CASE InsertItem(item)
  BY <1>1, NewIdType DEF InsertItem, Adds
<1>2. CASE UpdateItem(item)
  BY <1>2, MatchedType DEF UpdateItem, Changes
<1>3. CASE KeepItem(item)
  BY <1>3, MatchedType DEF KeepItem, Keeps
<1> QED BY <1>1, <1>2, <1>3 DEF ItemStep

(* The list that a sync begins with.                                           *)
LEMMA ListMeans ==
    ASSUME TypeOK, NEW given \in Seq(Item), NEW again \in BOOLEAN, List(given, again)
    PROVE  /\ call' \in Call /\ rows' = rows /\ Looked' = 0 /\ ProgressInv'
           /\ call'.phase = "items" /\ call'.current = rows /\ call'.given = given
           /\ call'.again = again /\ call'.seen = {} /\ call'.done = <<>> /\ call'.removed = {}
<1>1. /\ call'.phase = "items" /\ call'.current = rows /\ call'.given = given /\ call'.left = given
      /\ call'.again = again /\ call'.seen = {} /\ call'.done = <<>> /\ call'.removed = {}
      /\ rows' = rows
  BY DEF List, NoCall
<1>2. call' \in Call
  <2>1. call' = [phase |-> "items", current |-> rows, given |-> given, left |-> given, seen |-> {},
                 done |-> <<>>, removed |-> {}, again |-> again]
    BY DEF List, NoCall
  <2>2. <<>> \in Seq(Done) /\ rows \in Table
    BY CallType
  <2> QED BY <2>1, <2>2 DEF Call
<1>3. Len(given) \in Nat
  OBVIOUS
<1>4. Looked' = 0
  BY <1>1, <1>3 DEF Looked
<1>5. ProgressInv'
  BY <1>1, <1>3, <1>4 DEF ProgressInv
<1> QED BY <1>1, <1>2, <1>4, <1>5

\* What the steps outside the loop do.
Starts ==
    \/ \E given \in Seq(Item) : List(given, FALSE)
    \/ call.phase = "done" /\ List(call.given, Aligned)

LEMMA StepEffect ==
    ASSUME TypeOK, ProgressInv, [Next]_vars
    PROVE  \/ Starts
           \/ InItems /\ \E i \in Ids :
                 \/ Adds(Head(call.left), i) \/ Changes(Head(call.left), i) \/ Keeps(Head(call.left), i)
           \/ InItems /\ Refuse(Head(call.left))
           \/ Finish \/ Return
           \/ \E i \in Ids, row \in Row : Register(i, row)
           \/ UNCHANGED vars
<1>1. ASSUME NEW given \in BoundedSeq(Item, MaxGiven), Begin(given) PROVE Starts
  BY <1>1, BoundedIsSeq DEF Begin, Starts
<1>2. CASE BeginAgain
  BY <1>2 DEF BeginAgain, Starts
<1>3. CASE InItems /\ ItemStep(Head(call.left))
  BY <1>3, ItemEffect, NextItem
<1> QED BY <1>1, <1>2, <1>3 DEF Next

LEMMA TypeStep == TypeOK /\ ProgressInv /\ [Next]_vars => TypeOK' /\ ProgressInv'
<1> SUFFICES ASSUME TypeOK, ProgressInv, [Next]_vars PROVE TypeOK' /\ ProgressInv'
  OBVIOUS
<1>1. CASE Starts
  <2>1. PICK given \in Seq(Item), again \in BOOLEAN : List(given, again)
    BY <1>1, CallType DEF Starts, Aligned
  <2> QED BY <2>1, ListMeans, CallType DEF TypeOK
<1>2. ASSUME InItems, NEW i \in Ids,
             Adds(Head(call.left), i) \/ Changes(Head(call.left), i) \/ Keeps(Head(call.left), i)
      PROVE  TypeOK' /\ ProgressInv'
  <2> DEFINE item == Head(call.left)
  <2>1. item \in Item
    BY <1>2, NextItem
  <2>2. \E op \in {"create", "update", "unchanged"} : Proceed(op, i)
    BY <1>2 DEF Adds, Changes, Keeps
  <2>3. call' \in Call /\ ProgressInv'
    BY <1>2, <2>2, ProceedMeans
  <2>4. rows' \in Table
    BY <1>2, <2>1, CallType, RowOfType DEF Adds, Changes, Keeps, Table
  <2> QED BY <2>3, <2>4 DEF TypeOK
<1>3. ASSUME InItems, Refuse(Head(call.left)) PROVE TypeOK' /\ ProgressInv'
  <2>1. rows' = call.current /\ call' = [call EXCEPT !.phase = "refused"]
    BY <1>3 DEF Refuse
  <2>2. call' \in Call /\ call'.phase = "refused"
    BY <2>1 DEF TypeOK, Call
  <2> QED BY <2>1, <2>2, CallType DEF TypeOK, ProgressInv
<1>4. CASE Finish
  <2> DEFINE rest == Present(call.current) \ call.seen
  <2>1. /\ call.phase = "items" /\ call.left = <<>>
        /\ call' = [call EXCEPT !.phase = "done", !.removed = rest]
        /\ rows' = [i \in Ids |-> IF i \in rest THEN NoRow ELSE rows[i]]
    BY <1>4 DEF Finish
  <2>2. rest \subseteq Ids
    BY DEF Present
  <2>3. call' \in Call
    BY <2>1, <2>2 DEF TypeOK, Call
  <2>4. rows' \in Table
    BY <2>1, CallType DEF Table
  <2>5. call'.left = call.left /\ call'.given = call.given
    BY <2>1 DEF TypeOK, Call
  <2>6. ProgressInv'
    BY <2>1, <2>5 DEF ProgressInv, Looked
  <2> QED BY <2>3, <2>4, <2>6 DEF TypeOK
<1>5. CASE Return
  <2>1. NoCall \in Call
    <3>1. NoRows \in Table
      BY DEF NoRows, Table
    <3> QED BY <3>1 DEF NoCall, Call
  <2>2. call' = NoCall /\ rows' = rows
    BY <1>5 DEF Return
  <2> QED BY <2>1, <2>2 DEF TypeOK, ProgressInv, NoCall
<1>6. ASSUME NEW i \in Ids, NEW row \in Row, Register(i, row) PROVE TypeOK' /\ ProgressInv'
  <2>1. call' = call /\ call.phase = "idle" /\ rows' = [rows EXCEPT ![i] = row]
    BY <1>6 DEF Register
  <2>2. rows' \in Table
    BY <2>1, CallType DEF Table
  <2> QED BY <2>1, <2>2 DEF TypeOK, ProgressInv
<1>7. CASE UNCHANGED vars
  BY <1>7 DEF vars, TypeOK, ProgressInv, Looked
<1> QED BY <1>1, <1>2, <1>3, <1>4, <1>5, <1>6, <1>7, StepEffect

LEMMA TypeInit == Init => TypeOK /\ ProgressInv
<1>1. NoRows \in Table
  BY DEF NoRows, Table
<1>2. NoCall \in Call /\ NoCall.phase = "idle"
  BY <1>1 DEF NoCall, Call
<1> QED BY <1>1, <1>2 DEF Init, TypeOK, ProgressInv

(* The table and the sync that runs are what they can be.                      *)
THEOREM TypeCorrect == Spec => []TypeOK
BY TypeInit, TypeStep, PTL DEF Spec

-----------------------------------------------------------------------------
(* What the items looked at have left and recorded *)

\* Two rows of a table differ in their address.
UniqueIn(table) ==
    \A i, j \in Present(table) : table[i].addr = table[j].addr => i = j
UniqueInv == UniqueIn(rows) /\ UniqueIn(call.current)

\* Every row is one of the list no item has matched, or stands for an item; the
\* records are the difference between the list and the table.
ItemsInv ==
    call.phase = "items" =>
        /\ Present(call.current) \subseteq Present(rows)
        /\ call.seen \subseteq Present(rows)
        /\ \A i \in Present(rows) : i \notin call.seen =>
              i \in Present(call.current) /\ rows[i] = call.current[i]
        /\ \A i \in call.seen : \E j \in 1 .. Looked : Agrees(rows[i], call.given[j])
        /\ With("create") = Present(rows) \ Present(call.current)
        /\ With("update") = {i \in Present(call.current) : rows[i] # call.current[i]}
        /\ call.removed = {}

(* The records an item adds to.                                                *)
LEMMA ProceedRecords ==
    ASSUME TypeOK, ProgressInv, InItems, NEW op \in {"create", "update", "unchanged"}, NEW i \in Ids,
           Proceed(op, i)
    PROVE  /\ With("create")' = With("create") \union (IF op = "create" THEN {i} ELSE {})
           /\ With("update")' = With("update") \union (IF op = "update" THEN {i} ELSE {})
<1>1. ToSet(call'.done) = ToSet(call.done) \union {[op |-> op, id |-> i]}
  BY ProceedMeans
<1>2. \A kind : {d.id : d \in {e \in ToSet(call'.done) : e.op = kind}}
         = {d.id : d \in {e \in ToSet(call.done) : e.op = kind}} \union (IF op = kind THEN {i} ELSE {})
  <2> DEFINE R == [op |-> op, id |-> i]
             D == ToSet(call.done)
             E == ToSet(call'.done)
  <2>1. R.op = op /\ R.id = i /\ E = D \union {R}
    BY <1>1
  <2> HIDE DEF R, D, E
  <2>2. \A kind : {d.id : d \in {e \in E : e.op = kind}}
           = {d.id : d \in {e \in D : e.op = kind}} \union (IF op = kind THEN {i} ELSE {})
    BY <2>1
  <2> QED BY <2>2 DEF D, E
<1> QED BY <1>2 DEF With

(* A row that is added is none of the list's; one that is changed is.          *)
LEMMA AddedRow ==
    ASSUME TypeOK, NEW item \in Item, NEW i \in Ids, Adds(item, i)
    PROVE  /\ i \notin Present(rows) /\ Present(rows') = Present(rows) \union {i}
           /\ rows'[i] = RowOf(item) /\ \A j \in Ids \ {i} : rows'[j] = rows[j]
           /\ Free(item.addr, i)
<1>1. rows[i] = NoRow /\ rows' = [rows EXCEPT ![i] = RowOf(item)] /\ Free(item.addr, i)
  BY DEF Adds, Insertable
<1>2. rows'[i] = RowOf(item) /\ \A j \in Ids \ {i} : rows'[j] = rows[j]
  BY <1>1, CallType DEF Table
<1> QED BY <1>1, <1>2, RowOfType DEF Present

LEMMA ChangedRow ==
    ASSUME TypeOK, NEW item \in Item, NEW i \in Ids, Changes(item, i),
           Present(call.current) \subseteq Present(rows)
    PROVE  /\ i \in Present(call.current) /\ i \in Present(rows) /\ Present(rows') = Present(rows)
           /\ rows'[i] = RowOf(item) /\ \A j \in Ids \ {i} : rows'[j] = rows[j]
           /\ Free(item.addr, i) /\ RowOf(item) # call.current[i]
<1>1. /\ i \in Matched(item) /\ ~ Same(i, item) /\ Free(item.addr, i)
      /\ rows' = [rows EXCEPT ![i] = RowOf(item)]
  BY DEF Changes
<1>2. i \in Present(call.current) /\ i \in Present(rows)
  BY <1>1, MatchedType
<1>3. rows'[i] = RowOf(item) /\ \A j \in Ids \ {i} : rows'[j] = rows[j]
  BY <1>1, CallType DEF Table
<1>4. Present(rows') = Present(rows)
  BY <1>2, <1>3, RowOfType DEF Present
<1>5. RowOf(item) # call.current[i]
  BY <1>1, RowAgrees DEF Same
<1> QED BY <1>1, <1>2, <1>3, <1>4, <1>5

LEMMA UniqueStep == TypeOK /\ ProgressInv /\ UniqueInv /\ ItemsInv /\ [Next]_vars => UniqueInv'
<1> SUFFICES ASSUME TypeOK, ProgressInv, UniqueInv, ItemsInv, [Next]_vars PROVE UniqueInv'
  OBVIOUS
<1>0. Present(rows) \subseteq Ids
  BY DEF Present
<1>1. CASE Starts
  <2>1. rows' = rows /\ call'.current = rows
    BY <1>1, ListMeans, CallType DEF Starts, Aligned
  <2> QED BY <2>1 DEF UniqueInv
<1>2. ASSUME InItems, NEW i \in Ids,
             Adds(Head(call.left), i) \/ Changes(Head(call.left), i) \/ Keeps(Head(call.left), i)
      PROVE  UniqueInv'
  <2> DEFINE item == Head(call.left)
  <2>1. item \in Item
    BY <1>2, NextItem
  <2>2. call'.current = call.current
    BY <1>2, ProceedMeans DEF Adds, Changes, Keeps
  <2>3. CASE Adds(item, i) \/ Changes(item, i)
    <3>1. /\ Present(rows') \subseteq Present(rows) \union {i}
          /\ rows'[i].addr = item.addr /\ \A j \in Ids \ {i} : rows'[j] = rows[j]
          /\ Free(item.addr, i)
      <4>1. CASE Adds(item, i)
        BY <2>1, <4>1, AddedRow, RowOfType
      <4>2. CASE Changes(item, i)
        BY <1>2, <2>1, <4>2, ChangedRow, RowOfType DEF ItemsInv, InItems
      <4> QED BY <2>3, <4>1, <4>2
    <3>2. \A j \in Present(rows) \ {i} : rows[j].addr # item.addr
      BY <3>1 DEF Free
    <3>3. UniqueIn(rows')
      BY <1>0, <3>1, <3>2 DEF UniqueInv, UniqueIn
    <3> QED BY <2>2, <3>3 DEF UniqueInv
  <2>4. CASE Keeps(item, i)
    BY <2>2, <2>4 DEF Keeps, UniqueInv
  <2> QED BY <1>2, <2>3, <2>4
<1>3. ASSUME InItems, Refuse(Head(call.left)) PROVE UniqueInv'
  <2>1. rows' = call.current /\ call'.current = call.current
    BY <1>3 DEF Refuse, TypeOK, Call
  <2> QED BY <2>1 DEF UniqueInv
<1>4. CASE Finish
  <2>1. call'.current = call.current
    BY <1>4 DEF Finish, TypeOK, Call
  <2>2. \A i \in Ids : rows'[i] = rows[i] \/ rows'[i] = NoRow
    BY <1>4 DEF Finish
  <2>3. UniqueIn(rows')
    BY <2>2 DEF UniqueInv, UniqueIn, Present
  <2> QED BY <2>1, <2>3 DEF UniqueInv
<1>5. CASE Return
  <2>1. rows' = rows /\ call'.current = NoRows
    BY <1>5 DEF Return, NoCall
  <2>2. UniqueIn(NoRows)
    BY DEF UniqueIn, Present, NoRows
  <2> QED BY <2>1, <2>2 DEF UniqueInv
<1>6. ASSUME NEW i \in Ids, NEW row \in Row, Register(i, row) PROVE UniqueInv'
  <2>1. call' = call /\ rows' = [rows EXCEPT ![i] = row] /\ Free(row.addr, i)
    BY <1>6 DEF Register
  <2>2. rows'[i] = row /\ \A j \in Ids \ {i} : rows'[j] = rows[j]
    BY <2>1, CallType DEF Table
  <2>3. UniqueIn(rows')
    BY <2>1, <2>2 DEF UniqueInv, UniqueIn, Present, Free
  <2> QED BY <2>1, <2>3 DEF UniqueInv
<1>7. CASE UNCHANGED vars
  BY <1>7 DEF vars, UniqueInv
<1> QED BY <1>1, <1>2, <1>3, <1>4, <1>5, <1>6, <1>7, StepEffect

LEMMA ItemsStep == TypeOK /\ ProgressInv /\ ItemsInv /\ [Next]_vars => ItemsInv'
<1> SUFFICES ASSUME TypeOK, ProgressInv, ItemsInv, [Next]_vars PROVE ItemsInv'
  OBVIOUS
<1>1. CASE Starts
  <2>1. /\ rows' = rows /\ call'.current = rows /\ call'.seen = {} /\ call'.done = <<>>
        /\ call'.removed = {}
    BY <1>1, ListMeans, CallType DEF Starts, Aligned
  <2>2. With("create")' = {} /\ With("update")' = {}
    BY <2>1 DEF With, ToSet
  <2> QED BY <2>1, <2>2 DEF ItemsInv
<1>2. ASSUME InItems, NEW i \in Ids,
             Adds(Head(call.left), i) \/ Changes(Head(call.left), i) \/ Keeps(Head(call.left), i)
      PROVE  ItemsInv'
  <2> DEFINE item == Head(call.left)
             kind == IF Adds(item, i) THEN "create" ELSE IF Changes(item, i) THEN "update" ELSE "unchanged"
  <2>0. PICK op \in {"create", "update", "unchanged"} :
           /\ Proceed(op, i)
           /\ \/ op = "create" /\ Adds(item, i)
              \/ op = "update" /\ Changes(item, i)
              \/ op = "unchanged" /\ Keeps(item, i)
    BY <1>2 DEF Adds, Changes, Keeps
  <2>1. /\ item \in Item /\ item = call.given[Looked + 1] /\ Looked \in Nat
    BY <1>2, NextItem
  <2>2. /\ Looked' = Looked + 1 /\ call'.current = call.current /\ call'.given = call.given
        /\ call'.removed = call.removed /\ call'.seen = call.seen \union {i}
    BY <1>2, <2>0, ProceedMeans
  <2>3. /\ With("create")' = With("create") \union (IF op = "create" THEN {i} ELSE {})
        /\ With("update")' = With("update") \union (IF op = "update" THEN {i} ELSE {})
    BY <1>2, <2>0, ProceedRecords
  <2>4. /\ Present(call.current) \subseteq Present(rows)
        /\ call.seen \subseteq Present(rows)
        /\ \A j \in Present(rows) : j \notin call.seen =>
              j \in Present(call.current) /\ rows[j] = call.current[j]
        /\ \A j \in call.seen : \E k \in 1 .. Looked : Agrees(rows[j], call.given[k])
        /\ With("create") = Present(rows) \ Present(call.current)
        /\ With("update") = {j \in Present(call.current) : rows[j] # call.current[j]}
        /\ call.removed = {}
    BY <1>2 DEF ItemsInv, InItems
  <2>5. Present(rows) \subseteq Ids /\ Present(call.current) \subseteq Ids
    BY DEF Present
  <2>6. \A k \in 1 .. Looked : k \in 1 .. Looked + 1
    BY <2>1
  <2>7. Looked + 1 \in 1 .. Looked + 1
    BY <2>1
  <2>8. CASE op = "create"
    <3>1. /\ i \notin Present(rows) /\ Present(rows') = Present(rows) \union {i}
          /\ rows'[i] = RowOf(item) /\ \A j \in Ids \ {i} : rows'[j] = rows[j]
      BY <2>0, <2>1, <2>8, AddedRow
    <3>2. \A j \in call.seen \union {i} : \E k \in 1 .. Looked + 1 : Agrees(rows'[j], call.given[k])
      <4>1. Agrees(rows'[i], call.given[Looked + 1])
        BY <2>1, <3>1, RowAgrees
      <4> QED BY <2>4, <2>5, <2>6, <2>7, <3>1, <4>1
    <3>3. With("create")' = Present(rows') \ Present(call.current)
      BY <2>3, <2>4, <2>8, <3>1
    <3>4. With("update")' = {j \in Present(call.current) : rows'[j] # call.current[j]}
      BY <2>3, <2>4, <2>5, <2>8, <3>1
    <3>5. \A j \in Present(rows') : j \notin call.seen \union {i} =>
              j \in Present(call.current) /\ rows'[j] = call.current[j]
      BY <2>4, <2>5, <3>1
    <3> QED BY <2>2, <2>4, <3>1, <3>2, <3>3, <3>4, <3>5 DEF ItemsInv
  <2>9. CASE op = "update"
    <3>1. /\ i \in Present(call.current) /\ i \in Present(rows) /\ Present(rows') = Present(rows)
          /\ rows'[i] = RowOf(item) /\ \A j \in Ids \ {i} : rows'[j] = rows[j]
          /\ RowOf(item) # call.current[i]
      BY <2>0, <2>1, <2>4, <2>9, ChangedRow
    <3>2. \A j \in call.seen \union {i} : \E k \in 1 .. Looked + 1 : Agrees(rows'[j], call.given[k])
      <4>1. Agrees(rows'[i], call.given[Looked + 1])
        BY <2>1, <3>1, RowAgrees
      <4> QED BY <2>4, <2>5, <2>6, <2>7, <3>1, <4>1
    <3>3. With("create")' = Present(rows') \ Present(call.current)
      BY <2>3, <2>4, <2>9, <3>1
    <3>4. With("update")' = {j \in Present(call.current) : rows'[j] # call.current[j]}
      BY <2>3, <2>4, <2>5, <2>9, <3>1
    <3>5. \A j \in Present(rows') : j \notin call.seen \union {i} =>
              j \in Present(call.current) /\ rows'[j] = call.current[j]
      BY <2>4, <2>5, <3>1
    <3> QED BY <2>2, <2>4, <3>1, <3>2, <3>3, <3>4, <3>5 DEF ItemsInv
  <2>10. CASE op = "unchanged"
    <3>1. rows' = rows /\ i \in Matched(item) /\ Agrees(call.current[i], item)
      BY <2>0, <2>10 DEF Keeps, Same
    <3>2. i \in Present(rows)
      BY <2>4, <3>1, MatchedType
    <3>3. \A j \in call.seen \union {i} : \E k \in 1 .. Looked + 1 : Agrees(rows[j], call.given[k])
      <4>1. i \notin call.seen => Agrees(rows[i], call.given[Looked + 1])
        BY <2>1, <2>4, <3>1, <3>2
      <4> QED BY <2>4, <2>6, <2>7, <4>1
    <3>4. UNCHANGED <<With("create"), With("update")>>
      BY <2>3, <2>10
    <3> QED BY <2>2, <2>4, <3>1, <3>2, <3>3, <3>4 DEF ItemsInv
  <2> QED BY <2>8, <2>9, <2>10
<1>3. ASSUME call'.phase # "items" PROVE ItemsInv'
  BY <1>3 DEF ItemsInv
<1>4. ASSUME Finish \/ Return \/ (InItems /\ Refuse(Head(call.left))) PROVE call'.phase # "items"
  <2>1. CASE Finish
    BY <2>1 DEF Finish, TypeOK, Call
  <2>2. CASE Return
    BY <2>2 DEF Return, NoCall
  <2>3. CASE InItems /\ Refuse(Head(call.left))
    BY <2>3 DEF Refuse, TypeOK, Call
  <2> QED BY <1>4, <2>1, <2>2, <2>3
<1>5. ASSUME NEW i \in Ids, NEW row \in Row, Register(i, row) PROVE call'.phase # "items"
  BY <1>5 DEF Register
<1>6. CASE UNCHANGED vars
  BY <1>6 DEF vars, ItemsInv, Looked, With
<1> QED BY <1>1, <1>2, <1>3, <1>4, <1>5, <1>6, StepEffect

(* What Finish leaves: the rows that items have matched or added.              *)
LEMMA FinishMeans ==
    ASSUME TypeOK, ProgressInv, ItemsInv, Finish
    PROVE  /\ call'.phase = "done" /\ call'.current = call.current /\ call'.given = call.given
           /\ call'.done = call.done /\ call'.again = call.again /\ call'.seen = call.seen
           /\ call'.removed = Present(call.current) \ call.seen
           /\ Present(rows') = call.seen /\ \A i \in call.seen : rows'[i] = rows[i]
           /\ Looked' = Looked /\ Looked = Len(call.given)
<1> DEFINE rest == Present(call.current) \ call.seen
<1>1. /\ call.phase = "items" /\ call.left = <<>>
      /\ call' = [call EXCEPT !.phase = "done", !.removed = rest]
      /\ rows' = [i \in Ids |-> IF i \in rest THEN NoRow ELSE rows[i]]
  BY DEF Finish
<1>2. /\ call'.phase = "done" /\ call'.current = call.current /\ call'.given = call.given
      /\ call'.done = call.done /\ call'.again = call.again /\ call'.seen = call.seen
      /\ call'.removed = rest /\ call'.left = call.left
  BY <1>1 DEF TypeOK, Call
<1>3. /\ Present(rows') = Present(rows) \ rest
      /\ \A i \in Ids \ rest : rows'[i] = rows[i]
  BY <1>1 DEF Present
<1>4. Present(rows) \ rest = call.seen
  BY <1>1 DEF ItemsInv
<1>5. Looked' = Looked /\ Looked = Len(call.given)
  <2>1. Len(call.given) \in Nat /\ Len(call.left) = 0
    BY <1>1, CallType
  <2>2. Looked' = Looked
    BY <1>2 DEF Looked
  <2>3. Len(call.given) - 0 = Len(call.given)
    BY <2>1
  <2> QED BY <2>1, <2>2, <2>3 DEF Looked
<1> QED BY <1>2, <1>3, <1>4, <1>5, CallType

(* The properties of a sync that has succeeded are settled when it finishes.   *)
LEMMA DoneLater ==
    ASSUME TypeOK, ProgressInv, [Next]_vars, call'.phase = "done"
    PROVE  Finish \/ UNCHANGED vars
<1>1. CASE Starts
  BY <1>1, ListMeans, CallType DEF Starts, Aligned
<1>2. ASSUME InItems, NEW i \in Ids,
             Adds(Head(call.left), i) \/ Changes(Head(call.left), i) \/ Keeps(Head(call.left), i)
      PROVE  FALSE
  BY <1>2, ProceedMeans DEF Adds, Changes, Keeps
<1>3. ASSUME InItems, Refuse(Head(call.left)) PROVE FALSE
  BY <1>3 DEF Refuse, TypeOK, Call
<1>4. CASE Return
  BY <1>4 DEF Return, NoCall
<1>5. ASSUME NEW i \in Ids, NEW row \in Row, Register(i, row) PROVE FALSE
  BY <1>5 DEF Register
<1> QED BY <1>1, <1>2, <1>3, <1>4, <1>5, StepEffect

LEMMA ItemsInit == Init => ItemsInv /\ UniqueInv
<1>1. Present(NoRows) = {}
  BY DEF Present, NoRows
<1>2. NoCall.phase = "idle" /\ NoCall.current = NoRows
  BY DEF NoCall
<1> QED BY <1>1, <1>2 DEF Init, ItemsInv, UniqueInv, UniqueIn

SyncInv == TypeOK /\ ProgressInv /\ UniqueInv /\ ItemsInv

LEMMA SyncIsSound == Spec => []SyncInv
BY TypeInit, TypeStep, ItemsInit, UniqueStep, ItemsStep, PTL DEF Spec, SyncInv

(* Nothing stays that was not declared (the last loop of SyncInstances).       *)
THEOREM OnlyDeclaredStay == Spec => []OnlyDeclared
<1>1. Init => OnlyDeclared
  BY DEF Init, NoCall, OnlyDeclared, Succeeded
<1>2. SyncInv /\ OnlyDeclared /\ [Next]_vars => OnlyDeclared'
  <2> SUFFICES ASSUME SyncInv, OnlyDeclared, [Next]_vars, call'.phase = "done" PROVE OnlyDeclared'
    BY DEF OnlyDeclared, Succeeded
  <2>1. CASE UNCHANGED vars
    BY <2>1 DEF vars, OnlyDeclared, Succeeded
  <2>2. CASE Finish
    <3>1. /\ call'.given = call.given /\ Present(rows') = call.seen
          /\ \A i \in call.seen : rows'[i] = rows[i]
          /\ Looked = Len(call.given)
      BY <2>2, FinishMeans DEF SyncInv
    <3>2. \A i \in call.seen : \E j \in 1 .. Looked : Agrees(rows[i], call.given[j])
      BY <2>2 DEF SyncInv, ItemsInv, Finish
    <3>3. DOMAIN call.given = 1 .. Len(call.given)
      BY CallType DEF SyncInv
    <3>4. \A i \in call.seen : \E item \in ToSet(call.given) : Agrees(rows[i], item)
      BY <3>1, <3>2, <3>3 DEF ToSet
    <3> QED BY <3>1, <3>4 DEF OnlyDeclared
  <2> QED BY <2>1, <2>2, DoneLater DEF SyncInv
<1> QED BY <1>1, <1>2, SyncIsSound, PTL DEF Spec

(* The change records are the difference between the tables before and after,  *)
(* though each is written for an item (recordChange in SyncInstances).         *)
THEOREM RecordsAreExact == Spec => []RecordsAreTheDifference
<1>1. Init => RecordsAreTheDifference
  BY DEF Init, NoCall, RecordsAreTheDifference, Succeeded
<1>2. SyncInv /\ RecordsAreTheDifference /\ [Next]_vars => RecordsAreTheDifference'
  <2> SUFFICES ASSUME SyncInv, RecordsAreTheDifference, [Next]_vars, call'.phase = "done"
               PROVE  RecordsAreTheDifference'
    BY DEF RecordsAreTheDifference, Succeeded
  <2>1. CASE UNCHANGED vars
    BY <2>1 DEF vars, RecordsAreTheDifference, Succeeded, With
  <2>2. CASE Finish
    <3>1. /\ call'.current = call.current /\ call'.done = call.done
          /\ call'.removed = Present(call.current) \ call.seen
          /\ Present(rows') = call.seen /\ \A i \in call.seen : rows'[i] = rows[i]
      BY <2>2, FinishMeans DEF SyncInv
    <3>2. /\ call.seen \subseteq Present(rows)
          /\ \A i \in Present(rows) : i \notin call.seen =>
                i \in Present(call.current) /\ rows[i] = call.current[i]
          /\ Present(call.current) \subseteq Present(rows)
          /\ With("create") = Present(rows) \ Present(call.current)
          /\ With("update") = {i \in Present(call.current) : rows[i] # call.current[i]}
      BY <2>2 DEF SyncInv, ItemsInv, Finish
    <3>3. With("create")' = With("create") /\ With("update")' = With("update")
      BY <3>1 DEF With
    <3>4. With("create")' = call.seen \ Present(call.current)
      BY <3>2, <3>3
    <3>5. With("update")' = {i \in Present(call.current) \intersect call.seen : rows'[i] # call.current[i]}
      BY <3>1, <3>2, <3>3
    <3> QED BY <3>1, <3>4, <3>5 DEF RecordsAreTheDifference
  <2> QED BY <2>1, <2>2, DoneLater DEF SyncInv
<1> QED BY <1>1, <1>2, SyncIsSound, PTL DEF Spec

-----------------------------------------------------------------------------
(* Items that stand for instances of their own *)

\* With such items, each one looked at has a row that agrees with it and that no
\* other item touches; a row of the list is as listed until its item comes.
OwnInv ==
    call.phase = "items" /\ Distinct =>
        /\ \A j \in 1 .. Looked : \E i \in call.seen :
              /\ Agrees(rows[i], call.given[j])
              /\ i \in Matched(call.given[j]) \/ i \notin Present(call.current)
        /\ \A i \in Present(call.current) :
              (\A j \in 1 .. Looked : i \notin Matched(call.given[j])) => rows[i] = call.current[i]

(* Matched looks at the list alone.                                            *)
LEMMA MatchedStays ==
    ASSUME call'.current = call.current, call'.given = call.given
    PROVE  /\ \A j : Matched(call.given[j])' = Matched(call.given[j])
           /\ Distinct' <=> Distinct
BY DEF Matched, Distinct

LEMMA OwnStep == SyncInv /\ OwnInv /\ [Next]_vars => OwnInv'
<1> SUFFICES ASSUME SyncInv, OwnInv, [Next]_vars, call'.phase = "items", Distinct' PROVE OwnInv'
  BY DEF OwnInv
<1>1. CASE Starts
  <2>1. rows' = rows /\ call'.current = rows /\ Looked' = 0
    BY <1>1, ListMeans, CallType DEF SyncInv, Starts, Aligned
  <2> QED BY <2>1 DEF OwnInv
<1>2. ASSUME InItems, NEW i \in Ids,
             Adds(Head(call.left), i) \/ Changes(Head(call.left), i) \/ Keeps(Head(call.left), i)
      PROVE  OwnInv'
  <2> DEFINE item == Head(call.left)
             given == call.given
  <2>1. /\ item \in Item /\ item = given[Looked + 1] /\ Looked \in Nat
        /\ Looked + 1 \in DOMAIN given /\ DOMAIN given = 1 .. Len(given) /\ Len(given) \in Nat
    BY <1>2, NextItem DEF SyncInv
  <2>2. /\ Looked' = Looked + 1 /\ call'.current = call.current /\ call'.given = given
        /\ call'.seen = call.seen \union {i}
    BY <1>2, ProceedMeans DEF SyncInv, Adds, Changes, Keeps
  <2>3. /\ \A j : Matched(given[j])' = Matched(given[j])
        /\ Distinct
    BY <2>2, MatchedStays
  <2>4. /\ \A j \in 1 .. Looked : \E k \in call.seen :
              /\ Agrees(rows[k], given[j])
              /\ k \in Matched(given[j]) \/ k \notin Present(call.current)
        /\ \A k \in Present(call.current) :
              (\A j \in 1 .. Looked : k \notin Matched(given[j])) => rows[k] = call.current[k]
    BY <1>2, <2>3 DEF OwnInv, InItems
  <2>5. /\ Present(call.current) \subseteq Present(rows) /\ call.seen \subseteq Present(rows)
        /\ Present(rows) \subseteq Ids
    BY <1>2 DEF SyncInv, ItemsInv, InItems, Present
  <2>6. 1 .. Looked + 1 = (1 .. Looked) \union {Looked + 1} /\ Looked + 1 \notin 1 .. Looked
        /\ 1 .. Looked + 1 \subseteq DOMAIN given
    BY <2>1
  <2>7. \A j \in 1 .. Looked : Matched(given[j]) \intersect Matched(item) = {}
    BY <2>1, <2>3, <2>6 DEF Distinct
  <2>8. /\ \A k \in Ids \ {i} : rows'[k] = rows[k]
        /\ Agrees(rows'[i], item)
        /\ i \in Matched(item) \/ i \notin Present(rows)
        /\ i \notin Matched(item) => Matched(item) = {}
    <3>1. CASE Adds(item, i)
      BY <2>1, <3>1, AddedRow, RowAgrees DEF SyncInv, Adds
    <3>2. CASE Changes(item, i)
      <4>1. rows'[i] = RowOf(item) /\ \A k \in Ids \ {i} : rows'[k] = rows[k]
        BY <2>1, <2>5, <3>2, ChangedRow DEF SyncInv
      <4> QED BY <2>1, <3>2, <4>1, RowAgrees DEF Changes
    <3>3. CASE Keeps(item, i)
      <4>1. i \in Matched(item) /\ Agrees(call.current[i], item) /\ rows' = rows
        BY <3>3 DEF Keeps, Same
      <4>2. i \in Present(call.current)
        BY <4>1, MatchedType DEF SyncInv
      <4>3. \A j \in 1 .. Looked : i \notin Matched(given[j])
        BY <2>7, <4>1
      <4>4. rows[i] = call.current[i]
        BY <2>4, <4>2, <4>3
      <4> QED BY <4>1, <4>4
    <3> QED BY <1>2, <3>1, <3>2, <3>3
  <2>9. ASSUME NEW j \in 1 .. Looked + 1
        PROVE  \E k \in call.seen \union {i} :
                  /\ Agrees(rows'[k], given[j])
                  /\ k \in Matched(given[j]) \/ k \notin Present(call.current)
    <3>1. CASE j = Looked + 1
      BY <2>1, <2>5, <2>8, <3>1
    <3>2. CASE j \in 1 .. Looked
      <4>1. PICK k \in call.seen : /\ Agrees(rows[k], given[j])
                                   /\ k \in Matched(given[j]) \/ k \notin Present(call.current)
        BY <2>4, <3>2
      <4>2. k # i
        <5>1. Matched(item) \subseteq Present(call.current)
          BY MatchedType DEF SyncInv
        <5> QED BY <2>5, <2>7, <2>8, <3>2, <4>1, <5>1
      <4>3. rows'[k] = rows[k]
        BY <2>5, <2>8, <4>1, <4>2
      <4> QED BY <4>1, <4>3
    <3> QED BY <2>6, <3>1, <3>2
  <2>10. ASSUME NEW k \in Present(call.current), \A j \in 1 .. Looked + 1 : k \notin Matched(given[j])
         PROVE  rows'[k] = call.current[k]
    <3>1. k \notin Matched(item) /\ \A j \in 1 .. Looked : k \notin Matched(given[j])
      BY <2>1, <2>6, <2>10
    <3>2. rows[k] = call.current[k] /\ k # i /\ k \in Ids
      BY <2>4, <2>5, <2>8, <3>1
    <3> QED BY <2>8, <3>2
  <2> QED BY <2>2, <2>3, <2>9, <2>10 DEF OwnInv
<1>3. ASSUME Finish PROVE FALSE
  BY <1>3, FinishMeans DEF SyncInv
<1>4. ASSUME InItems, Refuse(Head(call.left)) PROVE FALSE
  BY <1>4 DEF Refuse, SyncInv, TypeOK, Call
<1>5. CASE Return
  BY <1>5 DEF Return, NoCall
<1>6. ASSUME NEW i \in Ids, NEW row \in Row, Register(i, row) PROVE FALSE
  BY <1>6 DEF Register
<1>7. CASE UNCHANGED vars
  BY <1>7 DEF vars, OwnInv, Looked, Distinct, Matched
<1> QED BY <1>1, <1>2, <1>3, <1>4, <1>5, <1>6, <1>7, StepEffect DEF SyncInv

(* "The set must be completely aligned" (comment of SyncInstances): so it is    *)
(* when every item stands for an instance of its own, in whatever order.       *)
THEOREM DistinctItemsAreAligned == Spec => []DistinctItemsAlign
<1>1. Init => DistinctItemsAlign /\ OwnInv
  BY DEF Init, NoCall, DistinctItemsAlign, Succeeded, OwnInv
<1>2. SyncInv /\ OnlyDeclared' /\ OwnInv /\ DistinctItemsAlign /\ [Next]_vars => DistinctItemsAlign'
  <2> SUFFICES ASSUME SyncInv, OnlyDeclared', OwnInv, DistinctItemsAlign, [Next]_vars,
                      call'.phase = "done", Distinct'
               PROVE  Aligned'
    BY DEF DistinctItemsAlign, Succeeded
  <2>1. CASE UNCHANGED vars
    BY <2>1 DEF vars, DistinctItemsAlign, Succeeded, Distinct, Matched, Aligned
  <2>2. CASE Finish
    <3>1. /\ call'.current = call.current /\ call'.given = call.given
          /\ Present(rows') = call.seen /\ \A i \in call.seen : rows'[i] = rows[i]
          /\ Looked = Len(call.given)
      BY <2>2, FinishMeans DEF SyncInv
    <3>2. Distinct
      BY <3>1, MatchedStays
    <3>3. \A j \in 1 .. Looked : \E i \in call.seen : Agrees(rows[i], call.given[j])
      BY <2>2, <3>2 DEF OwnInv, Finish
    <3>4. DOMAIN call.given = 1 .. Len(call.given)
      BY CallType DEF SyncInv
    <3>5. \A item \in ToSet(call.given) : \E i \in call.seen : Agrees(rows'[i], item)
      BY <3>1, <3>3, <3>4 DEF ToSet
    <3>6. \A i \in Present(rows') : \E item \in ToSet(call'.given) : Agrees(rows'[i], item)
      BY DEF OnlyDeclared, Succeeded
    <3> QED BY <3>1, <3>5, <3>6 DEF Aligned
  <2> QED BY <2>1, <2>2, DoneLater DEF SyncInv
<1> QED BY <1>1, <1>2, SyncIsSound, OnlyDeclaredStay, OwnStep, PTL DEF Spec

-----------------------------------------------------------------------------
(* The same set again *)

\* Where the rows come from that were added, and those whose id an item names.
HistoryInv ==
    call.phase \in {"items", "done"} =>
        /\ \A j \in 1 .. Looked : Matched(call.given[j]) \subseteq call.seen
        /\ \A x \in Present(rows) \ Present(call.current) :
              \/ \E j \in 1 .. Looked : /\ call.given[j].id = x
                                        /\ Matched(call.given[j]) = {}
                                        /\ rows[x] = RowOf(call.given[j])
              \/ \A j \in DOMAIN call.given : call.given[j].id # x
        /\ \A x \in Present(call.current) \intersect Present(rows) :
              \/ rows[x] = call.current[x]
              \/ \E m \in 1 .. Looked : x \in Matched(call.given[m]) /\ rows[x] = RowOf(call.given[m])
        /\ \A j \in 1 .. Looked, x \in Present(call.current) \intersect Present(rows) :
              call.given[j].id = x =>
                 \/ Agrees(rows[x], call.given[j])
                 \/ \E m \in 1 .. Looked :
                       m # j /\ x \in Matched(call.given[m]) /\ rows[x] = RowOf(call.given[m])

(* An item matches one instance at most.                                       *)
LEMMA OneMatch ==
    ASSUME TypeOK, UniqueInv, NEW item, NEW i \in Matched(item)
    PROVE  Matched(item) = {i}
<1>1. CASE item.id \in Present(call.current)
  BY <1>1 DEF Matched
<1>2. CASE item.id \notin Present(call.current)
  <2>1. Matched(item) = {k \in Present(call.current) : call.current[k].addr = item.addr}
    BY <1>2 DEF Matched
  <2>2. \A k \in Matched(item) : k = i
    BY <2>1 DEF UniqueInv, UniqueIn
  <2> QED BY <2>2
<1> QED BY <1>1, <1>2

LEMMA HistoryItem ==
    ASSUME SyncInv, HistoryInv, InItems, NEW i \in Ids,
           Adds(Head(call.left), i) \/ Changes(Head(call.left), i) \/ Keeps(Head(call.left), i)
    PROVE  HistoryInv'
<1> DEFINE item == Head(call.left)
           given == call.given
           listed == Present(call.current)
<1>0. TypeOK /\ ProgressInv /\ UniqueInv /\ ItemsInv /\ call.phase = "items"
  BY DEF SyncInv, InItems
<1>1. /\ item \in Item /\ item = given[Looked + 1] /\ Looked \in Nat
      /\ Looked + 1 \in DOMAIN given /\ DOMAIN given = 1 .. Len(given) /\ Len(given) \in Nat
  BY <1>0, NextItem
<1>2. /\ Looked' = Looked + 1 /\ call'.current = call.current /\ call'.given = given
      /\ call'.seen = call.seen \union {i}
  BY <1>0, ProceedMeans DEF Adds, Changes, Keeps
<1>3. \A j : Matched(given[j])' = Matched(given[j])
  BY <1>2, MatchedStays
<1>4. /\ listed \subseteq Present(rows) /\ Present(rows) \subseteq Ids
  BY <1>0 DEF ItemsInv, Present
<1>5. 1 .. Looked + 1 = (1 .. Looked) \union {Looked + 1} /\ Looked + 1 \notin 1 .. Looked
  BY <1>1
<1>6. /\ \A j \in 1 .. Looked : Matched(given[j]) \subseteq call.seen
      /\ \A x \in Present(rows) \ listed :
            \/ \E j \in 1 .. Looked : /\ given[j].id = x
                                      /\ Matched(given[j]) = {}
                                      /\ rows[x] = RowOf(given[j])
            \/ \A j \in DOMAIN given : given[j].id # x
      /\ \A x \in listed \intersect Present(rows) :
            \/ rows[x] = call.current[x]
            \/ \E m \in 1 .. Looked : x \in Matched(given[m]) /\ rows[x] = RowOf(given[m])
      /\ \A j \in 1 .. Looked, x \in listed \intersect Present(rows) :
            given[j].id = x =>
               \/ Agrees(rows[x], given[j])
               \/ \E m \in 1 .. Looked : m # j /\ x \in Matched(given[m]) /\ rows[x] = RowOf(given[m])
  BY <1>0 DEF HistoryInv
<1>7. /\ \A x \in Ids \ {i} : rows'[x] = rows[x]
      /\ Present(rows') \subseteq Present(rows) \union {i}
      /\ \/ /\ Matched(item) = {} /\ i \in NewIds(item) /\ i \notin Present(rows)
            /\ rows'[i] = RowOf(item)
         \/ Matched(item) = {i} /\ i \in listed /\ rows'[i] = RowOf(item)
         \/ Matched(item) = {i} /\ i \in listed /\ rows' = rows /\ Agrees(call.current[i], item)
  <2>1. CASE Adds(item, i)
    BY <1>0, <1>1, <2>1, AddedRow DEF Adds
  <2>2. CASE Changes(item, i)
    <3>1. /\ i \in listed /\ Present(rows') = Present(rows)
          /\ rows'[i] = RowOf(item) /\ \A j \in Ids \ {i} : rows'[j] = rows[j]
      BY <1>0, <1>1, <1>4, <2>2, ChangedRow
    <3>2. Matched(item) = {i}
      BY <1>0, <2>2, OneMatch DEF Changes
    <3> QED BY <3>1, <3>2
  <2>3. CASE Keeps(item, i)
    <3>1. i \in Matched(item) /\ rows' = rows /\ Agrees(call.current[i], item)
      BY <2>3 DEF Keeps, Same
    <3>2. Matched(item) = {i} /\ i \in listed
      BY <1>0, <3>1, OneMatch, MatchedType
    <3> QED BY <3>1, <3>2
  <2> QED BY <2>1, <2>2, <2>3
<1>8. \A j \in 1 .. Looked + 1 : Matched(given[j]) \subseteq call.seen \union {i}
  BY <1>1, <1>5, <1>6, <1>7
<1>9. ASSUME NEW x \in Present(rows') \ listed
      PROVE  \/ \E j \in 1 .. Looked + 1 : /\ given[j].id = x
                                           /\ Matched(given[j]) = {}
                                           /\ rows'[x] = RowOf(given[j])
             \/ \A j \in DOMAIN given : given[j].id # x
  <2>1. CASE x # i
    <3>1. x \in Present(rows) \ listed /\ rows'[x] = rows[x]
      BY <1>4, <1>7, <2>1
    <3> QED BY <1>5, <1>6, <3>1
  <2>2. CASE x = i
    <3>1. Matched(item) = {} /\ i \in NewIds(item) /\ rows'[i] = RowOf(item)
      BY <1>7, <2>2
    <3>2. CASE item.id # NoId
      <4>1. item.id = i
        BY <1>1, <3>1, <3>2, NewIdType
      <4> QED BY <1>1, <1>5, <2>2, <3>1, <4>1
    <3>3. CASE item.id = NoId
      <4>1. \A j \in DOMAIN given : given[j].id # i
        BY <1>1, <3>1, <3>3, NewIdType
      <4> QED BY <2>2, <4>1
    <3> QED BY <3>2, <3>3
  <2> QED BY <2>1, <2>2
<1>10. ASSUME NEW x \in listed \intersect Present(rows')
       PROVE  \/ rows'[x] = call.current[x]
              \/ \E m \in 1 .. Looked + 1 : x \in Matched(given[m]) /\ rows'[x] = RowOf(given[m])
  <2>1. x \in listed \intersect Present(rows)
    BY <1>4
  <2>2. CASE x # i \/ rows' = rows
    <3>1. rows'[x] = rows[x]
      BY <1>4, <1>7, <2>1, <2>2
    <3> QED BY <1>5, <1>6, <2>1, <3>1
  <2>3. CASE x = i /\ rows' # rows
    <3>1. x \in Matched(item) /\ rows'[x] = RowOf(item)
      BY <1>7, <2>1, <2>3
    <3> QED BY <1>1, <1>5, <3>1
  <2> QED BY <2>2, <2>3
<1>11. ASSUME NEW j \in 1 .. Looked + 1, NEW x \in listed \intersect Present(rows'), given[j].id = x
       PROVE  \/ Agrees(rows'[x], given[j])
              \/ \E m \in 1 .. Looked + 1 : m # j /\ x \in Matched(given[m]) /\ rows'[x] = RowOf(given[m])
  <2>1. x \in listed \intersect Present(rows)
    BY <1>4
  <2>2. CASE j \in 1 .. Looked
    <3>1. CASE x # i \/ rows' = rows
      <4>1. rows'[x] = rows[x]
        BY <1>4, <1>7, <2>1, <3>1
      <4> QED BY <1>5, <1>6, <1>11, <2>1, <2>2, <4>1
    <3>2. CASE x = i /\ rows' # rows
      <4>1. x \in Matched(item) /\ rows'[x] = RowOf(item)
        BY <1>7, <2>1, <3>2
      <4>2. Looked + 1 # j
        BY <1>5, <2>2
      <4> QED BY <1>1, <1>5, <4>1, <4>2
    <3> QED BY <3>1, <3>2
  <2>3. CASE j = Looked + 1
    <3>1. Matched(item) = {x}
      BY <1>1, <1>11, <2>1, <2>3 DEF Matched
    <3>2. x = i
      BY <1>7, <3>1
    <3>3. CASE rows'[i] = RowOf(item)
      BY <1>1, <2>3, <3>2, <3>3, RowAgrees
    <3>4. CASE rows' = rows /\ Agrees(call.current[i], item)
      <4>1. CASE rows[x] = call.current[x]
        BY <1>1, <2>3, <3>2, <3>4, <4>1
      <4>2. CASE \E m \in 1 .. Looked : x \in Matched(given[m]) /\ rows[x] = RowOf(given[m])
        BY <1>5, <2>3, <3>4, <4>2
      <4> QED BY <1>6, <2>1, <4>1, <4>2
    <3> QED BY <1>7, <3>1, <3>3, <3>4
  <2> QED BY <1>5, <2>2, <2>3
<1> QED BY <1>2, <1>3, <1>8, <1>9, <1>10, <1>11 DEF HistoryInv

LEMMA HistoryStep == SyncInv /\ HistoryInv /\ [Next]_vars => HistoryInv'
<1> SUFFICES ASSUME SyncInv, HistoryInv, [Next]_vars, call'.phase \in {"items", "done"}
             PROVE  HistoryInv'
  BY DEF HistoryInv
<1>1. CASE Starts
  <2>1. rows' = rows /\ call'.current = rows /\ Looked' = 0
    BY <1>1, ListMeans, CallType DEF SyncInv, Starts, Aligned
  <2> QED BY <2>1 DEF HistoryInv
<1>2. CASE Finish
  <2>1. /\ call'.current = call.current /\ call'.given = call.given /\ call'.seen = call.seen
        /\ Present(rows') = call.seen /\ \A i \in call.seen : rows'[i] = rows[i]
        /\ Looked' = Looked
    BY <1>2, FinishMeans DEF SyncInv
  <2>2. call.seen \subseteq Present(rows) /\ call.phase = "items"
    BY <1>2 DEF SyncInv, ItemsInv, Finish
  <2>3. \A j : Matched(call.given[j])' = Matched(call.given[j])
    BY <2>1, MatchedStays
  <2> QED BY <2>1, <2>2, <2>3 DEF HistoryInv
<1>3. ASSUME InItems, Refuse(Head(call.left)) PROVE FALSE
  BY <1>3 DEF Refuse, SyncInv, TypeOK, Call
<1>4. CASE Return
  BY <1>4 DEF Return, NoCall
<1>5. ASSUME NEW i \in Ids, NEW row \in Row, Register(i, row) PROVE FALSE
  BY <1>5 DEF Register
<1>6. CASE UNCHANGED vars
  <2>1. call' = call /\ rows' = rows /\ Looked' = Looked
    BY <1>6 DEF vars, Looked
  <2>2. \A j : Matched(call.given[j])' = Matched(call.given[j])
    BY <2>1, MatchedStays
  <2> QED BY <2>1, <2>2 DEF HistoryInv
<1> QED BY <1>1, <1>2, <1>3, <1>4, <1>5, <1>6, HistoryItem, StepEffect DEF SyncInv

\* What the next sync will match, and whether its items are distinct.
MatchedIn(table, item) ==
    IF item.id \in Present(table) THEN {item.id}
    ELSE {i \in Present(table) : table[i].addr = item.addr}

DistinctIn(table, given) ==
    \A j, k \in DOMAIN given :
        MatchedIn(table, given[j]) \intersect MatchedIn(table, given[k]) # {} => j = k

(* After a sync that aligned the table, the same items, if they stand for      *)
(* different instances, stand for those that agree with them.                  *)
LEMMA NamedAgrees ==
    ASSUME SyncInv, HistoryInv, call.phase = "done", DistinctIn(rows, call.given),
           NEW j \in DOMAIN call.given, call.given[j].id \in Present(rows)
    PROVE  Agrees(rows[call.given[j].id], call.given[j])
<1> DEFINE given == call.given
           listed == Present(call.current)
           x == given[j].id
<1>1. /\ 1 .. Looked = DOMAIN given /\ \A k \in DOMAIN given : given[k] \in Item
  <2>1. call.given \in Seq(Item) /\ call.left = <<>> /\ Len(call.left) = 0
    BY CallType DEF SyncInv, ProgressInv
  <2>2. Looked = Len(given)
    BY <2>1 DEF Looked
  <2> QED BY <2>1, <2>2
<1>2. /\ \A y \in Present(rows) \ listed :
            \/ \E k \in 1 .. Looked : /\ given[k].id = y
                                      /\ Matched(given[k]) = {}
                                      /\ rows[y] = RowOf(given[k])
            \/ \A k \in DOMAIN given : given[k].id # y
      /\ \A k \in 1 .. Looked, y \in listed \intersect Present(rows) :
            given[k].id = y =>
               \/ Agrees(rows[y], given[k])
               \/ \E m \in 1 .. Looked : m # k /\ y \in Matched(given[m]) /\ rows[y] = RowOf(given[m])
  BY DEF HistoryInv
<1>3. ASSUME NEW k \in DOMAIN given, NEW l \in DOMAIN given,
             given[k].id \in Present(rows), given[l].id = given[k].id
      PROVE  k = l
  <2>1. MatchedIn(rows, given[k]) = {given[k].id} /\ MatchedIn(rows, given[l]) = {given[k].id}
    BY <1>3 DEF MatchedIn
  <2> QED BY <2>1 DEF DistinctIn
<1>4. CASE x \notin listed
  <2>0. x \in Present(rows) \ listed
    BY <1>4
  <2> HIDE DEF x, listed
  <2>1. PICK k \in DOMAIN given : given[k].id = x /\ rows[x] = RowOf(given[k])
    <3>1. \/ \E k \in 1 .. Looked : given[k].id = x /\ rows[x] = RowOf(given[k])
          \/ \A k \in DOMAIN given : given[k].id # x
      BY <1>2, <2>0
    <3>2. given[j].id = x
      BY DEF x
    <3> QED BY <1>1, <3>1, <3>2
  <2>2. k = j
    BY <1>3, <2>0, <2>1 DEF x
  <2>3. rows[x] = RowOf(given[j]) /\ given[j] \in Item
    BY <1>1, <2>1, <2>2
  <2> QED BY <2>3, RowAgrees DEF x
<1>5. CASE x \in listed
  <2>1. SUFFICES ASSUME NEW m \in DOMAIN given, m # j, x \in Matched(given[m]), rows[x] = RowOf(given[m])
                 PROVE  FALSE
    BY <1>1, <1>2, <1>5
  <2>2. given[m].id # x
    BY <1>3, <2>1
  <2>3. given[m].id \notin listed
    BY <2>1, <2>2 DEF Matched
  <2>4. CASE given[m].id \in Present(rows)
    <3>1. PICK k \in DOMAIN given : given[k].id = given[m].id /\ Matched(given[k]) = {}
      BY <1>1, <1>2, <2>3, <2>4
    <3>2. k = m
      BY <1>3, <2>4, <3>1
    <3> QED BY <2>1, <3>1, <3>2
  <2>5. CASE given[m].id \notin Present(rows)
    <3>1. rows[x].addr = given[m].addr
      BY <1>1, <2>1, RowOfType
    <3>2. x \in MatchedIn(rows, given[m]) /\ x \in MatchedIn(rows, given[j])
      BY <2>5, <3>1 DEF MatchedIn
    <3> QED BY <2>1, <3>2 DEF DistinctIn
  <2> QED BY <2>4, <2>5
<1> QED BY <1>4, <1>5

LEMMA AgainMatches ==
    ASSUME SyncInv, HistoryInv, call.phase = "done", Aligned, DistinctIn(rows, call.given)
    PROVE  /\ \A j \in DOMAIN call.given : \E i \in Present(rows) :
                 MatchedIn(rows, call.given[j]) = {i} /\ Agrees(rows[i], call.given[j])
           /\ \A i \in Present(rows) : \E j \in DOMAIN call.given : i \in MatchedIn(rows, call.given[j])
<1> DEFINE given == call.given
<1>1. UniqueIn(rows)
  BY DEF SyncInv, UniqueInv
<1>2. ASSUME NEW j \in DOMAIN given, given[j].id \notin Present(rows), NEW i \in Present(rows),
             Agrees(rows[i], given[j])
      PROVE  MatchedIn(rows, given[j]) = {i}
  <2>1. MatchedIn(rows, given[j]) = {k \in Present(rows) : rows[k].addr = given[j].addr}
    BY <1>2 DEF MatchedIn
  <2>2. rows[i].addr = given[j].addr
    BY <1>2 DEF Agrees
  <2> QED BY <1>1, <2>1, <2>2 DEF UniqueIn
<1>3. ASSUME NEW j \in DOMAIN given
      PROVE  \E i \in Present(rows) : MatchedIn(rows, given[j]) = {i} /\ Agrees(rows[i], given[j])
  <2>1. CASE given[j].id \in Present(rows)
    BY <2>1, NamedAgrees DEF MatchedIn
  <2>2. CASE given[j].id \notin Present(rows)
    <3>1. PICK i \in Present(rows) : Agrees(rows[i], given[j])
      BY DEF Aligned, ToSet
    <3> QED BY <1>2, <2>2, <3>1
  <2> QED BY <2>1, <2>2
<1>4. ASSUME NEW i \in Present(rows)
      PROVE  \E j \in DOMAIN given : i \in MatchedIn(rows, given[j])
  <2>1. PICK j \in DOMAIN given : Agrees(rows[i], given[j])
    BY DEF Aligned, ToSet
  <2>2. PICK k \in Present(rows) : MatchedIn(rows, given[j]) = {k} /\ Agrees(rows[k], given[j])
    BY <1>3
  <2>3. rows[i].addr = rows[k].addr
    BY <2>1, <2>2 DEF Agrees
  <2>4. i = k
    BY <1>1, <2>3 DEF UniqueIn
  <2> QED BY <2>2, <2>4
<1> QED BY <1>3, <1>4

\* A repeated sync finds each item's instance as it was declared, and every
\* instance matched; so nothing is refused and nothing recorded.
AgainMatched ==
    /\ \A j \in DOMAIN call.given : \E i \in Present(call.current) :
          Matched(call.given[j]) = {i} /\ Agrees(call.current[i], call.given[j])
    /\ \A i \in Present(call.current) : \E j \in DOMAIN call.given : i \in Matched(call.given[j])

AgainRecords == With("create") \union With("update") \union call.removed

AgainInv ==
    call.again /\ Distinct =>
        AgainMatched /\ call.phase # "refused" /\ AgainRecords = {}

LEMMA AgainMatchedStays ==
    ASSUME call'.current = call.current, call'.given = call.given
    PROVE  AgainMatched => AgainMatched'
<1>1. \A j : Matched(call.given[j])' = Matched(call.given[j])
  BY MatchedStays
<1> SUFFICES ASSUME AgainMatched PROVE AgainMatched'
  OBVIOUS
<1>2. ASSUME NEW j \in DOMAIN call'.given
      PROVE  \E i \in Present(call'.current) :
                Matched(call.given[j])' = {i} /\ Agrees(call'.current[i], call'.given[j])
  BY <1>1, <1>2 DEF AgainMatched
<1>3. ASSUME NEW i \in Present(call'.current)
      PROVE  \E j \in DOMAIN call'.given : i \in Matched(call.given[j])'
  BY <1>1, <1>3 DEF AgainMatched
<1> QED BY <1>2, <1>3 DEF AgainMatched

LEMMA AgainStep == SyncInv /\ HistoryInv /\ AgainInv /\ [Next]_vars => AgainInv'
<1> SUFFICES ASSUME SyncInv, HistoryInv, AgainInv, [Next]_vars, call'.again, Distinct' PROVE AgainInv'
  BY DEF AgainInv
<1>0. TypeOK /\ ProgressInv /\ UniqueInv /\ ItemsInv
  BY DEF SyncInv
<1>1. CASE Starts
  <2>1. call.phase = "done" /\ List(call.given, Aligned)
    BY <1>0, <1>1, ListMeans DEF Starts
  <2>2. /\ call'.phase = "items" /\ call'.current = rows /\ call'.given = call.given /\ rows' = rows
        /\ call'.again = Aligned /\ call'.done = <<>> /\ call'.removed = {}
    <3>1. Aligned \in BOOLEAN /\ call.given \in Seq(Item)
      BY <1>0, CallType DEF Aligned
    <3> QED BY <1>0, <2>1, <3>1, ListMeans
  <2>3. With("create")' = {} /\ With("update")' = {}
    BY <2>2 DEF With, ToSet
  <2>4. \A j : Matched(call.given[j])' = MatchedIn(rows, call.given[j])
    BY <2>2 DEF Matched, MatchedIn
  <2>5. DistinctIn(rows, call.given)
    <3>1. \A j, k \in DOMAIN call.given :
             Matched(call.given[j])' \intersect Matched(call.given[k])' # {} => j = k
      BY <2>2 DEF Distinct
    <3> QED BY <2>4, <3>1 DEF DistinctIn
  <2>6. /\ \A j \in DOMAIN call.given : \E i \in Present(rows) :
              MatchedIn(rows, call.given[j]) = {i} /\ Agrees(rows[i], call.given[j])
        /\ \A i \in Present(rows) : \E j \in DOMAIN call.given : i \in MatchedIn(rows, call.given[j])
    BY <2>1, <2>2, <2>5, AgainMatches
  <2>7. AgainMatched'
    <3>1. ASSUME NEW j \in DOMAIN call'.given
          PROVE  \E i \in Present(call'.current) :
                    Matched(call.given[j])' = {i} /\ Agrees(call'.current[i], call'.given[j])
      BY <2>2, <2>4, <2>6, <3>1
    <3>2. ASSUME NEW i \in Present(call'.current)
          PROVE  \E j \in DOMAIN call'.given : i \in Matched(call.given[j])'
      BY <2>2, <2>4, <2>6, <3>2
    <3> QED BY <3>1, <3>2 DEF AgainMatched
  <2>8. AgainRecords' = {}
    BY <2>2, <2>3 DEF AgainRecords
  <2> QED BY <2>2, <2>7, <2>8 DEF AgainInv
<1>2. ASSUME call'.again = call.again, call'.current = call.current, call'.given = call.given,
             call'.phase # "refused", call'.done = call.done, call'.removed = {} \/ call'.removed = call.removed
      PROVE  AgainInv'
  <2>1. Distinct /\ call.again
    BY <1>2, MatchedStays
  <2>2. With("create")' = With("create") /\ With("update")' = With("update")
    BY <1>2 DEF With
  <2>3. AgainMatched'
    BY <1>2, <2>1, AgainMatchedStays DEF AgainInv
  <2>4. AgainRecords' = {}
    BY <1>2, <2>1, <2>2 DEF AgainInv, AgainRecords
  <2> QED BY <1>2, <2>3, <2>4 DEF AgainInv
<1>3. ASSUME InItems, NEW i \in Ids,
             Adds(Head(call.left), i) \/ Changes(Head(call.left), i) \/ Keeps(Head(call.left), i)
      PROVE  AgainInv'
  <2> DEFINE item == Head(call.left)
  <2>1. item = call.given[Looked + 1] /\ Looked + 1 \in DOMAIN call.given
    BY <1>0, <1>3, NextItem
  <2>2. /\ call'.phase = "items" /\ call'.current = call.current /\ call'.given = call.given
        /\ call'.again = call.again /\ call'.removed = call.removed
    BY <1>0, <1>3, ProceedMeans DEF Adds, Changes, Keeps
  <2>3. Distinct /\ call.again
    BY <2>2, MatchedStays
  <2>4. PICK k \in Present(call.current) : Matched(item) = {k} /\ Same(k, item)
    BY <2>1, <2>3 DEF AgainInv, AgainMatched, Same
  <2>5. Keeps(item, i)
    BY <1>3, <2>4 DEF Adds, Changes
  <2>6. With("create")' = With("create") /\ With("update")' = With("update")
    BY <1>0, <1>3, <2>5, ProceedRecords DEF Keeps
  <2>7. AgainMatched'
    BY <2>2, <2>3, AgainMatchedStays DEF AgainInv
  <2>8. AgainRecords' = {}
    BY <2>2, <2>3, <2>6 DEF AgainInv, AgainRecords
  <2> QED BY <2>2, <2>7, <2>8 DEF AgainInv
<1>4. ASSUME InItems, Refuse(Head(call.left)) PROVE FALSE
  <2> DEFINE item == Head(call.left)
  <2>1. item = call.given[Looked + 1] /\ Looked + 1 \in DOMAIN call.given
    BY <1>0, <1>4, NextItem
  <2>2. call'.current = call.current /\ call'.given = call.given /\ call'.again = call.again
    BY <1>0, <1>4 DEF Refuse, TypeOK, Call
  <2>3. Distinct /\ call.again
    BY <2>2, MatchedStays
  <2>4. PICK k \in Present(call.current) : Matched(item) = {k} /\ Same(k, item)
    BY <2>1, <2>3 DEF AgainInv, AgainMatched, Same
  <2> QED BY <1>4, <2>4 DEF Refuse
<1>5. CASE Finish
  <2>1. /\ call'.phase = "done" /\ call'.current = call.current /\ call'.given = call.given
        /\ call'.done = call.done /\ call'.again = call.again
        /\ call'.removed = Present(call.current) \ call.seen
        /\ Looked = Len(call.given)
    BY <1>0, <1>5, FinishMeans
  <2>2. Distinct
    BY <2>1, MatchedStays
  <2>3. \A i \in Present(call.current) : i \in call.seen
    <3>1. DOMAIN call.given = 1 .. Looked
      BY <1>0, <2>1, CallType
    <3>2. \A j \in 1 .. Looked : Matched(call.given[j]) \subseteq call.seen
      BY <1>5 DEF HistoryInv, Finish
    <3> QED BY <2>1, <2>2, <3>1, <3>2 DEF AgainInv, AgainMatched
  <2>4. call'.removed = {}
    BY <2>1, <2>3
  <2> QED BY <1>2, <2>1, <2>4
<1>6. CASE Return
  BY <1>6 DEF Return, NoCall
<1>7. ASSUME NEW i \in Ids, NEW row \in Row, Register(i, row) PROVE AgainInv'
  <2>1. call' = call /\ call.phase = "idle"
    BY <1>7 DEF Register
  <2> QED BY <1>2, <2>1
<1>8. CASE UNCHANGED vars
  BY <1>2, <1>8 DEF vars, AgainInv, Distinct, Matched
<1> QED BY <1>0, <1>1, <1>3, <1>4, <1>5, <1>6, <1>7, <1>8, StepEffect

(* "The same set again: all unchanged" (TestSyncInstancesDeclarative), for     *)
(* items that stand for instances of their own: no refusal, no record.         *)
THEOREM SyncIsRepeatable == Spec => []Repeatable
<1>1. Init => HistoryInv /\ AgainInv
  BY DEF Init, NoCall, HistoryInv, AgainInv
<1>2. AgainInv => Repeatable
  BY DEF AgainInv, AgainRecords, Repeatable
<1> QED BY <1>1, <1>2, SyncIsSound, HistoryStep, AgainStep, PTL DEF Spec

=============================================================================
