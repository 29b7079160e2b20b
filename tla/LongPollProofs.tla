--------------------------- MODULE LongPollProofs ---------------------------
(***************************************************************************)
(* What TLAPS proves of the long poll: its types, that an empty answer     *)
(* means the wait is over, and, for a store that serializes its write      *)
(* transactions and a client that follows the rows it is given, that the   *)
(* client misses nothing and is served the feed OrderedFeed promises.      *)
(***************************************************************************)
EXTENDS LongPoll, ChangeLogProofs

(* The steps of a request and its client, which leave the log alone.          *)
PollStep(p) ==
    \/ Query(p) \/ Park(p) \/ Wake(p) \/ Timeout(p) \/ Requery(p) \/ Answer(p)
    \/ Expire(p) \/ Cancel(p) \/ \E waits \in BOOLEAN : Call(p, waits)

LEMMA NextCases ==
    ASSUME [Next]_vars
    PROVE  \/ LogStep /\ UNCHANGED <<req, client>>
           \/ \E p \in Pollers : PollStep(p) /\ UNCHANGED logVars
           \/ Crash
           \/ UNCHANGED vars
<1>1. ASSUME NEW p \in Pollers,
             HandlerStep(p) \/ Expire(p) \/ Cancel(p) \/ \E waits \in BOOLEAN : Call(p, waits)
      PROVE  PollStep(p) /\ UNCHANGED logVars
  BY <1>1 DEF HandlerStep, PollStep, Query, Park, Wake, Timeout, Requery, Answer, Expire,
              Cancel, Call
<1> QED BY <1>1 DEF Next

LEMMA NoRequestType == NoRequest \in Request
BY DEF NoRequest, Request

(* The updates the handler makes to its request leave it a request.           *)
LEMMA RequestType ==
    ASSUME NEW q \in Request, NEW n \in Nat, NEW more \in BOOLEAN, NEW page \in SUBSET Change,
           NEW phase \in {"idle", "query", "park", "parked", "requery", "answer"}
    PROVE  /\ [q EXCEPT !.page = page, !.more = more, !.phase = phase] \in Request
           /\ [q EXCEPT !.phase = phase] \in Request
           /\ [q EXCEPT !.phase = phase, !.channel = n] \in Request
           /\ [q EXCEPT !.phase = phase, !.expired = TRUE] \in Request
           /\ [q EXCEPT !.expired = TRUE] \in Request
BY DEF Request

LEMMA PageType ==
    ASSUME LogTypeOK, NEW p \in Pollers
    PROVE  FirstRows(Pending(p), Limit) \subseteq changes /\ changes \subseteq Change
BY DEF FirstRows, Pending, Selected, LogTypeOK

(* What a query makes of its request.                                         *)
LEMMA QueryType ==
    ASSUME TypeOK, NEW p \in Pollers, NEW next \in {"answer", "park"}, Queries(p, next)
    PROVE  req' \in [Pollers -> Request]
<1> DEFINE page == FirstRows(Pending(p), Limit)
           more == page # Pending(p)
           phase == IF page # {} THEN "answer" ELSE next
<1>1. page \subseteq Change /\ more \in BOOLEAN /\ phase \in {"answer", "park"}
  BY PageType DEF TypeOK
<1>2. req' = [req EXCEPT ![p] = [req[p] EXCEPT !.page = page, !.more = more, !.phase = phase]]
  BY DEF Queries
<1> HIDE DEF page, more, phase
<1>3. [req[p] EXCEPT !.page = page, !.more = more, !.phase = phase] \in Request
  BY <1>1, RequestType DEF TypeOK
<1> QED BY <1>2, <1>3 DEF TypeOK

LEMMA PollStepType ==
    ASSUME TypeOK, NEW p \in Pollers, PollStep(p), UNCHANGED logVars
    PROVE  TypeOK'
<1> USE DEF TypeOK
<1>0. LogTypeOK'
  BY DEF logVars, LogTypeOK
<1>1. CASE Query(p) \/ Requery(p)
  <2>1. req' \in [Pollers -> Request]
    BY <1>1, QueryType DEF Query, Requery
  <2> QED BY <1>0, <1>1, <2>1 DEF Query, Requery
<1>2. CASE Park(p)
  <2>1. /\ [req[p] EXCEPT !.phase = "parked", !.channel = hub] \in Request
        /\ [req[p] EXCEPT !.phase = "requery", !.expired = TRUE] \in Request
    BY RequestType DEF LogTypeOK
  <2> QED BY <1>0, <1>2, <2>1 DEF Park
<1>3. CASE Wake(p) \/ Timeout(p) \/ Expire(p)
  <2>1. /\ [req[p] EXCEPT !.phase = "requery"] \in Request
        /\ [req[p] EXCEPT !.phase = "requery", !.expired = TRUE] \in Request
        /\ [req[p] EXCEPT !.expired = TRUE] \in Request
    BY RequestType
  <2> QED BY <1>0, <1>3, <2>1 DEF Wake, Timeout, Expire
<1>4. CASE Answer(p)
  <2>1. PICK new \in 0 .. MaxRevision :
          client' = [client EXCEPT ![p].cursor = new, ![p].got = @ \union req[p].page]
    BY <1>4 DEF Answer
  <2>2. new \in Nat /\ req[p].page \subseteq Change
    BY BoundsAssumption DEF Request
  <2>3. client' \in [Pollers -> Client]
    BY <2>1, <2>2 DEF Client
  <2> QED BY <1>0, <1>4, <2>3, NoRequestType DEF Answer
<1>5. CASE Cancel(p)
  BY <1>0, <1>5, NoRequestType DEF Cancel
<1>6. ASSUME NEW waits \in BOOLEAN, Call(p, waits) PROVE TypeOK'
  <2>1. [NoRequest EXCEPT !.phase = "query", !.since = client[p].cursor, !.waits = waits]
           \in Request
    BY DEF NoRequest, Request, Client
  <2> QED BY <1>0, <1>6, <2>1 DEF Call
<1> QED BY <1>1, <1>2, <1>3, <1>4, <1>5, <1>6 DEF PollStep

LEMMA StepType == TypeOK /\ [Next]_vars => TypeOK'
<1> SUFFICES ASSUME TypeOK, [Next]_vars PROVE TypeOK'
  OBVIOUS
<1>1. CASE LogStep /\ UNCHANGED <<req, client>>
  BY <1>1, LogStepType DEF TypeOK
<1>2. CASE \E p \in Pollers : PollStep(p) /\ UNCHANGED logVars
  BY <1>2, PollStepType
<1>3. CASE Crash
  BY <1>3, CrashLogType, NoRequestType DEF Crash, TypeOK
<1>4. CASE UNCHANGED vars
  BY <1>4 DEF vars, logVars, TypeOK, LogTypeOK
<1> QED BY <1>1, <1>2, <1>3, <1>4, NextCases

LEMMA InitType == Init => TypeOK
BY LogInitType, NoRequestType DEF Init, TypeOK, Client

(* In every reachable state the log, the requests and what the clients hold    *)
(* are of their types.                                                         *)
THEOREM TypeCorrect == Spec => []TypeOK
BY InitType, StepType, PTL DEF Spec

-----------------------------------------------------------------------------
(* An empty answer *)

LEMMA StepExpired == TypeOK /\ EmptyOnlyWhenExpired /\ [Next]_vars => EmptyOnlyWhenExpired'
<1> SUFFICES ASSUME TypeOK, EmptyOnlyWhenExpired, [Next]_vars,
                    NEW q \in Pollers, req'[q].phase = "answer", req'[q].waits, req'[q].page = {}
             PROVE  req'[q].expired
  BY DEF EmptyOnlyWhenExpired
<1>1. CASE req' = req
  BY <1>1 DEF EmptyOnlyWhenExpired
<1>2. ASSUME NEW p \in Pollers, PollStep(p) PROVE req'[q].expired
  <2>1. CASE p # q
    <3>1. req'[q] = req[q]
      BY <1>2, <2>1 DEF PollStep, Query, Requery, Queries, Park, Wake, Timeout, Answer, Expire,
                        Cancel, Call, TypeOK
    <3> QED BY <3>1 DEF EmptyOnlyWhenExpired
  <2>2. CASE p = q
    <3>1. CASE Query(p) \/ Requery(p)
      <4> DEFINE page == FirstRows(Pending(p), Limit)
      <4>1. ASSUME NEW next, Queries(p, next), req[p].waits => next = "park" \/ req[p].expired
            PROVE  req'[q].expired
        <5>1. /\ req'[p].waits = req[p].waits /\ req'[p].expired = req[p].expired
              /\ req'[p].page = page
              /\ page = {} => req'[p].phase = next
          BY <4>1 DEF Queries, TypeOK, Request
        <5> QED BY <2>2, <4>1, <5>1
      <4>2. CASE Query(p)
        <5> DEFINE next == IF req[p].waits THEN "park" ELSE "answer"
        <5>1. Queries(p, next) /\ (req[p].waits => next = "park")
          BY <4>2 DEF Query
        <5> HIDE DEF next
        <5> QED BY <4>1, <5>1
      <4>3. CASE Requery(p)
        <5> DEFINE next == IF req[p].expired THEN "answer" ELSE "park"
        <5>1. Queries(p, next) /\ (next = "park" \/ req[p].expired)
          BY <4>3 DEF Requery
        <5> HIDE DEF next
        <5> QED BY <4>1, <5>1
      <4> QED BY <3>1, <4>2, <4>3
    <3>2. CASE Park(p) \/ Wake(p) \/ Timeout(p) \/ Expire(p)
      BY <2>2, <3>2 DEF Park, Wake, Timeout, Expire, TypeOK, Request
    <3>3. CASE Answer(p) \/ Cancel(p) \/ \E waits \in BOOLEAN : Call(p, waits)
      <4>1. Answer(p) \/ Cancel(p) => req'[p].phase = "idle"
        BY DEF Answer, Cancel, NoRequest, TypeOK
      <4>2. ASSUME NEW waits, Call(p, waits) PROVE req'[p].phase = "query"
        BY <4>2 DEF Call, NoRequest, TypeOK
      <4> QED BY <2>2, <3>3, <4>1, <4>2
    <3> QED BY <1>2, <3>1, <3>2, <3>3 DEF PollStep
  <2> QED BY <2>1, <2>2
<1>3. CASE Crash
  BY <1>3 DEF Crash, NoRequest
<1> QED BY <1>1, <1>2, <1>3, NextCases DEF vars

(* A request that waits is answered without rows only when its deadline has    *)
(* passed, whoever wakes it and however often.                                 *)
THEOREM EmptyMeansExpired == Spec => []EmptyOnlyWhenExpired
<1>1. Init => EmptyOnlyWhenExpired
  BY DEF Init, NoRequest, EmptyOnlyWhenExpired
<1> QED BY <1>1, InitType, StepType, StepExpired, PTL DEF Spec

-----------------------------------------------------------------------------
(* Nothing is missed *)

LEMMA SettledSame ==
    ASSUME UNCHANGED logVars
    PROVE  /\ changes' = changes
           /\ LogInv => LogInv'
           /\ \A n : Settled(n)' = Settled(n)
BY DEF logVars, LogInv, RevisionsAreDrawn, CommittedAreSettled, Settled, Drawn

(* A step of a write, or a prune: what is new comes after all pages and cursors. *)
LEMMA LogStepPoll ==
    ASSUME TypeOK, PollInv, LogStep, UNCHANGED <<req, client>>
    PROVE  PollInv'
<1> LogTypeOK /\ LogInv
  BY DEF TypeOK, PollInv
<1>1. \A p \in Pollers : client[p].cursor \in Nat /\ req[p].since \in Nat
  BY DEF TypeOK, Client, Request
<1>2. \A p \in Pollers : \A d \in req[p].page : d.revision \in Nat
  BY DEF TypeOK, Request, Change
<1>3. \A c \in changes' : c.revision \in Nat
  BY LogStepType DEF LogTypeOK, Change
<1>4. ASSUME NEW n \in Nat, Settled(n)
      PROVE  Settled(n)' /\ \A c \in changes' : c.revision <= n => c \in changes
  BY <1>3, <1>4, SettledStays, NewRowsComeAfter
<1>5. PagesHaveNoGap'
  <2>1. ASSUME NEW p \in Pollers, NEW d \in req[p].page
        PROVE  /\ Settled(d.revision)'
               /\ \A c \in Pending(p)' : c.revision <= d.revision => c \in req[p].page
    <3>1. Settled(d.revision)
      BY DEF PollInv, PagesHaveNoGap
    <3>2. \A c \in Pending(p)' : c.revision <= d.revision => c \in Pending(p)
      BY <1>2, <1>4, <3>1 DEF Pending, Selected
    <3> QED BY <1>2, <1>4, <3>1, <3>2 DEF PollInv, PagesHaveNoGap
  <2> QED BY <2>1 DEF PollInv, PagesHaveNoGap
<1>6. CursorsAreSettled'
  <2>1. ASSUME NEW p \in Pollers PROVE Settled(client[p].cursor)'
    <3>1. Settled(client[p].cursor)
      BY DEF PollInv, CursorsAreSettled
    <3> DEFINE n == client[p].cursor
    <3>2. n' = n
      OBVIOUS
    <3>3. n \in Nat /\ \A m \in Nat : Settled(m) => Settled(m)'
      BY <1>1, <1>4
    <3> QED BY <3>1, <3>2, <3>3 DEF Settled, Drawn
  <2> QED BY <2>1 DEF PollInv, CursorsAreSettled
<1>7. NothingMissed'
  <2>1. ASSUME NEW p \in Pollers, NEW c \in changes', c.revision <= client[p].cursor
        PROVE  c \in changes
    BY <1>1, <1>4, <2>1 DEF PollInv, CursorsAreSettled
  <2> QED BY <2>1 DEF PollInv, NothingMissed
<1> QED BY <1>5, <1>6, <1>7, LogStepInv DEF PollInv

(* A query finds the first rows after the client's cursor.                     *)
LEMMA QueryPoll ==
    ASSUME TypeOK, PollInv, Serialized, UNCHANGED <<logVars, client>>,
           NEW p \in Pollers, NEW next \in {"answer", "park"}, Queries(p, next),
           req[p].phase # "idle"
    PROVE  PollInv'
<1> DEFINE page == FirstRows(Pending(p), Limit)
<1>1. changes' = changes /\ LogInv' /\ (\A n : Settled(n)' = Settled(n)) /\ client' = client
  BY SettledSame DEF PollInv
<1>2. /\ req'[p].page = page /\ req'[p].since = req[p].since
      /\ req'[p].phase = IF page # {} THEN "answer" ELSE next
      /\ \A q \in Pollers \ {p} : req'[q] = req[q]
  BY DEF Queries, TypeOK, Request
<1>3. Pending(p)' = Pending(p) /\ \A q \in Pollers \ {p} : Pending(q)' = Pending(q)
  BY <1>1, <1>2 DEF Pending, Selected
<1>4. ASSUME NEW d \in page
      PROVE  /\ Settled(d.revision) /\ req[p].since < d.revision
             /\ \A c \in Pending(p) : c.revision <= d.revision => c \in page
  <2>1. d \in Pending(p) /\ d \in changes /\ changes \subseteq Change
    BY <1>4, PageType DEF FirstRows, TypeOK
  <2>2. Settled(d.revision)
    BY <2>1 DEF PollInv, LogInv, CommittedAreSettled
  <2>3. req[p].since < d.revision
    BY <2>1 DEF Pending, Selected, Change, TypeOK, Request
  <2>4. Pending(p) \subseteq Change /\ IsFiniteSet(Pending(p)) /\ Limit \in Nat
    BY <2>1, LimitAssumption, FS_Subset DEF Pending, Selected, PollInv, LogInv
  <2> QED BY <1>4, <2>2, <2>3, <2>4, FirstRowsClosed
<1> HIDE DEF page
<1>5. PagesHaveNoGap'
  BY <1>1, <1>2, <1>3, <1>4 DEF PollInv, PagesHaveNoGap
<1>6. CursorsAreSettled'
  BY <1>1, <1>2 DEF PollInv, CursorsAreSettled
<1>7. NothingMissed'
  BY <1>1 DEF PollInv, NothingMissed
<1> QED BY <1>1, <1>5, <1>6, <1>7 DEF PollInv

(* A step that brings no rows and leaves the client as it is.                  *)
LEMMA QuietPoll ==
    ASSUME TypeOK, PollInv, UNCHANGED <<logVars, client>>, NEW p \in Pollers,
           \A q \in Pollers \ {p} : req'[q] = req[q],
           \/ req'[p].page = {}
           \/ req'[p].page = req[p].page /\ req'[p].phase = req[p].phase,
           \/ req'[p].phase = "idle"
           \/ req[p].phase # "idle" /\ req'[p].since = req[p].since
           \/ req'[p].since = client[p].cursor,
           req'[p].page = {} \/ req'[p].since = req[p].since
    PROVE  PollInv'
<1>1. changes' = changes /\ LogInv' /\ (\A n : Settled(n)' = Settled(n)) /\ client' = client
  BY SettledSame DEF PollInv
<1>2. \A q \in Pollers : q # p \/ req'[p].page # {} => Pending(q)' = Pending(q)
  BY <1>1 DEF Pending, Selected
<1>3. PagesHaveNoGap'
  BY <1>1, <1>2 DEF PollInv, PagesHaveNoGap
<1>4. CursorsAreSettled'
  BY <1>1 DEF PollInv, CursorsAreSettled
<1>5. NothingMissed'
  BY <1>1 DEF PollInv, NothingMissed
<1> QED BY <1>1, <1>3, <1>4, <1>5 DEF PollInv

(* The answer: the client takes the page and moves to its last row.            *)
LEMMA AnswerPoll ==
    ASSUME TypeOK, PollInv, ~ FollowRevision, NEW p \in Pollers, Answer(p)
    PROVE  PollInv'
<1>1. changes' = changes /\ LogInv' /\ \A n : Settled(n)' = Settled(n)
  BY SettledSame DEF PollInv, Answer
<1>2. PICK new \in 0 .. MaxRevision :
         /\ client' = [client EXCEPT ![p].cursor = new, ![p].got = @ \union req[p].page]
         /\ \/ req[p].page = {} /\ new = client[p].cursor
            \/ \E d \in req[p].page : IsLastOf(d, req[p].page) /\ new = d.revision
  BY DEF Answer, NextCursor
<1>3. /\ client'[p].cursor = new /\ client'[p].from = client[p].from
      /\ client'[p].got = client[p].got \union req[p].page
      /\ \A q \in Pollers \ {p} : client'[q] = client[q] /\ req'[q] = req[q]
      /\ req'[p].page = {} /\ req'[p].phase = "idle"
  BY <1>2 DEF Answer, TypeOK, Client, NoRequest
<1>4. /\ new \in Nat /\ client[p].cursor \in Nat /\ client[p].from \in Nat
      /\ \A c \in client[p].got \union req[p].page \union changes : c.revision \in Nat
  BY BoundsAssumption DEF TypeOK, LogTypeOK, Client, Request, Change
<1>5. req[p].since = client[p].cursor
  BY DEF Answer, PollInv, CursorsAreSettled
<1>6. Settled(new) /\ client[p].cursor <= new /\ \A d \in req[p].page : d.revision <= new
  BY <1>2, <1>4, <1>5 DEF PollInv, PagesHaveNoGap, CursorsAreSettled, IsLastOf
<1>7. PagesHaveNoGap'
  <2>1. \A q \in Pollers \ {p} : Pending(q)' = Pending(q)
    BY <1>1, <1>3 DEF Pending, Selected
  <2> QED BY <1>1, <1>3, <2>1 DEF PollInv, PagesHaveNoGap
<1>8. CursorsAreSettled'
  <2>1. client[p].from <= new /\ \A c \in client'[p].got : c.revision <= new
    BY <1>3, <1>4, <1>6 DEF PollInv, CursorsAreSettled
  <2> QED BY <1>1, <1>3, <1>6, <2>1 DEF PollInv, CursorsAreSettled
<1>9. NothingMissed'
  <2>1. ASSUME NEW c \in changes, c.ns \in NsFilter[p], client[p].from < c.revision,
               c.revision <= new
        PROVE  c \in client'[p].got
    <3>1. CASE c.revision <= client[p].cursor
      BY <1>3, <2>1, <3>1 DEF PollInv, NothingMissed
    <3>2. CASE client[p].cursor < c.revision
      <4>1. PICK d \in req[p].page : new = d.revision
        BY <1>2, <1>4, <2>1, <3>2
      <4>2. c \in Pending(p)
        BY <1>4, <1>5, <2>1, <3>2 DEF Pending, Selected
      <4> QED BY <1>3, <2>1, <4>1, <4>2 DEF PollInv, PagesHaveNoGap
    <3> QED BY <1>4, <3>1, <3>2
  <2> QED BY <1>1, <1>3, <2>1 DEF PollInv, NothingMissed
<1> QED BY <1>1, <1>7, <1>8, <1>9 DEF PollInv

LEMMA PollStepPoll ==
    ASSUME TypeOK, PollInv, Serialized, ~ FollowRevision,
           NEW p \in Pollers, PollStep(p), UNCHANGED logVars
    PROVE  PollInv'
<1>1. CASE Query(p)
  <2> DEFINE next == IF req[p].waits THEN "park" ELSE "answer"
  <2>1. Queries(p, next) /\ next \in {"answer", "park"} /\ client' = client
    BY <1>1 DEF Query
  <2> HIDE DEF next
  <2> QED BY <1>1, <2>1, QueryPoll DEF Query
<1>2. CASE Requery(p)
  <2> DEFINE next == IF req[p].expired THEN "answer" ELSE "park"
  <2>1. Queries(p, next) /\ next \in {"answer", "park"} /\ client' = client
    BY <1>2 DEF Requery
  <2> HIDE DEF next
  <2> QED BY <1>2, <2>1, QueryPoll DEF Requery
<1>3. CASE Answer(p)
  BY <1>3, AnswerPoll
<1>4. CASE Park(p) \/ Wake(p) \/ Timeout(p) \/ Expire(p)
  <2>1. req[p].page = {}
    BY <1>4 DEF Park, Wake, Timeout, Expire, PollInv, PagesHaveNoGap
  <2>2. /\ client' = client /\ \A q \in Pollers \ {p} : req'[q] = req[q]
        /\ req'[p].page = req[p].page /\ req'[p].since = req[p].since /\ req[p].phase # "idle"
    BY <1>4 DEF Park, Wake, Timeout, Expire, TypeOK, Request
  <2> QED BY <2>1, <2>2, QuietPoll
<1>5. CASE Cancel(p)
  <2>1. /\ client' = client /\ \A q \in Pollers \ {p} : req'[q] = req[q]
        /\ req'[p].page = {} /\ req'[p].phase = "idle"
    BY <1>5 DEF Cancel, NoRequest, TypeOK
  <2> QED BY <2>1, QuietPoll
<1>6. ASSUME NEW waits \in BOOLEAN, Call(p, waits) PROVE PollInv'
  <2>1. /\ client' = client /\ \A q \in Pollers \ {p} : req'[q] = req[q]
        /\ req'[p].page = {} /\ req'[p].since = client[p].cursor
    BY <1>6 DEF Call, NoRequest, TypeOK
  <2> QED BY <2>1, QuietPoll
<1> QED BY <1>1, <1>2, <1>3, <1>4, <1>5, <1>6 DEF PollStep

LEMMA StepPoll == TypeOK /\ PollInv /\ Serialized /\ ~ FollowRevision /\ [Next]_vars => PollInv'
<1> SUFFICES ASSUME TypeOK, PollInv, Serialized, ~ FollowRevision, [Next]_vars PROVE PollInv'
  OBVIOUS
<1>1. CASE LogStep /\ UNCHANGED <<req, client>>
  BY <1>1, LogStepPoll
<1>2. CASE \E p \in Pollers : PollStep(p) /\ UNCHANGED logVars
  BY <1>2, PollStepPoll
<1>3. CASE Crash
  <2>1. /\ client' = client /\ changes' = changes /\ CrashLog
        /\ \A p \in Pollers : req'[p].page = {} /\ req'[p].phase = "idle"
    BY <1>3 DEF Crash, CrashLog, NoRequest
  <2>2. LogInv'
    BY <2>1, CrashLogInv DEF TypeOK, PollInv
  <2>3. ASSUME NEW p \in Pollers PROVE Settled(client[p].cursor)'
    <3> DEFINE n == client[p].cursor
    <3>1. n \in Nat /\ Settled(n) /\ n' = n
      BY <2>1 DEF TypeOK, Client, PollInv, CursorsAreSettled
    <3>2. \A m \in Nat : Settled(m) => Settled(m)'
      BY <2>1, SettledSurvives DEF TypeOK
    <3> QED BY <3>1, <3>2 DEF Settled, Drawn
  <2>4. CursorsAreSettled'
    BY <2>1, <2>3 DEF PollInv, CursorsAreSettled
  <2>5. PagesHaveNoGap' /\ NothingMissed'
    BY <2>1 DEF PollInv, PagesHaveNoGap, NothingMissed
  <2> QED BY <2>2, <2>4, <2>5 DEF PollInv
<1>4. CASE UNCHANGED vars
  <2>1. UNCHANGED logVars /\ req' = req /\ client' = client
    BY <1>4 DEF vars
  <2>2. changes' = changes /\ LogInv' /\ \A n : Settled(n)' = Settled(n)
    BY <2>1, SettledSame DEF PollInv
  <2>3. \A p \in Pollers : Pending(p)' = Pending(p)
    BY <2>1, <2>2 DEF Pending, Selected
  <2> QED BY <2>1, <2>2, <2>3 DEF PollInv, PagesHaveNoGap, CursorsAreSettled, NothingMissed
<1> QED BY <1>1, <1>2, <1>3, <1>4, NextCases

LEMMA InitPoll == Init => PollInv
<1> SUFFICES ASSUME Init PROVE PollInv
  OBVIOUS
<1>1. LogInv /\ changes = {} /\ Settled(0)
  BY LogInitInv DEF Init, LogInit, NoTransaction, Settled, Drawn
<1> QED BY <1>1 DEF Init, NoRequest, PollInv, PagesHaveNoGap, CursorsAreSettled, NothingMissed

LEMMA PollInvariant ==
    ASSUME Serialized, ~ FollowRevision
    PROVE  Spec => [](TypeOK /\ PollInv)
<1>1. TypeOK /\ PollInv /\ [Next]_vars => (TypeOK /\ PollInv)'
  BY StepType, StepPoll
<1>2. Init => TypeOK /\ PollInv
  BY InitType, InitPoll
<1> QED BY <1>1, <1>2, PTL DEF Spec

(* With a store that runs one write transaction at a time (SQLite), a client    *)
(* that continues from the last row it was given misses no committed change it  *)
(* asked for, over any number of requests, restarts and pages.                  *)
THEOREM NothingIsMissed ==
    ASSUME Serialized, ~ FollowRevision
    PROVE  Spec => []NothingMissed
<1>1. PollInv => NothingMissed
  BY DEF PollInv
<1> QED BY PollInvariant, <1>1, PTL

-----------------------------------------------------------------------------
(* The feed *)

(* The mapped variables of the feed.                                           *)
LEMMA FeedStutter ==
    ASSUME TypeOK, changes' = changes, client' = client,
           \A p \in Pollers : req'[p].page = req[p].page
    PROVE  UNCHANGED Feed!feedVars
BY DEF Feed!feedVars

(* What a write commits comes after all there was; what a prune removes before *)
(* all that stays.                                                             *)
LEMMA LogStepFeed ==
    ASSUME TypeOK, PollInv, Serialized, LogStep, UNCHANGED <<req, client>>
    PROVE  [Feed!FeedNext]_(Feed!feedVars)
<1>0. LogTypeOK /\ LogInv
  BY DEF TypeOK, PollInv
<1>1. ASSUME NEW w \in Writers, Commit(w) PROVE Feed!Publish
  <2>1. changes \subseteq changes'
    BY <1>1 DEF Commit
  <2>2. ASSUME NEW c \in changes, NEW d \in changes' \ changes PROVE c.revision < d.revision
    BY <1>0, <2>2, NewRowsComeAfter DEF LogInv, CommittedAreSettled, LogTypeOK, Change
  <2> QED BY <2>1, <2>2 DEF Feed!Publish, Feed!Before
<1>2. ASSUME NEW cutoff \in 1 .. MaxRevision, PruneChanges(cutoff) PROVE Feed!Forget
  <2>1. changes' = {c \in changes : c.revision > cutoff}
    BY <1>2 DEF PruneChanges
  <2>2. ASSUME NEW c \in changes \ changes', NEW d \in changes' PROVE c.revision < d.revision
    BY <1>0, <2>1, <2>2 DEF LogTypeOK, Change
  <2> QED BY <2>1, <2>2 DEF Feed!Forget, Feed!Before
<1>3. ASSUME NEW w \in Writers,
             \/ BeginTx(w) \/ Rollback(w) \/ BroadcastSwap(w) \/ BroadcastClose(w)
             \/ \E ns \in Namespaces, svc \in Services \union {NoService} : RecordChange(w, ns, svc)
      PROVE  UNCHANGED Feed!feedVars
  BY <1>3, FeedStutter DEF BeginTx, Rollback, BroadcastSwap, BroadcastClose, RecordChange
<1> QED BY <1>1, <1>2, <1>3 DEF LogStep, WriteStep, Feed!FeedNext

(* The page is what the client is owed next.                                   *)
LEMMA PageComesNext ==
    ASSUME TypeOK, PollInv, NEW p \in Pollers, req[p].phase # "idle"
    PROVE  Feed!ComesNext(p, FirstRows(Pending(p), Limit))
<1> DEFINE page == FirstRows(Pending(p), Limit)
<1>1. /\ req[p].since = client[p].cursor /\ client[p].from <= client[p].cursor
      /\ \A c \in client[p].got : c.revision <= client[p].cursor
  BY DEF PollInv, CursorsAreSettled
<1>2. /\ client[p].cursor \in Nat /\ client[p].from \in Nat
      /\ \A c \in client[p].got \union changes : c.revision \in Nat
  BY DEF TypeOK, LogTypeOK, Client, Change
<1>3. Feed!Owed(p) = {c \in changes : /\ c.ns \in NsFilter[p] /\ client[p].from < c.revision
                                     /\ \A d \in client[p].got : d.revision < c.revision}
  BY DEF Feed!Owed, Feed!Before, Asked
<1>4. Pending(p) \subseteq Feed!Owed(p)
  BY <1>1, <1>2, <1>3 DEF Pending, Selected
<1>5. Feed!Owed(p) \subseteq Pending(p)
  <2>1. ASSUME NEW c \in Feed!Owed(p), c.revision <= client[p].cursor PROVE FALSE
    BY <1>2, <1>3, <2>1 DEF PollInv, NothingMissed
  <2> QED BY <1>1, <1>2, <1>3, <2>1 DEF Pending, Selected
<1>6. page \subseteq Pending(p)
  BY DEF FirstRows
<1>7. ASSUME NEW c \in page, NEW d \in Pending(p) \ page PROVE c.revision < d.revision
  <2>1. Pending(p) \subseteq Change /\ IsFiniteSet(Pending(p)) /\ Limit \in Nat
    BY LimitAssumption, FS_Subset DEF Pending, Selected, PollInv, LogInv, TypeOK, LogTypeOK
  <2>2. ~ (d.revision <= c.revision)
    BY <1>7, <2>1, FirstRowsClosed
  <2> QED BY <1>2, <1>6, <2>2 DEF Pending, Selected
<1> QED BY <1>4, <1>5, <1>6, <1>7 DEF Feed!ComesNext, Feed!Before

LEMMA QueryFeed ==
    ASSUME TypeOK, PollInv, NEW p \in Pollers, req[p].phase \in {"query", "requery"},
           NEW next, Queries(p, next), UNCHANGED <<logVars, client>>
    PROVE  Feed!Take(p)
<1> DEFINE page == FirstRows(Pending(p), Limit)
           taken == [q \in Pollers |-> req[q].page]
<1>1. req[p].page = {}
  BY DEF PollInv, PagesHaveNoGap
<1>2. req'[p].page = page /\ \A q \in Pollers \ {p} : req'[q] = req[q]
  BY DEF Queries, TypeOK, Request
<1>3. taken' = [taken EXCEPT ![p] = taken'[p]]
  BY <1>2
<1>4. Feed!ComesNext(p, taken'[p])
  BY <1>2, PageComesNext
<1> QED BY <1>1, <1>3, <1>4 DEF Feed!Take, logVars

LEMMA AnswerFeed ==
    ASSUME TypeOK, NEW p \in Pollers, Answer(p)
    PROVE  Feed!Arrive(p)
<1> DEFINE taken == [q \in Pollers |-> req[q].page]
           received == [q \in Pollers |-> client[q].got]
           from == [q \in Pollers |-> client[q].from]
<1>1. PICK new \in 0 .. MaxRevision :
         client' = [client EXCEPT ![p].cursor = new, ![p].got = @ \union req[p].page]
  BY DEF Answer
<1>2. /\ client'[p].from = client[p].from /\ client'[p].got = client[p].got \union req[p].page
      /\ \A q \in Pollers \ {p} : client'[q] = client[q] /\ req'[q] = req[q]
      /\ req'[p].page = {} /\ changes' = changes
  BY <1>1 DEF Answer, TypeOK, Client, NoRequest, logVars
<1>3. received' = [received EXCEPT ![p] = @ \union taken[p]]
  BY <1>2
<1>4. taken' = [taken EXCEPT ![p] = {}]
  BY <1>2
<1>5. from' = from
  BY <1>2
<1> QED BY <1>2, <1>3, <1>4, <1>5 DEF Feed!Arrive

LEMMA PollStepFeed ==
    ASSUME TypeOK, PollInv, NEW p \in Pollers, PollStep(p), UNCHANGED logVars
    PROVE  [Feed!FeedNext]_(Feed!feedVars)
<1>0. changes' = changes
  BY DEF logVars
<1>1. CASE Query(p) \/ Requery(p)
  <2>1. Feed!Take(p)
    BY <1>1, QueryFeed DEF Query, Requery
  <2> QED BY <2>1 DEF Feed!FeedNext
<1>2. CASE Answer(p)
  BY <1>2, AnswerFeed DEF Feed!FeedNext
<1>3. CASE Park(p) \/ Wake(p) \/ Timeout(p) \/ Expire(p)
  <2>1. client' = client /\ \A q \in Pollers : req'[q].page = req[q].page
    BY <1>3 DEF Park, Wake, Timeout, Expire, TypeOK, Request
  <2> QED BY <1>0, <2>1, FeedStutter
<1>4. CASE Cancel(p)
  <2>1. client' = client /\ \A q \in Pollers : req'[q].page \in {req[q].page, {}}
    BY <1>4 DEF Cancel, NoRequest, TypeOK
  <2> QED BY <1>0, <2>1 DEF Feed!Lose, Feed!FeedNext
<1>5. ASSUME NEW waits \in BOOLEAN, Call(p, waits) PROVE UNCHANGED Feed!feedVars
  <2>1. req[p].page = {}
    BY <1>5 DEF Call, PollInv, PagesHaveNoGap
  <2>2. client' = client /\ \A q \in Pollers : req'[q].page = req[q].page
    BY <1>5, <2>1 DEF Call, NoRequest, TypeOK
  <2> QED BY <1>0, <2>2, FeedStutter
<1> QED BY <1>1, <1>2, <1>3, <1>4, <1>5 DEF PollStep

LEMMA StepFeed ==
    TypeOK /\ PollInv /\ Serialized /\ [Next]_vars => [Feed!FeedNext]_(Feed!feedVars)
<1> SUFFICES ASSUME TypeOK, PollInv, Serialized, [Next]_vars
             PROVE  [Feed!FeedNext]_(Feed!feedVars)
  OBVIOUS
<1>1. CASE LogStep /\ UNCHANGED <<req, client>>
  BY <1>1, LogStepFeed
<1>2. CASE \E p \in Pollers : PollStep(p) /\ UNCHANGED logVars
  BY <1>2, PollStepFeed
<1>3. CASE Crash
  <2>1. client' = client /\ changes' = changes /\ \A p \in Pollers : req'[p].page = {}
    BY <1>3 DEF Crash, CrashLog, NoRequest
  <2> QED BY <2>1 DEF Feed!Lose, Feed!FeedNext
<1>4. CASE UNCHANGED vars
  BY <1>4, FeedStutter DEF vars, logVars
<1> QED BY <1>1, <1>2, <1>3, <1>4, NextCases

(* Such a client is served the feed OrderedFeed promises: every behaviour of   *)
(* the long poll is, seen through its pages and what its clients hold, one of  *)
(* OrderedFeed.                                                                *)
THEOREM ServesTheFeed ==
    ASSUME Serialized, ~ FollowRevision
    PROVE  Spec => ImplementsFeed
<1>1. Init => Feed!FeedInit
  BY DEF Init, LogInit, NoRequest, Feed!FeedInit
<1>2. TypeOK /\ PollInv /\ [Next]_vars => [Feed!FeedNext]_(Feed!feedVars)
  BY StepFeed
<1> QED BY <1>1, <1>2, PollInvariant, PTL DEF Spec, ImplementsFeed, Feed!FeedSpec

=============================================================================
