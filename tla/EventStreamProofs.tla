-------------------------- MODULE EventStreamProofs --------------------------
(***************************************************************************)
(* What TLAPS proves of the event stream: its types, that no wake-up is    *)
(* lost, and, for a store that serializes its write transactions, that no  *)
(* change is skipped.                                                      *)
(***************************************************************************)
EXTENDS EventStream, ChangeLogProofs

(* The disjuncts of Next, by the part of the state they touch.             *)
StreamStep(r) ==
    \/ Connect(r) \/ (\E since \in 0 .. MaxRevision : ConnectSince(r, since)) \/ Reconnect(r)
    \/ Disconnect(r) \/ TakeChannel(r) \/ Push(r) \/ PushInterrupted(r) \/ Wake(r) \/ Tick(r)

LEMMA NextCases ==
    ASSUME [Next]_vars
    PROVE  \/ LogStep /\ UNCHANGED <<sse, client>>
           \/ \E r \in Subscribers : StreamStep(r) /\ UNCHANGED logVars
           \/ Crash
           \/ UNCHANGED vars
<1>1. ASSUME NEW r \in Subscribers, HandlerStep(r) \/ ClientStep(r)
      PROVE  StreamStep(r) /\ UNCHANGED logVars
  BY <1>1 DEF HandlerStep, ClientStep, StreamStep, Connect, ConnectSince, Start, Reconnect,
              Disconnect, TakeChannel, Push, PushInterrupted, Wake, Tick
<1> QED BY <1>1 DEF Next

LEMMA NoHandlerType == NoHandler \in Handler
BY DEF NoHandler, Handler

(* A page is made of changes.                                                  *)
LEMMA PageType ==
    ASSUME LogTypeOK, NEW r \in Subscribers
    PROVE  FirstRows(Pending(r), MaxBatch) \subseteq changes /\ changes \subseteq Change
BY DEF FirstRows, Pending, Selected, LogTypeOK

LEMMA StreamStepType ==
    ASSUME TypeOK, NEW r \in Subscribers, StreamStep(r), UNCHANGED logVars
    PROVE  TypeOK'
<1> USE DEF TypeOK
<1> DEFINE page == FirstRows(Pending(r), MaxBatch)
<1>0. LogTypeOK'
  BY DEF logVars, LogTypeOK
<1>a. 0 .. MaxRevision \subseteq Nat
  BY BoundsAssumption
<1>b. \A since \in Nat : [NoHandler EXCEPT !.phase = "loop", !.last = since] \in Handler
  BY DEF NoHandler, Handler
<1>c. ASSUME NEW since \in Nat, Open(r, since) PROVE sse' \in [Subscribers -> Handler]
  BY <1>b, <1>c DEF Open
<1>1. ASSUME NEW since \in 0 .. MaxRevision, Start(r, since) PROVE TypeOK'
  <2>1. [from |-> since, got |-> {}] \in Client
    BY <1>a DEF Client
  <2> QED BY <1>0, <1>1, <1>a, <1>c, <2>1 DEF Start
<1>2. CASE Reconnect(r)
  BY <1>0, <1>2, <1>a, <1>c DEF Reconnect
<1>3. CASE Disconnect(r)
  BY <1>0, <1>3, NoHandlerType DEF Disconnect
<1>4. CASE TakeChannel(r)
  BY <1>0, <1>4 DEF TakeChannel, Handler, LogTypeOK
<1>d. page \subseteq Change
  BY PageType
<1>e. ASSUME NEW rows, rows \subseteq Change, Receive(r, rows)
      PROVE  client' \in [Subscribers -> Client]
  <2>1. {c \in rows : Wanted(r, c)} \subseteq Change
    BY <1>e
  <2> QED BY <1>e, <2>1 DEF Receive, Client
<1>5. CASE Push(r)
  <2> DEFINE more == page # Pending(r)
  <2>1. sse' \in [Subscribers -> Handler]
    <3>1. PICK new \in 0 .. MaxRevision :
            sse' = [sse EXCEPT ![r].phase = "select", ![r].last = new, ![r].more = more]
      BY <1>5 DEF Push
    <3>2. new \in Nat /\ more \in BOOLEAN
      BY <1>a
    <3> HIDE DEF more
    <3> QED BY <3>1, <3>2 DEF Handler
  <2>2. client' \in [Subscribers -> Client]
    BY <1>5, <1>d, <1>e DEF Push
  <2> QED BY <1>0, <2>1, <2>2
<1>6. CASE PushInterrupted(r)
  <2>1. PICK c \in page : Receive(r, {d \in page : d.revision <= c.revision})
    BY <1>6 DEF PushInterrupted
  <2>2. {d \in page : d.revision <= c.revision} \subseteq Change
    BY <1>d
  <2>3. client' \in [Subscribers -> Client]
    BY <2>1, <2>2, <1>e
  <2> QED BY <1>0, <1>6, <2>3, NoHandlerType DEF PushInterrupted
<1>7. CASE Wake(r)
  BY <1>0, <1>7 DEF Wake, Handler
<1>8. CASE Tick(r)
  BY <1>0, <1>8 DEF Tick, Handler
<1> QED BY <1>1, <1>2, <1>3, <1>4, <1>5, <1>6, <1>7, <1>8 DEF StreamStep, Connect, ConnectSince

LEMMA StepType == TypeOK /\ [Next]_vars => TypeOK'
<1> SUFFICES ASSUME TypeOK, [Next]_vars PROVE TypeOK'
  OBVIOUS
<1>1. CASE LogStep /\ UNCHANGED <<sse, client>>
  BY <1>1, LogStepType DEF TypeOK
<1>2. CASE \E r \in Subscribers : StreamStep(r) /\ UNCHANGED logVars
  BY <1>2, StreamStepType
<1>3. CASE Crash
  BY <1>3, CrashLogType, NoHandlerType DEF Crash, TypeOK
<1>4. CASE UNCHANGED vars
  BY <1>4 DEF vars, logVars, TypeOK, LogTypeOK
<1> QED BY <1>1, <1>2, <1>3, <1>4, NextCases

LEMMA InitType == Init => TypeOK
BY LogInitType, NoHandlerType DEF Init, TypeOK, Client

(* In every reachable state the log, the handlers and what the clients hold     *)
(* are of their types.                                                          *)
THEOREM TypeCorrect == Spec => []TypeOK
BY InitType, StepType, PTL DEF Spec

-----------------------------------------------------------------------------
(* No lost wake-up *)

(* A handler never holds a channel the hub is yet to make.                     *)
HeldChannels == \A r \in Subscribers : sse[r].channel <= hub

WakeInv == TypeOK /\ HeldChannels /\ NoLostWakeup

LEMMA LogStepWake ==
    ASSUME WakeInv, LogStep, UNCHANGED <<sse, client>>
    PROVE  HeldChannels' /\ NoLostWakeup'
<1> USE DEF WakeInv
<1>1. ASSUME NEW w \in Writers,
             \/ BeginTx(w) \/ Rollback(w) \/ BroadcastClose(w)
             \/ \E ns \in Namespaces, svc \in Services \union {NoService} : RecordChange(w, ns, svc)
      PROVE  /\ changes' = changes /\ hub' = hub
             /\ \A v \in Writers : tx[v].phase = "committed" => tx'[v].phase = "committed"
  BY <1>1 DEF BeginTx, Rollback, BroadcastClose, RecordChange, TypeOK, LogTypeOK, Transaction
<1>2. ASSUME NEW w \in Writers, Commit(w)
      PROVE  hub' = hub /\ tx'[w].phase = "committed"
  BY <1>2 DEF Commit, TypeOK, LogTypeOK, Transaction
<1>3. ASSUME NEW w \in Writers, BroadcastSwap(w) PROVE hub' = hub + 1
  BY <1>3 DEF BroadcastSwap
<1>4. ASSUME NEW cutoff \in 1 .. MaxRevision, PruneChanges(cutoff)
      PROVE  changes' \subseteq changes /\ hub' = hub /\ tx' = tx
  BY <1>4 DEF PruneChanges
<1>5. hub' = hub \/ hub' = hub + 1
  BY <1>1, <1>2, <1>3, <1>4 DEF LogStep, WriteStep
<1>6. HeldChannels'
  BY <1>5 DEF HeldChannels, TypeOK, LogTypeOK, Handler
<1>7. ASSUME NEW r \in Subscribers,
             sse[r].phase = "select", sse[r].channel = hub', ~ sse[r].more, Pending(r)' # {}
      PROVE  \E w \in Writers : tx'[w].phase = "committed"
  <2>1. hub' = hub
    BY <1>5, <1>7 DEF HeldChannels, TypeOK, LogTypeOK, Handler
  <2>2. ASSUME changes' \subseteq changes PROVE \E w \in Writers : tx[w].phase = "committed"
    <3>1. Pending(r) # {}
      BY <1>7, <2>2 DEF Pending, Selected
    <3> QED BY <1>7, <2>1, <3>1 DEF NoLostWakeup
  <2>3. ASSUME NEW w \in Writers PROVE ~ BroadcastSwap(w)
    BY <1>3, <2>1 DEF TypeOK, LogTypeOK
  <2> QED BY <1>1, <1>2, <1>4, <2>2, <2>3 DEF LogStep, WriteStep
<1> QED BY <1>6, <1>7 DEF NoLostWakeup

LEMMA PushLeavesNothing ==
    ASSUME TypeOK, NEW r \in Subscribers, Push(r), ~ sse'[r].more, UNCHANGED logVars
    PROVE  Pending(r)' = {}
<1> DEFINE page == FirstRows(Pending(r), MaxBatch)
<1>1. PICK new \in 0 .. MaxRevision :
         /\ AdvancesTo(sse[r].last, page, new)
         /\ sse' = [sse EXCEPT ![r].phase = "select", ![r].last = new,
                               ![r].more = (page # Pending(r))]
  BY DEF Push
<1>2. sse'[r].last = new /\ page = Pending(r)
  BY <1>1 DEF TypeOK, Handler
<1>3. \A c \in Pending(r) : c.revision <= new
  BY <1>1, <1>2 DEF AdvancesTo, IsLastOf
<1>4. Pending(r) = {c \in changes : c.revision > sse[r].last /\ c.ns \in NsFilter[r]}
  BY DEF Pending, Selected
<1>5. Pending(r)' = {c \in changes : c.revision > new /\ c.ns \in NsFilter[r]}
  BY <1>2 DEF Pending, Selected, logVars
<1>6. sse[r].last \in Nat /\ new \in Nat /\ \A c \in changes : c.revision \in Nat
  BY BoundsAssumption DEF TypeOK, LogTypeOK, Handler, Change
<1>7. sse[r].last <= new
  <2>1. CASE page = {}
    BY <1>1, <1>6, <2>1 DEF AdvancesTo, IsLastOf
  <2>2. CASE page # {}
    BY <1>1, <1>2, <1>4, <1>6, <2>2 DEF AdvancesTo, IsLastOf
  <2> QED BY <2>1, <2>2
<1> HIDE DEF page
<1> QED BY <1>3, <1>4, <1>5, <1>6, <1>7

LEMMA StreamStepWake ==
    ASSUME WakeInv, NEW r \in Subscribers, StreamStep(r), UNCHANGED logVars
    PROVE  HeldChannels' /\ NoLostWakeup'
<1> USE DEF WakeInv
<1>1. \A q \in Subscribers \ {r} : sse'[q] = sse[q]
  BY DEF StreamStep, Connect, ConnectSince, Start, Open, Reconnect, Disconnect, TakeChannel,
         Push, PushInterrupted, Wake, Tick, TypeOK
<1>a. ASSUME NEW since, Open(r, since)
      PROVE  sse'[r].channel = 0 /\ sse'[r].phase # "select"
  BY <1>a DEF Open, NoHandler, TypeOK
<1>b. ASSUME Disconnect(r) \/ PushInterrupted(r)
      PROVE  sse'[r].channel = 0 /\ sse'[r].phase # "select"
  BY <1>b DEF Disconnect, PushInterrupted, NoHandler, TypeOK
<1>c. ASSUME TakeChannel(r) \/ Wake(r) \/ Tick(r)
      PROVE  sse'[r].channel \in {hub, sse[r].channel} /\ sse'[r].phase # "select"
  BY <1>c DEF TakeChannel, Wake, Tick, TypeOK, Handler
<1>d. ASSUME Push(r) PROVE sse'[r].channel = sse[r].channel
  BY <1>d DEF Push, TypeOK, Handler
<1>2. sse'[r].channel \in {0, hub, sse[r].channel}
  BY <1>a, <1>b, <1>c, <1>d DEF StreamStep, Connect, ConnectSince, Start, Reconnect
<1>3. sse'[r].phase = "select" => Push(r)
  BY <1>a, <1>b, <1>c DEF StreamStep, Connect, ConnectSince, Start, Reconnect
<1>4. HeldChannels'
  BY <1>1, <1>2 DEF HeldChannels, TypeOK, LogTypeOK, Handler, logVars
<1>5. ASSUME NEW q \in Subscribers \ {r} PROVE Pending(q)' = Pending(q)
  BY <1>1 DEF Pending, Selected, logVars
<1>6. NoLostWakeup'
  BY <1>1, <1>3, <1>5, PushLeavesNothing DEF NoLostWakeup, logVars
<1> QED BY <1>4, <1>6

LEMMA StepWake == WakeInv /\ [Next]_vars => WakeInv'
<1> SUFFICES ASSUME WakeInv, [Next]_vars PROVE HeldChannels' /\ NoLostWakeup'
  BY StepType DEF WakeInv
<1>1. CASE LogStep /\ UNCHANGED <<sse, client>>
  BY <1>1, LogStepWake
<1>2. CASE \E r \in Subscribers : StreamStep(r) /\ UNCHANGED logVars
  BY <1>2, StreamStepWake
<1>3. CASE Crash
  BY <1>3 DEF Crash, CrashLog, HeldChannels, NoLostWakeup, NoHandler
<1>4. CASE UNCHANGED vars
  BY <1>4 DEF vars, logVars, WakeInv, HeldChannels, NoLostWakeup, Pending, Selected
<1> QED BY <1>1, <1>2, <1>3, <1>4, NextCases

LEMMA InitWake == Init => WakeInv
BY InitType DEF Init, LogInit, WakeInv, HeldChannels, NoLostWakeup, NoHandler

(* A handler waiting on the hub's present channel has nothing to push unless a *)
(* committed write is about to broadcast or its batch was full: for any number *)
(* of writers and subscribers, with SQLite and with PostgreSQL.                *)
THEOREM WakeupIsNotLost == Spec => []NoLostWakeup
<1>1. WakeInv => NoLostWakeup
  BY DEF WakeInv
<1> QED BY InitWake, StepWake, <1>1, PTL DEF Spec

-----------------------------------------------------------------------------
(* Nothing is skipped *)

LEMMA LogStepStream ==
    ASSUME TypeOK, StreamInv, LogStep, UNCHANGED <<sse, client>>
    PROVE  CursorsAreSettled' /\ NothingSkipped'
<1> LogTypeOK /\ LogInv
  BY DEF TypeOK, StreamInv
<1>1. ASSUME NEW r \in Subscribers, NEW c \in client[r].got
      PROVE  c.revision \in Nat /\ Settled(c.revision)
  BY <1>1 DEF TypeOK, Client, Change, StreamInv, CursorsAreSettled
<1>2. CursorsAreSettled'
  <2>1. ASSUME NEW r \in Subscribers, NEW c \in client[r].got PROVE Settled(c.revision)'
    BY <1>1, <2>1, SettledStays
  <2>2. ASSUME NEW r \in Subscribers, Settled(sse[r].last) PROVE Settled(sse[r].last)'
    <3>1. sse[r].last \in Nat
      BY DEF TypeOK, Handler
    <3>2. \A n \in Nat : Settled(n) => Settled(n)'
      BY SettledStays
    <3> QED BY <2>2, <3>1, <3>2 DEF Settled, Drawn
  <2> QED BY <2>1, <2>2 DEF CursorsAreSettled, StreamInv, Connected
<1>3. ASSUME NEW r \in Subscribers, NEW c \in changes', Wanted(r, c),
             client[r].from < c.revision, Passed(r, c)
      PROVE  c \in client[r].got
  <2>1. CASE c \in changes
    BY <1>3, <2>1 DEF StreamInv, NothingSkipped
  <2>2. ASSUME c \notin changes PROVE FALSE
    <3>1. ASSUME NEW n \in Nat, Settled(n) PROVE n < c.revision
      BY <2>2, <3>1, NewRowsComeAfter
    <3>2. c.revision \in Nat
      BY LogStepType DEF LogTypeOK, Change
    <3>3. CASE Connected(r) /\ c.revision <= sse[r].last
      BY <1>3, <3>1, <3>2, <3>3 DEF StreamInv, CursorsAreSettled, TypeOK, Handler, Client
    <3>4. CASE \E d \in client[r].got : c.revision <= d.revision
      BY <1>1, <3>1, <3>2, <3>4
    <3> QED BY <1>3, <3>3, <3>4 DEF Passed
  <2> QED BY <2>1, <2>2
<1> QED BY <1>2, <1>3 DEF NothingSkipped, Wanted, Passed, Connected

(* A client that starts, or starts again.                                      *)
LEMMA OpenStream ==
    ASSUME TypeOK, StreamInv, UNCHANGED logVars, NEW r \in Subscribers,
           NEW since \in 0 .. MaxRevision, Start(r, since) \/ (Reconnect(r) /\ Resumes(r, since) /\ Open(r, since))
    PROVE  CursorsAreSettled' /\ NothingSkipped'
<1>1. since \in Nat
  BY BoundsAssumption
<1>2. /\ sse' = [sse EXCEPT ![r] = [NoHandler EXCEPT !.phase = "loop", !.last = since]]
      /\ changes' = changes /\ seq' = seq /\ tx' = tx
  BY DEF Start, Open, logVars
<1>3. sse'[r].last = since /\ \A q \in Subscribers \ {r} : sse'[q] = sse[q]
  BY <1>2 DEF TypeOK, NoHandler
<1>4. \A n : Settled(n)' = Settled(n)
  BY <1>2 DEF Settled, Drawn
<1>5. CASE Start(r, since)
  <2>1. client' = [client EXCEPT ![r] = [from |-> since, got |-> {}]]
    BY <1>5 DEF Start
  <2>2. client'[r].from = since /\ client'[r].got = {} /\ \A q \in Subscribers \ {r} : client'[q] = client[q]
    BY <2>1 DEF TypeOK
  <2>3. CursorsAreSettled'
    BY <1>3, <1>4, <2>2 DEF CursorsAreSettled, StreamInv, Connected
  <2>4. ASSUME NEW c \in changes, since < c.revision PROVE ~ Passed(r, c)'
    BY <1>1, <1>3, <2>2, <2>4 DEF Passed, TypeOK, LogTypeOK, Change
  <2>5. ASSUME NEW q \in Subscribers \ {r}, NEW c \in changes PROVE Passed(q, c)' = Passed(q, c)
    BY <1>3, <2>2 DEF Passed, Connected
  <2>6. NothingSkipped'
    BY <1>2, <2>2, <2>4, <2>5 DEF NothingSkipped, StreamInv, Wanted
  <2> QED BY <2>3, <2>6
<1>6. CASE Reconnect(r) /\ Resumes(r, since)
  <2>1. client' = client
    BY <1>6 DEF Reconnect
  <2>2. since = client[r].from \/ \E d \in client[r].got : since = d.revision
    BY <1>6 DEF Resumes, AdvancesTo, IsLastOf
  <2>3. CursorsAreSettled'
    BY <1>3, <1>4, <2>1, <2>2 DEF CursorsAreSettled, StreamInv, Connected
  <2>4. ASSUME NEW c \in changes, client[r].from < c.revision, Passed(r, c)' PROVE Passed(r, c)
    BY <1>1, <1>3, <2>1, <2>2, <2>4 DEF Passed, TypeOK, LogTypeOK, Change, Client
  <2>5. ASSUME NEW q \in Subscribers \ {r}, NEW c \in changes PROVE Passed(q, c)' = Passed(q, c)
    BY <1>3, <2>1 DEF Passed, Connected
  <2>6. NothingSkipped'
    BY <1>2, <2>1, <2>4, <2>5 DEF NothingSkipped, StreamInv, Wanted
  <2> QED BY <2>3, <2>6
<1> QED BY <1>5, <1>6

(* A step in which the client receives nothing and the cursor stays.           *)
LEMMA QuietStep ==
    ASSUME TypeOK, StreamInv, UNCHANGED logVars, NEW r \in Subscribers,
           Disconnect(r) \/ TakeChannel(r) \/ Wake(r) \/ Tick(r)
    PROVE  CursorsAreSettled' /\ NothingSkipped'
<1>1. client' = client /\ changes' = changes /\ seq' = seq /\ tx' = tx
  BY DEF Disconnect, TakeChannel, Wake, Tick, logVars
<1>2. \A q \in Subscribers : Connected(q)' => Connected(q) /\ sse'[q].last = sse[q].last
  BY DEF Disconnect, TakeChannel, Wake, Tick, Connected, NoHandler, TypeOK, Handler
<1>3. \A n : Settled(n)' = Settled(n)
  BY <1>1 DEF Settled, Drawn
<1>4. CursorsAreSettled'
  BY <1>1, <1>2, <1>3 DEF CursorsAreSettled, StreamInv
<1>5. ASSUME NEW q \in Subscribers, NEW c \in changes, Passed(q, c)' PROVE Passed(q, c)
  BY <1>1, <1>2, <1>5 DEF Passed
<1>6. NothingSkipped'
  BY <1>1, <1>5 DEF NothingSkipped, StreamInv, Wanted
<1> QED BY <1>4, <1>6

(* What the step that writes rows to the client is made of: the page has every *)
(* row the client is owed up to the last row it takes.                         *)
LEMMA PageIsOwed ==
    ASSUME TypeOK, StreamInv, NEW r \in Subscribers, Connected(r),
           NEW c \in changes, Wanted(r, c), client[r].from < c.revision,
           NEW d \in FirstRows(Pending(r), MaxBatch), c.revision <= d.revision
    PROVE  c \in client[r].got \/ c \in FirstRows(Pending(r), MaxBatch)
<1>1. CASE c.revision <= sse[r].last
  BY <1>1 DEF StreamInv, NothingSkipped, Passed
<1>2. CASE c.revision > sse[r].last
  <2>1. c \in Pending(r)
    BY <1>2 DEF Pending, Selected, Wanted
  <2>2. Pending(r) \subseteq Change /\ IsFiniteSet(Pending(r))
    BY FS_Subset DEF Pending, Selected, StreamInv, LogInv, TypeOK, LogTypeOK
  <2>3. MaxBatch \in Nat
    BY BatchAssumption
  <2> QED BY <2>1, <2>2, <2>3, FirstRowsClosed
<1> QED BY <1>1, <1>2 DEF TypeOK, LogTypeOK, Change, Handler

(* A step in which the client receives `rows` and the cursor moves to the last *)
(* row it received or read, if it moves.                                       *)
LEMMA ReceivingStep ==
    ASSUME TypeOK, StreamInv, Serialized, UNCHANGED logVars,
           NEW r \in Subscribers, Connected(r),
           NEW rows, rows \subseteq FirstRows(Pending(r), MaxBatch), Receive(r, rows),
           \A d \in rows : \A c \in FirstRows(Pending(r), MaxBatch) :
               c.revision <= d.revision => c \in rows,
           \A q \in Subscribers \ {r} : sse'[q] = sse[q],
           \/ ~ Connected(r)'
           \/ sse'[r].last = sse[r].last
           \/ \E d \in rows : sse'[r].last = d.revision
    PROVE  CursorsAreSettled' /\ NothingSkipped'
<1> DEFINE page == FirstRows(Pending(r), MaxBatch)
<1>1. changes' = changes /\ \A n : Settled(n)' = Settled(n)
  BY DEF logVars, Settled, Drawn
<1>2. \A d \in rows : d \in changes /\ Settled(d.revision)
  BY PageType DEF StreamInv, LogInv, CommittedAreSettled, TypeOK
<1>3. /\ client'[r].got = client[r].got \union {c \in rows : Wanted(r, c)}
      /\ client'[r].from = client[r].from
      /\ \A q \in Subscribers \ {r} : client'[q] = client[q]
  BY DEF Receive, TypeOK, Client
<1>4. CursorsAreSettled'
  <2>1. ASSUME NEW q \in Subscribers \ {r}
        PROVE  /\ \A c \in client'[q].got : Settled(c.revision)'
               /\ Connected(q)' => sse'[q].last = client'[q].from \/ Settled(sse[q].last)'
    BY <1>1, <1>3 DEF StreamInv, CursorsAreSettled, Connected
  <2>2. \A c \in client'[r].got : Settled(c.revision)'
    BY <1>1, <1>2, <1>3 DEF StreamInv, CursorsAreSettled
  <2>3. Connected(r)' => sse'[r].last = client'[r].from \/ Settled(sse[r].last)'
    BY <1>1, <1>2, <1>3 DEF StreamInv, CursorsAreSettled
  <2> QED BY <2>1, <2>2, <2>3 DEF CursorsAreSettled
<1>5. ASSUME NEW q \in Subscribers \ {r}, NEW c \in changes PROVE Passed(q, c)' = Passed(q, c)
  BY <1>3 DEF Passed, Connected
<1>6. ASSUME NEW c \in changes, Wanted(r, c), client[r].from < c.revision, Passed(r, c)'
      PROVE  c \in client'[r].got
  <2>1. ASSUME NEW d \in rows, c.revision <= d.revision PROVE c \in client'[r].got
    <3>1. c \in client[r].got \/ c \in page
      BY <1>6, <2>1, PageIsOwed
    <3> QED BY <1>3, <1>6, <2>1, <3>1
  <2>2. ASSUME Passed(r, c) PROVE c \in client'[r].got
    BY <1>3, <1>6, <2>2 DEF StreamInv, NothingSkipped
  <2> QED BY <1>3, <1>6, <2>1, <2>2 DEF Passed
<1>7. NothingSkipped'
  BY <1>1, <1>3, <1>5, <1>6 DEF NothingSkipped, StreamInv, Wanted
<1> QED BY <1>4, <1>7

LEMMA StreamStepStream ==
    ASSUME TypeOK, StreamInv, Serialized,
           NEW r \in Subscribers, StreamStep(r), UNCHANGED logVars
    PROVE  CursorsAreSettled' /\ NothingSkipped'
<1> DEFINE page == FirstRows(Pending(r), MaxBatch)
<1>1. CASE Connect(r) \/ \E since \in 0 .. MaxRevision : ConnectSince(r, since)
  BY <1>1, OpenStream DEF Connect, ConnectSince
<1>2. CASE Reconnect(r)
  BY <1>2, OpenStream DEF Reconnect
<1>3. CASE Disconnect(r) \/ TakeChannel(r) \/ Wake(r) \/ Tick(r)
  BY <1>3, QuietStep
<1>4. CASE Push(r)
  <2>1. PICK new \in 0 .. MaxRevision :
           /\ AdvancesTo(sse[r].last, page, new)
           /\ sse' = [sse EXCEPT ![r].phase = "select", ![r].last = new,
                                 ![r].more = (page # Pending(r))]
    BY <1>4 DEF Push
  <2>2. sse'[r].last = new /\ \A q \in Subscribers \ {r} : sse'[q] = sse[q]
    BY <2>1 DEF TypeOK, Handler
  <2>3. new = sse[r].last \/ \E d \in page : new = d.revision
    BY <2>1 DEF AdvancesTo, IsLastOf
  <2>4. Connected(r) /\ Receive(r, page)
    BY <1>4 DEF Push, Connected
  <2> HIDE DEF page
  <2>5. \A d \in page : \A c \in page : c.revision <= d.revision => c \in page
    OBVIOUS
  <2> QED BY <2>2, <2>3, <2>4, <2>5, ReceivingStep DEF page
<1>5. CASE PushInterrupted(r)
  <2>1. PICK c \in page : Receive(r, {d \in page : d.revision <= c.revision})
    BY <1>5 DEF PushInterrupted
  <2> DEFINE rows == {d \in page : d.revision <= c.revision}
  <2>2. /\ Connected(r) /\ ~ Connected(r)'
        /\ \A q \in Subscribers \ {r} : sse'[q] = sse[q]
    BY <1>5 DEF PushInterrupted, Connected, NoHandler, TypeOK
  <2>3. \A d \in page : d.revision \in Nat
    BY PageType DEF TypeOK, Change
  <2>4. \A d \in rows : \A e \in page : e.revision <= d.revision => e \in rows
    BY <2>3
  <2>5. rows \subseteq page /\ Receive(r, rows)
    BY <2>1
  <2> HIDE DEF rows
  <2> QED BY <2>2, <2>4, <2>5, ReceivingStep
<1> QED BY <1>1, <1>2, <1>3, <1>4, <1>5 DEF StreamStep

LEMMA StepStream == TypeOK /\ StreamInv /\ Serialized /\ [Next]_vars => StreamInv'
<1> SUFFICES ASSUME TypeOK, StreamInv, Serialized, [Next]_vars PROVE StreamInv'
  OBVIOUS
<1>0. LogTypeOK /\ LogInv
  BY DEF TypeOK, StreamInv
<1>1. CASE LogStep /\ UNCHANGED <<sse, client>>
  BY <1>0, <1>1, LogStepStream, LogStepInv DEF StreamInv
<1>a. UNCHANGED logVars => LogInv'
  BY <1>0 DEF logVars, LogInv, RevisionsAreDrawn, CommittedAreSettled, Settled, Drawn
<1>2. CASE \E r \in Subscribers : StreamStep(r) /\ UNCHANGED logVars
  BY <1>a, <1>2, StreamStepStream DEF StreamInv
<1>3. CASE Crash
  <2>1. client' = client /\ changes' = changes /\ \A r \in Subscribers : ~ Connected(r)'
    BY <1>3 DEF Crash, CrashLog, Connected, NoHandler
  <2>2. ASSUME NEW r \in Subscribers, NEW c \in client[r].got PROVE Settled(c.revision)'
    BY <1>0, <1>3, <2>2, SettledSurvives
       DEF Crash, StreamInv, CursorsAreSettled, TypeOK, Client, Change
  <2>3. CursorsAreSettled'
    BY <2>1, <2>2 DEF CursorsAreSettled
  <2>4. \A r \in Subscribers, c \in changes : Passed(r, c)' => Passed(r, c)
    BY <2>1 DEF Passed
  <2>5. NothingSkipped'
    BY <2>1, <2>4 DEF NothingSkipped, StreamInv, Wanted
  <2> QED BY <1>0, <1>3, <2>3, <2>5, CrashLogInv DEF Crash, StreamInv
<1>4. CASE UNCHANGED vars
  <2>1. UNCHANGED logVars /\ sse' = sse /\ client' = client /\ changes' = changes
    BY <1>4 DEF vars, logVars
  <2>2. \A n : Settled(n)' = Settled(n)
    BY <2>1 DEF logVars, Settled, Drawn
  <2>3. CursorsAreSettled' /\ NothingSkipped'
    BY <2>1, <2>2 DEF StreamInv, CursorsAreSettled, NothingSkipped, Connected, Passed, Wanted
  <2> QED BY <1>a, <2>1, <2>3 DEF StreamInv
<1> QED BY <1>1, <1>2, <1>3, <1>4, NextCases

LEMMA InitStream == Init => StreamInv
BY LogInitInv DEF Init, StreamInv, CursorsAreSettled, NothingSkipped, Passed, Connected, NoHandler

LEMMA StreamInvariant ==
    ASSUME Serialized
    PROVE  Spec => [](TypeOK /\ StreamInv)
<1>1. TypeOK /\ StreamInv /\ [Next]_vars => (TypeOK /\ StreamInv)'
  BY StepType, StepStream
<1>2. Init => TypeOK /\ StreamInv
  BY InitType, InitStream
<1> QED BY <1>1, <1>2, PTL DEF Spec

(* With a store that runs one write transaction at a time (SQLite), a          *)
(* subscriber never skips a committed change it asked for, over any number of  *)
(* batches, reconnections and restarts.                                        *)
THEOREM NothingIsSkipped ==
    ASSUME Serialized
    PROVE  Spec => []NothingSkipped
<1>1. StreamInv => NothingSkipped
  BY DEF StreamInv
<1> QED BY StreamInvariant, <1>1, PTL

(* With such a store a subscriber is never told of a change that is not        *)
(* committed, nor of one whose revision a rollback has given back.             *)
THEOREM PushedIsCommitted ==
    ASSUME Serialized
    PROVE  Spec => []OnlyCommittedIsPushed
<1>1. TypeOK /\ StreamInv => OnlyCommittedIsPushed
  <2> SUFFICES ASSUME TypeOK, StreamInv, NEW r \in Subscribers, NEW c \in client[r].got
               PROVE  /\ c.revision <= seq
                      /\ \A w \in Writers : tx[w].phase = "open" => c \notin tx[w].rows
    BY DEF OnlyCommittedIsPushed
  <2>1. Settled(c.revision) /\ c.revision \in Nat
    BY DEF StreamInv, CursorsAreSettled, TypeOK, Client, Change
  <2>2. ASSUME NEW w \in Writers, tx[w].phase = "open", c \in tx[w].rows PROVE FALSE
    <3>1. c.revision <= tx[w].base
      BY <2>1, <2>2 DEF Settled
    <3>2. tx[w].base < c.revision
      BY <2>2 DEF StreamInv, LogInv, RevisionsAreDrawn
    <3>3. tx[w].base \in Nat
      BY DEF TypeOK, LogTypeOK, Transaction
    <3> QED BY <2>1, <3>1, <3>2, <3>3
  <2> QED BY <2>1, <2>2 DEF Settled, Drawn
<1> QED BY StreamInvariant, <1>1, PTL

-----------------------------------------------------------------------------
(* The feed *)

(* A client holds rows after the cursor it began at, up to its handler's.      *)
CursorsAreAhead ==
    \A r \in Subscribers :
        /\ \A c \in client[r].got : client[r].from < c.revision
        /\ Connected(r) => /\ client[r].from <= sse[r].last
                           /\ \A c \in client[r].got : c.revision <= sse[r].last

LEMMA Numbers ==
    ASSUME TypeOK, NEW r \in Subscribers
    PROVE  /\ client[r].from \in Nat /\ sse[r].last \in Nat
           /\ \A c \in client[r].got \union changes : c.revision \in Nat
BY DEF TypeOK, LogTypeOK, Handler, Client, Change

(* The rows a page brings lie between the old cursor and the new.              *)
LEMMA PageIsAhead ==
    ASSUME TypeOK, CursorsAreAhead, NEW r \in Subscribers, Connected(r),
           NEW c \in FirstRows(Pending(r), MaxBatch)
    PROVE  /\ c \in changes /\ c.revision \in Nat /\ sse[r].last < c.revision
           /\ client[r].from < c.revision
           /\ \A d \in client[r].got : d.revision < c.revision
<1>1. c \in changes /\ sse[r].last < c.revision /\ c.revision \in Nat
  BY Numbers DEF FirstRows, Pending, Selected
<1> QED BY <1>1, Numbers DEF CursorsAreAhead

LEMMA StreamStepAhead ==
    ASSUME TypeOK, CursorsAreAhead, NEW r \in Subscribers, StreamStep(r)
    PROVE  CursorsAreAhead'
<1> DEFINE page == FirstRows(Pending(r), MaxBatch)
<1>0. \A q \in Subscribers \ {r} : sse'[q] = sse[q] /\ client'[q] = client[q]
  BY DEF StreamStep, Connect, ConnectSince, Start, Open, Reconnect, Disconnect, TakeChannel,
         Push, PushInterrupted, Receive, Wake, Tick, TypeOK
<1>a. ASSUME \A c \in client'[r].got : client'[r].from < c.revision,
             Connected(r)' => /\ client'[r].from <= sse'[r].last
                              /\ \A c \in client'[r].got : c.revision <= sse'[r].last
      PROVE  CursorsAreAhead'
  BY <1>0, <1>a DEF CursorsAreAhead, Connected
<1>1. ASSUME NEW since \in 0 .. MaxRevision, Start(r, since) PROVE CursorsAreAhead'
  <2>1. client'[r].from = since /\ client'[r].got = {} /\ sse'[r].last = since /\ since \in Nat
    BY <1>1, BoundsAssumption DEF Start, Open, NoHandler, TypeOK
  <2> QED BY <1>a, <2>1
<1>2. CASE Reconnect(r)
  <2>1. PICK since \in 0 .. MaxRevision : Resumes(r, since) /\ Open(r, since)
    BY <1>2 DEF Reconnect
  <2>a. client' = client
    BY <1>2 DEF Reconnect
  <2>2. sse'[r].last = since /\ since \in Nat
    BY <2>1, BoundsAssumption DEF Open, NoHandler, TypeOK
  <2>3. client[r].from <= since /\ \A c \in client[r].got : c.revision <= since
    BY <2>1, <2>2, Numbers DEF Resumes, AdvancesTo, IsLastOf, CursorsAreAhead
  <2> QED BY <1>a, <2>a, <2>2, <2>3 DEF CursorsAreAhead
<1>3. CASE Disconnect(r) \/ TakeChannel(r) \/ Wake(r) \/ Tick(r)
  <2>1. /\ client' = client
        /\ Connected(r)' => Connected(r) /\ sse'[r].last = sse[r].last
    BY <1>3 DEF Disconnect, TakeChannel, Wake, Tick, Connected, NoHandler, TypeOK, Handler
  <2> QED BY <1>a, <2>1 DEF CursorsAreAhead
<1>b. ASSUME NEW rows, rows \subseteq page, Receive(r, rows), Connected(r)
      PROVE  /\ client'[r].from = client[r].from
             /\ \A c \in client'[r].got : c \in client[r].got \/ c \in rows
             /\ \A c \in client'[r].got : client'[r].from < c.revision
  <2>1. /\ client'[r].from = client[r].from
        /\ client'[r].got = client[r].got \union {c \in rows : Wanted(r, c)}
    BY <1>b DEF Receive, TypeOK, Client
  <2> QED BY <1>b, <2>1, PageIsAhead DEF CursorsAreAhead
<1>4. CASE Push(r)
  <2>1. PICK new \in 0 .. MaxRevision :
           /\ AdvancesTo(sse[r].last, page, new)
           /\ sse' = [sse EXCEPT ![r].phase = "select", ![r].last = new,
                                 ![r].more = (page # Pending(r))]
    BY <1>4 DEF Push
  <2>2. sse'[r].last = new /\ Connected(r) /\ Receive(r, page) /\ new \in Nat
    BY <1>4, <2>1, BoundsAssumption DEF Push, Connected, TypeOK, Handler
  <2> HIDE DEF page
  <2>3. sse[r].last <= new /\ \A c \in page : c.revision <= new
    BY <2>1, <2>2, Numbers, PageIsAhead DEF AdvancesTo, IsLastOf, page
  <2>4. client[r].from <= sse[r].last /\ \A c \in client[r].got : c.revision <= sse[r].last
    BY <2>2 DEF CursorsAreAhead
  <2>5. client[r].from <= new /\ \A c \in client[r].got : c.revision <= new
    BY <2>2, <2>3, <2>4, Numbers
  <2> QED BY <1>a, <1>b, <2>2, <2>3, <2>5
<1>5. CASE PushInterrupted(r)
  <2>1. PICK c \in page : Receive(r, {d \in page : d.revision <= c.revision})
    BY <1>5 DEF PushInterrupted
  <2>2. Connected(r) /\ ~ Connected(r)'
    BY <1>5 DEF PushInterrupted, Connected, NoHandler, TypeOK
  <2> DEFINE rows == {d \in page : d.revision <= c.revision}
  <2>3. rows \subseteq page
    OBVIOUS
  <2> HIDE DEF rows, page
  <2>4. \A d \in client'[r].got : client'[r].from < d.revision
    BY <1>b, <2>1, <2>2, <2>3 DEF rows
  <2> QED BY <1>a, <2>2, <2>4
<1> QED BY <1>1, <1>2, <1>3, <1>4, <1>5 DEF StreamStep, Connect, ConnectSince

LEMMA StepAhead == TypeOK /\ CursorsAreAhead /\ [Next]_vars => CursorsAreAhead'
<1> SUFFICES ASSUME TypeOK, CursorsAreAhead, [Next]_vars PROVE CursorsAreAhead'
  OBVIOUS
<1>1. CASE UNCHANGED <<sse, client>>
  BY <1>1 DEF CursorsAreAhead, Connected
<1>2. CASE Crash
  BY <1>2 DEF Crash, CursorsAreAhead, Connected, NoHandler
<1> QED BY <1>1, <1>2, StreamStepAhead, NextCases DEF vars

LEMMA FeedStutter ==
    ASSUME changes' = changes, client' = client
    PROVE  UNCHANGED Feed!feedVars
BY DEF Feed!feedVars

(* What a write commits comes after all there was; what a prune removes before *)
(* all that stays.                                                             *)
LEMMA LogStepFeed ==
    ASSUME TypeOK, StreamInv, Serialized, LogStep, UNCHANGED <<sse, client>>
    PROVE  [Feed!FeedNext]_(Feed!feedVars)
<1>0. LogTypeOK /\ LogInv
  BY DEF TypeOK, StreamInv
<1>1. ASSUME NEW w \in Writers, Commit(w) PROVE Feed!Publish
  <2>1. changes \subseteq changes'
    BY <1>1 DEF Commit
  <2>2. ASSUME NEW c \in changes, NEW d \in changes' \ changes PROVE c.revision < d.revision
    BY <1>0, <2>2, NewRowsComeAfter DEF LogInv, CommittedAreSettled, LogTypeOK, Change
  <2> QED BY <2>1, <2>2 DEF Feed!Publish, Feed!Before
<1>2. ASSUME NEW cutoff \in 1 .. MaxRevision, PruneChanges(cutoff) PROVE Feed!Forget
  <2>1. changes' = {c \in changes : c.revision > cutoff}
    BY <1>2 DEF PruneChanges
  <2>2. ASSUME NEW c \in changes \ changes', NEW d \in changes' PROVE c.revision < d.revision
    BY <1>0, <2>1, <2>2 DEF LogTypeOK, Change
  <2> QED BY <2>1, <2>2 DEF Feed!Forget, Feed!Before
<1>3. ASSUME NEW w \in Writers,
             \/ BeginTx(w) \/ Rollback(w) \/ BroadcastSwap(w) \/ BroadcastClose(w)
             \/ \E ns \in Namespaces, svc \in Services \union {NoService} : RecordChange(w, ns, svc)
      PROVE  UNCHANGED Feed!feedVars
  BY <1>3, FeedStutter DEF BeginTx, Rollback, BroadcastSwap, BroadcastClose, RecordChange
<1> QED BY <1>1, <1>2, <1>3 DEF LogStep, WriteStep, Feed!FeedNext

(* The rows of a page, or its first ones, are what the client is owed next.    *)
LEMMA RowsAreDelivered ==
    ASSUME TypeOK, StreamInv, CursorsAreAhead, UNCHANGED logVars,
           NEW r \in Subscribers, Connected(r),
           NEW rows, rows \subseteq FirstRows(Pending(r), MaxBatch), Receive(r, rows),
           \A d \in rows : \A c \in FirstRows(Pending(r), MaxBatch) :
               c.revision <= d.revision => c \in rows
    PROVE  Feed!Deliver(r)
<1> DEFINE received == [q \in Subscribers |-> client[q].got]
           from == [q \in Subscribers |-> client[q].from]
           new == {c \in rows : Wanted(r, c)}
<1>1. /\ client'[r].got = client[r].got \union new /\ client'[r].from = client[r].from
      /\ \A q \in Subscribers \ {r} : client'[q] = client[q]
  BY DEF Receive, TypeOK, Client
<1>2. \A c \in rows : c \in changes /\ c.revision \in Nat /\ client[r].from < c.revision
                     /\ \A d \in client[r].got : d.revision < c.revision
  BY PageIsAhead
<1>3. received'[r] \ received[r] = new
  BY <1>1, <1>2, Numbers
<1>4. received' = [received EXCEPT ![r] = @ \union new] /\ from' = from
  BY <1>1
<1>5. Feed!Owed(r) = {c \in changes : /\ Wanted(r, c) /\ client[r].from < c.revision
                                     /\ \A d \in client[r].got : d.revision < c.revision}
  BY DEF Feed!Owed, Feed!Before
<1>6. new \subseteq Feed!Owed(r)
  BY <1>2, <1>5
<1>7. ASSUME NEW c \in new, NEW d \in Feed!Owed(r) \ new PROVE c.revision < d.revision
  <2>1. d \in changes /\ d.revision \in Nat /\ c.revision \in Nat /\ d \notin client[r].got
    BY <1>2, <1>5, Numbers
  <2>2. ASSUME d.revision <= c.revision PROVE FALSE
    <3>1. d \in FirstRows(Pending(r), MaxBatch)
      BY <1>5, <2>1, <2>2, PageIsOwed
    <3> QED BY <1>5, <2>2, <3>1
  <2> QED BY <2>1, <2>2
<1> HIDE DEF new
<1>8. Feed!ComesNext(r, new)
  BY <1>6, <1>7 DEF Feed!ComesNext, Feed!Before
<1> QED BY <1>3, <1>4, <1>8 DEF Feed!Deliver, logVars

LEMMA StreamStepFeed ==
    ASSUME TypeOK, StreamInv, CursorsAreAhead, NEW r \in Subscribers, StreamStep(r),
           UNCHANGED logVars
    PROVE  [Feed!FeedNext]_(Feed!feedVars)
<1> DEFINE page == FirstRows(Pending(r), MaxBatch)
<1>0. changes' = changes
  BY DEF logVars
<1>1. ASSUME NEW since \in 0 .. MaxRevision, Start(r, since) PROVE Feed!Restart(r)
  <2> DEFINE received == [q \in Subscribers |-> client[q].got]
             from == [q \in Subscribers |-> client[q].from]
  <2>1. client'[r].got = {} /\ \A q \in Subscribers \ {r} : client'[q] = client[q]
    BY <1>1 DEF Start, TypeOK
  <2>2. received' = [received EXCEPT ![r] = {}] /\ from' = [from EXCEPT ![r] = from'[r]]
    BY <2>1
  <2> QED BY <1>0, <2>2 DEF Feed!Restart
<1>2. CASE Reconnect(r) \/ Disconnect(r) \/ TakeChannel(r) \/ Wake(r) \/ Tick(r)
  BY <1>0, <1>2, FeedStutter DEF Reconnect, Disconnect, TakeChannel, Wake, Tick
<1>3. CASE Push(r)
  <2>1. Connected(r) /\ Receive(r, page)
    BY <1>3 DEF Push, Connected
  <2>2. \A d \in page : \A c \in page : c.revision <= d.revision => c \in page
    OBVIOUS
  <2> QED BY <2>1, <2>2, RowsAreDelivered DEF Feed!FeedNext
<1>4. CASE PushInterrupted(r)
  <2>1. PICK c \in page : Receive(r, {d \in page : d.revision <= c.revision})
    BY <1>4 DEF PushInterrupted
  <2> DEFINE rows == {d \in page : d.revision <= c.revision}
  <2>2. Connected(r) /\ rows \subseteq page /\ Receive(r, rows)
    BY <1>4, <2>1 DEF PushInterrupted, Connected
  <2>3. \A d \in page : d.revision \in Nat
    BY PageType DEF TypeOK, Change
  <2>4. \A d \in rows : \A e \in page : e.revision <= d.revision => e \in rows
    BY <2>3
  <2> HIDE DEF rows
  <2> QED BY <2>2, <2>4, RowsAreDelivered DEF Feed!FeedNext
<1> QED BY <1>1, <1>2, <1>3, <1>4 DEF StreamStep, Connect, ConnectSince, Feed!FeedNext

LEMMA StepFeed ==
    TypeOK /\ StreamInv /\ CursorsAreAhead /\ Serialized /\ [Next]_vars
    => [Feed!FeedNext]_(Feed!feedVars)
<1> SUFFICES ASSUME TypeOK, StreamInv, CursorsAreAhead, Serialized, [Next]_vars
             PROVE  [Feed!FeedNext]_(Feed!feedVars)
  OBVIOUS
<1>1. CASE LogStep /\ UNCHANGED <<sse, client>>
  BY <1>1, LogStepFeed
<1>2. CASE \E r \in Subscribers : StreamStep(r) /\ UNCHANGED logVars
  BY <1>2, StreamStepFeed
<1>3. CASE Crash \/ UNCHANGED vars
  BY <1>3, FeedStutter DEF Crash, CrashLog, vars, logVars
<1> QED BY <1>1, <1>2, <1>3, NextCases

(* With such a store the stream is the feed OrderedFeed promises: each step of  *)
(* a handler or a client, breaks and reconnections included, delivers what the  *)
(* subscriber is owed next, starts it over, or is invisible to it.              *)
THEOREM StreamsTheFeed ==
    ASSUME Serialized
    PROVE  Spec => ImplementsFeed
<1>1. Init => Feed!FeedInit /\ CursorsAreAhead
  BY DEF Init, LogInit, NoHandler, Feed!FeedInit, CursorsAreAhead, Connected
<1>2. TypeOK /\ StreamInv /\ CursorsAreAhead /\ [Next]_vars => [Feed!FeedNext]_(Feed!feedVars)
  BY StepFeed
<1> QED BY <1>1, <1>2, StepAhead, StreamInvariant, PTL DEF Spec, ImplementsFeed, Feed!FeedSpec

=============================================================================
