-------------------------- MODULE ServiceWriteProofs --------------------------
(***************************************************************************)
(* What TLAPS proves of the writes of a contract, for any requests, tokens *)
(* and departments: that one is written only for the administrator, for a  *)
(* token the namespace had when the request came or without a token where  *)
(* that is allowed; that an aligned department was in a list of the        *)
(* organization with that name; and that what is refused as unknown, or    *)
(* stored unchecked, had its cause within the cache's lifetime and one     *)
(* fetch.                                                                  *)
(***************************************************************************)
EXTENDS ServiceWrite, TLAPS

(* What a request is doing, of whatever kind.                                  *)
Doing == [ask : Ask \union {None}, step : Steps, gone : BOOLEAN, opened : BOOLEAN,
          dept : Stored, missing : BOOLEAN]

(* A request that is under way asked for something; only a PUT is authorized   *)
(* and writes.  The one that fetches is asking for departments.                *)
Typed ==
    /\ req \in [Requests -> Doing]
    /\ \A r \in Requests :
          /\ req[r].step # "ended" => req[r].ask \in Ask
          /\ req[r].step \in {"sent", "allowed", "writing"} => req[r].ask.kind = "put"
    /\ holder # None => holder \in Requests /\ req[holder].step = "asking"

(* The departments that a request can find: in the cache, in what the last     *)
(* success brought, in the reply of the organization.                          *)
Findable ==
    (IF current = None THEN {} ELSE current.departments)
    \union (IF last = None THEN {} ELSE last)
    \union (IF reply = None THEN {} ELSE reply)

(* They were all listed at some time.                                          *)
FindableWasListed ==
    /\ listing \subseteq ever
    /\ Findable \subseteq ever
    /\ ever \subseteq Department

(* The one request that moves, if any, and what becomes of it.                 *)
Begun(r, ask) ==
    [Idle EXCEPT
        !.ask = ask,
        !.step = IF ask.kind = "put" THEN "sent" ELSE "asking",
        !.opened = ask.kind = "put" /\ ask.token \in Tokens /\ ask.token = token]

Written(r, dept) == [req[r] EXCEPT !.step = "writing", !.dept = dept]

Moves(r, q) ==
    \/ q = Idle
    \/ req[r].step = "ended" /\ \E ask \in Asks[r] : q = Begun(r, ask)
    \/ /\ req[r].step = "sent" /\ Allowed(req[r].ask)
       /\ q = [req[r] EXCEPT !.step = "allowed"]
    \/ /\ req[r].step = "allowed"
       /\ q \in {[req[r] EXCEPT !.step = "asking"], Written(r, Declared(req[r].ask))}
    \/ /\ req[r].step = "asking" /\ req[r].ask.kind = "put"
       /\ \/ q = Written(r, Declared(req[r].ask))
          \/ \E d \in Findable : q = Written(r, Aligned(req[r].ask, d))
    \/ /\ req[r].step = "asking"
       /\ \E missing \in BOOLEAN : q = [req[r] EXCEPT !.step = "listing", !.missing = missing]
    \/ req[r].step = "asking" /\ q = [req[r] EXCEPT !.gone = TRUE]

LEMMA UseMoves ==
    ASSUME NEW r \in Requests, req[r].step = "asking", NEW snap,
           snap.departments \subseteq Findable, Use(r, snap)
    PROVE  \E q : Moves(r, q) /\ req' = [req EXCEPT ![r] = q]
<1>1. CASE End(r)
  BY <1>1 DEF End, Moves
<1>2. CASE req[r].ask.kind = "put" /\ Resolve(r, snap)
  <2>1. Find(snap, req[r].ask.id, req[r].ask.name) \subseteq snap.departments
    BY DEF Find
  <2>2. \/ End(r)
        \/ \E dept : /\ req' = [req EXCEPT ![r] = Written(r, dept)]
                     /\ \/ dept = Declared(req[r].ask)
                        \/ \E d \in Findable : dept = Aligned(req[r].ask, d)
    BY <1>2, <2>1 DEF Resolve, Written
  <2> QED BY <1>1, <1>2, <2>2 DEF Moves
<1>3. CASE req[r].ask.kind = "org" /\ req' = [req EXCEPT ![r].step = "listing",
            ![r].missing = Find(snap, req[r].ask.id, None) = {} /\ Telling(snap)]
  <2> DEFINE missing == Find(snap, req[r].ask.id, None) = {} /\ Telling(snap)
  <2>1. missing \in BOOLEAN
    OBVIOUS
  <2>2. req' = [req EXCEPT ![r] = [req[r] EXCEPT !.step = "listing", !.missing = missing]]
    BY <1>3
  <2> HIDE DEF missing
  <2> QED BY <2>1, <2>2 DEF Moves
<1> QED BY <1>1, <1>2, <1>3 DEF Use

LEMMA StepMoves ==
    ASSUME Typed, Step
    PROVE  \/ req' = req
           \/ token' = token /\ \E r \in Requests : \E q : Moves(r, q) /\ req' = [req EXCEPT ![r] = q]
<1>1. ASSUME NEW r \in Requests, NEW ask \in Asks[r], Send(r, ask)
      PROVE  \E q : Moves(r, q) /\ req' = [req EXCEPT ![r] = q]
  BY <1>1 DEF Send, Moves, Begun
<1>2. ASSUME NEW r \in Requests, Authorize(r) \/ Write(r) \/ ListByOrg(r) \/ ClientLeaves(r)
      PROVE  \E q : Moves(r, q) /\ req' = [req EXCEPT ![r] = q]
  <2>1. CASE End(r)
    BY <2>1 DEF End, Moves
  <2>2. CASE req[r].step = "sent" /\ Allowed(req[r].ask) /\ Continue(r, "allowed")
    BY <2>2 DEF Continue, Moves
  <2>3. CASE req[r].step = "asking" /\ req' = [req EXCEPT ![r].gone = TRUE]
    BY <2>3 DEF Moves
  <2> QED BY <1>2, <2>1, <2>2, <2>3 DEF Authorize, Write, ListByOrg, ClientLeaves
<1>3. ASSUME NEW r \in Requests, CheckNamespace(r)
      PROVE  \E q : Moves(r, q) /\ req' = [req EXCEPT ![r] = q]
  <2>1. \/ End(r)
        \/ Continue(r, "asking")
        \/ req' = [req EXCEPT ![r] = Written(r, Declared(req[r].ask))]
    BY <1>3 DEF CheckNamespace, Written
  <2> QED BY <1>3, <2>1 DEF CheckNamespace, End, Continue, Moves
<1>4. ASSUME NEW r \in Requests, UseCached(r)
      PROVE  \E q : Moves(r, q) /\ req' = [req EXCEPT ![r] = q]
  <2>1. current.departments \subseteq Findable
    BY <1>4 DEF UseCached, Cached, Findable
  <2> QED BY <1>4, <2>1, UseMoves DEF UseCached
<1>5. ASSUME NEW r \in Requests, EndFetch(r)
      PROVE  \E q : Moves(r, q) /\ req' = [req EXCEPT ![r] = q]
  <2>1. Degrade.departments \subseteq Findable
    BY DEF Degrade, Findable
  <2>2. reply # None => Fetched(reply).departments \subseteq Findable
    BY DEF Fetched, Findable
  <2>3. PICK snap \in {Degrade} \union (IF reply = None THEN {} ELSE {Fetched(reply)}) :
           FetchEnds(r, req[r].gone, snap) /\ Use(r, snap)
    BY <1>5 DEF EndFetch
  <2>4. req[r].step = "asking"
    BY <2>3, NoneAssumption DEF FetchEnds, Typed
  <2>5. snap.departments \subseteq Findable
    BY <2>1, <2>2, <2>3
  <2> QED BY <2>3, <2>4, <2>5, UseMoves
<1>6. ASSUME NEW r \in Requests,
             (\E ask \in Asks[r] : Send(r, ask)) \/ Handler(r) \/ UseCached(r) \/ ClientLeaves(r)
      PROVE  token' = token
  BY <1>6 DEF Handler, Send, Authorize, CheckNamespace, EndFetch, Write, ListByOrg, UseCached,
              ClientLeaves
<1>7. ASSUME NEW r \in Requests, StartFetch(r) PROVE req' = req
  BY <1>7 DEF StartFetch
<1>8. ASSUME \/ OrganizationChanges /\ Unchanged
             \/ Answers /\ Unchanged
             \/ ChangeToken \/ DeleteNamespace
      PROVE  req' = req
  BY <1>8 DEF Unchanged, ChangeToken, DeleteNamespace
<1>9. CASE \E r \in Requests : (\E ask \in Asks[r] : Send(r, ask)) \/ Handler(r) \/ TakeLock(r)
                             \/ ClientLeaves(r)
  <2>1. PICK r \in Requests : (\E ask \in Asks[r] : Send(r, ask)) \/ Handler(r) \/ TakeLock(r)
                           \/ ClientLeaves(r)
    BY <1>9
  <2>2. CASE StartFetch(r)
    BY <1>7, <2>2
  <2>3. CASE (\E ask \in Asks[r] : Send(r, ask)) \/ Handler(r) \/ UseCached(r) \/ ClientLeaves(r)
    <3>1. token' = token
      BY <1>6, <2>3
    <3>2. \E q : Moves(r, q) /\ req' = [req EXCEPT ![r] = q]
      BY <1>1, <1>2, <1>3, <1>4, <1>5, <2>3 DEF Handler
    <3> QED BY <3>1, <3>2
  <2> QED BY <2>1, <2>2, <2>3 DEF TakeLock
<1> QED BY <1>8, <1>9 DEF Step

(* A step that begins a fetch leaves the requests as they are; the fetch of a  *)
(* request ends before the request goes on.                                    *)
LEMMA StepHolder ==
    ASSUME Typed, Step
    PROVE  holder' # None => holder' \in Requests /\ req'[holder'].step = "asking"
<1>1. ASSUME NEW r \in Requests, StartFetch(r) PROVE holder' = r /\ req' = req /\ req[r].step = "asking"
  BY <1>1 DEF StartFetch, Fetch
<1>2. ASSUME NEW r \in Requests, UseCached(r) PROVE holder' = None
  BY <1>2 DEF UseCached, clientVars
<1>3. ASSUME NEW r \in Requests, EndFetch(r) PROVE holder' = None
  BY <1>3 DEF EndFetch, FetchEnds, Keep
<1>4. ASSUME NEW r \in Requests,
             \/ Authorize(r) \/ CheckNamespace(r) \/ Write(r) \/ ListByOrg(r)
             \/ \E ask \in Asks[r] : Send(r, ask)
      PROVE  holder' = holder /\ req[r].step # "asking" /\ \A t \in Requests \ {r} : req'[t] = req[t]
  BY <1>4 DEF Authorize, CheckNamespace, Write, ListByOrg, Send, End, Continue, clientVars, Typed
<1>5. ASSUME NEW r \in Requests, ClientLeaves(r)
      PROVE  /\ holder' = holder /\ \A t \in Requests \ {r} : req'[t] = req[t]
             /\ req[r].step = "asking" => req'[r].step = "asking"
  BY <1>5 DEF ClientLeaves, End, clientVars, Typed, Doing
<1>6. ASSUME \/ OrganizationChanges /\ Unchanged
             \/ Answers /\ Unchanged
             \/ ChangeToken \/ DeleteNamespace
      PROVE  holder' = holder /\ req' = req
  BY <1>6 DEF OrganizationChanges, Answers, Unchanged, ChangeToken, DeleteNamespace, clientVars
<1> QED BY <1>1, <1>2, <1>3, <1>4, <1>5, <1>6 DEF Step, Handler, TakeLock, Typed

(* Whatever is kept, in the cache or in a reply, is what was there or a list   *)
(* the organization has.                                                       *)
LEMMA StepFindable ==
    ASSUME Step \/ (Tick /\ Unchanged)
    PROVE  Findable' \subseteq Findable \union listing
<1>1. CASE UNCHANGED <<current, last, reply>>
  BY <1>1 DEF Findable
<1>2. CASE Answers
  BY <1>2 DEF Answers, Findable
<1>3. ASSUME NEW r \in Requests, StartFetch(r) PROVE Findable' \subseteq Findable
  BY <1>3 DEF StartFetch, Fetch, Findable
<1>4. ASSUME NEW r \in Requests, EndFetch(r) PROVE Findable' \subseteq Findable
  <2>1. PICK snap : FetchEnds(r, req[r].gone, snap)
    BY <1>4 DEF EndFetch
  <2>2. /\ current' = snap /\ reply' = None
        /\ \/ reply # None /\ snap = Fetched(reply) /\ last' = reply
           \/ snap = Degrade /\ last' = last
    BY <2>1 DEF FetchEnds, Keep
  <2>3. snap.departments \subseteq Findable
    BY <2>2 DEF Fetched, Degrade, Findable
  <2>4. last' # None => last' \subseteq Findable
    BY <2>2 DEF Findable
  <2> QED BY <2>2, <2>3, <2>4 DEF Findable
<1>5. ASSUME NEW r \in Requests,
             \/ Authorize(r) \/ CheckNamespace(r) \/ Write(r) \/ ListByOrg(r) \/ UseCached(r)
             \/ ClientLeaves(r) \/ \E ask \in Asks[r] : Send(r, ask)
      PROVE  UNCHANGED <<current, last, reply>>
  BY <1>5 DEF Authorize, CheckNamespace, Write, ListByOrg, UseCached, ClientLeaves, Send, clientVars
<1>6. ASSUME OrganizationChanges \/ Tick \/ ChangeToken \/ DeleteNamespace
      PROVE  UNCHANGED <<current, last, reply>>
  BY <1>6 DEF OrganizationChanges, Tick, ChangeToken, DeleteNamespace, clientVars
<1> QED BY <1>1, <1>2, <1>3, <1>4, <1>5, <1>6 DEF Step, Handler, TakeLock

LEMMA StepListing ==
    ASSUME Step \/ (Tick /\ Unchanged)
    PROVE  listing' = listing \/ listing' \in Listings
<1>1. ASSUME NEW r \in Requests,
             \/ Handler(r) \/ TakeLock(r)
             \/ ClientLeaves(r) \/ \E ask \in Asks[r] : Send(r, ask)
      PROVE  listing' = listing
  <2>1. ASSUME EndFetch(r) PROVE listing' = listing
    BY <2>1 DEF EndFetch, FetchEnds, Keep, orgVars
  <2> QED BY <1>1, <2>1 DEF Handler, TakeLock, Authorize, CheckNamespace, Write, ListByOrg, UseCached,
             StartFetch, Fetch, ClientLeaves, Send, orgVars
<1>2. ASSUME Answers \/ Tick \/ ChangeToken \/ DeleteNamespace PROVE listing' = listing
  BY <1>2 DEF Answers, Tick, ChangeToken, DeleteNamespace, orgVars
<1> QED BY <1>1, <1>2 DEF Step, OrganizationChanges

LEMMA NextListed == FindableWasListed /\ [Next]_vars => FindableWasListed'
<1> SUFFICES ASSUME FindableWasListed, [Next]_vars PROVE FindableWasListed'
  OBVIOUS
<1>1. CASE Next
  <2>1. ever' = ever \union listing' /\ (Step \/ (Tick /\ Unchanged))
    BY <1>1 DEF Next, TimePasses, Observed
  <2>2. listing' \subseteq Department
    BY <2>1, StepListing, ListingAssumption DEF FindableWasListed
  <2> QED BY <2>1, <2>2, StepFindable DEF FindableWasListed
<1>2. CASE UNCHANGED vars
  BY <1>2 DEF vars, orgVars, clientVars, ghosts, FindableWasListed, Findable
<1> QED BY <1>1, <1>2

(* What becomes of a request is a request.                                     *)
LEMMA MovesTyped ==
    ASSUME Typed, FindableWasListed, NEW r \in Requests, NEW q, Moves(r, q)
    PROVE  /\ q \in Doing
           /\ q.step # "ended" => q.ask \in Ask
           /\ q.step \in {"sent", "allowed", "writing"} => q.ask.kind = "put"
<1>0. req[r] \in Doing
  BY DEF Typed
<1>1. Idle \in Doing /\ Idle.step = "ended"
  BY DEF Idle, Doing, Steps, NoDepartment, Stored
<1>2. ASSUME NEW ask \in Asks[r]
      PROVE  /\ Begun(r, ask) \in Doing /\ ask \in Ask /\ Begun(r, ask).ask = ask
             /\ Begun(r, ask).step = IF ask.kind = "put" THEN "sent" ELSE "asking"
  <2> DEFINE step == IF ask.kind = "put" THEN "sent" ELSE "asking"
             opened == ask.kind = "put" /\ ask.token \in Tokens /\ ask.token = token
  <2>1. ask \in Ask
    BY AskAssumption
  <2>2. step \in Steps /\ opened \in BOOLEAN
    BY DEF Steps
  <2>3. Begun(r, ask) = [Idle EXCEPT !.ask = ask, !.step = step, !.opened = opened]
    BY DEF Begun
  <2> HIDE DEF step, opened
  <2>4. /\ Begun(r, ask) \in Doing /\ Begun(r, ask).ask = ask /\ Begun(r, ask).step = step
    BY <1>1, <2>1, <2>2, <2>3 DEF Doing
  <2> QED BY <2>1, <2>4 DEF step
<1>3. ASSUME NEW step \in Steps \ {"ended"}, NEW missing \in BOOLEAN
      PROVE  /\ [req[r] EXCEPT !.step = step] \in Doing
             /\ [req[r] EXCEPT !.step = step, !.missing = missing] \in Doing
             /\ [req[r] EXCEPT !.gone = TRUE] \in Doing
  BY <1>0, <1>3 DEF Doing
<1>4. ASSUME NEW dept \in Stored PROVE Written(r, dept) \in Doing
  BY <1>0, <1>4 DEF Doing, Written, Steps
<1>5. ASSUME req[r].ask.kind = "put", req[r].ask \in Ask
      PROVE  /\ Declared(req[r].ask) \in Stored
             /\ \A d \in Findable : Aligned(req[r].ask, d) \in Stored
  <2>1. req[r].ask.id \in Ids \union {None} /\ req[r].ask.name \in Names \union {None}
    BY <1>5 DEF Ask
  <2>2. \A d \in Findable : d \in Department
    BY DEF FindableWasListed
  <2> QED BY <2>1, <2>2 DEF Declared, Aligned, Stored, Department
<1>6. CASE q = Idle
  BY <1>1, <1>6
<1>7. CASE \E ask \in Asks[r] : q = Begun(r, ask)
  BY <1>2, <1>7
<1>8. CASE req[r].step = "sent" /\ q = [req[r] EXCEPT !.step = "allowed"]
  <2>1. q \in Doing
    BY <1>3, <1>8 DEF Steps
  <2>2. q.step = "allowed" /\ q.ask = req[r].ask
    BY <1>0, <1>8 DEF Doing
  <2> QED BY <1>8, <2>1, <2>2 DEF Typed
<1>9. CASE req[r].step = "allowed" /\ q = [req[r] EXCEPT !.step = "asking"]
  BY <1>0, <1>3, <1>9 DEF Typed, Doing, Steps
<1>10. ASSUME req[r].ask.kind = "put", req[r].step # "ended", NEW dept,
              q = Written(r, dept),
              dept = Declared(req[r].ask) \/ \E d \in Findable : dept = Aligned(req[r].ask, d)
       PROVE  q \in Doing /\ q.ask = req[r].ask /\ req[r].ask \in Ask /\ q.ask.kind = "put"
  <2>1. req[r].ask \in Ask /\ dept \in Stored
    BY <1>5, <1>10 DEF Typed
  <2> QED BY <1>0, <1>4, <1>10, <2>1 DEF Written, Doing
<1>11. CASE req[r].step = "asking"
            /\ \E missing \in BOOLEAN : q = [req[r] EXCEPT !.step = "listing", !.missing = missing]
  <2>1. PICK missing \in BOOLEAN : q = [req[r] EXCEPT !.step = "listing", !.missing = missing]
    BY <1>11
  <2>2. q \in Doing /\ q.step = "listing" /\ q.ask = req[r].ask
    BY <1>0, <1>3, <2>1 DEF Doing, Steps
  <2> QED BY <1>11, <2>2 DEF Typed
<1>12. CASE req[r].step = "asking" /\ q = [req[r] EXCEPT !.gone = TRUE]
  <2>1. q \in Doing /\ q.step = "asking" /\ q.ask = req[r].ask
    BY <1>0, <1>3, <1>12 DEF Doing, Steps
  <2> QED BY <1>12, <2>1 DEF Typed
<1> QED BY <1>6, <1>7, <1>8, <1>9, <1>10, <1>11, <1>12 DEF Moves, Typed

LEMMA NextTyped == Typed /\ FindableWasListed /\ [Next]_vars => Typed'
<1> SUFFICES ASSUME Typed, FindableWasListed, [Next]_vars PROVE Typed'
  OBVIOUS
<1>1. CASE Step
  <2>1. CASE req' = req
    BY <1>1, <2>1, StepHolder DEF Typed
  <2>2. ASSUME NEW r \in Requests, NEW q, Moves(r, q), req' = [req EXCEPT ![r] = q] PROVE Typed'
    <3>1. req' \in [Requests -> Doing] /\ req'[r] = q /\ \A t \in Requests \ {r} : req'[t] = req[t]
      BY <2>2, MovesTyped DEF Typed
    <3> QED BY <1>1, <2>2, <3>1, MovesTyped, StepHolder DEF Typed
  <2> QED BY <1>1, <2>1, <2>2, StepMoves
<1>2. CASE TimePasses \/ UNCHANGED vars
  BY <1>2 DEF TimePasses, Tick, Unchanged, vars, clientVars, Typed
<1> QED BY <1>1, <1>2 DEF Next

LEMMA InitTyped == Init => Typed /\ FindableWasListed
<1> SUFFICES ASSUME Init PROVE Typed /\ FindableWasListed
  OBVIOUS
<1>1. Typed
  BY DEF Init, DirectoryInit, Typed, Idle, Doing, Steps, NoDepartment, Stored
<1>2. FindableWasListed
  BY ListingAssumption DEF Init, DirectoryInit, FindableWasListed, Findable
<1> QED BY <1>1, <1>2

-----------------------------------------------------------------------------
(* Who may write *)

Permitted(q) ==
    \/ q.ask.token = AdminToken
    \/ q.opened
    \/ q.ask.token = None /\ q.ask.trusted /\ WriteAuthOpen

(* A PUT past its authorization was allowed when it came; one before it carries *)
(* the namespace's present token only if that was the token then.               *)
WritesArePermitted ==
    \A r \in Requests :
        /\ req[r].step = "sent" /\ req[r].ask.token \in Tokens /\ req[r].ask.token = token
           => req[r].opened
        /\ req[r].step \in {"allowed", "asking", "writing"} /\ req[r].ask.kind = "put"
           => Permitted(req[r])

LEMMA StepPermitted ==
    ASSUME Typed, WritesArePermitted, Step
    PROVE  WritesArePermitted'
<1>1. ASSUME req' = req PROVE token' = token \/ token' \notin Tokens
  <2>1. ASSUME NEW r \in Requests,
               Handler(r) \/ TakeLock(r) \/ ClientLeaves(r) \/ \E ask \in Asks[r] : Send(r, ask)
        PROVE  token' = token
    BY <2>1 DEF Handler, TakeLock, Authorize, CheckNamespace, EndFetch, Write, ListByOrg, UseCached,
                StartFetch, ClientLeaves, Send
  <2> QED BY <2>1, TokenAssumption DEF Step, Unchanged, ChangeToken, DeleteNamespace
<1>2. CASE req' = req
  BY <1>1, <1>2 DEF WritesArePermitted, Permitted
<1>3. ASSUME token' = token, NEW r \in Requests, NEW q, Moves(r, q), req' = [req EXCEPT ![r] = q]
      PROVE  WritesArePermitted'
  <2>0. req[r] \in Doing
    BY DEF Typed
  <2>1. req'[r] = q /\ \A t \in Requests \ {r} : req'[t] = req[t]
    BY <1>3 DEF Typed
  <2>2. /\ q.step = "sent" /\ q.ask.token \in Tokens /\ q.ask.token = token => q.opened
        /\ q.step \in {"allowed", "asking", "writing"} /\ q.ask.kind = "put" => Permitted(q)
    <3>1. CASE q = Idle
      BY <3>1 DEF Idle
    <3>2. ASSUME NEW ask \in Asks[r], q = Begun(r, ask)
          PROVE  /\ q.step = "sent" /\ q.ask.token \in Tokens /\ q.ask.token = token => q.opened
                 /\ q.step \in {"allowed", "asking", "writing"} => q.ask.kind # "put"
      BY <3>2 DEF Begun, Idle
    <3>3. CASE req[r].step = "sent" /\ Allowed(req[r].ask) /\ q = [req[r] EXCEPT !.step = "allowed"]
      BY <2>0, <3>3 DEF WritesArePermitted, Allowed, Permitted, Doing
    <3>4. ASSUME req[r].step \in {"allowed", "asking"}, q.ask = req[r].ask, q.opened = req[r].opened,
                 q.step # "sent"
          PROVE  q.step \in {"allowed", "asking", "writing"} /\ q.ask.kind = "put" => Permitted(q)
      BY <3>4 DEF WritesArePermitted, Permitted
    <3>5. ASSUME NEW dept, q = Written(r, dept)
          PROVE  q.ask = req[r].ask /\ q.opened = req[r].opened /\ q.step = "writing"
      BY <2>0, <3>5 DEF Written, Doing
    <3>7. CASE /\ req[r].step \in {"allowed", "asking"}
               /\ \E dept : q = Written(r, dept)
      BY <3>4, <3>5, <3>7
    <3>8. CASE req[r].step = "allowed" /\ q = [req[r] EXCEPT !.step = "asking"]
      <4>1. q.ask = req[r].ask /\ q.opened = req[r].opened /\ q.step = "asking"
        BY <2>0, <3>8 DEF Doing
      <4> QED BY <3>4, <3>8, <4>1
    <3>9. CASE req[r].step = "asking"
               /\ \E missing \in BOOLEAN : q = [req[r] EXCEPT !.step = "listing", !.missing = missing]
      <4>1. q.step = "listing"
        BY <2>0, <3>9 DEF Doing
      <4> QED BY <4>1
    <3>10. CASE req[r].step = "asking" /\ q = [req[r] EXCEPT !.gone = TRUE]
      <4>1. q.ask = req[r].ask /\ q.opened = req[r].opened /\ q.step = "asking"
        BY <2>0, <3>10 DEF Doing
      <4> QED BY <3>4, <3>10, <4>1
    <3> QED BY <1>3, <3>1, <3>2, <3>3, <3>7, <3>8, <3>9, <3>10 DEF Moves
  <2> QED BY <1>3, <2>1, <2>2 DEF WritesArePermitted, Permitted
<1> QED BY <1>2, <1>3, StepMoves

LEMMA NextPermitted == Typed /\ WritesArePermitted /\ [Next]_vars => WritesArePermitted'
<1> SUFFICES ASSUME Typed, WritesArePermitted, [Next]_vars PROVE WritesArePermitted'
  OBVIOUS
<1>1. CASE TimePasses \/ UNCHANGED vars
  BY <1>1 DEF TimePasses, Unchanged, vars, WritesArePermitted, Permitted
<1> QED BY <1>1, StepPermitted DEF Next

(* Only the last step of a PUT changes the contract to anything but none.      *)
LEMMA WriteStep ==
    ASSUME Typed, WritesArePermitted, Next, contract' # contract, contract' # None
    PROVE  \E r \in Requests :
              /\ req[r].step = "writing" /\ req'[r].step = "ended"
              /\ Permitted(req[r])
<1>1. ASSUME NEW r \in Requests,
             \/ Authorize(r) \/ CheckNamespace(r) \/ EndFetch(r) \/ ListByOrg(r) \/ TakeLock(r)
             \/ ClientLeaves(r) \/ \E ask \in Asks[r] : Send(r, ask)
      PROVE  contract' = contract
  BY <1>1 DEF Authorize, CheckNamespace, EndFetch, ListByOrg, TakeLock, UseCached, StartFetch,
              ClientLeaves, Send
<1>2. ASSUME TimePasses \/ Unchanged \/ ChangeToken \/ DeleteNamespace
      PROVE  contract' \in {contract, None}
  BY <1>2 DEF TimePasses, Unchanged, ChangeToken, DeleteNamespace
<1>3. PICK r \in Requests : Write(r)
  BY <1>1, <1>2 DEF Next, Step, Handler
<1>4. req[r].step = "writing" /\ req'[r].step = "ended"
  BY <1>3 DEF Write, End, Idle, Typed
<1> QED BY <1>4 DEF WritesArePermitted, Typed

LEMMA WriteInvariant == Spec => [](Typed /\ FindableWasListed /\ WritesArePermitted)
<1>1. ASSUME Init PROVE WritesArePermitted
  <2>1. \A r \in Requests : req[r].step = "ended"
    BY <1>1 DEF Init, Idle
  <2> QED BY <2>1 DEF WritesArePermitted
<1>2. Typed /\ FindableWasListed /\ WritesArePermitted /\ [Next]_vars
      => (Typed /\ FindableWasListed /\ WritesArePermitted)'
  BY NextTyped, NextListed, NextPermitted
<1> QED BY <1>1, <1>2, InitTyped, PTL DEF Spec

(* A contract is written for the administrator, for a token the namespace had   *)
(* when the request came, or without a token where that is allowed, however     *)
(* tokens are made, rotated and cleared while requests wait for the directory.  *)
THEOREM WritesWereAllowed == Spec => WriteWasAllowed
<1> DEFINE A == contract' # contract /\ contract' # None => \E r \in Requests :
                  LET ask == req[r].ask IN
                  /\ req[r].step = "writing" /\ req'[r].step = "ended"
                  /\ \/ ask.token = AdminToken
                     \/ req[r].opened
                     \/ ask.token = None /\ ask.trusted /\ WriteAuthOpen
<1>1. Typed /\ WritesArePermitted /\ [Next]_vars => [A]_vars
  BY WriteStep DEF Permitted
<1> QED BY <1>1, WriteInvariant, PTL DEF Spec, WriteWasAllowed

-----------------------------------------------------------------------------
(* Which department is stored *)

LEMMA StepResolved ==
    ASSUME Typed, FindableWasListed, ResolvedWasListed, Step, Observed(0)
    PROVE  ResolvedWasListed'
<1>1. ever \subseteq ever'
  BY DEF Observed
<1>2. CASE req' = req
  BY <1>1, <1>2 DEF ResolvedWasListed
<1>3. ASSUME NEW r \in Requests, NEW q, Moves(r, q), req' = [req EXCEPT ![r] = q]
      PROVE  ResolvedWasListed'
  <2>0. req[r] \in Doing
    BY DEF Typed
  <2>1. req'[r] = q /\ \A t \in Requests \ {r} : req'[t] = req[t]
    BY <1>3 DEF Typed
  <2>2. \A dept : Written(r, dept).dept = dept
    BY <2>0 DEF Written, Doing
  <2>3. ASSUME NEW d \in Findable
        PROVE  [id |-> Aligned(req[r].ask, d).id, name |-> Aligned(req[r].ask, d).name] \in ever
    <3>1. d \in ever /\ d \in Department
      BY DEF FindableWasListed
    <3>2. d = [id |-> d.id, name |-> d.name]
      BY <3>1 DEF Department
    <3> QED BY <3>1, <3>2 DEF Aligned
  <2>4. ~ Declared(req[r].ask).resolved
    BY DEF Declared
  <2>5. ASSUME NEW ask PROVE ~ Begun(r, ask).dept.resolved
    BY DEF Begun, Idle, NoDepartment
  <2>6. ~ Idle.dept.resolved
    BY DEF Idle, NoDepartment
  <2>7. ASSUME NEW step, NEW missing,
               \/ q = [req[r] EXCEPT !.step = step] \/ q = [req[r] EXCEPT !.gone = TRUE]
               \/ q = [req[r] EXCEPT !.step = step, !.missing = missing]
        PROVE  q.dept = req[r].dept
    BY <2>0, <2>7 DEF Doing
  <2>8. \/ q.dept = req[r].dept
        \/ ~ q.dept.resolved
        \/ [id |-> q.dept.id, name |-> q.dept.name] \in ever
    <3>1. CASE q = Idle
      BY <2>6, <3>1
    <3>2. CASE \E ask \in Asks[r] : q = Begun(r, ask)
      BY <2>5, <3>2
    <3>3. CASE q = Written(r, Declared(req[r].ask))
      BY <2>2, <2>4, <3>3
    <3>4. CASE \E d \in Findable : q = Written(r, Aligned(req[r].ask, d))
      <4>1. PICK d \in Findable : q = Written(r, Aligned(req[r].ask, d))
        BY <3>4
      <4>2. q.dept = Aligned(req[r].ask, d)
        BY <2>2, <4>1
      <4> QED BY <2>3, <4>2
    <3>5. CASE \E step : q = [req[r] EXCEPT !.step = step]
      BY <2>7, <3>5
    <3>6. CASE \E step, missing : q = [req[r] EXCEPT !.step = step, !.missing = missing]
      BY <2>7, <3>6
    <3>7. CASE q = [req[r] EXCEPT !.gone = TRUE]
      BY <2>7, <3>7
    <3> QED BY <1>3, <3>1, <3>2, <3>3, <3>4, <3>5, <3>6, <3>7 DEF Moves
  <2> QED BY <1>1, <2>1, <2>8 DEF ResolvedWasListed
<1> QED BY <1>2, <1>3, StepMoves

(* The department a contract is aligned to is one the organization has listed,  *)
(* under that name, through caches, failures and changes of the organization.   *)
THEOREM ResolvedWereListed == Spec => []ResolvedWasListed
<1>1. Init => ResolvedWasListed
  BY DEF Init, Idle, NoDepartment, ResolvedWasListed
<1>2. Typed /\ FindableWasListed /\ ResolvedWasListed /\ [Next]_vars => ResolvedWasListed'
  <2> SUFFICES ASSUME Typed, FindableWasListed, ResolvedWasListed, [Next]_vars
               PROVE  ResolvedWasListed'
    OBVIOUS
  <2>1. CASE TimePasses \/ UNCHANGED vars
    BY <2>1 DEF TimePasses, Observed, Unchanged, vars, ghosts, ResolvedWasListed
  <2> QED BY <2>1, StepResolved DEF Next
<1> QED BY <1>1, <1>2, WriteInvariant, PTL DEF Spec

-----------------------------------------------------------------------------
(* What the client of the organization keeps *)

(* The part of a step that the client and the organization take.               *)
LEMMA StepDirectory ==
    ASSUME Step
    PROVE  \/ OrganizationChanges
           \/ Answers
           \/ \E r \in Requests : \E force : Fetch(r, force)
           \/ \E r \in Requests : \E snap : FetchEnds(r, req[r].gone, snap)
           \/ UNCHANGED <<orgVars, clientVars>>
<1>1. ASSUME NEW r \in Requests,
             \/ Authorize(r) \/ CheckNamespace(r) \/ Write(r) \/ ListByOrg(r) \/ UseCached(r)
             \/ ClientLeaves(r) \/ \E ask \in Asks[r] : Send(r, ask)
      PROVE  UNCHANGED <<orgVars, clientVars>>
  BY <1>1 DEF Authorize, CheckNamespace, Write, ListByOrg, UseCached, ClientLeaves, Send
<1>2. ASSUME NEW r \in Requests, StartFetch(r) PROVE \E force : Fetch(r, force)
  BY <1>2 DEF StartFetch
<1>3. ASSUME NEW r \in Requests, EndFetch(r) PROVE \E snap : FetchEnds(r, req[r].gone, snap)
  BY <1>3 DEF EndFetch
<1>4. ASSUME ChangeToken \/ DeleteNamespace PROVE UNCHANGED <<orgVars, clientVars>>
  BY <1>4 DEF ChangeToken, DeleteNamespace
<1> QED BY <1>1, <1>2, <1>3, <1>4 DEF Step, Handler, TakeLock

(* What a fetch that ends leaves in the cache.                                 *)
LEMMA FetchEndsMeans ==
    ASSUME DirectoryTypeOK, NEW r \in Requests, NEW snap, FetchEnds(r, req[r].gone, snap)
    PROVE  /\ snap \in Snapshot /\ holder = r
           /\ \/ reply # None /\ snap = Fetched(reply) /\ last' = reply
              \/ /\ ~reachable \/ elapsed = Timeout \/ req[r].gone
                 /\ ~ snap.available /\ last' = last
           /\ current' = snap /\ age' = 0 /\ holder' = None /\ elapsed' = 0 /\ reply' = None
           /\ UNCHANGED orgVars
<1>1. \A departments \in Listings : Fetched(departments) \in Snapshot
  BY ListingAssumption DEF Fetched, Snapshot
<1>2. Degrade \in Snapshot /\ ~ Degrade.available
  BY ListingAssumption DEF Degrade, Snapshot, DirectoryTypeOK
<1>3. holder = r /\ Keep(snap)
      /\ \/ reply # None /\ snap = Fetched(reply) /\ last' = reply
         \/ (~reachable \/ elapsed = Timeout \/ req[r].gone) /\ snap = Degrade /\ last' = last
  BY DEF FetchEnds
<1> QED BY <1>1, <1>2, <1>3 DEF Keep, DirectoryTypeOK

LEMMA StepDirectoryType == DirectoryTypeOK /\ [Next]_vars => DirectoryTypeOK'
<1> SUFFICES ASSUME DirectoryTypeOK, [Next]_vars PROVE DirectoryTypeOK'
  OBVIOUS
<1>1. CASE OrganizationChanges
  <2>1. orgChanges' \in 0 .. MaxChanges
    BY <1>1, BoundAssumption DEF OrganizationChanges, DirectoryTypeOK
  <2>2. listing' \in Listings /\ reachable' \in BOOLEAN /\ UNCHANGED clientVars
    BY <1>1 DEF OrganizationChanges, DirectoryTypeOK
  <2> QED BY <2>1, <2>2 DEF DirectoryTypeOK, clientVars
<1>2. CASE Answers
  BY <1>2 DEF Answers, DirectoryTypeOK, orgVars
<1>3. ASSUME NEW r \in Requests, NEW force, Fetch(r, force) PROVE DirectoryTypeOK'
  BY <1>3, TimeAssumption DEF Fetch, DirectoryTypeOK, orgVars
<1>4. ASSUME NEW r \in Requests, NEW snap, FetchEnds(r, req[r].gone, snap) PROVE DirectoryTypeOK'
  <2>1. /\ current' \in Snapshot /\ age' = 0 /\ holder' = None /\ elapsed' = 0 /\ reply' = None
        /\ (reply # None /\ last' = reply) \/ last' = last
        /\ UNCHANGED orgVars
    BY <1>4, FetchEndsMeans
  <2>2. 0 \in 0 .. CacheTTL /\ 0 \in 0 .. Timeout
    BY TimeAssumption
  <2> QED BY <2>1, <2>2 DEF DirectoryTypeOK, orgVars
<1>5. CASE UNCHANGED <<orgVars, clientVars>>
  BY <1>5 DEF DirectoryTypeOK, orgVars, clientVars
<1>6. CASE Tick
  <2>1. elapsed' \in 0 .. Timeout /\ age' \in 0 .. CacheTTL
    BY <1>6, TimeAssumption DEF Tick, DirectoryTypeOK
  <2> QED BY <1>6, <2>1 DEF Tick, DirectoryTypeOK, orgVars
<1> QED BY <1>1, <1>2, <1>3, <1>4, <1>5, <1>6, StepDirectory DEF Next, TimePasses, vars

GhostsOK == denied \in [Ids -> 0 .. Window] /\ trouble \in 0 .. Window

(* What the ghosts of a step say.                                              *)
LEMMA ObservedMeans ==
    ASSUME GhostsOK, NEW ticks \in {0, 1}, Observed(ticks)
    PROVE  /\ GhostsOK'
           /\ \A i \in Ids : /\ denied'[i] <= denied[i] + ticks
                             /\ Denying(i)' => denied'[i] = 0
           /\ trouble' <= trouble + ticks
           /\ \/ ~reachable' \/ listing' = {}
              \/ holder' # None /\ (elapsed' = Timeout \/ req'[holder'].gone)
              => trouble' = 0
<1>1. Window \in Nat
  BY TimeAssumption DEF Window
<1>2. \A n \in 0 .. Window : Aged(n, ticks) \in 0 .. Window /\ Aged(n, ticks) <= n + ticks
  BY <1>1 DEF Aged
<1>3. \A n \in 0 .. Window : 0 <= n + ticks /\ 0 \in 0 .. Window
  BY <1>1
<1>4. /\ denied' = [i \in Ids |-> IF Denying(i)' THEN 0 ELSE Aged(denied[i], ticks)]
      /\ trouble' =
            IF \/ ~reachable' \/ listing' = {}
               \/ holder' # None /\ (elapsed' = Timeout \/ req'[holder'].gone)
            THEN 0 ELSE Aged(trouble, ticks)
  BY DEF Observed
<1>5. denied \in [Ids -> 0 .. Window] /\ trouble \in 0 .. Window
  BY DEF GhostsOK
<1>6. /\ denied' \in [Ids -> 0 .. Window]
      /\ \A i \in Ids : denied'[i] <= denied[i] + ticks /\ (Denying(i)' => denied'[i] = 0)
  BY <1>2, <1>3, <1>4, <1>5
<1>7. trouble' \in 0 .. Window /\ trouble' <= trouble + ticks
  BY <1>2, <1>3, <1>4, <1>5
<1> QED BY <1>4, <1>6, <1>7 DEF GhostsOK

Lacks(departments, i) == departments # {} /\ \A d \in departments : d.id # i

(* A list without an id, on its way or in the cache, was the organization's    *)
(* within the time its fetch has taken, with the cache's age.  What is         *)
(* troublesome now is, and a list that tells nothing was troublesome as lately. *)
CauseInv ==
    /\ reply # None =>
          /\ holder # None
          /\ \A i \in Ids : Lacks(reply, i) => denied[i] <= elapsed
          /\ reply = {} => trouble <= elapsed
    /\ current # None =>
          /\ current.available =>
                \A i \in Ids : Lacks(current.departments, i) => denied[i] <= age + Timeout
          /\ ~ Telling(current) => trouble <= age + Timeout
    /\ \/ ~reachable \/ listing = {}
       \/ holder # None /\ (elapsed = Timeout \/ req[holder].gone)
       => trouble = 0

LEMMA StepCause ==
    ASSUME DirectoryTypeOK, GhostsOK, CauseInv, Step, Observed(0)
    PROVE  CauseInv'
<1>1. /\ \A i \in Ids : denied'[i] <= denied[i] /\ (Denying(i)' => denied'[i] = 0)
      /\ trouble' <= trouble
      /\ \/ ~reachable' \/ listing' = {}
         \/ holder' # None /\ (elapsed' = Timeout \/ req'[holder'].gone)
         => trouble' = 0
  <2>1. /\ \A i \in Ids : /\ denied'[i] <= denied[i] + 0
                          /\ Denying(i)' => denied'[i] = 0
        /\ trouble' <= trouble + 0
        /\ \/ ~reachable' \/ listing' = {}
           \/ holder' # None /\ (elapsed' = Timeout \/ req'[holder'].gone)
           => trouble' = 0
    BY ObservedMeans
  <2>2. trouble \in Int /\ \A i \in Ids : denied[i] \in Int
    BY DEF GhostsOK
  <2> QED BY <2>1, <2>2
<1>2. /\ elapsed \in 0 .. Timeout /\ age \in 0 .. CacheTTL /\ Timeout \in Nat /\ CacheTTL \in Nat
      /\ trouble \in Int /\ trouble' \in Int
      /\ \A i \in Ids : denied[i] \in Int /\ denied'[i] \in Int
  BY ObservedMeans, TimeAssumption DEF DirectoryTypeOK, GhostsOK
<1> DEFINE ReplyOK == reply # None =>
               /\ holder # None
               /\ \A i \in Ids : Lacks(reply, i) => denied[i] <= elapsed
               /\ reply = {} => trouble <= elapsed
           CacheOK == current # None =>
               /\ current.available =>
                     \A i \in Ids : Lacks(current.departments, i) => denied[i] <= age + Timeout
               /\ ~ Telling(current) => trouble <= age + Timeout
<1>3. SUFFICES ReplyOK' /\ CacheOK'
  BY <1>1 DEF CauseInv
<1>4. ASSUME UNCHANGED <<current, age>> PROVE CacheOK'
  BY <1>1, <1>2, <1>4 DEF CauseInv, Lacks, Telling
<1>5. ASSUME UNCHANGED <<holder, elapsed, reply>> PROVE ReplyOK'
  BY <1>1, <1>2, <1>5 DEF CauseInv, Lacks
<1>6. CASE OrganizationChanges
  BY <1>4, <1>5, <1>6 DEF OrganizationChanges, clientVars
<1>7. CASE Answers
  <2>1. /\ holder' = holder /\ holder # None /\ elapsed' = elapsed /\ reply' = listing
        /\ listing' = listing /\ reachable' /\ UNCHANGED <<current, age>>
    BY <1>7 DEF Answers, orgVars
  <2>2. \A i \in Ids : Lacks(reply', i) => denied'[i] = 0
    BY <1>1, <2>1 DEF Denying, Lacks
  <2>3. reply' = {} => trouble' = 0
    BY <1>1, <2>1
  <2>4. ReplyOK'
    BY <1>2, <2>1, <2>2, <2>3 DEF Lacks
  <2> QED BY <1>4, <2>1, <2>4
<1>8. ASSUME NEW r \in Requests, NEW force, Fetch(r, force) PROVE ReplyOK' /\ CacheOK'
  BY <1>4, <1>8 DEF Fetch
<1>9. ASSUME NEW r \in Requests, NEW snap, FetchEnds(r, req[r].gone, snap)
      PROVE  ReplyOK' /\ CacheOK'
  <2>1. /\ snap \in Snapshot /\ holder = r /\ r # None
        /\ current' = snap /\ age' = 0 /\ reply' = None
    BY <1>9, FetchEndsMeans, NoneAssumption
  <2>2. CASE reply # None /\ snap = Fetched(reply)
    <3>1. snap.departments = reply /\ snap.available
      BY <2>2 DEF Fetched
    <3>2. \A i \in Ids : Lacks(reply, i) => denied'[i] <= 0 + Timeout
      BY <1>1, <1>2, <2>2 DEF CauseInv
    <3>3. ~ Telling(snap) => trouble' <= 0 + Timeout
      BY <1>1, <1>2, <2>2, <3>1 DEF CauseInv, Telling
    <3> QED BY <2>1, <3>1, <3>2, <3>3
  <2>3. CASE (~reachable \/ elapsed = Timeout \/ req[r].gone) /\ ~ snap.available
    <3>1. trouble = 0
      BY <2>1, <2>3 DEF CauseInv
    <3>2. trouble' <= 0 + Timeout
      BY <1>1, <1>2, <3>1
    <3> QED BY <2>1, <2>3, <3>2
  <2> QED BY <1>9, <2>2, <2>3, FetchEndsMeans
<1>10. CASE UNCHANGED <<orgVars, clientVars>>
  BY <1>4, <1>5, <1>10 DEF clientVars
<1> QED BY <1>6, <1>7, <1>8, <1>9, <1>10, StepDirectory

LEMMA TickCause ==
    ASSUME DirectoryTypeOK, GhostsOK, CauseInv, TimePasses
    PROVE  CauseInv'
<1>1. /\ holder # None => elapsed' = elapsed + 1
      /\ age' = IF age < CacheTTL THEN age + 1 ELSE age
      /\ UNCHANGED <<orgVars, current, last, holder, reply>>
      /\ Observed(1)
  BY DEF TimePasses, Tick
<1>2. /\ \A i \in Ids : denied'[i] <= denied[i] + 1
      /\ trouble' <= trouble + 1
      /\ \/ ~reachable' \/ listing' = {}
         \/ holder' # None /\ (elapsed' = Timeout \/ req'[holder'].gone)
         => trouble' = 0
      /\ GhostsOK'
  BY <1>1, ObservedMeans
<1>3. /\ elapsed \in Nat /\ age \in 0 .. CacheTTL /\ Timeout \in Nat /\ CacheTTL \in Nat
      /\ trouble \in Int /\ \A i \in Ids : denied[i] \in Int
      /\ trouble' \in 0 .. Window /\ \A i \in Ids : denied'[i] \in 0 .. Window
      /\ Window = CacheTTL + Timeout
  BY <1>2, TimeAssumption DEF DirectoryTypeOK, GhostsOK, Window
<1>4. /\ reply' # None =>
            /\ holder' # None
            /\ \A i \in Ids : Lacks(reply', i) => denied'[i] <= elapsed'
            /\ reply' = {} => trouble' <= elapsed'
  BY <1>1, <1>2, <1>3 DEF CauseInv
<1>5. /\ \A i \in Ids : denied[i] <= age + Timeout => denied'[i] <= age' + Timeout
      /\ trouble <= age + Timeout => trouble' <= age' + Timeout
  <2>1. CASE age < CacheTTL
    BY <1>1, <1>2, <1>3, <2>1
  <2>2. CASE ~ (age < CacheTTL)
    <3>1. age' = CacheTTL
      BY <1>1, <1>3, <2>2
    <3> QED BY <1>3, <3>1
  <2> QED BY <2>1, <2>2
<1>6. current' # None =>
            /\ current'.available =>
                  \A i \in Ids : Lacks(current'.departments, i) => denied'[i] <= age' + Timeout
            /\ ~ Telling(current') => trouble' <= age' + Timeout
  BY <1>1, <1>5 DEF CauseInv
<1> QED BY <1>2, <1>4, <1>6 DEF CauseInv, Lacks, Telling

DirectoryInv == DirectoryTypeOK /\ GhostsOK /\ CauseInv

LEMMA DirectoryInvariant == Spec => []DirectoryInv
<1>1. ASSUME Init PROVE DirectoryInv
  <2>1. DirectoryTypeOK
    BY <1>1, TimeAssumption, BoundAssumption DEF Init, DirectoryInit, DirectoryTypeOK
  <2>2. GhostsOK
    <3>1. 0 \in 0 .. Window /\ Window \in 0 .. Window
      BY TimeAssumption DEF Window
    <3>2. /\ denied = [i \in Ids |-> IF Denying(i) THEN 0 ELSE Window]
          /\ trouble = IF ~reachable \/ listing = {} THEN 0 ELSE Window
      BY <1>1 DEF Init
    <3> QED BY <3>1, <3>2 DEF GhostsOK
  <2>3. CauseInv
    BY <1>1 DEF Init, DirectoryInit, CauseInv
  <2> QED BY <2>1, <2>2, <2>3 DEF DirectoryInv
<1>2. ASSUME DirectoryInv, [Next]_vars PROVE DirectoryInv'
  <2>1. DirectoryTypeOK'
    BY <1>2, StepDirectoryType DEF DirectoryInv
  <2>2. CASE TimePasses
    BY <1>2, <2>1, <2>2, TickCause, ObservedMeans DEF DirectoryInv, TimePasses
  <2>3. CASE Step /\ Observed(0)
    BY <1>2, <2>1, <2>3, StepCause, ObservedMeans DEF DirectoryInv
  <2>4. CASE UNCHANGED vars
    BY <2>1, <2>4, <1>2
       DEF vars, orgVars, clientVars, ghosts, DirectoryInv, GhostsOK, CauseInv, Lacks, Telling
  <2> QED BY <1>2, <2>2, <2>3, <2>4 DEF Next
<1> QED BY <1>1, <1>2, PTL DEF Spec

-----------------------------------------------------------------------------
(* What a request makes of the department list *)

(* The list a request that has the lock uses: the cached one, or what ends its *)
(* own fetch.                                                                  *)
Source(r, snap) == (Cached /\ snap = current) \/ FetchEnds(r, req[r].gone, snap)

LEMMA UseMeans ==
    ASSUME Typed, NEW r \in Requests, NEW snap, Use(r, snap)
    PROVE  \A t \in Requests \ {r} : req'[t] = req[t]
<1>1. \E q : req' = [req EXCEPT ![r] = q]
  <2>1. CASE End(r)
    BY <2>1 DEF End
  <2>2. CASE Resolve(r, snap)
    <3>1. End(r) \/ \E dept : req' = [req EXCEPT ![r] = Written(r, dept)]
      BY <2>2 DEF Resolve, Written
    <3> QED BY <2>1, <3>1
  <2>3. CASE req' = [req EXCEPT ![r].step = "listing",
                                ![r].missing = Find(snap, req[r].ask.id, None) = {} /\ Telling(snap)]
    BY <2>3
  <2> QED BY <2>1, <2>2, <2>3 DEF Use
<1> QED BY <1>1 DEF Typed

(* A request that asks for departments goes on with a list, or its client goes. *)
LEMMA AskingStep ==
    ASSUME Typed, Step, NEW r \in Requests, req[r].step = "asking", req'[r] # req[r]
    PROVE  \/ req'[r].step = "asking" /\ req'[r].missing = req[r].missing
           \/ \E snap : Source(r, snap) /\ Use(r, snap)
<1>1. ASSUME NEW t \in Requests,
             \/ Authorize(t) \/ CheckNamespace(t) \/ Write(t) \/ ListByOrg(t)
             \/ \E ask \in Asks[t] : Send(t, ask)
      PROVE  FALSE
  <2>1. req[t].step # "asking" /\ \A u \in Requests \ {t} : req'[u] = req[u]
    BY <1>1 DEF Authorize, CheckNamespace, Write, ListByOrg, Send, End, Continue, Typed
  <2> QED BY <2>1
<1>2. ASSUME NEW t \in Requests, ClientLeaves(t)
      PROVE  req'[r].step = "asking" /\ req'[r].missing = req[r].missing
  <2>1. \A u \in Requests \ {t} : req'[u] = req[u]
    BY <1>2 DEF ClientLeaves, End, Typed
  <2>2. t = r
    BY <2>1
  <2> QED BY <1>2, <2>2 DEF ClientLeaves, Typed, Doing
<1>3. ASSUME NEW t \in Requests, UseCached(t) \/ EndFetch(t)
      PROVE  \E snap : Source(r, snap) /\ Use(r, snap)
  <2>1. PICK snap : Source(t, snap) /\ Use(t, snap)
    BY <1>3 DEF UseCached, EndFetch, Source
  <2>2. t = r
    BY <2>1, UseMeans
  <2> QED BY <2>1, <2>2
<1>4. ASSUME NEW t \in Requests, StartFetch(t) PROVE FALSE
  BY <1>4 DEF StartFetch
<1>5. ASSUME \/ OrganizationChanges /\ Unchanged
             \/ Answers /\ Unchanged
             \/ ChangeToken \/ DeleteNamespace
      PROVE  FALSE
  BY <1>5 DEF Unchanged, ChangeToken, DeleteNamespace
<1> QED BY <1>1, <1>2, <1>3, <1>4, <1>5 DEF Step, Handler, TakeLock

(* A list that tells and lacks an id was the organization's lately.            *)
LEMMA LackedLately ==
    ASSUME DirectoryInv, CacheTTL > 0, NEW r \in Requests, NEW snap, Source(r, snap),
           Telling(snap), NEW i \in Ids, \A d \in snap.departments : d.id # i
    PROVE  denied[i] < Window
<1>0. /\ Timeout \in Nat /\ CacheTTL \in Nat /\ Window = CacheTTL + Timeout
      /\ elapsed \in 0 .. Timeout /\ age \in 0 .. CacheTTL /\ denied[i] \in Int
  BY TimeAssumption DEF Window, DirectoryInv, DirectoryTypeOK, GhostsOK
<1>1. Lacks(snap.departments, i) /\ snap.available
  BY DEF Lacks, Telling
<1>2. CASE Cached /\ snap = current
  <2>1. denied[i] <= age + Timeout /\ age < CacheTTL
    BY <1>1, <1>2 DEF Cached, DirectoryInv, CauseInv
  <2> QED BY <1>0, <2>1
<1>3. CASE FetchEnds(r, req[r].gone, snap)
  <2>1. reply # None /\ snap = Fetched(reply)
    BY <1>1, <1>3, FetchEndsMeans DEF DirectoryInv
  <2>2. Lacks(reply, i)
    BY <1>1, <2>1 DEF Fetched
  <2>3. denied[i] <= elapsed
    BY <2>1, <2>2 DEF DirectoryInv, CauseInv
  <2> QED BY <1>0, <2>3
<1> QED BY <1>2, <1>3 DEF Source

(* A list that does not tell has a cause of late.                              *)
LEMMA TroubledLately ==
    ASSUME DirectoryInv, CacheTTL > 0, NEW r \in Requests, NEW snap, Source(r, snap),
           ~ Telling(snap)
    PROVE  trouble < Window
<1>0. /\ Timeout \in Nat \ {0} /\ CacheTTL \in Nat /\ Window = CacheTTL + Timeout
      /\ elapsed \in 0 .. Timeout /\ age \in 0 .. CacheTTL /\ trouble \in Int
  BY TimeAssumption DEF Window, DirectoryInv, DirectoryTypeOK, GhostsOK
<1>1. CASE Cached /\ snap = current
  <2>1. trouble <= age + Timeout /\ age < CacheTTL
    BY <1>1 DEF Cached, DirectoryInv, CauseInv
  <2> QED BY <1>0, <2>1
<1>2. CASE FetchEnds(r, req[r].gone, snap)
  <2>1. CASE reply # None /\ snap = Fetched(reply)
    <3>1. reply = {}
      BY <2>1 DEF Fetched, Telling
    <3>2. trouble <= elapsed
      BY <2>1, <3>1 DEF DirectoryInv, CauseInv
    <3> QED BY <1>0, <3>2
  <2>2. CASE ~reachable \/ elapsed = Timeout \/ req[r].gone
    <3>1. holder = r /\ r # None
      BY <1>2, FetchEndsMeans, NoneAssumption DEF DirectoryInv
    <3>2. trouble = 0
      BY <2>2, <3>1 DEF DirectoryInv, CauseInv
    <3> QED BY <1>0, <3>2
  <2>3. \/ reply # None /\ snap = Fetched(reply)
        \/ ~reachable \/ elapsed = Timeout \/ req[r].gone
    BY <1>2 DEF FetchEnds
  <2> QED BY <2>1, <2>2, <2>3
<1> QED BY <1>1, <1>2 DEF Source

(* Find finds none only where none has the id.                                 *)
LEMMA NotFound ==
    ASSUME NEW snap, NEW i, NEW name, Find(snap, i, name) = {}
    PROVE  \A d \in snap.departments : d.id # i
BY DEF Find

LEMMA UnknownStep ==
    ASSUME Typed, DirectoryInv, CacheTTL > 0, Step, NEW r \in Requests,
           Refused(r) \/ (~req[r].missing /\ req'[r].missing)
    PROVE  denied[req[r].ask.id] < Window
<1>0. req[r] \in Doing
  BY DEF Typed
<1>1. req[r].step = "asking"
  <2>1. CASE Refused(r)
    BY <2>1 DEF Refused
  <2>2. CASE ~req[r].missing /\ req'[r].missing
    <3>0. PICK t \in Requests : \E q : Moves(t, q) /\ req' = [req EXCEPT ![t] = q]
      BY <2>2, StepMoves
    <3>1. PICK q : Moves(t, q) /\ req' = [req EXCEPT ![t] = q]
      BY <3>0
    <3>2. t = r /\ q = req'[r]
      BY <2>2, <3>1 DEF Typed
    <3>3. \A ask : ~ Begun(r, ask).missing
      BY DEF Begun, Idle
    <3>4. /\ ~ Idle.missing
          /\ \A dept : Written(r, dept).missing = req[r].missing
          /\ [req[r] EXCEPT !.step = "allowed"].missing = req[r].missing
          /\ [req[r] EXCEPT !.step = "asking"].missing = req[r].missing
      BY <1>0 DEF Idle, Written, Doing
    <3>5. Moves(r, q) /\ q.missing # req[r].missing /\ q.missing
      BY <2>2, <3>1, <3>2
    <3>6. /\ q # Idle /\ \A ask : q # Begun(r, ask)
          /\ \A dept : q # Written(r, dept)
          /\ q # [req[r] EXCEPT !.step = "allowed"] /\ q # [req[r] EXCEPT !.step = "asking"]
      BY <3>3, <3>4, <3>5
    <3> QED BY <3>5, <3>6 DEF Moves
  <2> QED BY <2>1, <2>2
<1>2. /\ req'[r] # req[r]
      /\ ~ (req'[r].step = "asking" /\ req'[r].missing = req[r].missing)
  BY DEF Refused
<1>3. PICK snap : Source(r, snap) /\ Use(r, snap)
  BY <1>1, <1>2, AskingStep
<1>4. req[r].ask \in Ask
  BY <1>1 DEF Typed
<1>5. CASE req[r].ask.kind = "put" /\ ~req[r].gone
  <2>1. Resolve(r, snap)
    BY <1>3, <1>5 DEF Use
  <2>2. \A dept : req' = [req EXCEPT ![r] = Written(r, dept)]
                  => req'[r].step = "writing" /\ req'[r].missing = req[r].missing
    BY <1>0 DEF Written, Typed, Doing
  <2>3. \/ /\ Find(snap, req[r].ask.id, req[r].ask.name) = {}
           /\ req[r].ask.id # None /\ Telling(snap)
        \/ \E dept : req' = [req EXCEPT ![r] = Written(r, dept)]
    BY <2>1 DEF Resolve, Written
  <2>4. /\ Find(snap, req[r].ask.id, req[r].ask.name) = {}
        /\ req[r].ask.id # None /\ Telling(snap)
    BY <1>2, <2>2, <2>3 DEF Refused
  <2>5. req[r].ask.id \in Ids
    BY <1>4, <1>5, <2>4 DEF Ask
  <2> QED BY <1>3, <2>4, <2>5, NotFound, LackedLately
<1>6. CASE ~ (req[r].ask.kind = "put" /\ ~req[r].gone)
  <2>1. req'[r].missing /\ ~ req[r].missing
    BY <1>6 DEF Refused
  <2>2. ~ End(r)
    BY <2>1 DEF End, Idle, Typed
  <2>3. /\ req[r].ask.kind = "org"
        /\ req' = [req EXCEPT ![r].step = "listing",
              ![r].missing = Find(snap, req[r].ask.id, None) = {} /\ Telling(snap)]
    BY <1>3, <1>6, <2>2 DEF Use
  <2>4. Find(snap, req[r].ask.id, None) = {} /\ Telling(snap)
    BY <1>0, <2>1, <2>3 DEF Typed, Doing
  <2>5. req[r].ask.id \in Ids
    BY <1>4, <2>3 DEF Ask
  <2> QED BY <1>3, <2>4, <2>5, NotFound, LackedLately
<1> QED BY <1>5, <1>6

LEMMA UncheckedStep ==
    ASSUME Typed, DirectoryInv, CacheTTL > 0, Step, NEW r \in Requests,
           req[r].step = "asking", req'[r].step = "writing",
           req'[r].dept.id # None, ~ req'[r].dept.resolved
    PROVE  trouble < Window
<1>0. req[r] \in Doing
  BY DEF Typed
<1>1. PICK snap : Source(r, snap) /\ Use(r, snap)
  BY AskingStep
<1>2. ~ End(r)
  BY DEF End, Idle, Typed
<1>3. Resolve(r, snap)
  <2>1. ~ (req' = [req EXCEPT ![r].step = "listing",
              ![r].missing = Find(snap, req[r].ask.id, None) = {} /\ Telling(snap)])
    BY <1>0 DEF Typed, Doing
  <2> QED BY <1>1, <1>2, <2>1 DEF Use
<1>4. \A dept : req' = [req EXCEPT ![r] = Written(r, dept)] => req'[r].dept = dept
  BY <1>0 DEF Written, Typed, Doing
<1>5. \/ \E d : req' = [req EXCEPT ![r] = Written(r, Aligned(req[r].ask, d))]
      \/ /\ ~ (req[r].ask.id # None /\ Telling(snap))
         /\ req' = [req EXCEPT ![r] = Written(r, Declared(req[r].ask))]
  BY <1>2, <1>3 DEF Resolve, Written
<1>6. \A d : Aligned(req[r].ask, d).resolved
  BY DEF Aligned
<1>7. /\ ~ (req[r].ask.id # None /\ Telling(snap))
      /\ req'[r].dept = Declared(req[r].ask)
  BY <1>4, <1>5, <1>6
<1>8. ~ Telling(snap)
  BY <1>7 DEF Declared
<1> QED BY <1>1, <1>8, TroubledLately

(* A department is called unknown only if the organization answered without it  *)
(* within the cache's lifetime and one fetch: by resolveDepartment to a PUT     *)
(* and by handleListServicesByOrg to a reader (departments.go, orgs.go).        *)
THEOREM UnknownWasLacking == Spec => UnknownIsRecent
<1> DEFINE A == CacheTTL > 0 => \A r \in Requests :
                  Refused(r) \/ (~req[r].missing /\ req'[r].missing)
                      => denied[req[r].ask.id] < Window
<1>1. Typed /\ DirectoryInv /\ [Next]_vars => [A]_vars
  <2> SUFFICES ASSUME Typed, DirectoryInv, Next, CacheTTL > 0, NEW r \in Requests,
                      Refused(r) \/ (~req[r].missing /\ req'[r].missing)
               PROVE  denied[req[r].ask.id] < Window
    OBVIOUS
  <2>1. ~ TimePasses
    BY DEF TimePasses, Unchanged, Refused
  <2> QED BY <2>1, UnknownStep DEF Next
<1> QED BY <1>1, WriteInvariant, DirectoryInvariant, PTL DEF Spec, UnknownIsRecent

(* An id is stored unchecked only if, within the same time, the organization   *)
(* could not be asked, had no departments, or a client left during its fetch.   *)
THEOREM UncheckedHadCause == Spec => UncheckedHasCause
<1> DEFINE A == CacheTTL > 0 /\ Enabled => \A r \in Requests :
                  LET dept == req'[r].dept IN
                  req[r].step = "asking" /\ req'[r].step = "writing" /\ dept.id # None
                  /\ ~dept.resolved
                      => trouble < Window
<1>1. Typed /\ DirectoryInv /\ [Next]_vars => [A]_vars
  <2> SUFFICES ASSUME Typed, DirectoryInv, Next, CacheTTL > 0, NEW r \in Requests,
                      req[r].step = "asking", req'[r].step = "writing",
                      req'[r].dept.id # None, ~ req'[r].dept.resolved
               PROVE  trouble < Window
    OBVIOUS
  <2>1. ~ TimePasses
    BY DEF TimePasses, Unchanged
  <2> QED BY <2>1, UncheckedStep DEF Next
<1> QED BY <1>1, WriteInvariant, DirectoryInvariant, PTL DEF Spec, UncheckedHasCause

-----------------------------------------------------------------------------
(* Types *)

RowsOK ==
    /\ token \in Tokens \union {OtherToken, None, NoRow}
    /\ contract \in Ids \union {None}
    /\ \A r \in Requests : req[r].ask \in Asks[r] \union {None}

LEMMA NextRows == Typed /\ RowsOK /\ [Next]_vars => RowsOK'
<1> SUFFICES ASSUME Typed, RowsOK, [Next]_vars PROVE RowsOK'
  OBVIOUS
<1>1. CASE Step
  <2>1. ASSUME NEW r \in Requests,
               Handler(r) \/ TakeLock(r) \/ ClientLeaves(r) \/ \E ask \in Asks[r] : Send(r, ask)
        PROVE  token' = token /\ contract' \in Ids \union {None}
    <3>1. req[r].dept.id \in Ids \union {None}
      BY DEF Typed, Doing, Stored
    <3>2. token' = token /\ contract' \in {contract, req[r].dept.id}
      BY <2>1 DEF Handler, TakeLock, Authorize, CheckNamespace, EndFetch, Write, ListByOrg,
                  UseCached, StartFetch, ClientLeaves, Send
    <3> QED BY <3>1, <3>2 DEF RowsOK
  <2>2. ASSUME Unchanged \/ ChangeToken \/ DeleteNamespace
        PROVE  token' \in Tokens \union {OtherToken, None, NoRow} /\ contract' \in Ids \union {None}
    BY <2>2 DEF Unchanged, ChangeToken, DeleteNamespace, RowsOK
  <2>3. token' \in Tokens \union {OtherToken, None, NoRow} /\ contract' \in Ids \union {None}
    BY <1>1, <2>1, <2>2 DEF Step, RowsOK
  <2>4. ASSUME NEW r \in Requests, NEW q, Moves(r, q), req' = [req EXCEPT ![r] = q],
               NEW t \in Requests
        PROVE  req'[t].ask \in Asks[t] \union {None}
    <3>0. req[r] \in Doing
      BY DEF Typed
    <3>1. q.ask \in Asks[r] \union {None}
      <4>1. Idle.ask = None /\ \A ask \in Asks[r] : Begun(r, ask).ask = ask
        BY DEF Begun, Idle
      <4>2. ASSUME NEW step, NEW missing, NEW dept
            PROVE  /\ [req[r] EXCEPT !.step = step].ask = req[r].ask
                   /\ [req[r] EXCEPT !.step = step, !.missing = missing].ask = req[r].ask
                   /\ [req[r] EXCEPT !.gone = TRUE].ask = req[r].ask
                   /\ Written(r, dept).ask = req[r].ask
        BY <3>0 DEF Doing, Written
      <4>3. q.ask = req[r].ask \/ q = Idle \/ \E ask \in Asks[r] : q = Begun(r, ask)
        <5>1. CASE \E step : q = [req[r] EXCEPT !.step = step]
          BY <4>2, <5>1
        <5>2. CASE \E step, missing : q = [req[r] EXCEPT !.step = step, !.missing = missing]
          BY <4>2, <5>2
        <5>3. CASE q = [req[r] EXCEPT !.gone = TRUE] \/ \E dept : q = Written(r, dept)
          BY <4>2, <5>3
        <5> QED BY <2>4, <5>1, <5>2, <5>3 DEF Moves
      <4> QED BY <4>1, <4>3 DEF RowsOK
    <3>2. req'[r] = q /\ \A u \in Requests \ {r} : req'[u] = req[u]
      BY <2>4 DEF Typed
    <3> QED BY <3>1, <3>2 DEF RowsOK
  <2> QED BY <1>1, <2>3, <2>4, StepMoves DEF RowsOK
<1>2. CASE TimePasses \/ UNCHANGED vars
  BY <1>2 DEF TimePasses, Unchanged, vars, RowsOK
<1> QED BY <1>1, <1>2 DEF Next

(* The rows, the requests and the directory's client are what they can be; the *)
(* request that fetches is one that asks for departments.                      *)
THEOREM TypeCorrect == Spec => []TypeOK
<1>1. Init => RowsOK
  BY DEF Init, Idle, RowsOK
<1>2. Typed /\ RowsOK /\ DirectoryInv => TypeOK
  <2> SUFFICES ASSUME Typed, RowsOK, DirectoryInv PROVE TypeOK
    OBVIOUS
  <2>1. ASSUME NEW r \in Requests
        PROVE  /\ req[r].step \in Steps /\ req[r].gone \in BOOLEAN /\ req[r].opened \in BOOLEAN
               /\ req[r].dept \in Stored /\ req[r].missing \in BOOLEAN
    BY DEF Typed, Doing
  <2>2. /\ DirectoryTypeOK /\ denied \in [Ids -> 0 .. Window] /\ trouble \in 0 .. Window
        /\ holder # None => req[holder].step = "asking"
    BY DEF Typed, DirectoryInv, GhostsOK
  <2> QED BY <2>1, <2>2 DEF TypeOK, RowsOK
<1> QED BY <1>1, <1>2, NextRows, WriteInvariant, DirectoryInvariant, PTL DEF Spec

=============================================================================
