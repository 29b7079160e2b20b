---------------------------- MODULE ServiceWrite ----------------------------
(***************************************************************************)
(* PUT of a service contract: who may write (internal/api/auth.go), which  *)
(* department it is registered under (departments.go), and the write; and  *)
(* the two reads that use the department list, GET /v1/departments and     *)
(* GET /v1/orgs/{orgId}/services.                                          *)
(*                                                                         *)
(* There is one namespace and one service.  A handler reads the token, the *)
(* namespace, the department list and the tables at different moments, and *)
(* tokens are rotated, the namespace deleted and created, departments      *)
(* changed and the organization stopped in between.                        *)
(***************************************************************************)
EXTENDS OrgDirectory

CONSTANTS
    Asks,           \* what each request may ask for
    Enabled,        \* whether REGISTRY_ORG_URL names an organization
    WriteAuthOpen,  \* REGISTRY_WRITE_AUTH=open
    Tokens,         \* namespace tokens that requests carry, made before
    OtherToken,     \* stands for every token made from now on
    AdminToken,     \* REGISTRY_ADMIN_TOKEN
    NoRow           \* no such namespace

\* None stands for a request without a token and for a namespace without one.
ASSUME TokenAssumption ==
    /\ {None, AdminToken, NoRow, OtherToken} \intersect Tokens = {}
    /\ AdminToken # None /\ NoRow # None /\ OtherToken \notin {None, NoRow, AdminToken}

Ask ==
    [kind : {"put"}, token : Tokens \union {AdminToken, None}, trusted : BOOLEAN,
     id : Ids \union {None}, name : Names \union {None}]
    \union [kind : {"list"}, refresh : BOOLEAN]
    \union [kind : {"org"}, id : Ids, refresh : BOOLEAN]

ASSUME AskAssumption == Asks \in [Requests -> SUBSET Ask]

VARIABLES
    token,      \* the namespace's row: the token its hash is of
    contract,   \* the service's department id, None without one or a service
    req,        \* what each request is doing
    denied,     \* ticks since the organization answered without the id
    trouble,    \* ticks since a fetch could not bring departments
    ever        \* departments the organization has ever listed

ghosts == <<denied, trouble, ever>>
vars == <<orgVars, clientVars, token, contract, req, ghosts>>

\* resolved: found in the organization's list.
Stored == [id : Ids \union {None}, name : Names \union {None}, resolved : BOOLEAN]

Steps == {"sent", "allowed", "asking", "writing", "listing", "ended"}

NoDepartment == [id |-> None, name |-> None, resolved |-> FALSE]

\* Past this many ticks the ghosts do not count.
Window == CacheTTL + Timeout

TypeOK ==
    /\ DirectoryTypeOK
    /\ token \in Tokens \union {OtherToken, None, NoRow}
    /\ contract \in Ids \union {None}
    /\ \A r \in Requests :
        /\ req[r].ask \in Asks[r] \union {None}
        /\ req[r].step \in Steps
        /\ req[r].gone \in BOOLEAN
        /\ req[r].opened \in BOOLEAN
        /\ req[r].dept \in Stored
        /\ req[r].missing \in BOOLEAN
    /\ denied \in [Ids -> 0..Window]
    /\ trouble \in 0..Window
    /\ holder # None => req[holder].step = "asking"

Idle == [ask |-> None, step |-> "ended", gone |-> FALSE,
         opened |-> FALSE, dept |-> NoDepartment, missing |-> FALSE]

\* The organization answers, with departments but not this one.
Denying(i) == reachable /\ listing # {} /\ \A d \in listing : d.id # i

Init ==
    /\ DirectoryInit
    /\ token \in Tokens \union {OtherToken, None, NoRow}
    /\ contract = None
    /\ req = [r \in Requests |-> Idle]
    /\ denied = [i \in Ids |-> IF Denying(i) THEN 0 ELSE Window]
    /\ trouble = IF ~reachable \/ listing = {} THEN 0 ELSE Window
    /\ ever = listing

\* The ghosts after a step: 0 for what holds now, older by the ticks otherwise.
Aged(n, ticks) == IF n + ticks > Window THEN Window ELSE n + ticks

Observed(ticks) ==
    /\ denied' = [i \in Ids |-> IF Denying(i)' THEN 0 ELSE Aged(denied[i], ticks)]
    /\ trouble' =
            IF \/ ~reachable' \/ listing' = {}
               \/ holder' # None /\ (elapsed' = Timeout \/ req'[holder'].gone)
            THEN 0 ELSE Aged(trouble, ticks)
    /\ ever' = ever \union listing'

-----------------------------------------------------------------------------
(* The namespace's token *)

\* Creation and rotation make a token no request under way carries; clearing
\* leaves the namespace to the administrator.  A rotation that read the
\* namespace before its deletion changes no row, or the row of the namespace
\* created anew: as if it came at another moment.
ChangeToken ==
    /\ \/ token = NoRow /\ token' = OtherToken                  \* CreateNamespace
       \/ token \notin {NoRow, OtherToken} /\ token' = OtherToken    \* RotateToken
       \/ token \notin {NoRow, None} /\ token' = None                \* ClearToken
    /\ UNCHANGED <<orgVars, clientVars, contract, req>>

\* With its services.
DeleteNamespace ==
    /\ token # NoRow
    /\ token' = NoRow
    /\ contract' = None
    /\ UNCHANGED <<orgVars, clientVars, req>>

-----------------------------------------------------------------------------
(* Handlers *)

Send(r, ask) ==
    /\ req[r].step = "ended"
    /\ req' = [req EXCEPT ![r] = [Idle EXCEPT
            !.ask = ask,
            !.step = IF ask.kind = "put" THEN "sent" ELSE "asking",
            !.opened = ask.kind = "put" /\ ask.token \in Tokens /\ ask.token = token]]
    /\ UNCHANGED <<orgVars, clientVars, token, contract>>

\* The handler has answered.
End(r) == req' = [req EXCEPT ![r] = Idle]

Continue(r, step) == req' = [req EXCEPT ![r].step = step]

\* A token that is wrong is taken for none.
AllowedFallingThrough(ask) ==
    \/ ask.token = AdminToken
    \/ ask.token \in Tokens /\ ask.token = token
    \/ WriteAuthOpen /\ ask.trusted

\* authorize: a token, if there is one, must be the administrator's or the
\* namespace's; without one, a write from this machine or its network may pass.
Allowed(ask) ==
    \/ ask.token = AdminToken
    \/ ask.token \in Tokens /\ ask.token = token
    \/ ask.token = None /\ WriteAuthOpen /\ ask.trusted

Authorize(r) ==
    /\ req[r].step = "sent"
    /\ IF Allowed(req[r].ask) THEN Continue(r, "allowed") ELSE End(r)     \* 401, 403
    /\ UNCHANGED <<orgVars, clientVars, token, contract>>

Declared(ask) == [id |-> ask.id, name |-> ask.name, resolved |-> FALSE]

\* ensureNamespaceExists; the body is decoded and validated.  One that names
\* no department, or an organization that is not configured: nothing to ask.
CheckNamespace(r) ==
    LET ask == req[r].ask IN
    /\ req[r].step = "allowed"
    /\ \/ End(r)         \* 404 without the namespace, 400 for the body
       \/ /\ token # NoRow
          /\ IF Enabled /\ (ask.id # None \/ ask.name # None)
             THEN Continue(r, "asking")
             ELSE req' = [req EXCEPT ![r].step = "writing", ![r].dept = Declared(ask)]
    /\ UNCHANGED <<orgVars, clientVars, token, contract>>

\* The name the client gave is kept.
AlignedById(ask, d) ==
    [id |-> d.id, name |-> IF ask.name = None THEN d.name ELSE ask.name, resolved |-> TRUE]

Aligned(ask, d) == [id |-> d.id, name |-> d.name, resolved |-> TRUE]

\* The list is the organization's own, not what is left of an earlier one, and
\* has departments.
Telling(snap) == snap.available /\ snap.departments # {}

\* resolveDepartment: the department of the list; an id that a telling list
\* lacks is refused; anything else is stored as declared.
Resolve(r, snap) ==
    LET ask == req[r].ask
        found == Find(snap, ask.id, ask.name)
        write(dept) == req' = [req EXCEPT ![r].step = "writing", ![r].dept = dept] IN
    \/ \E d \in found : write(Aligned(ask, d))
    \/ found = {} /\ ask.id # None /\ Telling(snap) /\ End(r)
    \/ found = {} /\ ~(ask.id # None /\ Telling(snap)) /\ write(Declared(ask))

\* What the handler makes of the department list.
Use(r, snap) ==
    LET ask == req[r].ask IN
    \/ req[r].gone /\ End(r)
    \/ ~req[r].gone /\ ask.kind = "put" /\ Resolve(r, snap)
    \/ ~req[r].gone /\ ask.kind = "list" /\ End(r)
    \/ /\ ~req[r].gone /\ ask.kind = "org"
       /\ req' = [req EXCEPT ![r].step = "listing",
            ![r].missing = Find(snap, ask.id, None) = {} /\ Telling(snap)]

Forced(ask) == ask.kind \in {"list", "org"} /\ ask.refresh

UseCached(r) ==
    /\ req[r].step = "asking"
    /\ holder = None /\ Cached /\ ~Forced(req[r].ask)
    /\ Use(r, current)
    /\ UNCHANGED <<orgVars, clientVars, token, contract>>

StartFetch(r) ==
    /\ req[r].step = "asking"
    /\ Fetch(r, Forced(req[r].ask))
    /\ UNCHANGED <<token, contract, req>>

EndFetch(r) ==
    /\ \E snap \in {Degrade} \union (IF reply = None THEN {} ELSE {Fetched(reply)}) :
        FetchEnds(r, req[r].gone, snap) /\ Use(r, snap)
    /\ UNCHANGED <<token, contract>>

\* UpsertService: whatever the namespace and its token are by now.
Write(r) ==
    /\ req[r].step = "writing"
    /\ contract' = req[r].dept.id
    /\ End(r)
    /\ UNCHANGED <<orgVars, clientVars, token>>

\* ListServices of handleListServicesByOrg, read after the department list.
ListByOrg(r) ==
    /\ req[r].step = "listing"
    /\ End(r)            \* 404 if missing and the list is empty, else the list
    /\ UNCHANGED <<orgVars, clientVars, token, contract>>

\* The database gives up a request whose client is gone; the wait for Client.mu
\* does not, and its fetch fails.
ClientLeaves(r) ==
    /\ req[r].step # "ended" /\ ~req[r].gone
    /\ IF req[r].step = "asking"
       THEN req' = [req EXCEPT ![r].gone = TRUE]
       ELSE End(r)
    /\ UNCHANGED <<orgVars, clientVars, token, contract>>

Handler(r) ==
    Authorize(r) \/ CheckNamespace(r) \/ EndFetch(r) \/ Write(r) \/ ListByOrg(r)

TakeLock(r) == UseCached(r) \/ StartFetch(r)

Unchanged == UNCHANGED <<token, contract, req>>

TimePasses == Tick /\ Unchanged /\ Observed(1)

Step ==
    \/ OrganizationChanges /\ Unchanged
    \/ Answers /\ Unchanged
    \/ ChangeToken \/ DeleteNamespace
    \/ \E r \in Requests :
        \/ \E ask \in Asks[r] : Send(r, ask)
        \/ Handler(r) \/ TakeLock(r) \/ ClientLeaves(r)

Next == TimePasses \/ (Step /\ Observed(0))

Spec == Init /\ [][Next]_vars

-----------------------------------------------------------------------------
(* Properties *)

\* resolveDepartment refuses the request.
Refused(r) ==
    req[r].step = "asking" /\ req[r].ask.kind = "put" /\ ~req[r].gone /\ req'[r].step = "ended"

\* A department is called unknown, to a PUT that is refused or to a reader of
\* its services, only if the organization answered without it within the
\* cache's lifetime and one fetch: no outage, empty list or old failure does
\* it (departments.go:40-47, orgs.go:57-60).
UnknownIsRecent ==
    [][CacheTTL > 0 => \A r \in Requests :
        Refused(r) \/ (~req[r].missing /\ req'[r].missing)
            => denied[req[r].ask.id] < Window]_vars

\* An id is stored as the client declared it only if within the same time the
\* organization could not be asked, had no departments, or a client went away
\* during its fetch: an unchecked id has a cause (departments.go:43-47).
UncheckedHasCause ==
    [][CacheTTL > 0 /\ Enabled => \A r \in Requests :
        LET dept == req'[r].dept IN
        req[r].step = "asking" /\ req'[r].step = "writing" /\ dept.id # None /\ ~dept.resolved
            => trouble < Window]_vars

\* The department a contract is aligned to is one the organization has had,
\* with the name it had then (departments.go:38-39).
ResolvedWasListed ==
    \A r \in Requests : req[r].dept.resolved =>
        [id |-> req[r].dept.id, name |-> req[r].dept.name] \in ever

\* A contract is written for the administrator, for a token the namespace had
\* when the request came, or without a token where that is allowed: a token
\* rotated away or of a namespace deleted before never writes, not even as an
\* anonymous client (auth.go:24-32).
WriteWasAllowed ==
    [][contract' # contract /\ contract' # None => \E r \in Requests :
        LET ask == req[r].ask IN
        /\ req[r].step = "writing" /\ req'[r].step = "ended"
        /\ \/ ask.token = AdminToken
           \/ req[r].opened
           \/ ask.token = None /\ ask.trusted /\ WriteAuthOpen]_vars
=============================================================================
