---------------------------- MODULE OrgDirectory ----------------------------
(***************************************************************************)
(* The client of the organization's department list (internal/orgdir) and  *)
(* that list as the client sees it.                                        *)
(*                                                                         *)
(* Client.mu is held from the look at the cache to the end of the fetch,   *)
(* so one request at a time talks to the organization and the others wait. *)
(* What comes back, a failure too, is kept for CacheTTL ticks; a failed    *)
(* fetch carries the departments of the last one that succeeded.           *)
(*                                                                         *)
(* Time is counted in ticks: a fetch takes at most Timeout of them.        *)
(***************************************************************************)
EXTENDS Integers

CONSTANTS
    Requests,       \* requests being handled
    Ids, Names,     \* of departments
    None,           \* a field left empty, and no request or reply
    Listings,       \* lists of departments the organization may have
    CacheTTL,       \* REGISTRY_ORG_CACHE_TTL, 0 for no cache
    Timeout,        \* REGISTRY_ORG_TIMEOUT
    MaxChanges      \* bound: changes of the organization

Department == [id : Ids, name : Names]

ASSUME ListingAssumption == Listings \subseteq SUBSET Department
ASSUME TimeAssumption == CacheTTL \in Nat /\ Timeout \in Nat \ {0}
ASSUME BoundAssumption == MaxChanges \in Nat
ASSUME NoneAssumption == None \notin Requests \union Ids \union Names \union Listings

VARIABLES
    listing,    \* the organization's departments
    reachable,  \* whether it answers, and with a list
    current,    \* Client.current
    age,        \* ticks since Client.attempt, CacheTTL standing for all later
    last,       \* departments of Client.last
    holder,     \* the request that holds Client.mu and fetches
    elapsed,    \* ticks of its fetch
    reply,      \* the list the organization has sent it
    orgChanges  \* number of changes of listing and reachable

orgVars == <<listing, reachable, orgChanges>>
clientVars == <<current, age, last, holder, elapsed, reply>>

Snapshot == [available : BOOLEAN, stale : BOOLEAN, departments : SUBSET Department]

DirectoryTypeOK ==
    /\ listing \in Listings
    /\ reachable \in BOOLEAN
    /\ current \in Snapshot \union {None}
    /\ age \in 0..CacheTTL
    /\ last \in Listings \union {None}
    /\ holder \in Requests \union {None}
    /\ elapsed \in 0..Timeout
    /\ reply \in Listings \union {None}
    /\ orgChanges \in 0..MaxChanges

DirectoryInit ==
    /\ listing \in Listings
    /\ reachable \in BOOLEAN
    /\ current = None /\ age = CacheTTL /\ last = None
    /\ holder = None /\ elapsed = 0 /\ reply = None
    /\ orgChanges = 0

-----------------------------------------------------------------------------
(* The organization *)

\* Departments are added, renamed and removed; a restart empties the list.
OrganizationChanges ==
    /\ orgChanges < MaxChanges
    /\ orgChanges' = orgChanges + 1
    /\ \/ listing' \in Listings \ {listing} /\ UNCHANGED reachable
       \/ reachable' = ~reachable /\ UNCHANGED listing
    /\ UNCHANGED clientVars

\* It reads its list for the request; the response takes its time.
Answers ==
    /\ holder # None
    /\ reachable
    /\ reply = None
    /\ reply' = listing
    /\ UNCHANGED <<orgVars, current, age, last, holder, elapsed>>

-----------------------------------------------------------------------------
(* Client.Snapshot *)

\* Only a success is kept: the next request asks again after a failure.
CachedForever == current # None

Cached == current # None /\ age < CacheTTL

\* The request has the lock, finds nothing it may reuse and asks.
Fetch(r, force) ==
    /\ holder = None
    /\ force \/ ~Cached
    /\ holder' = r /\ elapsed' = 0 /\ reply' = None
    /\ UNCHANGED <<orgVars, current, age, last>>

Fetched(departments) == [available |-> TRUE, stale |-> FALSE, departments |-> departments]

\* What is left of an earlier success passes for the organization's answer.
DegradeAsFresh ==
    [available |-> last # None, stale |-> FALSE, departments |-> IF last = None THEN {} ELSE last]

\* With what the last success brought, if there was one.
Degrade ==
    [available |-> FALSE, stale |-> last # None, departments |-> IF last = None THEN {} ELSE last]

\* The lock is not released.
KeepLocked(snap) ==
    /\ current' = snap /\ age' = 0
    /\ elapsed' = 0 /\ reply' = None
    /\ UNCHANGED <<orgVars, holder>>

\* The outcome is stored, success or not, and the lock released.
Keep(snap) ==
    /\ current' = snap /\ age' = 0
    /\ holder' = None /\ elapsed' = 0 /\ reply' = None
    /\ UNCHANGED orgVars

\* The request's fetch ends with snap: the response has come; or there is
\* none in time, an error, or the request's own client went away, whose
\* context the fetch runs under.
FetchEnds(r, gone, snap) ==
    /\ holder = r
    /\ \/ /\ reply # None /\ ~gone
          /\ snap = Fetched(reply)
          /\ last' = reply
       \/ /\ ~reachable \/ elapsed = Timeout \/ gone
          /\ snap = Degrade
          /\ UNCHANGED last
    /\ Keep(snap)

\* Departments of snap with the id, else with the name; the list's order
\* decides between several.
Find(snap, id, name) ==
    LET byId == {d \in snap.departments : d.id = id}
        byName == {d \in snap.departments : d.name = name} IN
    IF byId # {} THEN byId ELSE byName

Tick ==
    /\ holder # None => elapsed < Timeout
    /\ elapsed' = IF holder = None THEN 0 ELSE elapsed + 1
    /\ age' = IF age < CacheTTL THEN age + 1 ELSE age
    /\ UNCHANGED <<orgVars, current, last, holder, reply>>
=============================================================================
