------------------------------- MODULE Gateway --------------------------------
(***************************************************************************)
(* The MCP gateway: handleMCP (api/mcp_gateway.go) and Gateway             *)
(* (mcpagg/gateway.go, catalog.go), with an agent that lists the tools and *)
(* calls one.                                                              *)
(*                                                                         *)
(* Every request to /mcp makes a Gateway of its own, which reads the       *)
(* catalog and asks every service for its tools before it answers: a call  *)
(* of a tool is routed by another catalog and another round of answers     *)
(* than the list the agent has seen.  A Gateway's cache dies with it.      *)
(*                                                                         *)
(* An instance may be an address of the registry itself.  The client of a  *)
(* Gateway marks what it sends (HopHeader), so that the registry, asked    *)
(* by itself, asks nobody.                                                 *)
(***************************************************************************)
EXTENDS Integers, Sequences, SequencesExt

CONSTANTS
    Services,       \* <<namespace, name>> of each service, in the catalog's order;
                    \* a name is the sequence of what "__" separates in it
    Rows,           \* instances that may be registered, in the catalog's order:
                    \* [service, url, http]
    RegistryUrls,   \* URLs that lead to this registry's /mcp
    Hosts,          \* those of them an agent uses
    Offers,         \* Offers[u]: the tools the MCP server at u lists
    CatalogTool,    \* "registry_mcp_servers", the registry's own tool
    ProbeSlots,     \* services asked at a time
    Calls           \* bound: requests the agent makes

ASSUME UrlAssumption == Hosts \subseteq RegistryUrls
ASSUME RowAssumption ==
    Rows \in Seq([service : DOMAIN Services, url : DOMAIN Offers, http : BOOLEAN])
\* The index idx_instances_addr: the HTTP instances of a service have different
\* addresses, and the path after them is the service's.
ASSUME AddressAssumption ==
    \A j, k \in DOMAIN Rows :
        /\ Rows[j].service = Rows[k].service /\ Rows[j].url = Rows[k].url
        /\ Rows[j].http /\ Rows[k].http
        => j = k
ASSUME OfferAssumption == \A u \in RegistryUrls \intersect DOMAIN Offers : Offers[u] = {CatalogTool}
ASSUME SlotAssumption == ProbeSlots \in Nat \ {0}
ASSUME BoundAssumption == Calls \in Nat

VARIABLES
    instances,  \* the rows registered now
    request,    \* request[1] is the agent's, request[2] one the registry sent itself
    listed,     \* tools the agent was shown: [name, service]
    attempts,   \* of the current call: what each endpoint tried made of it
    made        \* requests the agent has made

vars == <<instances, request, listed, attempts, made>>

Urls == {Rows[k].url : k \in DOMAIN Rows}
Tools == UNION {Offers[u] : u \in Urls}
ServiceIds == DOMAIN Services
Depths == {1, 2}

\* "namespace__service__tool", as README.md describes the name of a tool.
FullName(s, tool) == Services[s][1] \o Services[s][2] \o <<tool>>

\* Without the namespace, for shorter names.
ToolNameWithoutNamespace(s, tool) == Services[s][2] \o <<tool>>

ToolName(s, tool) == Services[s][1] \o Services[s][2] \o <<tool>>

Names == {FullName(s, t) : s \in ServiceIds, t \in Tools}

\* What a request for the list calls: no tool.
List == <<>>

\* urls[s]: what is left to ask of s.  hit[s]: the URL that answered.
Request ==
    [step : {"idle"}]
    \union [step : {"arrived"}, host : RegistryUrls, hop : BOOLEAN, want : Names \union {List}]
    \union [step : {"probing"}, want : Names \union {List}, host : RegistryUrls,
            endpoints : [ServiceIds -> Seq(Urls)], urls : [ServiceIds -> Seq(Urls)],
            hit : [ServiceIds -> Urls \union {""}]]
    \union [step : {"forwarding"}, service : ServiceIds, want : Names, upstream : Tools,
            endpoints : Seq(Urls), urls : Seq(Urls), expired : BOOLEAN]
    \union [step : {"failed"}, endpoints : Seq(Urls), expired : BOOLEAN]

\* refused: no connection, or no such tool there.  hung: until the deadline, whether the tool ran or not.
\* lost: the tool ran, its answer did not come back.
Attempt == [url : Urls, service : ServiceIds, tool : Tools, name : Names,
            result : {"refused", "hung", "lost", "answered"}]

Idle == [step |-> "idle"]

TypeOK ==
    /\ instances \subseteq DOMAIN Rows
    /\ request \in [Depths -> Request]
    /\ listed \subseteq [name : Names, service : ServiceIds]
    /\ attempts \in Seq(Attempt)
    /\ made \in 0 .. Calls

Init ==
    /\ instances = {}
    /\ request = [d \in Depths |-> Idle]
    /\ listed = {}
    /\ attempts = <<>>
    /\ made = 0

-----------------------------------------------------------------------------
(* The catalog *)

\* Only ReadCatalog reads the table, so a registration at any other moment of a
\* request could as well come when it is over: one order stands for all.
MayChange == request[1].step \in {"idle", "arrived", "failed"}

Register(k) ==
    /\ MayChange
    /\ k \notin instances
    /\ instances' = instances \union {k}
    /\ UNCHANGED <<request, listed, attempts, made>>

Deregister(k) ==
    /\ MayChange
    /\ k \in instances
    /\ instances' = instances \ {k}
    /\ UNCHANGED <<request, listed, attempts, made>>

\* positions from the lowest to the highest, as a loop with an if visits them.
InOrder(positions) ==
    CHOOSE f \in [1 .. Cardinality(positions) -> positions] :
        \A m, n \in DOMAIN f : m < n => f[m] < f[n]

\* What url is at these positions.
Picked(url, positions) == [n \in 1 .. Cardinality(positions) |-> url[InOrder(positions)[n]]]

\* Compose: the URLs of the service's HTTP instances.
EndpointsOf(s) ==
    Picked([k \in DOMAIN Rows |-> Rows[k].url],
           {k \in instances : Rows[k].service = s /\ Rows[k].http})

IsSelf(host, url) == url = host

\* What probe asks: the request's own address is left out.
NotSelf(host, urls) == Picked(urls, {n \in DOMAIN urls : ~ IsSelf(host, urls[n])})

-----------------------------------------------------------------------------
(* A request arrives; the services are asked for their tools *)

\* What an agent asks for: the list, or a tool it was shown.
Wants == {List} \union {t.name : t \in listed}

Ask(host, want) ==
    /\ request[1].step \in {"idle", "failed"}
    /\ made < Calls
    /\ made' = made + 1
    /\ request' = [request EXCEPT ![1] =
            [step |-> "arrived", host |-> host, hop |-> FALSE, want |-> want]]
    /\ attempts' = <<>>
    /\ UNCHANGED <<instances, listed>>

\* With catalogOnly the answer is the registry's own tool, and nobody is asked.
ReadCatalog(d) ==
    LET r == request[d]
        urls == [s \in ServiceIds |-> NotSelf(r.host, EndpointsOf(s))] IN
    /\ r.step = "arrived" /\ ~ r.hop
    /\ request' = [request EXCEPT ![d] =
            [step |-> "probing", want |-> r.want, host |-> r.host, endpoints |-> urls, urls |-> urls,
             hit |-> [s \in ServiceIds |-> ""]]]
    /\ UNCHANGED <<instances, listed, attempts, made>>

Asking(r, s) == r.urls[s] # <<>> /\ r.hit[s] = ""

\* The semaphore: services start in order, and a later one waits until one of
\* those before it is through.
MayAsk(d, s) ==
    /\ request[d].step = "probing"
    /\ Asking(request[d], s)
    /\ Cardinality({t \in 1 .. s - 1 : Asking(request[d], t)}) < ProbeSlots

\* A request of the registry to itself that nobody waits for any more.
Abandoned(d, url) ==
    IF d = 1 /\ request[2] # Idle /\ request[2].host = url THEN Idle ELSE request[2]

\* A probe that asks the same URL again.
ProbeFailsAgain(d, s) ==
    /\ MayAsk(d, s)
    /\ request' = [request EXCEPT ![2] = Abandoned(d, Head(request[d].urls[s]))]
    /\ UNCHANGED <<instances, listed, attempts, made>>

\* No connection, an error or no answer within the probe timeout: the next URL.
ProbeFails(d, s) ==
    /\ MayAsk(d, s)
    /\ request' = IF d = 1
                  THEN [request EXCEPT ![1].urls[s] = Tail(@),
                                       ![2] = Abandoned(d, Head(request[d].urls[s]))]
                  ELSE [request EXCEPT ![d].urls[s] = Tail(@)]
    /\ UNCHANGED <<instances, listed, attempts, made>>

ProbeAnswers(d, s) ==
    LET url == Head(request[d].urls[s]) IN
    /\ MayAsk(d, s)
    /\ url \notin RegistryUrls
    /\ request' = [request EXCEPT ![d].hit[s] = url]
    /\ UNCHANGED <<instances, listed, attempts, made>>

\* A client that does not set the header.
SentUnmarked(url) == [step |-> "arrived", host |-> url, hop |-> FALSE, want |-> List]

\* roundTripper sets HopHeader on every request of the Gateway's client.
Sent(url) == [step |-> "arrived", host |-> url, hop |-> TRUE, want |-> List]

ProbeReachesRegistry(s) ==
    LET url == Head(request[1].urls[s]) IN
    /\ MayAsk(1, s)
    /\ url \in RegistryUrls
    /\ request[2] = Idle
    /\ request' = [request EXCEPT ![2] = Sent(url)]
    /\ UNCHANGED <<instances, listed, attempts, made>>

\* The registry answers itself, with the catalog's tool alone.
NestedAnswers(s) ==
    LET url == Head(request[1].urls[s]) IN
    /\ MayAsk(1, s)
    /\ request[2].step = "arrived" /\ request[2].hop /\ request[2].host = url
    /\ request' = [request EXCEPT ![1].hit[s] = url, ![2] = Idle]
    /\ UNCHANGED <<instances, listed, attempts, made>>

-----------------------------------------------------------------------------
(* The tools, and the answer *)

\* The URL that answered, then all of the service's, that one among them.
HitThenAll(urls, hit) == <<hit>> \o urls

\* Only the one that answered.
HitAlone(urls, hit) == <<hit>>

\* The URL that answered, then the service's others.
HitFirst(urls, hit) == <<hit>> \o Picked(urls, {n \in DOMAIN urls : urls[n] # hit})

Asked(r) == \A s \in ServiceIds : ~ Asking(r, s)

Exposed(r) ==
    {[name |-> ToolName(p[1], p[2]), service |-> p[1], upstream |-> p[2]] :
        p \in {q \in ServiceIds \X Tools : r.hit[q[1]] # "" /\ q[2] \in Offers[r.hit[q[1]]]}}

\* AddTool replaces a tool of the same name: the last service has it.
Served(r) == {t \in Exposed(r) : \A u \in Exposed(r) : u.name = t.name => u.service <= t.service}

ListTools ==
    LET r == request[1] IN
    /\ r.step = "probing" /\ Asked(r) /\ r.want = List
    /\ listed' = {[name |-> t.name, service |-> t.service] : t \in Served(r)}
    /\ request' = [request EXCEPT ![1] = Idle]
    /\ UNCHANGED <<instances, attempts, made>>

\* The name is gone since the agent saw it.
UnknownTool ==
    LET r == request[1] IN
    /\ r.step = "probing" /\ Asked(r) /\ r.want # List
    /\ \A t \in Served(r) : t.name # r.want
    /\ request' = [request EXCEPT ![1] = Idle]
    /\ UNCHANGED <<instances, listed, attempts, made>>

StartForward ==
    LET r == request[1] IN
    /\ r.step = "probing" /\ Asked(r)
    /\ \E t \in Served(r) :
          /\ t.name = r.want
          /\ request' = [request EXCEPT ![1] =
                [step |-> "forwarding", service |-> t.service, want |-> r.want, upstream |-> t.upstream,
                 endpoints |-> r.endpoints[t.service],
                 urls |-> HitFirst(r.endpoints[t.service], r.hit[t.service]), expired |-> FALSE]]
    /\ UNCHANGED <<instances, listed, attempts, made>>

Forwarding == request[1].step = "forwarding" /\ request[1].urls # <<>>

InTime == Forwarding /\ ~ request[1].expired

\* The next endpoint is tried, and the call made of it what result says.
Try(result) ==
    /\ Forwarding
    /\ attempts' = Append(attempts,
            [url |-> Head(request[1].urls), service |-> request[1].service,
             tool |-> request[1].upstream, name |-> request[1].want, result |-> result])
    /\ UNCHANGED <<instances, listed, made>>

ConnectFails ==
    /\ Try("refused")
    /\ request' = [request EXCEPT ![1].urls = Tail(@)]

CallAnswers ==
    /\ InTime
    /\ Try("answered")
    /\ request' = [request EXCEPT ![1] = Idle]

\* CallTool fails when the tool has run: the next endpoint is tried.
CallIsLost ==
    /\ InTime
    /\ Try("lost")
    /\ request' = [request EXCEPT ![1].urls = Tail(@)]

\* One deadline covers the whole loop: past it no connection succeeds.
CallHangs ==
    /\ InTime
    /\ Try("hung")
    /\ request' = [request EXCEPT ![1].urls = Tail(@), ![1].expired = TRUE]

\* The result with isError that says the forwarding failed.
CallFails ==
    LET r == request[1] IN
    /\ r.step = "forwarding" /\ r.urls = <<>>
    /\ request' = [request EXCEPT ![1] =
            [step |-> "failed", endpoints |-> r.endpoints, expired |-> r.expired]]
    /\ UNCHANGED <<instances, listed, attempts, made>>

HandlerStep ==
    \/ \E d \in Depths :
          \/ ReadCatalog(d)
          \/ \E s \in ServiceIds : ProbeFails(d, s) \/ ProbeAnswers(d, s)
    \/ \E s \in ServiceIds : ProbeReachesRegistry(s) \/ NestedAnswers(s)
    \/ ListTools \/ UnknownTool \/ StartForward
    \/ ConnectFails \/ CallAnswers \/ CallIsLost \/ CallHangs \/ CallFails

Next ==
    \/ \E k \in DOMAIN Rows : Register(k) \/ Deregister(k)
    \/ \E host \in Hosts, want \in Wants : Ask(host, want)
    \/ HandlerStep

\* Probes and calls have timeouts, so a handler's goroutines go on.
Spec == Init /\ [][Next]_vars /\ WF_vars(HandlerStep)

-----------------------------------------------------------------------------
(* Properties *)

\* A registry that is among its own back ends, under an address IsSelf does not
\* recognize, is asked once and asks nobody: whatever the registrations are, a
\* request to /mcp does not multiply.
FanOutIsOneDeep == request[2].step # "probing"

\* A call is tried at an endpoint once, and nowhere after an answer, so that a
\* tool that answered is not run again.
NoRetryAfterAnswer ==
    \A j, k \in DOMAIN attempts : j < k =>
        attempts[j].result # "answered" /\ attempts[j].url # attempts[k].url

\* The agent is told that forwarding failed only when none of the endpoints the
\* catalog had for the service would do, or the deadline had passed: one failing
\* instance does not make a tool unusable.
FailureIsExhaustive ==
    request[1].step = "failed" =>
        /\ Range(request[1].endpoints) = {attempts[k].url : k \in DOMAIN attempts}
        /\ request[1].expired <=> \E k \in DOMAIN attempts : attempts[k].result = "hung"

\* Two services and tools have the same name: "a" "b__c" and "a__b" "c" do.
Ambiguous(name) ==
    \E s1, s2 \in ServiceIds, t1, t2 \in Tools :
        s1 # s2 /\ FullName(s1, t1) = name /\ FullName(s2, t2) = name

\* "The call is forwarded to that service's own MCP" (README.md, the table of
\* interfaces): to the service whose tool the agent was shown, though the call
\* is routed by a new catalog and new answers, unless the name stands for tools
\* of two services.
RoutedAsListed ==
    \A k \in DOMAIN attempts, l \in listed :
        attempts[k].name = l.name /\ attempts[k].service # l.service => Ambiguous(l.name)

\* Every request is answered, also when nobody answers the gateway.
EveryRequestEnds == request[1].step = "arrived" ~> request[1].step \in {"idle", "failed"}

=============================================================================
