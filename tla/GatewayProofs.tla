----------------------------- MODULE GatewayProofs -----------------------------
(***************************************************************************)
(* What TLAPS proves of the MCP gateway, for any services, instances and   *)
(* tools, however the instances change between two requests: a registry    *)
(* that is its own back end asks nobody, a call is tried at an endpoint    *)
(* once and not after an answer, it fails only when none is left, and it   *)
(* goes to the service whose tool was shown.                               *)
(***************************************************************************)
EXTENDS Gateway, FiniteSetTheorems, SequenceTheorems, TLAPS

-----------------------------------------------------------------------------
(* Loops that keep some of a sequence *)

(* A set of numbers that is not empty has a least one.                         *)
LEMMA MinExists ==
    ASSUME NEW S, S \subseteq Nat, S # {}
    PROVE  \E m \in S : \A x \in S : m <= x
<1>1. IsWellFoundedOn(OpToRel(<, Nat), Nat)
  BY NatLessThanWellFounded
<1>2. PICK m \in S : \A x \in S : ~ (<<x, m>> \in OpToRel(<, Nat))
  BY <1>1, WFMin
<1>3. m \in Nat /\ \A x \in S : x \in Nat
  OBVIOUS
<1>4. ASSUME NEW x \in S PROVE m <= x
  <2>1. <<x, m>> \in Nat \X Nat
    BY <1>3
  <2>2. ~ (x < m)
    BY <1>2, <2>1 DEF OpToRel
  <2> QED BY <1>3, <2>2
<1> QED BY <1>4

(* A bounded set of positions has a last one.                                  *)
LEMMA LastExists ==
    ASSUME NEW N \in Nat, NEW S, S \subseteq 1 .. N, S # {}
    PROVE  \E m \in S : \A x \in S : x <= m
<1> DEFINE T == {N - x : x \in S}
<1>1. T \subseteq Nat /\ T # {}
  <2>1. PICK s \in S : TRUE
    OBVIOUS
  <2>2. N - s \in T /\ \A y \in T : y \in Nat
    OBVIOUS
  <2> QED BY <2>2
<1>2. PICK d \in T : \A y \in T : d <= y
  BY <1>1, MinExists
<1>3. PICK m \in S : d = N - m
  BY <1>2
<1>4. \A x \in S : N - m <= N - x
  BY <1>2, <1>3
<1> QED BY <1>4

LEMMA PositionsAreFinite ==
    ASSUME NEW N \in Nat, NEW K \in SUBSET (1 .. N)
    PROVE  IsFiniteSet(K) /\ Cardinality(K) \in Nat
<1>1. IsFiniteSet(1 .. N)
  BY FS_Interval
<1>2. IsFiniteSet(K)
  BY <1>1, FS_Subset
<1> QED BY <1>2, FS_CardinalityType

Increasing(f) == \A m, n \in DOMAIN f : m < n => f[m] < f[n]

Enumerated(K) == \E f \in [1 .. Cardinality(K) -> K] : Increasing(f)

(* Any positions can be visited from the lowest to the highest.                *)
LEMMA PositionsAreEnumerated ==
    ASSUME NEW N \in Nat, NEW K \in SUBSET (1 .. N)
    PROVE  Enumerated(K)
<1> DEFINE Bad == {L \in SUBSET (1 .. N) : ~ Enumerated(L)}
           Sizes == {Cardinality(L) : L \in Bad}
<1>0. \A L \in SUBSET (1 .. N) : IsFiniteSet(L) /\ Cardinality(L) \in Nat
  BY PositionsAreFinite
<1>1. SUFFICES ASSUME K \in Bad PROVE FALSE
  OBVIOUS
<1>2. Sizes \subseteq Nat /\ Sizes # {}
  BY <1>0, <1>1
<1>3. PICK c \in Sizes : \A x \in Sizes : c <= x
  BY <1>2, MinExists
<1>4. PICK L \in Bad : c = Cardinality(L)
  BY <1>3
<1>5. L \in SUBSET (1 .. N) /\ IsFiniteSet(L) /\ c \in Nat
  BY <1>0, <1>4
<1>6. L # {}
  <2>1. SUFFICES ASSUME L = {} PROVE FALSE
    OBVIOUS
  <2>2. c = 0
    BY <1>4, <2>1, FS_EmptySet
  <2>3. [n \in 1 .. 0 |-> 0] \in [1 .. c -> L] /\ Increasing([n \in 1 .. 0 |-> 0])
    BY <2>2 DEF Increasing
  <2> QED BY <1>4, <2>3 DEF Enumerated
<1>7. PICK last \in L : \A x \in L : x <= last
  BY <1>5, <1>6, LastExists
<1>8. Cardinality(L \ {last}) = c - 1 /\ L \ {last} \in SUBSET (1 .. N)
  BY <1>4, <1>5, FS_RemoveElement
<1>9. Enumerated(L \ {last})
  <2>1. c - 1 \notin Sizes
    BY <1>3, <1>5
  <2> QED BY <1>8, <2>1
<1>10. PICK g \in [1 .. c - 1 -> L \ {last}] : Increasing(g)
  BY <1>8, <1>9 DEF Enumerated
<1> DEFINE f == [n \in 1 .. c |-> IF n = c THEN last ELSE g[n]]
<1>11. f \in [1 .. c -> L]
  BY <1>5, <1>10
<1>12. ASSUME NEW m \in 1 .. c, NEW n \in 1 .. c, m < n PROVE f[m] < f[n]
  <2>1. m \in 1 .. c - 1 /\ f[m] = g[m] /\ g[m] \in L \ {last}
    BY <1>5, <1>10, <1>12
  <2>2. CASE n = c
    <3>1. g[m] \in 1 .. N /\ last \in 1 .. N /\ g[m] # last /\ g[m] <= last
      BY <1>5, <1>7, <2>1
    <3> QED BY <2>1, <2>2, <3>1
  <2>3. CASE n # c
    BY <1>5, <1>10, <1>12, <2>1, <2>3 DEF Increasing
  <2> QED BY <2>2, <2>3
<1>13. Increasing(f)
  BY <1>11, <1>12 DEF Increasing
<1> QED BY <1>4, <1>11, <1>13 DEF Enumerated

(* InOrder visits every position once.                                         *)
LEMMA InOrderVisitsAll ==
    ASSUME NEW N \in Nat, NEW K \in SUBSET (1 .. N)
    PROVE  /\ Cardinality(K) \in Nat
           /\ InOrder(K) \in [1 .. Cardinality(K) -> K]
           /\ \A m, n \in 1 .. Cardinality(K) : m # n => InOrder(K)[m] # InOrder(K)[n]
           /\ \A k \in K : \E n \in 1 .. Cardinality(K) : InOrder(K)[n] = k
<1> DEFINE c == Cardinality(K)
           f == InOrder(K)
<1>1. IsFiniteSet(K) /\ c \in Nat
  BY PositionsAreFinite
<1>2. \E g \in [1 .. c -> K] : \A m, n \in DOMAIN g : m < n => g[m] < g[n]
  BY PositionsAreEnumerated DEF Enumerated, Increasing
<1>3. f \in [1 .. c -> K] /\ \A m, n \in DOMAIN f : m < n => f[m] < f[n]
  BY <1>2 DEF InOrder
<1> HIDE DEF f
<1>4. ASSUME NEW m \in 1 .. c, NEW n \in 1 .. c, m # n PROVE f[m] # f[n]
  <2>1. f[m] \in 1 .. N /\ f[n] \in 1 .. N /\ DOMAIN f = 1 .. c
    BY <1>3
  <2>2. m < n \/ n < m
    BY <1>1, <1>4
  <2> QED BY <1>3, <2>1, <2>2
<1>5. f \in Injection(1 .. c, K)
  BY <1>3, <1>4 DEF Injection, IsInjective
<1>6. Cardinality(1 .. c) = c
  BY <1>1, FS_Interval
<1>7. f \in Surjection(1 .. c, K)
  BY <1>1, <1>5, <1>6, FS_Injection
<1>8. \A k \in K : \E n \in 1 .. c : f[n] = k
  BY <1>7 DEF Surjection
<1> QED BY <1>1, <1>3, <1>4, <1>8 DEF f

Distinct(s) == \A m, n \in DOMAIN s : m # n => s[m] # s[n]

(* Picked keeps what is at the positions, and nothing twice that is there once. *)
LEMMA PickedMeans ==
    ASSUME NEW S, NEW s \in Seq(S), NEW K \in SUBSET DOMAIN s
    PROVE  /\ Picked(s, K) \in Seq(S)
           /\ Range(Picked(s, K)) = {s[k] : k \in K}
           /\ (\A j, k \in K : j # k => s[j] # s[k]) => Distinct(Picked(s, K))
<1>1. DOMAIN s = 1 .. Len(s) /\ Len(s) \in Nat /\ \A k \in K : s[k] \in S
  BY LenProperties, ElementOfSeq
<1> DEFINE c == Cardinality(K)
           f == InOrder(K)
           p == Picked(s, K)
<1>2. /\ c \in Nat /\ f \in [1 .. c -> K]
      /\ \A m, n \in 1 .. c : m # n => f[m] # f[n]
      /\ \A k \in K : \E n \in 1 .. c : f[n] = k
  BY <1>1, InOrderVisitsAll
<1>3. p = [n \in 1 .. c |-> s[f[n]]]
  BY DEF Picked
<1> HIDE DEF c, f, p
<1>4. DOMAIN p = 1 .. c /\ \A n \in 1 .. c : f[n] \in K /\ p[n] = s[f[n]]
  BY <1>2, <1>3
<1>5. p \in Seq(S)
  BY <1>1, <1>2, <1>3, <1>4
<1>6. Range(p) = {s[k] : k \in K}
  BY <1>2, <1>4 DEF Range
<1>7. (\A j, k \in K : j # k => s[j] # s[k]) => Distinct(p)
  BY <1>2, <1>4 DEF Distinct
<1> QED BY <1>5, <1>6, <1>7 DEF p

LEMMA TailMeans ==
    ASSUME NEW S, NEW s \in Seq(S), s # <<>>
    PROVE  /\ Head(s) \in S /\ Tail(s) \in Seq(S)
           /\ Range(s) = {Head(s)} \union Range(Tail(s))
           /\ Distinct(s) => Distinct(Tail(s)) /\ Head(s) \notin Range(Tail(s))
<1>1. /\ Head(s) = s[1] /\ Head(s) \in S /\ Tail(s) \in Seq(S)
      /\ DOMAIN s = 1 .. Len(s) /\ Len(s) \in Nat \ {0}
      /\ DOMAIN Tail(s) = 1 .. Len(s) - 1
      /\ \A n \in 1 .. Len(s) - 1 : Tail(s)[n] = s[n + 1]
  <2>1. Len(s) \in Nat \ {0} /\ DOMAIN s = 1 .. Len(s)
    BY EmptySeq, LenProperties
  <2>2. /\ Head(s) \in S /\ Tail(s) \in Seq(S) /\ Len(Tail(s)) = Len(s) - 1
        /\ \A n \in 1 .. Len(Tail(s)) : Tail(s)[n] = s[n + 1]
    BY HeadTailProperties
  <2>3. Head(s) = s[1]
    BY <2>1
  <2>4. DOMAIN Tail(s) = 1 .. Len(Tail(s))
    BY <2>2, LenProperties
  <2> QED BY <2>1, <2>2, <2>3, <2>4
<1>2. \A n \in 1 .. Len(s) : n # 1 => n - 1 \in 1 .. Len(s) - 1 /\ s[n] = Tail(s)[n - 1]
  <2>1. \A n \in 1 .. Len(s) : n # 1 => n - 1 \in 1 .. Len(s) - 1 /\ n = (n - 1) + 1
    BY <1>1
  <2> QED BY <1>1, <2>1
<1>3. Range(s) = {Head(s)} \union Range(Tail(s))
  <2>1. ASSUME NEW x \in Range(s) PROVE x = Head(s) \/ x \in Range(Tail(s))
    <3>1. PICK n \in DOMAIN s : x = s[n]
      BY DEF Range
    <3>2. CASE n = 1
      BY <1>1, <3>1, <3>2
    <3>3. CASE n # 1
      BY <1>1, <1>2, <3>1, <3>3 DEF Range
    <3> QED BY <3>2, <3>3
  <2>2. 1 \in DOMAIN s /\ \A n \in DOMAIN Tail(s) : n + 1 \in DOMAIN s
    BY <1>1
  <2>3. Head(s) \in Range(s) /\ Range(Tail(s)) \subseteq Range(s)
    BY <1>1, <2>2 DEF Range
  <2> QED BY <2>1, <2>3
<1>4. ASSUME Distinct(s) PROVE Distinct(Tail(s)) /\ Head(s) \notin Range(Tail(s))
  <2>1. \A n \in 1 .. Len(s) - 1 : n + 1 \in 1 .. Len(s) /\ n + 1 # 1
    BY <1>1
  <2>2. \A m, n \in 1 .. Len(s) - 1 : m # n => m + 1 # n + 1
    BY <1>1
  <2>3. Distinct(Tail(s))
    BY <1>1, <1>4, <2>1, <2>2 DEF Distinct
  <2>4. \A n \in 1 .. Len(s) - 1 : s[n + 1] # s[1]
    BY <1>1, <1>4, <2>1 DEF Distinct
  <2> QED BY <1>1, <2>3, <2>4 DEF Range
<1> QED BY <1>1, <1>3, <1>4

LEMMA AppendMeans ==
    ASSUME NEW S, NEW s \in Seq(S), NEW e \in S
    PROVE  /\ Append(s, e) \in Seq(S)
           /\ DOMAIN s = 1 .. Len(s) /\ Len(s) \in Nat
           /\ DOMAIN Append(s, e) = 1 .. Len(s) + 1
           /\ \A k \in 1 .. Len(s) : Append(s, e)[k] = s[k]
           /\ Append(s, e)[Len(s) + 1] = e
BY AppendProperties, LenProperties

-----------------------------------------------------------------------------
(* The addresses of a service *)

LEMMA EndpointsMeans ==
    ASSUME instances \subseteq DOMAIN Rows, NEW s \in ServiceIds
    PROVE  EndpointsOf(s) \in Seq(Urls) /\ Distinct(EndpointsOf(s))
<1> DEFINE url == [k \in DOMAIN Rows |-> Rows[k].url]
           own == {k \in instances : Rows[k].service = s /\ Rows[k].http}
<1>1. DOMAIN Rows = 1 .. Len(Rows) /\ Len(Rows) \in Nat
  BY RowAssumption, LenProperties
<1>2. url \in Seq(Urls) /\ DOMAIN url = DOMAIN Rows
  BY <1>1 DEF Urls
<1>3. own \in SUBSET DOMAIN url
  BY <1>2
<1>4. \A j, k \in own : j # k => url[j] # url[k]
  BY AddressAssumption
<1>5. EndpointsOf(s) = Picked(url, own)
  BY DEF EndpointsOf
<1> HIDE DEF url, own
<1> QED BY <1>2, <1>3, <1>4, <1>5, PickedMeans

LEMMA NotSelfMeans ==
    ASSUME NEW urls \in Seq(Urls), Distinct(urls), NEW host
    PROVE  NotSelf(host, urls) \in Seq(Urls) /\ Distinct(NotSelf(host, urls))
<1> DEFINE K == {n \in DOMAIN urls : ~ IsSelf(host, urls[n])}
<1>1. K \in SUBSET DOMAIN urls /\ \A j, k \in K : j # k => urls[j] # urls[k]
  BY DEF Distinct
<1>2. NotSelf(host, urls) = Picked(urls, K)
  BY DEF NotSelf
<1> HIDE DEF K
<1> QED BY <1>1, <1>2, PickedMeans

(* The addresses a call tries are all of those the catalog had, each once.     *)
LEMMA HitFirstMeans ==
    ASSUME NEW urls \in Seq(Urls), Distinct(urls), NEW hit \in Range(urls)
    PROVE  /\ HitFirst(urls, hit) \in Seq(Urls) /\ Distinct(HitFirst(urls, hit))
           /\ Range(HitFirst(urls, hit)) = Range(urls)
<1> DEFINE K == {n \in DOMAIN urls : urls[n] # hit}
           rest == Picked(urls, K)
           first == <<hit>>
           all == first \o rest
<1>1. K \in SUBSET DOMAIN urls /\ \A j, k \in K : j # k => urls[j] # urls[k]
  BY DEF Distinct
<1>2. rest \in Seq(Urls) /\ Distinct(rest) /\ Range(rest) = {urls[n] : n \in K}
  BY <1>1, PickedMeans
<1>3. HitFirst(urls, hit) = all
  BY DEF HitFirst
<1>4. Range(rest) = Range(urls) \ {hit}
  BY <1>2 DEF Range
<1> HIDE DEF K, rest
<1>5. hit \in Urls
  <2>1. PICK n \in DOMAIN urls : hit = urls[n]
    BY DEF Range
  <2>2. n \in 1 .. Len(urls)
    BY LenProperties
  <2> QED BY <2>1, <2>2, ElementOfSeq
<1>6. first \in Seq(Urls) /\ Len(first) = 1 /\ first[1] = hit
  BY <1>5
<1> HIDE DEF first
<1>7. /\ all \in Seq(Urls) /\ DOMAIN rest = 1 .. Len(rest) /\ Len(rest) \in Nat
      /\ DOMAIN all = 1 .. Len(rest) + 1
      /\ all[1] = hit /\ \A n \in 1 .. Len(rest) : all[n + 1] = rest[n]
  <2>1. all \in Seq(Urls) /\ Len(all) = 1 + Len(rest) /\ Len(rest) \in Nat /\ DOMAIN rest = 1 .. Len(rest)
    BY <1>2, <1>6, ConcatProperties, LenProperties
  <2>2. DOMAIN all = 1 .. Len(rest) + 1
    BY <2>1, LenProperties
  <2>3. \A i \in 1 .. 1 + Len(rest) : all[i] = IF i <= 1 THEN first[i] ELSE rest[i - 1]
    BY <1>2, <1>6, ConcatProperties
  <2>4. all[1] = hit
    BY <1>6, <2>1, <2>3
  <2>5. ASSUME NEW n \in 1 .. Len(rest) PROVE all[n + 1] = rest[n]
    <3>1. n + 1 \in 1 .. 1 + Len(rest) /\ ~ (n + 1 <= 1) /\ (n + 1) - 1 = n
      BY <2>1
    <3> QED BY <2>3, <3>1
  <2> QED BY <2>1, <2>2, <2>4, <2>5
<1> HIDE DEF all
<1>8. \A i \in 1 .. Len(rest) + 1 : i # 1 => i - 1 \in 1 .. Len(rest) /\ all[i] = rest[i - 1]
  <2>1. \A i \in 1 .. Len(rest) + 1 : i # 1 => i - 1 \in 1 .. Len(rest) /\ i = (i - 1) + 1
    BY <1>7
  <2> QED BY <1>7, <2>1
<1>9. \A n \in 1 .. Len(rest) : n + 1 \in 1 .. Len(rest) + 1
  BY <1>7
<1>10. Range(all) = {hit} \union Range(rest)
  <2>1. ASSUME NEW x \in Range(all) PROVE x = hit \/ x \in Range(rest)
    <3>1. PICK i \in DOMAIN all : x = all[i]
      BY DEF Range
    <3>2. CASE i = 1
      BY <1>7, <3>1, <3>2
    <3>3. CASE i # 1
      BY <1>7, <1>8, <3>1, <3>3 DEF Range
    <3> QED BY <3>2, <3>3
  <2>2. 1 \in DOMAIN all
    BY <1>7
  <2>3. hit \in Range(all) /\ Range(rest) \subseteq Range(all)
    BY <1>7, <1>9, <2>2 DEF Range
  <2> QED BY <2>1, <2>3
<1>11. Distinct(all)
  <2>1. \A n \in 1 .. Len(rest) : rest[n] # hit
    BY <1>4, <1>7 DEF Range
  <2>2. \A i, j \in 1 .. Len(rest) + 1 : i # j => i - 1 # j - 1
    BY <1>7
  <2>3. ASSUME NEW i \in 1 .. Len(rest) + 1, NEW j \in 1 .. Len(rest) + 1, i # j
         PROVE  all[i] # all[j]
    <3>1. CASE i # 1 /\ j # 1
      <4>1. /\ i - 1 \in DOMAIN rest /\ all[i] = rest[i - 1]
            /\ j - 1 \in DOMAIN rest /\ all[j] = rest[j - 1]
        BY <1>7, <1>8, <3>1
      <4> QED BY <1>2, <2>2, <2>3, <4>1 DEF Distinct
    <3>2. CASE i = 1 \/ j = 1
      BY <1>7, <1>8, <2>1, <2>3, <3>2
    <3> QED BY <3>1, <3>2
  <2> QED BY <1>7, <2>3 DEF Distinct
<1>12. Range(all) = Range(urls)
  BY <1>4, <1>10
<1> QED BY <1>3, <1>7, <1>11, <1>12 DEF all, first

LEMMA NamesAreFullNames ==
    ASSUME NEW s \in ServiceIds, NEW t \in Tools
    PROVE  ToolName(s, t) = FullName(s, t) /\ FullName(s, t) \in Names
<1>1. FullName(s, t) \in Names
  BY DEF Names
<1> QED BY <1>1 DEF ToolName, FullName

LEMMA ExposedType ==
    ASSUME NEW r, NEW t \in Exposed(r)
    PROVE  /\ t.service \in ServiceIds /\ t.upstream \in Tools
           /\ t.name = FullName(t.service, t.upstream) /\ t.name \in Names
           /\ r.hit[t.service] # ""
<1>1. PICK p \in ServiceIds \X Tools :
         /\ r.hit[p[1]] # ""
         /\ t = [name |-> ToolName(p[1], p[2]), service |-> p[1], upstream |-> p[2]]
  BY DEF Exposed
<1>2. t.name = ToolName(p[1], p[2]) /\ t.service = p[1] /\ t.upstream = p[2]
  BY <1>1
<1> QED BY <1>1, <1>2, NamesAreFullNames

-----------------------------------------------------------------------------
(* What a call relies on *)

\* A request of the registry to itself is one that asks nobody.
Nested == request[2] = Idle \/ (request[2].step = "arrived" /\ request[2].hop)

\* While services are asked nothing was called; the one that answered is one of
\* the catalog's addresses.
ProbingInv ==
    /\ request[1].step \in {"arrived", "probing"} => attempts = <<>>
    /\ request[1].step = "probing" =>
          \A s \in ServiceIds :
             /\ Distinct(request[1].endpoints[s])
             /\ Range(request[1].urls[s]) \subseteq Range(request[1].endpoints[s])
             /\ request[1].hit[s] # "" => request[1].hit[s] \in Range(request[1].endpoints[s])

Tried == {attempts[k].url : k \in DOMAIN attempts}
Unanswered == \A k \in DOMAIN attempts : attempts[k].result # "answered"
Hung == \E k \in DOMAIN attempts : attempts[k].result = "hung"

\* The service's addresses are those tried and those left, none among both; no
\* answer yet; the deadline passed with an attempt that hung.
ForwardInv ==
    request[1].step = "forwarding" =>
        /\ Distinct(request[1].urls)
        /\ Tried \intersect Range(request[1].urls) = {}
        /\ Range(request[1].endpoints) = Tried \union Range(request[1].urls)
        /\ Unanswered
        /\ request[1].expired <=> Hung

\* A name shown, and a name called, is that of a tool of the service it goes with.
NamesInv ==
    /\ \A l \in listed : \E t \in Tools : l.name = FullName(l.service, t)
    /\ \A k \in DOMAIN attempts :
          attempts[k].name = FullName(attempts[k].service, attempts[k].tool)
    /\ request[1].step = "forwarding" =>
          request[1].want = FullName(request[1].service, request[1].upstream)

CallInv == TypeOK /\ Nested /\ ProbingInv /\ ForwardInv /\ NamesInv
           /\ NoRetryAfterAnswer /\ FailureIsExhaustive

-----------------------------------------------------------------------------
(* A request, by its step *)

ArrivedRequest ==
    [step : {"arrived"}, host : RegistryUrls, hop : BOOLEAN, want : Names \union {List}]
ProbingRequest ==
    [step : {"probing"}, want : Names \union {List}, host : RegistryUrls,
     endpoints : [ServiceIds -> Seq(Urls)], urls : [ServiceIds -> Seq(Urls)],
     hit : [ServiceIds -> Urls \union {""}]]
ForwardingRequest ==
    [step : {"forwarding"}, service : ServiceIds, want : Names, upstream : Tools,
     endpoints : Seq(Urls), urls : Seq(Urls), expired : BOOLEAN]
FailedRequest == [step : {"failed"}, endpoints : Seq(Urls), expired : BOOLEAN]

LEMMA RequestBySteps ==
    Request = [step : {"idle"}] \union ArrivedRequest \union ProbingRequest
              \union ForwardingRequest \union FailedRequest
BY DEF Request, ArrivedRequest, ProbingRequest, ForwardingRequest, FailedRequest

LEMMA RequestFields ==
    ASSUME NEW r \in Request
    PROVE  /\ r.step = "idle" => r \in [step : {"idle"}]
           /\ r.step = "arrived" => r \in ArrivedRequest
           /\ r.step = "probing" => r \in ProbingRequest
           /\ r.step = "forwarding" => r \in ForwardingRequest
           /\ r.step = "failed" => r \in FailedRequest
           /\ r.step \in {"idle", "arrived", "probing", "forwarding", "failed"}
<1>1. r \in [step : {"idle"}] => r.step = "idle"
  OBVIOUS
<1>2. r \in ArrivedRequest => r.step = "arrived"
  BY DEF ArrivedRequest
<1>3. r \in ProbingRequest => r.step = "probing"
  BY DEF ProbingRequest
<1>4. r \in ForwardingRequest => r.step = "forwarding"
  BY DEF ForwardingRequest
<1>5. r \in FailedRequest => r.step = "failed"
  BY DEF FailedRequest
<1> QED BY <1>1, <1>2, <1>3, <1>4, <1>5, RequestBySteps

LEMMA IdleType == Idle \in Request /\ Idle.step = "idle"
BY DEF Idle, Request

LEMMA SentType ==
    ASSUME NEW url \in RegistryUrls
    PROVE  Sent(url) \in Request /\ Sent(url).step = "arrived" /\ Sent(url).hop
BY RequestBySteps DEF Sent, ArrivedRequest

LEMMA NothingTried == DOMAIN <<>> = {}
<1>1. <<>> \in Seq(Attempt) /\ Len(<<>>) = 0
  OBVIOUS
<1> QED BY <1>1, LenProperties

LEMMA AttemptFields ==
    ASSUME NEW a \in Attempt
    PROVE  /\ a.url \in Urls /\ a.service \in ServiceIds /\ a.tool \in Tools /\ a.name \in Names
           /\ a.result \in {"refused", "hung", "lost", "answered"}
BY DEF Attempt

(* What a step does to the agent's request, and to one the registry sent.      *)
LEMMA FirstReplaced ==
    ASSUME TypeOK, NEW r, request' = [request EXCEPT ![1] = r]
    PROVE  /\ request'[1] = r /\ request'[2] = request[2]
           /\ r \in Request => request' \in [Depths -> Request]
BY DEF TypeOK, Depths

LEMMA BothReplaced ==
    ASSUME TypeOK, NEW r, NEW q, request' = [request EXCEPT ![1] = r, ![2] = q]
    PROVE  /\ request'[1] = r /\ request'[2] = q
           /\ r \in Request /\ q \in Request => request' \in [Depths -> Request]
BY DEF TypeOK, Depths

LEMMA NestedOnly ==
    ASSUME Nested
    PROVE  request[2].step \in {"idle", "arrived"} /\ (request[2].step = "arrived" => request[2].hop)
BY DEF Nested, Idle

-----------------------------------------------------------------------------
(* The steps, one by one *)

LEMMA CatalogStep ==
    ASSUME CallInv, NEW k \in DOMAIN Rows, Register(k) \/ Deregister(k)
    PROVE  CallInv'
<1>1. /\ instances' \subseteq DOMAIN Rows
      /\ UNCHANGED <<request, listed, attempts, made>>
  BY DEF Register, Deregister, CallInv, TypeOK
<1> QED BY <1>1 DEF CallInv, TypeOK, Nested, ProbingInv, ForwardInv, NamesInv,
                    NoRetryAfterAnswer, FailureIsExhaustive, Tried, Unanswered, Hung

LEMMA AskStep ==
    ASSUME CallInv, NEW host \in Hosts, NEW want \in Wants, Ask(host, want)
    PROVE  CallInv'
<1> DEFINE r == [step |-> "arrived", host |-> host, hop |-> FALSE, want |-> want]
<1>1. want \in Names \union {List}
  BY DEF Wants, CallInv, TypeOK
<1>2. r \in Request /\ r.step = "arrived"
  BY <1>1, UrlAssumption, RequestBySteps DEF ArrivedRequest
<1>3. /\ request' = [request EXCEPT ![1] = r] /\ attempts' = <<>> /\ listed' = listed
      /\ instances' = instances /\ made' = made + 1 /\ made < Calls
  BY DEF Ask
<1> HIDE DEF r
<1>4. request'[1] = r /\ request'[2] = request[2] /\ request' \in [Depths -> Request]
  BY <1>2, <1>3, FirstReplaced DEF CallInv
<1>5. TypeOK'
  <2>1. made' \in 0 .. Calls
    BY <1>3, BoundAssumption DEF CallInv, TypeOK
  <2> QED BY <1>3, <1>4, <2>1 DEF CallInv, TypeOK
<1>6. Nested' /\ ProbingInv' /\ ForwardInv' /\ FailureIsExhaustive'
  BY <1>2, <1>3, <1>4 DEF CallInv, Nested, ProbingInv, ForwardInv, FailureIsExhaustive
<1>7. NamesInv' /\ NoRetryAfterAnswer'
  <2>1. DOMAIN attempts' = {}
    BY <1>3, NothingTried
  <2>2. NoRetryAfterAnswer'
    BY <2>1 DEF NoRetryAfterAnswer
  <2>3. \A l \in listed' : \E t \in Tools : l.name = FullName(l.service, t)
    BY <1>3 DEF CallInv, NamesInv
  <2> QED BY <1>2, <1>4, <2>1, <2>2, <2>3 DEF NamesInv
<1> QED BY <1>5, <1>6, <1>7 DEF CallInv

LEMMA ReadCatalogStep ==
    ASSUME CallInv, NEW d \in Depths, ReadCatalog(d)
    PROVE  CallInv'
<1>1. d = 1
  BY NestedOnly DEF CallInv, ReadCatalog, Depths
<1> DEFINE urls == [s \in ServiceIds |-> NotSelf(request[1].host, EndpointsOf(s))]
           r == [step |-> "probing", want |-> request[1].want, host |-> request[1].host,
                 endpoints |-> urls, urls |-> urls, hit |-> [s \in ServiceIds |-> ""]]
<1>2. /\ request' = [request EXCEPT ![1] = r] /\ request[1].step = "arrived"
      /\ UNCHANGED <<instances, listed, attempts, made>>
  BY <1>1 DEF ReadCatalog
<1>3. \A s \in ServiceIds : NotSelf(request[1].host, EndpointsOf(s)) \in Seq(Urls)
                            /\ Distinct(NotSelf(request[1].host, EndpointsOf(s)))
  BY EndpointsMeans, NotSelfMeans DEF CallInv, TypeOK
<1>4. urls \in [ServiceIds -> Seq(Urls)] /\ \A s \in ServiceIds : Distinct(urls[s])
  BY <1>3
<1> HIDE DEF urls
<1>5. request[1] \in ArrivedRequest
  BY <1>2, RequestFields DEF CallInv, TypeOK, Depths
<1>6. r \in Request
  BY <1>4, <1>5, RequestBySteps DEF ArrivedRequest, ProbingRequest
<1>7. r.step = "probing" /\ r.endpoints = urls /\ r.urls = urls /\ \A s \in ServiceIds : r.hit[s] = ""
  OBVIOUS
<1> HIDE DEF r
<1>8. request'[1] = r /\ request'[2] = request[2] /\ request' \in [Depths -> Request]
  BY <1>2, <1>6, FirstReplaced DEF CallInv
<1>9. TypeOK'
  BY <1>2, <1>8 DEF CallInv, TypeOK
<1>10. ProbingInv'
  BY <1>2, <1>4, <1>7, <1>8 DEF CallInv, ProbingInv
<1>11. Nested' /\ ForwardInv' /\ FailureIsExhaustive' /\ NamesInv' /\ NoRetryAfterAnswer'
  BY <1>2, <1>7, <1>8
     DEF CallInv, Nested, ForwardInv, FailureIsExhaustive, NamesInv, NoRetryAfterAnswer
<1> QED BY <1>9, <1>10, <1>11 DEF CallInv

(* A step of the probes: the agent's request asks on, of fewer addresses or    *)
(* with one more that answered.                                                *)
ProbesOn ==
    /\ request[1].step = "probing"
    /\ \E urls \in [ServiceIds -> Seq(Urls)], hit \in [ServiceIds -> Urls \union {""}] :
          /\ \A s \in ServiceIds :
                /\ Range(urls[s]) \subseteq Range(request[1].urls[s])
                /\ hit[s] = request[1].hit[s] \/ hit[s] \in Range(request[1].urls[s])
          /\ request'[1] = [request[1] EXCEPT !.urls = urls, !.hit = hit]
    /\ request' \in [Depths -> Request]
    /\ Nested'
    /\ UNCHANGED <<instances, listed, attempts, made>>

LEMMA ProbesOnStep == CallInv /\ ProbesOn => CallInv'
<1> SUFFICES ASSUME CallInv, ProbesOn PROVE CallInv'
  OBVIOUS
<1>1. PICK urls \in [ServiceIds -> Seq(Urls)], hit \in [ServiceIds -> Urls \union {""}] :
         /\ \A s \in ServiceIds :
               /\ Range(urls[s]) \subseteq Range(request[1].urls[s])
               /\ hit[s] = request[1].hit[s] \/ hit[s] \in Range(request[1].urls[s])
         /\ request'[1] = [request[1] EXCEPT !.urls = urls, !.hit = hit]
  BY DEF ProbesOn
<1>2. /\ request[1].step = "probing" /\ request' \in [Depths -> Request] /\ Nested'
      /\ UNCHANGED <<instances, listed, attempts, made>>
  BY DEF ProbesOn
<1>3. request[1] \in ProbingRequest
  BY <1>2, RequestFields DEF CallInv, TypeOK, Depths
<1>4. /\ request'[1].step = "probing" /\ request'[1].endpoints = request[1].endpoints
      /\ request'[1].urls = urls /\ request'[1].hit = hit
  BY <1>1, <1>2, <1>3 DEF ProbingRequest
<1>5. TypeOK'
  BY <1>2 DEF CallInv, TypeOK
<1>6. ProbingInv'
  <2>1. ASSUME NEW s \in ServiceIds
         PROVE  /\ Distinct(request'[1].endpoints[s])
                /\ Range(request'[1].urls[s]) \subseteq Range(request'[1].endpoints[s])
                /\ request'[1].hit[s] # "" => request'[1].hit[s] \in Range(request'[1].endpoints[s])
    BY <1>1, <1>2, <1>4 DEF CallInv, ProbingInv
  <2> QED BY <1>2, <1>4, <2>1 DEF CallInv, ProbingInv
<1>7. ForwardInv' /\ FailureIsExhaustive' /\ NamesInv' /\ NoRetryAfterAnswer'
  BY <1>2, <1>4 DEF CallInv, ForwardInv, FailureIsExhaustive, NamesInv, NoRetryAfterAnswer
<1> QED BY <1>2, <1>5, <1>6, <1>7 DEF CallInv

(* What a service that may be asked has left to ask.                           *)
LEMMA AskableFields ==
    ASSUME CallInv, NEW s \in ServiceIds, MayAsk(1, s)
    PROVE  /\ request[1].step = "probing" /\ request[1] \in ProbingRequest
           /\ request[1].urls \in [ServiceIds -> Seq(Urls)]
           /\ request[1].hit \in [ServiceIds -> Urls \union {""}]
           /\ Head(request[1].urls[s]) \in Urls
           /\ Head(request[1].urls[s]) \in Range(request[1].urls[s])
           /\ Tail(request[1].urls[s]) \in Seq(Urls)
           /\ Range(Tail(request[1].urls[s])) \subseteq Range(request[1].urls[s])
<1>1. request[1].step = "probing" /\ request[1].urls[s] # <<>>
  BY DEF MayAsk, Asking
<1>2. request[1] \in ProbingRequest
  BY <1>1, RequestFields DEF CallInv, TypeOK, Depths
<1>3. /\ request[1].urls \in [ServiceIds -> Seq(Urls)]
      /\ request[1].hit \in [ServiceIds -> Urls \union {""}]
  BY <1>2 DEF ProbingRequest
<1>4. request[1].urls[s] \in Seq(Urls)
  BY <1>3
<1>5. /\ Head(request[1].urls[s]) \in Urls /\ Tail(request[1].urls[s]) \in Seq(Urls)
      /\ Range(request[1].urls[s])
         = {Head(request[1].urls[s])} \union Range(Tail(request[1].urls[s]))
  BY <1>1, <1>4, TailMeans
<1> QED BY <1>1, <1>2, <1>3, <1>5

LEMMA ProbeFailsStep ==
    ASSUME CallInv, NEW s \in ServiceIds, ProbeFails(1, s)
    PROVE  CallInv'
<1> DEFINE urls == [request[1].urls EXCEPT ![s] = Tail(@)]
           r == [request[1] EXCEPT !.urls = urls]
           q == Abandoned(1, Head(request[1].urls[s]))
<1>1. MayAsk(1, s) /\ UNCHANGED <<instances, listed, attempts, made>>
  BY DEF ProbeFails
<1>2. request' = [request EXCEPT ![1] = r, ![2] = q]
  BY DEF ProbeFails
<1>3. /\ urls \in [ServiceIds -> Seq(Urls)]
      /\ \A t \in ServiceIds : Range(urls[t]) \subseteq Range(request[1].urls[t])
  BY <1>1, AskableFields
<1> HIDE DEF urls
<1>4. r \in Request /\ r = [request[1] EXCEPT !.urls = urls, !.hit = request[1].hit]
  BY <1>1, <1>3, AskableFields, RequestBySteps DEF ProbingRequest
<1>5. q = Idle \/ q = request[2]
  BY DEF Abandoned
<1>6. q \in Request
  BY <1>5, IdleType DEF CallInv, TypeOK, Depths
<1> HIDE DEF r, q
<1>7. request'[1] = r /\ request'[2] = q /\ request' \in [Depths -> Request]
  BY <1>2, <1>4, <1>6, BothReplaced DEF CallInv
<1>8. Nested'
  BY <1>5, <1>7 DEF CallInv, Nested
<1>9. ProbesOn
  BY <1>1, <1>3, <1>4, <1>7, <1>8, AskableFields DEF ProbesOn
<1> QED BY <1>9, ProbesOnStep

(* A probe that answers.                                                       *)
LEMMA AnswerStep ==
    ASSUME CallInv, NEW s \in ServiceIds, MayAsk(1, s),
           LET r == [request[1] EXCEPT !.hit[s] = Head(request[1].urls[s])] IN
           \/ request' = [request EXCEPT ![1] = r]
           \/ request' = [request EXCEPT ![1] = r, ![2] = Idle],
           UNCHANGED <<instances, listed, attempts, made>>
    PROVE  CallInv'
<1> DEFINE hit == [request[1].hit EXCEPT ![s] = Head(request[1].urls[s])]
           r == [request[1] EXCEPT !.hit[s] = Head(request[1].urls[s])]
<1>1. /\ hit \in [ServiceIds -> Urls \union {""}]
      /\ \A t \in ServiceIds : hit[t] = request[1].hit[t] \/ hit[t] \in Range(request[1].urls[t])
  BY AskableFields
<1>2. r = [request[1] EXCEPT !.hit = hit]
  OBVIOUS
<1> HIDE DEF hit
<1>3. r \in Request /\ r = [request[1] EXCEPT !.urls = request[1].urls, !.hit = hit]
  BY <1>1, <1>2, AskableFields, RequestBySteps DEF ProbingRequest
<1>4. request' = [request EXCEPT ![1] = r] \/ request' = [request EXCEPT ![1] = r, ![2] = Idle]
  OBVIOUS
<1> HIDE DEF r
<1>5. /\ request'[1] = r /\ request'[2] \in {request[2], Idle}
      /\ request' \in [Depths -> Request]
  BY <1>3, <1>4, IdleType, FirstReplaced, BothReplaced DEF CallInv
<1>6. Nested'
  BY <1>5 DEF CallInv, Nested
<1>7. ProbesOn
  BY <1>1, <1>3, <1>5, <1>6, AskableFields DEF ProbesOn
<1> QED BY <1>7, ProbesOnStep

LEMMA ProbeAnswersStep ==
    ASSUME CallInv, NEW s \in ServiceIds, ProbeAnswers(1, s)
    PROVE  CallInv'
<1>1. MayAsk(1, s) /\ UNCHANGED <<instances, listed, attempts, made>>
  BY DEF ProbeAnswers
<1>2. request' = [request EXCEPT ![1] = [request[1] EXCEPT !.hit[s] = Head(request[1].urls[s])]]
  BY DEF ProbeAnswers
<1> QED BY <1>1, <1>2, AnswerStep

LEMMA NestedAnswersStep ==
    ASSUME CallInv, NEW s \in ServiceIds, NestedAnswers(s)
    PROVE  CallInv'
<1>1. MayAsk(1, s) /\ UNCHANGED <<instances, listed, attempts, made>>
  BY DEF NestedAnswers
<1>2. request' = [request EXCEPT ![1] = [request[1] EXCEPT !.hit[s] = Head(request[1].urls[s])],
                                 ![2] = Idle]
  BY DEF NestedAnswers
<1> QED BY <1>1, <1>2, AnswerStep

LEMMA ProbeReachesRegistryStep ==
    ASSUME CallInv, NEW s \in ServiceIds, ProbeReachesRegistry(s)
    PROVE  CallInv'
<1> DEFINE url == Head(request[1].urls[s])
<1>1. /\ MayAsk(1, s) /\ url \in RegistryUrls /\ UNCHANGED <<instances, listed, attempts, made>>
      /\ request' = [request EXCEPT ![2] = Sent(url)]
  BY DEF ProbeReachesRegistry
<1>2. Sent(url) \in Request /\ Sent(url).step = "arrived" /\ Sent(url).hop
  BY <1>1, SentType
<1> HIDE DEF url
<1>3. request'[1] = request[1] /\ request'[2] = Sent(url) /\ request' \in [Depths -> Request]
  BY <1>1, <1>2 DEF CallInv, TypeOK, Depths
<1>4. Nested'
  BY <1>2, <1>3 DEF Nested
<1>5. TypeOK'
  BY <1>1, <1>3 DEF CallInv, TypeOK
<1>6. ProbingInv' /\ NamesInv' /\ NoRetryAfterAnswer'
  BY <1>1, <1>3 DEF CallInv, ProbingInv, NamesInv, NoRetryAfterAnswer
<1>7. request'[1].step = "probing"
  BY <1>1, <1>3 DEF MayAsk
<1>8. ForwardInv' /\ FailureIsExhaustive'
  BY <1>7 DEF ForwardInv, FailureIsExhaustive
<1> QED BY <1>4, <1>5, <1>6, <1>8 DEF CallInv

(* The agent has its answer.                                                   *)
LEMMA EndStep ==
    ASSUME CallInv, request' = [request EXCEPT ![1] = Idle], instances' = instances, made' = made,
           listed' \subseteq [name : Names, service : ServiceIds],
           \A l \in listed' : \E t \in Tools : l.name = FullName(l.service, t),
           attempts' \in Seq(Attempt), NoRetryAfterAnswer',
           \A k \in DOMAIN attempts' :
              attempts'[k].name = FullName(attempts'[k].service, attempts'[k].tool)
    PROVE  CallInv'
<1>1. request'[1] = Idle /\ request'[2] = request[2] /\ request' \in [Depths -> Request]
  BY IdleType, FirstReplaced DEF CallInv
<1>2. TypeOK'
  BY <1>1 DEF CallInv, TypeOK
<1>3. Nested' /\ ProbingInv' /\ ForwardInv' /\ FailureIsExhaustive'
  BY <1>1, IdleType DEF CallInv, Nested, ProbingInv, ForwardInv, FailureIsExhaustive
<1>4. NamesInv'
  BY <1>1, IdleType DEF NamesInv
<1> QED BY <1>2, <1>3, <1>4 DEF CallInv

LEMMA ListToolsStep ==
    ASSUME CallInv, ListTools
    PROVE  CallInv'
<1>1. /\ listed' = {[name |-> t.name, service |-> t.service] : t \in Served(request[1])}
      /\ request' = [request EXCEPT ![1] = Idle]
      /\ UNCHANGED <<instances, attempts, made>>
  BY DEF ListTools
<1>2. Served(request[1]) \subseteq Exposed(request[1])
  BY DEF Served
<1>3. ASSUME NEW l \in listed'
      PROVE  /\ l \in [name : Names, service : ServiceIds]
             /\ \E t \in Tools : l.name = FullName(l.service, t)
  <2>1. PICK e \in Served(request[1]) : l = [name |-> e.name, service |-> e.service]
    BY <1>1
  <2>2. /\ e.service \in ServiceIds /\ e.upstream \in Tools /\ e.name \in Names
        /\ e.name = FullName(e.service, e.upstream)
    BY <1>2, <2>1, ExposedType
  <2>3. l.name = e.name /\ l.service = e.service
    BY <2>1
  <2> QED BY <2>1, <2>2, <2>3
<1>4. /\ attempts' \in Seq(Attempt) /\ NoRetryAfterAnswer'
      /\ \A k \in DOMAIN attempts' :
            attempts'[k].name = FullName(attempts'[k].service, attempts'[k].tool)
  BY <1>1 DEF CallInv, TypeOK, NoRetryAfterAnswer, NamesInv
<1> QED BY <1>1, <1>3, <1>4, EndStep

LEMMA UnknownToolStep ==
    ASSUME CallInv, UnknownTool
    PROVE  CallInv'
<1>1. request' = [request EXCEPT ![1] = Idle] /\ UNCHANGED <<instances, listed, attempts, made>>
  BY DEF UnknownTool
<1>2. /\ attempts' \in Seq(Attempt) /\ NoRetryAfterAnswer'
      /\ \A k \in DOMAIN attempts' :
            attempts'[k].name = FullName(attempts'[k].service, attempts'[k].tool)
      /\ listed' \subseteq [name : Names, service : ServiceIds]
      /\ \A l \in listed' : \E t \in Tools : l.name = FullName(l.service, t)
  BY <1>1 DEF CallInv, TypeOK, NoRetryAfterAnswer, NamesInv
<1> QED BY <1>1, <1>2, EndStep

LEMMA StartForwardStep ==
    ASSUME CallInv, StartForward
    PROVE  CallInv'
<1>1. PICK t \in Served(request[1]) :
         /\ t.name = request[1].want
         /\ request' = [request EXCEPT ![1] =
               [step |-> "forwarding", service |-> t.service, want |-> request[1].want,
                upstream |-> t.upstream, endpoints |-> request[1].endpoints[t.service],
                urls |-> HitFirst(request[1].endpoints[t.service], request[1].hit[t.service]),
                expired |-> FALSE]]
  BY DEF StartForward
<1>2. request[1].step = "probing" /\ UNCHANGED <<instances, listed, attempts, made>>
  BY DEF StartForward
<1>3. /\ t.service \in ServiceIds /\ t.upstream \in Tools /\ t.name \in Names
      /\ t.name = FullName(t.service, t.upstream) /\ request[1].hit[t.service] # ""
  BY ExposedType DEF Served
<1> DEFINE all == request[1].endpoints[t.service]
           urls == HitFirst(all, request[1].hit[t.service])
           r == [step |-> "forwarding", service |-> t.service, want |-> request[1].want,
                 upstream |-> t.upstream, endpoints |-> all, urls |-> urls, expired |-> FALSE]
<1>4. request[1] \in ProbingRequest
  BY <1>2, RequestFields DEF CallInv, TypeOK, Depths
<1>5. all \in Seq(Urls) /\ Distinct(all) /\ request[1].hit[t.service] \in Range(all)
  BY <1>2, <1>3, <1>4 DEF CallInv, ProbingInv, ProbingRequest
<1> HIDE DEF all
<1>6. urls \in Seq(Urls) /\ Distinct(urls) /\ Range(urls) = Range(all)
  BY <1>5, HitFirstMeans
<1> HIDE DEF urls
<1>7. r \in Request
  BY <1>1, <1>3, <1>5, <1>6, RequestBySteps DEF ForwardingRequest
<1>8. /\ r.step = "forwarding" /\ r.endpoints = all /\ r.urls = urls /\ r.expired = FALSE
      /\ r.want = FullName(r.service, r.upstream)
  BY <1>1, <1>3
<1>9. request' = [request EXCEPT ![1] = r]
  BY <1>1 DEF all, urls
<1> HIDE DEF r
<1>10. request'[1] = r /\ request'[2] = request[2] /\ request' \in [Depths -> Request]
  BY <1>7, <1>9, FirstReplaced DEF CallInv
<1>11. attempts' = <<>> /\ DOMAIN attempts' = {}
  BY <1>2, NothingTried DEF CallInv, ProbingInv
<1>12. ForwardInv'
  <2>1. Tried' = {} /\ Unanswered' /\ ~ Hung'
    BY <1>11 DEF Tried, Unanswered, Hung
  <2> QED BY <1>6, <1>8, <1>10, <2>1 DEF ForwardInv
<1>13. TypeOK' /\ Nested' /\ ProbingInv' /\ FailureIsExhaustive' /\ NamesInv' /\ NoRetryAfterAnswer'
  BY <1>2, <1>8, <1>10
     DEF CallInv, TypeOK, Nested, ProbingInv, FailureIsExhaustive, NamesInv, NoRetryAfterAnswer
<1> QED BY <1>12, <1>13 DEF CallInv

(* One more endpoint is tried: one not tried yet, and nothing answered before. *)
LEMMA TryMeans ==
    ASSUME CallInv, NEW result \in {"refused", "hung", "lost", "answered"}, Try(result)
    PROVE  /\ request[1].step = "forwarding" /\ request[1].urls # <<>>
           /\ request[1] \in ForwardingRequest
           /\ attempts' \in Seq(Attempt) /\ NoRetryAfterAnswer'
           /\ \A k \in DOMAIN attempts' :
                 attempts'[k].name = FullName(attempts'[k].service, attempts'[k].tool)
           /\ Tried' = Tried \union {Head(request[1].urls)}
           /\ Unanswered' <=> result # "answered"
           /\ Hung' <=> Hung \/ result = "hung"
           /\ UNCHANGED <<instances, listed, made>>
<1> DEFINE url == Head(request[1].urls)
           new == [url |-> url, service |-> request[1].service, tool |-> request[1].upstream,
                   name |-> request[1].want, result |-> result]
<1>1. /\ request[1].step = "forwarding" /\ request[1].urls # <<>>
      /\ attempts' = Append(attempts, new) /\ UNCHANGED <<instances, listed, made>>
  BY DEF Try, Forwarding
<1>2. request[1] \in ForwardingRequest
  BY <1>1, RequestFields DEF CallInv, TypeOK, Depths
<1>3. request[1].urls \in Seq(Urls)
  BY <1>2 DEF ForwardingRequest
<1>4. url \in Urls /\ url \in Range(request[1].urls)
  BY <1>1, <1>3, TailMeans
<1> HIDE DEF url
<1>5. new \in Attempt
  BY <1>2, <1>4 DEF ForwardingRequest, Attempt
<1>6. /\ new.url = url /\ new.result = result
      /\ new.name = FullName(new.service, new.tool)
  BY <1>1 DEF CallInv, NamesInv
<1> HIDE DEF new
<1>7. attempts \in Seq(Attempt)
  BY DEF CallInv, TypeOK
<1>8. /\ attempts' \in Seq(Attempt) /\ Len(attempts) \in Nat
      /\ DOMAIN attempts = 1 .. Len(attempts) /\ DOMAIN attempts' = 1 .. Len(attempts) + 1
      /\ \A k \in 1 .. Len(attempts) : attempts'[k] = attempts[k]
      /\ attempts'[Len(attempts) + 1] = new
  BY <1>1, <1>5, <1>7, AppendMeans
<1>9. /\ \A k \in DOMAIN attempts' : k \in DOMAIN attempts \/ k = Len(attempts) + 1
      /\ DOMAIN attempts \subseteq DOMAIN attempts' /\ Len(attempts) + 1 \in DOMAIN attempts'
      /\ Len(attempts) + 1 \notin DOMAIN attempts
  BY <1>8
<1>10. /\ Unanswered /\ url \notin Tried
       /\ \A k \in DOMAIN attempts : attempts[k].url # url /\ attempts[k].result # "answered"
  BY <1>1, <1>4 DEF CallInv, ForwardInv, Tried, Unanswered
<1>11. NoRetryAfterAnswer'
  <2>1. ASSUME NEW j \in DOMAIN attempts', NEW k \in DOMAIN attempts', j < k
        PROVE  attempts'[j].result # "answered" /\ attempts'[j].url # attempts'[k].url
    <3>1. j \in DOMAIN attempts
      BY <1>8, <2>1
    <3>2. attempts'[j] = attempts[j]
      BY <1>8, <3>1
    <3>3. CASE k \in DOMAIN attempts
      BY <1>8, <2>1, <3>1, <3>2, <3>3 DEF CallInv, NoRetryAfterAnswer
    <3>4. CASE k = Len(attempts) + 1
      BY <1>6, <1>8, <1>10, <3>1, <3>2, <3>4
    <3> QED BY <1>9, <3>3, <3>4
  <2> QED BY <2>1 DEF NoRetryAfterAnswer
<1>12. \A k \in DOMAIN attempts' :
          attempts'[k].name = FullName(attempts'[k].service, attempts'[k].tool)
  BY <1>6, <1>8, <1>9 DEF CallInv, NamesInv
<1>13. Tried' = Tried \union {url}
  <2>1. ASSUME NEW u \in Tried' PROVE u \in Tried \union {url}
    BY <1>6, <1>8, <1>9 DEF Tried
  <2>2. Tried \subseteq Tried'
    BY <1>8, <1>9 DEF Tried
  <2>3. url \in Tried'
    BY <1>6, <1>8, <1>9 DEF Tried
  <2> QED BY <2>1, <2>2, <2>3
<1>14. Unanswered' <=> result # "answered"
  BY <1>6, <1>8, <1>9, <1>10 DEF Unanswered
<1>15. Hung' <=> Hung \/ result = "hung"
  BY <1>6, <1>8, <1>9 DEF Hung
<1> QED BY <1>1, <1>2, <1>8, <1>11, <1>12, <1>13, <1>14, <1>15 DEF url

(* The next endpoint is up.                                                    *)
LEMMA NextEndpoint ==
    ASSUME CallInv, NEW result \in {"refused", "hung", "lost"}, Try(result),
           NEW expired \in BOOLEAN,
           expired <=> request[1].expired \/ result = "hung",
           request' = [request EXCEPT ![1] = [request[1] EXCEPT !.urls = Tail(@), !.expired = expired]]
    PROVE  CallInv'
<1> DEFINE url == Head(request[1].urls)
           rest == Tail(request[1].urls)
           r == [request[1] EXCEPT !.urls = Tail(@), !.expired = expired]
<1>1. /\ request[1].step = "forwarding" /\ request[1].urls # <<>>
      /\ request[1] \in ForwardingRequest
      /\ attempts' \in Seq(Attempt) /\ NoRetryAfterAnswer'
      /\ \A k \in DOMAIN attempts' :
            attempts'[k].name = FullName(attempts'[k].service, attempts'[k].tool)
      /\ Tried' = Tried \union {url} /\ Unanswered'
      /\ Hung' <=> Hung \/ result = "hung"
      /\ UNCHANGED <<instances, listed, made>>
  BY TryMeans
<1>2. request[1].urls \in Seq(Urls)
  BY <1>1 DEF ForwardingRequest
<1>3. /\ rest \in Seq(Urls) /\ Range(request[1].urls) = {url} \union Range(rest)
      /\ Distinct(request[1].urls) => Distinct(rest) /\ url \notin Range(rest)
  BY <1>1, <1>2, TailMeans
<1>4. r \in Request
  BY <1>1, <1>3, RequestBySteps DEF ForwardingRequest
<1>5. /\ r.step = "forwarding" /\ r.urls = rest /\ r.expired = expired
      /\ r.endpoints = request[1].endpoints /\ r.service = request[1].service
      /\ r.upstream = request[1].upstream /\ r.want = request[1].want
  BY <1>1 DEF ForwardingRequest
<1> HIDE DEF r, url, rest
<1>6. request'[1] = r /\ request'[2] = request[2] /\ request' \in [Depths -> Request]
  BY <1>4, FirstReplaced DEF CallInv, r
<1>7. ForwardInv'
  <2>1. /\ Distinct(request[1].urls)
        /\ Tried \intersect Range(request[1].urls) = {}
        /\ Range(request[1].endpoints) = Tried \union Range(request[1].urls)
        /\ request[1].expired <=> Hung
    BY <1>1 DEF CallInv, ForwardInv
  <2>2. /\ Tried' \intersect Range(rest) = {}
        /\ Range(request[1].endpoints) = Tried' \union Range(rest)
        /\ expired <=> Hung'
    BY <1>1, <1>3, <2>1
  <2> QED BY <1>1, <1>3, <1>5, <1>6, <2>1, <2>2 DEF ForwardInv
<1>8. TypeOK' /\ Nested' /\ ProbingInv' /\ FailureIsExhaustive'
  BY <1>1, <1>5, <1>6 DEF CallInv, TypeOK, Nested, ProbingInv, FailureIsExhaustive
<1>9. NamesInv'
  BY <1>1, <1>5, <1>6 DEF CallInv, NamesInv
<1> QED BY <1>1, <1>7, <1>8, <1>9 DEF CallInv

LEMMA ConnectFailsStep ==
    ASSUME CallInv, ConnectFails \/ CallIsLost
    PROVE  CallInv'
<1>1. PICK result \in {"refused", "lost"} : Try(result)
  BY DEF ConnectFails, CallIsLost
<1>2. request[1] \in ForwardingRequest
  BY <1>1, TryMeans
<1>3. request' = [request EXCEPT ![1] = [request[1] EXCEPT !.urls = Tail(@)]]
  BY DEF ConnectFails, CallIsLost
<1>4. /\ request[1].expired \in BOOLEAN
      /\ [request[1] EXCEPT !.urls = Tail(@)]
         = [request[1] EXCEPT !.urls = Tail(@), !.expired = request[1].expired]
  BY <1>2 DEF ForwardingRequest
<1> QED BY <1>1, <1>3, <1>4, NextEndpoint

LEMMA CallHangsStep ==
    ASSUME CallInv, CallHangs
    PROVE  CallInv'
<1>1. /\ Try("hung")
      /\ request' = [request EXCEPT ![1] = [request[1] EXCEPT !.urls = Tail(@), !.expired = TRUE]]
  BY DEF CallHangs, CallInv, TypeOK, Depths
<1> QED BY <1>1, NextEndpoint

LEMMA CallAnswersStep ==
    ASSUME CallInv, CallAnswers
    PROVE  CallInv'
<1>1. Try("answered") /\ request' = [request EXCEPT ![1] = Idle]
  BY DEF CallAnswers
<1>2. /\ attempts' \in Seq(Attempt) /\ NoRetryAfterAnswer'
      /\ \A k \in DOMAIN attempts' :
            attempts'[k].name = FullName(attempts'[k].service, attempts'[k].tool)
      /\ UNCHANGED <<instances, listed, made>>
  BY <1>1, TryMeans
<1>3. /\ listed' \subseteq [name : Names, service : ServiceIds]
      /\ \A l \in listed' : \E t \in Tools : l.name = FullName(l.service, t)
  BY <1>2 DEF CallInv, TypeOK, NamesInv
<1> QED BY <1>1, <1>2, <1>3, EndStep

LEMMA CallFailsStep ==
    ASSUME CallInv, CallFails
    PROVE  CallInv'
<1> DEFINE r == [step |-> "failed", endpoints |-> request[1].endpoints,
                 expired |-> request[1].expired]
<1>1. /\ request[1].step = "forwarding" /\ request[1].urls = <<>>
      /\ request' = [request EXCEPT ![1] = r] /\ UNCHANGED <<instances, listed, attempts, made>>
  BY DEF CallFails
<1>2. request[1] \in ForwardingRequest
  BY <1>1, RequestFields DEF CallInv, TypeOK, Depths
<1>3. r \in Request
  BY <1>2, RequestBySteps DEF ForwardingRequest, FailedRequest
<1>4. /\ r.step = "failed" /\ r.endpoints = request[1].endpoints
      /\ r.expired = request[1].expired
  OBVIOUS
<1> HIDE DEF r
<1>5. request'[1] = r /\ request'[2] = request[2] /\ request' \in [Depths -> Request]
  BY <1>1, <1>3, FirstReplaced DEF CallInv
<1>6. Range(request[1].urls) = {}
  BY <1>1, NothingTried DEF Range
<1>7. Range(request[1].endpoints) = Tried /\ (request[1].expired <=> Hung)
  BY <1>1, <1>6 DEF CallInv, ForwardInv
<1>8. FailureIsExhaustive'
  BY <1>1, <1>4, <1>5, <1>7 DEF FailureIsExhaustive, Tried, Hung
<1>9. TypeOK' /\ Nested' /\ ProbingInv' /\ ForwardInv' /\ NamesInv' /\ NoRetryAfterAnswer'
  BY <1>1, <1>4, <1>5
     DEF CallInv, TypeOK, Nested, ProbingInv, ForwardInv, NamesInv, NoRetryAfterAnswer
<1> QED BY <1>8, <1>9 DEF CallInv

LEMMA CallInit == Init => CallInv
<1> SUFFICES ASSUME Init PROVE CallInv
  OBVIOUS
<1>1. /\ instances = {} /\ listed = {} /\ attempts = <<>> /\ made = 0
      /\ request = [d \in Depths |-> Idle]
  BY DEF Init
<1>2. request[1] = Idle /\ request[2] = Idle /\ request \in [Depths -> Request]
  BY <1>1, IdleType DEF Depths
<1>3. DOMAIN attempts = {}
  BY <1>1, NothingTried
<1>4. TypeOK
  BY <1>1, <1>2, BoundAssumption DEF TypeOK
<1>5. Nested /\ ProbingInv /\ ForwardInv /\ FailureIsExhaustive
  BY <1>2, IdleType DEF Nested, ProbingInv, ForwardInv, FailureIsExhaustive
<1>6. NamesInv /\ NoRetryAfterAnswer
  BY <1>1, <1>2, <1>3, IdleType DEF NamesInv, NoRetryAfterAnswer
<1> QED BY <1>4, <1>5, <1>6 DEF CallInv

LEMMA CallStep == CallInv /\ [Next]_vars => CallInv'
<1> SUFFICES ASSUME CallInv, [Next]_vars PROVE CallInv'
  OBVIOUS
<1>1. ASSUME NEW k \in DOMAIN Rows, Register(k) \/ Deregister(k) PROVE CallInv'
  BY <1>1, CatalogStep
<1>2. ASSUME NEW host \in Hosts, NEW want \in Wants, Ask(host, want) PROVE CallInv'
  BY <1>2, AskStep
<1>3. ASSUME NEW d \in Depths, ReadCatalog(d) PROVE CallInv'
  BY <1>3, ReadCatalogStep
<1>4. ASSUME NEW d \in Depths, NEW s \in ServiceIds, ProbeFails(d, s) \/ ProbeAnswers(d, s)
      PROVE  CallInv'
  <2>1. d = 1
    BY <1>4, NestedOnly DEF CallInv, ProbeFails, ProbeAnswers, MayAsk, Depths
  <2> QED BY <1>4, <2>1, ProbeFailsStep, ProbeAnswersStep
<1>5. ASSUME NEW s \in ServiceIds, ProbeReachesRegistry(s) \/ NestedAnswers(s) PROVE CallInv'
  BY <1>5, ProbeReachesRegistryStep, NestedAnswersStep
<1>6. CASE ListTools \/ UnknownTool \/ StartForward
  BY <1>6, ListToolsStep, UnknownToolStep, StartForwardStep
<1>7. CASE ConnectFails \/ CallAnswers \/ CallIsLost \/ CallHangs \/ CallFails
  BY <1>7, ConnectFailsStep, CallAnswersStep, CallHangsStep, CallFailsStep
<1>8. CASE UNCHANGED vars
  BY <1>8 DEF vars, CallInv, TypeOK, Nested, ProbingInv, ForwardInv, NamesInv,
              NoRetryAfterAnswer, FailureIsExhaustive, Tried, Unanswered, Hung
<1> QED BY <1>1, <1>2, <1>3, <1>4, <1>5, <1>6, <1>7, <1>8 DEF Next, HandlerStep

LEMMA CallIsInvariant == Spec => []CallInv
BY CallInit, CallStep, PTL DEF Spec

-----------------------------------------------------------------------------
(* The theorems *)

(* The rows, the requests and what was tried are what they can be.             *)
THEOREM TypeCorrect == Spec => []TypeOK
<1>1. CallInv => TypeOK
  BY DEF CallInv
<1> QED BY <1>1, CallIsInvariant, PTL

(* A request the registry sends to itself carries the hop header, so that the  *)
(* registry asked by itself asks nobody, whatever addresses are registered.    *)
THEOREM RegistryAsksItselfOnce == Spec => []FanOutIsOneDeep
<1>1. CallInv => FanOutIsOneDeep
  BY NestedOnly DEF CallInv, FanOutIsOneDeep
<1> QED BY <1>1, CallIsInvariant, PTL

(* forward tries an endpoint once, and none after one that answered.           *)
THEOREM AnsweredIsNotRetried == Spec => []NoRetryAfterAnswer
<1>1. CallInv => NoRetryAfterAnswer
  BY DEF CallInv
<1> QED BY <1>1, CallIsInvariant, PTL

(* A call fails when every address the catalog had for the service was tried.  *)
THEOREM EveryEndpointIsTried == Spec => []FailureIsExhaustive
<1>1. CallInv => FailureIsExhaustive
  BY DEF CallInv
<1> QED BY <1>1, CallIsInvariant, PTL

(* A call goes to the service whose tool was shown, unless its name is that of *)
(* tools of two services.                                                      *)
THEOREM CallsAreRouted == Spec => []RoutedAsListed
<1>1. CallInv => RoutedAsListed
  <2> SUFFICES ASSUME CallInv, NEW k \in DOMAIN attempts, NEW l \in listed,
                      attempts[k].name = l.name, attempts[k].service # l.service
               PROVE  Ambiguous(l.name)
    BY DEF RoutedAsListed
  <2>1. attempts[k] \in Attempt
    BY LenProperties, ElementOfSeq DEF CallInv, TypeOK
  <2>2. attempts[k].name = FullName(attempts[k].service, attempts[k].tool)
    BY DEF CallInv, NamesInv
  <2>3. PICK t \in Tools : l.name = FullName(l.service, t)
    BY DEF CallInv, NamesInv
  <2>4. l.service \in ServiceIds
    BY DEF CallInv, TypeOK
  <2> QED BY <2>1, <2>2, <2>3, <2>4, AttemptFields DEF Ambiguous
<1> QED BY <1>1, CallIsInvariant, PTL

=============================================================================
