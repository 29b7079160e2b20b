--------------------------- MODULE EndpointSearch ---------------------------
(***************************************************************************)
(* Which service provides this path?  The matcher of internal/store        *)
(* (match.go) and the search over the stored endpoints (search.go), with a *)
(* definition of what a match ought to be, which they are checked against. *)
(*                                                                         *)
(* A path is a sequence of segments.  A stored one has names and           *)
(* parameters, {x}; a query may be a path somebody calls, a stored path    *)
(* word for word, or a pattern, in which * is any segment, ? any of one    *)
(* character and ** any one or more segments.  Wildcards inside a segment  *)
(* are left out.                                                           *)
(***************************************************************************)
EXTENDS Integers, Sequences, SequencesExt, FiniteSetsExt

CONSTANTS
    SegmentNames,       \* names of segments
    ShortNames,         \* those of one character
    MaxCandidates,      \* maxSearchCandidates: rows the query of the table returns
    Paths, Queries,     \* bounds: stored paths and queries that are compared,
    Stores              \* and tables that are paged through

ASSUME NamesAssumption ==
    ShortNames \subseteq SegmentNames /\ SegmentNames \intersect {"{x}", "*", "?", "**"} = {}

Param == "{x}"
Wildcards == {Param, "*", "?", "**"}

-----------------------------------------------------------------------------
(* The matcher *)

\* strings.ContainsAny(query, "*?{")
IsPattern(q) == \E k \in DOMAIN q : q[k] \in Wildcards

HasParam(p) == \E k \in DOMAIN p : p[k] = Param

\* compileTemplate and its use: nothing matches a path without parameters.
MatchesTemplate(p, q) ==
    /\ HasParam(p)
    /\ Len(p) = Len(q) /\ \A k \in DOMAIN p : p[k] = Param \/ p[k] = q[k]

\* Each parameter becomes the one-character segment *.
Probe(p) == [k \in DOMAIN p |-> IF p[k] = Param THEN "*" ELSE p[k]]

\* A segment of the pattern other than ** against one of the probe.
Covers(w, segment) ==
    CASE w = "*" \/ w = Param -> TRUE
      [] w = "?" -> segment \in ShortNames \union {"*"}
      [] OTHER -> w = segment

\* The regular expression of compileGlob: fits[i, j] when the first i segments
\* of the pattern match the first j of the probe.
MatchesGlob(q, probe) ==
    LET fits[i \in 0..Len(q), j \in 0..Len(probe)] ==
            IF i = 0 \/ j = 0 THEN i = 0 /\ j = 0
            ELSE IF q[i] = "**" THEN fits[i - 1, j - 1] \/ fits[i, j - 1]
            ELSE Covers(q[i], probe[j]) /\ fits[i - 1, j - 1]
    IN fits[Len(q), Len(probe)]

\* endpointMatcher.match: the kind of match, "none" for no match.  Without a
\* mode: word for word, then a pattern as one and a path as a call.
Kind(mode, q, p) ==
    CASE q = <<>> -> "any"
      [] q # <<>> /\ mode = "exact" -> IF q = p THEN "exact" ELSE "none"
      [] q # <<>> /\ mode = "template" -> IF MatchesTemplate(p, q) THEN "template" ELSE "none"
      [] q # <<>> /\ mode = "glob" ->
            IF IsPattern(q) /\ MatchesGlob(q, Probe(p)) THEN "glob" ELSE "none"
      [] OTHER ->
            IF q = p THEN "exact"
            ELSE IF IsPattern(q) THEN IF MatchesGlob(q, Probe(p)) THEN "glob" ELSE "none"
            ELSE IF MatchesTemplate(p, q) THEN "template" ELSE "none"

-----------------------------------------------------------------------------
(* The search: store is the table in the order of the SQL query *)

Rank(kind) == CASE kind \in {"exact", "any"} -> 0 [] kind = "template" -> 1 [] OTHER -> 2

\* Characters of a path: a name counts for one, a parameter for three.
Length(p) == Len(p) + 2 * Cardinality({k \in DOMAIN p : p[k] = Param})

\* sortEndpointMatches, a stable sort: the kind, then the longer path.
Before(store, mode, q, i, j) ==
    LET ri == Rank(Kind(mode, q, store[i]))
        rj == Rank(Kind(mode, q, store[j]))
        li == Length(store[i])
        lj == Length(store[j]) IN
    ri < rj \/ (ri = rj /\ (li > lj \/ (li = lj /\ i < j)))

Candidates(store) == {k \in DOMAIN store : k <= MaxCandidates}

Matches(store, mode, q) ==
    SetToSortSeq({k \in Candidates(store) : Kind(mode, q, store[k]) # "none"},
                 LAMBDA i, j : Before(store, mode, q, i, j))

HasMore(end, total) == end < total

\* The page of SearchEndpoints: places in the store, and whether more follow.
SearchEndpoints(store, mode, q, offset, limit) ==
    LET found == Matches(store, mode, q)
        total == Len(found)
        start == Min({offset, total})
        end == Min({start + limit, total}) IN
    [matches |-> SubSeq(found, start + 1, end), hasMore |-> HasMore(end, total)]

-----------------------------------------------------------------------------
(* What a match ought to be *)

\* A call of path c, which has names only, goes to the endpoint stored as p.
Serves(p, c) == Len(p) = Len(c) /\ \A k \in DOMAIN p : p[k] \in {Param, c[k]}

Calls(p) == {c \in [DOMAIN p -> SegmentNames] : Serves(p, c)}

\* A pattern means a call whose segments, in order, are shared out over the
\* pattern's, one each but for **, which has one or more.
Shares(q, c) ==
    {share \in [DOMAIN c -> DOMAIN q] :
        /\ \A k \in DOMAIN q : \E m \in DOMAIN c : share[m] = k
        /\ \A m, n \in DOMAIN c : m < n =>
            share[m] < share[n] \/ (share[m] = share[n] /\ q[share[m]] = "**")
        /\ \A m \in DOMAIN c :
            \/ q[share[m]] \in {"**", "*", Param, c[m]}
            \/ q[share[m]] = "?" /\ c[m] \in ShortNames}

\* Some call of p is meant, by wildcards wherever p has a parameter.  A name in
\* such a place is not looked for: /v1/a/* does not find /v1/{id}/events.
Meant(q, p) ==
    \E c \in Calls(p) : \E share \in Shares(q, c) :
        \A m \in DOMAIN p : p[m] = Param => q[share[m]] \in Wildcards

-----------------------------------------------------------------------------
(* Properties *)

\* A path somebody calls finds exactly the endpoints that serve it; a pattern,
\* exactly those with a call it means (match.go:9-18).  What is found without
\* a mode is found, as the same kind, when the mode is forced.
SearchFindsProviders ==
    \A p \in Paths, q \in Queries :
        LET kind == Kind("", q, p) IN
        /\ kind # "none" <=> IF IsPattern(q) THEN Meant(q, p) ELSE Serves(p, q)
        /\ kind # "none" => Kind(kind, q, p) = kind

\* A client that asks page after page until hasMore is false has every match
\* once, and none comes after one of a later kind (search.go:117-181).
PagesCover ==
    \A store \in Stores, q \in {<<>>, <<"n", "n">>, <<"**">>}, limit \in 1..3 :
        LET page(k) == SearchEndpoints(store, "", q, k * limit, limit)
            final == CHOOSE k \in 0..4 : ~page(k).hasMore /\ \A m \in 0..(k - 1) : page(m).hasMore
            pages == FlattenSeq([k \in 1..(final + 1) |-> page(k - 1).matches])
            hits == {k \in DOMAIN store : Kind("", q, store[k]) # "none"} IN
        /\ \E k \in 0..4 : ~page(k).hasMore
        /\ ToSet(pages) = hits /\ Len(pages) = Cardinality(hits)
        /\ final > 0 => page(final).matches # <<>>
        /\ \A i, j \in DOMAIN pages : i < j =>
            Rank(Kind("", q, store[pages[i]])) <= Rank(Kind("", q, store[pages[j]]))
=============================================================================
