------------------------------ MODULE Dispatch ------------------------------
(***************************************************************************)
(* How an application finds the route of a request: Oger.handle, the       *)
(* closure that compileMonolithicFetch makes for it, and the table that    *)
(* compileRoutes makes for Bun; packages/core/src/compiler/routes.ts and   *)
(* oger.ts.                                                                *)
(*                                                                         *)
(* Routes may be registered between requests.  compile() makes one closure *)
(* with static tables, a Router with its result cache, one cache of full   *)
(* URLs per method for static routes and one for dynamic ones, and the     *)
(* offset at which the first URL it saw had its path.  Everything here is  *)
(* synchronous: a request is one step.                                     *)
(*                                                                         *)
(* A path is [segs, slash, lead]: its segments, does it end with a slash,  *)
(* does it begin with one.  Only a path that was cut at a wrong offset     *)
(* does not.  Segments are one character long, so that such a cut falls on *)
(* a segment or on a slash.  Queries, part of a URL as a key, are left out.*)
(***************************************************************************)
EXTENDS Router, Integers, FiniteSets

CONSTANTS
    Definitions, \* the routes that may be registered
    Urls,        \* [origin: its length, segs, slash]
    Foreign,     \* the segment that a path begins with when it was cut in the host name
    MaxRoutes,   \* bound on registrations
    UrlCap,      \* 10000 in the code: entries of a URL cache
    RouterCap,   \* 2000 in the code: entries of the router's cache
    Null

\* What compileRoutes tells apart in a route: a static GET that has one response, given
\* with it or seen in its handler (literal), any other with a response (constant), a GET
\* that branches on a header (branch), a POST that has a response and discards its body
\* (discard), and the rest.
Forms == {"literal", "constant", "branch", "discard", "plain"}
HasStaticResponse(route) == route.form \in {"literal", "constant", "discard"}
Cached == {"GET", "POST"} \cap Methods

ASSUME DispatchAssumption ==
    /\ "GET" \in Methods /\ "ALL" \notin Methods
    /\ \A d \in Definitions :
        /\ d.method \in Slots /\ d.segs \in Seq(STRING) /\ d.slash \in BOOLEAN /\ d.form \in Forms
        /\ d.form \in {"literal", "branch"} => d.method = "GET" /\ ~IsDynamic(d.segs)
        /\ d.form = "constant" => d.method # "GET" \/ IsDynamic(d.segs)
        /\ d.form = "discard" => d.method = "POST" /\ ~IsDynamic(d.segs)
    /\ \A u \in Urls : u.origin \in Nat \ {0} /\ u.segs \in Seq(STRING) /\ u.slash \in BOOLEAN
    /\ UrlCap \in Nat /\ RouterCap \in Nat /\ MaxRoutes \in Nat

\* No part of a pattern and no segment of a path has a slash, and a colon is not a star.
ASSUME SegmentAssumption ==
    /\ Star \notin Colon /\ "" \notin Colon
    /\ \A x \in Definitions \cup Urls : \A i \in DOMAIN x.segs : x.segs[i] \notin {ParamEdge, WildEdge}

VARIABLES
    routes,   \* app._routes: what was registered, in order
    compiled, \* app._compiled: Null or the closure
    reply     \* the last answer: what was asked, the route called (0: 404) and its params

vars == <<routes, compiled, reply>>

Unset == -1
NoEntries == <<>>

-----------------------------------------------------------------------------
(* The tables of a closure are functions of its routes. *)

\* staticGet, staticPost, staticExact: one key for each path as it was written, the
\* route written last is kept, and "ALL" was written under each method.
StaticRoute(rs, method, path) ==
    LET Written == {n \in DOMAIN rs : /\ ~IsDynamic(rs[n].segs)
                                      /\ path.lead
                                      /\ rs[n].segs = path.segs
                                      /\ rs[n].slash = path.slash
                                      /\ rs[n].method \in {method, "ALL"}}
    IN IF Written = {} THEN 0 ELSE CHOOSE n \in Written : \A k \in Written : k <= n

\* buildRouteIndex.
RouterOf(rs) ==
    LET built[n \in 0..Len(rs)] ==
            IF n = 0 THEN NewRouter ELSE Add(built[n - 1], rs[n].method, rs[n].segs, n)
    IN built[Len(rs)]

\* Where the path of url is taken from, and what is there.
Chars(u) == IF u.segs = <<>> THEN 1 ELSE 2 * Len(u.segs) + (IF u.slash THEN 1 ELSE 0)
Pathname(start, u) ==
    LET cut == start - u.origin
    IN IF cut < 0
       THEN [segs |-> <<Foreign>> \o u.segs, slash |-> u.slash \/ u.segs = <<>>, lead |-> FALSE]
       ELSE IF Chars(u) - cut <= 1
       THEN [segs |-> <<>>, slash |-> FALSE, lead |-> TRUE]
       ELSE [segs |-> SubSeq(u.segs, (cut \div 2) + 1, Len(u.segs)),
             slash |-> u.slash,
             lead |-> cut % 2 = 0]

\* compile(), for the routes rs.
Closure(rs) ==
    [routes |-> rs,
     router |-> RouterOf(rs),
     prefixLength |-> Unset,
     full |-> [m \in Cached |-> NoEntries],     \* fullUrlCacheGet, fullUrlCachePost
     dynamic |-> [m \in Cached |-> NoEntries],  \* dynamicUrlCacheGet, dynamicUrlCachePost
     found |-> NoEntries]                       \* the router's cache

\* What is answered without caches to a request whose path was taken to be path.
ResolveWith(router, rs, method, path) ==
    IF StaticRoute(rs, method, path) # 0
    THEN Hit(StaticRoute(rs, method, path), <<>>)
    ELSE Find(router, method, path.segs)
Resolve(rs, method, path) == ResolveWith(RouterOf(rs), rs, method, path)

-----------------------------------------------------------------------------
(* bunRoutes, the table that Bun.serve matches itself in "routes" mode: for *)
(* each path one response, one function, or one function for each method.   *)

Serves(route) == IF route.method = "ALL" THEN Methods ELSE {route.method}

Entry(kind, at) == [kind |-> kind, at |-> at]

\* A function is taken for that of GET; a response is dropped.
Previous(entry) ==
    IF entry.kind = "methods" THEN entry.at
    ELSE IF entry.kind = "function" THEN [m \in {"GET"} |-> entry.at[CHOOSE k \in DOMAIN entry.at : TRUE]]
    ELSE NoEntries

\* Slip: a method keeps the handler it was given first.
MergeFirst(entry, route, n) ==
    LET prev == Previous(entry)
    IN Entry("methods", [m \in DOMAIN prev \cup Serves(route) |-> IF m \in DOMAIN prev THEN prev[m] ELSE n])

Merge(entry, route, n) ==
    LET prev == Previous(entry)
    IN Entry("methods", [m \in DOMAIN prev \cup Serves(route) |-> IF m \in Serves(route) THEN n ELSE prev[m]])

BunEntry(table, route, n) ==
    LET key == [segs |-> route.segs, slash |-> route.slash]
        alone == Put(NoEntries, route.method, n)
        entry == IF route.form = "literal" THEN Entry("response", alone)
                 ELSE IF route.form \in {"branch", "discard"} THEN Entry("function", alone)
                 ELSE IF key \in DOMAIN table THEN Merge(table[key], route, n)
                 ELSE IF route.method = "GET" THEN Entry("function", alone)
                 ELSE Merge(Entry("methods", NoEntries), route, n)
    IN Put(table, key, entry)

BunRoutes(rs) ==
    LET table[n \in 0..Len(rs)] ==
            IF n = 0 THEN NoEntries ELSE BunEntry(table[n - 1], rs[n], n)
    IN table[Len(rs)]

-----------------------------------------------------------------------------
(* Requests.  c is the closure that answers, made now if there is none. *)

Current == IF compiled = Null THEN Closure(routes) ELSE compiled

Start(c, u) == IF c.prefixLength = Unset THEN u.origin ELSE c.prefixLength

\* A request of the Node server brings its path along and leaves the offset alone.
PathOf(c, u, onNode) == IF onNode THEN Pathname(u.origin, u) ELSE Pathname(Start(c, u), u)
Opened(c, u, onNode) == IF onNode THEN c ELSE [c EXCEPT !.prefixLength = Start(c, u)]

Keep(cache, key, value, cap) ==
    IF Cardinality(DOMAIN cache) < cap THEN Put(cache, key, value) ELSE cache

\* The URL caches, kept for GET and POST.
KeepFull(c, m, u, h) ==
    IF m \in Cached THEN [c EXCEPT !.full[m] = Keep(@, u, h, UrlCap)] ELSE c
\* Slip: a dynamic route is kept like a static one, without its parameters.
KeepWithoutParams(c, m, u, hit) ==
    IF m \in Cached THEN [c EXCEPT !.full[m] = Keep(@, u, hit.handler, UrlCap)] ELSE c

KeepDynamic(c, m, u, hit) ==
    IF m \in Cached /\ ~HasStaticResponse(c.routes[hit.handler])
    THEN [c EXCEPT !.dynamic[m] = Keep(@, u, hit, UrlCap)]
    ELSE c

\* Router.find: its cache is asked first and keeps misses too.
Route(c, m, path) ==
    IF <<m, path>> \in DOMAIN c.found
    THEN c.found[<<m, path>>]
    ELSE Find(c.router, m, path.segs)
\* Slip: the router's cache is keyed by the path alone.
KeepUnderGet(c, m, path) == [c EXCEPT !.found = Keep(@, <<"GET", path>>, Route(c, m, path), RouterCap)]

KeepFound(c, m, path) ==
    IF <<m, path>> \in DOMAIN c.found
    THEN c
    ELSE [c EXCEPT !.found = Keep(@, <<m, path>>, Route(c, m, path), RouterCap)]

Answer(m, u, hit) ==
    reply' = [method |-> m, url |-> u, handler |-> hit.handler, params |-> hit.params]

IsFull(c, m, u) == m \in Cached /\ u \in DOMAIN c.full[m]
IsKnown(c, m, u) == IsFull(c, m, u) \/ (m \in Cached /\ u \in DOMAIN c.dynamic[m])

\* A URL seen before that has a static route.
FetchFull(m, u) ==
    LET c == Current
    IN /\ IsFull(c, m, u)
       /\ compiled' = c
       /\ Answer(m, u, Hit(c.full[m][u], <<>>))
       /\ UNCHANGED routes

\* A URL seen before that has a dynamic route.
FetchDynamic(m, u) ==
    LET c == Current
    IN /\ IsKnown(c, m, u) /\ ~IsFull(c, m, u)
       /\ compiled' = c
       /\ Answer(m, u, c.dynamic[m][u])
       /\ UNCHANGED routes

\* A static route.
FetchStatic(m, u, onNode) ==
    LET c == Current
        h == StaticRoute(c.routes, m, PathOf(c, u, onNode))
    IN /\ ~IsKnown(c, m, u)
       /\ h # 0
       /\ compiled' = KeepFull(Opened(c, u, onNode), m, u, h)
       /\ Answer(m, u, Hit(h, <<>>))
       /\ UNCHANGED routes

\* The router knows.
FetchFound(m, u, onNode) ==
    LET c == Current
        path == PathOf(c, u, onNode)
        hit == Route(c, m, path)
    IN /\ ~IsKnown(c, m, u)
       /\ StaticRoute(c.routes, m, path) = 0
       /\ hit.handler # 0
       /\ compiled' = KeepDynamic(KeepFound(Opened(c, u, onNode), m, path), m, u, hit)
       /\ Answer(m, u, hit)
       /\ UNCHANGED routes

\* Nobody knows: 404.
NotFound(m, u, onNode) ==
    LET c == Current
        path == PathOf(c, u, onNode)
    IN /\ ~IsKnown(c, m, u)
       /\ StaticRoute(c.routes, m, path) = 0
       /\ Route(c, m, path).handler = 0
       /\ compiled' = KeepFound(Opened(c, u, onNode), m, path)
       /\ Answer(m, u, Miss)
       /\ UNCHANGED routes

-----------------------------------------------------------------------------
(* The application. *)

\* Slip: the compiled application is kept.
RegisterQuietly(d) ==
    /\ Len(routes) < MaxRoutes
    /\ routes' = Append(routes, d)
    /\ UNCHANGED <<compiled, reply>>

Register(d) ==
    /\ Len(routes) < MaxRoutes
    /\ routes' = Append(routes, d)
    /\ compiled' = Null
    /\ UNCHANGED reply

Compile ==
    /\ compiled' = Closure(routes)
    /\ UNCHANGED <<routes, reply>>

Init ==
    /\ routes = <<>>
    /\ compiled = Null
    /\ reply = Null

Fetch(m, u) ==
    \/ FetchFull(m, u) \/ FetchDynamic(m, u)
    \/ \E onNode \in BOOLEAN :
        FetchStatic(m, u, onNode) \/ FetchFound(m, u, onNode) \/ NotFound(m, u, onNode)

Next ==
    \/ \E d \in Definitions : Register(d)
    \/ Compile
    \/ \E m \in Methods, u \in Urls : Fetch(m, u)

Spec == Init /\ [][Next]_vars

-----------------------------------------------------------------------------
(* Properties. *)

\* Where the path of u was cut for an answer of c: where u has it, as the Node server
\* does, or at the offset kept from the first URL, which is wrong for a host name of
\* another length.
Cuts(c, u) == {u.origin} \cup ({c.prefixLength} \ {Unset})
IsAnswer(c, rs, m, u, hit) ==
    \E start \in Cuts(c, u) : hit = ResolveWith(c.router, rs, m, Pathname(start, u))

\* What the caches of the closure c hold is what the tables say of the routes rs.
Coherent(c, rs) ==
    /\ c.routes = rs
    /\ c.router = RouterOf(rs)
    /\ \A m \in Cached :
        /\ \A u \in DOMAIN c.full[m] : IsAnswer(c, rs, m, u, Hit(c.full[m][u], <<>>))
        /\ \A u \in DOMAIN c.dynamic[m] : IsAnswer(c, rs, m, u, c.dynamic[m][u])
    /\ \A k \in DOMAIN c.found : c.found[k] = Find(c.router, k[1], k[2].segs)

\* No cache holds anything but what the tables say of the routes registered now: a
\* registration drops the closure with its caches, a cache that is full stays as it is,
\* and what was not found is remembered only by the router of the same closure.
CachesCoherent == compiled # Null => Coherent(compiled, routes)

\* Each request is answered the way the tables, built from the routes registered by
\* then, answer for the path that was cut from its URL: no cache shows, nor what was
\* registered or asked before.  Of earlier requests only the offset shows that the
\* closure keeps from its first URL.
CachesAreTransparent ==
    [][reply' # reply =>
        \E start \in Cuts(compiled', reply'.url) :
            LET answer == Resolve(routes, reply'.method, Pathname(start, reply'.url))
            IN reply'.handler = answer.handler /\ reply'.params = answer.params]_vars

\* The caches stop growing at their bounds, at any mix of hits and misses.
CachesBounded ==
    compiled # Null =>
        /\ \A m \in Cached :
            /\ Cardinality(DOMAIN compiled.full[m]) <= UrlCap
            /\ Cardinality(DOMAIN compiled.dynamic[m]) <= UrlCap
        /\ Cardinality(DOMAIN compiled.found) <= RouterCap

\* What a pattern says of a path, without tables, trie or caches.
Agrees(pattern, path, k) ==
    \A i \in 1..k : pattern[i] # Star /\ (pattern[i] \in Colon \/ pattern[i] = path[i])
Fits(pattern, path) ==
    \/ Len(pattern) = Len(path) /\ Agrees(pattern, path, Len(path))
    \/ /\ pattern # <<>> /\ pattern[Len(pattern)] = Star
       /\ Len(pattern) - 1 <= Len(path)
       /\ Agrees(pattern, path, Len(pattern) - 1)
Rank(part) == IF part = Star THEN 2 ELSE IF part \in Colon THEN 1 ELSE 0
MoreSpecific(p, q) ==
    \E i \in DOMAIN q :
        /\ \A j \in 1..(i - 1) : j \in DOMAIN p /\ Rank(p[j]) = Rank(q[j])
        /\ i \in DOMAIN p => Rank(p[i]) < Rank(q[i])
Candidates(m, u) ==
    {n \in DOMAIN routes : m \in Serves(routes[n]) /\ Fits(routes[n].segs, u.segs)}

\* The offset that is kept is that of u, or none is.
OwnOffset(c, u) == c.prefixLength \in {Unset, u.origin}

\* A request whose path is where the first URL had it gets 404 only if no registered
\* route fits its method and path, and otherwise a route that fits and than which no
\* other that fits is more specific: a literal before a parameter before a wildcard at
\* the first part where they differ, whichever table answers, in whatever order the
\* routes were registered, backtracking included.
BestRouteAnswers ==
    [][reply' # reply /\ OwnOffset(compiled', reply'.url) =>
        LET C == Candidates(reply'.method, reply'.url)
            h == reply'.handler
        IN IF h = 0 THEN C = {}
           ELSE h \in C /\ \A n \in C : ~MoreSpecific(routes[n].segs, routes[h].segs)]_vars

\* No two routes name the parameter of one node differently, and none uses a name twice.
NamesAgree ==
    /\ \A n, k \in DOMAIN routes : \A i \in DOMAIN routes[n].segs \cap DOMAIN routes[k].segs :
        LET p == routes[n].segs
            q == routes[k].segs
        IN NodeAt(p, i) = NodeAt(q, i) /\ p[i] \in Colon => p[i] = q[i]
    /\ \A n \in DOMAIN routes : \A i, j \in DOMAIN routes[n].segs :
        LET p == routes[n].segs IN i # j /\ p[i] \in Colon => p[i] # p[j]

ParamsOf(pattern, path) ==
    [name \in {pattern[i] : i \in DOMAIN pattern} \cap (Colon \cup {Star}) |->
        LET i == CHOOSE k \in DOMAIN pattern : pattern[k] = name
        IN IF name = Star THEN SubSeq(path, i, Len(path)) ELSE <<path[i]>>]

ParamsSpellPath(r) ==
    r.handler # 0 => r.params = ParamsOf(routes[r.handler].segs, r.url.segs)

\* For such a request a handler gets the parameters its own pattern names, with the parts
\* of the path they stand for, from the trie or from a cache, as long as patterns that
\* share a node agree on its name.
ParamsSpellThePath ==
    [][reply' # reply /\ OwnOffset(compiled', reply'.url) /\ NamesAgree => ParamsSpellPath(reply')]_vars

\* Bun's table and the application's own dispatch send a static path to the same route,
\* for every method that a route of that path serves, if all routes of that path are of
\* the usual form.
Siblings(n) == {k \in DOMAIN routes : routes[k].segs = routes[n].segs /\ routes[k].slash = routes[n].slash}
Path(route) == [segs |-> route.segs, slash |-> route.slash, lead |-> TRUE]
DispatchesAgree ==
    LET table == BunRoutes(routes) IN
    \A n \in DOMAIN routes :
        (\A k \in Siblings(n) : routes[k].form \in {"plain", "constant"}) =>
            LET entry == table[[segs |-> routes[n].segs, slash |-> routes[n].slash]]
            IN /\ DOMAIN entry.at = UNION {Serves(routes[k]) : k \in Siblings(n)}
               /\ ~IsDynamic(routes[n].segs) =>
                    \A m \in DOMAIN entry.at : entry.at[m] = StaticRoute(routes, m, Path(routes[n]))
=============================================================================
