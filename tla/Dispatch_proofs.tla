-------------------------- MODULE Dispatch_proofs --------------------------
(***************************************************************************)
(* Theorems about Dispatch and Router, for all routes, URLs and bounds.    *)
(* The caches change nothing about what the tables answer, and stay        *)
(* bounded.  Of the tables: the one handed to Bun.serve agrees with the    *)
(* static tables, the best route of all that fit a request answers it, and *)
(* its handler gets the parameters that its own pattern names.             *)
(*                                                                         *)
(* add() and match() are recursive functions.  Each is first shown to be   *)
(* defined, then what is claimed of it is carried along the recursion: the *)
(* least n, or the least height above the end of the path, at which the    *)
(* claim fails, contradicts one step of the code.                          *)
(***************************************************************************)
EXTENDS Dispatch, FiniteSetTheorems, SequenceTheorems, WellFoundedInduction, TLAPS

LEMMA KeepHolds ==
    ASSUME NEW cache, NEW key, NEW value, NEW cap, NEW k, k \in DOMAIN Keep(cache, key, value, cap)
    PROVE  \/ k = key /\ Keep(cache, key, value, cap)[k] = value
           \/ k \in DOMAIN cache /\ Keep(cache, key, value, cap)[k] = cache[k]
  BY DEF Keep, Put

LEMMA FindMisses ==
    ASSUME NEW router, NEW m, NEW path, Find(router, m, path).handler = 0
    PROVE  Find(router, m, path) = Miss
  BY DEF Find, Match, OrElse, Miss, Hit

-----------------------------------------------------------------------------
(* The closure keeps its shape, so that EXCEPT changes what it names. *)

Shape(c) ==
    /\ c = [routes |-> c.routes, router |-> c.router, prefixLength |-> c.prefixLength,
            full |-> c.full, dynamic |-> c.dynamic, found |-> c.found]
    /\ c.full = [m \in Cached |-> c.full[m]]
    /\ c.dynamic = [m \in Cached |-> c.dynamic[m]]

LEMMA ClosureShape == ASSUME NEW rs PROVE Shape(Closure(rs))
  BY DEF Shape, Closure

LEMMA OpenedShape ==
    ASSUME NEW c, NEW u, NEW onNode, Shape(c)
    PROVE  /\ Shape(Opened(c, u, onNode))
           /\ Opened(c, u, onNode).routes = c.routes
           /\ Opened(c, u, onNode).router = c.router
           /\ Opened(c, u, onNode).full = c.full
           /\ Opened(c, u, onNode).dynamic = c.dynamic
           /\ Opened(c, u, onNode).found = c.found
           /\ Opened(c, u, onNode).prefixLength \in {c.prefixLength, Start(c, u)}
  BY DEF Shape, Opened

LEMMA KeepFoundShape ==
    ASSUME NEW c, NEW m, NEW path, Shape(c)
    PROVE  LET d == KeepFound(c, m, path)
           IN /\ Shape(d)
              /\ d.routes = c.routes /\ d.router = c.router /\ d.prefixLength = c.prefixLength
              /\ d.full = c.full /\ d.dynamic = c.dynamic
              /\ \/ d.found = c.found
                 \/ d.found = Keep(c.found, <<m, path>>, Route(c, m, path), RouterCap)
  BY DEF Shape, KeepFound

LEMMA KeepFullShape ==
    ASSUME NEW c, NEW m, NEW u, NEW h, Shape(c)
    PROVE  LET d == KeepFull(c, m, u, h)
           IN /\ Shape(d)
              /\ d.routes = c.routes /\ d.router = c.router /\ d.prefixLength = c.prefixLength
              /\ d.dynamic = c.dynamic /\ d.found = c.found
              /\ \A k \in Cached : \/ d.full[k] = c.full[k]
                                   \/ k = m /\ d.full[k] = Keep(c.full[k], u, h, UrlCap)
  BY DEF Shape, KeepFull

LEMMA KeepDynamicShape ==
    ASSUME NEW c, NEW m, NEW u, NEW hit, Shape(c)
    PROVE  LET d == KeepDynamic(c, m, u, hit)
           IN /\ Shape(d)
              /\ d.routes = c.routes /\ d.router = c.router /\ d.prefixLength = c.prefixLength
              /\ d.full = c.full /\ d.found = c.found
              /\ \A k \in Cached : \/ d.dynamic[k] = c.dynamic[k]
                                   \/ k = m /\ d.dynamic[k] = Keep(c.dynamic[k], u, hit, UrlCap)
  BY DEF Shape, KeepDynamic

-----------------------------------------------------------------------------
(* Each way of keeping an answer keeps the closure coherent. *)

LEMMA ClosureCoherent == ASSUME NEW rs PROVE Coherent(Closure(rs), rs)
  BY DEF Coherent, Closure, NoEntries

\* Opening a closure leaves its offset alone once it has one.
LEMMA OpenedCuts ==
    ASSUME NEW c, NEW u, NEW onNode, NEW v, Shape(c)
    PROVE  Cuts(c, v) \subseteq Cuts(Opened(c, u, onNode), v)
  <1>1. Opened(c, u, onNode).prefixLength = c.prefixLength \/ c.prefixLength = Unset
    BY OpenedShape DEF Start
  <1>2. QED
    BY <1>1 DEF Cuts

LEMMA OpenedCoherent ==
    ASSUME NEW c, NEW rs, NEW u, NEW onNode, Shape(c), Coherent(c, rs)
    PROVE  Coherent(Opened(c, u, onNode), rs)
  <1> DEFINE o == Opened(c, u, onNode)
  <1>1. /\ o.routes = c.routes /\ o.router = c.router /\ o.full = c.full /\ o.dynamic = c.dynamic
        /\ o.found = c.found
    BY OpenedShape
  <1>2. ASSUME NEW m, NEW v, NEW hit, IsAnswer(c, rs, m, v, hit)
        PROVE  IsAnswer(o, rs, m, v, hit)
    BY <1>1, <1>2, OpenedCuts DEF IsAnswer
  <1>3. QED
    BY <1>1, <1>2 DEF Coherent

LEMMA RouteFinds ==
    ASSUME NEW c, NEW rs, NEW m, NEW path, Coherent(c, rs)
    PROVE  Route(c, m, path) = Find(RouterOf(rs), m, path.segs)
  <1>1. CASE <<m, path>> \in DOMAIN c.found
    BY <1>1 DEF Coherent, Route
  <1>2. CASE <<m, path>> \notin DOMAIN c.found
    BY <1>2 DEF Coherent, Route
  <1>3. QED
    BY <1>1, <1>2

LEMMA KeepFoundCoherent ==
    ASSUME NEW c, NEW rs, NEW m, NEW path, Shape(c), Coherent(c, rs)
    PROVE  Coherent(KeepFound(c, m, path), rs)
  <1> DEFINE d == KeepFound(c, m, path)
  <1>1. /\ d.routes = c.routes /\ d.router = c.router /\ d.full = c.full /\ d.dynamic = c.dynamic
        /\ d.prefixLength = c.prefixLength
        /\ \/ d.found = c.found
           \/ d.found = Keep(c.found, <<m, path>>, Route(c, m, path), RouterCap)
    BY KeepFoundShape
  <1>2. ASSUME NEW k \in DOMAIN d.found PROVE d.found[k] = Find(d.router, k[1], k[2].segs)
    <2>1. CASE d.found = c.found
      BY <1>1, <2>1 DEF Coherent
    <2>2. CASE d.found = Keep(c.found, <<m, path>>, Route(c, m, path), RouterCap)
      <3>1. CASE k = <<m, path>> /\ d.found[k] = Route(c, m, path)
        <4>1. k[1] = m /\ k[2] = path
          BY <3>1
        <4>2. Route(c, m, path) = Find(c.router, m, path.segs)
          BY RouteFinds DEF Coherent
        <4>3. QED
          BY <1>1, <3>1, <4>1, <4>2
      <3>2. CASE k \in DOMAIN c.found /\ d.found[k] = c.found[k]
        BY <1>1, <3>2 DEF Coherent
      <3>3. QED
        BY <2>2, <3>1, <3>2, KeepHolds
    <2>3. QED
      BY <1>1, <2>1, <2>2
  <1>3. \A k, v, hit : IsAnswer(c, rs, k, v, hit) => IsAnswer(d, rs, k, v, hit)
    BY <1>1 DEF IsAnswer, Cuts
  <1>4. QED
    BY <1>1, <1>2, <1>3 DEF Coherent

LEMMA KeepFullCoherent ==
    ASSUME NEW c, NEW rs, NEW m, NEW u, NEW h, Shape(c), Coherent(c, rs),
           IsAnswer(c, rs, m, u, Hit(h, <<>>))
    PROVE  Coherent(KeepFull(c, m, u, h), rs)
  <1> DEFINE d == KeepFull(c, m, u, h)
  <1>1. /\ d.routes = c.routes /\ d.router = c.router /\ d.dynamic = c.dynamic /\ d.found = c.found
        /\ d.prefixLength = c.prefixLength
        /\ \A k \in Cached : \/ d.full[k] = c.full[k]
                             \/ k = m /\ d.full[k] = Keep(c.full[k], u, h, UrlCap)
    BY KeepFullShape
  <1>2. \A k, v, hit : IsAnswer(c, rs, k, v, hit) => IsAnswer(d, rs, k, v, hit)
    BY <1>1 DEF IsAnswer, Cuts
  <1>3. ASSUME NEW k \in Cached, NEW v \in DOMAIN d.full[k]
        PROVE  IsAnswer(d, rs, k, v, Hit(d.full[k][v], <<>>))
    <2>1. CASE d.full[k] = c.full[k]
      BY <1>1, <1>2, <2>1 DEF Coherent
    <2>2. CASE k = m /\ d.full[k] = Keep(c.full[k], u, h, UrlCap)
      <3>1. \/ v = u /\ d.full[k][v] = h
            \/ v \in DOMAIN c.full[k] /\ d.full[k][v] = c.full[k][v]
        BY <2>2, KeepHolds
      <3>2. QED
        BY <1>1, <1>2, <2>2, <3>1 DEF Coherent
    <2>3. QED
      BY <1>1, <2>1, <2>2
  <1>4. QED
    BY <1>1, <1>2, <1>3 DEF Coherent

LEMMA KeepDynamicCoherent ==
    ASSUME NEW c, NEW rs, NEW m, NEW u, NEW hit, Shape(c), Coherent(c, rs),
           IsAnswer(c, rs, m, u, hit)
    PROVE  Coherent(KeepDynamic(c, m, u, hit), rs)
  <1> DEFINE d == KeepDynamic(c, m, u, hit)
  <1>1. /\ d.routes = c.routes /\ d.router = c.router /\ d.full = c.full /\ d.found = c.found
        /\ d.prefixLength = c.prefixLength
        /\ \A k \in Cached : \/ d.dynamic[k] = c.dynamic[k]
                             \/ k = m /\ d.dynamic[k] = Keep(c.dynamic[k], u, hit, UrlCap)
    BY KeepDynamicShape
  <1>2. \A k, v, x : IsAnswer(c, rs, k, v, x) => IsAnswer(d, rs, k, v, x)
    BY <1>1 DEF IsAnswer, Cuts
  <1>3. ASSUME NEW k \in Cached, NEW v \in DOMAIN d.dynamic[k]
        PROVE  IsAnswer(d, rs, k, v, d.dynamic[k][v])
    <2>1. CASE d.dynamic[k] = c.dynamic[k]
      BY <1>1, <1>2, <2>1 DEF Coherent
    <2>2. CASE k = m /\ d.dynamic[k] = Keep(c.dynamic[k], u, hit, UrlCap)
      <3>1. \/ v = u /\ d.dynamic[k][v] = hit
            \/ v \in DOMAIN c.dynamic[k] /\ d.dynamic[k][v] = c.dynamic[k][v]
        BY <2>2, KeepHolds
      <3>2. QED
        BY <1>1, <1>2, <2>2, <3>1 DEF Coherent
    <2>3. QED
      BY <1>1, <2>1, <2>2
  <1>4. QED
    BY <1>1, <1>2, <1>3 DEF Coherent

-----------------------------------------------------------------------------
(* Every request is answered as the tables do, for the path cut from its    *)
(* URL, and leaves a coherent closure.                                      *)

Good(c, rs) == Shape(c) /\ Coherent(c, rs)
Inv == compiled # Null => Good(compiled, routes)

LEMMA OpenedGood ==
    ASSUME NEW c, NEW rs, NEW u, NEW onNode, Good(c, rs)
    PROVE  Good(Opened(c, u, onNode), rs)
  BY OpenedShape, OpenedCoherent DEF Good

LEMMA KeepFoundGood ==
    ASSUME NEW c, NEW rs, NEW m, NEW path, Good(c, rs)
    PROVE  Good(KeepFound(c, m, path), rs)
  BY KeepFoundShape, KeepFoundCoherent DEF Good

LEMMA CurrentGood == ASSUME Inv PROVE Good(Current, routes)
  BY ClosureShape, ClosureCoherent DEF Inv, Current, Good

\* The path of a request is cut at one of the offsets of the closure it leaves.
LEMMA PathIsCut ==
    ASSUME NEW c, NEW u \in Urls, NEW onNode, Shape(c)
    PROVE  LET o == Opened(c, u, onNode)
           IN /\ \E start \in Cuts(o, u) : PathOf(c, u, onNode) = Pathname(start, u)
              /\ o.prefixLength \in {c.prefixLength, u.origin}
  <1> DEFINE o == Opened(c, u, onNode)
  <1>1. CASE onNode
    <2>1. PathOf(c, u, onNode) = Pathname(u.origin, u) /\ u.origin \in Cuts(o, u)
      BY <1>1 DEF PathOf, Cuts
    <2>2. o = c
      BY <1>1 DEF Opened
    <2>3. QED
      BY <2>1, <2>2
  <1>2. CASE ~onNode
    <2>1. o.prefixLength = Start(c, u)
      BY <1>2 DEF Opened, Shape
    <2>2. PathOf(c, u, onNode) = Pathname(Start(c, u), u)
      BY <1>2 DEF PathOf
    <2>3. Start(c, u) \in Cuts(o, u)
      BY <2>1 DEF Cuts, Start
    <2>4. QED
      BY <2>1, <2>2, <2>3 DEF Start
  <1>3. QED
    BY <1>1, <1>2

Resolves(c, m, u, h, params) ==
    \E start \in Cuts(c, u) :
        LET answer == Resolve(routes, m, Pathname(start, u))
        IN h = answer.handler /\ params = answer.params

LEMMA AnswerResolves ==
    ASSUME NEW c, Good(c, routes), NEW m, NEW u, NEW hit, IsAnswer(c, routes, m, u, hit)
    PROVE  Resolves(c, m, u, hit.handler, hit.params)
  BY DEF Good, Coherent, IsAnswer, Resolves, Resolve

\* What every request comes to.  The offset is the one there was, or its own.
Answered(m, u) ==
    /\ Good(compiled', routes)
    /\ routes' = routes
    /\ compiled'.prefixLength \in {Current.prefixLength, u.origin}
    /\ reply'.method = m /\ reply'.url = u
    /\ Resolves(compiled', m, u, reply'.handler, reply'.params)

LEMMA FullAnswers ==
    ASSUME Inv, NEW m \in Methods, NEW u \in Urls, FetchFull(m, u)
    PROVE  Answered(m, u)
  <1> DEFINE c == Current
             hit == Hit(c.full[m][u], <<>>)
  <1>1. Good(c, routes)
    BY CurrentGood
  <1>2. m \in Cached /\ u \in DOMAIN c.full[m]
    BY DEF FetchFull, IsFull
  <1>3. IsAnswer(c, routes, m, u, hit)
    BY <1>1, <1>2 DEF Good, Coherent
  <1>4. Resolves(c, m, u, hit.handler, hit.params)
    BY <1>1, <1>3, AnswerResolves
  <1>5. compiled' = c /\ Answer(m, u, hit) /\ routes' = routes
    BY DEF FetchFull
  <1> HIDE DEF c, hit
  <1>6. reply'.method = m /\ reply'.url = u /\ reply'.handler = hit.handler /\ reply'.params = hit.params
    BY <1>5 DEF Answer
  <1>7. QED
    BY <1>1, <1>4, <1>5, <1>6 DEF Answered, c

LEMMA DynamicAnswers ==
    ASSUME Inv, NEW m \in Methods, NEW u \in Urls, FetchDynamic(m, u)
    PROVE  Answered(m, u)
  <1> DEFINE c == Current
             hit == c.dynamic[m][u]
  <1>1. Good(c, routes)
    BY CurrentGood
  <1>2. m \in Cached /\ u \in DOMAIN c.dynamic[m]
    BY DEF FetchDynamic, IsFull, IsKnown
  <1>3. IsAnswer(c, routes, m, u, hit)
    BY <1>1, <1>2 DEF Good, Coherent
  <1>4. Resolves(c, m, u, hit.handler, hit.params)
    BY <1>1, <1>3, AnswerResolves
  <1>5. compiled' = c /\ Answer(m, u, hit) /\ routes' = routes
    BY DEF FetchDynamic
  <1> HIDE DEF c, hit
  <1>6. reply'.method = m /\ reply'.url = u /\ reply'.handler = hit.handler /\ reply'.params = hit.params
    BY <1>5 DEF Answer
  <1>7. QED
    BY <1>1, <1>4, <1>5, <1>6 DEF Answered, c

LEMMA StaticAnswers ==
    ASSUME Inv, NEW m \in Methods, NEW u \in Urls, NEW onNode, FetchStatic(m, u, onNode)
    PROVE  Answered(m, u)
  <1> DEFINE c == Current
             o == Opened(c, u, onNode)
             path == PathOf(c, u, onNode)
             h == StaticRoute(c.routes, m, path)
             d == KeepFull(o, m, u, h)
  <1>1. Good(c, routes)
    BY CurrentGood
  <1>2. Good(o, routes)
    BY <1>1, OpenedGood
  <1>3. /\ compiled' = d /\ Answer(m, u, Hit(h, <<>>)) /\ routes' = routes
        /\ h # 0
    BY DEF FetchStatic
  <1>4. PICK start \in Cuts(o, u) : path = Pathname(start, u)
    BY <1>1, PathIsCut DEF Good
  <1>5. h = StaticRoute(routes, m, path) /\ o.prefixLength \in {c.prefixLength, u.origin}
    BY <1>1, PathIsCut DEF Good, Coherent
  <1> HIDE DEF c, o, path, h, d
  <1>6. Hit(h, <<>>) = ResolveWith(o.router, routes, m, path)
    BY <1>3, <1>5 DEF ResolveWith
  <1>7. IsAnswer(o, routes, m, u, Hit(h, <<>>))
    BY <1>4, <1>6 DEF IsAnswer
  <1>8. Shape(d) /\ d.prefixLength = o.prefixLength /\ d.router = o.router /\ Coherent(d, routes)
    BY <1>2, <1>7, KeepFullShape, KeepFullCoherent DEF Good, d
  <1>9. IsAnswer(d, routes, m, u, Hit(h, <<>>)) /\ Good(d, routes)
    BY <1>7, <1>8 DEF IsAnswer, Cuts, Good
  <1>10. Resolves(d, m, u, Hit(h, <<>>).handler, Hit(h, <<>>).params)
    BY <1>9, AnswerResolves
  <1>11. /\ reply'.method = m /\ reply'.url = u
         /\ reply'.handler = Hit(h, <<>>).handler /\ reply'.params = Hit(h, <<>>).params
    BY <1>3 DEF Answer
  <1>12. QED
    BY <1>3, <1>5, <1>8, <1>9, <1>10, <1>11 DEF Answered, c

\* The router's answer, for FetchFound and NotFound.
LEMMA RouterAnswers ==
    ASSUME NEW c, NEW m \in Methods, NEW u \in Urls, NEW onNode, Good(c, routes),
           StaticRoute(c.routes, m, PathOf(c, u, onNode)) = 0
    PROVE  LET path == PathOf(c, u, onNode)
               d == KeepFound(Opened(c, u, onNode), m, path)
           IN /\ Good(d, routes)
              /\ d.prefixLength \in {c.prefixLength, u.origin}
              /\ IsAnswer(d, routes, m, u, Route(c, m, path))
  <1> DEFINE path == PathOf(c, u, onNode)
             o == Opened(c, u, onNode)
             d == KeepFound(o, m, path)
  <1>1. Good(o, routes)
    BY OpenedGood
  <1>2. Good(d, routes)
    BY <1>1, KeepFoundGood
  <1>3. d.prefixLength = o.prefixLength
    BY <1>1 DEF Good, KeepFound, Shape
  <1>4. PICK start \in Cuts(o, u) : path = Pathname(start, u)
    BY PathIsCut DEF Good
  <1>5. o.prefixLength \in {c.prefixLength, u.origin}
    BY PathIsCut DEF Good
  <1>6. Route(c, m, path) = Find(RouterOf(routes), m, path.segs) /\ c.routes = routes
    BY RouteFinds DEF Good, Coherent
  <1>7. d.router = RouterOf(routes)
    BY <1>2 DEF Good, Coherent
  <1>8. StaticRoute(routes, m, path) = 0
    BY <1>6
  <1> HIDE DEF path, o, d
  <1>9. Route(c, m, path) = ResolveWith(d.router, routes, m, path)
    BY <1>6, <1>7, <1>8 DEF ResolveWith
  <1>10. IsAnswer(d, routes, m, u, Route(c, m, path))
    BY <1>3, <1>4, <1>9 DEF IsAnswer, Cuts
  <1>11. QED
    BY <1>2, <1>3, <1>5, <1>10 DEF path, o, d

LEMMA FoundAnswers ==
    ASSUME Inv, NEW m \in Methods, NEW u \in Urls, NEW onNode, FetchFound(m, u, onNode)
    PROVE  Answered(m, u)
  <1> DEFINE c == Current
             path == PathOf(c, u, onNode)
             hit == Route(c, m, path)
             d == KeepFound(Opened(c, u, onNode), m, path)
             e == KeepDynamic(d, m, u, hit)
  <1>1. Good(c, routes)
    BY CurrentGood
  <1>2. /\ StaticRoute(c.routes, m, path) = 0
        /\ compiled' = e
        /\ Answer(m, u, hit)
        /\ routes' = routes
    BY DEF FetchFound
  <1>3. Good(d, routes) /\ d.prefixLength \in {c.prefixLength, u.origin} /\ IsAnswer(d, routes, m, u, hit)
    BY <1>1, <1>2, RouterAnswers
  <1> HIDE DEF c, path, hit, d
  <1>4. Shape(e) /\ e.prefixLength = d.prefixLength /\ e.router = d.router /\ Coherent(e, routes)
    BY <1>3, KeepDynamicShape, KeepDynamicCoherent DEF Good
  <1> HIDE DEF e
  <1>5. Good(e, routes) /\ IsAnswer(e, routes, m, u, hit)
    BY <1>3, <1>4 DEF Good, IsAnswer, Cuts
  <1>6. Resolves(e, m, u, hit.handler, hit.params)
    BY <1>5, AnswerResolves
  <1>7. reply'.method = m /\ reply'.url = u /\ reply'.handler = hit.handler /\ reply'.params = hit.params
    BY <1>2 DEF Answer
  <1>8. QED
    BY <1>2, <1>3, <1>4, <1>5, <1>6, <1>7 DEF Answered, c

LEMMA NotFoundAnswers ==
    ASSUME Inv, NEW m \in Methods, NEW u \in Urls, NEW onNode, NotFound(m, u, onNode)
    PROVE  Answered(m, u)
  <1> DEFINE c == Current
             path == PathOf(c, u, onNode)
             hit == Route(c, m, path)
             d == KeepFound(Opened(c, u, onNode), m, path)
  <1>1. Good(c, routes)
    BY CurrentGood
  <1>2. /\ StaticRoute(c.routes, m, path) = 0
        /\ hit.handler = 0
        /\ compiled' = d
        /\ Answer(m, u, Miss)
        /\ routes' = routes
    BY DEF NotFound
  <1>3. Good(d, routes) /\ d.prefixLength \in {c.prefixLength, u.origin} /\ IsAnswer(d, routes, m, u, hit)
    BY <1>1, <1>2, RouterAnswers
  <1>4. hit = Find(RouterOf(routes), m, path.segs)
    BY <1>1, RouteFinds DEF Good
  <1>5. hit = Miss
    BY <1>2, <1>4, FindMisses
  <1> HIDE DEF c, path, hit, d
  <1>6. Resolves(d, m, u, hit.handler, hit.params)
    BY <1>3, AnswerResolves
  <1>7. reply'.method = m /\ reply'.url = u /\ reply'.handler = hit.handler /\ reply'.params = hit.params
    BY <1>2, <1>5 DEF Answer
  <1>8. QED
    BY <1>2, <1>3, <1>6, <1>7 DEF Answered, c

LEMMA FetchAnswers ==
    ASSUME Inv, NEW m \in Methods, NEW u \in Urls, Fetch(m, u)
    PROVE  Answered(m, u)
  BY FullAnswers, DynamicAnswers, StaticAnswers, FoundAnswers, NotFoundAnswers DEF Fetch

-----------------------------------------------------------------------------
(* The steps, and the theorems. *)

LEMMA InvStep ==
    ASSUME Inv, [Next]_vars
    PROVE  Inv'
  <1>1. ASSUME NEW d \in Definitions, Register(d) PROVE Inv'
    BY <1>1 DEF Register, Inv
  <1>2. CASE Compile
    BY <1>2, ClosureShape, ClosureCoherent DEF Compile, Inv, Good
  <1>3. ASSUME NEW m \in Methods, NEW u \in Urls, Fetch(m, u) PROVE Inv'
    BY <1>3, FetchAnswers DEF Answered, Inv
  <1>4. CASE UNCHANGED vars
    BY <1>4 DEF vars, Inv, Good, Shape, Coherent, IsAnswer, Cuts
  <1>5. QED
    BY <1>1, <1>2, <1>3, <1>4 DEF Next

\* What a step that answers answers.
LEMMA AnswerStep ==
    ASSUME Inv, [Next]_vars, reply' # reply
    PROVE  /\ reply'.method \in Methods /\ reply'.url \in Urls
           /\ Answered(reply'.method, reply'.url)
  <1>1. ASSUME NEW d \in Definitions, Register(d) PROVE FALSE
    BY <1>1 DEF Register
  <1>2. ~Compile
    BY DEF Compile
  <1>3. ~UNCHANGED vars
    BY DEF vars
  <1>4. PICK m \in Methods, u \in Urls : Fetch(m, u)
    BY <1>1, <1>2, <1>3 DEF Next
  <1>5. Answered(m, u) /\ reply'.method = m /\ reply'.url = u
    BY <1>4, FetchAnswers DEF Answered
  <1>6. QED
    BY <1>5

\* Whatever is registered and asked, in any order, no cache ever holds an answer that the
\* tables would not give for the path that was cut from its URL.
THEOREM CachesStayCoherent == Spec => []CachesCoherent
  <1>1. Init => Inv
    BY DEF Init, Inv
  <1>2. Inv /\ [Next]_vars => Inv'
    BY InvStep
  <1>3. Inv => CachesCoherent
    BY DEF Inv, Good, CachesCoherent
  <1>4. QED
    BY <1>1, <1>2, <1>3, PTL DEF Spec

\* Every request is then answered as if there were no cache.
THEOREM CachesNeverShow == Spec => CachesAreTransparent
  <1> DEFINE Transparent ==
        reply' # reply =>
            \E start \in Cuts(compiled', reply'.url) :
                LET answer == Resolve(routes, reply'.method, Pathname(start, reply'.url))
                IN reply'.handler = answer.handler /\ reply'.params = answer.params
  <1>1. Init => Inv
    BY DEF Init, Inv
  <1>2. Inv /\ [Next]_vars => Inv'
    BY InvStep
  <1>3. Inv /\ [Next]_vars => [Transparent]_vars
    BY AnswerStep DEF Answered, Resolves
  <1>4. QED
    BY <1>1, <1>2, <1>3, PTL DEF Spec, CachesAreTransparent

-----------------------------------------------------------------------------
(* A request at the offset that is kept is routed by the path it names.     *)

\* The path a URL names.
Named(u) == Pathname(u.origin, u)

LEMMA NamedStep ==
    ASSUME Inv, [Next]_vars, reply' # reply, OwnOffset(compiled', reply'.url)
    PROVE  /\ reply'.method \in Methods /\ reply'.url \in Urls
           /\ LET answer == Resolve(routes, reply'.method, Named(reply'.url))
              IN reply'.handler = answer.handler /\ reply'.params = answer.params
  <1> DEFINE u == reply'.url
  <1>1. reply'.method \in Methods /\ u \in Urls /\ Answered(reply'.method, u)
    BY AnswerStep
  <1>2. Cuts(compiled', u) = {u.origin}
    BY DEF OwnOffset, Cuts
  <1> HIDE DEF u
  <1>3. Resolves(compiled', reply'.method, u, reply'.handler, reply'.params)
    BY <1>1 DEF Answered
  <1>4. QED
    BY <1>1, <1>2, <1>3 DEF Resolves, Named, u

-----------------------------------------------------------------------------
(* The bounds.  These hold whatever the offsets are. *)

Bounded(cache, cap) == IsFiniteSet(DOMAIN cache) /\ Cardinality(DOMAIN cache) <= cap
Within(c) ==
    /\ \A m \in Cached : Bounded(c.full[m], UrlCap) /\ Bounded(c.dynamic[m], UrlCap)
    /\ Bounded(c.found, RouterCap)
BInv == compiled # Null => Shape(compiled) /\ Within(compiled)

LEMMA KeepBounded ==
    ASSUME NEW cache, NEW key, NEW value, NEW cap \in Nat, Bounded(cache, cap)
    PROVE  Bounded(Keep(cache, key, value, cap), cap)
  <1> DEFINE D == DOMAIN cache
  <1>1. IsFiniteSet(D) /\ Cardinality(D) \in Nat
    BY FS_CardinalityType DEF Bounded
  <1>2. CASE Cardinality(D) < cap
    <2>1. DOMAIN Keep(cache, key, value, cap) = D \cup {key}
      BY <1>2 DEF Keep, Put
    <2>2. IsFiniteSet(D \cup {key}) /\ Cardinality(D \cup {key}) <= Cardinality(D) + 1
      BY <1>1, FS_AddElement
    <2>3. Cardinality(D \cup {key}) \in Nat
      BY <2>2, FS_CardinalityType
    <2>4. QED
      BY <1>1, <1>2, <2>1, <2>2, <2>3 DEF Bounded
  <1>3. CASE ~(Cardinality(D) < cap)
    BY <1>3 DEF Keep
  <1>4. QED
    BY <1>2, <1>3

LEMMA ClosureWithin == ASSUME NEW rs PROVE Within(Closure(rs))
  <1>1. IsFiniteSet({}) /\ Cardinality({}) = 0
    BY FS_EmptySet
  <1>2. DOMAIN NoEntries = {}
    BY DEF NoEntries
  <1>3. UrlCap \in Nat /\ RouterCap \in Nat
    BY DispatchAssumption
  <1>4. Bounded(NoEntries, UrlCap) /\ Bounded(NoEntries, RouterCap)
    BY <1>1, <1>2, <1>3 DEF Bounded
  <1>5. QED
    BY <1>4 DEF Within, Closure

LEMMA KeepFoundWithin ==
    ASSUME NEW c, NEW m, NEW path, Shape(c), Within(c)
    PROVE  Within(KeepFound(c, m, path))
  <1>1. RouterCap \in Nat
    BY DispatchAssumption
  <1>2. Bounded(Keep(c.found, <<m, path>>, Route(c, m, path), RouterCap), RouterCap)
    BY <1>1, KeepBounded DEF Within
  <1>3. QED
    BY <1>2, KeepFoundShape DEF Within

LEMMA KeepFullWithin ==
    ASSUME NEW c, NEW m, NEW u, NEW h, Shape(c), Within(c)
    PROVE  Within(KeepFull(c, m, u, h))
  <1>1. UrlCap \in Nat
    BY DispatchAssumption
  <1>2. m \in Cached => Bounded(Keep(c.full[m], u, h, UrlCap), UrlCap)
    BY <1>1, KeepBounded DEF Within
  <1>3. QED
    BY <1>2, KeepFullShape DEF Within

LEMMA KeepDynamicWithin ==
    ASSUME NEW c, NEW m, NEW u, NEW hit, Shape(c), Within(c)
    PROVE  Within(KeepDynamic(c, m, u, hit))
  <1>1. UrlCap \in Nat
    BY DispatchAssumption
  <1>2. m \in Cached => Bounded(Keep(c.dynamic[m], u, hit, UrlCap), UrlCap)
    BY <1>1, KeepBounded DEF Within
  <1>3. QED
    BY <1>2, KeepDynamicShape DEF Within

LEMMA FetchWithin ==
    ASSUME BInv, NEW m \in Methods, NEW u \in Urls, Fetch(m, u)
    PROVE  Shape(compiled') /\ Within(compiled')
  <1> DEFINE c == Current
             o(onNode) == Opened(c, u, onNode)
             path(onNode) == PathOf(c, u, onNode)
             d(onNode) == KeepFound(o(onNode), m, path(onNode))
  <1>1. Shape(c) /\ Within(c)
    BY ClosureShape, ClosureWithin DEF BInv, Current
  <1>2. ASSUME NEW onNode PROVE Shape(o(onNode)) /\ Within(o(onNode))
    BY <1>1, OpenedShape DEF Within
  <1>3. ASSUME NEW onNode PROVE Shape(d(onNode)) /\ Within(d(onNode))
    BY <1>2, KeepFoundShape, KeepFoundWithin
  <1>4. CASE FetchFull(m, u) \/ FetchDynamic(m, u)
    BY <1>1, <1>4 DEF FetchFull, FetchDynamic
  <1>5. ASSUME NEW onNode, FetchStatic(m, u, onNode) PROVE Shape(compiled') /\ Within(compiled')
    BY <1>2, <1>5, KeepFullShape, KeepFullWithin DEF FetchStatic
  <1>6. ASSUME NEW onNode, FetchFound(m, u, onNode) PROVE Shape(compiled') /\ Within(compiled')
    BY <1>3, <1>6, KeepDynamicShape, KeepDynamicWithin DEF FetchFound
  <1>7. ASSUME NEW onNode, NotFound(m, u, onNode) PROVE Shape(compiled') /\ Within(compiled')
    BY <1>3, <1>7 DEF NotFound
  <1>8. QED
    BY <1>4, <1>5, <1>6, <1>7 DEF Fetch

\* Whatever is asked, in any order, hits and misses included, no cache outgrows its bound.
THEOREM CachesStayBounded == Spec => []CachesBounded
  <1>1. Init => BInv
    BY DEF Init, BInv
  <1>2. BInv /\ [Next]_vars => BInv'
    <2> SUFFICES ASSUME BInv, [Next]_vars PROVE BInv'
      OBVIOUS
    <2>1. ASSUME NEW d \in Definitions, Register(d) PROVE BInv'
      BY <2>1 DEF Register, BInv
    <2>2. CASE Compile
      BY <2>2, ClosureShape, ClosureWithin DEF Compile, BInv
    <2>3. ASSUME NEW m \in Methods, NEW u \in Urls, Fetch(m, u) PROVE BInv'
      BY <2>3, FetchWithin DEF BInv
    <2>4. CASE UNCHANGED vars
      BY <2>4 DEF vars, BInv, Shape, Within, Bounded
    <2>5. QED
      BY <2>1, <2>2, <2>3, <2>4 DEF Next
  <1>3. BInv => CachesBounded
    BY DEF BInv, Within, Bounded, CachesBounded
  <1>4. QED
    BY <1>1, <1>2, <1>3, PTL DEF Spec

-----------------------------------------------------------------------------
(* Recursive functions over the routes.  A set of naturals has a least      *)
(* member: what fails at all would fail first at some number, after it held *)
(* at the one before.                                                      *)

LEMMA LeastNatural ==
    ASSUME NEW T, T \subseteq Nat, T # {}
    PROVE  \E m \in T : \A n \in T : m <= n
  <1> DEFINE R == {ss \in Nat \X Nat : ss[1] < ss[2]}
  <1>1. IsWellFoundedOn(R, Nat)
    BY NatLessThanWellFounded DEF OpToRel
  <1>2. PICK m \in T : \A n \in T : <<n, m>> \notin R
    <2> HIDE DEF R
    <2>1. QED
      BY <1>1, WFMin
  <1>3. \A n \in T : ~(n < m)
    BY <1>2
  <1>4. QED
    BY <1>3

-----------------------------------------------------------------------------
(* The table that compileRoutes makes for Bun, route by route. *)

IsTable(t, rs, N) ==
    t = [n \in 0..N |-> IF n = 0 THEN NoEntries ELSE BunEntry(t[n - 1], rs[n], n)]

\* There is such a table: the recursive definition of BunRoutes defines something.
LEMMA TableExists ==
    ASSUME NEW rs, NEW N \in Nat
    PROVE  \E t : IsTable(t, rs, N)
  <1> DEFINE Missing == {n \in Nat : ~\E t : IsTable(t, rs, n)}
  <1>1. SUFFICES ASSUME Missing # {} PROVE FALSE
    OBVIOUS
  <1>2. PICK n \in Missing : \A k \in Missing : n <= k
    <2> HIDE DEF Missing
    <2>1. QED
      BY <1>1, LeastNatural, Missing \subseteq Nat DEF Missing
  <1>3. CASE n = 0
    <2> DEFINE t == [k \in 0..0 |-> NoEntries]
    <2>1. IsTable(t, rs, 0)
      BY DEF IsTable
    <2>2. QED
      BY <1>2, <1>3, <2>1
  <1>4. CASE n # 0
    <2>1. n - 1 \in Nat /\ n - 1 \notin Missing
      BY <1>2, <1>4
    <2>2. PICK s : IsTable(s, rs, n - 1)
      BY <2>1
    <2> DEFINE t == [k \in 0..n |-> IF k = n THEN BunEntry(s[n - 1], rs[n], n) ELSE s[k]]
    <2>3. ASSUME NEW k \in 0..n
          PROVE  t[k] = IF k = 0 THEN NoEntries ELSE BunEntry(t[k - 1], rs[k], k)
      <3>1. CASE k = n
        <4>1. k - 1 \in 0..n /\ k - 1 # n /\ k # 0
          BY <1>2, <1>4, <3>1
        <4>2. t[k - 1] = s[k - 1]
          BY <4>1
        <4>3. QED
          BY <3>1, <4>1, <4>2
      <3>2. CASE k # n
        <4>1. k \in 0..(n - 1) /\ t[k] = s[k]
          BY <1>2, <3>2
        <4>2. s[k] = IF k = 0 THEN NoEntries ELSE BunEntry(s[k - 1], rs[k], k)
          BY <2>2, <4>1 DEF IsTable
        <4>3. k # 0 => t[k - 1] = s[k - 1]
          BY <1>2, <4>1
        <4>4. QED
          BY <4>1, <4>2, <4>3
      <3>3. QED
        BY <3>1, <3>2
    <2>4. IsTable(t, rs, n)
      <3> DEFINE u == [k \in 0..n |-> IF k = 0 THEN NoEntries ELSE BunEntry(t[k - 1], rs[k], k)]
      <3>1. t = [k \in 0..n |-> t[k]]
        OBVIOUS
      <3> HIDE DEF t
      <3>2. t = u
        BY <2>3, <3>1
      <3>3. QED
        BY <3>2 DEF IsTable
    <2>5. QED
      BY <1>2, <2>4
  <1>5. QED
    BY <1>3, <1>4

LEMMA TableUnfolds ==
    ASSUME NEW rs, Len(rs) \in Nat
    PROVE  \E t : IsTable(t, rs, Len(rs)) /\ BunRoutes(rs) = t[Len(rs)]
  <1> DEFINE t == CHOOSE s : IsTable(s, rs, Len(rs))
  <1>1. IsTable(t, rs, Len(rs))
    BY TableExists
  <1>2. BunRoutes(rs) = t[Len(rs)]
    BY DEF BunRoutes, IsTable
  <1>3. QED
    BY <1>1, <1>2

Key(route) == [segs |-> route.segs, slash |-> route.slash]
Usual(route) == route.form \in {"plain", "constant"}
Before(rs, n, key) == {k \in 1..n : Key(rs[k]) = key}

\* What the table after n routes holds at a key all whose routes are usual: for each
\* method that one of them serves, the one of them that was registered last.
Latest(table, rs, n, key) ==
    LET K == Before(rs, n, key)
        entry == table[key]
    IN /\ key \in DOMAIN table <=> K # {}
       /\ (K # {} /\ \A k \in K : Usual(rs[k])) =>
            /\ entry = [kind |-> entry.kind, at |-> entry.at]
            /\ \/ entry.kind = "methods"
               \/ entry.kind = "function" /\ DOMAIN entry.at = {"GET"} /\ entry.at = [m \in {"GET"} |-> entry.at[m]]
            /\ \A m : m \in DOMAIN entry.at <=> \E k \in K : m \in Serves(rs[k])
            /\ \A m \in DOMAIN entry.at :
                /\ entry.at[m] \in K /\ m \in Serves(rs[entry.at[m]])
                /\ \A k \in K : m \in Serves(rs[k]) => k <= entry.at[m]

\* A route of a key that was written before joins what is there.
LEMMA MergeLatest ==
    ASSUME NEW entry, NEW route, NEW n,
           \/ entry.kind = "methods"
           \/ entry.kind = "function" /\ DOMAIN entry.at = {"GET"} /\ entry.at = [m \in {"GET"} |-> entry.at[m]]
    PROVE  LET merged == Merge(entry, route, n)
           IN /\ merged = [kind |-> "methods", at |-> merged.at]
              /\ DOMAIN merged.at = DOMAIN entry.at \cup Serves(route)
              /\ \A m \in DOMAIN merged.at :
                    merged.at[m] = IF m \in Serves(route) THEN n ELSE entry.at[m]
  <1>1. DOMAIN Previous(entry) = DOMAIN entry.at
        /\ \A m \in DOMAIN entry.at : Previous(entry)[m] = entry.at[m]
    <2>1. CASE entry.kind = "methods"
      BY <2>1 DEF Previous
    <2>2. CASE entry.kind = "function" /\ DOMAIN entry.at = {"GET"}
      <3>1. (CHOOSE k \in DOMAIN entry.at : TRUE) = "GET"
        BY <2>2
      <3>2. Previous(entry) = [m \in {"GET"} |-> entry.at["GET"]]
        BY <2>2, <3>1 DEF Previous
      <3>3. QED
        BY <2>2, <3>2
    <2>3. QED
      BY <2>1, <2>2
  <1>2. QED
    BY <1>1 DEF Merge, Entry

LEMMA EntryLatest ==
    ASSUME NEW rs, NEW n \in Nat \ {0}, NEW table, NEW key,
           rs[n].method \in Slots,
           Latest(table, rs, n - 1, key)
    PROVE  Latest(BunEntry(table, rs[n], n), rs, n, key)
  <1> DEFINE route == rs[n]
             next == BunEntry(table, route, n)
             K == Before(rs, n - 1, key)
             L == Before(rs, n, key)
  <1>1. DOMAIN next = DOMAIN table \cup {Key(route)}
        /\ \A k \in DOMAIN table : k # Key(route) => next[k] = table[k]
    BY DEF BunEntry, Put, Key
  <1>2. CASE key # Key(route)
    <2>1. L = K
      BY <1>2 DEF Before
    <2>2. key \in DOMAIN next <=> key \in DOMAIN table
      BY <1>1, <1>2
    <2>3. key \in DOMAIN table => next[key] = table[key]
      BY <1>1, <1>2
    <2>4. CASE key \in DOMAIN table
      <3>1. next[key] = table[key]
        BY <2>3, <2>4
      <3> HIDE DEF next, route
      <3>2. Latest(next, rs, n, key)
        BY <2>1, <2>2, <2>4, <3>1 DEF Latest
      <3>3. QED
        BY <3>2 DEF next, route
    <2>5. CASE key \notin DOMAIN table
      <3>1. K = {} /\ L = {}
        BY <2>1, <2>5 DEF Latest
      <3> HIDE DEF next, route
      <3>2. Latest(next, rs, n, key)
        BY <2>2, <2>5, <3>1 DEF Latest
      <3>3. QED
        BY <3>2 DEF next, route
    <2>6. QED
      BY <2>4, <2>5
  <1>3. CASE key = Key(route)
    <2>1. L = K \cup {n} /\ n \in L
      BY <1>3 DEF Before
    <2>2. key \in DOMAIN next
      BY <1>1, <1>3
    <2>3. SUFFICES ASSUME \A k \in L : Usual(rs[k])
                   PROVE  LET entry == next[key] IN
                          /\ entry = [kind |-> entry.kind, at |-> entry.at]
                          /\ \/ entry.kind = "methods"
                             \/ entry.kind = "function" /\ DOMAIN entry.at = {"GET"} /\ entry.at = [m \in {"GET"} |-> entry.at[m]]
                          /\ \A m : m \in DOMAIN entry.at <=> \E k \in L : m \in Serves(rs[k])
                          /\ \A m \in DOMAIN entry.at :
                              /\ entry.at[m] \in L /\ m \in Serves(rs[entry.at[m]])
                              /\ \A k \in L : m \in Serves(rs[k]) => k <= entry.at[m]
      BY <2>1, <2>2 DEF Latest
    <2>4. route.form \notin {"literal", "branch", "discard"}
      BY <2>1, <2>3 DEF Usual
    <2>5. next[key] = IF key \in DOMAIN table THEN Merge(table[key], route, n)
                      ELSE IF route.method = "GET" THEN Entry("function", Put(NoEntries, route.method, n))
                      ELSE Merge(Entry("methods", NoEntries), route, n)
      BY <1>3, <2>4 DEF BunEntry, Put, Key
    <2>6. \A k \in K : k < n /\ k \in L /\ k \in Nat
      BY DEF Before
    <2>7. CASE key \in DOMAIN table
      <3> DEFINE old == table[key]
                 entry == next[key]
      <3>1. K # {} /\ \A k \in K : Usual(rs[k])
        BY <2>1, <2>3, <2>7 DEF Latest
      <3>2. /\ \/ old.kind = "methods"
               \/ old.kind = "function" /\ DOMAIN old.at = {"GET"} /\ old.at = [m \in {"GET"} |-> old.at[m]]
            /\ \A m : m \in DOMAIN old.at <=> \E k \in K : m \in Serves(rs[k])
            /\ \A m \in DOMAIN old.at :
                /\ old.at[m] \in K /\ m \in Serves(rs[old.at[m]])
                /\ \A k \in K : m \in Serves(rs[k]) => k <= old.at[m]
        BY <3>1 DEF Latest
      <3> HIDE DEF old, K, L
      <3>3. /\ entry = [kind |-> "methods", at |-> entry.at]
            /\ DOMAIN entry.at = DOMAIN old.at \cup Serves(route)
            /\ \A m \in DOMAIN entry.at :
                  entry.at[m] = IF m \in Serves(route) THEN n ELSE old.at[m]
        BY <2>5, <2>7, <3>2, MergeLatest DEF old
      <3> HIDE DEF entry, next, route
      <3>4. entry = [kind |-> entry.kind, at |-> entry.at] /\ entry.kind = "methods"
        BY <3>3
      <3>5. ASSUME NEW m PROVE m \in DOMAIN entry.at <=> \E k \in L : m \in Serves(rs[k])
        BY <2>1, <3>2, <3>3 DEF route
      <3>6. ASSUME NEW m \in DOMAIN entry.at
            PROVE  /\ entry.at[m] \in L /\ m \in Serves(rs[entry.at[m]])
                   /\ \A k \in L : m \in Serves(rs[k]) => k <= entry.at[m]
        <4>1. CASE m \in Serves(route)
          BY <2>1, <2>6, <3>3, <4>1 DEF route
        <4>2. CASE m \notin Serves(route)
          <5>1. m \in DOMAIN old.at /\ entry.at[m] = old.at[m]
            BY <3>3, <4>2
          <5>2. QED
            BY <2>1, <2>6, <3>2, <4>2, <5>1 DEF route
        <4>3. QED
          BY <4>1, <4>2
      <3>7. QED
        BY <3>4, <3>5, <3>6 DEF entry
    <2>8. CASE key \notin DOMAIN table
      <3> DEFINE entry == next[key]
      <3>1. K = {} /\ L = {n}
        BY <2>1, <2>8 DEF Latest
      <3>2. /\ entry = [kind |-> entry.kind, at |-> entry.at]
            /\ DOMAIN entry.at = Serves(route)
            /\ \A m \in DOMAIN entry.at : entry.at[m] = n
            /\ \/ entry.kind = "methods"
               \/ entry.kind = "function" /\ DOMAIN entry.at = {"GET"} /\ entry.at = [m \in {"GET"} |-> entry.at[m]]
        <4>1. CASE route.method = "GET"
          <5>1. entry = Entry("function", Put(NoEntries, route.method, n))
            BY <2>5, <2>8, <4>1
          <5>2. Put(NoEntries, route.method, n) = [m \in {"GET"} |-> n]
            BY <4>1 DEF Put, NoEntries
          <5>3. Serves(route) = {"GET"}
            BY <4>1 DEF Serves
          <5>4. QED
            BY <5>1, <5>2, <5>3 DEF Entry
        <4>2. CASE route.method # "GET"
          <5> DEFINE blank == Entry("methods", NoEntries)
          <5>1. entry = Merge(blank, route, n)
            BY <2>5, <2>8, <4>2
          <5>2. blank.kind = "methods" /\ DOMAIN blank.at = {}
            BY DEF Entry, NoEntries
          <5> HIDE DEF entry, next, route, blank
          <5> DEFINE merged == Merge(blank, route, n)
          <5> HIDE DEF merged
          <5>3. /\ merged = [kind |-> "methods", at |-> merged.at]
                /\ DOMAIN merged.at = DOMAIN blank.at \cup Serves(route)
                /\ \A m \in DOMAIN merged.at :
                      merged.at[m] = IF m \in Serves(route) THEN n ELSE blank.at[m]
            BY <5>2 DEF merged, Merge, Previous, Entry
          <5>4. /\ entry = [kind |-> "methods", at |-> entry.at]
                /\ DOMAIN entry.at = DOMAIN blank.at \cup Serves(route)
                /\ \A m \in DOMAIN entry.at :
                      entry.at[m] = IF m \in Serves(route) THEN n ELSE blank.at[m]
            BY <5>1, <5>3 DEF merged
          <5>5. entry.kind = "methods"
            BY <5>4
          <5>6. DOMAIN entry.at = Serves(route)
            BY <5>2, <5>4
          <5>7. QED
            BY <5>4, <5>5, <5>6
        <4>3. QED
          BY <4>1, <4>2
      <3> HIDE DEF entry, next, K, L
      <3>3. QED
        BY <3>1, <3>2 DEF entry
    <2>9. QED
      BY <2>7, <2>8
  <1>4. QED
    BY <1>2, <1>3

LEMMA TableLatest ==
    ASSUME NEW rs, NEW N \in Nat, NEW t, IsTable(t, rs, N),
           \A n \in 1..N : rs[n].method \in Slots,
           NEW key
    PROVE  \A n \in 0..N : Latest(t[n], rs, n, key)
  <1> DEFINE Wrong == {n \in 0..N : ~Latest(t[n], rs, n, key)}
  <1>1. SUFFICES ASSUME Wrong # {} PROVE FALSE
    OBVIOUS
  <1>2. PICK n \in Wrong : \A k \in Wrong : n <= k
    <2> HIDE DEF Wrong
    <2>1. QED
      BY <1>1, LeastNatural, Wrong \subseteq Nat DEF Wrong
  <1>3. t[n] = IF n = 0 THEN NoEntries ELSE BunEntry(t[n - 1], rs[n], n)
    BY <1>2 DEF IsTable
  <1>4. CASE n = 0
    <2>1. Before(rs, 0, key) = {} /\ key \notin DOMAIN NoEntries
      BY DEF Before, NoEntries
    <2>2. QED
      BY <1>2, <1>3, <1>4, <2>1 DEF Latest
  <1>5. CASE n # 0
    <2>1. n \in Nat \ {0} /\ n - 1 \in 0..N /\ n - 1 \notin Wrong /\ n \in 1..N
      BY <1>2, <1>5
    <2>2. Latest(t[n - 1], rs, n - 1, key)
      BY <2>1
    <2>3. Latest(BunEntry(t[n - 1], rs[n], n), rs, n, key)
      BY <2>1, <2>2, EntryLatest
    <2>4. QED
      BY <1>2, <1>3, <1>5, <2>3
  <1>6. QED
    BY <1>4, <1>5

Typed == routes \in Seq(Definitions)

LEMMA RoutesTyped == Spec => []Typed
  <1>1. Init => Typed
    BY DEF Init, Typed
  <1>2. Typed /\ [Next]_vars => Typed'
    <2> SUFFICES ASSUME Typed, [Next]_vars PROVE Typed'
      OBVIOUS
    <2>1. ASSUME NEW d \in Definitions, Register(d) PROVE Typed'
      BY <2>1 DEF Register, Typed
    <2>2. CASE Compile
      BY <2>2 DEF Compile, Typed
    <2>3. ASSUME NEW m \in Methods, NEW u \in Urls, Fetch(m, u) PROVE Typed'
      BY <2>3 DEF Fetch, FetchFull, FetchDynamic, FetchStatic, FetchFound, NotFound, Typed
    <2>4. CASE UNCHANGED vars
      BY <2>4 DEF vars, Typed
    <2>5. QED
      BY <2>1, <2>2, <2>3, <2>4 DEF Next
  <1>3. QED
    BY <1>1, <1>2, PTL DEF Spec

\* staticExact keeps the route written last.
LEMMA LastWritten ==
    ASSUME NEW rs, NEW m \in Methods, NEW route, ~IsDynamic(route.segs),
           NEW K, K = {k \in DOMAIN rs : Key(rs[k]) = Key(route)}, K \subseteq Nat \ {0},
           \A k \in K : rs[k].method \in Slots,
           NEW h \in K, m \in Serves(rs[h]),
           \A k \in K : m \in Serves(rs[k]) => k <= h
    PROVE  StaticRoute(rs, m, Path(route)) = h
  <1> DEFINE Written == {n \in DOMAIN rs : /\ ~IsDynamic(rs[n].segs)
                                           /\ Path(route).lead
                                           /\ rs[n].segs = Path(route).segs
                                           /\ rs[n].slash = Path(route).slash
                                           /\ rs[n].method \in {m, "ALL"}}
  <1>1. "ALL" \notin Methods
    BY DispatchAssumption
  <1>2. ASSUME NEW k \in K PROVE m \in Serves(rs[k]) <=> rs[k].method \in {m, "ALL"}
    BY <1>1, <1>2 DEF Serves, Slots
  <1>3. ASSUME NEW k \in DOMAIN rs
        PROVE  Key(rs[k]) = Key(route) <=> rs[k].segs = route.segs /\ rs[k].slash = route.slash
    BY DEF Key
  <1>4. Written = {k \in K : m \in Serves(rs[k])}
    BY <1>2, <1>3 DEF Path
  <1> HIDE DEF Written
  <1>5. h \in Written /\ \A k \in Written : k <= h
    BY <1>4
  <1>6. \A n \in Written : (\A k \in Written : k <= n) => n = h
    BY <1>4, <1>5
  <1>7. (CHOOSE n \in Written : \A k \in Written : k <= n) = h
    BY <1>5, <1>6
  <1>8. QED
    BY <1>5, <1>7 DEF StaticRoute, Written

\* For every list of routes: the table handed to Bun.serve sends a path whose routes
\* are of the usual form where the application's own dispatch sends it.
THEOREM TablesAgree == Spec => []DispatchesAgree
  <1>1. ASSUME Typed PROVE DispatchesAgree
    <2> DEFINE N == Len(routes)
    <2>1. N \in Nat /\ DOMAIN routes = 1..N
      BY <1>1 DEF Typed
    <2>2. \A n \in 1..N : routes[n] \in Definitions /\ routes[n].method \in Slots
      BY <1>1, <2>1, DispatchAssumption DEF Typed
    <2>3. PICK t : IsTable(t, routes, N) /\ BunRoutes(routes) = t[N]
      BY <2>1, TableUnfolds
    <2> HIDE DEF N
    <2>4. SUFFICES ASSUME NEW n \in 1..N,
                          \A k \in Siblings(n) : routes[k].form \in {"plain", "constant"}
                   PROVE  LET entry == t[N][Key(routes[n])]
                          IN /\ DOMAIN entry.at = UNION {Serves(routes[k]) : k \in Siblings(n)}
                             /\ ~IsDynamic(routes[n].segs) =>
                                  \A m \in DOMAIN entry.at :
                                    entry.at[m] = StaticRoute(routes, m, Path(routes[n]))
      BY <2>1, <2>3 DEF DispatchesAgree, Key
    <2> DEFINE key == Key(routes[n])
               K == Before(routes, N, key)
               entry == t[N][key]
    <2>5. Latest(t[N], routes, N, key)
      <3>1. \A i \in 0..N : Latest(t[i], routes, i, key)
        BY <2>1, <2>2, <2>3, TableLatest
      <3>2. QED
        BY <2>1, <3>1
    <2>6. K = Siblings(n) /\ n \in K /\ K = {k \in DOMAIN routes : Key(routes[k]) = Key(routes[n])}
      BY <2>1 DEF Before, Siblings, Key
    <2>7. \A k \in K : Usual(routes[k])
      BY <2>4, <2>6 DEF Usual
    <2>8. /\ \A m : m \in DOMAIN entry.at <=> \E k \in K : m \in Serves(routes[k])
          /\ \A m \in DOMAIN entry.at :
              /\ entry.at[m] \in K /\ m \in Serves(routes[entry.at[m]])
              /\ \A k \in K : m \in Serves(routes[k]) => k <= entry.at[m]
      BY <2>5, <2>6, <2>7 DEF Latest
    <2> HIDE DEF K, entry
    <2>9. DOMAIN entry.at = UNION {Serves(routes[k]) : k \in Siblings(n)}
      BY <2>6, <2>8
    <2>10. ASSUME ~IsDynamic(routes[n].segs), NEW m \in DOMAIN entry.at
           PROVE  entry.at[m] = StaticRoute(routes, m, Path(routes[n]))
      <3>1. K \subseteq Nat \ {0} /\ \A k \in K : routes[k].method \in Slots
        BY <2>1, <2>2, <2>6
      <3>2. m \in Methods
        <4>1. PICK k \in K : m \in Serves(routes[k])
          BY <2>8
        <4>2. QED
          BY <3>1, <4>1 DEF Serves, Slots
      <3> DEFINE route == routes[n]
                 h == entry.at[m]
      <3>3. h \in K /\ m \in Serves(routes[h]) /\ \A k \in K : m \in Serves(routes[k]) => k <= h
        BY <2>8
      <3>4. K = {k \in DOMAIN routes : Key(routes[k]) = Key(route)} /\ ~IsDynamic(route.segs)
        BY <2>6, <2>10
      <3> HIDE DEF route, h
      <3>5. StaticRoute(routes, m, Path(route)) = h
        BY <3>1, <3>2, <3>3, <3>4, LastWritten
      <3>6. QED
        BY <3>5 DEF route, h
    <2>11. QED
      BY <2>9, <2>10 DEF entry
  <1>2. QED
    BY <1>1, RoutesTyped, PTL

-----------------------------------------------------------------------------
(* The nodes of the trie. *)

Edges == STRING \cup {ParamEdge, WildEdge}
Leaf(route) == NodeAt(route.segs, Len(route.segs))
OnWay(route, a) == \E i \in 0..Len(route.segs) : a = NodeAt(route.segs, i)

LEMMA NodeIsSeq ==
    ASSUME NEW p \in Seq(STRING), NEW i \in 0..Len(p)
    PROVE  /\ NodeAt(p, i) \in Seq(Edges) /\ Len(NodeAt(p, i)) = i
           /\ \A j \in 1..i : NodeAt(p, i)[j] = Edge(p[j])
  <1>1. \A j \in 1..i : Edge(p[j]) \in Edges
    BY DEF Edge, Edges
  <1>2. NodeAt(p, i) \in [1..i -> Edges]
    BY <1>1 DEF NodeAt
  <1>3. QED
    BY <1>2 DEF NodeAt

\* One part further, the node is one edge deeper.
LEMMA NodeGrows ==
    ASSUME NEW p \in Seq(STRING), NEW i \in Nat, i < Len(p)
    PROVE  NodeAt(p, i + 1) = Append(NodeAt(p, i), Edge(p[i + 1]))
  <1>1. /\ NodeAt(p, i) \in Seq(Edges) /\ Len(NodeAt(p, i)) = i
        /\ \A j \in 1..i : NodeAt(p, i)[j] = Edge(p[j])
    BY NodeIsSeq
  <1>2. /\ NodeAt(p, i + 1) \in Seq(Edges) /\ Len(NodeAt(p, i + 1)) = i + 1
        /\ \A j \in 1..(i + 1) : NodeAt(p, i + 1)[j] = Edge(p[j])
    BY NodeIsSeq
  <1>3. Edge(p[i + 1]) \in Edges
    BY DEF Edge, Edges
  <1> DEFINE deeper == Append(NodeAt(p, i), Edge(p[i + 1]))
  <1>4. /\ deeper \in Seq(Edges) /\ Len(deeper) = i + 1
        /\ \A j \in 1..(i + 1) : deeper[j] = Edge(p[j])
    BY <1>1, <1>3
  <1> HIDE DEF deeper
  <1>5. NodeAt(p, i + 1) = deeper
    BY <1>2, <1>4
  <1>6. QED
    BY <1>5 DEF deeper

LEMMA NodeSplits ==
    ASSUME NEW p \in Seq(STRING), NEW a \in Seq(Edges), NEW e \in Edges, Len(a) < Len(p),
           NodeAt(p, Len(a) + 1) = Append(a, e)
    PROVE  NodeAt(p, Len(a)) = a /\ Edge(p[Len(a) + 1]) = e
  <1> DEFINE i == Len(a)
  <1>1. /\ NodeAt(p, i) \in Seq(Edges) /\ Len(NodeAt(p, i)) = i
        /\ \A j \in 1..i : NodeAt(p, i)[j] = Edge(p[j])
    BY NodeIsSeq
  <1>2. \A j \in 1..(i + 1) : Append(a, e)[j] = Edge(p[j])
    BY NodeIsSeq
  <1>3. \A j \in 1..i : a[j] = Edge(p[j])
    BY <1>2
  <1>4. QED
    BY <1>1, <1>2, <1>3

\* A node is on the way of a pattern where the pattern is as long as the node is deep.
LEMMA WayAtDepth ==
    ASSUME NEW route, route.segs \in Seq(STRING), NEW a
    PROVE  OnWay(route, a) <=> Len(a) \in 0..Len(route.segs) /\ NodeAt(route.segs, Len(a)) = a
  BY NodeIsSeq DEF OnWay

\* Parts that share an edge are of a kind.
LEMMA EdgeTellsKind ==
    ASSUME NEW s, s \notin {ParamEdge, WildEdge}, NEW t, t \notin {ParamEdge, WildEdge}
    PROVE  /\ Edge(s) = ParamEdge <=> s \in Colon
           /\ Edge(s) = WildEdge <=> s = Star
           /\ Edge(s) = t <=> s = t /\ s \notin Colon /\ s # Star
           /\ Edge(s) = Edge(t) => Rank(s) = Rank(t)
  BY SegmentAssumption DEF Edge, Rank, ParamEdge, WildEdge

-----------------------------------------------------------------------------
(* What Router.add makes of the trie, route by route. *)

\* A route has a parameter at the node a.
Names(route, a) ==
    OnWay(route, a) /\ Len(a) < Len(route.segs) /\ route.segs[Len(a) + 1] \in Colon

\* The nodes of a trie are those on the ways of the first n routes; the handlers of a
\* node belong to routes that end there, and each of these finds the slot of its method
\* taken; a node has the name of a parameter as soon as a route has one there.
TrieOf(trie, rs, n) ==
    /\ \A a : a \in DOMAIN trie <=> a = <<>> \/ \E k \in 1..n : OnWay(rs[k], a)
    /\ \A a \in DOMAIN trie :
        /\ trie[a] = [paramName |-> trie[a].paramName, handlers |-> trie[a].handlers]
        /\ trie[a].handlers \in [Slots -> 0..n]
        /\ \A s \in Slots : trie[a].handlers[s] # 0 =>
            LET k == trie[a].handlers[s] IN Leaf(rs[k]) = a /\ rs[k].method \in {s, "ALL"}
        /\ \A k \in 1..n : Leaf(rs[k]) = a => trie[a].handlers[rs[k].method] # 0
        /\ trie[a].paramName # "" => \E k \in 1..n :
            Names(rs[k], a) /\ rs[k].segs[Len(a) + 1] = trie[a].paramName
        /\ \A k \in 1..n : Names(rs[k], a) => trie[a].paramName # ""

\* A node before add(), and what it has then.
OldNode(trie, a) == IF a \in DOMAIN trie THEN trie[a] ELSE NewNode
NewName(trie, route, a) ==
    IF Names(route, a) /\ OldNode(trie, a).paramName = ""
    THEN route.segs[Len(a) + 1] ELSE OldNode(trie, a).paramName
NewHandlers(trie, route, n, a) ==
    IF a = Leaf(route) THEN setHandler(OldNode(trie, a).handlers, route.method, n)
    ELSE OldNode(trie, a).handlers

\* add() leaves the other nodes alone, and creates those on the way.
LEMMA AddTrie ==
    ASSUME NEW router, NEW route, NEW n, route.segs \in Seq(STRING),
           \A a \in DOMAIN router.trie :
               router.trie[a] = [paramName |-> router.trie[a].paramName,
                                 handlers |-> router.trie[a].handlers]
    PROVE  LET next == Add(router, route.method, route.segs, n).trie
           IN /\ \A a : a \in DOMAIN next <=> a \in DOMAIN router.trie \/ OnWay(route, a)
              /\ \A a \in DOMAIN next : next[a] =
                    [paramName |-> NewName(router.trie, route, a),
                     handlers |-> NewHandlers(router.trie, route, n, a)]
  <1> DEFINE trie == router.trie
             pattern == route.segs
             grown == Grow(trie, pattern)
             next == Add(router, route.method, pattern, n).trie
             Old(a) == OldNode(trie, a)
             Name(a) == NewName(trie, route, a)
             leaf == Leaf(route)
             Way == {NodeAt(pattern, i) : i \in 0..Len(pattern)}
  <1>1. \A a : a \in Way <=> OnWay(route, a)
    BY DEF OnWay
  <1>2. leaf \in Way
    <2>1. Len(pattern) \in 0..Len(pattern)
      OBVIOUS
    <2>2. QED
      BY <2>1 DEF Leaf
  <1>3. DOMAIN grown = DOMAIN trie \cup Way
    BY DEF Grow
  <1>4. ASSUME NEW a \in DOMAIN grown
        PROVE  grown[a] = [paramName |-> Name(a), handlers |-> Old(a).handlers]
    <2>1. Old(a) = [paramName |-> Old(a).paramName, handlers |-> Old(a).handlers]
      BY DEF OldNode, NewNode
    <2>2. CASE a \in Way
      <3>1. grown[a] = IF Old(a).paramName = "" /\ Len(a) < Len(pattern) /\ pattern[Len(a) + 1] \in Colon
                       THEN [Old(a) EXCEPT !.paramName = pattern[Len(a) + 1]]
                       ELSE Old(a)
        BY <1>3, <2>2 DEF Grow, OldNode
      <3> HIDE DEF Old, grown, Way
      <3>2. CASE Old(a).paramName = "" /\ Len(a) < Len(pattern) /\ pattern[Len(a) + 1] \in Colon
        BY <1>1, <2>1, <2>2, <3>1, <3>2 DEF NewName, Names, Old
      <3>3. CASE ~(Old(a).paramName = "" /\ Len(a) < Len(pattern) /\ pattern[Len(a) + 1] \in Colon)
        BY <1>1, <2>1, <2>2, <3>1, <3>3 DEF NewName, Names, Old
      <3>4. QED
        BY <3>2, <3>3
    <2>3. CASE a \notin Way
      <3>1. grown[a] = trie[a] /\ a \in DOMAIN trie
        BY <1>3, <2>3 DEF Grow
      <3>2. Name(a) = Old(a).paramName
        BY <1>1, <2>3 DEF NewName, Names
      <3>3. QED
        BY <2>1, <3>1, <3>2 DEF OldNode
    <2>4. QED
      BY <2>2, <2>3
  <1>5. next = [grown EXCEPT ![leaf].handlers = setHandler(@, route.method, n)]
    BY DEF Add, Leaf
  <1> HIDE DEF grown, Old, Name, leaf, next, Way
  <1>6. DOMAIN next = DOMAIN trie \cup Way
    BY <1>3, <1>5
  <1>7. ASSUME NEW a \in DOMAIN next
        PROVE  next[a] = [paramName |-> Name(a),
                          handlers |-> IF a = leaf THEN setHandler(Old(a).handlers, route.method, n)
                                       ELSE Old(a).handlers]
    <2>1. a \in DOMAIN grown
      BY <1>3, <1>6
    <2>2. CASE a = leaf
      <3>1. next[a] = [grown[a] EXCEPT !.handlers = setHandler(@, route.method, n)]
        BY <1>5, <2>1, <2>2
      <3>2. QED
        BY <1>4, <2>1, <2>2, <3>1
    <2>3. CASE a # leaf
      BY <1>4, <1>5, <2>1, <2>3
    <2>4. QED
      BY <2>2, <2>3
  <1>8. QED
    BY <1>1, <1>6, <1>7 DEF next, Old, Name, leaf, NewHandlers

\* setHandler fills the slot of its method, and "ALL" only slots that are free.
Filled(new, old, method, n) ==
    /\ new \in [Slots -> 0..n]
    /\ \A s \in Slots : new[s] = old[s] \/ (new[s] = n /\ method \in {s, "ALL"})
    /\ \A s \in Slots : old[s] # 0 => new[s] # 0
    /\ new[method] # 0

LEMMA SetHandlerFills ==
    ASSUME NEW n \in Nat \ {0}, NEW old \in [Slots -> 0..(n - 1)], NEW method \in Slots
    PROVE  Filled(setHandler(old, method, n), old, method, n)
  <1> DEFINE new == setHandler(old, method, n)
  <1>1. CASE method = "ALL"
    <2>1. new = [s \in Slots |-> IF s = "ALL" \/ (s \in Verbs /\ old[s] = 0) THEN n ELSE old[s]]
      BY <1>1 DEF setHandler
    <2>2. ASSUME NEW s \in Slots
          PROVE  /\ new[s] \in 0..n
                 /\ new[s] = old[s] \/ new[s] = n
                 /\ old[s] # 0 => new[s] # 0
      <3>1. CASE s = "ALL" \/ (s \in Verbs /\ old[s] = 0)
        BY <2>1, <3>1
      <3>2. CASE ~(s = "ALL" \/ (s \in Verbs /\ old[s] = 0))
        BY <2>1, <3>2
      <3>3. QED
        BY <3>1, <3>2
    <2>3. new[method] = n
      BY <1>1, <2>1
    <2>4. new \in [Slots -> 0..n]
      BY <2>1, <2>2
    <2>5. QED
      BY <1>1, <2>2, <2>3, <2>4 DEF Filled
  <1>2. CASE method # "ALL"
    BY <1>2 DEF setHandler, Filled
  <1>3. QED
    BY <1>1, <1>2

LEMMA TrieGrows ==
    ASSUME NEW router, NEW rs, NEW n \in Nat \ {0}, TrieOf(router.trie, rs, n - 1),
           \A k \in 1..n : rs[k].segs \in Seq(STRING) /\ rs[k].method \in Slots
    PROVE  TrieOf(Add(router, rs[n].method, rs[n].segs, n).trie, rs, n)
  <1> DEFINE trie == router.trie
             route == rs[n]
             next == Add(router, route.method, route.segs, n).trie
             Old(a) == OldNode(trie, a)
  <1>1. 1..n = (1..(n - 1)) \cup {n} /\ n \notin 1..(n - 1)
    OBVIOUS
  <1>2. /\ \A a : a \in DOMAIN next <=> a \in DOMAIN trie \/ OnWay(route, a)
        /\ \A a \in DOMAIN next :
              next[a] = [paramName |-> NewName(trie, route, a), handlers |-> NewHandlers(trie, route, n, a)]
    <2>1. \A a \in DOMAIN trie :
              trie[a] = [paramName |-> trie[a].paramName, handlers |-> trie[a].handlers]
      BY DEF TrieOf
    <2>2. route.segs \in Seq(STRING)
      BY <1>1
    <2>3. QED
      BY <2>1, <2>2, AddTrie
  <1>3. ASSUME NEW a PROVE a \in DOMAIN next <=> a = <<>> \/ \E k \in 1..n : OnWay(rs[k], a)
    BY <1>1, <1>2 DEF TrieOf
  <1>4. ASSUME NEW a, a \notin DOMAIN trie, NEW k \in 1..(n - 1) PROVE ~OnWay(rs[k], a)
    BY <1>4 DEF TrieOf
  <1>5. ASSUME NEW k, rs[k].segs \in Seq(STRING) PROVE OnWay(rs[k], Leaf(rs[k]))
    <2>1. Len(rs[k].segs) \in 0..Len(rs[k].segs)
      BY <1>5
    <2>2. QED
      BY <2>1 DEF OnWay, Leaf
  <1> HIDE DEF next
  <1>6. ASSUME NEW a \in DOMAIN next
        PROVE  /\ Old(a).handlers \in [Slots -> 0..(n - 1)]
               /\ \A s \in Slots : Old(a).handlers[s] # 0 =>
                    LET k == Old(a).handlers[s] IN Leaf(rs[k]) = a /\ rs[k].method \in {s, "ALL"}
               /\ \A k \in 1..(n - 1) : Leaf(rs[k]) = a /\ a \in DOMAIN trie =>
                    Old(a).handlers[rs[k].method] # 0
               /\ Old(a).paramName # "" => \E k \in 1..(n - 1) :
                    Names(rs[k], a) /\ rs[k].segs[Len(a) + 1] = Old(a).paramName
               /\ \A k \in 1..(n - 1) : Names(rs[k], a) => Old(a).paramName # ""
    <2>1. CASE a \in DOMAIN trie
      BY <2>1 DEF TrieOf, OldNode
    <2>2. CASE a \notin DOMAIN trie
      BY <1>4, <2>2 DEF NewNode, OldNode, Names
    <2>3. QED
      BY <2>1, <2>2
  <1> HIDE DEF Old
  <1>7. ASSUME NEW a \in DOMAIN next
        PROVE  /\ next[a] = [paramName |-> next[a].paramName, handlers |-> next[a].handlers]
               /\ next[a].handlers = IF a = Leaf(route)
                                     THEN setHandler(Old(a).handlers, route.method, n)
                                     ELSE Old(a).handlers
               /\ next[a].paramName = IF Names(route, a) /\ Old(a).paramName = ""
                                      THEN route.segs[Len(a) + 1] ELSE Old(a).paramName
    <2>1. next[a] = [paramName |-> NewName(trie, route, a),
                     handlers |-> NewHandlers(trie, route, n, a)]
      BY <1>2
    <2> HIDE DEF route, trie
    <2>2. next[a].paramName = NewName(trie, route, a) /\ next[a].handlers = NewHandlers(trie, route, n, a)
      BY <2>1
    <2>3. QED
      BY <2>1, <2>2 DEF NewName, NewHandlers, Old
  <1>8. ASSUME NEW a \in DOMAIN next
        PROVE  /\ next[a].handlers \in [Slots -> 0..n]
               /\ \A s \in Slots : next[a].handlers[s] # 0 =>
                    LET k == next[a].handlers[s] IN Leaf(rs[k]) = a /\ rs[k].method \in {s, "ALL"}
               /\ \A s \in Slots : Old(a).handlers[s] # 0 => next[a].handlers[s] # 0
               /\ Leaf(route) = a => next[a].handlers[route.method] # 0
    <2>1. CASE a = Leaf(route)
      <3> DEFINE new == setHandler(Old(a).handlers, route.method, n)
      <3>1. Filled(new, Old(a).handlers, route.method, n)
        <4>1. Old(a).handlers \in [Slots -> 0..(n - 1)] /\ route.method \in Slots
          BY <1>1, <1>6
        <4>2. QED
          BY <4>1, SetHandlerFills
      <3>2. next[a].handlers = new
        BY <1>7, <2>1
      <3> HIDE DEF new
      <3>3. QED
        BY <1>6, <2>1, <3>1, <3>2 DEF Filled
    <2>2. CASE a # Leaf(route)
      <3>1. next[a].handlers = Old(a).handlers
        BY <1>7, <2>2
      <3>2. Old(a).handlers \in [Slots -> 0..n]
        <4>1. Old(a).handlers \in [Slots -> 0..(n - 1)]
          BY <1>6
        <4>2. 0..(n - 1) \subseteq 0..n
          OBVIOUS
        <4>3. QED
          BY <4>1, <4>2
      <3>3. QED
        BY <1>6, <2>2, <3>1, <3>2
    <2>3. QED
      BY <2>1, <2>2
  <1>9. ASSUME NEW a \in DOMAIN next, NEW k \in 1..n, Leaf(rs[k]) = a
        PROVE  next[a].handlers[rs[k].method] # 0
    <2>1. CASE k = n
      BY <1>8, <1>9, <2>1
    <2>2. CASE k \in 1..(n - 1)
      <3>1. a \in DOMAIN trie
        BY <1>4, <1>5, <1>9, <2>2
      <3>2. QED
        BY <1>6, <1>8, <1>9, <2>2, <3>1
    <2>3. QED
      BY <1>1, <2>1, <2>2
  <1>10. ASSUME NEW a \in DOMAIN next
         PROVE  /\ next[a].paramName # "" => \E k \in 1..n :
                    Names(rs[k], a) /\ rs[k].segs[Len(a) + 1] = next[a].paramName
                /\ \A k \in 1..n : Names(rs[k], a) => next[a].paramName # ""
    <2>1. CASE Names(route, a) /\ Old(a).paramName = ""
      <3>1. next[a].paramName = route.segs[Len(a) + 1] /\ route.segs[Len(a) + 1] \in Colon
        BY <1>7, <2>1 DEF Names
      <3>2. next[a].paramName # ""
        BY <3>1, SegmentAssumption
      <3>3. QED
        BY <1>1, <2>1, <3>1, <3>2
    <2>2. CASE ~(Names(route, a) /\ Old(a).paramName = "")
      BY <1>1, <1>6, <1>7, <2>2
    <2>3. QED
      BY <2>1, <2>2
  <1>11. QED
    BY <1>3, <1>7, <1>8, <1>9, <1>10 DEF TrieOf, next

-----------------------------------------------------------------------------
(* What Router.add makes of a router, and buildRouteIndex of all routes. *)

\* The static table of a router has the routes without parameters, under their method.
StaticsOf(statics, rs, n) ==
    /\ \A k \in 1..n : ~IsDynamic(rs[k].segs) => <<rs[k].method, rs[k].segs>> \in DOMAIN statics
    /\ \A x \in DOMAIN statics :
        LET k == statics[x]
        IN k \in 1..n /\ ~IsDynamic(rs[k].segs) /\ x = <<rs[k].method, rs[k].segs>>

\* A router that has the first n routes.
RouterHas(router, rs, n) ==
    /\ TrieOf(router.trie, rs, n)
    /\ StaticsOf(router.statics, rs, n)
    /\ router.hasDynamic <=> \E k \in 1..n : IsDynamic(rs[k].segs)

LEMMA StaticsGrow ==
    ASSUME NEW statics, NEW rs, NEW n \in Nat \ {0}, StaticsOf(statics, rs, n - 1)
    PROVE  StaticsOf(IF IsDynamic(rs[n].segs) THEN statics
                     ELSE Put(statics, <<rs[n].method, rs[n].segs>>, n), rs, n)
  <1>1. 1..n = (1..(n - 1)) \cup {n} /\ n \notin 1..(n - 1)
    OBVIOUS
  <1>2. CASE IsDynamic(rs[n].segs)
    BY <1>1, <1>2 DEF StaticsOf
  <1>3. CASE ~IsDynamic(rs[n].segs)
    <2> DEFINE new == <<rs[n].method, rs[n].segs>>
               next == Put(statics, new, n)
    <2>1. DOMAIN next = DOMAIN statics \cup {new} /\ next[new] = n
          /\ \A x \in DOMAIN statics : x # new => next[x] = statics[x]
      BY DEF Put
    <2> HIDE DEF next
    <2>2. \A k \in 1..n : ~IsDynamic(rs[k].segs) => <<rs[k].method, rs[k].segs>> \in DOMAIN next
      BY <1>1, <2>1 DEF StaticsOf
    <2>3. ASSUME NEW x \in DOMAIN next
          PROVE  LET k == next[x]
                 IN k \in 1..n /\ ~IsDynamic(rs[k].segs) /\ x = <<rs[k].method, rs[k].segs>>
      <3>1. CASE x = new
        BY <1>1, <1>3, <2>1, <3>1
      <3>2. CASE x # new
        BY <1>1, <2>1, <3>2 DEF StaticsOf
      <3>3. QED
        BY <3>1, <3>2
    <2>4. StaticsOf(next, rs, n)
      BY <2>2, <2>3 DEF StaticsOf
    <2>5. QED
      BY <1>3, <2>4 DEF next
  <1>4. QED
    BY <1>2, <1>3

LEMMA RouterGrows ==
    ASSUME NEW router, NEW rs, NEW n \in Nat \ {0}, RouterHas(router, rs, n - 1),
           \A k \in 1..n : rs[k].segs \in Seq(STRING) /\ rs[k].method \in Slots
    PROVE  RouterHas(Add(router, rs[n].method, rs[n].segs, n), rs, n)
  <1> DEFINE next == Add(router, rs[n].method, rs[n].segs, n)
  <1>1. TrieOf(next.trie, rs, n)
    BY TrieGrows DEF RouterHas
  <1>2. StaticsOf(next.statics, rs, n)
    <2>1. next.statics = IF IsDynamic(rs[n].segs) THEN router.statics
                         ELSE Put(router.statics, <<rs[n].method, rs[n].segs>>, n)
      BY DEF Add
    <2> HIDE DEF next
    <2>2. StaticsOf(router.statics, rs, n - 1)
      BY DEF RouterHas
    <2>3. QED
      BY <2>1, <2>2, StaticsGrow
  <1>3. next.hasDynamic <=> \E k \in 1..n : IsDynamic(rs[k].segs)
    <2>1. next.hasDynamic <=> router.hasDynamic \/ IsDynamic(rs[n].segs)
      BY DEF Add
    <2>2. 1..n = (1..(n - 1)) \cup {n}
      OBVIOUS
    <2> HIDE DEF next
    <2>3. QED
      BY <2>1, <2>2 DEF RouterHas
  <1> HIDE DEF next
  <1>4. RouterHas(next, rs, n)
    BY <1>1, <1>2, <1>3 DEF RouterHas
  <1>5. QED
    BY <1>4 DEF next

LEMMA NewRouterHas == ASSUME NEW rs PROVE RouterHas(NewRouter, rs, 0)
  <1>1. 1..0 = {}
    OBVIOUS
  <1>2. StaticsOf(NewRouter.statics, rs, 0)
    BY <1>1 DEF NewRouter, StaticsOf
  <1>3. /\ DOMAIN NewRouter.trie = {<<>>}
        /\ \A a \in DOMAIN NewRouter.trie : NewRouter.trie[a] = NewNode
    BY DEF NewRouter
  <1>4. NewNode.handlers \in [Slots -> 0..0] /\ (\A s \in Slots : NewNode.handlers[s] = 0)
        /\ NewNode.paramName = ""
        /\ NewNode = [paramName |-> NewNode.paramName, handlers |-> NewNode.handlers]
    BY DEF NewNode
  <1>5. TrieOf(NewRouter.trie, rs, 0)
    BY <1>1, <1>3, <1>4 DEF TrieOf
  <1>6. ~NewRouter.hasDynamic
    BY DEF NewRouter
  <1>7. QED
    BY <1>1, <1>2, <1>5, <1>6 DEF RouterHas

IsBuilt(b, rs, N) ==
    b = [n \in 0..N |-> IF n = 0 THEN NewRouter ELSE Add(b[n - 1], rs[n].method, rs[n].segs, n)]

\* The recursive definition of RouterOf defines something.
LEMMA BuiltExists ==
    ASSUME NEW rs, NEW N \in Nat
    PROVE  \E b : IsBuilt(b, rs, N)
  <1> DEFINE Missing == {n \in Nat : ~\E b : IsBuilt(b, rs, n)}
             Next1(b, n) == Add(b[n - 1], rs[n].method, rs[n].segs, n)
  <1>1. SUFFICES ASSUME Missing # {} PROVE FALSE
    OBVIOUS
  <1>2. PICK n \in Missing : \A k \in Missing : n <= k
    <2> HIDE DEF Missing
    <2>1. QED
      BY <1>1, LeastNatural, Missing \subseteq Nat DEF Missing
  <1>3. CASE n = 0
    <2> DEFINE b == [k \in 0..0 |-> NewRouter]
    <2>1. IsBuilt(b, rs, 0)
      BY DEF IsBuilt
    <2>2. QED
      BY <1>2, <1>3, <2>1
  <1>4. CASE n # 0
    <2>1. n - 1 \in Nat /\ n - 1 \notin Missing
      BY <1>2, <1>4
    <2>2. PICK s : IsBuilt(s, rs, n - 1)
      BY <2>1
    <2> DEFINE b == [k \in 0..n |-> IF k = n THEN Next1(s, n) ELSE s[k]]
    <2>3. ASSUME NEW k \in 0..n PROVE b[k] = IF k = 0 THEN NewRouter ELSE Next1(b, k)
      <3>1. CASE k = n
        <4>1. k - 1 \in 0..n /\ k - 1 # n /\ k # 0
          BY <1>2, <1>4, <3>1
        <4>2. b[k - 1] = s[k - 1]
          BY <4>1
        <4>3. QED
          BY <3>1, <4>1, <4>2
      <3>2. CASE k # n
        <4>1. k \in 0..(n - 1) /\ b[k] = s[k]
          BY <1>2, <3>2
        <4>2. s[k] = IF k = 0 THEN NewRouter ELSE Next1(s, k)
          BY <2>2, <4>1 DEF IsBuilt
        <4>3. k # 0 => b[k - 1] = s[k - 1]
          BY <1>2, <4>1
        <4>4. QED
          BY <4>1, <4>2, <4>3
      <3>3. QED
        BY <3>1, <3>2
    <2>4. IsBuilt(b, rs, n)
      <3> DEFINE u == [k \in 0..n |-> IF k = 0 THEN NewRouter ELSE Next1(b, k)]
      <3>1. b = [k \in 0..n |-> b[k]]
        OBVIOUS
      <3> HIDE DEF b
      <3>2. b = u
        BY <2>3, <3>1
      <3>3. QED
        BY <3>2 DEF IsBuilt
    <2>5. QED
      BY <1>2, <2>4
  <1>5. QED
    BY <1>3, <1>4

\* What the routes of an application are.
Routes(rs) ==
    /\ Len(rs) \in Nat /\ DOMAIN rs = 1..Len(rs)
    /\ \A k \in 1..Len(rs) :
        /\ rs[k].segs \in Seq(STRING) /\ rs[k].method \in Slots
        /\ \A i \in 1..Len(rs[k].segs) : rs[k].segs[i] \notin {ParamEdge, WildEdge}

LEMMA TypedRoutes == ASSUME NEW rs \in Seq(Definitions) PROVE Routes(rs)
  <1>1. \A k \in 1..Len(rs) : rs[k] \in Definitions
    OBVIOUS
  <1>2. \A d \in Definitions : d.segs \in Seq(STRING) /\ d.method \in Slots
    BY DispatchAssumption
  <1>3. \A d \in Definitions : \A i \in 1..Len(d.segs) : d.segs[i] \notin {ParamEdge, WildEdge}
    <2>1. TAKE d \in Definitions
    <2>2. DOMAIN d.segs = 1..Len(d.segs)
      BY <1>2
    <2>3. QED
      BY <2>2, SegmentAssumption
  <1>4. QED
    BY <1>1, <1>2, <1>3 DEF Routes

\* buildRouteIndex: the router has all routes.
LEMMA RouterOfHas ==
    ASSUME NEW rs, Routes(rs)
    PROVE  RouterHas(RouterOf(rs), rs, Len(rs))
  <1> DEFINE N == Len(rs)
             b == CHOOSE s : IsBuilt(s, rs, N)
             Wrong == {n \in 0..N : ~RouterHas(b[n], rs, n)}
  <1>1. N \in Nat
    BY DEF Routes
  <1>2. IsBuilt(b, rs, N)
    BY <1>1, BuiltExists
  <1>3. RouterOf(rs) = b[N]
    BY DEF RouterOf, IsBuilt
  <1> HIDE DEF b
  <1>4. ASSUME Wrong # {} PROVE FALSE
    <2>1. PICK n \in Wrong : \A k \in Wrong : n <= k
      <3> HIDE DEF Wrong
      <3>1. QED
        BY <1>1, <1>4, LeastNatural, Wrong \subseteq Nat DEF Wrong
    <2>2. b[n] = IF n = 0 THEN NewRouter ELSE Add(b[n - 1], rs[n].method, rs[n].segs, n)
      BY <1>2, <2>1 DEF IsBuilt
    <2>3. CASE n = 0
      BY <2>1, <2>2, <2>3, NewRouterHas
    <2>4. CASE n # 0
      <3>1. n \in Nat \ {0} /\ n - 1 \in 0..N /\ n - 1 \notin Wrong
        BY <1>1, <2>1, <2>4
      <3>2. RouterHas(b[n - 1], rs, n - 1)
        BY <3>1
      <3>3. \A k \in 1..n : rs[k].segs \in Seq(STRING) /\ rs[k].method \in Slots
        BY <1>1, <2>1 DEF Routes
      <3>4. RouterHas(Add(b[n - 1], rs[n].method, rs[n].segs, n), rs, n)
        BY <3>1, <3>2, <3>3, RouterGrows
      <3>5. QED
        BY <2>1, <2>2, <2>4, <3>4
    <2>5. QED
      BY <2>3, <2>4
  <1>5. RouterHas(b[N], rs, N)
    BY <1>1, <1>4
  <1>6. QED
    BY <1>3, <1>5

-----------------------------------------------------------------------------
(* Which routes are below a node, and which of them is the best. *)

AgreesAfter(p, path, i, k) ==
    \A j \in (i + 1)..k : p[j] # Star /\ (p[j] \in Colon \/ p[j] = path[j])

\* What Fits asks of the parts after the first i.
FitsAfter(p, path, i) ==
    \/ Len(p) = Len(path) /\ AgreesAfter(p, path, i, Len(path))
    \/ /\ Len(p) > i /\ p[Len(p)] = Star
       /\ Len(p) - 1 <= Len(path)
       /\ AgreesAfter(p, path, i, Len(p) - 1)

Segments(path) ==
    /\ path \in Seq(STRING)
    /\ \A i \in 1..Len(path) : path[i] \notin {ParamEdge, WildEdge}

\* The routes that a request that has come to the node a may still be for; those that
\* end at it; and those that end with a wildcard there.
CandidatesAt(rs, m, path, a) ==
    {k \in 1..Len(rs) : m \in Serves(rs[k]) /\ OnWay(rs[k], a) /\ FitsAfter(rs[k].segs, path, Len(a))}
EndsAt(rs, m, a) == {k \in 1..Len(rs) : m \in Serves(rs[k]) /\ Leaf(rs[k]) = a}
CatchAlls(rs, m, a) == EndsAt(rs, m, Append(a, WildEdge))

\* h is the best of C, or nothing if C is empty.
Best(rs, C, h) ==
    IF h = 0 THEN C = {}
    ELSE h \in C /\ \A k \in C : ~MoreSpecific(rs[k].segs, rs[h].segs)

Either(h1, h2) == IF h1 # 0 THEN h1 ELSE h2

LEMMA BestOfBoth ==
    ASSUME NEW rs, NEW C1, NEW C2, NEW h1, NEW h2, Best(rs, C1, h1), Best(rs, C2, h2),
           \A k \in C2, h \in C1 : ~MoreSpecific(rs[k].segs, rs[h].segs)
    PROVE  Best(rs, C1 \cup C2, Either(h1, h2))
  <1>1. CASE h1 # 0
    <2>1. Either(h1, h2) = h1
      BY <1>1 DEF Either
    <2>2. QED
      BY <1>1, <2>1 DEF Best
  <1>2. CASE h1 = 0
    <2>1. Either(h1, h2) = h2
      BY <1>2 DEF Either
    <2>2. QED
      BY <1>2, <2>1 DEF Best
  <1>3. QED
    BY <1>1, <1>2

LEMMA FitsFromRoot ==
    ASSUME NEW p \in Seq(STRING), NEW path \in Seq(STRING)
    PROVE  Fits(p, path) <=> FitsAfter(p, path, 0)
  <1>1. \A k : Agrees(p, path, k) <=> AgreesAfter(p, path, 0, k)
    BY DEF Agrees, AgreesAfter
  <1>2. p # <<>> <=> Len(p) > 0
    OBVIOUS
  <1>3. QED
    BY <1>1, <1>2 DEF Fits, FitsAfter

\* Routes below one node are alike up to it.
LEMMA AlikeAbove ==
    ASSUME NEW rs, Routes(rs), NEW k \in 1..Len(rs), NEW h \in 1..Len(rs), NEW a,
           OnWay(rs[k], a), OnWay(rs[h], a)
    PROVE  /\ Len(a) \in Nat /\ Len(a) <= Len(rs[k].segs) /\ Len(a) <= Len(rs[h].segs)
           /\ \A j \in 1..Len(a) : Rank(rs[k].segs[j]) = Rank(rs[h].segs[j])
  <1> DEFINE p == rs[k].segs
             q == rs[h].segs
  <1>1. p \in Seq(STRING) /\ q \in Seq(STRING) /\ Len(p) \in Nat /\ Len(q) \in Nat
    BY DEF Routes
  <1>2. /\ Len(a) \in 0..Len(p) /\ NodeAt(p, Len(a)) = a
        /\ Len(a) \in 0..Len(q) /\ NodeAt(q, Len(a)) = a
    BY <1>1, WayAtDepth
  <1>3. ASSUME NEW j \in 1..Len(a) PROVE Rank(p[j]) = Rank(q[j])
    <2>1. a[j] = Edge(p[j]) /\ a[j] = Edge(q[j])
      BY <1>1, <1>2, NodeIsSeq
    <2>2. p[j] \notin {ParamEdge, WildEdge} /\ q[j] \notin {ParamEdge, WildEdge}
      BY <1>1, <1>2 DEF Routes
    <2>3. QED
      BY <2>1, <2>2, EdgeTellsKind
  <1>4. QED
    BY <1>1, <1>2, <1>3

\* A pattern that is alike up to a part and then less specific is not more specific.
LEMMA LaterIsNotBetter ==
    ASSUME NEW p \in Seq(STRING), NEW q \in Seq(STRING), NEW i \in Nat,
           i <= Len(p), \A j \in 1..i : Rank(p[j]) = Rank(q[j]),
           Len(q) = i \/ (i < Len(p) /\ i < Len(q) /\ Rank(p[i + 1]) > Rank(q[i + 1]))
    PROVE  ~MoreSpecific(p, q)
  <1>1. \A s : Rank(s) \in Nat
    BY DEF Rank
  <1>2. SUFFICES ASSUME NEW d \in DOMAIN q,
                        \A j \in 1..(d - 1) : j \in DOMAIN p /\ Rank(p[j]) = Rank(q[j]),
                        d \in DOMAIN p => Rank(p[d]) < Rank(q[d])
                 PROVE  FALSE
    BY DEF MoreSpecific
  <1>3. d \in 1..Len(q) /\ DOMAIN p = 1..Len(p)
    OBVIOUS
  <1>4. CASE d <= i
    <2>1. d \in 1..i /\ d \in DOMAIN p
      BY <1>3, <1>4
    <2>2. QED
      BY <1>1, <1>2, <2>1
  <1>5. CASE d > i
    <2>1. i < Len(p) /\ i < Len(q) /\ Rank(p[i + 1]) > Rank(q[i + 1])
      BY <1>3, <1>5
    <2>2. CASE d = i + 1
      <3>1. d \in DOMAIN p
        BY <1>3, <2>1, <2>2
      <3>2. QED
        BY <1>1, <1>2, <2>1, <2>2, <3>1
    <2>3. CASE d > i + 1
      <3>1. i + 1 \in 1..(d - 1)
        BY <1>3, <2>3
      <3>2. QED
        BY <1>1, <1>2, <2>1, <3>1
    <2>4. QED
      BY <1>3, <1>5, <2>2, <2>3
  <1>6. QED
    BY <1>3, <1>4, <1>5

LEMMA LowerIsNotBetter ==
    ASSUME NEW rs, Routes(rs), NEW k \in 1..Len(rs), NEW h \in 1..Len(rs), NEW a,
           OnWay(rs[k], a), OnWay(rs[h], a),
           \/ Len(rs[h].segs) = Len(a)
           \/ /\ Len(a) < Len(rs[k].segs) /\ Len(a) < Len(rs[h].segs)
              /\ Rank(rs[k].segs[Len(a) + 1]) > Rank(rs[h].segs[Len(a) + 1])
    PROVE  ~MoreSpecific(rs[k].segs, rs[h].segs)
  <1>1. /\ Len(a) \in Nat /\ Len(a) <= Len(rs[k].segs)
        /\ \A j \in 1..Len(a) : Rank(rs[k].segs[j]) = Rank(rs[h].segs[j])
    BY AlikeAbove
  <1>2. rs[k].segs \in Seq(STRING) /\ rs[h].segs \in Seq(STRING)
    BY DEF Routes
  <1>3. QED
    BY <1>1, <1>2, LaterIsNotBetter

\* A node's handler for a method is a route that ends there, if there is one.
LEMMA HandlerEndsHere ==
    ASSUME NEW rs, Routes(rs), NEW trie, TrieOf(trie, rs, Len(rs)), NEW m \in Methods,
           NEW a \in DOMAIN trie
    PROVE  Best(rs, EndsAt(rs, m, a), getHandlerFor(trie[a].handlers, m))
  <1> DEFINE hs == trie[a].handlers
             h == getHandlerFor(hs, m)
  <1>1. /\ hs \in [Slots -> 0..Len(rs)]
        /\ \A s \in Slots : hs[s] # 0 => Leaf(rs[hs[s]]) = a /\ rs[hs[s]].method \in {s, "ALL"}
        /\ \A k \in 1..Len(rs) : Leaf(rs[k]) = a => hs[rs[k].method] # 0
    BY DEF TrieOf
  <1>2. m \in Slots /\ "ALL" \in Slots /\ m # "ALL" /\ Len(rs) \in Nat
    BY DispatchAssumption DEF Slots, Routes
  <1>3. h = IF hs[m] # 0 THEN hs[m] ELSE hs["ALL"]
    BY DEF getHandlerFor
  <1> HIDE DEF hs, h
  <1>4. CASE h = 0
    <2>1. hs[m] = 0 /\ hs["ALL"] = 0
      BY <1>1, <1>3, <1>4
    <2>2. ASSUME NEW k \in EndsAt(rs, m, a) PROVE FALSE
      <3>1. k \in 1..Len(rs) /\ Leaf(rs[k]) = a /\ rs[k].method \in {m, "ALL"}
        BY DEF EndsAt, Serves
      <3>2. QED
        BY <1>1, <2>1, <3>1
    <2>3. QED
      BY <1>4, <2>2 DEF Best, h, hs
  <1>5. CASE h # 0
    <2>1. PICK s \in {m, "ALL"} : h = hs[s] /\ hs[s] # 0
      BY <1>3, <1>5
    <2>2. h \in 1..Len(rs) /\ Leaf(rs[h]) = a /\ rs[h].method \in {s, "ALL"}
      BY <1>1, <1>2, <2>1
    <2>3. m \in Serves(rs[h])
      BY <1>2, <2>1, <2>2 DEF Serves
    <2>4. h \in EndsAt(rs, m, a)
      BY <2>2, <2>3 DEF EndsAt
    <2>5. ASSUME NEW k \in EndsAt(rs, m, a) PROVE ~MoreSpecific(rs[k].segs, rs[h].segs)
      <3>1. k \in 1..Len(rs) /\ Leaf(rs[k]) = a
        BY DEF EndsAt
      <3>2. rs[k].segs \in Seq(STRING) /\ rs[h].segs \in Seq(STRING)
        BY <2>2, <3>1 DEF Routes
      <3>3. Len(rs[k].segs) \in 0..Len(rs[k].segs) /\ Len(rs[h].segs) \in 0..Len(rs[h].segs)
        BY <3>2
      <3>4. OnWay(rs[k], a) /\ OnWay(rs[h], a) /\ Len(rs[h].segs) = Len(a)
        BY <2>2, <3>1, <3>2, <3>3, NodeIsSeq DEF OnWay, Leaf
      <3>5. QED
        BY <2>2, <3>1, <3>4, LowerIsNotBetter
    <2>6. QED
      BY <1>5, <2>4, <2>5 DEF Best, h, hs
  <1>6. QED
    BY <1>4, <1>5

-----------------------------------------------------------------------------
(* One segment further down. *)

\* What a pattern asks of the next segment.
LEMMA NextPart ==
    ASSUME NEW p \in Seq(STRING), NEW path \in Seq(STRING), NEW i \in Nat,
           i < Len(path), i <= Len(p)
    PROVE  FitsAfter(p, path, i) <=>
             /\ i < Len(p)
             /\ \/ /\ p[i + 1] # Star /\ (p[i + 1] \in Colon \/ p[i + 1] = path[i + 1])
                   /\ FitsAfter(p, path, i + 1)
                \/ Len(p) = i + 1 /\ p[i + 1] = Star
  <1> DEFINE Takes(j) == p[j] # Star /\ (p[j] \in Colon \/ p[j] = path[j])
  <1>1. ASSUME NEW k \in Int, k > i
        PROVE  AgreesAfter(p, path, i, k) <=> Takes(i + 1) /\ AgreesAfter(p, path, i + 1, k)
    <2>1. (i + 1)..k = {i + 1} \cup ((i + 1) + 1)..k
      BY <1>1
    <2> HIDE DEF Takes
    <2>2. \A n : AgreesAfter(p, path, n, k) <=> \A j \in (n + 1)..k : Takes(j)
      BY DEF AgreesAfter, Takes
    <2>3. QED
      BY <2>1, <2>2
  <1>2. Len(p) \in Nat /\ Len(path) \in Nat
    OBVIOUS
  <1>3. CASE Len(p) = i
    BY <1>2, <1>3 DEF FitsAfter
  <1>4. CASE Len(p) = i + 1
    <2>1. AgreesAfter(p, path, i, i)
      BY DEF AgreesAfter
    <2>2. Len(p) = Len(path) => (AgreesAfter(p, path, i, Len(path)) <=>
                                    Takes(i + 1) /\ AgreesAfter(p, path, i + 1, Len(path)))
      BY <1>1, <1>2
    <2>3. QED
      BY <1>2, <1>4, <2>1, <2>2 DEF FitsAfter
  <1>5. CASE Len(p) > i + 1
    <2>1. AgreesAfter(p, path, i, Len(path)) <=> Takes(i + 1) /\ AgreesAfter(p, path, i + 1, Len(path))
      BY <1>1, <1>2
    <2>2. AgreesAfter(p, path, i, Len(p) - 1) <=> Takes(i + 1) /\ AgreesAfter(p, path, i + 1, Len(p) - 1)
      BY <1>1, <1>2, <1>5
    <2>3. QED
      BY <1>2, <1>5, <2>1, <2>2 DEF FitsAfter
  <1>6. QED
    BY <1>2, <1>3, <1>4, <1>5

LEMMA LastPart ==
    ASSUME NEW p \in Seq(STRING), NEW path \in Seq(STRING), Len(path) <= Len(p)
    PROVE  FitsAfter(p, path, Len(path)) <=>
             \/ Len(p) = Len(path)
             \/ Len(p) = Len(path) + 1 /\ p[Len(path) + 1] = Star
  <1>1. Len(p) \in Nat /\ Len(path) \in Nat
    OBVIOUS
  <1>2. AgreesAfter(p, path, Len(path), Len(path))
    BY <1>1 DEF AgreesAfter
  <1>3. QED
    BY <1>1, <1>2 DEF FitsAfter

\* The way goes on along the edge of the next part.
LEMMA WayDeeper ==
    ASSUME NEW route, route.segs \in Seq(STRING), NEW a \in Seq(Edges), NEW e \in Edges
    PROVE  /\ OnWay(route, Append(a, e)) <=>
                OnWay(route, a) /\ Len(a) < Len(route.segs) /\ Edge(route.segs[Len(a) + 1]) = e
           /\ Leaf(route) = Append(a, e) <=>
                OnWay(route, Append(a, e)) /\ Len(route.segs) = Len(a) + 1
  <1> DEFINE p == route.segs
             i == Len(a)
  <1>1. Append(a, e) \in Seq(Edges) /\ Len(Append(a, e)) = i + 1 /\ i \in Nat /\ Len(p) \in Nat
    OBVIOUS
  <1>2. OnWay(route, Append(a, e)) <=> i + 1 <= Len(p) /\ NodeAt(p, i + 1) = Append(a, e)
    <2> DEFINE b == Append(a, e)
    <2>1. Len(b) = i + 1
      BY <1>1
    <2> HIDE DEF b
    <2>2. OnWay(route, b) <=> Len(b) \in 0..Len(p) /\ NodeAt(p, Len(b)) = b
      BY WayAtDepth
    <2>3. QED
      BY <1>1, <2>1, <2>2 DEF b
  <1>3. OnWay(route, a) <=> i <= Len(p) /\ NodeAt(p, i) = a
    BY <1>1, WayAtDepth
  <1>4. ASSUME i < Len(p) PROVE NodeAt(p, i + 1) = Append(a, e) <=> NodeAt(p, i) = a /\ Edge(p[i + 1]) = e
    <2>1. NodeAt(p, i + 1) = Append(NodeAt(p, i), Edge(p[i + 1]))
      BY <1>1, <1>4, NodeGrows
    <2>2. NodeAt(p, i + 1) = Append(a, e) => NodeAt(p, i) = a /\ Edge(p[i + 1]) = e
      BY <1>1, <1>4, NodeSplits
    <2>3. QED
      BY <2>1, <2>2
  <1>5. Leaf(route) = Append(a, e) => Len(p) = i + 1
    <2>1. Len(p) \in 0..Len(p)
      BY <1>1
    <2>2. Len(Leaf(route)) = Len(p)
      BY <2>1, NodeIsSeq DEF Leaf
    <2>3. QED
      BY <1>1, <2>2
  <1>6. QED
    BY <1>1, <1>2, <1>3, <1>4, <1>5 DEF Leaf

\* The routes of this method whose next part is of a kind.
NextRank(rs, a, rank) ==
    {k \in 1..Len(rs) : /\ OnWay(rs[k], a) /\ Len(a) < Len(rs[k].segs)
                        /\ Rank(rs[k].segs[Len(a) + 1]) = rank}

\* A candidate goes on with a literal or with a parameter, or ends with a wildcard.
LEMMA CandidatesSplit ==
    ASSUME NEW rs, Routes(rs), NEW m \in Methods, NEW path, Segments(path),
           NEW a \in Seq(Edges), Len(a) < Len(path)
    PROVE  /\ CandidatesAt(rs, m, path, a) =
                CandidatesAt(rs, m, path, Append(a, path[Len(a) + 1]))
                    \cup (CandidatesAt(rs, m, path, Append(a, ParamEdge)) \cup CatchAlls(rs, m, a))
           /\ CandidatesAt(rs, m, path, Append(a, path[Len(a) + 1])) \subseteq NextRank(rs, a, 0)
           /\ CandidatesAt(rs, m, path, Append(a, ParamEdge)) \subseteq NextRank(rs, a, 1)
           /\ CatchAlls(rs, m, a) \subseteq NextRank(rs, a, 2)
  <1> DEFINE i == Len(a)
             seg == path[i + 1]
             P(k) == rs[k].segs
  <1>1. i \in Nat /\ path \in Seq(STRING) /\ i + 1 \in 1..Len(path)
    BY DEF Segments
  <1>2. seg \in STRING /\ seg \notin {ParamEdge, WildEdge} /\ {seg, ParamEdge, WildEdge} \subseteq Edges
    BY <1>1 DEF Segments, Edges
  <1>3. \A e \in Edges : Len(Append(a, e)) = i + 1
    OBVIOUS
  <1> HIDE DEF seg
  <1>4. ASSUME NEW k \in 1..Len(rs), OnWay(rs[k], a), i < Len(P(k))
        PROVE  LET s == P(k)[i + 1]
               IN /\ Edge(s) = seg <=> s = seg /\ s \notin Colon /\ s # Star
                  /\ Edge(s) = ParamEdge <=> s \in Colon
                  /\ Edge(s) = WildEdge <=> s = Star
    <2>1. P(k) \in Seq(STRING) /\ i + 1 \in 1..Len(P(k))
      BY <1>1, <1>4 DEF Routes
    <2>2. P(k)[i + 1] \notin {ParamEdge, WildEdge}
      BY <2>1 DEF Routes
    <2>3. QED
      BY <1>2, <2>2, EdgeTellsKind
  <1>5. ASSUME NEW k \in 1..Len(rs), NEW e \in {seg, ParamEdge, WildEdge}
        PROVE  /\ OnWay(rs[k], Append(a, e)) <=> OnWay(rs[k], a) /\ i < Len(P(k)) /\ Edge(P(k)[i + 1]) = e
               /\ Leaf(rs[k]) = Append(a, e) <=> OnWay(rs[k], Append(a, e)) /\ Len(P(k)) = i + 1
    <2>1. P(k) \in Seq(STRING)
      BY DEF Routes
    <2>2. e \in Edges
      BY <1>2
    <2>3. QED
      BY <2>1, <2>2, WayDeeper
  <1>6. ASSUME NEW k \in 1..Len(rs), OnWay(rs[k], a)
        PROVE  FitsAfter(P(k), path, i) <=>
                 /\ i < Len(P(k))
                 /\ \/ /\ P(k)[i + 1] # Star /\ (P(k)[i + 1] \in Colon \/ P(k)[i + 1] = seg)
                       /\ FitsAfter(P(k), path, i + 1)
                    \/ Len(P(k)) = i + 1 /\ P(k)[i + 1] = Star
    <2>1. P(k) \in Seq(STRING) /\ i <= Len(P(k))
      BY <1>6, AlikeAbove DEF Routes
    <2>2. QED
      BY <1>1, <2>1, NextPart DEF seg
  <1>7. ASSUME NEW k \in 1..Len(rs)
        PROVE  /\ k \in CandidatesAt(rs, m, path, Append(a, seg)) <=>
                    /\ m \in Serves(rs[k]) /\ OnWay(rs[k], a) /\ i < Len(P(k))
                    /\ P(k)[i + 1] = seg /\ P(k)[i + 1] \notin Colon /\ P(k)[i + 1] # Star
                    /\ FitsAfter(P(k), path, i + 1)
               /\ k \in CandidatesAt(rs, m, path, Append(a, ParamEdge)) <=>
                    /\ m \in Serves(rs[k]) /\ OnWay(rs[k], a) /\ i < Len(P(k))
                    /\ P(k)[i + 1] \in Colon
                    /\ FitsAfter(P(k), path, i + 1)
               /\ k \in CatchAlls(rs, m, a) <=>
                    /\ m \in Serves(rs[k]) /\ OnWay(rs[k], a) /\ i < Len(P(k))
                    /\ P(k)[i + 1] = Star /\ Len(P(k)) = i + 1
    <2>1. k \in CandidatesAt(rs, m, path, Append(a, seg)) <=>
            m \in Serves(rs[k]) /\ OnWay(rs[k], Append(a, seg)) /\ FitsAfter(P(k), path, i + 1)
      BY <1>2, <1>3 DEF CandidatesAt
    <2>2. k \in CandidatesAt(rs, m, path, Append(a, ParamEdge)) <=>
            m \in Serves(rs[k]) /\ OnWay(rs[k], Append(a, ParamEdge)) /\ FitsAfter(P(k), path, i + 1)
      BY <1>2, <1>3 DEF CandidatesAt
    <2>3. k \in CatchAlls(rs, m, a) <=> m \in Serves(rs[k]) /\ Leaf(rs[k]) = Append(a, WildEdge)
      BY DEF CatchAlls, EndsAt
    <2>4. QED
      BY <1>4, <1>5, <2>1, <2>2, <2>3
  <1>8. \A k \in 1..Len(rs) : k \in CandidatesAt(rs, m, path, a) <=>
            m \in Serves(rs[k]) /\ OnWay(rs[k], a) /\ FitsAfter(P(k), path, i)
    BY DEF CandidatesAt
  <1>9. \A e : /\ CandidatesAt(rs, m, path, e) \subseteq 1..Len(rs)
               /\ CatchAlls(rs, m, e) \subseteq 1..Len(rs)
    BY DEF CandidatesAt, CatchAlls, EndsAt
  <1>10. CandidatesAt(rs, m, path, a) =
            CandidatesAt(rs, m, path, Append(a, seg))
                \cup (CandidatesAt(rs, m, path, Append(a, ParamEdge)) \cup CatchAlls(rs, m, a))
    <2>1. ASSUME NEW k \in 1..Len(rs)
          PROVE  k \in CandidatesAt(rs, m, path, a) <=>
                    \/ k \in CandidatesAt(rs, m, path, Append(a, seg))
                    \/ k \in CandidatesAt(rs, m, path, Append(a, ParamEdge))
                    \/ k \in CatchAlls(rs, m, a)
      BY <1>6, <1>7, <1>8, SegmentAssumption
    <2>2. QED
      BY <1>9, <2>1
  <1>11. CandidatesAt(rs, m, path, Append(a, seg)) \subseteq NextRank(rs, a, 0)
    BY <1>7, <1>9 DEF NextRank, Rank
  <1>12. CandidatesAt(rs, m, path, Append(a, ParamEdge)) \subseteq NextRank(rs, a, 1)
    BY <1>7, <1>9, SegmentAssumption DEF NextRank, Rank
  <1>13. CatchAlls(rs, m, a) \subseteq NextRank(rs, a, 2)
    BY <1>7, <1>9 DEF NextRank, Rank
  <1>14. QED
    BY <1>10, <1>11, <1>12, <1>13 DEF seg

\* At the end of the path, what ends there comes before the wildcard.
LEMMA CandidatesEnd ==
    ASSUME NEW rs, Routes(rs), NEW m \in Methods, NEW path, Segments(path),
           NEW a \in Seq(Edges), Len(a) = Len(path)
    PROVE  /\ CandidatesAt(rs, m, path, a) = EndsAt(rs, m, a) \cup CatchAlls(rs, m, a)
           /\ \A k \in CatchAlls(rs, m, a), h \in EndsAt(rs, m, a) :
                  ~MoreSpecific(rs[k].segs, rs[h].segs)
  <1> DEFINE i == Len(a)
             P(k) == rs[k].segs
  <1>1. i \in Nat /\ path \in Seq(STRING) /\ WildEdge \in Edges
    BY DEF Segments, Edges
  <1>2. ASSUME NEW k \in 1..Len(rs)
        PROVE  /\ P(k) \in Seq(STRING) /\ Len(P(k)) \in 0..Len(P(k))
               /\ \A j \in 1..Len(P(k)) : P(k)[j] \notin {ParamEdge, WildEdge}
    BY DEF Routes
  <1>3. ASSUME NEW k \in 1..Len(rs)
        PROVE  Leaf(rs[k]) = a <=> OnWay(rs[k], a) /\ Len(P(k)) = i
    <2>1. OnWay(rs[k], a) <=> i \in 0..Len(P(k)) /\ NodeAt(P(k), i) = a
      BY <1>2, WayAtDepth
    <2>2. Len(Leaf(rs[k])) = Len(P(k))
      BY <1>2, NodeIsSeq DEF Leaf
    <2>3. QED
      BY <1>1, <1>2, <2>1, <2>2 DEF Leaf
  <1>4. ASSUME NEW k \in 1..Len(rs)
        PROVE  Leaf(rs[k]) = Append(a, WildEdge) <=>
                 OnWay(rs[k], a) /\ Len(P(k)) = i + 1 /\ P(k)[i + 1] = Star
    <2>1. /\ OnWay(rs[k], Append(a, WildEdge)) <=>
                OnWay(rs[k], a) /\ i < Len(P(k)) /\ Edge(P(k)[i + 1]) = WildEdge
          /\ Leaf(rs[k]) = Append(a, WildEdge) <=>
                OnWay(rs[k], Append(a, WildEdge)) /\ Len(P(k)) = i + 1
      BY <1>1, <1>2, WayDeeper
    <2>2. i < Len(P(k)) => (Edge(P(k)[i + 1]) = WildEdge <=> P(k)[i + 1] = Star)
      BY <1>1, <1>2, EdgeTellsKind
    <2>3. QED
      BY <1>1, <1>2, <2>1, <2>2
  <1>5. ASSUME NEW k \in 1..Len(rs), OnWay(rs[k], a)
        PROVE  FitsAfter(P(k), path, i) <=>
                 Len(P(k)) = i \/ (Len(P(k)) = i + 1 /\ P(k)[i + 1] = Star)
    <2>1. i <= Len(P(k))
      BY <1>5, AlikeAbove
    <2>2. QED
      BY <1>1, <1>2, <2>1, LastPart
  <1>6. CandidatesAt(rs, m, path, a) = EndsAt(rs, m, a) \cup CatchAlls(rs, m, a)
    BY <1>3, <1>4, <1>5 DEF CandidatesAt, EndsAt, CatchAlls
  <1>7. ASSUME NEW k \in CatchAlls(rs, m, a), NEW h \in EndsAt(rs, m, a)
        PROVE  ~MoreSpecific(rs[k].segs, rs[h].segs)
    <2>1. k \in 1..Len(rs) /\ h \in 1..Len(rs) /\ OnWay(rs[k], a) /\ OnWay(rs[h], a)
          /\ Len(P(h)) = i
      BY <1>3, <1>4 DEF EndsAt, CatchAlls
    <2>2. QED
      BY <2>1, LowerIsNotBetter
  <1>8. QED
    BY <1>6, <1>7

-----------------------------------------------------------------------------
(* What match() answers at one node, if it answers well below it. *)

\* What match() may answer at the node a: the best of the candidates there, or nothing
\* if there is none.
BestAt(rs, m, path, a, hit) == Best(rs, CandidatesAt(rs, m, path, a), hit.handler)

Down(match, trie, a, edge) ==
    IF Append(a, edge) \in DOMAIN trie THEN match[Append(a, edge)] ELSE Miss
Rest(trie, m, path, a) ==
    IF Append(a, WildEdge) \in DOMAIN trie
    THEN Hit(getHandlerFor(trie[Append(a, WildEdge)].handlers, m),
             Put(<<>>, Star, SubSeq(path, Len(a) + 1, Len(path))))
    ELSE Miss
Bind(trie, path, a, hit) ==
    Hit(hit.handler, Put(hit.params, trie[a].paramName, <<path[Len(a) + 1]>>))
Own(trie, m, a) == Hit(getHandlerFor(trie[a].handlers, m), <<>>)

LEMMA MatchAtNode ==
    ASSUME NEW match, NEW trie, NEW m, NEW path, NEW a
    PROVE  MatchAt(match, trie, m, path, a) =
             IF Len(a) = Len(path) THEN OrElse(Own(trie, m, a), Rest(trie, m, path, a))
             ELSE OrElse(Down(match, trie, a, path[Len(a) + 1]),
                         OrElse(Bind(trie, path, a, Down(match, trie, a, ParamEdge)),
                                Rest(trie, m, path, a)))
  BY DEF MatchAt, Own, Rest, Down, Bind

LEMMA OrElseTakes ==
    ASSUME NEW x, NEW y
    PROVE  /\ OrElse(x, y).handler = Either(x.handler, y.handler)
           /\ \/ OrElse(x, y) = x /\ x.handler # 0
              \/ OrElse(x, y) = y /\ x.handler = 0
  BY DEF OrElse, Either

LEMMA MissIsNone == Miss.handler = 0
  BY DEF Miss, Hit

LEMMA HitHandler == ASSUME NEW h, NEW params PROVE Hit(h, params).handler = h /\ Hit(h, params).params = params
  BY DEF Hit

\* No route is below what is not a node.
LEMMA NobodyOffTheTrie ==
    ASSUME NEW rs, Routes(rs), NEW trie, TrieOf(trie, rs, Len(rs)), NEW m, NEW path,
           NEW a, a \notin DOMAIN trie
    PROVE  CandidatesAt(rs, m, path, a) = {} /\ EndsAt(rs, m, a) = {}
  <1>1. \A k \in 1..Len(rs) : ~OnWay(rs[k], a)
    BY DEF TrieOf
  <1>2. ASSUME NEW k \in 1..Len(rs) PROVE OnWay(rs[k], Leaf(rs[k]))
    <2>1. Len(rs[k].segs) \in 0..Len(rs[k].segs)
      BY DEF Routes
    <2>2. QED
      BY <2>1 DEF OnWay, Leaf
  <1>3. QED
    BY <1>1, <1>2 DEF CandidatesAt, EndsAt

LEMMA DownIsBest ==
    ASSUME NEW rs, Routes(rs), NEW trie, TrieOf(trie, rs, Len(rs)), NEW m, NEW path,
           NEW a, NEW match, NEW e,
           Append(a, e) \in DOMAIN trie => BestAt(rs, m, path, Append(a, e), match[Append(a, e)])
    PROVE  BestAt(rs, m, path, Append(a, e), Down(match, trie, a, e))
  <1>1. CASE Append(a, e) \in DOMAIN trie
    BY <1>1 DEF Down
  <1>2. CASE Append(a, e) \notin DOMAIN trie
    BY <1>2, NobodyOffTheTrie, MissIsNone DEF Down, BestAt, Best
  <1>3. QED
    BY <1>1, <1>2

LEMMA RestIsBest ==
    ASSUME NEW rs, Routes(rs), NEW trie, TrieOf(trie, rs, Len(rs)), NEW m \in Methods, NEW path, NEW a
    PROVE  Best(rs, CatchAlls(rs, m, a), Rest(trie, m, path, a).handler)
  <1> DEFINE w == Append(a, WildEdge)
  <1>1. CASE w \in DOMAIN trie
    <2>1. Best(rs, EndsAt(rs, m, w), getHandlerFor(trie[w].handlers, m))
      BY <1>1, HandlerEndsHere
    <2>2. Rest(trie, m, path, a).handler = getHandlerFor(trie[w].handlers, m)
      BY <1>1, HitHandler DEF Rest
    <2>3. QED
      BY <2>1, <2>2 DEF CatchAlls
  <1>2. CASE w \notin DOMAIN trie
    <2>1. EndsAt(rs, m, w) = {}
      BY <1>2, NobodyOffTheTrie
    <2>2. Rest(trie, m, path, a).handler = 0
      BY <1>2, MissIsNone DEF Rest
    <2>3. QED
      BY <2>1, <2>2 DEF CatchAlls, Best
  <1>3. QED
    BY <1>1, <1>2

LEMMA HigherRankIsNotBetter ==
    ASSUME NEW rs, Routes(rs), NEW a, NEW r1 \in Nat, NEW r2 \in Nat, r1 < r2,
           NEW k \in NextRank(rs, a, r2), NEW h \in NextRank(rs, a, r1)
    PROVE  ~MoreSpecific(rs[k].segs, rs[h].segs)
  <1>1. k \in 1..Len(rs) /\ h \in 1..Len(rs) /\ OnWay(rs[k], a) /\ OnWay(rs[h], a)
    BY DEF NextRank
  <1>2. /\ Len(a) < Len(rs[k].segs) /\ Len(a) < Len(rs[h].segs)
        /\ Rank(rs[k].segs[Len(a) + 1]) > Rank(rs[h].segs[Len(a) + 1])
    BY DEF NextRank
  <1>3. QED
    BY <1>1, <1>2, LowerIsNotBetter

\* One step of match(): literal, then parameter, then wildcard is best first.
LEMMA MatchAtIsBest ==
    ASSUME NEW rs, Routes(rs), NEW trie, TrieOf(trie, rs, Len(rs)), NEW m \in Methods,
           NEW path, Segments(path), NEW a \in DOMAIN trie, a \in Seq(Edges),
           Len(a) <= Len(path), NEW match,
           Len(a) < Len(path) =>
               \A e \in {path[Len(a) + 1], ParamEdge} :
                   Append(a, e) \in DOMAIN trie => BestAt(rs, m, path, Append(a, e), match[Append(a, e)])
    PROVE  BestAt(rs, m, path, a, MatchAt(match, trie, m, path, a))
  <1> DEFINE rest == Rest(trie, m, path, a)
             catchAlls == CatchAlls(rs, m, a)
  <1>1. Best(rs, catchAlls, rest.handler)
    BY RestIsBest
  <1>2. CASE Len(a) = Len(path)
    <2> DEFINE own == Own(trie, m, a)
               ends == EndsAt(rs, m, a)
    <2>1. Best(rs, ends, own.handler)
      BY HandlerEndsHere, HitHandler DEF Own
    <2>2. /\ CandidatesAt(rs, m, path, a) = ends \cup catchAlls
          /\ \A k \in catchAlls, h \in ends : ~MoreSpecific(rs[k].segs, rs[h].segs)
      BY <1>2, CandidatesEnd
    <2>3. MatchAt(match, trie, m, path, a) = OrElse(own, rest)
      BY <1>2, MatchAtNode
    <2> HIDE DEF own, ends, rest, catchAlls
    <2>4. Best(rs, ends \cup catchAlls, Either(own.handler, rest.handler))
      BY <1>1, <2>1, <2>2, BestOfBoth
    <2>5. QED
      BY <2>2, <2>3, <2>4, OrElseTakes DEF BestAt
  <1>3. CASE Len(a) < Len(path)
    <2> DEFINE seg == path[Len(a) + 1]
               lit == Down(match, trie, a, seg)
               par == Bind(trie, path, a, Down(match, trie, a, ParamEdge))
               literals == CandidatesAt(rs, m, path, Append(a, seg))
               params == CandidatesAt(rs, m, path, Append(a, ParamEdge))
    <2>1. Best(rs, literals, lit.handler)
      BY <1>3, DownIsBest DEF BestAt
    <2>2. Best(rs, params, par.handler)
      <3>1. Best(rs, params, Down(match, trie, a, ParamEdge).handler)
        BY <1>3, DownIsBest DEF BestAt
      <3>2. QED
        BY <3>1, HitHandler DEF Bind
    <2>3. /\ CandidatesAt(rs, m, path, a) = literals \cup (params \cup catchAlls)
          /\ literals \subseteq NextRank(rs, a, 0)
          /\ params \subseteq NextRank(rs, a, 1)
          /\ catchAlls \subseteq NextRank(rs, a, 2)
      BY <1>3, CandidatesSplit
    <2>4. Len(a) # Len(path)
      BY <1>3 DEF Segments
    <2>5. MatchAt(match, trie, m, path, a) = OrElse(lit, OrElse(par, rest))
      BY <2>4, MatchAtNode
    <2> HIDE DEF lit, par, literals, params, rest, catchAlls
    <2>6. \A k \in catchAlls, h \in params : ~MoreSpecific(rs[k].segs, rs[h].segs)
      BY <2>3, HigherRankIsNotBetter
    <2>7. Best(rs, params \cup catchAlls, Either(par.handler, rest.handler))
      BY <1>1, <2>2, <2>6, BestOfBoth
    <2>8. \A k \in params \cup catchAlls, h \in literals : ~MoreSpecific(rs[k].segs, rs[h].segs)
      BY <2>3, HigherRankIsNotBetter
    <2>9. Best(rs, literals \cup (params \cup catchAlls),
               Either(lit.handler, Either(par.handler, rest.handler)))
      BY <2>1, <2>7, <2>8, BestOfBoth
    <2>10. OrElse(lit, OrElse(par, rest)).handler =
              Either(lit.handler, Either(par.handler, rest.handler))
      BY OrElseTakes
    <2>11. QED
      BY <2>3, <2>5, <2>9, <2>10 DEF BestAt
  <1>4. QED
    BY <1>2, <1>3 DEF Segments

-----------------------------------------------------------------------------
(* The recursion of match() over the nodes, deepest first. *)

Reached(trie, path) == {b \in DOMAIN trie : Len(b) <= Len(path)}
WithinReach(trie, path, j) == {b \in Reached(trie, path) : Len(b) + j >= Len(path)}
IsMatch(f, trie, m, path, D) == f = [a \in D |-> MatchAt(f, trie, m, path, a)]

LEMMA MatchLooksDown ==
    ASSUME NEW f, NEW g, NEW trie, NEW m, NEW path, NEW a,
           Len(a) # Len(path) =>
               \A e \in {path[Len(a) + 1], ParamEdge} :
                   Append(a, e) \in DOMAIN trie => f[Append(a, e)] = g[Append(a, e)]
    PROVE  MatchAt(f, trie, m, path, a) = MatchAt(g, trie, m, path, a)
  <1>1. CASE Len(a) = Len(path)
    BY <1>1, MatchAtNode
  <1>2. CASE Len(a) # Len(path)
    <2>1. \A e \in {path[Len(a) + 1], ParamEdge} : Down(f, trie, a, e) = Down(g, trie, a, e)
      BY <1>2 DEF Down
    <2>2. QED
      BY <1>2, <2>1, MatchAtNode
  <1>3. QED
    BY <1>1, <1>2

LEMMA MatchExists ==
    ASSUME NEW trie, \A a \in DOMAIN trie : a \in Seq(Edges), NEW m, NEW path, Segments(path)
    PROVE  \E f : IsMatch(f, trie, m, path, Reached(trie, path))
  <1> DEFINE N == Len(path)
             D(j) == WithinReach(trie, path, j)
             M(f, a) == MatchAt(f, trie, m, path, a)
             Missing == {j \in Nat : ~\E f : IsMatch(f, trie, m, path, D(j))}
  <1>1. N \in Nat /\ \A a \in DOMAIN trie : Len(a) \in Nat
    BY DEF Segments
  <1>2. ASSUME NEW a \in Reached(trie, path), Len(a) # N, NEW e \in {path[Len(a) + 1], ParamEdge},
               Append(a, e) \in DOMAIN trie
        PROVE  Append(a, e) \in Reached(trie, path) /\ Len(Append(a, e)) = Len(a) + 1
    <2>1. a \in Seq(Edges) /\ Len(a) \in Nat /\ Len(a) < N
      BY <1>1, <1>2 DEF Reached
    <2>2. e \in Edges
      BY <1>1, <2>1 DEF Segments, Edges
    <2>3. Len(Append(a, e)) = Len(a) + 1
      BY <2>1, <2>2
    <2>4. QED
      BY <1>1, <1>2, <2>1, <2>3 DEF Reached
  <1>3. ASSUME Missing # {} PROVE FALSE
    <2>1. PICK j \in Missing : \A k \in Missing : j <= k
      <3> HIDE DEF Missing
      <3>1. QED
        BY <1>3, LeastNatural, Missing \subseteq Nat DEF Missing
    <2>2. CASE j = 0
      <3> DEFINE f == [a \in D(0) |-> M(<<>>, a)]
      <3>1. ASSUME NEW a \in D(0) PROVE M(<<>>, a) = M(f, a)
        <4>1. Len(a) = N
          BY <1>1 DEF WithinReach, Reached
        <4>2. QED
          BY <4>1, MatchAtNode
      <3>2. f = [a \in D(0) |-> M(f, a)]
        <4> DEFINE g == [a \in D(0) |-> M(f, a)]
        <4> HIDE DEF M
        <4>1. QED
          BY <3>1
      <3>3. IsMatch(f, trie, m, path, D(0))
        BY <3>2 DEF IsMatch
      <3>4. QED
        BY <2>1, <2>2, <3>3
    <2>3. CASE j # 0
      <3>1. j \in Nat /\ j - 1 \in Nat /\ j - 1 \notin Missing
        BY <2>1, <2>3
      <3>2. PICK f : IsMatch(f, trie, m, path, D(j - 1))
        BY <3>1
      <3> DEFINE g == [a \in D(j) |-> IF a \in D(j - 1) THEN f[a] ELSE M(f, a)]
      <3>3. ASSUME NEW a \in D(j) PROVE M(f, a) = M(g, a)
        <4>1. a \in Reached(trie, path) /\ Len(a) \in Nat /\ Len(a) + j >= N
          BY <1>1 DEF WithinReach, Reached
        <4>2. ASSUME Len(a) # N, NEW e \in {path[Len(a) + 1], ParamEdge}, Append(a, e) \in DOMAIN trie
              PROVE  f[Append(a, e)] = g[Append(a, e)]
          <5>1. Append(a, e) \in Reached(trie, path) /\ Len(Append(a, e)) = Len(a) + 1
            BY <1>2, <4>1, <4>2
          <5>2. Append(a, e) \in D(j - 1) /\ Append(a, e) \in D(j)
            BY <1>1, <3>1, <4>1, <5>1 DEF WithinReach
          <5>3. QED
            BY <5>2
        <4> HIDE DEF g
        <4>3. QED
          BY <4>2, MatchLooksDown
      <3>4. ASSUME NEW a \in D(j) PROVE g[a] = M(g, a)
        <4>1. CASE a \in D(j - 1)
          <5>1. f[a] = M(f, a)
            BY <3>2, <4>1 DEF IsMatch
          <5>2. QED
            BY <3>3, <4>1, <5>1
        <4>2. CASE a \notin D(j - 1)
          BY <3>3, <4>2
        <4>3. QED
          BY <4>1, <4>2
      <3>5. IsMatch(g, trie, m, path, D(j))
        <4>1. g = [a \in D(j) |-> g[a]]
          OBVIOUS
        <4> HIDE DEF g, D, M
        <4>2. g = [a \in D(j) |-> M(g, a)]
          BY <3>4, <4>1
        <4>3. QED
          BY <4>2 DEF IsMatch, M
      <3>6. QED
        BY <2>1, <3>5
    <2>4. QED
      BY <2>2, <2>3
  <1>4. Reached(trie, path) = D(N)
    BY <1>1 DEF WithinReach, Reached
  <1>5. QED
    BY <1>1, <1>3, <1>4

LEMMA DescendUnfolds ==
    ASSUME NEW trie, \A a \in DOMAIN trie : a \in Seq(Edges), NEW m, NEW path, Segments(path)
    PROVE  \E f : /\ IsMatch(f, trie, m, path, Reached(trie, path))
                  /\ Descend(trie, m, path) = f[<<>>]
  <1> DEFINE f == CHOOSE g : IsMatch(g, trie, m, path, Reached(trie, path))
  <1>1. IsMatch(f, trie, m, path, Reached(trie, path))
    BY MatchExists
  <1>2. Descend(trie, m, path) = f[<<>>]
    BY DEF Descend, IsMatch, Reached
  <1>3. QED
    BY <1>1, <1>2

LEMMA TrieNodes ==
    ASSUME NEW rs, Routes(rs), NEW trie, TrieOf(trie, rs, Len(rs))
    PROVE  /\ \A a \in DOMAIN trie : a \in Seq(Edges)
           /\ <<>> \in DOMAIN trie
  <1>1. ASSUME NEW k \in 1..Len(rs), NEW a, OnWay(rs[k], a) PROVE a \in Seq(Edges)
    <2>1. rs[k].segs \in Seq(STRING)
      BY DEF Routes
    <2>2. QED
      BY <1>1, <2>1, NodeIsSeq DEF OnWay
  <1>2. <<>> \in Seq(Edges)
    OBVIOUS
  <1>3. QED
    BY <1>1, <1>2 DEF TrieOf

\* match() answers the best of the routes below a node, at every node.
LEMMA MatchIsBest ==
    ASSUME NEW rs, Routes(rs), NEW trie, TrieOf(trie, rs, Len(rs)), NEW m \in Methods,
           NEW path, Segments(path), NEW f, IsMatch(f, trie, m, path, Reached(trie, path)),
           NEW a \in Reached(trie, path)
    PROVE  BestAt(rs, m, path, a, f[a])
  <1> DEFINE N == Len(path)
             Wrong == {j \in 0..N : \E b \in Reached(trie, path) :
                                        Len(b) + j = N /\ ~BestAt(rs, m, path, b, f[b])}
  <1>1. \A b \in DOMAIN trie : b \in Seq(Edges)
    BY TrieNodes
  <1>2. N \in Nat /\ \A b \in DOMAIN trie : Len(b) \in Nat
    BY <1>1 DEF Segments
  <1>3. ASSUME Wrong # {} PROVE FALSE
    <2>1. PICK j \in Wrong : \A k \in Wrong : j <= k
      <3>1. Wrong \subseteq Nat
        BY <1>2
      <3> HIDE DEF Wrong
      <3>2. QED
        BY <1>3, <3>1, LeastNatural
    <2>2. PICK b \in Reached(trie, path) : Len(b) + j = N /\ ~BestAt(rs, m, path, b, f[b])
      BY <2>1
    <2>3. b \in DOMAIN trie /\ b \in Seq(Edges) /\ Len(b) \in Nat /\ Len(b) <= N
      BY <1>1, <1>2 DEF Reached
    <2>4. ASSUME Len(b) < N, NEW e \in {path[Len(b) + 1], ParamEdge}, Append(b, e) \in DOMAIN trie
          PROVE  BestAt(rs, m, path, Append(b, e), f[Append(b, e)])
      <3>1. e \in Edges
        BY <1>2, <2>3, <2>4 DEF Segments, Edges
      <3>2. Len(Append(b, e)) = Len(b) + 1
        BY <2>3, <3>1
      <3>3. Append(b, e) \in Reached(trie, path)
        BY <1>2, <2>3, <2>4, <3>2 DEF Reached
      <3>4. j - 1 \in 0..N /\ Len(Append(b, e)) + (j - 1) = N /\ ~(j <= j - 1)
        <4>1. j \in 0..N
          BY <2>1
        <4>2. QED
          BY <1>2, <2>2, <2>3, <2>4, <3>2, <4>1
      <3>5. j - 1 \notin Wrong
        <4> HIDE DEF Wrong
        <4>1. QED
          BY <2>1, <3>4
      <3>6. QED
        BY <3>3, <3>4, <3>5
    <2>5. BestAt(rs, m, path, b, MatchAt(f, trie, m, path, b))
      BY <2>3, <2>4, MatchAtIsBest
    <2>6. f[b] = MatchAt(f, trie, m, path, b)
      BY DEF IsMatch
    <2>7. QED
      BY <2>2, <2>5, <2>6
  <1>4. N - Len(a) \in 0..N /\ Len(a) + (N - Len(a)) = N
    BY <1>2 DEF Reached
  <1>5. QED
    BY <1>3, <1>4

LEMMA RootReached ==
    ASSUME NEW rs, Routes(rs), NEW trie, TrieOf(trie, rs, Len(rs)), NEW path, Segments(path)
    PROVE  <<>> \in Reached(trie, path)
  <1>1. Len(<<>>) = 0 /\ Len(path) \in Nat
    BY DEF Segments
  <1>2. QED
    BY <1>1, TrieNodes DEF Reached

LEMMA DescendIsBest ==
    ASSUME NEW rs, Routes(rs), NEW trie, TrieOf(trie, rs, Len(rs)), NEW m \in Methods,
           NEW path, Segments(path)
    PROVE  BestAt(rs, m, path, <<>>, Descend(trie, m, path))
  <1>1. \A a \in DOMAIN trie : a \in Seq(Edges)
    BY TrieNodes
  <1>2. PICK f : /\ IsMatch(f, trie, m, path, Reached(trie, path))
                 /\ Descend(trie, m, path) = f[<<>>]
    BY <1>1, DescendUnfolds
  <1>3. BestAt(rs, m, path, <<>>, f[<<>>])
    BY <1>2, RootReached, MatchIsBest
  <1>4. QED
    BY <1>2, <1>3

-----------------------------------------------------------------------------
(* Router.find and the static tables. *)

LEMMA StaticParts ==
    ASSUME NEW p, p \in Seq(STRING), ~IsDynamic(p)
    PROVE  \A i \in 1..Len(p) : p[i] \notin Colon /\ p[i] # Star /\ Rank(p[i]) = 0
  <1>1. DOMAIN p = 1..Len(p)
    OBVIOUS
  <1>2. QED
    BY <1>1 DEF IsDynamic, Rank

\* A pattern without parameters fits the path that is spelled like it, and nothing that
\* fits this path is more specific; of two patterns without parameters only one fits.
LEMMA StaticFits ==
    ASSUME NEW path \in Seq(STRING), ~IsDynamic(path)
    PROVE  /\ Fits(path, path)
           /\ \A p \in Seq(STRING) : Fits(p, path) => ~MoreSpecific(p, path)
  <1>1. \A i \in 1..Len(path) : path[i] \notin Colon /\ path[i] # Star /\ Rank(path[i]) = 0
    BY StaticParts
  <1>2. Fits(path, path)
    BY <1>1 DEF Fits, Agrees
  <1>3. ASSUME NEW p \in Seq(STRING), Fits(p, path), MoreSpecific(p, path) PROVE FALSE
    <2>1. PICK i \in DOMAIN path :
              /\ \A j \in 1..(i - 1) : j \in DOMAIN p /\ Rank(p[j]) = Rank(path[j])
              /\ i \in DOMAIN p => Rank(p[i]) < Rank(path[i])
      BY <1>3 DEF MoreSpecific
    <2>2. i \in 1..Len(path) /\ DOMAIN p = 1..Len(p) /\ Len(p) \in Nat /\ Len(path) \in Nat
      OBVIOUS
    <2>3. \A s : Rank(s) \in Nat
      BY DEF Rank
    <2>4. i \notin DOMAIN p
      BY <1>1, <2>1, <2>2, <2>3
    <2>5. Len(p) < i
      BY <2>2, <2>4
    <2>6. p # <<>> /\ p[Len(p)] = Star
      BY <1>3, <2>2, <2>5 DEF Fits
    <2>7. Len(p) \in 1..(i - 1) /\ Len(p) \in 1..Len(path)
      BY <2>2, <2>5, <2>6
    <2>8. Rank(p[Len(p)]) = 0
      BY <1>1, <2>1, <2>7
    <2>9. QED
      BY <2>6, <2>8 DEF Rank
  <1>4. QED
    BY <1>2, <1>3

LEMMA StaticFitsItself ==
    ASSUME NEW p \in Seq(STRING), ~IsDynamic(p), NEW path \in Seq(STRING), Fits(p, path)
    PROVE  p = path
  <1>1. \A i \in 1..Len(p) : p[i] \notin Colon /\ p[i] # Star
    BY StaticParts
  <1>2. Len(p) = Len(path) /\ Agrees(p, path, Len(path))
    <2>1. p # <<>> => Len(p) \in 1..Len(p)
      OBVIOUS
    <2>2. QED
      BY <1>1, <2>1 DEF Fits
  <1>3. \A i \in 1..Len(p) : p[i] = path[i]
    BY <1>1, <1>2 DEF Agrees
  <1>4. QED
    BY <1>2, <1>3

\* The routes that fit a request.
Fitting(rs, m, segs) == {n \in DOMAIN rs : m \in Serves(rs[n]) /\ Fits(rs[n].segs, segs)}

LEMMA StaticRouteIsBest ==
    ASSUME NEW rs, Routes(rs), NEW m \in Methods, NEW segs \in Seq(STRING),
           NEW h \in 1..Len(rs), ~IsDynamic(rs[h].segs), rs[h].segs = segs, m \in Serves(rs[h])
    PROVE  Best(rs, Fitting(rs, m, segs), h)
  <1>1. h # 0 /\ DOMAIN rs = 1..Len(rs)
    BY DEF Routes
  <1>2. h \in Fitting(rs, m, segs)
    BY <1>1, StaticFits DEF Fitting
  <1>3. ASSUME NEW k \in Fitting(rs, m, segs) PROVE ~MoreSpecific(rs[k].segs, rs[h].segs)
    <2>1. rs[k].segs \in Seq(STRING) /\ Fits(rs[k].segs, segs)
      BY <1>1 DEF Fitting, Routes
    <2>2. QED
      BY <2>1, StaticFits
  <1>4. QED
    BY <1>1, <1>2, <1>3 DEF Best

LEMMA FittingFromRoot ==
    ASSUME NEW rs, Routes(rs), NEW m, NEW path, Segments(path)
    PROVE  CandidatesAt(rs, m, path, <<>>) = Fitting(rs, m, path)
  <1>1. \A k \in 1..Len(rs) : rs[k].segs \in Seq(STRING)
    BY DEF Routes
  <1>2. ASSUME NEW k \in 1..Len(rs) PROVE OnWay(rs[k], <<>>)
    <2>1. 0 \in 0..Len(rs[k].segs)
      BY <1>1
    <2>2. NodeAt(rs[k].segs, 0) \in Seq(Edges) /\ Len(NodeAt(rs[k].segs, 0)) = 0
      BY <1>1, <2>1, NodeIsSeq
    <2>3. NodeAt(rs[k].segs, 0) = <<>>
      BY <2>2
    <2>4. QED
      BY <2>1, <2>3 DEF OnWay
  <1>3. path \in Seq(STRING) /\ Len(<<>>) = 0 /\ DOMAIN rs = 1..Len(rs)
    BY DEF Segments, Routes
  <1>4. \A k \in 1..Len(rs) : Fits(rs[k].segs, path) <=> FitsAfter(rs[k].segs, path, 0)
    BY <1>1, <1>3, FitsFromRoot
  <1>5. QED
    BY <1>2, <1>3, <1>4 DEF CandidatesAt, Fitting

LEMMA FindIsBest ==
    ASSUME NEW rs, Routes(rs), NEW router, RouterHas(router, rs, Len(rs)), NEW m \in Methods,
           NEW path, Segments(path)
    PROVE  Best(rs, Fitting(rs, m, path), Find(router, m, path).handler)
  <1> DEFINE found == Lookup(router.statics, m, path)
  <1>1. StaticsOf(router.statics, rs, Len(rs)) /\ DOMAIN rs = 1..Len(rs) /\ "ALL" \notin Methods
        /\ path \in Seq(STRING)
    BY DispatchAssumption DEF RouterHas, Routes, Segments
  <1>2. ASSUME found # 0
        PROVE  /\ found \in 1..Len(rs) /\ ~IsDynamic(rs[found].segs) /\ rs[found].segs = path
               /\ m \in Serves(rs[found])
    <2>1. PICK s \in {m, "ALL"} : <<s, path>> \in DOMAIN router.statics /\ found = router.statics[<<s, path>>]
      BY <1>2 DEF Lookup
    <2> HIDE DEF found
    <2>2. /\ found \in 1..Len(rs) /\ ~IsDynamic(rs[found].segs)
          /\ <<s, path>> = <<rs[found].method, rs[found].segs>>
      BY <1>1, <2>1 DEF StaticsOf
    <2>3. rs[found].method = s /\ rs[found].segs = path
      BY <2>2
    <2>4. m \in Serves(rs[found])
      BY <2>1, <2>3 DEF Serves
    <2>5. QED
      BY <2>2, <2>3, <2>4
  <1>3. CASE found # 0
    <2>1. Best(rs, Fitting(rs, m, path), found)
      BY <1>1, <1>2, <1>3, StaticRouteIsBest
    <2>2. Find(router, m, path).handler = found
      BY <1>3, HitHandler DEF Find
    <2>3. QED
      BY <2>1, <2>2
  <1>4. CASE found = 0 /\ router.hasDynamic
    <2>1. BestAt(rs, m, path, <<>>, Descend(router.trie, m, path))
      BY DescendIsBest DEF RouterHas
    <2>2. Find(router, m, path) = OrElse(Descend(router.trie, m, path), Miss)
      BY <1>4 DEF Find, Match
    <2>3. Find(router, m, path).handler = Descend(router.trie, m, path).handler
      BY <2>2, OrElseTakes, MissIsNone DEF Either
    <2>4. QED
      BY <2>1, <2>3, FittingFromRoot DEF BestAt
  <1>5. CASE found = 0 /\ ~router.hasDynamic
    <2>1. Find(router, m, path).handler = 0
      BY <1>5, MissIsNone DEF Find
    <2>2. ASSUME NEW k \in Fitting(rs, m, path) PROVE FALSE
      <3>1. k \in 1..Len(rs) /\ m \in Serves(rs[k]) /\ Fits(rs[k].segs, path) /\ rs[k].segs \in Seq(STRING)
        BY <1>1 DEF Fitting, Routes
      <3>2. ~IsDynamic(rs[k].segs)
        BY <1>5, <3>1 DEF RouterHas
      <3>3. rs[k].segs = path
        BY <1>1, <3>1, <3>2, StaticFitsItself
      <3>4. <<rs[k].method, path>> \in DOMAIN router.statics
        BY <1>1, <3>1, <3>2, <3>3 DEF StaticsOf
      <3>5. rs[k].method \in {m, "ALL"}
        BY <3>1 DEF Serves
      <3>6. router.statics[<<rs[k].method, path>>] \in 1..Len(rs)
        BY <1>1, <3>4 DEF StaticsOf
      <3>7. PICK s \in {m, "ALL"} : found = router.statics[<<s, path>>] /\ <<s, path>> \in DOMAIN router.statics
        BY <3>4, <3>5 DEF Lookup
      <3> HIDE DEF found
      <3>8. found \in 1..Len(rs)
        BY <1>1, <3>7 DEF StaticsOf
      <3>9. QED
        BY <1>5, <3>8
    <2>3. QED
      BY <2>1, <2>2 DEF Best
  <1>6. QED
    BY <1>3, <1>4, <1>5

\* A set of numbers with a bound has a greatest member.
LEMMA GreatestNatural ==
    ASSUME NEW T, NEW N \in Nat, T \subseteq 1..N, T # {}
    PROVE  \E n \in T : \A k \in T : k <= n
  <1> DEFINE Bounds == {n \in Nat : \A k \in T : k <= n}
  <1>1. N \in Bounds /\ Bounds \subseteq Nat
    OBVIOUS
  <1>2. PICK n \in Bounds : \A k \in Bounds : n <= k
    <2> HIDE DEF Bounds
    <2>1. QED
      BY <1>1, LeastNatural
  <1>3. CASE n \in T
    BY <1>2, <1>3
  <1>4. CASE n \notin T
    <2>1. \A k \in T : k \in Nat \ {0} /\ k <= n /\ k # n
      BY <1>2, <1>4
    <2>2. n - 1 \in Bounds
      <3>1. n \in Nat /\ n # 0
        <4>1. PICK k \in T : TRUE
          OBVIOUS
        <4>2. QED
          BY <1>2, <2>1, <4>1
      <3>2. \A k \in T : k <= n - 1
        BY <2>1, <3>1
      <3>3. QED
        BY <3>1, <3>2
    <2>3. QED
      BY <1>2, <2>2
  <1>5. QED
    BY <1>3, <1>4

LEMMA NamedIsWhole ==
    ASSUME NEW u \in Urls
    PROVE  /\ Named(u).segs = u.segs
           /\ Segments(u.segs)
  <1> DEFINE cut == u.origin - u.origin
             n == Len(u.segs)
             c == Chars(u) - cut
             Cut == [segs |-> <<Foreign>> \o u.segs, slash |-> u.slash \/ u.segs = <<>>, lead |-> FALSE]
             Empty == [segs |-> <<>>, slash |-> FALSE, lead |-> TRUE]
             Whole == [segs |-> SubSeq(u.segs, (cut \div 2) + 1, n), slash |-> u.slash, lead |-> cut % 2 = 0]
  <1>1. u.segs \in Seq(STRING) /\ u.origin \in Nat /\ n \in Nat /\ DOMAIN u.segs = 1..n
    BY DispatchAssumption
  <1>2. Segments(u.segs)
    BY <1>1, SegmentAssumption DEF Segments
  <1>3. cut = 0
    BY <1>1
  <1>4. Named(u) = IF cut < 0 THEN Cut ELSE IF c <= 1 THEN Empty ELSE Whole
    BY DEF Named, Pathname
  <1>5. CASE u.segs = <<>>
    <2>1. c = 1
      <3>1. Chars(u) = 1
        BY <1>5 DEF Chars
      <3> HIDE DEF cut
      <3>2. QED
        BY <1>3, <3>1
    <2> HIDE DEF cut, c, Cut, Whole
    <2>2. Named(u) = Empty
      BY <1>3, <1>4, <2>1
    <2>3. QED
      BY <1>2, <1>5, <2>2
  <1>6. CASE u.segs # <<>>
    <2>1. c \in Int /\ ~(c <= 1)
      <3>1. n > 0
        BY <1>1, <1>6
      <3>2. Chars(u) = 2 * n + (IF u.slash THEN 1 ELSE 0)
        BY <1>6 DEF Chars
      <3> HIDE DEF cut, n
      <3>3. QED
        BY <1>1, <1>3, <3>1, <3>2
    <2>2. Whole.segs = u.segs
      <3>1. Whole.segs = SubSeq(u.segs, (cut \div 2) + 1, n)
        OBVIOUS
      <3> HIDE DEF Whole, cut
      <3>2. (cut \div 2) + 1 = 1
        BY <1>3
      <3>3. SubSeq(u.segs, 1, n) = u.segs
        BY <1>1
      <3>4. QED
        BY <3>1, <3>2, <3>3
    <2> HIDE DEF cut, c, Cut, Whole, Empty
    <2>3. Named(u) = Whole
      BY <1>3, <1>4, <2>1
    <2>4. QED
      BY <1>2, <2>2, <2>3
  <1>7. QED
    BY <1>5, <1>6

\* The static tables answer with a route without parameters that is spelled like the path.
LEMMA StaticRouteIsWritten ==
    ASSUME NEW rs, Routes(rs), NEW m, NEW path, StaticRoute(rs, m, path) # 0
    PROVE  LET h == StaticRoute(rs, m, path)
           IN /\ h \in 1..Len(rs) /\ ~IsDynamic(rs[h].segs) /\ rs[h].segs = path.segs
              /\ rs[h].method \in {m, "ALL"}
  <1> DEFINE h == StaticRoute(rs, m, path)
             Written == {n \in DOMAIN rs : /\ ~IsDynamic(rs[n].segs)
                                           /\ path.lead
                                           /\ rs[n].segs = path.segs
                                           /\ rs[n].slash = path.slash
                                           /\ rs[n].method \in {m, "ALL"}}
  <1>1. DOMAIN rs = 1..Len(rs) /\ Len(rs) \in Nat
    BY DEF Routes
  <1>2. h = IF Written = {} THEN 0 ELSE CHOOSE n \in Written : \A k \in Written : k <= n
    BY DEF StaticRoute
  <1> HIDE DEF h
  <1>3. h \in Written
    <2>1. Written \subseteq 1..Len(rs)
      BY <1>1
    <2> HIDE DEF Written
    <2>2. Written # {} => \E n \in Written : \A k \in Written : k <= n
      BY <1>1, <2>1, GreatestNatural
    <2>3. QED
      BY <1>2, <2>2 DEF h
  <1>4. h \in 1..Len(rs) /\ ~IsDynamic(rs[h].segs) /\ rs[h].segs = path.segs /\ rs[h].method \in {m, "ALL"}
    BY <1>1, <1>3
  <1>5. QED
    BY <1>4 DEF h

\* Without caches the best route of all that fit answers.
LEMMA ResolveIsBest ==
    ASSUME NEW rs, Routes(rs), NEW m \in Methods, NEW u \in Urls
    PROVE  Best(rs, Fitting(rs, m, u.segs), Resolve(rs, m, Named(u)).handler)
  <1> DEFINE h == StaticRoute(rs, m, Named(u))
  <1>1. Named(u).segs = u.segs /\ Segments(u.segs) /\ u.segs \in Seq(STRING)
    BY NamedIsWhole DEF Segments
  <1>2. CASE h # 0
    <2>1. /\ h \in 1..Len(rs) /\ ~IsDynamic(rs[h].segs) /\ rs[h].segs = u.segs
          /\ rs[h].method \in {m, "ALL"}
      BY <1>1, <1>2, StaticRouteIsWritten
    <2>2. Resolve(rs, m, Named(u)).handler = h
      BY <1>2, HitHandler DEF Resolve, ResolveWith
    <2> HIDE DEF h
    <2>3. m \in Serves(rs[h])
      BY <2>1, DispatchAssumption DEF Serves
    <2>4. Best(rs, Fitting(rs, m, u.segs), h)
      BY <1>1, <2>1, <2>3, StaticRouteIsBest
    <2>5. QED
      BY <2>2, <2>4
  <1>3. CASE h = 0
    <2>1. Resolve(rs, m, Named(u)) = Find(RouterOf(rs), m, u.segs)
      BY <1>1, <1>3 DEF Resolve, ResolveWith
    <2>2. RouterHas(RouterOf(rs), rs, Len(rs))
      BY RouterOfHas
    <2>3. QED
      BY <1>1, <2>1, <2>2, FindIsBest
  <1>4. QED
    BY <1>2, <1>3

\* Whatever the host names, a request whose path is where the first URL had it gets 404
\* only if no registered route fits it, and otherwise a route that fits and than which
\* none that fits is more specific: the backtracking of match() loses no candidate, for
\* tries of any shape, and neither the static tables nor the caches answer out of turn.
THEOREM BestRouteIsTaken == Spec => BestRouteAnswers
  <1> DEFINE BestAnswers ==
        reply' # reply /\ OwnOffset(compiled', reply'.url) =>
            LET C == Candidates(reply'.method, reply'.url)
                h == reply'.handler
            IN IF h = 0 THEN C = {}
               ELSE h \in C /\ \A n \in C : ~MoreSpecific(routes[n].segs, routes[h].segs)
  <1>1. Init => Inv
    BY DEF Init, Inv
  <1>2. Inv /\ [Next]_vars => Inv'
    BY InvStep
  <1>3. Inv /\ Typed /\ [Next]_vars => [BestAnswers]_vars
    <2> SUFFICES ASSUME Inv, Typed, [Next]_vars, reply' # reply, OwnOffset(compiled', reply'.url)
                 PROVE  BestAnswers
      OBVIOUS
    <2>1. /\ reply'.method \in Methods /\ reply'.url \in Urls
          /\ reply'.handler = Resolve(routes, reply'.method, Named(reply'.url)).handler
      BY NamedStep
    <2>2. Routes(routes)
      BY TypedRoutes DEF Typed
    <2>3. Best(routes, Fitting(routes, reply'.method, reply'.url.segs), reply'.handler)
      BY <2>1, <2>2, ResolveIsBest
    <2>4. QED
      BY <2>3 DEF Best, Fitting, Candidates
  <1>4. QED
    BY <1>1, <1>2, <1>3, RoutesTyped, PTL DEF Spec, BestRouteAnswers

-----------------------------------------------------------------------------
(* The parameters that match() collects on its way back. *)

ParamNames == Colon \cup {Star}
NamesAfter(p, i) == {p[j] : j \in (i + 1)..Len(p)} \cap ParamNames
Spelling(name, path, k) == IF name = Star THEN SubSeq(path, k, Len(path)) ELSE <<path[k]>>

\* params spells what the parts of p after the first i name.
Spells(params, p, path, i) ==
    /\ params = [name \in NamesAfter(p, i) |-> params[name]]
    /\ \A k \in (i + 1)..Len(p) : p[k] \in ParamNames => params[p[k]] = Spelling(p[k], path, k)

SpellsAt(rs, path, a, hit) ==
    hit.handler # 0 => Spells(hit.params, rs[hit.handler].segs, path, Len(a))

\* NamesAgree, of any routes.
AgreeOnNames(rs) ==
    /\ \A n, k \in DOMAIN rs : \A i \in DOMAIN rs[n].segs \cap DOMAIN rs[k].segs :
        LET p == rs[n].segs
            q == rs[k].segs
        IN NodeAt(p, i) = NodeAt(q, i) /\ p[i] \in Colon => p[i] = q[i]
    /\ \A n \in DOMAIN rs : \A i, j \in DOMAIN rs[n].segs :
        LET p == rs[n].segs IN i # j /\ p[i] \in Colon => p[i] # p[j]

LEMMA NothingToSpell ==
    ASSUME NEW p, NEW path, NEW i, NamesAfter(p, i) = {}
    PROVE  Spells(<<>>, p, path, i)
  <1>1. <<>> = [name \in {} |-> <<>>[name]]
    OBVIOUS
  <1>2. \A k \in (i + 1)..Len(p) : p[k] \notin ParamNames
    BY DEF NamesAfter
  <1>3. QED
    BY <1>1, <1>2 DEF Spells

\* A literal adds nothing.
LEMMA SpellsLiteral ==
    ASSUME NEW p \in Seq(STRING), NEW path, NEW i \in Nat, i < Len(p), p[i + 1] \notin ParamNames,
           NEW params, Spells(params, p, path, i + 1)
    PROVE  Spells(params, p, path, i)
  <1>1. (i + 1)..Len(p) = {i + 1} \cup ((i + 1) + 1)..Len(p)
    OBVIOUS
  <1>2. NamesAfter(p, i) = NamesAfter(p, i + 1)
    BY <1>1 DEF NamesAfter
  <1>3. QED
    BY <1>1, <1>2 DEF Spells

\* A parameter adds its segment, under a name that nothing further down has.
LEMMA SpellsParameter ==
    ASSUME NEW p \in Seq(STRING), NEW path, NEW i \in Nat, i < Len(p), p[i + 1] \in Colon,
           \A j \in (i + 2)..Len(p) : p[j] # p[i + 1],
           NEW params, Spells(params, p, path, i + 1)
    PROVE  Spells(Put(params, p[i + 1], <<path[i + 1]>>), p, path, i)
  <1> DEFINE name == p[i + 1]
             new == Put(params, name, <<path[i + 1]>>)
  <1>1. (i + 1)..Len(p) = {i + 1} \cup (i + 2)..Len(p) /\ (i + 1) + 1 = i + 2
    OBVIOUS
  <1>2. name \in ParamNames /\ name # Star
    BY SegmentAssumption DEF ParamNames
  <1>3. NamesAfter(p, i) = {name} \cup NamesAfter(p, i + 1)
    BY <1>1, <1>2 DEF NamesAfter
  <1>4. DOMAIN params = NamesAfter(p, i + 1)
    <2>1. params = [x \in NamesAfter(p, i + 1) |-> params[x]]
      BY DEF Spells
    <2>2. QED
      BY <2>1
  <1>5. new = [x \in DOMAIN params \cup {name} |-> IF x = name THEN <<path[i + 1]>> ELSE params[x]]
    BY DEF Put
  <1> HIDE DEF new
  <1>6. new = [x \in NamesAfter(p, i) |-> new[x]]
    <2>1. DOMAIN params \cup {name} = NamesAfter(p, i)
      BY <1>3, <1>4
    <2> HIDE DEF name
    <2>2. QED
      BY <1>5, <2>1
  <1>7. ASSUME NEW k \in (i + 1)..Len(p), p[k] \in ParamNames
        PROVE  new[p[k]] = Spelling(p[k], path, k)
    <2>1. CASE k = i + 1
      BY <1>2, <1>5, <2>1 DEF Spelling
    <2>2. CASE k # i + 1
      <3>1. k \in (i + 2)..Len(p) /\ p[k] # name
        BY <1>1, <2>2
      <3>2. p[k] \in NamesAfter(p, i + 1) /\ params[p[k]] = Spelling(p[k], path, k)
        BY <1>1, <1>7, <3>1 DEF Spells, NamesAfter
      <3>3. QED
        BY <1>4, <1>5, <3>1, <3>2
    <2>3. QED
      BY <2>1, <2>2
  <1>8. Spells(new, p, path, i)
    BY <1>6, <1>7 DEF Spells
  <1>9. QED
    BY <1>8 DEF new

\* The wildcard takes the rest.
LEMMA SpellsRest ==
    ASSUME NEW p \in Seq(STRING), NEW path, NEW i \in Nat, Len(p) = i + 1, p[i + 1] = Star
    PROVE  Spells(Put(<<>>, Star, SubSeq(path, i + 1, Len(path))), p, path, i)
  <1> DEFINE rest == SubSeq(path, i + 1, Len(path))
             new == Put(<<>>, Star, rest)
  <1>1. (i + 1)..Len(p) = {i + 1}
    OBVIOUS
  <1>2. NamesAfter(p, i) = {Star}
    BY <1>1 DEF NamesAfter, ParamNames
  <1> HIDE DEF rest
  <1>3. new = [x \in {Star} |-> rest]
    <2>1. DOMAIN <<>> \cup {Star} = {Star}
      OBVIOUS
    <2>2. new = [x \in DOMAIN <<>> \cup {Star} |-> IF x = Star THEN rest ELSE <<>>[x]]
      BY DEF Put
    <2>3. QED
      BY <2>1, <2>2
  <1> HIDE DEF new
  <1>4. new = [x \in NamesAfter(p, i) |-> new[x]] /\ new[Star] = rest
    BY <1>2, <1>3
  <1>5. Spells(new, p, path, i)
    BY <1>1, <1>4 DEF Spells, Spelling, rest
  <1>6. QED
    BY <1>5 DEF new, rest

\* The name a node keeps is that of every route with a parameter there.
LEMMA NodeHasTheName ==
    ASSUME NEW rs, Routes(rs), AgreeOnNames(rs), NEW trie, TrieOf(trie, rs, Len(rs)),
           NEW a \in DOMAIN trie, NEW h \in 1..Len(rs), Names(rs[h], a)
    PROVE  trie[a].paramName = rs[h].segs[Len(a) + 1]
  <1> DEFINE i == Len(a) + 1
  <1>1. PICK k \in 1..Len(rs) : Names(rs[k], a) /\ rs[k].segs[i] = trie[a].paramName
    BY DEF TrieOf
  <1>2. a \in Seq(Edges) /\ Len(a) \in Nat /\ DOMAIN rs = 1..Len(rs)
    <2>1. a \in Seq(Edges)
      BY TrieNodes
    <2>2. QED
      BY <2>1 DEF Routes
  <1>3. ASSUME NEW n \in 1..Len(rs), Names(rs[n], a)
        PROVE  /\ i \in DOMAIN rs[n].segs /\ rs[n].segs[i] \in Colon
               /\ NodeAt(rs[n].segs, i) = Append(a, ParamEdge)
    <2>1. rs[n].segs \in Seq(STRING) /\ OnWay(rs[n], a) /\ Len(a) < Len(rs[n].segs)
          /\ rs[n].segs[i] \in Colon
      BY <1>3 DEF Names, Routes
    <2>2. NodeAt(rs[n].segs, Len(a)) = a
      BY <2>1, WayAtDepth
    <2>3. NodeAt(rs[n].segs, i) = Append(a, Edge(rs[n].segs[i]))
      BY <1>2, <2>1, <2>2, NodeGrows
    <2>4. Edge(rs[n].segs[i]) = ParamEdge
      BY <2>1 DEF Edge
    <2>5. QED
      BY <1>2, <2>1, <2>3, <2>4
  <1> HIDE DEF i
  <1>4. i \in DOMAIN rs[h].segs \cap DOMAIN rs[k].segs /\ NodeAt(rs[h].segs, i) = NodeAt(rs[k].segs, i)
        /\ rs[h].segs[i] \in Colon
    BY <1>1, <1>3
  <1>5. rs[h].segs[i] = rs[k].segs[i]
    BY <1>2, <1>4 DEF AgreeOnNames
  <1>6. QED
    BY <1>1, <1>5 DEF i

LEMMA OwnSpells ==
    ASSUME NEW rs, Routes(rs), NEW trie, TrieOf(trie, rs, Len(rs)), NEW m \in Methods, NEW path,
           NEW a \in DOMAIN trie
    PROVE  SpellsAt(rs, path, a, Own(trie, m, a))
  <1> DEFINE h == getHandlerFor(trie[a].handlers, m)
             p == rs[h].segs
  <1>1. Own(trie, m, a).handler = h /\ Own(trie, m, a).params = <<>>
    BY HitHandler DEF Own
  <1>2. Best(rs, EndsAt(rs, m, a), h)
    BY HandlerEndsHere
  <1> HIDE DEF h
  <1>3. ASSUME h # 0 PROVE NamesAfter(p, Len(a)) = {}
    <2>1. h \in 1..Len(rs) /\ Leaf(rs[h]) = a /\ p \in Seq(STRING)
      BY <1>2, <1>3 DEF Best, EndsAt, Routes
    <2>2. Len(p) \in 0..Len(p)
      BY <2>1
    <2>3. Len(a) = Len(p)
      BY <2>1, <2>2, NodeIsSeq DEF Leaf
    <2>4. (Len(a) + 1)..Len(p) = {}
      BY <2>1, <2>3
    <2>5. QED
      BY <2>4 DEF NamesAfter
  <1>4. QED
    BY <1>1, <1>3, NothingToSpell DEF SpellsAt

LEMMA RestSpells ==
    ASSUME NEW rs, Routes(rs), NEW trie, TrieOf(trie, rs, Len(rs)), NEW m \in Methods, NEW path,
           NEW a \in DOMAIN trie
    PROVE  SpellsAt(rs, path, a, Rest(trie, m, path, a))
  <1> DEFINE rest == Rest(trie, m, path, a)
             h == rest.handler
             p == rs[h].segs
  <1>1. Best(rs, CatchAlls(rs, m, a), h)
    BY RestIsBest
  <1>2. a \in Seq(Edges)
    BY TrieNodes
  <1>3. ASSUME h # 0 PROVE rest.params = Put(<<>>, Star, SubSeq(path, Len(a) + 1, Len(path)))
    BY <1>3, HitHandler, MissIsNone DEF Rest
  <1> HIDE DEF rest
  <1>4. ASSUME h # 0 PROVE Spells(rest.params, p, path, Len(a))
    <2>1. h \in 1..Len(rs) /\ Leaf(rs[h]) = Append(a, WildEdge)
      BY <1>1, <1>4 DEF Best, CatchAlls, EndsAt
    <2>2. p \in Seq(STRING) /\ \A j \in 1..Len(p) : p[j] \notin {ParamEdge, WildEdge}
      BY <2>1 DEF Routes
    <2>3. WildEdge \in Edges /\ Len(a) \in Nat
      BY <1>2 DEF Edges
    <2>4. Len(p) = Len(a) + 1 /\ Edge(p[Len(a) + 1]) = WildEdge
      BY <1>2, <2>1, <2>2, <2>3, WayDeeper
    <2>5. p[Len(a) + 1] = Star
      BY <2>2, <2>3, <2>4, EdgeTellsKind
    <2>6. QED
      BY <1>3, <1>4, <2>2, <2>3, <2>4, <2>5, SpellsRest
  <1>5. QED
    BY <1>4 DEF SpellsAt, rest

LEMMA DownSpells ==
    ASSUME NEW rs, NEW trie, NEW path, NEW a, NEW match, NEW e,
           Append(a, e) \in DOMAIN trie => SpellsAt(rs, path, Append(a, e), match[Append(a, e)])
    PROVE  SpellsAt(rs, path, Append(a, e), Down(match, trie, a, e))
  BY MissIsNone DEF Down, SpellsAt

LEMMA LiteralSpells ==
    ASSUME NEW rs, Routes(rs), NEW m \in Methods, NEW path, Segments(path), NEW a \in Seq(Edges),
           Len(a) < Len(path), NEW hit,
           BestAt(rs, m, path, Append(a, path[Len(a) + 1]), hit),
           SpellsAt(rs, path, Append(a, path[Len(a) + 1]), hit)
    PROVE  SpellsAt(rs, path, a, hit)
  <1> DEFINE seg == path[Len(a) + 1]
             h == hit.handler
             p == rs[h].segs
  <1>1. Len(Append(a, seg)) = Len(a) + 1 /\ Len(a) \in Nat
    <2>1. Len(a) + 1 \in 1..Len(path) /\ path \in Seq(STRING)
      BY DEF Segments
    <2>2. seg \in Edges
      BY <2>1 DEF Edges
    <2>3. QED
      BY <2>2
  <1>2. ASSUME h # 0 PROVE Spells(hit.params, p, path, Len(a))
    <2>1. h \in NextRank(rs, a, 0)
      BY <1>2, CandidatesSplit DEF BestAt, Best
    <2>2. h \in 1..Len(rs) /\ Len(a) < Len(p) /\ p[Len(a) + 1] \notin ParamNames
      BY <2>1 DEF NextRank, Rank, ParamNames
    <2>3. p \in Seq(STRING)
      BY <2>2 DEF Routes
    <2>4. Spells(hit.params, p, path, Len(a) + 1)
      BY <1>1, <1>2 DEF SpellsAt
    <2>5. QED
      BY <1>1, <2>2, <2>3, <2>4, SpellsLiteral
  <1>3. QED
    BY <1>2 DEF SpellsAt

LEMMA ParameterSpells ==
    ASSUME NEW rs, Routes(rs), AgreeOnNames(rs), NEW trie, TrieOf(trie, rs, Len(rs)),
           NEW m \in Methods, NEW path, Segments(path), NEW a \in DOMAIN trie,
           Len(a) < Len(path), NEW hit,
           BestAt(rs, m, path, Append(a, ParamEdge), hit),
           SpellsAt(rs, path, Append(a, ParamEdge), hit)
    PROVE  SpellsAt(rs, path, a, Bind(trie, path, a, hit))
  <1> DEFINE h == hit.handler
             p == rs[h].segs
             i == Len(a)
  <1>1. a \in Seq(Edges)
    BY TrieNodes
  <1>2. Len(Append(a, ParamEdge)) = i + 1 /\ i \in Nat
    <2>1. ParamEdge \in Edges
      BY DEF Edges
    <2>2. QED
      BY <1>1, <2>1
  <1>3. ASSUME h # 0
        PROVE  Spells(Put(hit.params, trie[a].paramName, <<path[i + 1]>>), p, path, i)
    <2>1. h \in NextRank(rs, a, 1)
      BY <1>1, <1>3, CandidatesSplit DEF BestAt, Best
    <2>2. h \in 1..Len(rs) /\ i < Len(p) /\ OnWay(rs[h], a) /\ p[i + 1] \in Colon
      BY <2>1 DEF NextRank, Rank
    <2>3. p \in Seq(STRING) /\ DOMAIN rs = 1..Len(rs)
      BY <2>2 DEF Routes
    <2>4. trie[a].paramName = p[i + 1]
      BY <2>2, NodeHasTheName DEF Names
    <2>5. \A j \in (i + 2)..Len(p) : p[j] # p[i + 1]
      <3>1. TAKE j \in (i + 2)..Len(p)
      <3>2. j \in DOMAIN p /\ i + 1 \in DOMAIN p /\ i + 1 # j
        BY <1>2, <2>2, <2>3
      <3> HIDE DEF i
      <3>3. QED
        BY <2>2, <2>3, <3>2 DEF AgreeOnNames
    <2>6. Spells(hit.params, p, path, i + 1)
      BY <1>2, <1>3 DEF SpellsAt
    <2>7. Spells(Put(hit.params, p[i + 1], <<path[i + 1]>>), p, path, i)
      BY <1>2, <2>2, <2>3, <2>5, <2>6, SpellsParameter
    <2>8. QED
      BY <2>4, <2>7
  <1>4. QED
    BY <1>3, HitHandler DEF SpellsAt, Bind

LEMMA MatchAtSpells ==
    ASSUME NEW rs, Routes(rs), AgreeOnNames(rs), NEW trie, TrieOf(trie, rs, Len(rs)),
           NEW m \in Methods, NEW path, Segments(path), NEW a \in DOMAIN trie,
           Len(a) <= Len(path), NEW match,
           Len(a) < Len(path) =>
               \A e \in {path[Len(a) + 1], ParamEdge} :
                   Append(a, e) \in DOMAIN trie =>
                       /\ BestAt(rs, m, path, Append(a, e), match[Append(a, e)])
                       /\ SpellsAt(rs, path, Append(a, e), match[Append(a, e)])
    PROVE  SpellsAt(rs, path, a, MatchAt(match, trie, m, path, a))
  <1> DEFINE rest == Rest(trie, m, path, a)
  <1>1. SpellsAt(rs, path, a, rest)
    BY RestSpells
  <1>2. Len(a) \in Nat /\ Len(path) \in Nat /\ a \in Seq(Edges)
    <2>1. a \in Seq(Edges)
      BY TrieNodes
    <2>2. QED
      BY <2>1 DEF Segments
  <1>3. CASE Len(a) = Len(path)
    <2>1. MatchAt(match, trie, m, path, a) = OrElse(Own(trie, m, a), rest)
      BY <1>3, MatchAtNode
    <2>2. SpellsAt(rs, path, a, Own(trie, m, a))
      BY OwnSpells
    <2>3. QED
      BY <1>1, <2>1, <2>2, OrElseTakes
  <1>4. CASE Len(a) < Len(path)
    <2> DEFINE seg == path[Len(a) + 1]
               lit == Down(match, trie, a, seg)
               par == Bind(trie, path, a, Down(match, trie, a, ParamEdge))
    <2>1. \A e \in {seg, ParamEdge} :
              /\ BestAt(rs, m, path, Append(a, e), Down(match, trie, a, e))
              /\ SpellsAt(rs, path, Append(a, e), Down(match, trie, a, e))
      BY <1>4, DownIsBest, DownSpells
    <2>2. SpellsAt(rs, path, a, lit)
      BY <1>2, <1>4, <2>1, LiteralSpells
    <2>3. SpellsAt(rs, path, a, par)
      BY <1>4, <2>1, ParameterSpells
    <2>4. MatchAt(match, trie, m, path, a) = OrElse(lit, OrElse(par, rest))
      BY <1>2, <1>4, MatchAtNode
    <2> HIDE DEF lit, par, rest
    <2>5. OrElse(par, rest) \in {par, rest} /\ OrElse(lit, OrElse(par, rest)) \in {lit, par, rest}
      BY OrElseTakes
    <2>6. QED
      BY <1>1, <2>2, <2>3, <2>4, <2>5
  <1>5. QED
    BY <1>2, <1>3, <1>4

LEMMA MatchSpells ==
    ASSUME NEW rs, Routes(rs), AgreeOnNames(rs), NEW trie, TrieOf(trie, rs, Len(rs)),
           NEW m \in Methods, NEW path, Segments(path),
           NEW f, IsMatch(f, trie, m, path, Reached(trie, path)), NEW a \in Reached(trie, path)
    PROVE  SpellsAt(rs, path, a, f[a])
  <1> DEFINE N == Len(path)
             Wrong == {j \in 0..N : \E b \in Reached(trie, path) :
                                        Len(b) + j = N /\ ~SpellsAt(rs, path, b, f[b])}
  <1>1. \A b \in DOMAIN trie : b \in Seq(Edges)
    BY TrieNodes
  <1>2. N \in Nat /\ \A b \in DOMAIN trie : Len(b) \in Nat
    BY <1>1 DEF Segments
  <1>3. ASSUME Wrong # {} PROVE FALSE
    <2>1. PICK j \in Wrong : \A k \in Wrong : j <= k
      <3>1. Wrong \subseteq Nat
        BY <1>2
      <3> HIDE DEF Wrong
      <3>2. QED
        BY <1>3, <3>1, LeastNatural
    <2>2. PICK b \in Reached(trie, path) : Len(b) + j = N /\ ~SpellsAt(rs, path, b, f[b])
      BY <2>1
    <2>3. b \in DOMAIN trie /\ b \in Seq(Edges) /\ Len(b) \in Nat /\ Len(b) <= N
      BY <1>1, <1>2 DEF Reached
    <2>4. ASSUME Len(b) < N, NEW e \in {path[Len(b) + 1], ParamEdge}, Append(b, e) \in DOMAIN trie
          PROVE  /\ BestAt(rs, m, path, Append(b, e), f[Append(b, e)])
                 /\ SpellsAt(rs, path, Append(b, e), f[Append(b, e)])
      <3>1. e \in Edges
        BY <1>2, <2>3, <2>4 DEF Segments, Edges
      <3>2. Len(Append(b, e)) = Len(b) + 1
        BY <2>3, <3>1
      <3>3. Append(b, e) \in Reached(trie, path)
        BY <1>2, <2>3, <2>4, <3>2 DEF Reached
      <3>4. j - 1 \in 0..N /\ Len(Append(b, e)) + (j - 1) = N /\ ~(j <= j - 1)
        <4>1. j \in 0..N
          BY <2>1
        <4>2. QED
          BY <1>2, <2>2, <2>3, <2>4, <3>2, <4>1
      <3>5. j - 1 \notin Wrong
        <4> HIDE DEF Wrong
        <4>1. QED
          BY <2>1, <3>4
      <3>6. SpellsAt(rs, path, Append(b, e), f[Append(b, e)])
        BY <3>3, <3>4, <3>5
      <3>7. QED
        BY <3>3, <3>6, MatchIsBest
    <2>5. SpellsAt(rs, path, b, MatchAt(f, trie, m, path, b))
      BY <2>3, <2>4, MatchAtSpells
    <2>6. f[b] = MatchAt(f, trie, m, path, b)
      BY DEF IsMatch
    <2>7. QED
      BY <2>2, <2>5, <2>6
  <1>4. N - Len(a) \in 0..N /\ Len(a) + (N - Len(a)) = N
    BY <1>2 DEF Reached
  <1>5. QED
    BY <1>3, <1>4

\* A pattern that fits has its wildcard at the end, and then names nothing twice.
LEMMA SpelledWhole ==
    ASSUME NEW rs, Routes(rs), AgreeOnNames(rs), NEW h \in 1..Len(rs), NEW path \in Seq(STRING),
           Fits(rs[h].segs, path), NEW params, Spells(params, rs[h].segs, path, 0)
    PROVE  params = ParamsOf(rs[h].segs, path)
  <1> DEFINE p == rs[h].segs
             Place(name) == CHOOSE k \in DOMAIN p : p[k] = name
  <1>1. p \in Seq(STRING) /\ DOMAIN p = 1..Len(p) /\ Len(p) \in Nat /\ Len(path) \in Nat
        /\ DOMAIN rs = 1..Len(rs)
    BY DEF Routes
  <1>2. ASSUME NEW i \in DOMAIN p, p[i] = Star PROVE i = Len(p)
    BY <1>1, <1>2 DEF Fits, Agrees
  <1>3. ASSUME NEW i \in DOMAIN p, NEW j \in DOMAIN p, p[i] = p[j], p[i] \in ParamNames PROVE i = j
    <2>1. CASE p[i] = Star
      BY <1>2, <1>3, <2>1
    <2>2. CASE p[i] \in Colon
      BY <1>1, <1>3, <2>2 DEF AgreeOnNames
    <2>3. QED
      BY <1>3, <2>1, <2>2 DEF ParamNames
  <1>4. NamesAfter(p, 0) = {p[i] : i \in DOMAIN p} \cap (Colon \cup {Star})
    BY <1>1 DEF NamesAfter, ParamNames
  <1>5. ASSUME NEW name \in NamesAfter(p, 0)
        PROVE  params[name] = IF name = Star THEN SubSeq(path, Place(name), Len(path)) ELSE <<path[Place(name)]>>
    <2>1. name \in ParamNames /\ \E k \in DOMAIN p : p[k] = name
      BY <1>4 DEF ParamNames
    <2>2. Place(name) \in DOMAIN p /\ p[Place(name)] = name
      BY <2>1
    <2>3. params[name] = Spelling(name, path, Place(name))
      <3> HIDE DEF Place
      <3>1. QED
        BY <1>1, <2>1, <2>2 DEF Spells
    <2>4. QED
      BY <2>3 DEF Spelling
  <1>6. params = [name \in NamesAfter(p, 0) |-> params[name]]
    BY DEF Spells
  <1>7. params = [name \in NamesAfter(p, 0) |->
                    IF name = Star THEN SubSeq(path, Place(name), Len(path)) ELSE <<path[Place(name)]>>]
    <2> HIDE DEF p, Place
    <2>1. QED
      BY <1>5, <1>6
  <1>8. QED
    BY <1>4, <1>7 DEF ParamsOf

LEMMA StaticSpells ==
    ASSUME NEW p \in Seq(STRING), ~IsDynamic(p), NEW path
    PROVE  Spells(<<>>, p, path, 0)
  <1>1. NamesAfter(p, 0) = {}
    BY StaticParts DEF NamesAfter, ParamNames
  <1>2. QED
    BY <1>1, NothingToSpell

\* Whoever answers, the parameters are those of the route that is called.
LEMMA FindSpells ==
    ASSUME NEW rs, Routes(rs), AgreeOnNames(rs), NEW router, RouterHas(router, rs, Len(rs)),
           NEW m \in Methods, NEW path, Segments(path)
    PROVE  LET hit == Find(router, m, path)
           IN hit.handler # 0 => Spells(hit.params, rs[hit.handler].segs, path, 0)
  <1> DEFINE found == Lookup(router.statics, m, path)
             hit == Find(router, m, path)
  <1>1. TrieOf(router.trie, rs, Len(rs)) /\ StaticsOf(router.statics, rs, Len(rs))
    BY DEF RouterHas
  <1>2. CASE found # 0
    <2>1. hit = Hit(found, <<>>)
      BY <1>2 DEF Find
    <2>2. PICK s \in {m, "ALL"} : <<s, path>> \in DOMAIN router.statics /\ found = router.statics[<<s, path>>]
      BY <1>2 DEF Lookup
    <2> HIDE DEF found
    <2>3. found \in 1..Len(rs) /\ ~IsDynamic(rs[found].segs)
      BY <1>1, <2>2 DEF StaticsOf
    <2>4. rs[found].segs \in Seq(STRING)
      BY <2>3 DEF Routes
    <2>5. QED
      BY <2>1, <2>3, <2>4, HitHandler, StaticSpells
  <1>3. CASE found = 0 /\ router.hasDynamic
    <2>1. hit = OrElse(Descend(router.trie, m, path), Miss)
      BY <1>3 DEF Find, Match
    <2> DEFINE d == Descend(router.trie, m, path)
    <2>2. SpellsAt(rs, path, <<>>, d)
      <3>1. \A a \in DOMAIN router.trie : a \in Seq(Edges)
        BY <1>1, TrieNodes
      <3>2. PICK f : /\ IsMatch(f, router.trie, m, path, Reached(router.trie, path))
                     /\ d = f[<<>>]
        BY <3>1, DescendUnfolds
      <3>3. QED
        BY <1>1, <3>2, RootReached, MatchSpells
    <2> HIDE DEF d
    <2>3. d.handler # 0 => Spells(d.params, rs[d.handler].segs, path, 0)
      BY <2>2 DEF SpellsAt
    <2>4. hit.handler # 0 => hit = d
      BY <2>1, OrElseTakes, MissIsNone DEF d
    <2>5. QED
      BY <2>3, <2>4
  <1>4. CASE found = 0 /\ ~router.hasDynamic
    BY <1>4, MissIsNone DEF Find
  <1>5. QED
    BY <1>2, <1>3, <1>4

LEMMA ResolveSpells ==
    ASSUME NEW rs, Routes(rs), AgreeOnNames(rs), NEW m \in Methods, NEW u \in Urls
    PROVE  LET hit == Resolve(rs, m, Named(u))
           IN hit.handler # 0 => hit.params = ParamsOf(rs[hit.handler].segs, u.segs)
  <1> DEFINE hit == Resolve(rs, m, Named(u))
             h == hit.handler
  <1>1. Named(u).segs = u.segs /\ Segments(u.segs) /\ u.segs \in Seq(STRING)
    BY NamedIsWhole DEF Segments
  <1>2. DOMAIN rs = 1..Len(rs)
    BY DEF Routes
  <1>3. ASSUME h # 0 PROVE h \in 1..Len(rs) /\ Fits(rs[h].segs, u.segs)
    BY <1>2, <1>3, ResolveIsBest DEF Best, Fitting
  <1>4. ASSUME h # 0 PROVE Spells(hit.params, rs[h].segs, u.segs, 0)
    <2> DEFINE s == StaticRoute(rs, m, Named(u))
    <2>1. CASE s # 0
      <3>1. hit = Hit(s, <<>>)
        BY <2>1 DEF Resolve, ResolveWith
      <3>2. h = s /\ hit.params = <<>>
        BY <3>1, HitHandler
      <3>3. ~IsDynamic(rs[s].segs)
        BY <2>1, StaticRouteIsWritten
      <3>4. rs[h].segs \in Seq(STRING)
        BY <1>3, <1>4 DEF Routes
      <3>5. QED
        BY <3>2, <3>3, <3>4, StaticSpells
    <2>2. CASE s = 0
      <3>1. hit = Find(RouterOf(rs), m, u.segs)
        BY <1>1, <2>2 DEF Resolve, ResolveWith
      <3>2. RouterHas(RouterOf(rs), rs, Len(rs))
        BY RouterOfHas
      <3>3. QED
        BY <1>1, <1>4, <3>1, <3>2, FindSpells
    <2>3. QED
      BY <2>1, <2>2
  <1> HIDE DEF hit
  <1>5. ASSUME h # 0 PROVE hit.params = ParamsOf(rs[h].segs, u.segs)
    BY <1>1, <1>3, <1>4, <1>5, SpelledWhole
  <1>6. QED
    BY <1>5 DEF hit

\* For such a request, and while the patterns agree on the names of parameters, the
\* handler gets, under the names of its own pattern and no others, the segments of the
\* path that was asked for.
THEOREM ParamsAreSpelled == Spec => ParamsSpellThePath
  <1> DEFINE Spelled ==
        reply' # reply /\ OwnOffset(compiled', reply'.url) /\ NamesAgree => ParamsSpellPath(reply')
  <1>1. Init => Inv
    BY DEF Init, Inv
  <1>2. Inv /\ [Next]_vars => Inv'
    BY InvStep
  <1>3. Inv /\ Typed /\ [Next]_vars => [Spelled]_vars
    <2> SUFFICES ASSUME Inv, Typed, [Next]_vars, reply' # reply, OwnOffset(compiled', reply'.url), NamesAgree
                 PROVE  ParamsSpellPath(reply')
      OBVIOUS
    <2> DEFINE hit == Resolve(routes, reply'.method, Named(reply'.url))
    <2>1. /\ reply'.method \in Methods /\ reply'.url \in Urls
          /\ reply'.handler = hit.handler /\ reply'.params = hit.params
      BY NamedStep
    <2>2. Routes(routes) /\ AgreeOnNames(routes)
      BY TypedRoutes DEF Typed, NamesAgree, AgreeOnNames
    <2>3. hit.handler # 0 => hit.params = ParamsOf(routes[hit.handler].segs, reply'.url.segs)
      BY <2>1, <2>2, ResolveSpells
    <2> HIDE DEF hit
    <2>4. QED
      BY <2>1, <2>3 DEF ParamsSpellPath
  <1>4. QED
    BY <1>1, <1>2, <1>3, RoutesTyped, PTL DEF Spec, ParamsSpellThePath
=============================================================================
