------------------------------- MODULE Router -------------------------------
(***************************************************************************)
(* The router of packages/router: static tables in front of a trie.  What  *)
(* add() builds and what find() answers, without the result cache, which   *)
(* belongs to whoever keeps a router (Dispatch).                           *)
(*                                                                         *)
(* A path is the sequence of its segments and a pattern the sequence of    *)
(* its parts, so normalizePath has nothing left to do but for the trailing *)
(* and the missing leading slash, which Dispatch keeps apart.  A handler   *)
(* is the number of its route; 0 is no handler.                            *)
(***************************************************************************)
EXTENDS Naturals, Sequences

CONSTANTS
    Methods,    \* HTTP methods in upper case; "ALL" is not one of them
    Colon,      \* the parts that begin with a colon: names of parameters
    NamedStars, \* parts such as "*path": a star and a name
    Star        \* the part that is a star alone

Verbs == {"GET", "POST", "PUT", "DELETE"}   \* those with a field of their own
Slots == Methods \cup {"ALL"}
\* The edges to a node's paramChild and wildcardChild: no segment has a slash.
ParamEdge == "/:"
WildEdge == "/*"

\* The partial function f with k mapped to v: Map.set, or a property set.
Put(f, k, v) == [x \in DOMAIN f \cup {k} |-> IF x = k THEN v ELSE f[x]]

IsDynamic(pattern) ==
    \E i \in DOMAIN pattern : pattern[i] \in Colon \cup NamedStars \cup {Star}

-----------------------------------------------------------------------------
(* TrieNode.  A node is found at the sequence of edges that leads to it.   *)

NewNode == [paramName |-> "", handlers |-> [s \in Slots |-> 0]]

\* "ALL" takes the verbs that are still free, now; a verb takes its field whoever has it.
setHandler(handlers, method, h) ==
    IF method = "ALL"
    THEN [s \in Slots |-> IF s = "ALL" \/ (s \in Verbs /\ handlers[s] = 0) THEN h ELSE handlers[s]]
    ELSE [handlers EXCEPT ![method] = h]

getHandlerFor(handlers, method) ==
    IF handlers[method] # 0 THEN handlers[method] ELSE handlers["ALL"]

Edge(part) == IF part \in Colon THEN ParamEdge ELSE IF part = Star THEN WildEdge ELSE part
NodeAt(pattern, i) == [j \in 1..i |-> Edge(pattern[j])]

\* The nodes on the way exist, and a node keeps the first name its parameter got.
Grow(trie, pattern) ==
    LET Way == {NodeAt(pattern, i) : i \in 0..Len(pattern)}
        Named(node, k) ==
            IF /\ node.paramName = ""
               /\ k < Len(pattern)
               /\ pattern[k + 1] \in Colon
            THEN [node EXCEPT !.paramName = pattern[k + 1]]
            ELSE node
        Old(a) == IF a \in DOMAIN trie THEN trie[a] ELSE NewNode
    IN [a \in DOMAIN trie \cup Way |-> IF a \in Way THEN Named(Old(a), Len(a)) ELSE trie[a]]

-----------------------------------------------------------------------------
(* Router. *)

NewRouter == [statics |-> <<>>, trie |-> [a \in {<<>>} |-> NewNode], hasDynamic |-> FALSE]

Add(router, method, pattern, h) ==
    LET grown == Grow(router.trie, pattern)
        leaf == NodeAt(pattern, Len(pattern))
    IN [statics |-> IF IsDynamic(pattern) THEN router.statics
                    ELSE Put(router.statics, <<method, pattern>>, h),
        trie |-> [grown EXCEPT ![leaf].handlers = setHandler(@, method, h)],
        hasDynamic |-> router.hasDynamic \/ IsDynamic(pattern)]

Hit(h, params) == [handler |-> h, params |-> params]
Miss == Hit(0, <<>>)
OrElse(a, b) == IF a.handler # 0 THEN a ELSE b

\* match() at the node a, whose depth is the index in the path: literal, then
\* parameter, then wildcard, backtracking.  Parameters are written innermost first,
\* so of two with one name the outer one is kept.
MatchAt(match, trie, method, path, a) ==
    LET i == Len(a)
        Down(edge) ==
            IF Append(a, edge) \in DOMAIN trie THEN match[Append(a, edge)] ELSE Miss
        Bind(hit) == Hit(hit.handler, Put(hit.params, trie[a].paramName, <<path[i + 1]>>))
        Own == Hit(getHandlerFor(trie[a].handlers, method), <<>>)
        Rest == IF Append(a, WildEdge) \in DOMAIN trie
                THEN Hit(getHandlerFor(trie[Append(a, WildEdge)].handlers, method),
                         Put(<<>>, Star, SubSeq(path, i + 1, Len(path))))
                ELSE Miss
    IN IF i = Len(path) THEN OrElse(Own, Rest)
       ELSE OrElse(Down(path[i + 1]), OrElse(Bind(Down(ParamEdge)), Rest))

Descend(trie, method, path) ==
    LET match[a \in {b \in DOMAIN trie : Len(b) <= Len(path)}] ==
            MatchAt(match, trie, method, path, a)
    IN match[<<>>]

Match(trie, method, path) == OrElse(Descend(trie, method, path), Miss)

\* Slip: "ALL" is not looked up.
LookupOwn(statics, method, path) ==
    IF <<method, path>> \in DOMAIN statics THEN statics[<<method, path>>] ELSE 0

Lookup(statics, method, path) ==
    IF <<method, path>> \in DOMAIN statics THEN statics[<<method, path>>]
    ELSE IF <<"ALL", path>> \in DOMAIN statics THEN statics[<<"ALL", path>>] ELSE 0

Find(router, method, path) ==
    IF Lookup(router.statics, method, path) # 0
    THEN Hit(Lookup(router.statics, method, path), <<>>)
    ELSE IF router.hasDynamic THEN Match(router.trie, method, path) ELSE Miss
=============================================================================
