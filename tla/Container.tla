----------------------------- MODULE Container ------------------------------
(***************************************************************************)
(* The dependency injection container of packages/core/src/di.ts: the      *)
(* application's container and the ones requests fork from it with         *)
(* createRequestScope.  A factory is what it asks its container for, in    *)
(* that order; an instance is numbered, so that it can be told from        *)
(* another one of the same token.                                          *)
(*                                                                         *)
(* A call runs to its end before the next one, so each is one action; what *)
(* may go wrong lies in sequences of calls, and in the calls a factory     *)
(* makes while another waits for it.                                       *)
(***************************************************************************)
EXTENDS Integers, Sequences, FiniteSets

CONSTANTS
    Tokens,
    Root, Forks,    \* containers: the application's, those of requests
    Dependencies,   \* what factories may ask for
    StackDepth,     \* bound: how many factories may wait for each other
    MaxChanges      \* bound: how many calls register or override

Containers == {Root} \cup Forks
Scopes == {"singleton", "transient", "request"}

\* The stack has room for one factory of every token.
ASSUME ContainerAssumption ==
    /\ IsFiniteSet(Tokens) /\ IsFiniteSet(Forks) /\ Dependencies \subseteq Seq(Tokens)
    /\ StackDepth \in Nat /\ Cardinality(Containers \X Tokens) <= StackDepth

VARIABLES
    created,     \* the containers there are
    entries,     \* of each: token to entry, or Nothing
    overrides,   \* token to value, or Nothing
    resolving,   \* tokens whose factory is running
    changes,     \* registrations and overrides so far
    last,        \* what the last call was, when it was a resolve
    held         \* the instance of a singleton that a container gave last

containerVars == <<created, entries, overrides, resolving, changes, last, held>>

Nothing == [is |-> "nothing"]
Value(scope, instance) == [is |-> "value", scope |-> scope, instance |-> instance]
Factory(scope, dependencies) == [is |-> "factory", scope |-> scope, dependencies |-> dependencies]

\* Number 0 is a value that was registered, -1 one that overrides.
Instance(token, number) == [is |-> "object", of |-> token, number |-> number]
Returns(instance) == [is |-> "instance", instance |-> instance]
Error(why) == [is |-> "error", why |-> why]

NoTokens == [t \in Tokens |-> Nothing]

has(c, token) == overrides[c][token] # Nothing \/ entries[c][token] # Nothing

\* The container that answers: the one that is asked, or its parent.
Home(c, token) == IF has(c, token) THEN c ELSE Root

-----------------------------------------------------------------------------
(* resolve.  A call's state s is the entries and the tokens being resolved, *)
(* which the program keeps, and what the call returned or threw.            *)

Instances == [is : {"object"}, of : Tokens, number : Int]
Entries ==
    [is : {"value"}, scope : Scopes, instance : Instances]
        \cup [is : {"factory"}, scope : Scopes, dependencies : Seq(Tokens)]
        \cup {Nothing}
Reasons == {"missing", "circular", "overflow"}
Results == [is : {"instance"}, instance : Instances \cup {Nothing}] \cup [is : {"error"}, why : Reasons]
States ==
    [entries : [Containers -> [Tokens -> Entries]],
     resolving : [Containers -> SUBSET Tokens],
     out : Results]

Numbers(s) ==
    {s.entries[n[1]][n[2]].instance.number :
        n \in {m \in Containers \X Tokens : s.entries[m[1]][m[2]].is = "value"}}
    \cup {held[n[1]][n[2]].number : n \in {m \in Containers \X Tokens : held[m[1]][m[2]] # Nothing}}

Fresh(s, token) ==
    Instance(token, CHOOSE n \in 1..(Cardinality(Numbers(s)) + 1) : n \notin Numbers(s))

Answers(s, instance) == [s EXCEPT !.out = Returns(instance)]
Fails(s, why) == [s EXCEPT !.out = Error(why)]

\* Slip: the token is released behind the factory's call and not in a finally.
ReleasedOnReturn(s, c, token) ==
    IF s.out.is = "error" THEN s ELSE [s EXCEPT !.resolving[c] = @ \ {token}]

Released(s, c, token) == [s EXCEPT !.resolving[c] = @ \ {token}]

\* Only a singleton is kept, and in the container that was asked.
Kept(s, c, token, scope) ==
    IF s.out.is = "instance" /\ scope = "singleton"
    THEN [s EXCEPT !.entries[c][token] = Value("singleton", s.out.instance)]
    ELSE s

\* What the calls of resolve by a factory do, up to the first that throws.
Asked(answer, c, dependencies, s) ==
    LET after[i \in 0..Len(dependencies)] ==
            IF i = 0 THEN s
            ELSE IF after[i - 1].out.is = "error" THEN after[i - 1]
                 ELSE answer[<<c, dependencies[i], after[i - 1]>>]
    IN after[Len(dependencies)]

\* entry.factory(container)
Called(answer, c, token, dependencies, s) ==
    LET asked == Asked(answer, c, dependencies, Answers(s, Nothing))
    IN IF asked.out.is = "error" THEN asked ELSE Answers(asked, Fresh(asked, token))

\* The factory of a token that is already being resolved is not called again; that of
\* a transient one is.
guarded(answer, c, token, entry, s) ==
    IF token \in s.resolving[c]
    THEN Fails(s, "circular")
    ELSE Released(Kept(Called(answer, c, token, entry.dependencies, [s EXCEPT !.resolving[c] = @ \cup {token}]),
                       c, token, entry.scope),
                  c, token)

\* One call; answer does those that it makes.
resolveIn(answer, c, token, s) ==
    LET entry == s.entries[c][token]
    IN IF overrides[c][token] # Nothing THEN Answers(s, overrides[c][token])
       ELSE IF entry.is = "nothing" THEN Fails(s, "missing")
       ELSE IF entry.is = "value" THEN Answers(s, entry.instance)
       ELSE IF entry.scope = "transient" THEN Called(answer, c, token, entry.dependencies, s)
       ELSE guarded(answer, c, token, entry, s)

\* With room on the stack for n calls.
resolved[n \in 0..StackDepth] ==
    [call \in Containers \X Tokens \X States |->
        IF n = 0 THEN Fails(call[3], "overflow")
        ELSE resolveIn(resolved[n - 1], Home(call[1], call[2]), call[2], call[3])]

-----------------------------------------------------------------------------
(* The calls. *)

resolve(c, token) ==
    /\ c \in created
    /\ LET s == resolved[StackDepth][<<c, token, [entries |-> entries, resolving |-> resolving,
                                                  out |-> Returns(Nothing)]>>]
           kept == s.entries[c][token]
       IN /\ entries' = s.entries
          /\ resolving' = s.resolving
          /\ last' = [is |-> "resolve", c |-> c, token |-> token, out |-> s.out]
          /\ held' = IF /\ s.out.is = "instance" /\ overrides[c][token] = Nothing
                        /\ kept.is = "value" /\ kept.scope = "singleton"
                     THEN [held EXCEPT ![c][token] = s.out.instance]
                     ELSE held
    /\ UNCHANGED <<created, overrides, changes>>

Changes == changes < MaxChanges /\ changes' = changes + 1 /\ last' = Nothing

\* register and registerFactory, which end an override.
Registers(c, token, entry) ==
    /\ c \in created
    /\ Changes
    /\ entries' = [entries EXCEPT ![c][token] = entry]
    /\ overrides' = [overrides EXCEPT ![c][token] = Nothing]
    /\ held' = [held EXCEPT ![c][token] = Nothing]
    /\ UNCHANGED <<created, resolving>>

register(c, token, scope) == Registers(c, token, Value(scope, Instance(token, 0)))

registerFactory(c, token, scope, dependencies) == Registers(c, token, Factory(scope, dependencies))

override(c, token) ==
    /\ c \in created
    /\ Changes
    /\ overrides' = [overrides EXCEPT ![c][token] = Instance(token, -1)]
    /\ UNCHANGED <<created, entries, resolving, held>>

\* A fork of the application's container has a copy of every entry of it that is
\* not request-scoped, and no override.
createRequestScope(fork) ==
    /\ fork \notin created
    /\ created' = created \cup {fork}
    /\ entries' = [entries EXCEPT ![fork] =
                      [t \in Tokens |-> IF entries[Root][t] = Nothing \/ entries[Root][t].scope = "request"
                                        THEN Nothing ELSE entries[Root][t]]]
    /\ last' = Nothing
    /\ UNCHANGED <<overrides, resolving, changes, held>>

ContainerInit ==
    /\ created = {Root}
    /\ entries = [c \in Containers |-> NoTokens]
    /\ overrides = [c \in Containers |-> NoTokens]
    /\ resolving = [c \in Containers |-> {}]
    /\ changes = 0
    /\ last = Nothing
    /\ held = [c \in Containers |-> NoTokens]

ContainerNext ==
    \/ \E c \in Containers, t \in Tokens :
          \/ resolve(c, t)
          \/ override(c, t)
          \/ \E scope \in Scopes : register(c, t, scope)
          \/ \E scope \in Scopes, d \in Dependencies : registerFactory(c, t, scope, d)
    \/ \E fork \in Forks : createRequestScope(fork)

ContainerSpec == ContainerInit /\ [][ContainerNext]_containerVars

-----------------------------------------------------------------------------
(* The graph of what is registered: what each token of each container asks *)
(* for, however far a resolve of it gets.                                   *)

Nodes == Containers \X Tokens
Node(c, t) == <<Home(c, t), t>>

Asks(m) ==
    LET entry == entries[m[1]][m[2]]
    IN IF overrides[m[1]][m[2]] = Nothing /\ entry.is = "factory"
       THEN {Node(m[1], entry.dependencies[i]) : i \in DOMAIN entry.dependencies}
       ELSE {}

\* The nodes of S and all that they need.
Closed(R) == \A m \in R : Asks(m) \subseteq R
Closure(S) == {m \in Nodes : \A R \in SUBSET Nodes : S \subseteq R /\ Closed(R) => m \in R}

\* Something that m needs, or m itself, is not registered; needs itself.
Missing(m) == \E k \in Closure({m}) : ~has(k[1], k[2])
Cyclic(m) == \E k \in Closure({m}) : k \in Closure(Asks(k))

\* A resolve returns exactly when everything its token needs is registered and no
\* part of it needs itself, and otherwise throws for a reason there is, whatever
\* failed, was cached, overridden or forked before; and a container that has given
\* a singleton gives that instance until it is registered anew (resolve, with its
\* finally block, its cache and its way to the parent).
ResolvesAsRegistered ==
    [][last' # Nothing =>
        LET c == last'.c
            t == last'.token
        IN /\ last'.out.is = "instance" <=> ~Missing(Node(c, t)) /\ ~Cyclic(Node(c, t))
           /\ last'.out.is = "error" =>
                IF last'.out.why = "missing" THEN Missing(Node(c, t)) ELSE Cyclic(Node(c, t))
           /\ overrides[c][t] # Nothing => last'.out.instance = overrides[c][t]
           /\ held[c][t] # Nothing /\ overrides[c][t] = Nothing => last'.out.instance = held[c][t]]_containerVars
=============================================================================
