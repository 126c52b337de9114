----------------------------- MODULE AppBuilder -----------------------------
(***************************************************************************)
(* The application builder, class Oger of packages/core/src/oger.ts, with  *)
(* plugin.ts, define-plugin.ts, macro.ts and module.ts: the calls that add *)
(* routes, hooks, macros and plugins, the nested builders of group() and   *)
(* guard(), and compile(), which freezes what a request is served with.    *)
(*                                                                         *)
(* Builder calls are synchronous and nest: the callback of a group or a    *)
(* guard runs on a child application before the call on the parent         *)
(* returns, so the state is a stack of applications.  JavaScript arrays    *)
(* and route.hooks objects are shared by reference between a parent, its   *)
(* groups and its plugins, and live in the heaps `lists` and `objs`.       *)
(***************************************************************************)
EXTENDS Naturals, Sequences, FiniteSets, SequencesExt

CONSTANTS
    Plugins,      \* plugin instances and scoped plugin functions
    pluginOf,     \* what each of them brings, a record (PluginsAssumption)
    Guards,       \* option objects for guard()
    guardOf,      \* [hook, many (an array was given), schema (keys -> origin)]
    Macros,
    macroOf,      \* [hooks, schema] of each macro
    NoSeed,       \* the key of a module or a controller: its seed is random
    None,
    Limits,       \* bodyLimit values passed to listen()
    DefaultLimit,
    MaxCalls,     \* bound: builder calls, the ends of callbacks not counted
    MaxDepth      \* bound: nested callbacks

\* Hooks that run before the handler, hooks of any other request phase, and
\* boot hooks, which no request runs.
HookKinds == {"beforeHandle", "onRequest", "onStart"}

\* The schema keys that macros and guards have validators for.
GivenKeys == (UNION {DOMAIN macroOf[m].schema : m \in Macros})
             \cup (UNION {DOMAIN guardOf[g].schema : g \in Guards})
IsSchema(s) == s \in [DOMAIN s -> STRING]  \* where each validator comes from

ASSUME PluginsAssumption ==
    \A p \in Plugins :
        /\ pluginOf[p].macros \subseteq Macros
        /\ pluginOf[p].hooks \in [HookKinds -> Seq(STRING)]
        /\ pluginOf[p].routes \in Seq(Seq(STRING))  \* the hooks of each route
        /\ pluginOf[p].perUse \in BOOLEAN
        /\ pluginOf[p].derives \in Nat
        /\ pluginOf[p].decorates \in BOOLEAN
ASSUME GuardsAssumption ==
    \A g \in Guards : guardOf[g].hook \in STRING /\ IsSchema(guardOf[g].schema)
ASSUME MacrosAssumption ==
    /\ IsFiniteSet(Macros)
    /\ \A m \in Macros : macroOf[m].hooks \in Seq(STRING) /\ IsSchema(macroOf[m].schema)
ASSUME BuilderBounds == MaxCalls \in Nat /\ MaxDepth \in Nat \ {0}

VARIABLES
    stack,     \* the applications being built, the innermost last
    lists,     \* heap: the arrays of hooks
    objs,      \* heap: route.hooks.beforeHandle of each route.hooks object
    shared,    \* the route objects of each plugin instance, made when it was built
    compiled,  \* _compiled of the outermost application, or None
    registry,  \* _registry: the routes of the last compile
    server,    \* what the Bun server dispatches on, or None
    bodyLimit, \* _bodyLimit of the outermost application
    calls

vars == <<stack, lists, objs, shared, compiled, registry, server, bodyLimit, calls>>

Top == stack[Len(stack)]
SetTop(app) == stack' = [stack EXCEPT ![Len(stack)] = app]
NoHooks == [k \in HookKinds |-> 0]   \* 0: the key is absent

\* `around` is history: the guards whose callbacks it is made in, outermost first,
\* which is what a reader of a call on it expects to apply.
Application(as, prefix, around) ==
    [as |-> as, guard |-> None, given |-> 0, around |-> around,
     prefix |-> prefix, routes |-> <<>>, hooks |-> NoHooks,
     derives |-> 0, decorated |-> FALSE, macros |-> {}, applied |-> {}]

HooksIn(app, heap) ==
    [k \in HookKinds |-> IF app.hooks[k] = 0 THEN <<>> ELSE heap[app.hooks[k]]]

(***************************************************************************)
(* Registering.                                                            *)
(***************************************************************************)
\* applyMacros: a flag without a macro of that name does nothing.
MacrosFor(app, flags) == SetToSeq(flags \cap app.macros)
MacroHooks(app, flags) == FlattenSeq([i \in DOMAIN MacrosFor(app, flags) |->
                                        macroOf[MacrosFor(app, flags)[i]].hooks])
\* The last macro with a schema for a key decides.
MacroSchema(app, flags) ==
    LET macros == MacrosFor(app, flags)
        with(key) == {i \in DOMAIN macros : key \in DOMAIN macroOf[macros[i]].schema}
    IN  [key \in {k \in GivenKeys : with(k) # {}} |-> macroOf[macros[Max(with(key))]].schema[key]]

\* register(): the route is bound to a fresh route.hooks object; `under` and
\* `own` are history.
Route(app, obj, flags, own) ==
    [path |-> Append(app.prefix, "route"), obj |-> obj, schema |-> MacroSchema(app, flags),
     under |-> app.around, own |-> own]

BeforeOf(app, flags, own) == own \o MacroHooks(app, flags)

Calls ==
    /\ calls < MaxCalls
    /\ calls' = calls + 1

register(flags, own) ==
    /\ Calls
    /\ objs' = Append(objs, BeforeOf(Top, flags, own))
    /\ SetTop([Top EXCEPT !.routes = Append(@, Route(Top, Len(objs) + 1, flags, own))])
    /\ compiled' = IF Len(stack) = 1 THEN None ELSE compiled
    /\ UNCHANGED <<lists, shared, registry, server, bodyLimit>>

\* Pushes hooks on an application's list of a kind, which may be shared.
Pushed(app, heap, kind, hooks) ==
    IF hooks = <<>> THEN [app |-> app, heap |-> heap]
    ELSE IF app.hooks[kind] = 0
         THEN [app  |-> [app EXCEPT !.hooks[kind] = Len(heap) + 1],
               heap |-> Append(heap, hooks)]
         ELSE [app |-> app, heap |-> [heap EXCEPT ![app.hooks[kind]] = @ \o hooks]]

\* on(): no reset of _compiled.
on(kind) ==
    LET added == Pushed(Top, lists, kind, <<kind>>)
    IN  /\ Calls
        /\ SetTop(added.app)
        /\ lists' = added.heap
        /\ UNCHANGED <<objs, shared, compiled, registry, server, bodyLimit>>

derive ==
    /\ Calls
    /\ SetTop([Top EXCEPT !.derives = @ + 1])
    /\ UNCHANGED <<lists, objs, shared, compiled, registry, server, bodyLimit>>

decorate ==
    /\ Calls
    /\ ~Top.decorated
    /\ SetTop([Top EXCEPT !.decorated = TRUE])
    /\ UNCHANGED <<lists, objs, shared, compiled, registry, server, bodyLimit>>

macro(m) ==
    /\ Calls
    /\ m \notin Top.macros
    /\ SetTop([Top EXCEPT !.macros = @ \cup {m}])
    /\ UNCHANGED <<lists, objs, shared, compiled, registry, server, bodyLimit>>

(***************************************************************************)
(* Groups and guards.                                                      *)
(***************************************************************************)
\* The child of a group has copies of everything but the hook arrays.
OpenGroup ==
    /\ Calls
    /\ Len(stack) <= MaxDepth
    /\ stack' = Append(stack,
                  [Application("group", Append(Top.prefix, "group"), Top.around) EXCEPT
                     !.hooks = Top.hooks, !.derives = Top.derives,
                     !.decorated = Top.decorated, !.macros = Top.macros])
    /\ UNCHANGED <<lists, objs, shared, compiled, registry, server, bodyLimit>>

\* Slip: the end of a callback does not reset what was compiled.
CloseIntoCompiled(routes) ==
    /\ stack' = [Front(stack) EXCEPT ![Len(stack) - 1].routes = @ \o routes]
    /\ UNCHANGED <<compiled, shared, registry, server, bodyLimit, calls>>

\* Only routes come back to the parent.
CloseInto(routes) ==
    /\ stack' = [Front(stack) EXCEPT ![Len(stack) - 1].routes = @ \o routes]
    /\ compiled' = IF Len(stack) = 2 THEN None ELSE compiled
    /\ UNCHANGED <<shared, registry, server, bodyLimit, calls>>

CloseGroup ==
    /\ Top.as = "group"
    /\ CloseInto(Top.routes)
    /\ UNCHANGED <<lists, objs>>

\* The child of a guard has only the prefix and the guard's hooks, in the very
\* array that was passed to guard(), if one was.
OpenGuard(g) ==
    /\ Calls
    /\ Len(stack) <= MaxDepth
    /\ lists' = Append(lists, <<guardOf[g].hook>>)
    /\ stack' = Append(stack, [Application("guard", Top.prefix, Append(Top.around, g)) EXCEPT
                                !.guard = g, !.given = Len(lists) + 1,
                                !.hooks["beforeHandle"] = Len(lists) + 1])
    /\ UNCHANGED <<objs, shared, compiled, registry, server, bodyLimit>>

GuardHooks(app) == IF guardOf[app.guard].many THEN lists[app.given] ELSE <<guardOf[app.guard].hook>>

\* Slip: the guard's hooks come last.
GuardedAfter(heap, hooks, routes) ==
    LET after[i \in 0..Len(routes)] ==
            IF i = 0 THEN heap ELSE [after[i - 1] EXCEPT ![routes[i].obj] = @ \o hooks]
    IN  after[Len(routes)]

\* Guard hooks are prepended once per route of the child, in its hooks object.
Guarded(heap, hooks, routes) ==
    LET after[i \in 0..Len(routes)] ==
            IF i = 0 THEN heap ELSE [after[i - 1] EXCEPT ![routes[i].obj] = hooks \o @]
    IN  after[Len(routes)]

\* { ...g, ...f }
Merged(f, g) == [x \in DOMAIN f \cup DOMAIN g |-> IF x \in DOMAIN f THEN f[x] ELSE g[x]]
GuardSchema(app, route) == [route EXCEPT !.schema = Merged(@, guardOf[app.guard].schema)]

CloseGuard ==
    /\ Top.as = "guard"
    /\ objs' = Guarded(objs, GuardHooks(Top), Top.routes)
    /\ CloseInto([i \in DOMAIN Top.routes |-> GuardSchema(Top, Top.routes[i])])
    /\ UNCHANGED lists

(***************************************************************************)
(* Plugins.                                                                *)
(***************************************************************************)
\* shouldApplyPlugin: a WeakMap from each parent to the keys it applied.
pluginKey(p) == pluginOf[p].key
RandomSeed(p) == pluginKey(p) = NoSeed   \* defineModule, defineController
shouldApplyPlugin(app, p) == RandomSeed(p) \/ pluginKey(p) \notin app.applied

\* A plugin function, a module or a controller is built at each use; the
\* routes of an instance are built once and share their hooks objects.
PluginRoutes(p, first) ==
    [i \in DOMAIN pluginOf[p].routes |->
        [path |-> <<p>>, obj |-> first + i - 1, schema |-> <<>>, under |-> <<>>,
         own |-> pluginOf[p].routes[i]]]

\* mergeRoutes copies the routes, but not their hooks objects.
mergeRoutes(app, routes) ==
    [app EXCEPT !.routes = @ \o [i \in DOMAIN routes |->
        [routes[i] EXCEPT !.under = app.around \o @]]]

\* mergeHooks as use() calls it: the parent's scope is always "scoped", so
\* nothing a plugin installs is kept back.
mergeHooks(app, heap, p, scope) ==
    IF scope = "local" /\ pluginOf[p].scope = "global" THEN [app |-> app, heap |-> heap]
    ELSE LET hooks == pluginOf[p].hooks
             one == Pushed(app, heap, "onStart", hooks["onStart"])
             two == Pushed(one.app, one.heap, "onRequest", hooks["onRequest"])
         IN  Pushed(two.app, two.heap, "beforeHandle", hooks["beforeHandle"])

use(p) ==
    LET fresh == pluginOf[p].perUse
        first == IF fresh \/ p \notin DOMAIN shared THEN Len(objs) + 1 ELSE shared[p]
        routes == PluginRoutes(p, first)
        hooked == mergeHooks(Top, lists, p, "scoped")
        merged == mergeRoutes(hooked.app, routes)
    IN  /\ Calls
        /\ shouldApplyPlugin(Top, p)
        /\ objs' = IF first = Len(objs) + 1 THEN objs \o pluginOf[p].routes ELSE objs
        /\ shared' = IF fresh \/ p \in DOMAIN shared THEN shared
                     ELSE [q \in DOMAIN shared \cup {p} |-> IF q = p THEN first ELSE shared[q]]
        /\ lists' = hooked.heap
        /\ SetTop([merged EXCEPT !.applied = @ \cup {pluginKey(p)},
                                 !.macros = @ \cup pluginOf[p].macros,
                                 !.derives = @ + pluginOf[p].derives,
                                 !.decorated = @ \/ pluginOf[p].decorates])
        /\ compiled' = IF Len(stack) = 1 THEN None ELSE compiled
        /\ UNCHANGED <<registry, server, bodyLimit>>

\* A plugin of a key the parent has seen is not applied, and nothing is reset.
UseAgain(p) ==
    /\ Calls
    /\ ~shouldApplyPlugin(Top, p)
    /\ UNCHANGED <<stack, lists, objs, shared, compiled, registry, server, bodyLimit>>

(***************************************************************************)
(* Compiling and serving, calls on the outermost application.              *)
(***************************************************************************)
\* flattenRoutes and compilePipeline copy the routes and the hook lists.
Served(app) ==
    [hooks |-> HooksIn(app, lists), derives |-> app.derives, decorated |-> app.decorated,
     limit |-> bodyLimit,
     routes |-> [i \in DOMAIN app.routes |->
        LET r == app.routes[i]
        IN  [path |-> r.path, local |-> objs[r.obj], schema |-> r.schema]]]

Compile == IF compiled = None THEN Served(stack[1]) ELSE compiled
RegistryOf(snapshot) == [i \in DOMAIN snapshot.routes |-> snapshot.routes[i].path]
Building == Len(stack) > 1

\* handle(), inject() and each request under Node.
handle ==
    /\ ~Building
    /\ compiled = None
    /\ compiled' = Compile
    /\ registry' = RegistryOf(Compile)
    /\ UNCHANGED <<stack, lists, objs, shared, server, bodyLimit, calls>>

\* listen(): compiles first, then takes the new limit.
listen(limit) ==
    /\ ~Building
    /\ Calls
    /\ server = None
    /\ compiled' = Compile
    /\ registry' = IF compiled = None THEN RegistryOf(Compile) ELSE registry
    /\ bodyLimit' = limit
    /\ server' = Compile
    /\ UNCHANGED <<stack, lists, objs, shared>>

stop ==
    /\ ~Building
    /\ server # None
    /\ server' = None
    /\ UNCHANGED <<stack, lists, objs, shared, compiled, registry, bodyLimit, calls>>

\* reload(): always compiles.
reload ==
    /\ ~Building
    /\ Calls
    /\ server # None
    /\ compiled' = Served(stack[1])
    /\ registry' = RegistryOf(Served(stack[1]))
    /\ server' = Served(stack[1])
    /\ UNCHANGED <<stack, lists, objs, shared, bodyLimit>>

Init ==
    /\ stack = <<Application("app", <<>>, <<>>)>>
    /\ lists = <<>>
    /\ objs = <<>>
    /\ shared = <<>>
    /\ compiled = None
    /\ registry = <<>>
    /\ server = None
    /\ bodyLimit = DefaultLimit
    /\ calls = 0

Next ==
    \/ \E flags \in SUBSET Macros, own \in {<<>>, <<"own">>} : register(flags, own)
    \/ \E kind \in HookKinds : on(kind)
    \/ derive
    \/ decorate
    \/ \E m \in Macros : macro(m)
    \/ OpenGroup
    \/ CloseGroup
    \/ \E g \in Guards : OpenGuard(g)
    \/ CloseGuard
    \/ \E p \in Plugins : use(p) \/ UseAgain(p)
    \/ handle
    \/ \E limit \in Limits : listen(limit)
    \/ stop
    \/ reload

Spec == Init /\ [][Next]_vars
=============================================================================
