---------------------------- MODULE Application -----------------------------
(***************************************************************************)
(* The builder composed with the choice of forms: what the requests of an  *)
(* application are served with, whatever the calls that built it and       *)
(* whatever the text of its handlers.                                      *)
(***************************************************************************)
EXTENDS AppBuilder, Forms

CONSTANTS Handlers  \* what a registration says besides hooks: see Forms

\* A handler without parameters asks for nothing; the others are told apart by
\* the text of the first parameter.
ASSUME HandlersAssumption ==
    /\ Handlers \subseteq
         [method : Methods, dynamic : BOOLEAN, schema : SUBSET SchemaKeys, transfer : BOOLEAN,
          given : Given, arity : Nat, arg : Args, async : BOOLEAN, text : Texts,
          sample : Samples, hookText : HookTexts]
    /\ \A h \in Handlers : h.arity = 0 <=> h.arg = "none"
ASSUME SchemasAssumption == GivenKeys \subseteq SchemaKeys

\* All that the choice of a form looks at, of the route and of the snapshot.
Traits(route, snapshot) ==
    [kinds |-> {k \in HookKinds : snapshot.hooks[k] # <<>>}, local |-> route.local # <<>>,
     schema |-> DOMAIN route.schema, derives |-> snapshot.derives > 0,
     decorated |-> snapshot.decorated]
AllTraits == [kinds : SUBSET HookKinds, local : BOOLEAN, schema : SUBSET GivenKeys,
              derives : BOOLEAN, decorated : BOOLEAN]

\* A route of these traits, had it been registered with handler h.
With(h, traits) == Merged([traits EXCEPT !.schema = @ \cup h.schema], h)

\* Forms that hand their handlers less than the text may ask for: the one for a body
\* schema only the body, the one for beforeHandle hooks no parameters, the one for
\* parameters nothing else though a text that takes them apart may ask for more; and the
\* Request itself is handed over by the forms of simple static routes only.
KnownGap(r) ==
    \/ isBodySchemaOnlyRoute(r)
    \/ isBeforeHandleOnlyRoute(r) /\ r.dynamic
    \/ r.arg = "ctx{params}" /\ r.dynamic /\ isSimpleRoute(r)
    \/ usesBareRequest(r) /\ (r.dynamic \/ ~isSimpleRoute(r))

\* A route that is answered without its validator and its handler.
TakenForTransfer(r) == isBodySchemaOnlyRoute(r) /\ isTransferBodySchema(r)

\* What the form of every such route does, unless the registration gave the answer itself:
\* it runs the request hooks, the validators and the derive functions; and in front of a
\* handler that is called, it heeds whatever a hook answers, hands the handler what its
\* text asks for, and the body of a request only below the limit.
LeavesNothingOut(r) ==
    LET form == Form(r)
    IN r.given = "none" =>
        /\ r.kinds \cap RequestHooks \subseteq form.hooks
        /\ r.local => "beforeHandle" \in form.hooks
        /\ ~TakenForTransfer(r) => r.schema \subseteq form.validates /\ form.answer # "accepted"
        /\ r.derives => form.derives
        /\ form.answer = "handler" =>
            /\ form.heeds = "answers"
            /\ ~KnownGap(r) => Asks(r) \subseteq form.fields
            /\ ~IsGet(r) /\ "body" \in form.fields => form.limit
Complete == UNION {IF \A h \in Handlers : LeavesNothingOut(With(h, t)) THEN {t} ELSE {} : t \in AllTraits}

\* Whether s can be had from t by leaving elements out.
Within(s, t) ==
    \E at \in [DOMAIN s -> DOMAIN t] :
        /\ \A i \in DOMAIN s : t[at[i]] = s[i]
        /\ \A i, j \in DOMAIN s : i < j => at[i] < at[j]

\* A route registered in the callback of a guard keeps the hooks of every guard
\* around it, outermost first and all of them before its own hooks, through
\* groups, plugins shared between guards, and further guards (guard() rewrites
\* the hooks object of each route when its callback returns).
GuardsKeepTheirRoutes ==
    \A r \in ToSet(stack[1].routes) :
        Within([i \in DOMAIN r.under |-> guardOf[r.under[i]].hook] \o r.own, objs[r.obj])

\* Between two calls on the application, what it compiled last (_compiled, which
\* fetch and a reload read; Bun has a table of its own until then) has the routes it
\* has, with the hooks they have; of the application's own hooks, those added since
\* may be missing, and of its routes and hooks nothing else; and the registry names
\* those routes (_compiled is reset by every call that adds a route or changes the
\* hooks of one).  Derive functions and decorators are not compared.
ServedIsCurrent ==
    compiled # None /\ ~Building =>
        LET now == Served(stack[1])
        IN  /\ compiled.routes = now.routes
            /\ \A k \in HookKinds : IsPrefix(compiled.hooks[k], now.hooks[k])
            /\ registry = RegistryOf(compiled)

\* Unless the registration gave the answer itself, no form leaves out a request hook of
\* the application or the route, a derive function, or but for a body taken for that of a
\* transfer a validator; and a form that calls the handler of each request heeds every
\* answer of a hook, checks the length of a body it hands over and, but for the known gaps,
\* hands over all that the text asks for (the predicates that admit a route to a shorter
\* form look at all of them).
FormsLeaveNothingOut ==
    compiled # None => \A route \in ToSet(compiled.routes) : Traits(route, compiled) \in Complete
=============================================================================
