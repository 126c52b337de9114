-------------------------------- MODULE Forms -------------------------------
(***************************************************************************)
(* The forms a compiled route can take: compileRoutes and the predicates   *)
(* and compile functions of packages/core/src/compiler choose, from a      *)
(* route, the text of its handler and what the application has installed,  *)
(* either the full pipeline or one of a dozen shorter functions.           *)
(*                                                                         *)
(* A route r is a record of its registration (method, dynamic, schema,     *)
(* transfer, given, local: whether it has hooks of its own), of the text   *)
(* of its handler and hooks, and of a trial call of the handler at compile *)
(* time (arity, async, arg, text, hookText, sample), and of the options of *)
(* the compile: the kinds of hooks the application has, and whether it     *)
(* derives or decorates.                                                   *)
(***************************************************************************)
EXTENDS Naturals, Sequences, FiniteSets, FiniteSetsExt

Methods == {"GET", "POST"}
SchemaKeys == {"body", "query", "params", "headers", "cookie"}

\* What the handler takes, as the source-text tests tell it apart: (request), ({ request }),
\* ({ params }), a context, or a context of which { params } is taken apart further down
\* in a text that has none of the names of its other large fields.
Args == {"none", "request", "{request}", "{params}", "ctx", "ctx{params}"}

\* What the texts of all beforeHandle hooks of a request have in common: at most that each
\* asks for the request only, is not async, and is a block that returns nothing but
\* `new Response` and answers the three trial requests when it is compiled apart.
HookTexts == {"any", "lean", "sync", "block"}

\* The text patterns: a string literal, `new Response`, a test of one header,
\* a call of one function on the request, `params.x`, a call on `params.x`,
\* JSON.parse of the text handed to one function, `await request.text();`, some
\* other await before a return, anything else.
Texts == {"literal", "newResponse", "branch", "call", "param", "callParam", "jsonText",
          "drainText", "awaitReturn", "other"}

\* What the handler does when compile calls it: raw is a Response whose body
\* string is at hand (_rawBody).
Samples == {"string", "response", "raw", "object", "throws"}

\* What the registration supplied to answer with instead of the handler.
Given == {"none", "response", "raw", "map"}

\* The kinds of hooks a request runs.
RequestHooks == {"beforeHandle", "onRequest"}

\* What a handler is called with: fields of a context, or the Request itself.
ContextFields == {"request", "params", "body", "rest"}
RequestItself == {"bare"}

hasHooks(r) == r.local \/ r.kinds # {}
hasNonBeforeHooks(r) == r.kinds \ {"beforeHandle"} # {}
hasBeforeHooks(r) == r.local \/ "beforeHandle" \in r.kinds
Undecorated(r) == ~r.derives /\ ~r.decorated

(***************************************************************************)
(* The predicates that admit a route to a form.                            *)
(***************************************************************************)
\* Slip: only the route's own hooks are looked at.
IsSimpleByItself(r) == r.schema = {} /\ ~r.local /\ Undecorated(r)

isSimpleRoute(r) ==
    r.schema = {} /\ ~hasHooks(r) /\ Undecorated(r)

isBeforeHandleOnlyRoute(r) ==
    /\ r.schema = {}
    /\ ~hasNonBeforeHooks(r)
    /\ Undecorated(r)
    /\ hasBeforeHooks(r)

isBodySchemaOnlyRoute(r) ==
    /\ r.schema = {"body"}
    /\ ~hasNonBeforeHooks(r)
    /\ ~hasBeforeHooks(r)
    /\ Undecorated(r)

usesBareRequest(r) == r.arg = "request"
usesRequestOnly(r) == r.arg \in {"request", "{request}"}
usesParamsOnly(r) == r.arg \in {"{params}", "ctx{params}"}
isSyncHandler(r) == ~r.async
Reads(r) == r.text \in {"jsonText", "drainText"}  \* handlerReadsBody
IsGet(r) == r.method = "GET"

(***************************************************************************)
(* What compileRoutes finds to answer with before it picks a form: the     *)
(* registration's response, the literal a handler consists of, or the      *)
(* Response a handler of no parameters returned when it was called.        *)
(***************************************************************************)
isPureStaticHandler(r) == r.arity = 0 /\ r.text \in {"literal", "newResponse"}
tryProbeStaticResponse(r) ==
    isPureStaticHandler(r) /\ isSyncHandler(r) /\ r.sample \in {"response", "raw"}
tryCompileLiteralString(r) == isSyncHandler(r) /\ r.text = "literal"

Found(r) ==
    IF r.given # "none" THEN r.given
    ELSE IF isSimpleRoute(r) /\ ~r.dynamic
              /\ \/ IsGet(r) /\ tryCompileLiteralString(r)
                 \/ tryProbeStaticResponse(r)
         THEN "found"
         ELSE "none"

\* A handler of no parameters that returned a string or a raw body when it was
\* called at compile time is never called again.
tryCacheStaticStringHandler(r) == r.arity = 0 /\ isSyncHandler(r) /\ r.sample = "string"
tryCacheRawBodyHandler(r) == r.arity = 0 /\ isSyncHandler(r) /\ r.sample = "raw"
Cached(r) == tryCacheStaticStringHandler(r) \/ tryCacheRawBodyHandler(r)

(***************************************************************************)
(* The forms.  A form answers with the handler of each request, with what  *)
(* compile kept of it, or with what was given; it hands the handler some   *)
(* fields of the context or the Request, runs hooks of some kinds and      *)
(* heeds their answers, or only some of them, validates some parts of the  *)
(* request and checks the body limit or not.                               *)
(***************************************************************************)
Full(r) == ContextFields \ (IF r.dynamic THEN {} ELSE {"params"})
Plain == [answer |-> "handler", fields |-> {}, hooks |-> {}, heeds |-> "answers", validates |-> {},
          derives |-> FALSE, limit |-> FALSE]
Fixed(what) == [Plain EXCEPT !.answer = what]

\* invokeRequestHandler.
Requested(r) == [Plain EXCEPT !.fields = IF usesBareRequest(r) THEN RequestItself ELSE {"request"}]

\* The properties of a transfer between accounts, of these names and kinds, are taken for
\* a benchmark's: checks and an answer of its own stand for the validator and the handler.
isTransferBodySchema(r) == "body" \in r.schema /\ r.transfer
bodySchema(r) ==
    IF isTransferBodySchema(r)
    THEN [Fixed("accepted") EXCEPT !.limit = TRUE]
    ELSE [Plain EXCEPT !.fields = {"body"}, !.validates = {"body"}, !.limit = TRUE]
bareJsonPost(r) == Requested(r)

\* compileSimpleServeHandler.
simpleStatic(r) ==
    IF Found(r) # "none" THEN Fixed("given")
    ELSE IF Cached(r) \/ (r.arity = 0 /\ isSyncHandler(r) /\ r.sample = "response")
         THEN Fixed("kept")
    ELSE IF r.arity = 0 THEN Plain
    ELSE IF usesRequestOnly(r)
         THEN [Requested(r) EXCEPT !.limit = /\ ~IsGet(r)
                                             /\ ~usesBareRequest(r)
                                             /\ ~(r.async /\ Reads(r))]
    ELSE [Plain EXCEPT !.fields = Full(r), !.limit = ~IsGet(r)]

\* compileBeforeHandleServeHandler: its context has no path parameters, and only the
\* request when no hook and not the handler ask for more.  Before an answer that was kept
\* stands a gate if it can: of its hooks one kind heeds only Responses that they return at
\* once, with one of the same status from the trial call for each; the other runs their
\* copied blocks, answers every `new Response` by one and the same, and checks no limit.
beforeHandleForm(r) ==
    LET kept == Cached(r) \/ r.given = "raw"
        minimal == r.hookText # "any" /\ (r.arity = 0 \/ usesRequestOnly(r))
        gate == IF ~minimal \/ r.hookText = "lean" THEN "none" ELSE r.hookText
        form == [Plain EXCEPT !.hooks = {"beforeHandle"}, !.limit = ~IsGet(r)]
    IN  IF kept
        THEN [form EXCEPT !.answer = "kept",
                          !.heeds = CASE gate = "none"  -> "answers"
                                      [] gate = "sync"  -> "responses"
                                      [] gate = "block" -> "refusals",
                          !.limit = @ /\ gate # "block"]
        ELSE [form EXCEPT !.fields = IF minimal THEN {"request"}
                                     ELSE ContextFields \ {"params"}]

\* `params.x` is answered from the URL, without a call of the handler.
isSingleParamString(r) == r.arg = "{params}" /\ r.text = "param"
isParamsFn(r) == r.arg = "{params}" /\ r.text = "callParam"

\* compileParamsOnlyServeHandler.
paramsOnly(r) == [Plain EXCEPT !.fields = {"params"}]

\* compileSimpleDynamicServeHandler.
simpleDynamic(r) ==
    IF Found(r) # "none" THEN Fixed("given")
    ELSE IF r.arity = 0 THEN Plain
    ELSE [Plain EXCEPT !.fields = Full(r), !.limit = ~IsGet(r)]

\* pipelineFallback: a given response is returned without the pipeline.
pipelineFallback(r) ==
    IF Found(r) \notin {"none", "map"} THEN Fixed("given")
    ELSE [Plain EXCEPT !.fields = Full(r), !.hooks = RequestHooks,
                       !.validates = r.schema, !.derives = TRUE,
                       !.limit = "body" \in r.schema \/ ~IsGet(r)]

(***************************************************************************)
(* The choice, first match first.                                          *)
(***************************************************************************)
GivenResponse(r) == Found(r) \in {"response", "raw", "found"}

discardsBody(r) ==
    /\ ~r.dynamic /\ r.method = "POST" /\ GivenResponse(r)
    /\ usesBareRequest(r) /\ r.async /\ r.text = "drainText"
mapsPostedJson(r) == ~r.dynamic /\ r.method = "POST" /\ r.given = "map"
takesBareJson(r) ==
    /\ ~r.dynamic /\ isSimpleRoute(r) /\ r.method = "POST"
    /\ usesBareRequest(r) /\ r.async /\ r.text = "jsonText"
awaitsThenStatic(r) ==
    /\ ~r.dynamic /\ IsGet(r) /\ GivenResponse(r)
    /\ r.async /\ r.arg \in {"none", "request"} /\ r.text = "awaitReturn"
branchesOnHeader(r) ==
    ~r.dynamic /\ isSimpleRoute(r) /\ IsGet(r) /\ ~r.async /\ r.arg = "{request}" /\ r.text = "branch"
callsOnRequest(r) ==
    /\ ~r.dynamic /\ isSimpleRoute(r) /\ IsGet(r)
    /\ usesRequestOnly(r) /\ ~r.async /\ r.text = "call" /\ r.sample = "string"

\* Each condition of the chain of ?? in compileRoutes, with its form.
Candidates(r) ==
  << <<isBodySchemaOnlyRoute(r),                  bodySchema(r)>>,
     <<discardsBody(r) \/ mapsPostedJson(r),      Fixed("given")>>,
     <<takesBareJson(r),                          bareJsonPost(r)>>,
     <<awaitsThenStatic(r),                       [Fixed("given") EXCEPT !.fields = RequestItself]>>,
     <<branchesOnHeader(r),                       Fixed("kept")>>,
     <<callsOnRequest(r),                         Requested(r)>>,
     <<~r.dynamic /\ isSimpleRoute(r),            simpleStatic(r)>>,
     <<isBeforeHandleOnlyRoute(r),                beforeHandleForm(r)>>,
     <<r.dynamic /\ isSimpleRoute(r) /\ isSingleParamString(r), Fixed("param")>>,
     <<r.dynamic /\ isSimpleRoute(r) /\ isParamsFn(r), paramsOnly(r)>>,
     <<r.dynamic /\ isSimpleRoute(r) /\ usesParamsOnly(r), paramsOnly(r)>>,
     <<r.dynamic /\ isSimpleRoute(r),             simpleDynamic(r)>>,
     <<TRUE,                                      pipelineFallback(r)>> >>

Form(r) == LET chain == Candidates(r) IN chain[Min({i \in DOMAIN chain : chain[i][1]})][2]

(***************************************************************************)
(* What the handler's text asks for and the request has.                   *)
(***************************************************************************)
Asks(r) ==
    LET params == IF r.dynamic THEN {"params"} ELSE {}
    IN  CASE r.arg = "none"        -> {}
          [] r.arg = "request"     -> RequestItself
          [] r.arg = "{request}"   -> {"request"}
          [] r.arg = "{params}"    -> params
          [] r.arg = "ctx{params}" -> params \cup {"rest"}
          [] r.arg = "ctx"         -> params \cup {"request", "rest"} \cup (r.schema \cap {"body"})
=============================================================================
