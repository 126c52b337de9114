---------------------------- MODULE PluginStack -----------------------------
(***************************************************************************)
(* One route behind the official HTTP plugins, and a browser that talks to *)
(* it: the cookies it was given come back, it asks with If-None-Match for  *)
(* what it has, be it a page or a refusal, and it echoes the token of its  *)
(* cookie in the header.                                                   *)
(*                                                                         *)
(* The steps of compilePipeline are those of module Pipeline; here each    *)
(* one runs the hooks of the plugins in the order of app.use.  Requests    *)
(* overlap, and replies reach the browser in any order.                    *)
(***************************************************************************)
EXTENDS Plugins

CONSTANTS
    Requests,
    Stacks,      \* the applications considered
    Tokens,      \* the bearer tokens and the API keys a client may hold
    Keys,
    MaxVersion   \* bound: how often the page changes

ASSUME StacksAssumption ==
    \A stack \in Stacks :
        /\ stack.plugins \in Seq(PluginNames)  \* app.use applies each once
        /\ \A i, j \in DOMAIN stack.plugins : stack.plugins[i] = stack.plugins[j] => i = j
        /\ stack.signed \in BOOLEAN /\ stack.encrypted \in BOOLEAN /\ stack.schema \in BOOLEAN
        /\ stack.onError \in BOOLEAN /\ stack.node \in BOOLEAN
        /\ stack.flag \in Flags \cup {None}
        /\ stack.now \in Int
        /\ None \notin stack.keys
        /\ stack.maxSize \in Nat
        /\ DOMAIN stack.rules \subseteq Nat
        /\ \A i \in DOMAIN stack.rules : stack.rules[i].maxSize \in Nat
ASSUME ClientsAssumption ==
    /\ \A token \in Tokens : token.exp \in Int
    /\ \A r \in Requests, layers \in {<<>>, <<"signed">>, <<"encrypted">>, <<"encrypted", "signed">>} :
          [value |-> r, layers |-> layers] # None

VARIABLES
    stack,     \* the application
    at,        \* of each request: the step it is at
    ctx,       \* its context
    answered,  \* what the handler returned for it: a version, or None
    reply,     \* its Response, and whether an error hook made it
    received,  \* the browser has it
    version,   \* of the page
    jar,       \* the browser's cookies: the wire value, and whether an error hook sent it
    cache      \* the last body that came with a validator, and the validator

vars == <<stack, at, ctx, answered, reply, received, version, jar, cache>>

NoReply == [response |-> None, byHook |-> FALSE]

-----------------------------------------------------------------------------
(* The browser. *)

\* An input that no hook of this application looks at has one value.
Choice(matters, options, otherwise) == IF matters THEN options ELSE {otherwise}

\* A Content-Length, when there is one, is the length or (in process) nonsense.
IsFramed(req) ==
    /\ req.method = "GET" => req.declared = None /\ req.size = 0 /\ req.type = None
    /\ req.garbled => req.type = "json"
    /\ req.declared \in {None, req.size, -1}

\* Content types: those that parseBody tells apart; without a schema only rules do.
ContentTypes == IF stack.schema THEN {"json", "multipart", "other", None} ELSE {"json", None}

\* What the browser may ask with now.
Asking(r) ==
    LET has(plugin) == Holds(stack, plugin)
        reads == stack.schema \/ has("bodyLimit")
    IN {req \in
            [id : {r},
             cookies : {[n \in CookieNames |-> IF jar[n] = None THEN None ELSE jar[n].wire]},
             inClear : {{n \in CookieNames : jar[n] # None /\ jar[n].byHook}},
             token : Choice(has("csrf") /\ jar["csrf"] # None, {None, jar["csrf"].wire}, None),
             copy : Choice(has("etag"), {None, cache}, None),
             method : {"GET", "POST"},
             origin : Choice(has("cors"), {None, "listed", "other"}, None),
             gzip : Choice(has("compress"), BOOLEAN, FALSE),
             credentials : Choice(has("basicAuth"), {"good", "bad"}, "bad"),
             bearer : Choice(stack.flag \in {"jwt", "bearer"}, Tokens \cup {None}, None),
             key : Choice(stack.flag = "apiKey",
                          [header : {None, ""} \cup Keys, query : {None} \cup Keys], None),
             type : Choice(reads, ContentTypes, None),
             size : Choice(reads, {0, BodyLimit, BodyLimit + 1}, 0),
             declared : Choice(reads, {None, 0, BodyLimit, BodyLimit + 1, -1}, None),
             garbled : Choice(stack.schema, BOOLEAN, FALSE)] : IsFramed(req)}

Send(r) ==
    /\ at[r] = "idle"
    /\ at' = [at EXCEPT ![r] = "sent"]
    /\ \E req \in Asking(r) : ctx' = [ctx EXCEPT ![r] = NewContext(req)]
    /\ UNCHANGED <<stack, answered, reply, received, version, jar, cache>>

-----------------------------------------------------------------------------
(* run(). *)

Reply(r, c, response, byHook) ==
    /\ at' = [at EXCEPT ![r] = "replied"]
    /\ ctx' = [ctx EXCEPT ![r] = c]
    /\ reply' = [reply EXCEPT ![r] = [response |-> response, byHook |-> byHook]]

\* handleError: an onError hook answers with ctx.set applied but not mapped.
Fails(r, c) ==
    IF stack.onError
    THEN Reply(r, c, toResponse(Data(<<"apology", 0>>, TRUE), c.set, stack.node), TRUE)
    ELSE Reply(r, c, errorToResponse(c.thrown, stack.node), FALSE)

\* The body of a route with a schema is parsed, of another one only measured.
Parsed(c) ==
    LET status == IF c.req.method # "POST" THEN None
                  ELSE IF stack.schema THEN parseBody(c.req, BodyLimit)
                  ELSE assertMutatingBodyLimit(c.req, BodyLimit)
    IN IF status = None THEN c ELSE Throws(c, status)

\* Slip: a Response is taken for an object to merge into the context.
MergeAnswer(c) == [c EXCEPT !.answer = None]

\* handleBeforeResult: a Response ends the chain.
TakeAnswer(c) == c

\* One hook of a step.  Those of beforeHandle are called up to the first that
\* answers or throws, those of mapResponse up to the first that throws.
Hook(step, plugin, c) ==
    CASE step = "onRequest"    -> OnRequest(plugin, c, stack)
      [] step = "beforeHandle" -> IF c.answer # None \/ c.thrown # None
                                  THEN c ELSE TakeAnswer(BeforeHandle(plugin, c, stack))
      [] step = "mapResponse"  -> IF c.thrown # None THEN c ELSE MapResponse(plugin, c, stack)

\* The hooks of a step, in the order of app.use.
Run(step, hooks, c) ==
    LET after[i \in 0..Len(hooks)] == IF i = 0 THEN c ELSE Hook(step, hooks[i], after[i - 1])
    IN  after[Len(hooks)]

Requested(c) == Run("onRequest", stack.plugins, c)

\* The macro of the route's flag runs behind the global hooks.
GuardHooks == stack.plugins \o IF stack.flag # None THEN <<stack.flag>> ELSE <<>>
Guarded(c) == Run("beforeHandle", GuardHooks, c)

\* The server's own answer when run() rejects.
ServerError == Response(<<"text", 500>>, 500, {})

\* finalize(ctx, value, allMap): a hook that throws is past every onError hook.
Finalizes(r, c, value) ==
    LET mapped == Run("mapResponse", stack.plugins, [c EXCEPT !.pending = value])
    IN Reply(r, mapped, IF mapped.thrown # None THEN ServerError
                        ELSE toResponse(mapped.pending, mapped.set, stack.node), FALSE)

\* Up to the handler a request touches nothing but its context.
Admit(r) ==
    /\ at[r] = "sent"
    /\ LET parsed == Parsed(Requested(ctx[r]))
           c == IF parsed.thrown # None THEN parsed ELSE Guarded(parsed)
       IN \/ c.thrown # None /\ Fails(r, c)
          \/ c.thrown = None /\ c.answer # None /\ Finalizes(r, c, c.answer)
          \/ /\ c.thrown = None /\ c.answer = None
             /\ at' = [at EXCEPT ![r] = "handling"]
             /\ ctx' = [ctx EXCEPT ![r] = c]
             /\ UNCHANGED reply
    /\ UNCHANGED <<stack, answered, received, version, jar, cache>>

\* An async handler whose first answer was a Response: its Responses are sent as
\* they are while nothing has touched ctx.set.
Direct(c, value, async) == async /\ value.is = "Response" /\ c.set = NoSet

\* The handler: it may log the user in, set a status, redirect, throw.
Handle(r) ==
    /\ at[r] = "handling"
    /\ answered' = [answered EXCEPT ![r] = version]
    /\ \E status \in {None, 200}, redirect \in BOOLEAN, throws \in BOOLEAN, async \in BOOLEAN,
          login \in Choice(Holds(stack, "cookie"), BOOLEAN, FALSE),
          value \in {Data(<<"page", version>>, FALSE), Data(<<"page", version>>, TRUE),
                    Response(<<"page", version>>, 200, {})} :
            LET c == [ctx[r] EXCEPT !.set.status = status,
                                    !.set.redirect = redirect,
                                    !.set.cookie["session"] = IF login THEN Plain(r) ELSE @]
            IN \/ throws /\ Fails(r, Throws(c, 500))
               \/ ~throws /\ Direct(c, value, async) /\ Reply(r, c, value, FALSE)
               \/ ~throws /\ ~Direct(c, value, async) /\ Finalizes(r, c, value)
    /\ UNCHANGED <<stack, received, version, jar, cache>>

\* The page changes.
Publish ==
    /\ version < MaxVersion
    /\ version' = version + 1
    /\ UNCHANGED <<stack, at, ctx, answered, reply, received, jar, cache>>

\* The browser gets the reply: its cookies, and a body to ask for again.
Receive(r) ==
    LET response == reply[r].response
    IN /\ at[r] = "replied"
       /\ ~received[r]
       /\ received' = [received EXCEPT ![r] = TRUE]
       /\ jar' = [n \in CookieNames |->
                    IF response.cookie[n] = None THEN jar[n]
                    ELSE [wire |-> response.cookie[n], byHook |-> reply[r].byHook]]
       /\ cache' = IF response.tag # None /\ response.body # None
                   THEN [tag |-> response.tag, body |-> response.body]
                   ELSE cache
       /\ UNCHANGED <<stack, at, ctx, answered, reply, version>>

Init ==
    /\ stack \in Stacks
    /\ at = [r \in Requests |-> "idle"]
    /\ ctx = [r \in Requests |-> None]
    /\ answered = [r \in Requests |-> None]
    /\ reply = [r \in Requests |-> NoReply]
    /\ received = [r \in Requests |-> FALSE]
    /\ version = 0
    /\ jar = NoCookies
    /\ cache = None

Next ==
    \/ \E r \in Requests : Send(r) \/ Admit(r) \/ Handle(r) \/ Receive(r)
    \/ Publish

Spec == Init /\ [][Next]_vars

-----------------------------------------------------------------------------
Replied(r) == at[r] = "replied"

\* The handler runs only for a request that every guard in front of it accepts,
\* whatever the other plugins do, and no later hook turns a refusal into a page or
\* a success (beforeHandle of csrf and basic-auth, the macros of jwt, bearer and
\* api-key, the mapResponse hooks behind them).  A client that has a refusal and asks
\* with its tag may get a 304 for it, but only for that very refusal, and from a
\* guard that did not set the status.  An error hook may answer as it likes.
RefusalsStick ==
    \A r \in Requests :
        LET req == ctx[r].req
        IN /\ answered[r] # None =>
                /\ Holds(stack, "basicAuth") => req.credentials = "good"
                /\ stack.flag = "jwt" => /\ req.bearer # None
                                         /\ req.bearer.signature = "good"
                                         /\ req.bearer.exp >= stack.now
                /\ stack.flag = "bearer" => req.bearer # None /\ req.bearer.shape # "empty"
                /\ stack.flag = "apiKey" => {req.key.header, req.key.query} \cap stack.keys # {}
                /\ Holds(stack, "csrf") /\ req.method = "POST" => req.token # None
           /\ Replied(r) /\ answered[r] = None /\ ~reply[r].byHook =>
                \/ reply[r].response.status \in {400, 401, 403, 411, 413, 500}
                \/ /\ reply[r].response.status = 304 /\ ctx[r].set.status = None
                   /\ ctx[r].answer # None /\ req.copy # None /\ req.copy.body = ctx[r].answer.body

\* A browser that echoes the token it was given is not refused for it, also when
\* its requests overlapped and each was given one (csrf onRequest, beforeHandle);
\* except that a protected cookie is never what the hook compares it with.
TokensAdmit ==
    \A r \in Requests :
        LET req == ctx[r].req
        IN Replied(r) /\ ctx[r].set.status = 403 =>
                \/ req.token = None
                \/ Protected(stack)

\* The browser ends up with the page the handler returned for its request: the
\* body is that page, encoded only for a browser that accepts it, or the reply is
\* a 304 and its copy is that page (etag, compress, finalize, applySetHeaders);
\* unless the handler throws, redirects, or sets a status, which overwrites the 304.
\* One page is lost: on Node, etag and compress throw at an object, and the server
\* says 500.
Arrives(r) ==
    LET response == reply[r].response
        copy == ctx[r].req.copy
    IN \/ /\ response.body = <<"page", answered[r]>>
          /\ response.encoded => ctx[r].req.gzip
       \/ response.status = 304 /\ copy # None /\ copy.body = <<"page", answered[r]>>

HandlerThrew(r) == ctx[r].thrown # None /\ ctx[r].pending = Nothing

LostOnNode(r) ==
    /\ NeedsJson(ctx[r].pending, stack)
    /\ Holds(stack, "etag") \/ (Holds(stack, "compress") /\ ctx[r].req.gzip)
    /\ reply[r].response = ServerError

PagesArrive ==
    \A r \in Requests :
        Replied(r) /\ answered[r] # None /\ ~ctx[r].set.redirect /\ ctx[r].set.status = None =>
            HandlerThrew(r) \/ Arrives(r) \/ LostOnNode(r)

\* A cookie that a mapped reply set is read back as the value it was set to,
\* under any combination of signing and encryption (cookie onRequest, mapResponse).
CookiesComeBack ==
    Holds(stack, "cookie") =>
        \A r \in Requests : at[r] \in {"handling", "replied"} =>
            \A n \in CookieNames \ ctx[r].req.inClear :
                ctx[r].req.cookies[n] # None =>
                    ctx[r].cookie[n] = Plain(ctx[r].req.cookies[n].value)

\* No handler gets a body past the limit: none whose Content-Length says so, and
\* none that was parsed for a schema and is longer, with or without one (parseBody,
\* assertMutatingBodyLimit, resolveBodyLimit).  On a route with a schema, a request
\* without a Content-Type is not looked at, whatever length it declares; its body is
\* not parsed either, and only the body-limit plugin refuses it.
BodiesAreBounded ==
    \A r \in Requests : answered[r] # None /\ ctx[r].req.method = "POST" =>
        LET req == ctx[r].req
        IN /\ req.declared # None =>
                \/ req.declared \in 0..BodyLimit
                \/ stack.schema /\ req.type = None
           /\ stack.schema /\ req.type \in ReadTypes => req.size <= BodyLimit
           /\ Holds(stack, "bodyLimit") /\ req.declared # None =>
                \A i \in DOMAIN stack.rules :
                    Applies(stack.rules[i], req)
                        /\ (\A j \in DOMAIN stack.rules : j > i => ~Applies(stack.rules[j], req))
                    => req.declared <= stack.rules[i].maxSize
=============================================================================
