------------------------------ MODULE Plugins -------------------------------
(***************************************************************************)
(* The hooks of the official HTTP plugins: cors, helmet, cookie, csrf,     *)
(* request-id, basic-auth, body-limit, etag and compress, and the macros   *)
(* of jwt, bearer and api-key, one of which the route may be flagged with. *)
(* A hook is an operator from a context to a context; one that answers in  *)
(* the handler's place leaves its value in ctx.answer.                     *)
(*                                                                         *)
(* How an application is put together is a `stack`: the plugins in the     *)
(* order of app.use, their options, and the runtime (Bun, or Node without  *)
(* the Bun shim).                                                          *)
(***************************************************************************)
EXTENDS Exchange, FiniteSets

PluginNames == {"cors", "helmet", "cookie", "csrf", "requestId", "basicAuth",
                "bodyLimit", "etag", "compress"}

Holds(stack, plugin) == \E i \in DOMAIN stack.plugins : stack.plugins[i] = plugin

\* The context a request starts with.
NewContext(req) ==
    [req |-> req, set |-> NoSet, cookie |-> NoCookies, answer |-> None,
     thrown |-> None, pending |-> Nothing]

Throws(ctx, status) == [ctx EXCEPT !.thrown = status]

\* The macros a route may be flagged with, and the statuses hooks refuse with.
Flags == {"jwt", "bearer", "apiKey"}
RefusalStatuses == {400, 401, 403, 413}
Refusal(status) == Response(<<"refusal", status>>, status, {"content-type"})

ASSUME NoneIsNoAnswer == None \notin Flags /\ \A status \in RefusalStatuses : Refusal(status) # None

\* return Response.json({ error }, { status }), which throws on Node.
Refuses(ctx, status, stack) ==
    IF CanJson(stack.node) THEN [ctx EXCEPT !.answer = Refusal(status)] ELSE Throws(ctx, 500)

WithHeader(ctx, header) == [ctx EXCEPT !.set.headers = @ \cup {header}]
WithStatus(ctx, status) == [ctx EXCEPT !.set.status = status]

-----------------------------------------------------------------------------
(* Cookies on the wire: a value under the layers that protect it.           *)

Plain(value) == [value |-> value, layers |-> <<>>]
Wrapped(wire, layer) == [wire EXCEPT !.layers = <<layer>> \o @]

\* unsignCookieValue, decryptCookieValue: null when the prefix or the check fails.
Unwrapped(wire, layer) ==
    IF wire = None \/ wire.layers = <<>> \/ Head(wire.layers) # layer
    THEN None
    ELSE [wire EXCEPT !.layers = Tail(@)]

\* Sign, then encrypt.
protectCookieValue(wire, stack) ==
    LET signed == IF stack.signed THEN Wrapped(wire, "signed") ELSE wire
    IN IF stack.encrypted THEN Wrapped(signed, "encrypted") ELSE signed

\* Slip: the layers come off in the order they went on.
unprotectInOrder(wire, stack) ==
    LET verified == IF stack.signed THEN Unwrapped(wire, "signed") ELSE wire
    IN IF stack.encrypted THEN Unwrapped(verified, "encrypted") ELSE verified

\* Decrypt, then verify.
unprotectCookieValue(wire, stack) ==
    LET decrypted == IF stack.encrypted THEN Unwrapped(wire, "encrypted") ELSE wire
    IN IF stack.signed THEN Unwrapped(decrypted, "signed") ELSE decrypted

Protected(stack) == Holds(stack, "cookie") /\ (stack.signed \/ stack.encrypted)

-----------------------------------------------------------------------------
(* onRequest. *)

\* resolveAllowOrigin # null
Allows(policy, origin) ==
    /\ origin # None
    /\ \/ origin \in policy.listed
       \/ ~policy.credentials /\ policy.any

cors(ctx, stack) ==
    IF Allows(stack.policy, ctx.req.origin) THEN WithHeader(ctx, "cors") ELSE ctx

helmet(ctx, stack) == WithHeader(ctx, "helmet")

\* cookie: what cannot be verified is dropped.
readCookies(ctx, stack) ==
    [ctx EXCEPT !.cookie =
        [n \in CookieNames |->
            LET wire == ctx.req.cookies[n]
            IN IF wire = None THEN None ELSE unprotectCookieValue(wire, stack)]]

\* ctx.cookie[cookieName]?.value ?? readCookie(header)
CsrfCookie(ctx) ==
    IF ctx.cookie["csrf"] # None THEN ctx.cookie["csrf"] ELSE ctx.req.cookies["csrf"]

\* csrf: a client without a token gets one.
issueToken(ctx, stack) ==
    IF CsrfCookie(ctx) # None
    THEN ctx
    ELSE [ctx EXCEPT !.set.cookie["csrf"] = Plain(ctx.req.id)]

OnRequest(plugin, ctx, stack) ==
    CASE plugin = "cors"   -> cors(ctx, stack)
      [] plugin = "helmet" -> helmet(ctx, stack)
      [] plugin = "cookie" -> readCookies(ctx, stack)
      [] plugin = "csrf"   -> issueToken(ctx, stack)
      [] OTHER -> ctx

-----------------------------------------------------------------------------
(* beforeHandle. *)

requestId(ctx, stack) == WithHeader(ctx, "x-request-id")

\* Slip: only ctx.cookie is looked at, which is empty without the cookie plugin.
TokenMatchesParsed(ctx) ==
    ctx.cookie["csrf"] # None /\ ctx.req.token # None /\ ctx.cookie["csrf"] = ctx.req.token

\* csrf: the header must be the cookie.
TokenMatches(ctx) ==
    LET cookieToken == CsrfCookie(ctx)
    IN cookieToken # None /\ ctx.req.token # None /\ cookieToken = ctx.req.token

checkToken(ctx, stack) ==
    IF ctx.req.method # "POST" \/ TokenMatches(ctx)
    THEN ctx
    ELSE Refuses(WithStatus(ctx, 403), 403, stack)

basicAuth(ctx, stack) ==
    IF ctx.req.credentials = "good"
    THEN ctx
    ELSE Refuses(WithHeader(WithStatus(ctx, 401), "www-authenticate"), 401, stack)

\* resolveBodyLimit: the last rule that applies.
Applies(rule, req) == rule.here /\ (rule.type # None => rule.type = req.type)

resolveBodyLimit(req, stack) ==
    LET applying == {i \in DOMAIN stack.rules : Applies(stack.rules[i], req)}
    IN IF applying = {}
       THEN stack.maxSize
       ELSE stack.rules[CHOOSE i \in applying : \A j \in applying : j <= i].maxSize

checkLength(ctx, stack) ==
    LET status == assertMutatingBodyLimit(ctx.req, resolveBodyLimit(ctx.req, stack))
    IN IF status = None THEN ctx ELSE Refuses(WithStatus(ctx, status), status, stack)

\* verifyJwt at time stack.now; atob of a signature that is no base64 throws.
verifyJwt(token, now) ==
    IF token.shape # "jwt" THEN "null"
    ELSE IF token.signature = "garbled" THEN "throws"
    ELSE IF token.signature # "good" \/ token.exp < now \/ token.nbf > now THEN "null"
    ELSE "payload"

jwtResolve(ctx, stack) ==
    LET verdict == IF ctx.req.bearer = None THEN "null" ELSE verifyJwt(ctx.req.bearer, stack.now)
    IN CASE verdict = "payload" -> ctx
         [] verdict = "throws" -> Throws(ctx, 500)
         [] OTHER -> Refuses(ctx, 401, stack)

\* The bearer macro asks for a token and does not look at it.
bearerResolve(ctx, stack) ==
    IF ctx.req.bearer # None /\ ctx.req.bearer.shape # "empty" THEN ctx ELSE Refuses(ctx, 401, stack)

\* The header, unless it is missing or empty; then the query parameter, if the
\* plugin reads one.
extractKey(req, stack) ==
    IF req.key.header \notin {None, ""} THEN req.key.header
    ELSE IF stack.keyInQuery THEN req.key.query ELSE None

apiKeyResolve(ctx, stack) ==
    LET key == extractKey(ctx.req, stack)
    IN IF key \in stack.keys THEN ctx ELSE Refuses(ctx, 401, stack)

BeforeHandle(plugin, ctx, stack) ==
    CASE plugin = "requestId" -> requestId(ctx, stack)
      [] plugin = "csrf"      -> checkToken(ctx, stack)
      [] plugin = "basicAuth" -> basicAuth(ctx, stack)
      [] plugin = "bodyLimit" -> checkLength(ctx, stack)
      [] plugin = "jwt"       -> jwtResolve(ctx, stack)
      [] plugin = "bearer"    -> bearerResolve(ctx, stack)
      [] plugin = "apiKey"    -> apiKeyResolve(ctx, stack)
      [] OTHER -> ctx

-----------------------------------------------------------------------------
(* mapResponse.  A string has no stream to read on Node: body === null.     *)

Unread(res, value, stack) == res.body = None \/ stack.node

\* The toResponse of etag and compress calls Response.json for an object.
NeedsJson(value, stack) == value.is = "data" /\ value.object /\ ~CanJson(stack.node)

\* cookie: in place, before the reply is built.
protectCookies(ctx, stack) ==
    [ctx EXCEPT !.set.cookie =
        [n \in CookieNames |-> IF @[n] = None THEN None ELSE protectCookieValue(@[n], stack)]]

\* Slip: a digest of the length, which the next version of the page may share.
DigestOfLength(res) == <<"page", res.encoded>>

\* bodyDigest of the bytes, which are the encoded ones behind compress.
Digest(res) == <<res.body, res.encoded>>

\* etag: a reply of any status gets a tag, and is a 304 for who has that tag.
Tagged(ctx, stack) ==
    LET res == AsResponse(ctx.pending)
        tag == Digest(res)
    IN IF res.status = 204 \/ Unread(res, ctx.pending, stack) \/ res.tag # None THEN res
       ELSE IF ctx.req.copy # None /\ ctx.req.copy.tag = tag
            THEN [Response(None, 304, {}) EXCEPT !.tag = tag]
            ELSE [res EXCEPT !.tag = tag]

etag(ctx, stack) ==
    IF NeedsJson(ctx.pending, stack) THEN Throws(ctx, 500)
    ELSE [ctx EXCEPT !.pending = Tagged(ctx, stack)]

\* compress: refusals are below the threshold.
Encoded(ctx, stack) ==
    LET res == AsResponse(ctx.pending)
    IN IF \/ res.status \in {204, 304}
          \/ Unread(res, ctx.pending, stack)
          \/ res.encoded
          \/ res.body[1] # "page"
       THEN res
       ELSE [res EXCEPT !.encoded = TRUE, !.vary = @ \cup {"accept-encoding"}]

\* For a client that accepts gzip.
compress(ctx, stack) ==
    IF ~ctx.req.gzip THEN ctx
    ELSE IF NeedsJson(ctx.pending, stack) THEN Throws(ctx, 500)
    ELSE [ctx EXCEPT !.pending = Encoded(ctx, stack)]

MapResponse(plugin, ctx, stack) ==
    CASE plugin = "cookie"   -> protectCookies(ctx, stack)
      [] plugin = "etag"     -> etag(ctx, stack)
      [] plugin = "compress" -> compress(ctx, stack)
      [] OTHER -> ctx
=============================================================================
