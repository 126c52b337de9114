------------------------------ MODULE Exchange ------------------------------
(***************************************************************************)
(* What goes in and out of a handler: the body of a request as             *)
(* packages/core/src/context.ts and json.ts read it, ctx.set, and the      *)
(* Response that toResponse, applySetHeaders and the problem helpers       *)
(* (error.ts, problem.ts) build from a value.                              *)
(*                                                                         *)
(* A body is <<kind, detail>>; a header is its name, except for the ones a *)
(* plugin reads back: Vary, ETag, Content-Encoding and Set-Cookie.         *)
(***************************************************************************)
EXTENDS Integers, Sequences

CONSTANTS
    None,
    CookieNames,
    BodyLimit    \* options.bodyLimit of the application

\* The types of content that parseBody reads; for any other ctx.body is undefined.
ReadTypes == {"json", "form", "multipart"}

ASSUME ExchangeAssumption ==
    /\ None \notin Nat /\ None \notin ReadTypes
    /\ {"csrf", "session"} \subseteq CookieNames
    /\ BodyLimit \in Nat

NoCookies == [n \in CookieNames |-> None]

\* ctx.set as a request starts with it.
NoSet == [status |-> None, headers |-> {}, redirect |-> FALSE, cookie |-> NoCookies]

-----------------------------------------------------------------------------
(* Values and responses. *)

\* new Response(content, { status, headers })
Response(content, status, headers) ==
    [is |-> "Response", body |-> content, status |-> status, headers |-> headers,
     encoded |-> FALSE, tag |-> None, vary |-> {}, cookie |-> NoCookies]

\* What a hook or handler returned: nothing, a string or an object, a Response.
Nothing == [is |-> "nothing"]
Data(content, object) == [is |-> "data", content |-> content, object |-> object]

\* toResponse(value), without a ctx.set.
AsResponse(value) ==
    CASE value.is = "nothing"  -> Response(None, 204, {})
      [] value.is = "data"     -> Response(value.content, 200, {"content-type"})
      [] value.is = "Response" -> value

\* The status line and headers of set over those of a response: a header that
\* set names replaces the response's, Vary included; cookies are appended.
Overlaid(res, set) ==
    [res EXCEPT
        !.status = IF set.status # None THEN set.status
                   ELSE IF set.redirect THEN 302 ELSE @,
        !.headers = @ \cup set.headers \cup IF set.redirect THEN {"location"} ELSE {},
        !.vary = IF "cors" \in set.headers THEN {"origin"} ELSE @,
        !.cookie = [n \in CookieNames |-> IF set.cookie[n] # None THEN set.cookie[n] ELSE @[n]]]

\* applySetHeaders: on Bun a redirect drops the body of a Response.
applySetHeaders(res, set, node) ==
    LET body == IF set.redirect /\ ~node THEN None ELSE res.body
    IN Overlaid([res EXCEPT !.body = body], set)

\* toResponse(value, set)
toResponse(value, set, node) ==
    IF value.is = "Response"
    THEN applySetHeaders(value, set, node)
    ELSE Overlaid(AsResponse(value), set)

\* Response.json exists on Bun only: OgerResponse, the global of Node, has no
\* static json, and the call throws.
CanJson(node) == ~node

\* errorToResponse and validationResponse, neither of which sees ctx.set.  On
\* Node the helper throws: run() rejects and the server says 500.
errorToResponse(status, node) ==
    IF CanJson(node)
    THEN Response(<<"problem", status>>, status, {"content-type"})
    ELSE Response(<<"text", 500>>, 500, {})

-----------------------------------------------------------------------------
(* Bodies.  size is in characters; declared is the Content-Length, or None. *)

\* The status of the OgerError that is thrown, or None.
assertMutatingBodyLimit(req, limit) ==
    IF req.method # "POST" \/ req.declared = None THEN None
    ELSE IF req.declared < 0 THEN 400
    ELSE IF req.declared > limit THEN 413 ELSE None

\* Slip: the declared length is taken for the length.
TrustLength(req, limit) ==
    IF req.type = "json" /\ req.garbled THEN 400 ELSE None

\* readLimitedText and readJsonBody, which count what came.
ReadText(req, limit) ==
    IF req.size > limit THEN 413
    ELSE IF req.type = "json" /\ req.garbled THEN 400 ELSE None

\* parseBody: of a request without a Content-Type it looks at nothing else.
parseBody(req, limit) ==
    IF req.type = None THEN None
    ELSE IF req.declared # None /\ req.declared < 0 THEN 400
    ELSE IF req.declared # None /\ req.declared > limit THEN 413
    ELSE IF req.type \in {"json", "form"} THEN ReadText(req, limit)
    ELSE IF req.type = "multipart" /\ req.declared = None THEN 411 ELSE None
=============================================================================
